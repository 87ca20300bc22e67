------------------------- MODULE MCUploadsAndSweep -------------------------
(***************************************************************************)
(* Three instances that share no state, side by side: a multipart upload,  *)
(* the decoding of a streamed body, and the sweep for orphaned files while *)
(* an object is stored, uploaded and evicted.  part names the one that     *)
(* moves, the others stay in an initial state.                             *)
(***************************************************************************)
EXTENDS MultipartUpload, ChunkedDecoder, OrphanRecovery, TLC

CONSTANTS c1, c2, MaxPieces

VARIABLE part

vars == <<part, mpuVars, decoderVars, recoveryVars>>

\* Part 1 is uploaded twice, part 2 once.
ThreeUploads == {<<1, 1>>, <<1, 2>>, <<2, 1>>}
CompleterSymmetry == Permutations(Completers)

\* The object is replaced once.
OneReplacement == <<"a", "b">>

\* Bodies put together from headers, data, trailers and stray bytes.
Pieces == {<<"2">> \o CRLF, <<"0">> \o CRLF, CRLF, <<"x", "x">>, <<":">> \o CRLF, <<CR>>, <<LF>>,
           <<"0", "0">>}
RECURSIVE Concatenations(_)
Concatenations(n) ==
    IF n = 0 THEN {<<>>} ELSE {p \o s : p \in Pieces, s \in Concatenations(n - 1)}
PiecedBodies == Concatenations(MaxPieces)

\* Of the three uploads and the two completions, one never happens.
MpuStart ==
    /\ stage = NoStage
    /\ s3Upload = [state |-> "open", parts |-> NoParts, object |-> <<>>]
    /\ cachedAs = [what |-> "old", parts |-> <<>>] /\ mpuMishaps = {}
    /\ \E out \in Tries \cup Completers :
        /\ partTask = [t \in Tries |-> IF t = out THEN [NoTask EXCEPT !.pc = "done"] ELSE NoTask]
        /\ finish = [c \in Completers |-> IF c = out THEN [NoFinish EXCEPT !.pc = "done"] ELSE NoFinish]

DecoderIdle == encoded = <<>> /\ fed = 0 /\ dec = NewDecoder
RecoveryIdle == RecoveryInit /\ rfiles = {}

Init ==
    \/ part = "mpu" /\ MpuStart /\ DecoderIdle /\ RecoveryIdle
    \/ part = "decoder" /\ MpuInit /\ DecoderInit /\ RecoveryIdle
    \/ part = "sweep" /\ MpuInit /\ DecoderIdle /\ RecoveryInit

Next ==
    \/ part = "mpu" /\ MpuNext /\ UNCHANGED <<part, decoderVars, recoveryVars>>
    \/ part = "decoder" /\ DecoderNext /\ UNCHANGED <<part, mpuVars, recoveryVars>>
    \/ part = "sweep" /\ RecoveryNext /\ UNCHANGED <<part, mpuVars, decoderVars>>

Spec == Init /\ [][Next]_vars

=============================================================================
