--------------------------- MODULE ChunkedDecoder ---------------------------
(***************************************************************************)
(* IncrementalAwsChunkedDecoder, which the cache branch of a streamed PUT  *)
(* feeds frame by frame, beside decode_aws_chunked, which decodes a whole  *)
(* body.  A byte is one of a few symbols: CR, LF, two hex digits, a colon  *)
(* and one that is none of these.                                          *)
(***************************************************************************)
EXTENDS Integers, Sequences, SequencesExt

CR == "r"
LF == "n"
Digit == [zero |-> "0", two |-> "2"]
Colon == ":"
CRLF == <<CR, LF>>
Octets == {CR, LF, Digit.zero, Digit.two, Colon, "x"}

CONSTANTS
    Bodies,     \* request bodies, as the client framed them
    MaxSection  \* MAX_TRAILER_SECTION_BYTES

ASSUME DecoderAssumption == Bodies \subseteq Seq(Octets) /\ MaxSection \in Nat

VARIABLES
    encoded,  \* the body of the request
    fed,      \* how many of its bytes were pushed
    dec       \* the decoder, with the bytes it has emitted

decoderVars == <<encoded, fed, dec>>

NewDecoder == [st |-> "header", left |-> 0, line |-> <<>>, out |-> <<>>]

DecoderInit == encoded \in Bodies /\ fed = 0 /\ dec = NewDecoder

-----------------------------------------------------------------------------

IsSize(line) == line # <<>> /\ \A i \in DOMAIN line : line[i] \in {Digit.zero, Digit.two}
Hex(line) ==
    FoldLeft(LAMBDA n, d : 16 * n + (IF d = Digit.two THEN 2 ELSE 0), 0, line)

EndsWith(s, t) == Len(s) >= Len(t) /\ SubSeq(s, Len(s) - Len(t) + 1, Len(s)) = t
Earliest(S) == CHOOSE k \in S : \A j \in S : k <= j

\* Bytes from..k of input were appended to line.
Fed(line, input, from, k) == line \o SubSeq(input, from, k)
LineEnds(line) == EndsWith(line, CRLF)
SectionEnds(line) == line = CRLF \/ EndsWith(line, CRLF \o CRLF)
\* Where feed_line and feed_trailers stop: at the end they look for, or over
\* the cap; 0 when the input runs out first.
Stop(Ends(_), line, input, from) ==
    LET stops == {k \in from .. Len(input) :
                    LET fedTo == Fed(line, input, from, k) IN Ends(fedTo) \/ Len(fedTo) > MaxSection}
    IN IF stops = {} THEN 0 ELSE Earliest(stops)

\* Position after the first CRLF at or after pos; 0 when there is none.
AfterCrlf(s, pos) ==
    LET ends == {i \in pos .. Len(s) - 1 : s[i] = CR /\ s[i + 1] = LF}
    IN IF ends = {} THEN 0 ELSE Earliest(ends) + 2

\* parse_trailers of a section that starts at start, from each position: the
\* position after the section, or 0.
TrailersFrom(s, start) ==
    LET after[pos \in 1 .. Len(s) + 1] ==
            LET next == AfterCrlf(s, pos) IN
            IF next = 0 THEN 0
            ELSE IF next = pos + 2 THEN next
            ELSE IF next - start > MaxSection \/ \A i \in pos .. next - 3 : s[i] # Colon THEN 0
            ELSE after[next]
    IN after
AfterTrailers(s, start) == TrailersFrom(s, start)[start]

\* One turn of push's loop, at cursor c of the frame: the decoder and cursor
\* after it.
At(d, c) == [dec |-> d, cursor |-> c]
Failed(d) == [d EXCEPT !.st = "failed"]
HeaderTurn(d, input, c) ==
    LET k == Stop(LineEnds, d.line, input, c)
        whole == Fed(d.line, input, c, k)
        line == SubSeq(whole, 1, Len(whole) - 2)
    IN IF k = 0 THEN At([d EXCEPT !.line = Fed(@, input, c, Len(input))], Len(input) + 1)
       ELSE IF ~LineEnds(whole) \/ ~IsSize(line) THEN At(Failed(d), Len(input) + 1)
       ELSE At([d EXCEPT !.line = <<>>, !.left = Hex(line),
                         !.st = IF Hex(line) = 0 THEN "trailers" ELSE "data"], k + 1)

\* Seeded fault: a chunk split between frames is taken to end with the frame.
FaultChunkEndsWithFrame(d, take) == 0
LeftAfter(d, take) == d.left - take

DataTurn(d, input, c) ==
    LET avail == Len(input) - c + 1
        take == IF d.left < avail THEN d.left ELSE avail
        left == LeftAfter(d, take)
    IN At([d EXCEPT !.out = @ \o SubSeq(input, c, c + take - 1), !.left = left,
                    !.st = IF left = 0 THEN "cr" ELSE "data"], c + take)

CrlfTurn(d, input, c) ==
    IF input[c] # (IF d.st = "cr" THEN CR ELSE LF) THEN At(Failed(d), Len(input) + 1)
    ELSE At([d EXCEPT !.st = IF d.st = "cr" THEN "lf" ELSE "header"], c + 1)

TrailersTurn(d, input, c) ==
    LET k == Stop(SectionEnds, d.line, input, c)
        section == Fed(d.line, input, c, k)
    IN IF k = 0 THEN At([d EXCEPT !.line = Fed(@, input, c, Len(input))], Len(input) + 1)
       ELSE IF ~SectionEnds(section) \/ AfterTrailers(section, 1) = 0
            THEN At(Failed(d), Len(input) + 1)
       ELSE At([d EXCEPT !.line = <<>>, !.st = "done"], k + 1)

Turn(d, input, c) ==
    CASE d.st = "header" -> HeaderTurn(d, input, c)
      [] d.st = "data" -> DataTurn(d, input, c)
      [] d.st \in {"cr", "lf"} -> CrlfTurn(d, input, c)
      [] d.st = "trailers" -> TrailersTurn(d, input, c)
      [] OTHER -> At(Failed(d), Len(input) + 1)

\* push: a turn takes at least one byte, so there are no more turns than bytes.
NextTurn(at, input) ==
    IF at.cursor > Len(input) THEN at ELSE Turn(at.dec, input, at.cursor)
Pushed(d, input) ==
    LET after[n \in 0 .. Len(input)] ==
            IF n = 0 THEN At(d, 1) ELSE NextTurn(after[n - 1], input)
    IN after[Len(input)].dec

\* A frame of any length arrives; after an error the decoder is not fed.
Push ==
    /\ dec.st # "failed"
    /\ \E to \in fed + 1 .. Len(encoded) :
        /\ dec' = Pushed(dec, SubSeq(encoded, fed + 1, to))
        /\ fed' = to
    /\ UNCHANGED encoded

DecoderNext == Push
DecoderSpec == DecoderInit /\ [][DecoderNext]_decoderVars

-----------------------------------------------------------------------------

Longer(a, b) == IF a > b THEN a ELSE b
Nothing == [ok |-> FALSE, data |-> <<>>, longest |-> 0]
\* decode_aws_chunked from each position of a whole body: the bytes decoded,
\* and the longest size line or trailer section, with its CRLFs.
WholeFrom(s) ==
    LET decoded[pos \in 1 .. Len(s) + 1] ==
            LET next == AfterCrlf(s, pos)
                line == SubSeq(s, pos, next - 3)
                end == next + Hex(line)
                after == AfterTrailers(s, next)
            IN IF next = 0 \/ ~IsSize(line) THEN Nothing
               ELSE IF Hex(line) = 0
                    THEN IF after # Len(s) + 1 THEN Nothing
                         ELSE [ok |-> TRUE, data |-> <<>>,
                               longest |-> Longer(next - pos, after - next)]
               ELSE IF end + 1 > Len(s) \/ SubSeq(s, end, end + 1) # CRLF THEN Nothing
               ELSE [decoded[end + 2] EXCEPT !.data = SubSeq(s, next, end - 1) \o @,
                                             !.longest = Longer(next - pos, @)]
    IN decoded
Whole(s) == WholeFrom(s)[1]

\* "The whole-buffer decode_aws_chunked is retained as the ... equivalence
\* oracle" (aws_chunked_decoder.rs:507): however the body is cut into frames,
\* the bytes cached are the ones the whole body decodes to, and a body is
\* refused when and only when it is refused as a whole; but for one with a size
\* line or a trailer section over the cap, which only the frames' decoder
\* enforces on a size line and on the CRLF that closes the trailers.
DecodedAsWhole ==
    fed = Len(encoded) \/ dec.st = "failed" =>
        LET whole == Whole(encoded) IN
        \/ whole.longest > MaxSection + 1 /\ dec.st = "failed"
        \/ /\ (dec.st = "done") = whole.ok
           /\ whole.ok => dec.out = whole.data

=============================================================================
