-------------------------- MODULE RangeArithmetic --------------------------
(***************************************************************************)
(* The arithmetic of byte ranges between the Range header and the body: a  *)
(* header is parsed, cached extents that overlap it are looked up, missing *)
(* ranges are computed, consolidated across small gaps and fetched, and    *)
(* cached and fetched segments are merged.  Bounds are inclusive, and a    *)
(* stored range is the sequence of its bytes, each byte its own offset, so *)
(* that every slice is an index computation as in the code.                *)
(***************************************************************************)
EXTENDS Integers, Sequences, FiniteSets, Filter

CONSTANTS
    ObjectSize,     \* bytes of the object
    PageSize,       \* page_size of page-aligned widening
    GapThresholds,  \* values of range_merge_gap_threshold
    MaxExtents      \* bound: cached extents of the object

ASSUME RangeAssumption ==
    /\ ObjectSize \in Nat \ {0} /\ PageSize \in Nat \ {0}
    /\ GapThresholds \subseteq Nat /\ MaxExtents \in Nat

Offsets == 0..(ObjectSize - 1)
Span(a, b) == [start |-> a, end |-> b]
Spans == {Span(a, b) : a \in Offsets, b \in Offsets}
Extents == {r \in Spans : r.start <= r.end}
BytesOf(r) == r.start..r.end
BytesIn(rs) == UNION {BytesOf(rs[i]) : i \in DOMAIN rs}
Least(a, b) == IF a < b THEN a ELSE b
Most(a, b) == IF a > b THEN a ELSE b

NoBound == -1
Invalid == Span(1, 0)

VARIABLES
    spec,       \* the Range header: first-last, first- or -last
    gap,        \* range_merge_gap_threshold
    extents,    \* the ranges .meta lists, in its order
    step,       \* where the request is
    want,       \* the parsed range
    overlap,    \* cached_ranges of RangeOverlap
    missing,    \* missing_ranges
    asked,      \* the consolidated ranges
    fetched,    \* the ones S3 answered
    body        \* the merged bytes, or <<>> when the merge was refused

rangeVars == <<spec, gap, extents, step, want, overlap, missing, asked, fetched, body>>

-----------------------------------------------------------------------------
(* Parsing                                                                 *)

\* Seeded fault: a suffix starts one byte late.
FaultSuffixOffByOne(s, size) == Span(size - s.last + 1, size - 1)
\* bytes=-n: the last n bytes, or all there are.
SuffixRange(s, size) == Span(Most(size - s.last, 0), size - 1)

\* parse_single_range_spec, for an object whose size is known.
ParseRange(s, size) ==
    CASE s.first # NoBound /\ s.last # NoBound ->
            IF s.first > s.last \/ s.first >= size THEN Invalid
            ELSE Span(s.first, Least(s.last, size - 1))
      [] s.first # NoBound /\ s.last = NoBound ->
            IF s.first >= size THEN Invalid ELSE Span(s.first, size - 1)
      [] s.first = NoBound /\ s.last # NoBound ->
            IF s.last = 0 THEN Invalid ELSE SuffixRange(s, size)
      [] OTHER -> Invalid

\* page_bounds and overlapping_pages
PageBounds(start, size) ==
    LET first == (start \div PageSize) * PageSize IN
    Span(first, Least(first + PageSize - 1, size - 1))
\* Seeded fault: only the page of the first byte.
FaultFirstPageOnly(r, size) == <<PageBounds(r.start, size)>>
OverlappingPages(r, size) ==
    LET first == PageBounds(r.start, size)
        last == PageBounds(r.end, size) IN
    IF last # first THEN <<first, last>> ELSE <<first>>

-----------------------------------------------------------------------------
(* Lookup and missing ranges                                               *)

Overlaps(r, q) == q.start <= r.end /\ r.start <= q.end
Clip(r, q) == Span(Most(r.start, q.start), Least(r.end, q.end))

\* sort_by_key(start), stable.
InsertByStart(acc, r) ==
    LET before == {x \in ToSet(acc) : x.start <= r.start} IN
    Keep(acc, before) \o <<r>> \o Keep(acc, ToSet(acc) \ before)
SortByStart(rs) == FoldLeft(InsertByStart, <<>>, rs)

\* find_cached_ranges: the first listed extent that holds all of the request,
\* or every one that overlaps it.
FindCached(q, rs) ==
    LET hits == Keep(rs, {r \in ToSet(rs) : Overlaps(r, q)})
        whole == Keep(hits, {r \in ToSet(hits) : r.start <= q.start /\ r.end >= q.end}) IN
    IF whole # <<>> THEN <<Head(whole)>> ELSE SortByStart(hits)

\* Joins neighbours in start order while at most g bytes lie between them.
JoinNext(acc, r, g) ==
    IF acc # <<>> /\ Last(acc).end + 1 + g >= r.start
    THEN [acc EXCEPT ![Len(acc)].end = Most(@, r.end)]
    ELSE Append(acc, r)
Join(rs, g) == FoldLeft(LAMBDA acc, r : JoinNext(acc, r, g), <<>>, SortByStart(rs))
MergeRanges(rs) == Join(rs, 0)

\* Seeded fault: the byte after a covered range is taken as covered.
FaultSkipsAByte(acc, r) ==
    [pos |-> Most(acc.pos, r.end + 2),
     out |-> IF acc.pos < r.start THEN Append(acc.out, Span(acc.pos, r.start - 1)) ELSE acc.out]
\* The gap before a covered range, if there is one.
GapBefore(acc, r) ==
    [pos |-> Most(acc.pos, r.end + 1),
     out |-> IF acc.pos < r.start THEN Append(acc.out, Span(acc.pos, r.start - 1)) ELSE acc.out]
\* calculate_missing_ranges, and its copy for pages.
MissingRanges(q, covered) ==
    LET gaps == FoldLeft(GapBefore, [pos |-> q.start, out |-> <<>>], MergeRanges(covered)) IN
    IF gaps.pos <= q.end THEN Append(gaps.out, Span(gaps.pos, q.end)) ELSE gaps.out

\* Seeded fault: the gap is counted from the end of the range, one byte less.
FaultGapOffByOne(rs, g) == Join(rs, g + 1)
\* consolidate_missing_ranges
Consolidate(rs, g) == IF Len(rs) <= 1 THEN rs ELSE Join(rs, g)

-----------------------------------------------------------------------------
(* Merging                                                                 *)

\* The stored bytes of a range, and a slice of them by offset and length.
DataOf(r) == [i \in 1..(r.end - r.start + 1) |-> r.start + i - 1]
Slice(data, offset, length) == SubSeq(data, offset + 1, offset + length)

\* One segment per source that overlaps the request, cached ones first.
Segments(q, cached, new) ==
    SortByStart([i \in DOMAIN (cached \o new) |->
        LET r == (cached \o new)[i] IN
        [start |-> Clip(r, q).start, end |-> Clip(r, q).end, source |-> r]])

\* The checks before assembly compare each segment with the one before it.
Aligned(q, segs) ==
    /\ segs # <<>>
    /\ Head(segs).start = q.start
    /\ \A i \in 1..(Len(segs) - 1) : segs[i + 1].start <= segs[i].end + 1
    /\ Last(segs).end = q.end

\* Seeded fault: the slice is taken from the start of the stored bytes.
FaultIgnoresOffset(pos, seg) ==
    IF seg.end < pos THEN <<>>
    ELSE Slice(DataOf(seg.source), 0, seg.end - Most(pos, seg.start) + 1)
\* The bytes of a segment from pos on: nothing if they are all written.
Contribution(pos, seg) ==
    IF seg.end < pos THEN <<>>
    ELSE LET from == Most(pos, seg.start) IN
         Slice(DataOf(seg.source), from - seg.source.start, seg.end - from + 1)

Write(acc, seg) ==
    [pos |-> Most(acc.pos, seg.end + 1), out |-> acc.out \o Contribution(acc.pos, seg)]
Assemble(q, segs) == FoldLeft(Write, [pos |-> q.start, out |-> <<>>], segs).out

\* merge_range_segments: <<>> when the segments or the size do not fit.
Merge(q, cached, new) ==
    LET segs == Segments(q, cached, Keep(new, {r \in ToSet(new) : Overlaps(r, q)}))
        out == Assemble(q, segs) IN
    IF Aligned(q, segs) /\ Len(out) = q.end - q.start + 1 THEN out ELSE <<>>

-----------------------------------------------------------------------------
(* A range request                                                         *)

\* Extents are stored whole and distinct, in any order, nested or overlapping.
RangeInit ==
    /\ spec \in [first : Offsets \cup {NoBound, ObjectSize},
                 last : Offsets \cup {NoBound, ObjectSize}]
    /\ gap \in GapThresholds
    /\ \E n \in 0..MaxExtents :
        extents \in {rs \in [1..n -> Extents] : IsInjective(rs)}
    /\ step = "parse"
    /\ want = Invalid
    /\ overlap = <<>> /\ missing = <<>> /\ asked = <<>> /\ fetched = <<>> /\ body = <<>>

Parse ==
    /\ step = "parse"
    /\ want' = ParseRange(spec, ObjectSize)
    /\ step' = IF want' = Invalid THEN "forwarded" ELSE "lookup"
    /\ UNCHANGED <<spec, gap, extents, overlap, missing, asked, fetched, body>>

\* What is missing decides: nothing, and the cache serves; otherwise the
\* consolidated ranges are asked for.
Lookup ==
    /\ step = "lookup"
    /\ overlap' = FindCached(want, extents)
    /\ missing' = MissingRanges(want, [i \in DOMAIN overlap' |-> Clip(overlap'[i], want)])
    /\ asked' = Consolidate(missing', gap)
    /\ step' = IF missing' = <<>> THEN "merge" ELSE "fetch"
    /\ UNCHANGED <<spec, gap, extents, want, fetched, body>>

\* Some of the concurrent fetches may fail; the rest are merged all the same.
FetchMissing ==
    /\ step = "fetch"
    /\ \E keep \in SUBSET (DOMAIN asked) :
        /\ fetched' = Keep(asked, {asked[i] : i \in keep})
        /\ step' = IF keep = {} THEN "forwarded" ELSE "merge"
    /\ UNCHANGED <<spec, gap, extents, want, overlap, missing, asked, body>>

\* A refused merge falls back to fetching the whole range.
MergeSegments ==
    /\ step = "merge"
    /\ body' = Merge(want, overlap, fetched)
    /\ step' = IF body' = <<>> THEN "fallback" ELSE "served"
    /\ UNCHANGED <<spec, gap, extents, want, overlap, missing, asked, fetched>>

RangeDone == step \in {"served", "fallback", "forwarded"} /\ UNCHANGED rangeVars

RangeNext == Parse \/ Lookup \/ FetchMissing \/ MergeSegments \/ RangeDone

RangeSpec == RangeInit /\ [][RangeNext]_rangeVars

-----------------------------------------------------------------------------
(* Properties                                                              *)

Parsed == step # "parse" /\ want # Invalid

\* The parsed range is the set of bytes RFC 9110 gives the header: from first
\* to last, to the end, or the last n; a request for no byte is refused.
Selected(s) ==
    IF s.first = NoBound
    THEN IF s.last = NoBound THEN {} ELSE {b \in Offsets : ObjectSize - b <= s.last}
    ELSE {b \in Offsets : b >= s.first /\ (s.last = NoBound \/ b <= s.last)}
ParsedRangeIsSelected ==
    step # "parse" => (IF want = Invalid THEN {} ELSE BytesOf(want)) = Selected(spec)

\* A widened read shorter than a page has the pages that hold it, which start
\* on the page grid and end inside the object.
PagesHoldTheRequest ==
    Parsed /\ Cardinality(BytesOf(want)) < PageSize =>
        LET pages == OverlappingPages(want, ObjectSize) IN
        /\ BytesOf(want) \subseteq BytesIn(pages)
        /\ BytesIn(pages) \subseteq Offsets
        /\ \A i \in DOMAIN pages : pages[i].start % PageSize = 0

\* The missing ranges are exactly the requested bytes that no cached extent
\* holds, however the extents nest, touch or overlap.
MissingIsExact ==
    step \in {"fetch", "merge", "served", "fallback"} =>
        BytesIn(missing) = BytesOf(want) \ BytesIn(extents)

\* The consolidated ranges ask for every missing byte and for none outside the
\* request, and ranges they keep apart are more than the threshold apart.
ConsolidationCovers ==
    /\ BytesIn(missing) \subseteq BytesIn(asked)
    /\ asked # <<>> => BytesIn(asked) \subseteq BytesOf(want)
    /\ \A i \in 1..(Len(asked) - 1) :
        /\ asked[i + 1].start - asked[i].end > gap + 1
        /\ asked[i].end \in BytesIn(missing) /\ asked[i + 1].start \in BytesIn(missing)
    /\ \A i \in DOMAIN asked :
        \A b \in BytesOf(asked[i]) \ BytesIn(missing) :
            \E lo, hi \in BytesIn(missing) : lo < b /\ b < hi /\ hi - lo <= gap + 1

\* A merged body is the requested bytes in order, each once, whatever overlaps,
\* was fetched twice or failed to be fetched; otherwise the merge is refused.
MergedBodyIsExact == step = "served" => body = DataOf(want)

=============================================================================
