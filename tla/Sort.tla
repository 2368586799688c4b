------------------------------- MODULE Sort -------------------------------
(***************************************************************************)
(* The value sorts of sublimation (src/sublimation/src/sort_impl.h,          *)
(* merge_impl.h, classify_impl.h, radix.c, parallel/radix_par_impl.h,        *)
(* pack.c, select.c): classify an array, then sort it by the algorithm the   *)
(* class calls for.                                                          *)
(*                                                                         *)
(* An element is <<key, bits>>: what < compares, and what tells apart two     *)
(* elements that compare equal (the two zeros of a float, the index that a    *)
(* slot carries).  What the classifier samples (inversions, distinct values,  *)
(* the regime change) may come out any way: the sort has to be right whatever *)
(* it is told.  The allocations of one call fail together, or none does.      *)
(* The engine that runs the frames is DfsPool.                                *)
(***************************************************************************)
EXTENDS Integers, Sequences, FiniteSets, SequencesExt, FiniteSetsExt

CONSTANTS Ints, Floats,   \* the elements of the arrays
          Nan,            \* the float that is no number
          IntLen, FloatLen, SlotLen,   \* longest arrays
          MaxK, Probe,    \* COUNTING_SORT_MAX_K, COUNTING_SORT_PROBE
          SmallK,         \* 8
          QuickMin,       \* 24
          MinMerge, TailMin, MaxRuns,  \* SUB_MIN_MERGE, 64, 511
          MinGallop,      \* SUB_MIN_GALLOP
          FewRuns,        \* 16
          RadixMin,       \* RADIX_INSERTION
          Base, Passes,   \* 256, and the bytes of an element
          FlagMin,        \* SUB_PAR_INS
          ParallelMin, RadixParMin,    \* SUB_PARALLEL_THRESHOLD, SUB_RADIX_PAR_MIN_T
          Chunks,         \* of sub_smerge_par()
          PackMin,        \* SUB_PACK_ADAPT_MIN
          PatienceMin     \* SUB_PATIENCE_THRESHOLD

ASSUME SortBounds ==
    /\ {IntLen, FloatLen, SlotLen, MaxK, Probe, SmallK, TailMin, MaxRuns, FewRuns, PatienceMin} \subseteq Nat
    /\ {QuickMin, MinMerge, RadixMin, FlagMin, ParallelMin, RadixParMin, PackMin} \subseteq Nat \ {0}
    /\ MinGallop \in Nat \ {0} /\ Chunks \in Nat \ {0, 1} /\ Base \in Nat \ {0, 1} /\ Passes \in Nat \ {0}
    /\ Ints \cap Floats = {}
    /\ \A v \in Ints \cup (Floats \ {Nan}) : 2 * v[1] + v[2] \in 0 .. Base^Passes - 1

VARIABLES entry,   \* the function called
          input,   \* the array it was called with
          arr,     \* the array as it is
          fin,     \* elements in front of the NaNs
          prof,    \* the profile, once classified
          sortAt       \* "entry", "fast", "full" or "done"
sortVars == <<entry, input, arr, fin, prof, sortAt>>

K(x) == x[1]
InOrder(s) == \A i \in 1 .. Len(s) - 1 : K(s[i]) <= K(s[i + 1])
Swap(s, i, j) == [s EXCEPT ![i] = s[j], ![j] = s[i]]
Cut(s, i) == SubSeq(s, i, Len(s))
Prefix(s, n) == SubSeq(s, 1, n)

\* the element as an unsigned number that orders as it does
OrderKey(x) == 2 * x[1] + x[2]
Digit(x, level) == (OrderKey(x) \div Base^level) % Base

----------------------------------------------------------------------------
(* Insertion, heap and quick sort.                                          *)

\* an element goes behind those that are not greater
InsertionBy(s, key(_)) ==
    FoldLeft(LAMBDA t, x : InsertAt(t, Cardinality({i \in DOMAIN t : key(t[i]) <= key(x)}) + 1, x),
             <<>>, s)
Insertion(s) == InsertionBy(s, K)

RECURSIVE siftdown(_, _, _)
siftdown(s, root, n) ==
    LET left == 2 * root
        child == IF left < n /\ K(s[left]) < K(s[left + 1]) THEN left + 1 ELSE left
    IN  IF left > n \/ K(s[root]) >= K(s[child]) THEN s ELSE siftdown(Swap(s, root, child), child, n)

light_heapsort(s) ==
    LET n == Len(s)
        heap == FoldLeft(LAMBDA t, i : siftdown(t, i, n), s, [k \in 1 .. n \div 2 |-> n \div 2 + 1 - k])
    IN  FoldLeft(LAMBDA t, i : siftdown(Swap(t, 1, i), 1, i - 1), heap, [k \in 1 .. n - 1 |-> n + 1 - k])

\* the partition of light_qsort() and of select(), with i and j
RECURSIVE Hoare(_, _, _, _)
Hoare(s, pivot, i, j) ==
    IF i > j THEN [s |-> s, i |-> i, j |-> j]
    ELSE IF K(s[i]) < K(pivot) THEN Hoare(s, pivot, i + 1, j)
    ELSE IF K(s[j]) > K(pivot) THEN Hoare(s, pivot, i, j - 1)
    ELSE IF j = 1 THEN [s |-> Swap(s, i, j), i |-> i + 1, j |-> j]
    ELSE Hoare(Swap(s, i, j), pivot, i + 1, j - 1)

\* the least, the middle and the last element in order
MedianOf3(s) ==
    LET mid == Len(s) \div 2 + 1
        Ordered(t, i, j) == IF K(t[i]) > K(t[j]) THEN Swap(t, i, j) ELSE t
    IN  Ordered(Ordered(Ordered(s, 1, mid), mid, Len(s)), 1, mid)

RECURSIVE light_qsort(_, _)
light_qsort(s, depth) ==
    IF Len(s) <= QuickMin THEN Insertion(s)
    ELSE IF depth = 0 THEN light_heapsort(s)
    ELSE LET m == MedianOf3(s)
             h == Hoare(m, m[Len(s) \div 2 + 1], 1, Len(s))
         IN  light_qsort(Prefix(h.s, h.j), depth - 1) \o SubSeq(h.s, h.j + 1, h.i - 1)
             \o light_qsort(Cut(h.s, h.i), depth - 1)

light_sort(s) ==
    light_qsort(s, 2 * CHOOSE d \in 0 .. Len(s) : 2^d <= Len(s) /\ Len(s) < 2^(d + 1))

\* select(): the k-th smallest, counted from 1
RECURSIVE select(_, _, _, _)
select(s, left, right, k) ==
    LET h == Hoare(s, s[(left + right) \div 2], left, right)
    IN  CASE left >= right -> s
          [] left < right /\ k <= h.j -> select(h.s, left, h.j, k)
          [] left < right /\ k > h.j /\ k >= h.i -> select(h.s, h.i, right, k)
          [] OTHER -> h.s

----------------------------------------------------------------------------
(* Radix sorts.                                                             *)

\* one stable pass by a byte, skipped when the byte is the same everywhere
LsdPass(s, p) ==
    IF \A x \in Range(s) : Digit(x, p) = Digit(s[1], p) THEN s
    ELSE FlattenSeq([d \in 1 .. Base |-> SelectSeq(s, LAMBDA x : Digit(x, p) = d - 1)])

radix_core(s) ==
    IF Len(s) < RadixMin THEN InsertionBy(s, OrderKey)
    ELSE FoldLeft(LsdPass, s, [p \in 1 .. Passes |-> p - 1])

radix_sort(s, oom) == IF Len(s) < 2 THEN s ELSE IF oom THEN Insertion(s) ELSE radix_core(s)

\* the American Flag pass: follow each cycle of misplaced elements
RECURSIVE Cycle(_, _, _, _, _)
Cycle(s, next, v, b, level) ==
    LET d == Digit(v, level)
        placed == [s EXCEPT ![next[d]] = v]
        moved == [next EXCEPT ![d] = @ + 1]
    IN  IF d = b THEN [s |-> placed, next |-> moved] ELSE Cycle(placed, moved, s[next[d]], b, level)

RECURSIVE Fill(_, _, _, _, _)
Fill(s, next, end, b, level) ==
    IF b = Base THEN s
    ELSE IF next[b] >= end[b] THEN Fill(s, next, end, b + 1, level)
    ELSE LET c == Cycle(s, next, s[next[b]], b, level) IN Fill(c.s, c.next, end, b, level)

DigitBelow(s, b, level) == Cardinality({i \in DOMAIN s : Digit(s[i], level) < b})

rp_pass(s, level) ==
    Fill(s, [b \in 0 .. Base - 1 |-> DigitBelow(s, b, level) + 1],
         [b \in 0 .. Base - 1 |-> DigitBelow(s, b + 1, level) + 1], 0, level)

\* a bucket is a frame of its own or goes on in this one: either way it is
\* sorted by the bytes below
RECURSIVE rp_serial(_, _)
rp_serial(s, level) ==
    IF Len(s) <= FlagMin \/ level < 0 THEN Insertion(s)
    ELSE LET t == rp_pass(s, level)
         IN  IF level = 0 THEN t
             ELSE FlattenSeq([b \in 1 .. Base |->
                      rp_serial(SubSeq(t, DigitBelow(t, b - 1, level) + 1, DigitBelow(t, b, level)), level - 1)])

radix_sort_par(s) == rp_serial(s, Passes - 1)

----------------------------------------------------------------------------
(* The spectral merge.                                                      *)

\* how far the search gallops while the offsets are in S
RECURSIVE Climb(_, _, _, _)
Climb(S, last, ofs, max) ==
    IF ofs < max /\ ofs \in S THEN Climb(S, ofs, 2 * ofs + 1, max)
    ELSE <<last, IF ofs > max THEN max ELSE ofs>>

RECURSIVE Bisect(_, _, _)
Bisect(S, lo, hi) ==
    LET mid == lo + (hi - lo) \div 2
    IN  IF lo >= hi THEN hi ELSE IF mid \in S THEN Bisect(S, mid + 1, hi) ELSE Bisect(S, lo, mid)

\* S are the positions, from 0, that lie before the key
Gallop(S, len, hint) ==
    IF hint \in S
    THEN LET c == Climb({o \in 1 .. len : hint + o \in S}, 0, 1, len - hint)
         IN  Bisect(S, hint + c[1], hint + c[2])
    ELSE LET c == Climb({o \in 1 .. len : hint - o \notin S}, 0, 1, hint + 1)
         IN  Bisect(S, IF c[2] > hint THEN 0 ELSE hint - c[2], hint - c[1])

gallop_left(key, s, hint) == Gallop({i \in 0 .. Len(s) - 1 : K(s[i + 1]) < key}, Len(s), hint)
\* Mutant: the right gallop stops before the equal elements.
gallop_right_strict(key, s, hint) ==
    Gallop({i \in 0 .. Len(s) - 1 : K(s[i + 1]) < key}, Len(s), hint)

gallop_right(key, s, hint) == Gallop({i \in 0 .. Len(s) - 1 : K(s[i + 1]) <= key}, Len(s), hint)

\* merge_lo(): m.out is what is in place, m.l and m.r what is left of the runs,
\* m.pays whether galloping has paid since it began
LoLeft(m, n) == [m EXCEPT !.out = @ \o Prefix(m.l, n), !.l = Cut(@, n + 1)]
LoRight(m, n) == [m EXCEPT !.out = @ \o Prefix(m.r, n), !.r = Cut(@, n + 1)]
LoEnded(m) == Len(m.l) <= 1 \/ m.r = <<>>
LoDone(m) == [s |-> IF Len(m.l) = 1 THEN m.out \o m.r \o m.l ELSE m.out \o m.l \o m.r, mg |-> m.mg]

Paying(m, n) == [m EXCEPT !.pays = @ \/ n >= MinGallop]
\* min_gallop falls while galloping pays and rises by two when it ends
Adjusted(m) == [m EXCEPT !.mg = IF m.pays THEN (IF @ > 1 THEN @ - 1 ELSE @) ELSE @ + 2]

LoBy(m, side, n) == IF side = "left" THEN Paying(LoLeft(m, n), n) ELSE Paying(LoRight(m, n), n)
LoStep(m, step) ==
    CASE LoEnded(m) -> m
      [] ~LoEnded(m) /\ step = "gallop left" -> LoBy(m, "left", gallop_right(K(m.r[1]), m.l, 0))
      [] ~LoEnded(m) /\ step = "right" -> LoRight(m, 1)
      [] ~LoEnded(m) /\ step = "gallop right" -> LoBy(m, "right", gallop_left(K(m.l[1]), m.r, 0))
      [] ~LoEnded(m) /\ step = "left" -> LoLeft(m, 1)

RECURSIVE LoStraight(_, _, _), LoGallop(_)
LoStraight(m, c1, c2) ==
    IF LoEnded(m) THEN LoDone(m)
    ELSE IF c1 >= m.mg \/ c2 >= m.mg THEN LoGallop(m)
    ELSE IF K(m.r[1]) < K(m.l[1]) THEN LoStraight(LoRight(m, 1), 0, c2 + 1)
    ELSE LoStraight(LoLeft(m, 1), c1 + 1, 0)
LoResume(m) == IF LoEnded(m) THEN LoDone(m)
               ELSE IF m.pays THEN LoGallop(Adjusted(m)) ELSE LoStraight(Adjusted(m), 0, 0)
LoGallop(m) ==
    LoResume(FoldLeft(LoStep, [m EXCEPT !.pays = FALSE], <<"gallop left", "right", "gallop right", "left">>))
Unmerged(l, r, mg) == [out |-> <<>>, l |-> l, r |-> r, mg |-> mg, pays |-> FALSE]
merge_lo(l, r, mg) == LoStraight(Unmerged(l, r, mg), 0, 0)

\* merge_hi(): from the far ends
HiLeft(m, n) == [m EXCEPT !.out = Cut(m.l, Len(m.l) - n + 1) \o @, !.l = Prefix(@, Len(@) - n)]
HiRight(m, n) == [m EXCEPT !.out = Cut(m.r, Len(m.r) - n + 1) \o @, !.r = Prefix(@, Len(@) - n)]
HiEnded(m) == m.l = <<>> \/ Len(m.r) <= 1
HiDone(m) == [s |-> IF Len(m.r) = 1 THEN m.r \o m.l \o m.out ELSE m.l \o m.r \o m.out, mg |-> m.mg]

HiBy(m, side, n) == IF side = "left" THEN Paying(HiLeft(m, n), n) ELSE Paying(HiRight(m, n), n)
HiStep(m, step) ==
    CASE HiEnded(m) -> m
      [] ~HiEnded(m) /\ step = "gallop left" ->
            HiBy(m, "left", Len(m.l) - gallop_right(K(Last(m.r)), m.l, Len(m.l) - 1))
      [] ~HiEnded(m) /\ step = "right" -> HiRight(m, 1)
      [] ~HiEnded(m) /\ step = "gallop right" ->
            HiBy(m, "right", Len(m.r) - gallop_left(K(Last(m.l)), m.r, Len(m.r) - 1))
      [] ~HiEnded(m) /\ step = "left" -> HiLeft(m, 1)

RECURSIVE HiStraight(_, _, _), HiGallop(_)
HiStraight(m, c1, c2) ==
    IF HiEnded(m) THEN HiDone(m)
    ELSE IF c1 >= m.mg \/ c2 >= m.mg THEN HiGallop(m)
    ELSE IF K(Last(m.r)) < K(Last(m.l)) THEN HiStraight(HiLeft(m, 1), c1 + 1, 0)
    ELSE HiStraight(HiRight(m, 1), 0, c2 + 1)
HiResume(m) == IF HiEnded(m) THEN HiDone(m)
               ELSE IF m.pays THEN HiGallop(Adjusted(m)) ELSE HiStraight(Adjusted(m), 0, 0)
HiGallop(m) ==
    HiResume(FoldLeft(HiStep, [m EXCEPT !.pays = FALSE], <<"gallop left", "right", "gallop right", "left">>))
merge_hi(l, r, mg) == HiStraight(Unmerged(l, r, mg), 0, 0)

\* what of the first run is not above the second's start stays, and so does
\* what of the second is not below the first's end
Merged(l, r, mg) == IF Len(l) <= Len(r) THEN merge_lo(l, r, mg) ELSE merge_hi(l, r, mg)
Placed(s, at, m) == [m EXCEPT !.s = Prefix(s, at) \o @ \o Cut(s, at + Len(@) + 1)]
TrimRight(s, at, l, r, n, mg) ==
    IF n = 0 THEN [s |-> s, mg |-> mg] ELSE Placed(s, at, Merged(l, Prefix(r, n), mg))
TrimLeft(s, at, l, r, k, mg) ==
    IF k = Len(l) THEN [s |-> s, mg |-> mg]
    ELSE TrimRight(s, at + k, Cut(l, k + 1), r, gallop_left(K(Last(l)), r, Len(r) - 1), mg)
merge_pair(s, base, len1, len2, mg) ==
    LET l == SubSeq(s, base + 1, base + len1)
        r == SubSeq(s, base + len1 + 1, base + len1 + len2)
    IN  IF len1 = 0 \/ len2 = 0 THEN [s |-> s, mg |-> mg]
        ELSE TrimLeft(s, base, l, r, gallop_right(K(r[1]), l, 0), mg)

\* runs are merged across the boundaries in the order of their resistance
Gap(s, runs, i) ==
    LET d == K(s[runs[i + 1].base + 1]) - K(s[runs[i].base + runs[i].len]) IN IF d < 0 THEN 0 - d ELSE d

merge_reff(s, runs, mg) ==
    LET bounds == InsertionBy([i \in 1 .. Len(runs) - 1 |-> i], LAMBDA i : Gap(s, runs, i))
        Joined(c, lo, hi, m) ==
            LET one == [base |-> lo.base, len |-> lo.len + hi.len]
            IN  [s |-> m.s, mg |-> m.mg,
                 seg |-> [j \in DOMAIN c.seg |-> IF c.seg[j] \in {lo, hi} THEN one ELSE c.seg[j]]]
        Join(c, i) ==
            LET lo == c.seg[i]  hi == c.seg[i + 1]
            IN  Joined(c, lo, hi, merge_pair(c.s, lo.base, lo.len, hi.len, c.mg))
    IN  FoldLeft(Join, [s |-> s, mg |-> mg, seg |-> runs], bounds).s

\* the first run, descending only if strictly
count_run_asc(s) ==
    LET down(i) == K(s[i]) < K(s[i - 1])
        breaks == {i \in 3 .. Len(s) : down(i) # down(2)}
    IN  IF Len(s) <= 1 THEN [len |-> Len(s), down |-> FALSE]
        ELSE [len |-> IF breaks = {} THEN Len(s) ELSE Min(breaks) - 1, down |-> down(2)]

\* the runs of s from base on, those that descend turned round
RECURSIVE Detect(_, _, _)
Detect(s, base, runs) ==
    IF base = Len(s) \/ Len(runs) = MaxRuns THEN [s |-> s, runs |-> runs, base |-> base]
    ELSE LET r == count_run_asc(Cut(s, base + 1))
             run == SubSeq(s, base + 1, base + r.len)
         IN  Detect(Prefix(s, base) \o (IF r.down THEN Reverse(run) ELSE run) \o Cut(s, base + r.len + 1),
                    base + r.len, Append(runs, [base |-> base, len |-> r.len]))

\* neighbours that are in order already are one run
Coalesced(s, runs) ==
    FoldLeft(LAMBDA out, r : LET p == Last(out) IN
                 IF K(s[p.base + p.len]) <= K(s[r.base + 1])
                 THEN Append(Front(out), [p EXCEPT !.len = @ + r.len]) ELSE Append(out, r),
             <<runs[1]>>, Tail(runs))

RunsMerged(s, runs, oom) ==
    IF Len(runs) <= 1 THEN s ELSE IF oom THEN Insertion(s) ELSE merge_reff(s, runs, MinGallop)

\* the runs detected, and a tail beyond MaxRuns of them sorted by itself
RECURSIVE spectral_merge(_, _)
Rounded(d, oom) ==
    LET tail == Cut(d.s, d.base + 1)
    IN  [s |-> Prefix(d.s, d.base)
               \o IF Len(tail) <= TailMin THEN Insertion(tail) ELSE spectral_merge(tail, oom),
         runs |-> IF tail = <<>> THEN d.runs ELSE Append(d.runs, [base |-> d.base, len |-> Len(tail)])]
Closed(w, oom) == RunsMerged(w.s, Coalesced(w.s, w.runs), oom)
spectral_merge(s, oom) ==
    IF Len(s) < 2 THEN s
    ELSE IF Len(s) < MinMerge THEN Insertion(s)
    ELSE Closed(Rounded(Detect(s, 0, <<>>), oom), oom)

----------------------------------------------------------------------------
(* Counting few distinct values.                                            *)

\* discovery: a value goes before the first that is not smaller, unless that
\* one has the same bits
Discovered(s) ==
    LET Add(uniq, v) ==
            LET lo == Bisect({i \in 0 .. Len(uniq) - 1 : K(uniq[i + 1]) < K(v)}, 0, Len(uniq)) + 1
            IN  IF lo <= Len(uniq) /\ uniq[lo] = v THEN uniq ELSE InsertAt(uniq, lo, v)
    IN  FoldLeft(Add, <<>>, s)

\* by rank for integers and few values, by bits for the rest
Bucket(v, uniq) ==
    IF v \in Ints /\ Len(uniq) <= SmallK THEN Cardinality({j \in DOMAIN uniq : K(uniq[j]) < K(v)}) + 1
    ELSE Min({j \in DOMAIN uniq : uniq[j] = v})

\* counting_sort_few_unique(): <<>> when it gives up
Scattered(s, uniq, buckets) ==
    FlattenSeq([j \in DOMAIN uniq |->
                   [c \in 1 .. Cardinality({i \in DOMAIN s : buckets[i] = j}) |-> uniq[j]]])
CountedInto(s, uniq) ==
    IF (Len(s) > Probe /\ Len(Discovered(Prefix(s, Probe))) = 1) \/ Len(uniq) > MaxK THEN <<>>
    ELSE IF Len(uniq) <= 1 THEN s ELSE Scattered(s, uniq, [i \in DOMAIN s |-> Bucket(s[i], uniq)])
Counted(s) == CountedInto(s, Discovered(s))

----------------------------------------------------------------------------
(* The class of an array.                                                   *)

Descents(s) == {i \in 2 .. Len(s) : K(s[i]) < K(s[i - 1])}
RunCount(s) == 1 + Cardinality({i \in 3 .. Len(s) : i \notin Descents(s) /\ i - 1 \in Descents(s)})
DescentGap(s) == IF Descents(s) = {} THEN 0 ELSE Max({K(s[i - 1]) - K(s[i]) : i \in Descents(s)})

detect_rotation(s) ==
    IF Len(s) >= 3 /\ Cardinality(Descents(s)) = 1 /\ K(Last(s)) <= K(s[1])
    THEN Min(Descents(s)) - 1 ELSE 0

Is(d) == [d |-> d, cut |-> 0]

\* what the sampled inversions, the sampled distinct values and the oscillator
\* may make of an array: anything, except that a phase begins behind a sorted
\* prefix
Sampled(s) ==
    {Is("nearly"), Is("random"), Is("few")}
    \cup {[d |-> "phased", cut |-> b] : b \in {b \in 1 .. Len(s) - 1 : InOrder(Prefix(s, b))}}

\* the exact findings first; the vector path calls an array with ties reversed
\* too
Profiles(s) ==
    LET n == Len(s)
        weak == s # <<>> /\ Range(s) \subseteq Ints /\ \A i \in 2 .. n : K(s[i]) <= K(s[i - 1])
        rot == IF RunCount(s) = 2 THEN detect_rotation(s) ELSE 0
    IN  IF Descents(s) = {} THEN {Is("sorted")}
        ELSE IF Cardinality(Descents(s)) = n - 1 THEN {Is("reversed")}
        ELSE (IF weak THEN {Is("reversed")} ELSE {})
             \cup IF rot > 0 THEN {[d |-> "nearly", cut |-> rot]} ELSE Sampled(s)

\* Mutant: an element equal to the top of a pile starts a pile of its own.
PilesWithTies(s) ==
    LET Lay(p, x) ==
            LET lo == Bisect({i \in 0 .. Len(p) - 1 : p[i + 1].top <= K(x)}, 0, Len(p)) + 1
            IN  IF lo > Len(p) THEN Append(p, [top |-> K(x), size |-> 1])
                ELSE [p EXCEPT ![lo] = [top |-> K(x), size |-> @.size + 1]]
    IN  FoldLeft(Lay, <<>>, s)

\* patience sorting: the tops and the sizes of the piles
Piles(s) ==
    LET Lay(p, x) ==
            LET lo == Bisect({i \in 0 .. Len(p) - 1 : p[i + 1].top < K(x)}, 0, Len(p)) + 1
            IN  IF lo > Len(p) THEN Append(p, [top |-> K(x), size |-> 1])
                ELSE [p EXCEPT ![lo] = [top |-> K(x), size |-> @.size + 1]]
    IN  FoldLeft(Lay, <<>>, s)
PatienceLis(s) == Len(Piles(s))
PatienceLds(s) == Max({p.size : p \in Range(Piles(s))})

----------------------------------------------------------------------------
(* The serial sort by class, and the parallel poles.                         *)

\* the two halves sorted, the part of the first that is below the second left
\* where it is, the rest merged
MergePhases(front, back, skip) ==
    LET RECURSIVE Merge(_, _)
        Merge(l, r) == IF l = <<>> THEN r ELSE IF r = <<>> THEN l
                       ELSE IF K(l[1]) <= K(r[1]) THEN <<l[1]>> \o Merge(Tail(l), r)
                       ELSE <<r[1]>> \o Merge(l, Tail(r))
    IN  Prefix(front, skip) \o Merge(Cut(front, skip + 1), back)
Skipped(S, c) == Bisect(S, c[1], c[2])
BeforeBack(front, back) == {i \in 0 .. Len(front) - 1 : K(front[i + 1]) < K(back[1])}
ClosePhases(front, back, oom) ==
    LET S == BeforeBack(front, back)
    IN  IF K(Last(front)) <= K(back[1]) THEN front \o back
        ELSE IF oom THEN spectral_merge(front \o back, TRUE)
        ELSE MergePhases(front, back, Skipped(S, Climb(S, 0, 1, Len(front))))
sort_phased(s, b, oom) ==
    ClosePhases(IF b > 1 /\ ~InOrder(Prefix(s, b)) THEN radix_sort(Prefix(s, b), oom) ELSE Prefix(s, b),
                IF Len(s) - b > 1 THEN radix_sort(Cut(s, b + 1), oom) ELSE Cut(s, b + 1), oom)

fix_rotation(s, rot) == Reverse(Reverse(Prefix(s, rot)) \o Reverse(Cut(s, rot + 1)))

sort_nearly_sorted(s, rot, oom) ==
    IF rot > 0 THEN fix_rotation(s, rot)
    ELSE IF RunCount(s) <= FewRuns THEN spectral_merge(s, oom)
    ELSE IF DescentGap(s) <= Min({r \in 1 .. Len(s) : r * r >= Len(s)}) THEN Insertion(s)
    ELSE light_sort(s)

sub_sort_internal(s, p, oom) ==
    CASE p.d = "sorted" \/ Len(s) <= 1 -> s
      [] p.d = "reversed" -> Reverse(s)
      [] p.d = "phased" -> sort_phased(s, p.cut, oom)
      [] p.d = "nearly" -> sort_nearly_sorted(s, p.cut, oom)
      [] p.d = "few" -> IF Counted(s) # <<>> THEN Counted(s) ELSE radix_sort(s, oom)
      [] p.d = "random" -> radix_sort(s, oom)

\* every way the sort may come out, the array classified afresh
Outcomes(s, oom) == {sub_sort_internal(s, p, oom) : p \in Profiles(s)}

\* sub_smerge_par(): chunks sorted on the engine, then closed by the merge;
\* without an engine, or without the merge's buffer, sorted serially as it is
PerChunk(R) == {c \in [DOMAIN R -> UNION Range(R)] : \A i \in DOMAIN R : c[i] \in R[i]}
sub_smerge_par(s) ==
    LET n == Len(s)
        Base0(i) == (i - 1) * (n \div Chunks)
        Size(i) == IF i = Chunks THEN n - Base0(i) ELSE n \div Chunks
        Chunk(i) == SubSeq(s, Base0(i) + 1, Base0(i) + Size(i))
        runs == [i \in 1 .. Chunks |-> [base |-> Base0(i), len |-> Size(i)]]
        Close(Sorts) == {merge_reff(FlattenSeq(c), runs, MinGallop) : c \in Sorts}
                        \cup UNION {Outcomes(t, oom) : t \in {s} \cup {FlattenSeq(c) : c \in Sorts},
                                                      oom \in BOOLEAN}
    IN  Close(PerChunk([i \in 1 .. Chunks |-> UNION {Outcomes(Chunk(i), oom) : oom \in BOOLEAN}]))

----------------------------------------------------------------------------
(* Index sorts, selection.                                                  *)

\* slots carry an index along; a pass goes by a byte of the key alone
radix_pairs64(s) ==
    LET D(x, p) == (K(x) \div Base^p) % Base
        Pass(t, p) == IF \A x \in Range(t) : D(x, p) = D(t[1], p) THEN t
                      ELSE FlattenSeq([d \in 1 .. Base |-> SelectSeq(t, LAMBDA x : D(x, p) = d - 1)])
    IN  IF s = <<>> THEN s ELSE FoldLeft(Pass, s, [p \in 1 .. Passes |-> p - 1])

\* sub_pack_dispatch64(): structure goes to the merge
pack_dispatch64(s) ==
    {IF p.d \in {"sorted", "reversed", "nearly", "phased"} /\ Len(s) >= PackMin
     THEN spectral_merge(s, oom) ELSE radix_pairs64(s) : p \in Profiles(s), oom \in BOOLEAN}
    \cup {radix_pairs64(s)}

\* slots of the keys in s, the order turned round by complementing them
Slots(s, desc) ==
    [i \in DOMAIN s |-> <<IF desc THEN Base^Passes - 1 - K(s[i]) ELSE K(s[i]), i>>]

searchsorted(s, v, side) ==
    Bisect({i \in 0 .. Len(s) - 1 : IF side = 1 THEN K(s[i + 1]) <= v ELSE K(s[i + 1]) < v}, 0, Len(s))

----------------------------------------------------------------------------
(* The entries.                                                             *)

SortInit ==
    /\ \/ entry \in {"plain", "stats", "parallel", "select", "classify"} /\ input \in BoundedSeq(Ints, IntLen)
       \/ entry = "plain" /\ input \in BoundedSeq(Floats, FloatLen)
       \/ entry \in {"ascending", "descending"} /\ input \in BoundedSeq(Ints, SlotLen)
    /\ arr = input /\ fin = Len(input) /\ prof = Is("none") /\ sortAt = "entry"

Done(s) == arr' = s /\ sortAt' = "done" /\ UNCHANGED <<entry, input, fin, prof>>

\* NaNs go behind the rest
PartitionNan ==
    LET finite == SelectSeq(arr, LAMBDA x : x # Nan)
    IN  /\ entry \in {"plain", "parallel"} /\ sortAt = "entry"
        /\ arr' = finite \o SelectSeq(arr, LAMBDA x : x = Nan)
        /\ fin' = Len(finite)
        /\ sortAt' = IF fin' <= 1 THEN "done" ELSE "fast"
        /\ UNCHANGED <<entry, input, prof>>

\* the array with its finite part replaced
With(s) == s \o Cut(arr, fin + 1)

\* fast_path_dispatch(): counting, then what the class settles at once
FastPath ==
    LET s == Prefix(arr, fin)
    IN  /\ sortAt = "fast"
        /\ IF Counted(s) # <<>> THEN Done(With(Counted(s)))
           ELSE \E p \in Profiles(s), oom \in BOOLEAN :
                   IF \/ p.d \in {"sorted", "reversed"}
                      \/ p.d \in {"nearly", "phased"} /\ fin < ParallelMin
                   THEN Done(With(sub_sort_internal(s, p, oom)))
                   ELSE prof' = p /\ sortAt' = "full" /\ UNCHANGED <<entry, input, arr, fin>>

\* the two parallel poles, with two workers or more, or the serial sort
Full ==
    LET s == Prefix(arr, fin)
    IN  /\ sortAt = "full"
        /\ \/ /\ entry = "plain" /\ fin >= ParallelMin /\ prof.d # "random"
              /\ \E r \in sub_smerge_par(s) : Done(With(r))
           \/ /\ prof.d = "random" /\ fin >= RadixParMin /\ (entry = "plain" => fin >= ParallelMin)
              /\ Done(With(radix_sort_par(s)))
           \/ \E oom \in BOOLEAN : Done(With(sub_sort_internal(s, prof, oom)))

SortStats ==
    entry = "stats" /\ sortAt = "entry" /\ \E oom \in BOOLEAN : \E r \in Outcomes(arr, oom) : Done(r)

\* an index sort: the slots replace the keys; without scratch the indices stay
\* as they are, and the caller is not told
PackSort ==
    LET slots == Slots(arr, entry = "descending")
    IN  /\ entry \in {"ascending", "descending"} /\ sortAt = "entry"
        /\ \/ \E r \in pack_dispatch64(slots) : Done(r)
           \/ /\ Len(arr) >= 2 /\ arr' = slots /\ prof' = Is("no scratch")
              /\ sortAt' = "done" /\ UNCHANGED <<entry, input, fin>>

Select ==
    /\ entry = "select" /\ sortAt = "entry" /\ arr # <<>>
    /\ \E k \in 1 .. Len(arr) :
          /\ arr' = select(arr, 1, Len(arr), k) /\ prof' = [d |-> "select", cut |-> k]
          /\ sortAt' = "done" /\ UNCHANGED <<entry, input, fin>>

\* the public classification: in the window of the tableau the piles are laid,
\* or there is no memory for them; below it the lengths are estimates
Classify ==
    /\ entry = "classify" /\ sortAt = "entry" /\ arr # <<>>
    /\ prof' \in IF Len(arr) < PatienceMin THEN {Is("estimate")}
                 ELSE {[d |-> "piles", cut |-> PatienceLis(arr), lds |-> PatienceLds(arr)],
                       [d |-> "no memory", cut |-> 1, lds |-> 0]}
    /\ sortAt' = "done" /\ UNCHANGED <<entry, input, arr, fin>>

SortNext == PartitionNan \/ FastPath \/ Full \/ SortStats \/ PackSort \/ Select \/ Classify
SortSpec == SortInit /\ [][SortNext]_sortVars

----------------------------------------------------------------------------
(* Properties.                                                              *)

SameElements(s, t) ==
    Len(s) = Len(t) /\ \A x \in Range(s) \cup Range(t) :
        Cardinality({i \in DOMAIN s : s[i] = x}) = Cardinality({i \in DOMAIN t : t[i] = x})

\* Every sort ends with the elements it was given, bit for bit, the finite
\* ones in order and the NaNs behind them, whatever the classifier was misled
\* to say, whichever algorithm ran and whatever could not be allocated.
ValuesAreSorted ==
    sortAt = "done" /\ entry \in {"plain", "stats", "parallel"} =>
        /\ SameElements(arr, input)
        /\ InOrder(Prefix(arr, fin))
        /\ \A i \in DOMAIN arr : i > fin => arr[i] = Nan

\* An index sort is stable: equal keys keep the order of their indices, on the
\* merge as on the radix arm, ascending or descending ("the two produce the
\* identical index permutation"), unless it found no scratch to sort in.
PackIsStable ==
    sortAt = "done" /\ entry \in {"ascending", "descending"} =>
        /\ SameElements(arr, Slots(input, entry = "descending"))
        /\ prof.d # "no scratch" => \A i \in 1 .. Len(arr) - 1 :
              \/ K(arr[i]) < K(arr[i + 1])
              \/ K(arr[i]) = K(arr[i + 1]) /\ arr[i][2] < arr[i + 1][2]

\* select() leaves the k-th smallest at k: where searchsorted() looks for it in
\* the sorted array, k lies between its two answers.
SelectExact ==
    sortAt = "done" /\ entry = "select" =>
        LET s == Insertion(input)  v == K(arr[prof.cut])
        IN  searchsorted(s, v, 0) < prof.cut /\ prof.cut <= searchsorted(s, v, 1)

\* the subsequences of s, by their positions
Picks(s, R(_, _)) == {I \in SUBSET DOMAIN s : \A i, j \in I : i < j => R(K(s[i]), K(s[j]))}

\* The number of piles is the length of the longest increasing subsequence.
LisIsLongest ==
    sortAt = "done" /\ entry = "classify" /\ prof.d = "piles" =>
        prof.cut = Max({Cardinality(I) : I \in Picks(input, LAMBDA a, b : a < b)})

\* Both families of sorts keep every element and put it where it belongs, and the
\* two order statistics taken without sorting are those of the sorted array.
OrderIsExact == ValuesAreSorted /\ PackIsStable /\ SelectExact /\ LisIsLongest

\* What a comment says of the tallest pile: it is the longest decreasing (with
\* ties: non-increasing) subsequence.
LdsIsMaxPile ==
    sortAt = "done" /\ entry = "classify" /\ prof.d = "piles" =>
        prof.lds = Max({Cardinality(I) : I \in Picks(input, LAMBDA a, b : a >= b)})
=============================================================================
