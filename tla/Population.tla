----------------------------- MODULE Population -----------------------------
(***************************************************************************)
(* Population mode of `montauk --analyze` (prom_population.cpp): the .prom    *)
(* files of many runs are parsed into cells, histograms are tied to the       *)
(* gauges they back, every cell is compared along one axis by a pool of       *)
(* threads, and the results are emitted in map order.  The recording modes    *)
(* that read scrapes line by line (hot CPU, stability, thermal) are folds      *)
(* over the same lines.                                                      *)
(*                                                                         *)
(* A line of a file is a record: k is its kind, the other fields what the     *)
(* parser takes from it.  A family name is the sequence of its words, so      *)
(* that "prefix at an underscore" is a prefix of the sequence.               *)
(*                                                                         *)
(* First the statistics of the mode (prom_stats.cpp), over integer values.    *)
(* A fraction is a pair <<numerator, denominator>>; the square roots of the   *)
(* rank statistic are avoided by comparing squares, which orders it alike.    *)
(***************************************************************************)
EXTENDS Maps, SequencesExt, FiniteSetsExt, Functions

Total(s) == FoldLeft(LAMBDA acc, x : acc + x, 0, s)
Abs(x) == IF x < 0 THEN -x ELSE x
Sorted(s) == SortSeq(s, LAMBDA a, b : a < b)
AtMost(p, q) == p[1] * q[2] <= q[1] * p[2]       \* p <= q, denominators positive

\* mean(): the mean of an empty group is 0
MeanOf(s) == IF s = <<>> THEN <<0, 1>> ELSE <<Total(s), Len(s)>>

\* searchsorted: how many of the sorted values are below x (or, right, at most x)
Searchsorted(s, x, right) ==
  Cardinality({i \in 1..Len(s) : s[i] < x \/ (right /\ s[i] = x)})

\* cliffs_delta(): below minus above, summed over the first group
CliffsDelta(a, b) ==
  IF a = <<>> \/ b = <<>> THEN <<0, 1>>
  ELSE LET bs == Sorted(b)
           Gap(x) == Searchsorted(bs, x, FALSE) - (Len(bs) - Searchsorted(bs, x, TRUE))
       IN  <<Total([i \in 1..Len(a) |-> Gap(a[i])]), Len(a) * Len(b)>>

(***************************************************************************)
(* perm_test() on means when the splits are few: step through every choice   *)
(* of nA positions of the pool in lexicographic order, and count the splits  *)
(* whose difference of means is at least the observed one.                   *)
(***************************************************************************)
NextSplit(idx, nB) ==
  LET nA == Len(idx)
      free == {k \in 1..nA : idx[k] # k + nB} IN
  IF free = {} THEN <<>>
  ELSE LET k == Max(free) IN
       [i \in 1..nA |-> IF i < k THEN idx[i] ELSE idx[k] + 1 + (i - k)]

\* every split visited, in order: at most 2^n steps, the loop stops when none is left
SplitsOf(nA, nB) ==
  LET Visit(acc, step) == LET next == NextSplit(acc[Len(acc)], nB) IN
                          IF next = <<>> THEN acc ELSE Append(acc, next)
  IN  FoldLeft(Visit, <<[i \in 1..nA |-> i]>>, [i \in 1..2 ^ (nA + nB) |-> i])

\* |mean of the chosen - mean of the rest|, times nA * nB
SplitGap(pool, idx) ==
  LET nA == Len(idx)
      nB == Len(pool) - nA
      sa == Total([i \in 1..nA |-> pool[idx[i]]])
  IN  Abs(sa * nB - (Total(pool) - sa) * nA)

PermTest(a, b) ==
  IF a = <<>> \/ b = <<>> THEN <<1, 1>>
  ELSE IF Len(a) = 1 /\ Len(b) = 1 THEN <<1, 1>>
  ELSE LET pool == a \o b
           splits == SplitsOf(Len(a), Len(b))
           observed == SplitGap(pool, [i \in 1..Len(a) |-> i])
       IN  <<Cardinality({k \in 1..Len(splits) : SplitGap(pool, splits[k]) >= observed}),
             Len(splits)>>

(***************************************************************************)
(* bootstrap_mcb() when every group is constant: each group against the best *)
(* of the others, 1 better, -1 worse, 0 level.                               *)
(***************************************************************************)
McbConstant(groups, k, lowerBetter) ==
  LET others == {groups[o][1] : o \in 1..Len(groups) \ {k}}
      d == groups[k][1] - (IF lowerBetter THEN Min(others) ELSE Max(others))
      s == IF d < 0 THEN 1 ELSE IF d > 0 THEN -1 ELSE 0
  IN  IF lowerBetter THEN s ELSE -s
-----------------------------------------------------------------------------
(***************************************************************************)
(* The trajectory scan over one cell: vals[v] are the runs of version v.     *)
(* Midranks are doubled so that they stay integers.                          *)
(***************************************************************************)
Flat(vals) == FlattenSeq(vals)

\* twice the midrank of x among all runs of the window
Midrank2(all, x) ==
  LET below == Cardinality({i \in 1..Len(all) : all[i] < x})
      level == Cardinality({i \in 1..Len(all) : all[i] = x})
  IN  2 * below + level + 1

RankSum2(all, runs) == Total([i \in 1..Len(runs) |-> Midrank2(all, runs[i])])

\* rank_T() squared, without the factor all boundaries of the window share: m runs
\* of all lie before the boundary, and r2 is twice their rank sum
RankT2(all, m, r2) ==
  LET n == Len(all)
      tied == \A i, j \in 1..n : all[i] = all[j]
  IN  IF m = 0 \/ m >= n \/ n < 2 \/ tied THEN <<0, 1>>
      ELSE <<(r2 - m * (n + 1)) ^ 2, m * (n - m)>>

\* the greatest statistic over the boundaries of one version order, and its place
Greater(best, t, k) == IF ~AtMost(t, best.t) THEN [t |-> t, k |-> k] ELSE best
TopOf(all, vals, order) ==
  FoldLeft(LAMBDA best, k : Greater(best,
               RankT2(all, Total([i \in 1..k |-> Len(vals[order[i]])]),
                      Total([i \in 1..k |-> RankSum2(all, vals[order[i]])])), k),
           [t |-> <<0, 1>>, k |-> 0], [i \in 1..Len(vals) - 1 |-> i])
TopBoundary(vals, order) == TopOf(Flat(vals), vals, order)
AsGiven(vals) == TopBoundary(vals, [i \in 1..Len(vals) |-> i])

Orders(w) == {f \in [1..w -> 1..w] : \A i, j \in 1..w : f[i] = f[j] => i = j}

\* full enumeration: how many version orders reach the observed maximum
Reaching(vals, seen, orders) ==
  <<Cardinality({p \in orders : AtMost(seen, TopBoundary(vals, p).t)}), Cardinality(orders)>>
ExactP(vals) == Reaching(vals, AsGiven(vals).t, Orders(Len(vals)))

\* the two aggregates share alpha; with one cell they are the same statistic
Significant(p, alpha) == AtMost(<<2 * p[1], p[2]>>, alpha)
Rejects(vals, alpha) == AsGiven(vals).k # 0 /\ Significant(ExactP(vals), alpha)

\* is the median |delta| (of the one cell) at least the floor?
Reaches(d, floor) == AtMost(floor, <<Abs(d[1]), d[2]>>)
EffectAtLeast(vals, k, floor) ==
  Reaches(CliffsDelta(Flat(SubSeq(vals, 1, k)), Flat(SubSeq(vals, k + 1, Len(vals)))), floor)

\* the windows still to scan, last in first out; a jump splits its window in two
Jumps(vals, alpha, floor) ==
  LET Scanned(acc, top, rest, part, k) ==
        IF Len(part) < 2 THEN [acc EXCEPT !.stack = rest]
        ELSE IF ~(Rejects(part, alpha) /\ EffectAtLeast(part, k, floor))
        THEN [acc EXCEPT !.stack = rest]
        ELSE [found |-> acc.found \cup {top[1] + k},
              stack |-> rest \o <<<<top[1], top[1] + k>>, <<top[1] + k, top[2]>>>>]
      Part(top) == SubSeq(vals, top[1] + 1, top[2])
      Window(acc, step) ==
        IF acc.stack = <<>> THEN acc
        ELSE Scanned(acc, Last(acc.stack), Front(acc.stack), Part(Last(acc.stack)),
                     AsGiven(Part(Last(acc.stack))).k)
  IN  FoldLeft(Window, [found |-> {}, stack |-> <<<<0, Len(vals)>>>>],
               [i \in 1..2 * Len(vals) |-> i]).found
-----------------------------------------------------------------------------
(***************************************************************************)
(* natural_version_less().  A version is a sequence of tokens: a run of      *)
(* digits is its number, any other character a negative code in character    *)
(* order.                                                                    *)
(***************************************************************************)
Dash == -9
Dot  == -8
Rel  == -5           \* a letter
IsNumber(t) == t >= 0
Prerelease(t) == t \in {Dash, Rel}

VersionLess(a, b) ==
  LET differ == {i \in 1..Len(a) : i > Len(b) \/ a[i] # b[i]} \cup {i \in 1..Len(b) : i > Len(a)}
      i == Min(differ) IN
  IF differ = {} THEN FALSE
  ELSE IF i > Len(a) THEN ~Prerelease(b[i])
  ELSE IF i > Len(b) THEN Prerelease(a[i])
  ELSE IF IsNumber(a[i]) # IsNumber(b[i]) THEN IsNumber(a[i])
  ELSE a[i] < b[i]

\* natural_version_sort(): order by how many others come strictly before, ties as they were
Placing(vs, rank) ==
  LET place(i) == Cardinality({j \in 1..Len(vs) : rank[j] < rank[i] \/ (rank[j] = rank[i] /\ j <= i)})
  IN  [k \in 1..Len(vs) |-> vs[CHOOSE i \in 1..Len(vs) : place(i) = k]]
NaturalSort(vs) ==
  Placing(vs, [i \in 1..Len(vs) |-> Cardinality({j \in 1..Len(vs) \ {i} : VersionLess(vs[j], vs[i])})])

----------------------------------------------------------------------------
CONSTANTS Recordings,    \* the recordings tried: sequences of files, each a sequence of lines
          Families,      \* every family name, in map order
          OptionSets,    \* the options tried, records
          PoolThreads,   \* threads of the pool
          Alpha, Floor,  \* traj_alpha and traj_min_effect, as fractions
          BootstrapVerdict(_, _)  \* what the bootstrap of groups that vary decides

VARIABLES files, popt,   \* the recording and the options of this run
          stage,         \* "parse","associate","dispatch","work","emit","done"
          parsed,        \* files parsed so far
          data,          \* what parse_file() accumulates
          work,          \* the cells to compare, in order
          nextItem,      \* next_item
          at,            \* the item each thread works on, 0 none, -1 returned
          results,       \* what process_cell() stored, by item
          report,        \* the items emitted, in order
          rcode          \* return value, -1 before
popVars == <<files, popt, stage, parsed, data, work, nextItem, at, results, report, rcode>>

UnknownFlag == <<-4>>      \* the word, as a version
-----------------------------------------------------------------------------
(***************************************************************************)
(* parse_file().  version and commit are what the last info line above gave; *)
(* capture is the file.  The series' own labels win over the injected ones.  *)
(***************************************************************************)
AliasFamily(n) == IF n = popt.aliasFrom THEN popt.aliasTo ELSE n

\* the labels that never are part of a cell's identity
DropForGauge == {popt.axis, "capture"} \cup popt.dropLabels
                \cup (IF popt.axis = "version" THEN {"commit"} ELSE {})
                \cup (IF popt.axis = "commit" THEN {"version"} ELSE {})
DropForCell == DropForGauge \cup {"le"}

Injected(labels, acc, f) ==
  [l \in DOMAIN labels \cup {"version", "commit", "capture"} |->
     IF l \in DOMAIN labels THEN labels[l]
     ELSE CASE l = "version" -> acc.version [] l = "commit" -> acc.commit [] OTHER -> f]

CellKey(labels, drop) == Erase(labels, drop)

Place(m, fam, key, axis, x) == LET c == <<fam, key, axis>> IN Put(m, c, Append(At(m, c, <<>>), x))

ParseLine(acc, ln, f) ==
  CASE ln.k = "type"  -> [acc EXCEPT !.hist = @ \cup {AliasFamily(ln.fam)}]
    [] ln.k = "info"  -> [acc EXCEPT !.version = ln.version, !.commit = ln.commit]
    [] ln.k \in {"gauge", "bucket"} ->
         LET labels == Injected(ln.labels, acc, f)
             isHist == ln.k = "bucket" /\ AliasFamily(ln.fam) \in acc.hist
             key == CellKey(labels, IF isHist THEN DropForCell ELSE DropForGauge)
             seen == [acc EXCEPT !.samples = @ + 1] IN
         IF popt.axis \notin DOMAIN labels THEN [seen EXCEPT !.noAxis = @ + 1]
         ELSE IF isHist
              THEN LET c == <<AliasFamily(ln.fam), key, labels[popt.axis]>> IN
                   [seen EXCEPT !.buckets = Put(@, c, Put(At(@, c, EmptyMap), ln.labels.le, ln.val))]
              ELSE [seen EXCEPT !.runs = Place(@, AliasFamily(ln.fam), key, labels[popt.axis], ln.val)]
    [] OTHER -> acc                       \* _sum and _count, or lines of other modes

\* reconstruct(): one representative per count of each bucket, squared: the
\* geometric midpoint of its bounds, and the largest finite bound for +Inf (0 here)
Inf == 0
Reconstruct(h) ==
  LET finite == Sorted(SetToSeq(DOMAIN h \ {Inf}))
      bounds == IF Inf \in DOMAIN h THEN Append(finite, Inf) ELSE finite
      lower(i) == IF i = 1 THEN 0 ELSE finite[i - 1]
      rep(i) == IF bounds[i] = Inf THEN (IF lower(i) > 0 THEN lower(i) ^ 2 ELSE 1)
                ELSE IF i = 1 THEN bounds[i] ^ 2 ELSE lower(i) * bounds[i]
      count(i) == h[bounds[i]] - (IF i = 1 THEN 0 ELSE h[bounds[i - 1]])
  IN  FlattenSeq([i \in 1..Len(bounds) |->
                    [c \in 1..(IF count(i) > 0 THEN count(i) ELSE 0) |-> rep(i)]])

\* at the end of a file its histograms are folded into the pools
FoldHistograms(acc) ==
  [acc EXCEPT
     !.samp = [c \in DOMAIN @ \cup DOMAIN acc.buckets |->
                 At(@, c, <<>>) \o (IF c \in DOMAIN acc.buckets THEN Reconstruct(acc.buckets[c]) ELSE <<>>)],
     !.withVersion = @ + (IF acc.version # UnknownFlag THEN 1 ELSE 0),
     !.buckets = EmptyMap, !.hist = {}, !.version = UnknownFlag, !.commit = UnknownFlag]

ParseFile ==
  /\ stage = "parse" /\ parsed < Len(files)
  /\ parsed' = parsed + 1
  /\ data' = FoldHistograms(FoldLeft(LAMBDA acc, ln : ParseLine(acc, ln, parsed'), data, files[parsed']))
  /\ UNCHANGED <<files, popt, stage, work, nextItem, at, results, report, rcode>>

Cells(d) == {<<c[1], c[2]>> : c \in DOMAIN d.runs \cup DOMAIN d.samp}

\* no file, or nothing in any of them that could be placed: status 1
Parsed ==
  /\ stage = "parse" /\ parsed = Len(files)
  /\ IF Cells(data) = {} THEN stage' = "done" /\ rcode' = 1
     ELSE stage' = "associate" /\ rcode' = rcode
  /\ UNCHANGED <<files, popt, parsed, data, work, nextItem, at, results, report>>
-----------------------------------------------------------------------------
(***************************************************************************)
(* Each family takes the samples of the longest histogram family that is a    *)
(* prefix of its name, cell by cell, in map order.                           *)
(***************************************************************************)
HistFamilies(d) == {c[1] : c \in DOMAIN d.samp}

BackedBy(fam, hists) ==
  LET prefixes == {h \in hists : Len(h) < Len(fam) /\ IsPrefix(h, fam)} IN
  IF prefixes = {} THEN <<>> ELSE CHOOSE h \in prefixes : \A g \in prefixes : Len(g) <= Len(h)

Associated(d) ==
  LET hists == HistFamilies(d)
      Tie(s, fam) ==
        LET h == BackedBy(fam, hists)
            shared == {c \in DOMAIN s : c[1] = h /\ <<fam, c[2]>> \in Cells(d)}
            target == {<<fam, c[2], c[3]>> : c \in shared} IN
        IF h = <<>> THEN s
        ELSE [c \in DOMAIN s \cup target |->
                At(s, c, <<>>) \o (IF c \in target THEN s[<<h, c[2], c[3]>>] ELSE <<>>)]
  IN  [d EXCEPT !.samp = FoldLeft(Tie, @, Families)]

\* the cells of the selected families, in map order
WorkItems(d) ==
  LET Of(fam) == IF popt.filter \in {<<>>, fam}
                 THEN SetToSeq({c \in Cells(d) : c[1] = fam}) ELSE <<>>
  IN  FlattenSeq([i \in 1..Len(Families) |-> Of(Families[i])])

\* trajectory mode leaves here; MaxGroupN decides the warning about single runs
MaxGroupN(d) == Max({0} \cup {Len(d.runs[c]) : c \in DOMAIN d.runs})

Associate ==
  /\ stage = "associate"
  /\ data' = Associated(data)
  /\ work' = WorkItems(data')
  /\ results' = [i \in 1..Len(work') |-> "none"]
  /\ stage' = IF popt.trajectory THEN "trajectory" ELSE "work"
  /\ UNCHANGED <<files, popt, parsed, nextItem, at, report, rcode>>
-----------------------------------------------------------------------------
\* the axis values of a cell, in version order on the version axis
Groups(d, c) ==
  LET axes == {x[3] : x \in {y \in DOMAIN d.runs : y[1] = c[1] /\ y[2] = c[2]}} IN
  IF popt.axis = "version" THEN NaturalSort(SetToSeq(axes)) ELSE SetToSeq(axes)

Constant(s) == \A i \in 1..Len(s) : s[i] = s[1]
Verdict(gs, k) == IF \A i \in 1..Len(gs) : Constant(gs[i]) THEN McbConstant(gs, k, popt.lowerBetter)
                  ELSE BootstrapVerdict(gs, k)

\* which pairs of groups are compared
Pairs(gs) ==
  LET n == Len(gs)
      mode == IF popt.pairs # "auto" THEN popt.pairs
              ELSE IF popt.axis \in {"version", "capture"} THEN "adjacent" ELSE "all"
      winners == {k \in 1..n : Verdict(gs, k) = 1}
      level == {k \in 1..n : Verdict(gs, k) = 0}
      best == IF winners # {} THEN Min(winners) ELSE IF level # {} THEN Min(level) ELSE 1
  IN  CASE mode = "adjacent" -> {<<k, k + 1>> : k \in 1..n - 1}
        [] mode = "vs-best"  -> {<<best, k>> : k \in 1..n \ {best}}
        [] OTHER             -> {<<i, j>> \in (1..n) \X (1..n) : i < j}

\* Mutant: the generator is seeded from the shared counter of claimed items.
SeedOfClaim(i) == nextItem

\* the generator of an item is seeded from the item alone
SeedOf(i) == work[i]

\* process_cell(): the verdicts, the pairs, and under --full the within-run distribution
CellResult(i, names, gs, within) ==
  LET haveHist == \A k \in 1..Len(names) : Len(within[k]) >= 2
  IN  [seed |-> SeedOf(i), groups |-> names, n |-> [k \in 1..Len(gs) |-> Len(gs[k])],
       mcb |-> IF Len(gs) < 2 THEN <<>> ELSE [k \in 1..Len(gs) |-> Verdict(gs, k)],
       pairs |-> IF Len(gs) < 2 THEN {}
                 ELSE {[a |-> p[1], b |-> p[2], cliff |-> CliffsDelta(gs[p[1]], gs[p[2]]),
                        perm |-> PermTest(gs[p[1]], gs[p[2]])] : p \in Pairs(gs)},
       within |-> IF popt.full /\ Len(gs) >= 2 THEN (IF haveHist THEN within ELSE gs) ELSE <<>>]

RunsOf(c, names) == [k \in 1..Len(names) |-> data.runs[<<c[1], c[2], names[k]>>]]
CellOf(i, c, names) ==
  CellResult(i, names, RunsOf(c, names),
             [k \in 1..Len(names) |-> At(data.samp, <<c[1], c[2], names[k]>>, <<>>)])
ProcessCell(i) == CellOf(i, work[i], Groups(data, work[i]))

\* pump(): take the next index, or return when there is none
Claim(t) ==
  /\ stage = "work" /\ at[t] = 0
  /\ nextItem' = nextItem + 1
  /\ at' = [at EXCEPT ![t] = IF nextItem' > Len(work) THEN -1 ELSE nextItem']
  /\ UNCHANGED <<files, popt, stage, parsed, data, work, results, report, rcode>>

Process(t) ==
  /\ stage = "work" /\ at[t] > 0
  /\ results' = [results EXCEPT ![at[t]] = ProcessCell(at[t])]
  /\ at' = [at EXCEPT ![t] = 0]
  /\ UNCHANGED <<files, popt, stage, parsed, data, work, nextItem, report, rcode>>

\* every thread joined: emit in map order, whatever order the items were done in
Emit ==
  /\ stage = "work" /\ \A t \in PoolThreads : at[t] = -1
  /\ report' = [i \in 1..Len(work) |-> results[i]]
  /\ stage' = "done" /\ rcode' = 0
  /\ UNCHANGED <<files, popt, parsed, data, work, nextItem, at, results>>

\* run_trajectory(): the change points of each family with one cell, along the versions
CellJumps(c, names) == IF Len(names) < 2 THEN {} ELSE Jumps(RunsOf(c, names), Alpha, Floor)
Trajectory ==
  /\ stage = "trajectory"
  /\ report' = [i \in 1..Len(work) |-> CellJumps(work[i], Groups(data, work[i]))]
  /\ stage' = "done" /\ rcode' = 0
  /\ UNCHANGED <<files, popt, parsed, data, work, nextItem, at, results>>
-----------------------------------------------------------------------------
(***************************************************************************)
(* compute_l2_shares(): a recording is a concatenation of scrapes.  The busy  *)
(* ones, above three tenths of the peak, are summed per CPU.                 *)
(***************************************************************************)
ScrapesOf(lines) ==
  LET NoScrape == [total |-> 0, cpu |-> EmptyMap]
      Read(acc, ln) ==
        CASE ln.k = "scrape"   -> [open |-> TRUE, cur |-> NoScrape,
                                   done |-> IF acc.open THEN Append(acc.done, acc.cur) ELSE acc.done]
          [] ln.k = "interval" -> [acc EXCEPT !.open = TRUE, !.cur.total = ln.val]
          [] ln.k = "l2"       -> [acc EXCEPT !.open = TRUE,
                                              !.cur.cpu = Put(@, ln.cpu, At(@, ln.cpu, 0) + ln.val)]
          [] OTHER             -> [acc EXCEPT !.open = TRUE]
      end == FoldLeft(Read, [open |-> FALSE, cur |-> NoScrape, done |-> <<>>], lines)
  IN  IF end.open THEN Append(end.done, end.cur) ELSE end.done

CpuTotals(busy) ==
  [c \in UNION {DOMAIN busy[i].cpu : i \in 1..Len(busy)} |->
     Total([i \in 1..Len(busy) |-> At(busy[i].cpu, c, 0)])]
BusyTotals(scrapes, peak) == CpuTotals(SelectSeq(scrapes, LAMBDA s : ~(peak > 0 /\ 10 * s.total <= 3 * peak)))
PeakTotals(scrapes) == BusyTotals(scrapes, Max({0} \cup {scrapes[i].total : i \in 1..Len(scrapes)}))
L2Shares(lines) == PeakTotals(ScrapesOf(lines))

\* the hot CPU, its severity against an even spread: 3 and 1.5 times the even share
Hottest(shares, grand, top) ==
  LET n == Cardinality(DOMAIN shares)
  IN  IF shares = EmptyMap \/ grand <= 0 THEN [found |-> FALSE]
      ELSE [found |-> TRUE, cpu |-> top,
            sev |-> IF shares[top] * n > 3 * grand THEN 2
                    ELSE IF 2 * shares[top] * n > 3 * grand THEN 1 ELSE 0]
HottestOf(shares) == Hottest(shares, FoldFunction(LAMBDA a, b : a + b, 0, shares),
                             CHOOSE c \in DOMAIN shares : \A d \in DOMAIN shares : shares[d] <= shares[c])
HotCpu(lines) == HottestOf(L2Shares(lines))

\* scx_stability_data(): ejections once each, the last clean-room state, the worst watchdog
Stability(lines) ==
  LET Read(acc, ln) ==
        CASE ln.k = "ejected"   -> IF ln.why \in Range(acc.ejections) THEN acc
                                   ELSE [acc EXCEPT !.ejections = Append(@, ln.why)]
          [] ln.k = "cleanroom" -> [acc EXCEPT !.cleanroom = ln.why]
          [] ln.k = "watchdog"  -> IF ln.val > acc.worst THEN [acc EXCEPT !.worst = ln.val] ELSE acc
          [] OTHER              -> acc
  IN  FoldLeft(Read, [ejections |-> <<>>, cleanroom |-> "", worst |-> -1], lines)

\* thermal_power_data(): peak, sum and count of each gauge; energy is the counter's span
Thermal(lines) ==
  LET watts == SelectSeq(lines, LAMBDA ln : ln.k = "power" /\ ln.val > 0)
      joule == {ln.val : ln \in {x \in Range(lines) : x.k = "energy"}}
  IN  [peak |-> Max({0} \cup {watts[i].val : i \in 1..Len(watts)}),
       sum |-> Total([i \in 1..Len(watts) |-> watts[i].val]), n |-> Len(watts),
       energy |-> IF joule = {} \/ Max(joule) = Min(joule) THEN -1 ELSE Max(joule) - Min(joule)]

\* --l2-by-cpu and the scrape part of the digest, instead of the comparison
ReadScrapes ==
  /\ stage = "parse" /\ parsed = 0 /\ popt.scrapes
  /\ LET lines == FlattenSeq(files) IN report' = <<HotCpu(lines), Stability(lines), Thermal(lines)>>
  /\ rcode' = IF report'[1].found THEN 0 ELSE 1
  /\ stage' = "done"
  /\ UNCHANGED <<files, popt, parsed, data, work, nextItem, at, results>>
-----------------------------------------------------------------------------
NoData == [version |-> UnknownFlag, commit |-> UnknownFlag, hist |-> {}, samples |-> 0, noAxis |-> 0,
           withVersion |-> 0, runs |-> EmptyMap, samp |-> EmptyMap, buckets |-> EmptyMap]

PopInit ==
  /\ files \in Recordings /\ popt \in OptionSets
  /\ stage = "parse" /\ parsed = 0 /\ data = NoData /\ work = <<>>
  /\ nextItem = 0 /\ at = [t \in PoolThreads |-> 0]
  /\ results = <<>> /\ report = <<>> /\ rcode = -1

PopEnded == stage = "done" /\ UNCHANGED popVars

PopNext ==
  \/ ReadScrapes
  \/ (~popt.scrapes /\ ParseFile) \/ (~popt.scrapes /\ Parsed)
  \/ Associate \/ Trajectory \/ Emit
  \/ \E t \in PoolThreads : Claim(t) \/ Process(t)
  \/ PopEnded

PopSpec == PopInit /\ [][PopNext]_popVars
-----------------------------------------------------------------------------
Compared == stage = "done" /\ rcode = 0 /\ ~popt.trajectory /\ ~popt.scrapes

(***************************************************************************)
(* The report does not depend on the number of threads or their schedule:    *)
(* what is emitted is what one thread would have computed item by item, each *)
(* item once.  (Every item's generator is seeded from the item.)             *)
(***************************************************************************)
ScheduleIndependent ==
  Compared => \A i \in 1..Len(work) : report[i] = ProcessCell(i) /\ report[i].seed = work[i]

(***************************************************************************)
(* No comparison mixes releases: a value is counted under the version its    *)
(* own file's info line declared above it (its own version label first, and  *)
(* "unknown" before any info line), once, and none is lost on the way.        *)
(***************************************************************************)
VersionOf(f, i) ==
  LET infos == {j \in 1..i - 1 : files[f][j].k = "info"} IN
  IF "version" \in DOMAIN files[f][i].labels THEN files[f][i].labels.version
  ELSE IF infos = {} THEN UnknownFlag ELSE files[f][Max(infos)].version

ValuesStayHome ==
  Compared /\ popt.axis = "version" =>
    LET IsGauge(f, i) ==
          \/ files[f][i].k = "gauge"
          \/ files[f][i].k = "bucket"
             /\ ~\E j \in 1..i - 1 : files[f][j].k = "type" /\ files[f][j].fam = files[f][i].fam
        gauges == {p \in (1..Len(files)) \X (1..9) : p[2] <= Len(files[p[1]]) /\ IsGauge(p[1], p[2])}
        axes == {c[3] : c \in DOMAIN data.runs}
    IN  /\ \A p \in gauges : VersionOf(p[1], p[2]) \in axes
        /\ \A v \in axes :
             MapThenSumSet(LAMBDA c : Len(data.runs[c]), {c \in DOMAIN data.runs : c[3] = v})
               = Cardinality({p \in gauges : VersionOf(p[1], p[2]) = v})

(***************************************************************************)
(* The statistics of a published pair are what their names say: Cliff's      *)
(* delta over all pairs of values, the permutation p over all ways to split  *)
(* the pooled values, each counted once.                                     *)
(***************************************************************************)
PairsExact ==
  Compared => \A i \in 1..Len(work) : \A p \in report[i].pairs :
    LET a == data.runs[<<work[i][1], work[i][2], report[i].groups[p.a]>>]
        b == data.runs[<<work[i][1], work[i][2], report[i].groups[p.b]>>]
        pool == a \o b
        splits == kSubset(Len(a), 1..Len(pool))
        Sum(S) == MapThenSumSet(LAMBDA k : pool[k], S)
        Gap(S) == Abs(Sum(S) * Len(b) - Sum(1..Len(pool) \ S) * Len(a))
        extreme == {S \in splits : Gap(S) >= Gap(1..Len(a))}
        Wins(x, y) == Cardinality({q \in (1..Len(x)) \X (1..Len(y)) : x[q[1]] > y[q[2]]})
    IN  /\ p.cliff = <<Wins(a, b) - Wins(b, a), Len(a) * Len(b)>>
        /\ p.perm[1] * Cardinality(splits) = Cardinality(extreme) * p.perm[2]

(***************************************************************************)
(* "Pettitt's construction, finite-sample valid at any n": whatever the       *)
(* values, of all the orders the versions could have come in, at most Alpha   *)
(* make the scan report a change.                                            *)
(***************************************************************************)
AlarmsAreRare(vals) ==
  LET orders == Orders(Len(vals))
      alarms == {p \in orders : Rejects([k \in 1..Len(vals) |-> vals[p[k]]], Alpha)}
  IN  Len(vals) >= 2 => AtMost(<<Cardinality(alarms), Cardinality(orders)>>, Alpha)

ScanIsValid ==
  stage = "done" /\ popt.trajectory /\ rcode = 0 =>
    \A i \in 1..Len(work) : AlarmsAreRare(RunsOf(work[i], Groups(data, work[i])))

\* The comparison that is published is the one its input determines.
PopulationExact == ScheduleIndependent /\ ValuesStayHome /\ PairsExact /\ ScanIsValid

(***************************************************************************)
(* The help text of montauk_pop_n: "Run count (files contributing a value) in *)
(* the labeled group".  A recording is a concatenation of scrapes, and every *)
(* scrape's line is pushed as one more run.                                  *)
(***************************************************************************)
RunsAreFiles ==
  Compared /\ popt.axis = "version" =>
    \A i \in 1..Len(work) : \A k \in 1..Len(report[i].groups) :
      report[i].n[k] <= Cardinality({f \in 1..Len(files) : \E l \in 1..Len(files[f]) :
                          files[f][l].k = "gauge" /\ VersionOf(f, l) = report[i].groups[k]})

(***************************************************************************)
(* The comment at the association: "longest histogram prefix wins", "so a    *)
(* gauge family's run-level cell also carries the within-run distribution".  *)
(* A family takes its own histogram's samples and no other's; but histogram  *)
(* families take part too, so one whose name extends another's hands on both. *)
(***************************************************************************)
LongestPrefixWins ==
  Compared =>
    LET Read(acc, f) == FoldHistograms(FoldLeft(LAMBDA x, ln : ParseLine(x, ln, f), acc, files[f]))
        fresh == FoldLeft(Read, NoData, [f \in 1..Len(files) |-> f])
        hists == HistFamilies(fresh)
    IN  \A c \in DOMAIN data.samp :
          c[1] \notin hists => data.samp[c] = fresh.samp[<<BackedBy(c[1], hists), c[2], c[3]>>]

=============================================================================
