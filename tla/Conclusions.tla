---------------------------- MODULE Conclusions -----------------------------
(***************************************************************************)
(* The one-shot conclusions of main(): --anomalies, --similar and --regime.  *)
(* Each takes what was sampled and prints a short answer.  A process is one  *)
(* feature vector (abstracted to a number: equal numbers are equal vectors)  *)
(* and one anomaly score; the standardized distance of two vectors is their   *)
(* difference, and the effective resistance between them, a library call, is   *)
(* any measure.                                                             *)
(***************************************************************************)
EXTENDS Integers, Sequences, FiniteSets

CONSTANTS Vectors,      \* feature vectors, a set of numbers
          Resistance,   \* vector -> vector -> effective resistance
          MaxProcesses, \* processes of the population
          Cap,          \* CAP: distinct vectors the graph holds at most
          TopN          \* similar_n, anomalies_n

ASSUME ConclusionBounds ==
  /\ Vectors \subseteq Int /\ MaxProcesses \in Nat /\ Cap \in Nat \ {0} /\ TopN \in Nat
  /\ Resistance \in [Vectors -> [Vectors -> Nat]]

VARIABLES mode,        \* "anomalies", "similar" or "regime"
          population,  \* the vectors (scores, samples), process i at position i
          query,       \* the process --similar asks about
          answer       \* what is printed; "none" before
conclusionVars == <<mode, population, query, answer>>

Distance(a, b) == IF a < b THEN b - a ELSE a - b
Fewer(a, b) == IF a < b THEN a ELSE b

\* what std::sort by key may leave as the first k of S, ties in any order
Foremost(S, key, k) ==
  {s \in [1..k -> S] :
     /\ \A i, j \in 1..k : i < j => s[i] # s[j] /\ key[s[i]] <= key[s[j]]
     /\ \A x \in S, i \in 1..k : (\E j \in 1..k : s[j] = x) \/ key[s[i]] <= key[x]}
-----------------------------------------------------------------------------
\* --anomalies: the highest scores first, at most TopN of them
Anomalies(rows) ==
  Foremost(DOMAIN rows, [i \in DOMAIN rows |-> 0 - rows[i]], Fewer(TopN, Len(rows)))

(***************************************************************************)
(* --similar collapses equal vectors to one representative each, in the       *)
(* order they first occur, counting the processes it stands for; the query    *)
(* stands for its own vector.                                               *)
(***************************************************************************)
Equals(rows, i) == {j \in DOMAIN rows : rows[j] = rows[i]}
First(rows, i) == CHOOSE j \in Equals(rows, i) : \A k \in Equals(rows, i) : j <= k
Represent(rows, q) ==
  {i \in DOMAIN rows : i = q \/ (rows[i] # rows[q] /\ First(rows, i) = i)}

Collapsed(rows, q) ==
  LET S == Represent(rows, q)
  IN  {[sel |-> s, members |-> [u \in DOMAIN s |-> Cardinality(Equals(rows, s[u]))]] :
         s \in Foremost(S, [i \in S |-> First(rows, i)], Cardinality(S))}

\* Mutant: the first Cap rows of the ball are kept, not the nearest.
CappedUnsorted(c, rows, q) ==
  IF Len(c.sel) <= Cap THEN {c}
  ELSE {[sel |-> SubSeq(c.sel, 1, Cap), members |-> SubSeq(c.members, 1, Cap)]}

\* above Cap the representatives are sorted by distance and both lists cut to Cap
Capped(c, rows, q) ==
  LET S == {c.sel[u] : u \in DOMAIN c.sel}
  IN  IF Len(c.sel) <= Cap THEN {c}
      ELSE {[sel |-> s, members |-> SubSeq(c.members, 1, Cap)] :
              s \in Foremost(S, [i \in S |-> Distance(rows[i], rows[q])], Cap)}

\* the others by resistance, the first TopN of them, with the count of their equals
Ranked(c, rows, q) ==
  LET others == {u \in DOMAIN c.sel : c.sel[u] # q}
      resistance == [u \in others |-> Resistance[rows[q]][rows[c.sel[u]]]]
  IN  {[i \in DOMAIN near |-> [pid |-> c.sel[near[i]], peers |-> c.members[near[i]]]] :
         near \in Foremost(others, resistance, Fewer(TopN, Cardinality(others)))}

Similar(rows, q) == UNION {UNION {Ranked(d, rows, q) : d \in Capped(c, rows, q)} : c \in Collapsed(rows, q)}

\* too few processes, an unknown pid, or fewer than three distinct vectors: status 1
SimilarFails(rows, q) ==
  \/ Len(rows) < 3
  \/ q \notin DOMAIN rows
  \/ Cardinality(Represent(rows, q)) < 3

(***************************************************************************)
(* --regime: the window is rounded up to a power of two between the limits.  *)
(***************************************************************************)
Window(n) == CHOOSE p \in {16, 32, 64, 128, 256} : /\ p >= n \/ p = 256
                                                   /\ p = 16 \/ p < 2 * n
-----------------------------------------------------------------------------
\* a call of the library may fail, and a stop leaves a window short: status 1
Conclude ==
  /\ answer = <<>>
  /\ \/ mode = "anomalies" /\ \E ranked \in Anomalies(population) : answer' = <<0, ranked>>
     \/ /\ mode = "similar" /\ ~SimilarFails(population, query)
        /\ \E ranked \in Similar(population, query) : answer' = <<0, ranked>>
     \/ mode = "regime" /\ answer' = <<0, <<Window(query)>>>>
     \/ mode \in {"similar", "regime"} /\ answer' = <<1, <<>>>>
  /\ UNCHANGED <<mode, population, query>>

ConclusionInit ==
  /\ mode \in {"anomalies", "similar", "regime"}
  /\ \E n \in 0..MaxProcesses : population \in [1..n -> Vectors]
  /\ query \in IF mode = "regime" THEN {1, 17, 64, 300} ELSE 1..MaxProcesses + 1
  /\ answer = <<>>

ConclusionEnded == answer # <<>> /\ UNCHANGED conclusionVars
ConclusionNext == Conclude \/ ConclusionEnded
ConclusionSpec == ConclusionInit /\ [][ConclusionNext]_conclusionVars
-----------------------------------------------------------------------------
Concluded(m) == mode = m /\ answer # <<>> /\ answer[1] = 0

(***************************************************************************)
(* --similar never names the query or its equals, names each distinct vector  *)
(* once, lists them by resistance, and leaves out none that is nearer, by the *)
(* distance the graph is cut by and by resistance, than one it lists.         *)
(***************************************************************************)
SimilarIsNearest ==
  Concluded("similar") =>
    LET named == {answer[2][i].pid : i \in DOMAIN answer[2]}
        dist(i) == Distance(population[i], population[query])
        resist(i) == Resistance[population[query]][population[i]]
    IN  /\ \A i \in named : population[i] # population[query]
        /\ \A i \in named, j \in named : population[i] = population[j] => i = j
        /\ \A i, j \in DOMAIN answer[2] :
             i < j => resist(answer[2][i].pid) <= resist(answer[2][j].pid)
        /\ \A i \in DOMAIN population, j \in named :
             dist(i) < dist(j) /\ resist(i) < resist(j) =>
               population[i] = population[query] \/ \E k \in named : population[k] = population[i]

(***************************************************************************)
(* The comment at the declaration of members: "how many processes each       *)
(* represents".  identical_peers of a named process is the number of         *)
(* processes whose vector equals its own.                                   *)
(***************************************************************************)
PeersAreCounted ==
  Concluded("similar") =>
    \A i \in DOMAIN answer[2] :
      answer[2][i].peers = Cardinality(Equals(population, answer[2][i].pid))
=============================================================================
