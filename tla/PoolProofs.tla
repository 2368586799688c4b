----------------------------- MODULE PoolProofs -----------------------------
(***************************************************************************)
(* What is proved of sublimation's parallel engine.  The depth-first pool  *)
(* (DfsPool) runs every frame once and counts the outstanding ones exactly, *)
(* over deques that hand out what was pushed, whole and once: which is     *)
(* what the work-stealing deque (WsDeque) is proved to do under x86-TSO.   *)
(***************************************************************************)
EXTENDS DfsPool, WsDeque, FiniteSetTheorems, SequenceTheorems, TLAPS

-----------------------------------------------------------------------------
(***************************************************************************)
(* The depth-first pool.                                                   *)
(***************************************************************************)
PoolTypeOK ==
  /\ mpc \in {"alloc", "failed", "spawn", "join", "done"}
  /\ started \in 0..NumWorkers
  /\ deque \in [Workers -> SUBSET Tree]
  /\ active \in Nat
  /\ poolPc \in [Workers -> {"none", "take", "steal", "test", "fn", "push", "exited"}]
  /\ stack \in [Workers -> Seq(Tree \X (Nat \ {0}))]
  /\ runs \in [Tree -> Nat]

\* f is on a deque or in a worker's hands.
Queued(f) == \E w \in Workers : f \in deque[w]
InHands(f) == \E w \in Workers : \E i \in 1..Len(stack[w]) : stack[w][i][1] = f
Born(f) == Queued(f) \/ InHands(f) \/ runs[f] = 1

\* Where the workers are while the caller is where it is.
CallerFollows ==
  /\ mpc \in {"alloc", "failed"} =>
       /\ active = 0 /\ started = 0
       /\ \A w \in Workers : deque[w] = {} /\ poolPc[w] = "none"
       /\ \A f \in Tree : runs[f] = 0
  /\ mpc = "spawn" => \A w \in Workers : poolPc[w] = "none" <=> w >= started
  /\ mpc = "join" => \E w \in Workers : poolPc[w] # "none"
  /\ mpc = "done" => \A w \in Workers : poolPc[w] \in {"none", "exited"}

\* A worker has frames in its hands exactly inside fn, and pushes children
\* that are there.
StacksFollow ==
  \A w \in Workers :
    /\ poolPc[w] \in {"fn", "push"} <=> stack[w] # <<>>
    /\ poolPc[w] = "push" => HasChild(w)
    /\ \A i \in 1..Len(stack[w]) : stack[w][i][2] <= Len(Children[stack[w][i][1]]) + 1

\* A frame is in one place at most, and none once it has run.
InOnePlace ==
  /\ \A v, w \in Workers : \A f \in Tree : f \in deque[v] /\ f \in deque[w] => v = w
  /\ \A f \in Tree : ~(Queued(f) /\ InHands(f))
  /\ \A v, w \in Workers : \A i \in 1..Len(stack[v]), j \in 1..Len(stack[w]) :
       stack[v][i][1] = stack[w][j][1] => v = w /\ i = j
  /\ \A f \in Tree : runs[f] \in {0, 1} /\ (runs[f] = 1 => ~Queued(f) /\ ~InHands(f))

\* fn has pushed the i-th child of g.
Past(g, i) ==
  \/ runs[g] = 1
  \/ \E w \in Workers : \E k \in 1..Len(stack[w]) : stack[w][k][1] = g /\ stack[w][k][2] > i

\* A frame is there from its push on.
BirthFollows ==
  /\ Born(Root) <=> mpc \notin {"alloc", "failed"}
  /\ \A g \in Tree : \A i \in 1..Len(Children[g]) : Born(Children[g][i]) <=> Past(g, i)

PoolInv == /\ PoolTypeOK /\ CallerFollows /\ StacksFollow /\ InOnePlace /\ BirthFollows
           /\ ActiveIsExact /\ NoEarlyExit /\ EachFrameOnce

\* What the frames in a worker's hands are.
LEMMA StackTyped ==
  ASSUME PoolTypeOK, NEW w \in Workers
  PROVE  /\ stack[w] \in Seq(Tree \X (Nat \ {0})) /\ Len(stack[w]) \in Nat
         /\ \A i \in 1..Len(stack[w]) : stack[w][i][1] \in Tree /\ stack[w][i][2] \in Nat \ {0}
         /\ stack[w] # <<>> =>
              /\ Len(stack[w]) \in 1..Len(stack[w])
              /\ InFrame(w) \in Tree /\ NextChild(w) \in Nat \ {0}
              /\ Children[InFrame(w)] \in Seq(Tree) /\ Len(Children[InFrame(w)]) \in Nat
              /\ HasChild(w) => NextChild(w) \in 1..Len(Children[InFrame(w)]) /\ Child(w) \in Tree
<1>1. stack[w] \in Seq(Tree \X (Nat \ {0})) /\ Len(stack[w]) \in Nat
  BY DEF PoolTypeOK
<1>2. \A i \in 1..Len(stack[w]) : stack[w][i][1] \in Tree /\ stack[w][i][2] \in Nat \ {0}
  BY <1>1
<1>3. ASSUME stack[w] # <<>>
      PROVE  /\ Len(stack[w]) \in 1..Len(stack[w])
             /\ InFrame(w) \in Tree /\ NextChild(w) \in Nat \ {0}
             /\ Children[InFrame(w)] \in Seq(Tree) /\ Len(Children[InFrame(w)]) \in Nat
             /\ HasChild(w) => NextChild(w) \in 1..Len(Children[InFrame(w)]) /\ Child(w) \in Tree
  <2>1. Len(stack[w]) \in 1..Len(stack[w])
    BY <1>1, <1>3
  <2>2. InFrame(w) \in Tree /\ NextChild(w) \in Nat \ {0}
    BY <1>2, <2>1 DEF InFrame, NextChild
  <2>3. Children[InFrame(w)] \in Seq(Tree) /\ Len(Children[InFrame(w)]) \in Nat
    BY <2>2, PoolAssumption
  <2>4. HasChild(w) => NextChild(w) \in 1..Len(Children[InFrame(w)]) /\ Child(w) \in Tree
    BY <2>2, <2>3 DEF HasChild, Child
  <2>5. QED
    BY <2>1, <2>2, <2>3, <2>4
<1>4. QED
  BY <1>1, <1>2, <1>3

\* A frame comes into a worker's hands.
LEMMA Entered ==
  ASSUME PoolTypeOK, NEW w \in Workers, NEW f \in Tree, Enter(w, f)
  PROVE  /\ stack' \in [Workers -> Seq(Tree \X (Nat \ {0}))]
         /\ \A v \in Workers : v # w => stack'[v] = stack[v]
         /\ Len(stack'[w]) = Len(stack[w]) + 1
         /\ \A i \in 1..Len(stack[w]) : stack'[w][i] = stack[w][i]
         /\ stack'[w][Len(stack[w]) + 1][1] = f /\ stack'[w][Len(stack[w]) + 1][2] = 1
         /\ stack'[w] # <<>>
<1>1. stack' = [stack EXCEPT ![w] = Append(stack[w], <<f, 1>>)]
  BY DEF Enter
<1>2. stack[w] \in Seq(Tree \X (Nat \ {0})) /\ <<f, 1>> \in Tree \X (Nat \ {0})
  BY StackTyped
<1>3. stack'[w] = Append(stack[w], <<f, 1>>)
  BY <1>1 DEF PoolTypeOK
<1>4. QED
  BY <1>1, <1>2, <1>3 DEF PoolTypeOK

\* The child is pushed: fn goes on with the next one.
LEMMA Advanced ==
  ASSUME PoolTypeOK, NEW w \in Workers, stack[w] # <<>>
  PROVE  /\ NextPushed(w) \in Seq(Tree \X (Nat \ {0})) /\ Len(NextPushed(w)) = Len(stack[w])
         /\ \A i \in 1..Len(stack[w]) :
              /\ NextPushed(w)[i][1] = stack[w][i][1]
              /\ NextPushed(w)[i][2] = IF i = Len(stack[w]) THEN NextChild(w) + 1 ELSE stack[w][i][2]
<1>1. /\ stack[w] \in Seq(Tree \X (Nat \ {0})) /\ Len(stack[w]) \in 1..Len(stack[w])
      /\ stack[w][Len(stack[w])] \in Tree \X (Nat \ {0})
  BY StackTyped
<1> DEFINE e == stack[w][Len(stack[w])]
           n == [e EXCEPT ![2] = @ + 1]
<1>2. n \in Tree \X (Nat \ {0}) /\ n[1] = e[1] /\ n[2] = e[2] + 1
  BY <1>1, SMTT(30)
<1>3. NextPushed(w) = [stack[w] EXCEPT ![Len(stack[w])] = n]
  BY DEF NextPushed
<1> HIDE DEF n
<1>4. QED
  BY <1>1, <1>2, <1>3 DEF InFrame, NextChild

\* The outstanding frames, one by one.
LEMMA OutstandingIs ==
  \A f : f \in Outstanding <=>
           Queued(f) \/ InHands(f) \/ \E w \in Workers : poolPc[w] = "push" /\ f = Child(w)
<1> SUFFICES ASSUME NEW f
             PROVE  f \in Outstanding <=>
                      Queued(f) \/ InHands(f) \/ \E w \in Workers : poolPc[w] = "push" /\ f = Child(w)
  OBVIOUS
<1>1. f \in UNION {deque[w] : w \in Workers} <=> Queued(f)
  BY DEF Queued
<1>2. f \in UNION {{stack[w][i][1] : i \in 1..Len(stack[w])} : w \in Workers} <=> InHands(f)
  BY DEF InHands
<1>3. f \in {Child(w) : w \in {v \in Workers : poolPc[v] = "push"}}
        <=> \E w \in Workers : poolPc[w] = "push" /\ f = Child(w)
  OBVIOUS
<1>4. QED
  BY <1>1, <1>2, <1>3 DEF Outstanding

LEMMA OutstandingNext ==
  \A f : f \in Outstanding' <=>
           Queued(f)' \/ InHands(f)' \/ \E w \in Workers : poolPc'[w] = "push" /\ f = Child(w)'
<1>1. (\A f : f \in Outstanding <=>
                Queued(f) \/ InHands(f) \/ \E w \in Workers : poolPc[w] = "push" /\ f = Child(w))'
  BY OutstandingIs, PTL
<1>2. QED
  BY <1>1

LEMMA OutstandingFinite ==
  ASSUME PoolTypeOK, StacksFollow
  PROVE  Outstanding \subseteq Tree /\ IsFiniteSet(Outstanding)
<1>1. ASSUME NEW f, Queued(f) PROVE f \in Tree
  BY <1>1 DEF Queued, PoolTypeOK
<1>2. ASSUME NEW f, InHands(f) PROVE f \in Tree
  BY <1>2, StackTyped DEF InHands
<1>3. ASSUME NEW w \in Workers, poolPc[w] = "push" PROVE Child(w) \in Tree
  BY <1>3, StackTyped DEF StacksFollow
<1>4. Outstanding \subseteq Tree
  BY <1>1, <1>2, <1>3, OutstandingIs
<1>5. QED
  BY <1>4, PoolAssumption, FS_Subset

\* The count follows when one frame is added, removed, or none.
LEMMA CountGrows ==
  ASSUME PoolTypeOK, StacksFollow, ActiveIsExact, NEW x, x \notin Outstanding,
         Outstanding' = Outstanding \cup {x}, active' = active + 1
  PROVE  ActiveIsExact'
<1>1. Cardinality(Outstanding \cup {x}) = Cardinality(Outstanding) + 1
  BY OutstandingFinite, FS_AddElement
<1>2. QED
  BY <1>1 DEF ActiveIsExact

LEMMA CountShrinks ==
  ASSUME PoolTypeOK, StacksFollow, ActiveIsExact, NEW x \in Outstanding,
         Outstanding' = Outstanding \ {x}, active' = active - 1
  PROVE  ActiveIsExact' /\ active' \in Nat
<1>1. /\ Cardinality(Outstanding \ {x}) = Cardinality(Outstanding) - 1
      /\ IsFiniteSet(Outstanding \ {x})
  BY OutstandingFinite, FS_RemoveElement
<1>2. Cardinality(Outstanding \ {x}) \in Nat
  BY <1>1, FS_CardinalityType
<1>3. QED
  BY <1>1, <1>2 DEF ActiveIsExact

\* The next child of a frame in a worker's hands was never pushed, and no
\* other worker is about to push it.
LEMMA NextIsFresh ==
  ASSUME PoolInv, NEW w \in Workers, stack[w] # <<>>, HasChild(w)
  PROVE  /\ Child(w) \in Tree /\ ~Born(Child(w)) /\ Child(w) # Root
         /\ \A v \in Workers : stack[v] # <<>> /\ HasChild(v) /\ Child(v) = Child(w) => v = w
<1>1. PoolTypeOK
  BY DEF PoolInv
<1> DEFINE n == Len(stack[w])
           g == InFrame(w)
           i == NextChild(w)
<1>2. /\ n \in 1..n /\ g \in Tree /\ i \in 1..Len(Children[g]) /\ Child(w) \in Tree
      /\ Child(w) = Children[g][i] /\ stack[w][n][1] = g /\ stack[w][n][2] = i
  BY <1>1, StackTyped DEF Child, InFrame, NextChild
<1>3. InHands(g) /\ runs[g] # 1
  BY <1>2 DEF InHands, PoolInv, InOnePlace
<1> HIDE DEF n, g, i
<1>4. ASSUME NEW v \in Workers, NEW k \in 1..Len(stack[v]), stack[v][k][1] = g PROVE v = w /\ k = n
  BY <1>2, <1>4 DEF PoolInv, InOnePlace, n
<1>5. ~Past(g, i)
  BY <1>2, <1>3, <1>4 DEF Past
<1>6. ~Born(Child(w))
  BY <1>2, <1>5 DEF PoolInv, BirthFollows
<1>7. Child(w) # Root
  BY <1>2, PoolTreeAssumption
<1>8. ASSUME NEW v \in Workers, stack[v] # <<>>, HasChild(v), Child(v) = Child(w) PROVE v = w
  <2>1. /\ Len(stack[v]) \in 1..Len(stack[v]) /\ InFrame(v) \in Tree
        /\ NextChild(v) \in 1..Len(Children[InFrame(v)]) /\ Child(v) = Children[InFrame(v)][NextChild(v)]
        /\ stack[v][Len(stack[v])][1] = InFrame(v)
    BY <1>1, <1>8, StackTyped DEF Child, InFrame
  <2>2. InFrame(v) = g
    <3>1. Children[InFrame(v)][NextChild(v)] = Children[g][i]
      BY <1>2, <1>8, <2>1
    <3>2. \A f, h \in Tree : \A a \in 1..Len(Children[f]), b \in 1..Len(Children[h]) :
            Children[f][a] = Children[h][b] => f = h
      BY PoolTreeAssumption
    <3>3. QED
      BY <1>2, <2>1, <3>1, <3>2
  <2>3. QED
    BY <1>4, <2>1, <2>2
<1>9. QED
  BY <1>2, <1>6, <1>7, <1>8

\* A step that leaves the deques, the stacks and the counts of runs alone.
LEMMA Untouched ==
  ASSUME PoolInv, UNCHANGED <<deque, stack, runs>>
  PROVE  /\ InOnePlace'
         /\ \A f : (Queued(f)' <=> Queued(f)) /\ (InHands(f)' <=> InHands(f)) /\ (Born(f)' <=> Born(f))
         /\ \A g \in Tree : \A i \in 1..Len(Children[g]) : Born(Children[g][i])' <=> Past(g, i)'
         /\ \A w \in Workers : (Child(w)' = Child(w)) /\ (HasChild(w)' <=> HasChild(w))
<1>1. \A f : (Queued(f)' <=> Queued(f)) /\ (InHands(f)' <=> InHands(f))
  BY DEF Queued, InHands
<1>2. InOnePlace'
  BY <1>1 DEF PoolInv, InOnePlace
<1>3. \A w \in Workers : (Child(w)' = Child(w)) /\ (HasChild(w)' <=> HasChild(w))
  BY DEF Child, HasChild, InFrame, NextChild
<1>4. \A f : Born(f)' <=> Born(f)
  BY <1>1 DEF Born
<1>5. \A g \in Tree : \A i \in 1..Len(Children[g]) : Past(g, i)' <=> Past(g, i)
  BY DEF Past
<1>6. QED
  BY <1>1, <1>2, <1>3, <1>4, <1>5 DEF PoolInv, BirthFollows

\* ... and counts no frame.
LEMMA QuietKeeps ==
  ASSUME PoolInv, UNCHANGED <<deque, active, stack, runs>>,
         \A w \in Workers : poolPc'[w] = "push" <=> poolPc[w] = "push"
  PROVE  InOnePlace' /\ ActiveIsExact' /\ Outstanding' = Outstanding
<1>1. Outstanding' = Outstanding
  BY Untouched, OutstandingIs, OutstandingNext
<1>2. QED
  BY <1>1, Untouched DEF PoolInv, ActiveIsExact

\* While a worker is at work the caller waits, and nobody has left.
LEMMA AtWork ==
  ASSUME PoolInv, NEW w \in Workers, poolPc[w] \notin {"none", "exited"}
  PROVE  mpc \in {"spawn", "join"}
BY DEF PoolInv, PoolTypeOK, CallerFollows

\* A frame goes from a deque into a worker's hands: a take or a steal.
LEMMA TakesKeep ==
  ASSUME PoolInv, NEW v \in Workers, NEW w \in Workers, NEW f \in deque[v],
         poolPc[w] \in {"take", "steal"}, Enter(w, f),
         deque' = [deque EXCEPT ![v] = @ \ {f}], poolPc' = [poolPc EXCEPT ![w] = "fn"],
         UNCHANGED <<mpc, started, active, runs>>
  PROVE  PoolInv'
<1>1. PoolTypeOK /\ f \in Tree /\ Queued(f) /\ ~InHands(f) /\ runs[f] = 0
  BY DEF PoolInv, PoolTypeOK, InOnePlace, Queued
<1>2. /\ stack' \in [Workers -> Seq(Tree \X (Nat \ {0}))]
      /\ \A u \in Workers : u # w => stack'[u] = stack[u]
      /\ Len(stack'[w]) = Len(stack[w]) + 1
      /\ \A i \in 1..Len(stack[w]) : stack'[w][i] = stack[w][i]
      /\ stack'[w][Len(stack[w]) + 1][1] = f /\ stack'[w][Len(stack[w]) + 1][2] = 1
      /\ stack'[w] # <<>>
  BY <1>1, Entered
<1>3. stack[w] = <<>> /\ Len(stack[w]) = 0
  BY <1>1, StackTyped DEF PoolInv, StacksFollow
<1>4. Len(stack'[w]) = 1 /\ stack'[w][1][1] = f /\ stack'[w][1][2] = 1
  BY <1>2, <1>3
<1>5. \A g : Queued(g)' <=> Queued(g) /\ g # f
  <2>1. \A u \in Workers : f \notin deque'[u]
    BY <1>1 DEF PoolInv, InOnePlace, PoolTypeOK
  <2>2. \A u \in Workers : \A g : g # f => (g \in deque'[u] <=> g \in deque[u])
    BY <1>1 DEF PoolTypeOK
  <2>3. QED
    BY <2>1, <2>2 DEF Queued
<1>6. \A g : InHands(g)' <=> InHands(g) \/ g = f
  <2>1. ASSUME NEW g, InHands(g)' PROVE InHands(g) \/ g = f
    <3>1. PICK u \in Workers : \E i \in 1..Len(stack'[u]) : stack'[u][i][1] = g
      BY <2>1 DEF InHands
    <3>2. CASE u = w
      BY <1>4, <3>1, <3>2
    <3>3. CASE u # w
      BY <1>2, <3>1, <3>3, SMTT(30) DEF InHands
    <3>4. QED
      BY <3>2, <3>3
  <2>2. InHands(f)'
    BY <1>4 DEF InHands
  <2>3. ASSUME NEW g, InHands(g) PROVE InHands(g)'
    <3>1. PICK u \in Workers : \E i \in 1..Len(stack[u]) : stack[u][i][1] = g
      BY <2>3 DEF InHands
    <3>2. u # w /\ stack'[u] = stack[u]
      BY <1>2, <1>3, <3>1
    <3>3. QED
      BY <3>1, <3>2 DEF InHands
  <2>4. QED
    BY <2>1, <2>2, <2>3
<1>7. \A g : Born(g)' <=> Born(g)
  BY <1>1, <1>5, <1>6 DEF Born
<1>8. \A g \in Tree : \A i \in 1..Len(Children[g]) : Past(g, i)' <=> Past(g, i)
  <2> SUFFICES ASSUME NEW g \in Tree, NEW i \in 1..Len(Children[g])
               PROVE  Past(g, i)' <=> Past(g, i)
    OBVIOUS
  <2>1. ~(\E k \in 1..Len(stack'[w]) : stack'[w][k][1] = g /\ stack'[w][k][2] > i)
    BY <1>4
  <2>2. ~(\E k \in 1..Len(stack[w]) : stack[w][k][1] = g /\ stack[w][k][2] > i)
    BY <1>3
  <2>3. ASSUME Past(g, i), runs[g] # 1 PROVE Past(g, i)'
    <3>1. PICK u \in Workers : \E k \in 1..Len(stack[u]) : stack[u][k][1] = g /\ stack[u][k][2] > i
      BY <2>3 DEF Past
    <3>2. stack'[u] = stack[u]
      BY <1>2, <2>2, <3>1
    <3>3. QED
      BY <3>1, <3>2 DEF Past
  <2>4. ASSUME Past(g, i)', runs[g] # 1 PROVE Past(g, i)
    <3>1. PICK u \in Workers : \E k \in 1..Len(stack'[u]) : stack'[u][k][1] = g /\ stack'[u][k][2] > i
      BY <1>1, <2>4 DEF Past
    <3>2. stack'[u] = stack[u]
      BY <1>2, <2>1, <3>1
    <3>3. QED
      BY <3>1, <3>2 DEF Past
  <2>5. QED
    BY <1>1, <2>3, <2>4 DEF Past
<1>9. \A u \in Workers : poolPc'[u] = "push" <=> poolPc[u] = "push" /\ u # w
  BY <1>1, SMTT(30) DEF PoolTypeOK
<1>10. \A u \in Workers : poolPc[u] = "push" => Child(u)' = Child(u) /\ u # w
  BY <1>2 DEF Child, InFrame, NextChild
<1>11. Outstanding' = Outstanding
  BY <1>1, <1>5, <1>6, <1>9, <1>10, OutstandingIs, OutstandingNext
<1>12. PoolTypeOK'
  BY <1>1, <1>2 DEF PoolTypeOK
<1>13. CallerFollows'
  BY <1>1, AtWork DEF PoolInv, CallerFollows, PoolTypeOK
<1>14. StacksFollow'
  <2>1. ASSUME NEW u \in Workers, u # w
        PROVE  /\ poolPc'[u] \in {"fn", "push"} <=> stack'[u] # <<>>
               /\ poolPc'[u] = "push" => HasChild(u)'
               /\ \A i \in 1..Len(stack'[u]) : stack'[u][i][2] <= Len(Children[stack'[u][i][1]]) + 1
    <3>1. poolPc'[u] = poolPc[u] /\ stack'[u] = stack[u]
      BY <1>1, <1>2, <2>1 DEF PoolTypeOK
    <3>2. QED
      BY <1>1, <2>1, <3>1, SMTT(30) DEF PoolInv, StacksFollow, HasChild, InFrame, NextChild
  <2>2. poolPc'[w] = "fn" /\ stack'[w] # <<>>
    BY <1>1, <1>2 DEF PoolTypeOK
  <2>3. \A i \in 1..Len(stack'[w]) : stack'[w][i][2] <= Len(Children[stack'[w][i][1]]) + 1
    BY <1>1, <1>4, PoolAssumption
  <2>4. QED
    BY <2>1, <2>2, <2>3 DEF StacksFollow
<1>15. InOnePlace'
  <2>1. \A u, x \in Workers : \A g \in Tree : g \in deque'[u] /\ g \in deque'[x] => u = x
    BY <1>1 DEF PoolInv, InOnePlace, PoolTypeOK
  <2>2. \A g \in Tree : ~(Queued(g)' /\ InHands(g)')
    BY <1>5, <1>6 DEF PoolInv, InOnePlace
  <2>3. \A u, x \in Workers : \A i \in 1..Len(stack'[u]), j \in 1..Len(stack'[x]) :
          stack'[u][i][1] = stack'[x][j][1] => u = x /\ i = j
    <3>1. \A u \in Workers : \A i \in 1..Len(stack[u]) : stack[u][i][1] # f
      BY <1>1 DEF InHands
    <3>2. ASSUME NEW u \in Workers, NEW x \in Workers, NEW i \in 1..Len(stack'[u]), NEW j \in 1..Len(stack'[x]),
                 stack'[u][i][1] = stack'[x][j][1]
          PROVE  u = x /\ i = j
      <4>1. CASE u = w /\ x = w
        BY <1>4, <3>2, <4>1
      <4>2. CASE u # w /\ x # w
        <5>1. stack'[u] = stack[u] /\ stack'[x] = stack[x]
          BY <1>2, <4>2
        <5>2. QED
          BY <3>2, <5>1 DEF PoolInv, InOnePlace
      <4>3. CASE u = w /\ x # w
        <5>1. stack'[x] = stack[x]
          BY <1>2, <4>3
        <5>2. QED
          BY <1>4, <3>1, <3>2, <4>3, <5>1
      <4>4. CASE u # w /\ x = w
        <5>1. stack'[u] = stack[u]
          BY <1>2, <4>4
        <5>2. QED
          BY <1>4, <3>1, <3>2, <4>4, <5>1
      <4>5. QED
        BY <4>1, <4>2, <4>3, <4>4
    <3>3. QED
      BY <3>2
  <2>4. \A g \in Tree : runs'[g] \in {0, 1} /\ (runs'[g] = 1 => ~Queued(g)' /\ ~InHands(g)')
    BY <1>1, <1>5, <1>6 DEF PoolInv, InOnePlace
  <2>5. QED
    BY <2>1, <2>2, <2>3, <2>4 DEF InOnePlace
<1>16. BirthFollows'
  BY <1>7, <1>8 DEF PoolInv, BirthFollows
<1>17. ActiveIsExact' /\ NoEarlyExit' /\ EachFrameOnce'
  BY <1>1, <1>11, AtWork DEF PoolInv, ActiveIsExact, NoEarlyExit, EachFrameOnce, PoolTypeOK
<1>18. QED
  BY <1>12, <1>13, <1>14, <1>15, <1>16, <1>17 DEF PoolInv

\* sub_dfs_push() counts the child.
LEMMA PushCountsKeeps ==
  ASSUME PoolInv, NEW w \in Workers, PushCounts(w)
  PROVE  PoolInv'
<1>1. PoolTypeOK /\ StacksFollow /\ poolPc[w] = "fn" /\ stack[w] # <<>> /\ HasChild(w)
  BY DEF PoolInv, PushCounts, StacksFollow
<1>2. /\ Child(w) \in Tree /\ ~Born(Child(w))
      /\ \A v \in Workers : stack[v] # <<>> /\ HasChild(v) /\ Child(v) = Child(w) => v = w
  BY <1>1, NextIsFresh
<1>3. UNCHANGED <<mpc, started, deque, stack, runs>> /\ active' = active + 1
  BY DEF PushCounts
<1>4. \A v \in Workers : poolPc'[v] = IF v = w THEN "push" ELSE poolPc[v]
  BY <1>1 DEF PushCounts, PoolTypeOK
<1>5. mpc \in {"spawn", "join"}
  BY <1>1, AtWork
<1>6. Child(w) \notin Outstanding
  BY <1>1, <1>2, OutstandingIs DEF Born, StacksFollow
<1>7. Outstanding' = Outstanding \cup {Child(w)}
  BY <1>1, <1>3, <1>4, Untouched, OutstandingIs, OutstandingNext
<1>8. ActiveIsExact'
  BY <1>1, <1>3, <1>6, <1>7, CountGrows DEF PoolInv
<1>9. PoolTypeOK'
  BY <1>1, <1>3 DEF PushCounts, PoolTypeOK
<1>10. CallerFollows'
  BY <1>1, <1>3, <1>4, <1>5 DEF PoolInv, CallerFollows
<1>11. StacksFollow'
  BY <1>1, <1>3, <1>4, Untouched DEF StacksFollow
<1>12. NoEarlyExit' /\ EachFrameOnce'
  <2>1. InFrame(w) \in Outstanding
    BY <1>1, StackTyped, OutstandingIs DEF InHands, InFrame
  <2>2. QED
    BY <1>3, <1>4, <1>5, <2>1 DEF PoolInv, NoEarlyExit, EachFrameOnce
<1>13. BirthFollows'
  BY <1>3, Untouched DEF PoolInv, BirthFollows
<1>14. QED
  BY <1>8, <1>9, <1>10, <1>11, <1>12, <1>13, <1>3, Untouched DEF PoolInv

\* The child goes onto the worker's deque, or into its hands.  In both cases
\* it is there from now on, and fn goes on with the next one.
LEMMA PushesKeep ==
  ASSUME PoolInv, NEW w \in Workers, NEW c, c = Child(w), PoolPushFits(w) \/ PushInline(w)
  PROVE  PoolInv'
<1> DEFINE n == Len(stack[w])
<1>1. PoolTypeOK /\ poolPc[w] = "push" /\ stack[w] # <<>> /\ HasChild(w)
  BY DEF PoolInv, PoolPushFits, PushInline, StacksFollow
<1>2. /\ c \in Tree /\ ~Queued(c) /\ ~InHands(c) /\ runs[c] = 0 /\ c # Root
      /\ \A v \in Workers : stack[v] # <<>> /\ HasChild(v) /\ Child(v) = c => v = w
  BY <1>1, NextIsFresh DEF Born, PoolInv, InOnePlace
<1>3. /\ stack[w] \in Seq(Tree \X (Nat \ {0})) /\ n \in Nat /\ n \in 1..n
      /\ InFrame(w) \in Tree /\ NextChild(w) \in 1..Len(Children[InFrame(w)])
      /\ stack[w][n][1] = InFrame(w) /\ stack[w][n][2] = NextChild(w)
      /\ Children[InFrame(w)][NextChild(w)] = c
  BY <1>1, StackTyped DEF InFrame, NextChild, Child
<1>4. /\ NextPushed(w) \in Seq(Tree \X (Nat \ {0})) /\ Len(NextPushed(w)) = n
      /\ \A i \in 1..n : /\ NextPushed(w)[i][1] = stack[w][i][1]
                         /\ NextPushed(w)[i][2] = IF i = n THEN NextChild(w) + 1 ELSE stack[w][i][2]
  BY <1>1, Advanced
<1>5. UNCHANGED <<mpc, started, active, runs>> /\ mpc \in {"spawn", "join"}
  BY <1>1, AtWork DEF PoolPushFits, PushInline
<1>6. \A v \in Workers : poolPc'[v] = IF v = w THEN "fn" ELSE poolPc[v]
  BY <1>1 DEF PoolPushFits, PushInline, PoolTypeOK
<1> DEFINE t == NextPushed(w)
           Fits == deque' = [deque EXCEPT ![w] = @ \cup {c}] /\ stack'[w] = t
           Inline == deque' = deque /\ stack'[w] = Append(t, <<c, 1>>)
<1>20. Fits \/ Inline
  BY <1>1 DEF PoolPushFits, PushInline, PoolTypeOK
<1>21. \A v \in Workers : v # w => stack'[v] = stack[v]
  BY <1>1 DEF PoolPushFits, PushInline, PoolTypeOK
<1>22. DOMAIN stack' = Workers /\ stack' = [v \in Workers |-> stack'[v]]
  BY <1>1 DEF PoolPushFits, PushInline, PoolTypeOK
<1> HIDE DEF n, t
<1>23. <<c, 1>> \in Tree \X (Nat \ {0}) /\ t \in Seq(Tree \X (Nat \ {0})) /\ Len(t) = n
  BY <1>2, <1>4 DEF t
<1>24. Append(t, <<c, 1>>) \in Seq(Tree \X (Nat \ {0})) /\ Len(Append(t, <<c, 1>>)) = n + 1
       /\ (\A i \in 1..n : Append(t, <<c, 1>>)[i] = t[i]) /\ Append(t, <<c, 1>>)[n + 1] = <<c, 1>>
  BY <1>3, <1>23
<1>25. stack' \in [Workers -> Seq(Tree \X (Nat \ {0}))] /\ stack'[w] # <<>>
  <2>1. \A v \in Workers : stack'[v] \in Seq(Tree \X (Nat \ {0}))
    BY <1>1, <1>20, <1>21, <1>23, <1>24, ZenonT(30) DEF PoolTypeOK
  <2>2. Len(stack'[w]) # 0
    BY <1>3, <1>20, <1>23, <1>24
  <2>3. QED
    BY <1>22, <2>1, <2>2
<1>26. \/ deque' = [deque EXCEPT ![w] = @ \cup {c}] /\ Len(stack'[w]) = n
       \/ /\ deque' = deque /\ Len(stack'[w]) = n + 1
          /\ stack'[w][n + 1][1] = c /\ stack'[w][n + 1][2] = 1
  BY <1>20, <1>23, <1>24
<1>27. ASSUME NEW v \in Workers, NEW k \in 1..Len(stack[v])
       PROVE  /\ k \in 1..Len(stack'[v]) /\ stack'[v][k][1] = stack[v][k][1]
              /\ stack'[v][k][2] = IF v = w /\ k = n THEN stack[v][k][2] + 1 ELSE stack[v][k][2]
  <2>1. CASE v # w
    BY <1>21, <1>27, <2>1
  <2>2. CASE v = w
    <3>1. k \in 1..n /\ k \in 1..Len(stack'[w]) /\ stack'[w][k] = t[k]
      BY <1>3, <1>20, <1>23, <1>24, <1>27, <2>2, SMTT(30) DEF n
    <3>2. QED
      BY <1>3, <1>4, <2>2, <3>1 DEF t
  <2>3. QED
    BY <2>1, <2>2
<1>28. ASSUME NEW v \in Workers, NEW k \in 1..Len(stack'[v])
       PROVE  k \in 1..Len(stack[v]) \/ (Inline /\ v = w /\ k = n + 1)
  <2>1. CASE v # w
    BY <1>21, <1>28, <2>1
  <2>2. CASE v = w
    BY <1>3, <1>20, <1>23, <1>24, <1>28, <2>2 DEF n
  <2>3. QED
    BY <2>1, <2>2
<1>29. \A g : InHands(g) => InHands(g)'
  <2> SUFFICES ASSUME NEW g, InHands(g) PROVE InHands(g)'
    OBVIOUS
  <2>1. PICK v \in Workers : \E k \in 1..Len(stack[v]) : stack[v][k][1] = g
    BY DEF InHands
  <2>2. PICK k \in 1..Len(stack[v]) : stack[v][k][1] = g
    BY <2>1
  <2>3. k \in 1..Len(stack'[v]) /\ stack'[v][k][1] = g
    BY <1>27, <2>2
  <2>4. QED
    BY <2>3 DEF InHands
<1>30. \A g : InHands(g)' => InHands(g) \/ (Inline /\ g = c)
  <2> SUFFICES ASSUME NEW g, InHands(g)' PROVE InHands(g) \/ (Inline /\ g = c)
    OBVIOUS
  <2>1. PICK v \in Workers : \E k \in 1..Len(stack'[v]) : stack'[v][k][1] = g
    BY DEF InHands
  <2>2. PICK k \in 1..Len(stack'[v]) : stack'[v][k][1] = g
    BY <2>1
  <2>3. CASE k \in 1..Len(stack[v])
    <3>1. stack[v][k][1] = g
      BY <1>27, <2>2, <2>3
    <3>2. QED
      BY <2>3, <3>1 DEF InHands
  <2>4. CASE Inline /\ v = w /\ k = n + 1
    <3>1. <<c, 1>>[1] = c
      OBVIOUS
    <3>2. g = <<c, 1>>[1]
      BY <1>24, <2>2, <2>4, Zenon
    <3>3. QED
      BY <2>4, <3>1, <3>2
  <2>5. QED
    BY <1>28, <2>3, <2>4
<1>31. Inline => InHands(c)'
  <2>1. SUFFICES ASSUME Inline PROVE InHands(c)'
    OBVIOUS
  <2>2. n + 1 \in 1..Len(stack'[w]) /\ stack'[w][n + 1] = <<c, 1>>
    BY <1>3, <1>23, <1>24, <2>1
  <2>3. <<c, 1>>[1] = c
    OBVIOUS
  <2>4. stack'[w][n + 1][1] = c
    BY <2>2, <2>3, Zenon
  <2>5. QED
    BY <2>2, <2>4 DEF InHands
<1>33. ~(Fits /\ Inline)
  <2>1. n # n + 1
    BY <1>3
  <2>2. ASSUME Fits, Inline PROVE Append(t, <<c, 1>>) = t
    BY <2>2
  <2>3. Append(t, <<c, 1>>) # t
    BY <1>23, <1>24, <2>1
  <2>4. QED
    BY <2>2, <2>3
<1>32. /\ Fits => \A g : Queued(g)' <=> Queued(g) \/ g = c
       /\ Inline => \A g : Queued(g)' <=> Queued(g)
  <2>1. CASE Fits
    BY <1>1, <2>1, <1>33 DEF Queued, PoolTypeOK
  <2>2. CASE Inline
    BY <1>1, <2>2 DEF Queued, PoolTypeOK
  <2>3. QED
    BY <1>33, <2>1, <2>2
<1> HIDE DEF Fits, Inline
<1>8. \A g : /\ Queued(g)' \/ InHands(g)' <=> Queued(g) \/ InHands(g) \/ g = c
             /\ Queued(g)' => Queued(g) \/ g = c
             /\ InHands(g)' => InHands(g) \/ g = c
             /\ g = c => ~(Queued(g)' /\ InHands(g)')
  <2>1. CASE Fits
    <3>1. \A g : (InHands(g)' <=> InHands(g)) /\ (Queued(g)' <=> Queued(g) \/ g = c)
      BY <1>29, <1>30, <1>32, <1>33, <2>1, Zenon
    <3>2. QED
      BY <1>2, <3>1, Zenon
  <2>2. CASE Inline
    <3>1. \A g : (InHands(g)' <=> InHands(g) \/ g = c) /\ (Queued(g)' <=> Queued(g))
      BY <1>29, <1>30, <1>31, <1>32, <2>2, Zenon
    <3>2. QED
      BY <1>2, <3>1, Zenon
  <2>3. QED
    BY <1>20, <2>1, <2>2
<1>9. \A g : Born(g)' <=> Born(g) \/ g = c
  BY <1>5, <1>8 DEF Born
<1>10. ASSUME NEW g \in Tree, NEW i \in 1..Len(Children[g])
       PROVE  Past(g, i)' <=> Past(g, i) \/ (g = InFrame(w) /\ i = NextChild(w))
  <2>1. i \in Nat /\ i >= 1
    BY <1>10, PoolAssumption
  <2>2. ASSUME NEW v \in Workers, NEW k \in 1..Len(stack[v]), stack[v][k][1] = g, stack[v][k][2] > i
        PROVE  Past(g, i)'
    <3>1. stack[v][k][2] \in Nat
      BY <1>1, <2>2, StackTyped
    <3>2. k \in 1..Len(stack'[v]) /\ stack'[v][k][1] = g /\ stack'[v][k][2] > i
      BY <1>27, <2>1, <2>2, <3>1, SMTT(30)
    <3>3. QED
      BY <3>2 DEF Past
  <2>3. ASSUME g = InFrame(w), i = NextChild(w) PROVE Past(g, i)'
    <3>1. n \in 1..Len(stack[w]) /\ n \in 1..Len(stack'[w]) /\ stack'[w][n][1] = g /\ stack'[w][n][2] = i + 1
      BY <1>3, <1>27, <2>3 DEF n
    <3>2. QED
      BY <2>1, <3>1 DEF Past
  <2>4. ASSUME NEW v \in Workers, NEW k \in 1..Len(stack'[v]), stack'[v][k][1] = g, stack'[v][k][2] > i
        PROVE  Past(g, i) \/ (g = InFrame(w) /\ i = NextChild(w))
    <3>1. CASE k \in 1..Len(stack[v]) /\ ~(v = w /\ k = n)
      <4>1. stack[v][k][1] = g /\ stack[v][k][2] > i
        BY <1>27, <2>4, <3>1
      <4>2. QED
        BY <3>1, <4>1 DEF Past
    <3>2. CASE v = w /\ k = n
      <4>1. g = InFrame(w) /\ NextChild(w) + 1 > i /\ NextChild(w) \in Nat /\ n \in 1..Len(stack[w])
        BY <1>3, <1>27, <2>4, <3>2, SMTT(30) DEF n
      <4>2. i = NextChild(w) \/ stack[w][n][2] > i
        BY <1>3, <2>1, <4>1
      <4>3. QED
        BY <1>3, <4>1, <4>2 DEF Past
    <3>3. CASE Inline /\ v = w /\ k = n + 1
      <4>1. stack'[v][k][2] = 1
        BY <1>23, <1>24, <3>3 DEF Inline
      <4>2. QED
        BY <2>1, <2>4, <4>1
    <3>4. QED
      BY <1>28, <2>4, <3>1, <3>2, <3>3
  <2>5. QED
    BY <1>5, <2>2, <2>3, <2>4 DEF Past
<1>11. BirthFollows'
  <2>1. Born(Root)' <=> Born(Root)
    BY <1>2, <1>9
  <2>2. ASSUME NEW g \in Tree, NEW i \in 1..Len(Children[g]) PROVE Born(Children[g][i])' <=> Past(g, i)'
    <3>1. Children[g][i] = c <=> g = InFrame(w) /\ i = NextChild(w)
      BY <1>3, PoolTreeAssumption, SMTT(30)
    <3>2. QED
      BY <1>9, <1>10, <3>1 DEF PoolInv, BirthFollows
  <2>3. QED
    BY <1>5, <2>1, <2>2 DEF PoolInv, BirthFollows
<1>12. \A v \in Workers : v # w =>
         /\ Child(v)' = Child(v) /\ (HasChild(v)' <=> HasChild(v)) /\ poolPc'[v] = poolPc[v]
  BY <1>6, <1>21 DEF Child, HasChild, InFrame, NextChild
<1>13. Outstanding' = Outstanding
  <2>1. ASSUME NEW g, g \in Outstanding PROVE g \in Outstanding'
    BY <1>6, <1>8, <1>12, <2>1, OutstandingIs, OutstandingNext
  <2>2. ASSUME NEW g, g \in Outstanding' PROVE g \in Outstanding
    BY <1>1, <1>6, <1>8, <1>12, <2>2, OutstandingIs, OutstandingNext
  <2>3. QED
    BY <2>1, <2>2
<1>14. PoolTypeOK'
  <2>1. deque' \in [Workers -> SUBSET Tree]
    <3>1. deque' = [deque EXCEPT ![w] = @ \cup {c}] \/ deque' = deque
      BY <1>20 DEF Fits, Inline
    <3>2. deque \in [Workers -> SUBSET Tree]
      BY <1>1 DEF PoolTypeOK
    <3>3. QED
      BY <1>2, <3>1, <3>2
  <2>2. poolPc' \in [Workers -> {"none", "take", "steal", "test", "fn", "push", "exited"}]
    BY <1>1 DEF PoolPushFits, PushInline, PoolTypeOK
  <2>3. QED
    BY <1>1, <1>5, <1>25, <2>1, <2>2 DEF PoolTypeOK
<1>15. CallerFollows'
  BY <1>1, <1>5, <1>6 DEF PoolInv, CallerFollows
<1>16. StacksFollow'
  <2>1. ASSUME NEW v \in Workers, v # w
        PROVE  /\ poolPc'[v] \in {"fn", "push"} <=> stack'[v] # <<>>
               /\ poolPc'[v] = "push" => HasChild(v)'
               /\ \A i \in 1..Len(stack'[v]) : stack'[v][i][2] <= Len(Children[stack'[v][i][1]]) + 1
    BY <1>12, <1>21, <2>1 DEF PoolInv, StacksFollow
  <2>2. poolPc'[w] = "fn" /\ stack'[w] # <<>>
    BY <1>6, <1>25
  <2>3. ASSUME NEW k \in 1..Len(stack'[w])
        PROVE  stack'[w][k][2] <= Len(Children[stack'[w][k][1]]) + 1
    <3>1. CASE k \in 1..Len(stack[w]) /\ k # n
      BY <1>27, <3>1 DEF PoolInv, StacksFollow
    <3>2. CASE k = n
      <4>1. n \in 1..Len(stack[w]) /\ Len(Children[InFrame(w)]) \in Nat
        BY <1>1, <1>3, StackTyped DEF n
      <4>2. stack'[w][n][1] = InFrame(w) /\ stack'[w][n][2] = NextChild(w) + 1
        BY <1>3, <1>27, <4>1
      <4>3. QED
        BY <1>3, <3>2, <4>1, <4>2
    <3>3. CASE Inline /\ k = n + 1
      <4>1. stack'[w][k] = <<c, 1>>
        BY <1>23, <1>24, <3>3 DEF Inline
      <4>2. <<c, 1>>[1] = c /\ <<c, 1>>[2] = 1
        OBVIOUS
      <4>3. stack'[w][k][1] = c /\ stack'[w][k][2] = 1
        BY <4>1, <4>2, Zenon
      <4>4. Len(Children[c]) \in Nat
        BY <1>2, PoolAssumption
      <4>5. QED
        BY <4>3, <4>4
    <3>4. QED
      BY <1>28, <2>3, <3>1, <3>2, <3>3
  <2>4. QED
    BY <2>1, <2>2, <2>3 DEF StacksFollow
<1>17. InOnePlace'
  <2>1. \A u, v \in Workers : \A g \in Tree : g \in deque'[u] /\ g \in deque'[v] => u = v
    <3>1. CASE Fits
      BY <1>1, <1>2, <3>1 DEF Fits, PoolInv, InOnePlace, PoolTypeOK, Queued
    <3>2. CASE Inline
      BY <3>2 DEF Inline, PoolInv, InOnePlace
    <3>3. QED
      BY <1>20, <3>1, <3>2
  <2>2. \A g \in Tree : ~(Queued(g)' /\ InHands(g)')
    BY <1>8 DEF PoolInv, InOnePlace
  <2>3. ASSUME NEW u \in Workers, NEW v \in Workers, NEW i \in 1..Len(stack'[u]), NEW j \in 1..Len(stack'[v]),
               stack'[u][i][1] = stack'[v][j][1]
        PROVE  u = v /\ i = j
    <3> DEFINE Top(x, k) == Inline /\ x = w /\ k = n + 1
    <3>1. \A x \in Workers : \A k \in 1..Len(stack'[x]) :
            \/ k \in 1..Len(stack[x]) /\ stack'[x][k][1] = stack[x][k][1] /\ stack'[x][k][1] # c
            \/ Top(x, k) /\ stack'[x][k][1] = c
      <4> SUFFICES ASSUME NEW x \in Workers, NEW k \in 1..Len(stack'[x])
                   PROVE  \/ k \in 1..Len(stack[x]) /\ stack'[x][k][1] = stack[x][k][1] /\ stack'[x][k][1] # c
                          \/ Top(x, k) /\ stack'[x][k][1] = c
        OBVIOUS
      <4>1. CASE k \in 1..Len(stack[x])
        BY <1>2, <1>27, <4>1 DEF InHands
      <4>2. CASE Top(x, k)
        <5>1. stack'[x][k] = <<c, 1>>
          BY <1>23, <1>24, <4>2 DEF Inline
        <5>2. <<c, 1>>[1] = c
          OBVIOUS
        <5>3. QED
          BY <4>2, <5>1, <5>2, Zenon
      <4>3. QED
        BY <1>28, <4>1, <4>2
    <3>2. CASE stack'[u][i][1] = c
      BY <2>3, <3>1, <3>2
    <3>3. CASE stack'[u][i][1] # c
      BY <2>3, <3>1, <3>3 DEF PoolInv, InOnePlace
    <3>4. QED
      BY <3>2, <3>3
  <2>4. \A g \in Tree : runs'[g] \in {0, 1} /\ (runs'[g] = 1 => ~Queued(g)' /\ ~InHands(g)')
    BY <1>2, <1>5, <1>8 DEF PoolInv, InOnePlace
  <2>5. QED
    BY <2>1, <2>2, <2>3, <2>4 DEF InOnePlace
<1>18. ActiveIsExact' /\ NoEarlyExit' /\ EachFrameOnce'
  BY <1>1, <1>5, <1>6, <1>13 DEF PoolInv, ActiveIsExact, NoEarlyExit, EachFrameOnce
<1>19. QED
  BY <1>11, <1>14, <1>15, <1>16, <1>17, <1>18 DEF PoolInv

\* fn returns: the frame leaves the worker's hands, and has run.
LEMMA FinishKeeps ==
  ASSUME PoolInv, NEW w \in Workers, NEW f, f = InFrame(w), Finish(w)
  PROVE  PoolInv'
<1> DEFINE n == Len(stack[w])
<1>1. PoolTypeOK /\ StacksFollow /\ poolPc[w] = "fn" /\ stack[w] # <<>> /\ ~HasChild(w)
  BY DEF PoolInv, Finish, StacksFollow
<1>2. /\ stack[w] \in Seq(Tree \X (Nat \ {0})) /\ n \in Nat /\ n \in 1..n /\ f \in Tree
      /\ stack[w][n][1] = f /\ Len(Children[f]) \in Nat
      /\ stack[w][n][2] \in Nat /\ stack[w][n][2] > Len(Children[f])
  BY <1>1, StackTyped DEF InFrame, NextChild, HasChild
<1>3. UNCHANGED <<mpc, started, deque>> /\ active' = active - 1 /\ mpc \in {"spawn", "join"}
  BY <1>1, AtWork DEF Finish
<1>4. InHands(f) /\ ~Queued(f) /\ runs[f] = 0
  BY <1>2 DEF PoolInv, InOnePlace, InHands
<1>5. /\ runs' \in [Tree -> Nat] /\ runs'[f] = 1
      /\ \A g \in Tree : g # f => runs'[g] = runs[g]
  BY <1>1, <1>2, <1>4 DEF Finish, PoolTypeOK
<1>6. \A v \in Workers : v # w => stack'[v] = stack[v] /\ poolPc'[v] = poolPc[v]
  BY <1>1 DEF Finish, PoolTypeOK
<1>7. poolPc'[w] = IF n = 1 THEN "take" ELSE "fn"
  BY <1>1 DEF Finish, PoolTypeOK
<1>8. /\ stack'[w] \in Seq(Tree \X (Nat \ {0})) /\ Len(stack'[w]) = n - 1
      /\ \A k \in 1..n - 1 : stack'[w][k] = stack[w][k]
  <2>1. stack'[w] = SubSeq(stack[w], 1, n - 1)
    BY <1>1 DEF Finish, PoolTypeOK, Front
  <2> HIDE DEF n
  <2>2. QED
    BY <1>2, <2>1 DEF n
<1>9. stack' \in [Workers -> Seq(Tree \X (Nat \ {0}))]
  BY <1>1, <1>6, <1>8 DEF Finish, PoolTypeOK
<1> HIDE DEF n
<1>10. ASSUME NEW v \in Workers, NEW k \in 1..Len(stack'[v])
       PROVE  k \in 1..Len(stack[v]) /\ stack'[v][k] = stack[v][k] /\ ~(v = w /\ k = n)
  <2>1. CASE v # w
    BY <1>6, <1>10, <2>1
  <2>2. CASE v = w
    BY <1>2, <1>8, <1>10, <2>2, SMTT(30) DEF n
  <2>3. QED
    BY <2>1, <2>2
<1>11. ASSUME NEW v \in Workers, NEW k \in 1..Len(stack[v]), ~(v = w /\ k = n)
       PROVE  k \in 1..Len(stack'[v]) /\ stack'[v][k] = stack[v][k]
  <2>1. CASE v # w
    BY <1>6, <1>11, <2>1
  <2>2. CASE v = w
    BY <1>2, <1>8, <1>11, <2>2, SMTT(30) DEF n
  <2>3. QED
    BY <2>1, <2>2
<1>12. \A v \in Workers : \A k \in 1..Len(stack[v]) : stack[v][k][1] = f => v = w /\ k = n
  BY <1>2 DEF PoolInv, InOnePlace, n
<1>13. \A g : InHands(g)' <=> InHands(g) /\ g # f
  <2>1. ASSUME NEW g, InHands(g)' PROVE InHands(g) /\ g # f
    <3>1. PICK v \in Workers : \E k \in 1..Len(stack'[v]) : stack'[v][k][1] = g
      BY <2>1 DEF InHands
    <3>2. PICK k \in 1..Len(stack'[v]) : stack'[v][k][1] = g
      BY <3>1
    <3>3. k \in 1..Len(stack[v]) /\ stack[v][k][1] = g /\ ~(v = w /\ k = n)
      BY <1>10, <3>2
    <3>4. QED
      BY <1>12, <3>3 DEF InHands
  <2>2. ASSUME NEW g, InHands(g), g # f PROVE InHands(g)'
    <3>1. PICK v \in Workers : \E k \in 1..Len(stack[v]) : stack[v][k][1] = g
      BY <2>2 DEF InHands
    <3>2. PICK k \in 1..Len(stack[v]) : stack[v][k][1] = g
      BY <3>1
    <3>3. ~(v = w /\ k = n)
      BY <1>2, <2>2, <3>2
    <3>4. k \in 1..Len(stack'[v]) /\ stack'[v][k][1] = g
      BY <1>11, <3>2, <3>3
    <3>5. QED
      BY <3>4 DEF InHands
  <2>3. QED
    BY <2>1, <2>2
<1>14. \A g : Queued(g)' <=> Queued(g)
  BY <1>3 DEF Queued
<1>15. \A g \in Tree : Born(g)' <=> Born(g)
  BY <1>4, <1>5, <1>13, <1>14 DEF Born
<1>16. ASSUME NEW g \in Tree, NEW i \in 1..Len(Children[g])
       PROVE  Past(g, i)' <=> Past(g, i)
  <2>1. CASE g = f
    <3>1. Past(g, i)'
      BY <1>5, <2>1 DEF Past
    <3>2. stack[w][n][1] = g /\ stack[w][n][2] > i /\ n \in 1..Len(stack[w])
      BY <1>2, <1>16, <2>1 DEF n
    <3>3. QED
      BY <3>1, <3>2 DEF Past
  <2>2. CASE g # f
    <3>1. ASSUME NEW v \in Workers, NEW k \in 1..Len(stack[v]), stack[v][k][1] = g, stack[v][k][2] > i
          PROVE  Past(g, i)'
      <4>1. k \in 1..Len(stack'[v]) /\ stack'[v][k] = stack[v][k]
        BY <1>2, <1>11, <2>2, <3>1
      <4>2. QED
        BY <3>1, <4>1 DEF Past
    <3>2. ASSUME NEW v \in Workers, NEW k \in 1..Len(stack'[v]), stack'[v][k][1] = g, stack'[v][k][2] > i
          PROVE  Past(g, i)
      <4>1. k \in 1..Len(stack[v]) /\ stack'[v][k] = stack[v][k]
        BY <1>10, <3>2
      <4>2. QED
        BY <3>2, <4>1 DEF Past
    <3>3. QED
      BY <1>5, <2>2, <3>1, <3>2 DEF Past
  <2>3. QED
    BY <2>1, <2>2
<1>17. BirthFollows'
  <2>1. \A g \in Tree : \A i \in 1..Len(Children[g]) : Children[g][i] \in Tree
    BY PoolAssumption
  <2>2. QED
    BY <1>3, <1>15, <1>16, <2>1, PoolAssumption DEF PoolInv, BirthFollows
<1>18. \A v \in Workers : v # w => (Child(v)' = Child(v)) /\ (HasChild(v)' <=> HasChild(v))
  BY <1>6 DEF Child, HasChild, InFrame, NextChild
<1>19. Outstanding' = Outstanding \ {f}
  <2>1. \A v \in Workers : poolPc[v] = "push" => v # w /\ Child(v) # f
    BY <1>1, <1>4, NextIsFresh DEF StacksFollow, Born
  <2>2. poolPc'[w] # "push"
    BY <1>7
  <2>3. ASSUME NEW g, g \in Outstanding' PROVE g \in Outstanding /\ g # f
    BY <1>4, <1>6, <1>13, <1>14, <1>18, <2>1, <2>2, <2>3, OutstandingIs, OutstandingNext
  <2>4. ASSUME NEW g, g \in Outstanding, g # f PROVE g \in Outstanding'
    BY <1>6, <1>13, <1>14, <1>18, <2>1, <2>4, OutstandingIs, OutstandingNext
  <2>5. QED
    BY <2>3, <2>4
<1>20. f \in Outstanding
  BY <1>4, OutstandingIs
<1>21. ActiveIsExact' /\ active' \in Nat
  BY <1>1, <1>3, <1>19, <1>20, CountShrinks DEF PoolInv
<1>22. PoolTypeOK'
  <2>1. poolPc' \in [Workers -> {"none", "take", "steal", "test", "fn", "push", "exited"}]
    BY <1>1 DEF Finish, PoolTypeOK
  <2>2. QED
    BY <1>1, <1>3, <1>5, <1>9, <1>21, <2>1 DEF PoolTypeOK
<1>23. CallerFollows'
  BY <1>1, <1>3, <1>6, <1>7 DEF PoolInv, CallerFollows
<1>24. StacksFollow'
  <2>1. ASSUME NEW v \in Workers, v # w
        PROVE  (poolPc'[v] \in {"fn", "push"} <=> stack'[v] # <<>>) /\ (poolPc'[v] = "push" => HasChild(v)')
    BY <1>1, <1>6, <1>18, <2>1 DEF StacksFollow
  <2>2. stack'[w] # <<>> <=> n # 1
    BY <1>2, <1>8
  <2>3. (poolPc'[w] \in {"fn", "push"} <=> stack'[w] # <<>>) /\ poolPc'[w] # "push"
    BY <1>7, <2>2
  <2>4. \A v \in Workers : \A k \in 1..Len(stack'[v]) : stack'[v][k][2] <= Len(Children[stack'[v][k][1]]) + 1
    BY <1>1, <1>10 DEF StacksFollow
  <2>5. QED
    BY <2>1, <2>3, <2>4 DEF StacksFollow
<1>25. InOnePlace'
  <2>1. \A u, v \in Workers : \A g \in Tree : g \in deque'[u] /\ g \in deque'[v] => u = v
    BY <1>3 DEF PoolInv, InOnePlace
  <2>2. \A g \in Tree : ~(Queued(g)' /\ InHands(g)')
    BY <1>13, <1>14 DEF PoolInv, InOnePlace
  <2>3. ASSUME NEW u \in Workers, NEW v \in Workers, NEW i \in 1..Len(stack'[u]), NEW j \in 1..Len(stack'[v]),
               stack'[u][i][1] = stack'[v][j][1]
        PROVE  u = v /\ i = j
    <3>1. i \in 1..Len(stack[u]) /\ j \in 1..Len(stack[v]) /\ stack[u][i][1] = stack[v][j][1]
      BY <1>10, <2>3
    <3>2. QED
      BY <3>1 DEF PoolInv, InOnePlace
  <2>4. \A g \in Tree : runs'[g] \in {0, 1} /\ (runs'[g] = 1 => ~Queued(g)' /\ ~InHands(g)')
    BY <1>4, <1>5, <1>13, <1>14 DEF PoolInv, InOnePlace
  <2>5. QED
    BY <2>1, <2>2, <2>3, <2>4 DEF InOnePlace
<1>26. NoEarlyExit' /\ EachFrameOnce'
  <2>1. \A v \in Workers : poolPc'[v] = "exited" => poolPc[v] = "exited"
    BY <1>6, <1>7
  <2>2. QED
    BY <1>3, <1>20, <2>1 DEF PoolInv, NoEarlyExit, EachFrameOnce
<1>27. QED
  BY <1>17, <1>21, <1>22, <1>23, <1>24, <1>25, <1>26 DEF PoolInv

\* The caller: the seed, the threads, the join, and the serial run.
LEMMA CallerKeeps ==
  ASSUME PoolInv, CallerStep
  PROVE  PoolInv'
<1>1. PoolTypeOK /\ CallerFollows /\ StacksFollow /\ InOnePlace /\ BirthFollows
  BY DEF PoolInv
<1>2. CASE Seed
  <2>1. /\ mpc = "alloc" /\ mpc' = "spawn" /\ active = 0 /\ active' = 1
        /\ UNCHANGED <<started, poolPc, stack, runs>> /\ started = 0
        /\ \A v \in Workers : deque[v] = {} /\ poolPc[v] = "none" /\ stack[v] = <<>> /\ Len(stack[v]) = 0
        /\ \A g \in Tree : runs[g] = 0
    BY <1>1, <1>2 DEF Seed, CallerFollows, StacksFollow
  <2>2. 0 \in Workers /\ Root \in Tree /\ \A v \in Workers : v >= 0
    BY PoolAssumption DEF Workers
  <2>3. \A v \in Workers : deque'[v] = IF v = 0 THEN {Root} ELSE {}
    BY <1>1, <1>2, <2>1, <2>2 DEF Seed, PoolTypeOK
  <2>4. \A g : ~InHands(g) /\ ~InHands(g)' /\ ~Queued(g) /\ (Queued(g)' <=> g = Root)
    BY <2>1, <2>2, <2>3 DEF InHands, Queued
  <2>5. Outstanding' = Outstanding \cup {Root} /\ Root \notin Outstanding
    BY <2>1, <2>4, OutstandingIs, OutstandingNext
  <2>6. ActiveIsExact'
    BY <1>1, <2>1, <2>5, CountGrows DEF PoolInv
  <2>7. PoolTypeOK'
    BY <1>1, <1>2, <2>1, <2>2 DEF Seed, PoolTypeOK
  <2>8. CallerFollows' /\ StacksFollow' /\ NoEarlyExit' /\ EachFrameOnce'
    BY <1>1, <2>1, <2>2 DEF CallerFollows, StacksFollow, NoEarlyExit, EachFrameOnce
  <2>9. InOnePlace'
    BY <2>1, <2>3, <2>4 DEF InOnePlace
  <2>10. BirthFollows'
    <3>1. \A g \in Tree : \A i \in 1..Len(Children[g]) : ~Past(g, i)'
      BY <2>1 DEF Past
    <3>2. \A g \in Tree : Born(g)' <=> g = Root
      BY <2>1, <2>4 DEF Born
    <3>3. \A g \in Tree : \A i \in 1..Len(Children[g]) : Children[g][i] \in Tree /\ Children[g][i] # Root
      BY PoolAssumption, PoolTreeAssumption
    <3>4. QED
      BY <2>1, <2>2, <3>1, <3>2, <3>3 DEF BirthFollows
  <2>11. QED
    BY <2>6, <2>7, <2>8, <2>9, <2>10 DEF PoolInv
<1>3. CASE Serial
  <2>1. /\ mpc = "failed" /\ mpc' = "done" /\ active = 0
        /\ UNCHANGED <<started, deque, active, poolPc, stack>>
        /\ \A v \in Workers : deque[v] = {} /\ poolPc[v] = "none" /\ stack[v] = <<>> /\ Len(stack[v]) = 0
        /\ \A g \in Tree : runs[g] = 0 /\ runs'[g] = 1
    BY <1>1, <1>3 DEF Serial, CallerFollows, StacksFollow
  <2>2. \A g : ~InHands(g)' /\ ~Queued(g)' /\ ~InHands(g) /\ ~Queued(g)
    BY <2>1 DEF InHands, Queued
  <2>3. Outstanding' = Outstanding
    BY <2>1, <2>2, OutstandingIs, OutstandingNext
  <2>4. PoolTypeOK'
    BY <1>1, <1>3, <2>1 DEF Serial, PoolTypeOK
  <2>5. CallerFollows' /\ StacksFollow' /\ NoEarlyExit' /\ EachFrameOnce' /\ ActiveIsExact'
    BY <1>1, <2>1, <2>3 DEF PoolInv, CallerFollows, StacksFollow, NoEarlyExit, EachFrameOnce, ActiveIsExact
  <2>6. InOnePlace'
    BY <2>1, <2>2 DEF InOnePlace
  <2>7. BirthFollows'
    <3>1. \A g \in Tree : \A i \in 1..Len(Children[g]) : Children[g][i] \in Tree
      BY PoolAssumption
    <3>2. QED
      BY <2>1, <3>1, PoolAssumption DEF BirthFollows, Born, Past
  <2>8. QED
    BY <2>4, <2>5, <2>6, <2>7 DEF PoolInv
<1>4. ASSUME AllocFails \/ Spawn \/ SpawnEnds \/ Join
      PROVE  /\ UNCHANGED <<deque, active, stack, runs>>
             /\ \A v \in Workers : /\ poolPc'[v] = "push" <=> poolPc[v] = "push"
                                   /\ poolPc'[v] \in {"fn", "push"} <=> poolPc[v] \in {"fn", "push"}
                                   /\ poolPc'[v] = "exited" <=> poolPc[v] = "exited"
             /\ mpc' \in {"alloc", "failed"} <=> mpc \in {"alloc", "failed"}
             /\ PoolTypeOK' /\ CallerFollows'
  <2>1. CASE AllocFails
    BY <1>1, <2>1 DEF AllocFails, PoolTypeOK, CallerFollows
  <2>2. CASE Spawn
    <3>1. started \in Workers /\ started + 1 \in 0..NumWorkers /\ poolPc[started] = "none"
      BY <1>1, <2>2, PoolAssumption DEF Spawn, PoolTypeOK, CallerFollows, Workers
    <3>2. \A v \in Workers : poolPc'[v] = IF v = started THEN "take" ELSE poolPc[v]
      BY <1>1, <2>2, <3>1 DEF Spawn, PoolTypeOK
    <3>3. PoolTypeOK'
      BY <1>1, <2>2, <3>1 DEF Spawn, PoolTypeOK
    <3>4. CallerFollows'
      BY <1>1, <2>2, <3>1, <3>2 DEF Spawn, PoolTypeOK, CallerFollows, Workers
    <3>5. QED
      BY <2>2, <3>1, <3>2, <3>3, <3>4 DEF Spawn
  <2>3. CASE SpawnEnds
    <3>1. 0 \in Workers /\ (started = 0 => poolPc[0] = "none") /\ (started # 0 => poolPc[0] # "none")
      BY <1>1, <2>3, PoolAssumption DEF SpawnEnds, PoolTypeOK, CallerFollows, Workers
    <3>2. \A v \in Workers : poolPc'[v] = IF started = 0 /\ v = 0 THEN "take" ELSE poolPc[v]
      BY <1>1, <2>3, <3>1 DEF SpawnEnds, PoolTypeOK
    <3>3. PoolTypeOK'
      BY <1>1, <2>3, <3>1 DEF SpawnEnds, PoolTypeOK
    <3>4. CallerFollows'
      BY <1>1, <2>3, <3>1, <3>2 DEF SpawnEnds, CallerFollows
    <3>5. QED
      BY <2>3, <3>1, <3>2, <3>3, <3>4 DEF SpawnEnds
  <2>4. CASE Join
    BY <1>1, <2>4 DEF Join, PoolTypeOK, CallerFollows
  <2>5. QED
    BY <1>4, <2>1, <2>2, <2>3, <2>4
<1>5. ASSUME AllocFails \/ Spawn \/ SpawnEnds \/ Join PROVE EachFrameOnce'
  <2>1. CASE ~Join
    BY <1>5, <2>1 DEF AllocFails, Spawn, SpawnEnds, EachFrameOnce
  <2>2. CASE Join
    <3>1. Outstanding = {}
      BY <1>1, <2>2 DEF Join, CallerFollows, PoolInv, NoEarlyExit
    <3>2. \A g \in Tree : Born(g) <=> runs[g] = 1
      BY <3>1, OutstandingIs DEF Born
    <3> DEFINE S == {g \in Tree : runs[g] = 1}
    <3>3. Root \in S
      BY <1>1, <2>2, <3>2, PoolAssumption DEF Join, BirthFollows
    <3>4. \A g \in S : \A i \in 1..Len(Children[g]) : Children[g][i] \in S
      <4>1. \A g \in Tree : \A i \in 1..Len(Children[g]) : Children[g][i] \in Tree
        BY PoolAssumption
      <4>2. QED
        BY <1>1, <3>2, <4>1 DEF BirthFollows, Past
    <3>5. S = Tree
      <4>1. S \in SUBSET Tree
        OBVIOUS
      <4> HIDE DEF S
      <4>2. QED
        BY <3>3, <3>4, <4>1, PoolTreeAssumption
    <3>6. QED
      BY <2>2, <3>5 DEF Join, EachFrameOnce
  <2>3. QED
    BY <2>1, <2>2
<1>6. CASE AllocFails \/ Spawn \/ SpawnEnds \/ Join
  <2>1. InOnePlace' /\ ActiveIsExact' /\ Outstanding' = Outstanding
    BY <1>4, <1>6, QuietKeeps
  <2>2. BirthFollows'
    BY <1>1, <1>4, <1>6, Untouched DEF BirthFollows
  <2>3. StacksFollow'
    BY <1>1, <1>4, <1>6, Untouched DEF StacksFollow
  <2>4. NoEarlyExit'
    BY <1>4, <1>6, <2>1 DEF PoolInv, NoEarlyExit
  <2>5. QED
    BY <1>4, <1>5, <1>6, <2>1, <2>2, <2>3, <2>4 DEF PoolInv
<1>7. QED
  BY <1>2, <1>3, <1>6 DEF CallerStep

\* A worker that finds no frame, or asks whether any is left.
LEMMA SearchKeeps ==
  ASSUME PoolInv, NEW w \in Workers, PoolTakeEmpty(w) \/ StealFails(w) \/ TestActive(w)
  PROVE  PoolInv'
<1>1. PoolTypeOK /\ CallerFollows /\ StacksFollow
  BY DEF PoolInv
<1>2. /\ UNCHANGED <<mpc, started, deque, active, stack, runs>>
      /\ poolPc[w] \in {"take", "steal", "test"} /\ poolPc'[w] \in {"take", "steal", "test", "exited"}
      /\ \A v \in Workers : v # w => poolPc'[v] = poolPc[v]
      /\ poolPc'[w] = "exited" => active = 0
  BY <1>1 DEF PoolTakeEmpty, StealFails, TestActive, Quiescent, PoolTypeOK
<1>3. mpc \in {"spawn", "join"}
  BY <1>2, AtWork
<1>4. PoolTypeOK'
  BY <1>1 DEF PoolTakeEmpty, StealFails, TestActive, PoolTypeOK
<1>5. CallerFollows'
  BY <1>1, <1>2, <1>3 DEF CallerFollows
<1>6. StacksFollow'
  BY <1>1, <1>2, Untouched DEF StacksFollow
<1>7. InOnePlace' /\ ActiveIsExact' /\ Outstanding' = Outstanding
  BY <1>2, QuietKeeps
<1>8. BirthFollows'
  BY <1>2, Untouched DEF PoolInv, BirthFollows
<1>9. NoEarlyExit'
  <2>1. active = 0 => Outstanding = {}
    BY <1>1, OutstandingFinite, FS_EmptySet DEF PoolInv, ActiveIsExact
  <2>2. QED
    BY <1>2, <1>7, <2>1 DEF PoolInv, NoEarlyExit
<1>10. EachFrameOnce'
  BY <1>2, <1>3 DEF EachFrameOnce
<1>11. QED
  BY <1>4, <1>5, <1>6, <1>7, <1>8, <1>9, <1>10 DEF PoolInv

LEMMA PoolStarts ==
  ASSUME PoolInit
  PROVE  PoolInv
<1>1. PoolTypeOK
  BY PoolAssumption DEF PoolInit, PoolTypeOK
<1>2. CallerFollows /\ StacksFollow
  BY DEF PoolInit, CallerFollows, StacksFollow
<1>3. \A g : ~Queued(g) /\ ~InHands(g)
  BY DEF PoolInit, Queued, InHands
<1>4. InOnePlace
  BY <1>3 DEF PoolInit, InOnePlace
<1>5. BirthFollows
  <2>1. \A g \in Tree : \A i \in 1..Len(Children[g]) : Children[g][i] \in Tree
    BY PoolAssumption
  <2>2. QED
    BY <1>3, <2>1, PoolAssumption DEF PoolInit, BirthFollows, Born, Past
<1>6. ActiveIsExact
  <2>1. Outstanding = {}
    BY <1>3, OutstandingIs DEF PoolInit
  <2>2. QED
    BY <2>1, FS_EmptySet DEF PoolInit, ActiveIsExact
<1>7. NoEarlyExit /\ EachFrameOnce
  BY DEF PoolInit, NoEarlyExit, EachFrameOnce
<1>8. QED
  BY <1>1, <1>2, <1>4, <1>5, <1>6, <1>7 DEF PoolInv

LEMMA PoolStepKeeps ==
  ASSUME PoolInv, [PoolNext]_poolVars
  PROVE  PoolInv'
<1>1. CASE CallerStep
  BY <1>1, CallerKeeps
<1>2. ASSUME NEW w \in Workers, PoolStep(w) PROVE PoolInv'
  <2>1. CASE PoolTake(w)
    BY <2>1, <1>2, TakesKeep DEF PoolTake
  <2>2. CASE Steal(w)
    BY <2>2, <1>2, TakesKeep DEF Steal
  <2>3. CASE PoolTakeEmpty(w) \/ StealFails(w) \/ TestActive(w)
    BY <2>3, <1>2, SearchKeeps
  <2>4. CASE PushCounts(w)
    BY <2>4, <1>2, PushCountsKeeps
  <2>5. CASE PoolPushFits(w) \/ PushInline(w)
    BY <2>5, <1>2, PushesKeep
  <2>6. CASE Finish(w)
    BY <2>6, <1>2, FinishKeeps
  <2>7. QED
    BY <1>2, <2>1, <2>2, <2>3, <2>4, <2>5, <2>6 DEF PoolStep
<1>3. CASE UNCHANGED poolVars
  <2>1. UNCHANGED <<mpc, started, deque, active, poolPc, stack, runs>>
    BY <1>3 DEF poolVars
  <2>2. PoolTypeOK' /\ CallerFollows' /\ EachFrameOnce'
    BY <2>1 DEF PoolInv, PoolTypeOK, CallerFollows, EachFrameOnce
  <2>3. InOnePlace' /\ ActiveIsExact' /\ Outstanding' = Outstanding
    BY <2>1, QuietKeeps
  <2>4. StacksFollow' /\ BirthFollows' /\ NoEarlyExit'
    BY <2>1, <2>3, Untouched DEF PoolInv, StacksFollow, BirthFollows, NoEarlyExit
  <2>5. QED
    BY <2>2, <2>3, <2>4 DEF PoolInv
<1>4. QED
  BY <1>1, <1>2, <1>3 DEF PoolNext

\* The pool's variables keep their types.
THEOREM PoolTypeCorrect == PoolSpec => []PoolTypeOK
<1>1. PoolInv => PoolTypeOK
  BY DEF PoolInv
<1>2. QED
  BY <1>1, PoolStarts, PoolStepKeeps, PTL DEF PoolSpec

(***************************************************************************)
(* active counts the outstanding frames, no worker leaves while there are  *)
(* any, and when sub_dfs_run() returns, fn has run once on every frame:    *)
(* for any tree, any number of workers and of threads that could be        *)
(* created, and any pushes that found no memory.                           *)
(***************************************************************************)
THEOREM FramesRun == PoolSpec => []FramesAreRun
<1>1. PoolInv => FramesAreRun
  BY DEF PoolInv, FramesAreRun
<1>2. QED
  BY <1>1, PoolStarts, PoolStepKeeps, PTL DEF PoolSpec

-----------------------------------------------------------------------------
(***************************************************************************)
(* The work-stealing deque, on rings whose slots are reused and memory that *)
(* lags behind its owner.  A store is in the owner's view at once and in   *)
(* memory when it drains; the proof keeps the views in between, one per    *)
(* store in the buffer, and says that every frame of the deque stays where *)
(* a thief with any of them in hand would read it.                         *)
(***************************************************************************)
-----------------------------------------------------------------------------
(***************************************************************************)
(* Arithmetic of the ring: two positions less than a capacity apart have   *)
(* different slots.                                                        *)
(***************************************************************************)
LEMMA ModRange == ASSUME NEW c \in Int, c > 0, NEW i \in Int PROVE i % c \in 0..c - 1
  OBVIOUS

LEMMA DivMod ==
  ASSUME NEW c \in Int, c > 0, NEW i \in Int
  PROVE  i \div c \in Int /\ i = c * (i \div c) + (i % c)
<1>1. i \div c \in Int
  OBVIOUS
<1>2. i = c * (i \div c) + (i % c)
  OBVIOUS
<1>3. QED
  BY <1>1, <1>2

LEMMA TimesAtLeast == ASSUME NEW c \in Int, c > 0, NEW q \in Int, q > 0 PROVE c * q >= c
  OBVIOUS

LEMMA ModDistinct ==
  ASSUME NEW c \in Int, c > 0, NEW i \in Int, NEW j \in Int, i < j, j - i < c
  PROVE  i % c # j % c
<1> SUFFICES ASSUME i % c = j % c PROVE FALSE
  OBVIOUS
<1> DEFINE p == i \div c
           q == j \div c
<1>1. p \in Int /\ q \in Int /\ i = c * p + (i % c) /\ j = c * q + (j % c)
  BY DivMod
<1>2. i % c \in Int /\ j % c \in Int
  BY ModRange
<1> HIDE DEF p, q
<1>3. j - i = c * q - c * p
  BY <1>1, <1>2
<1>4. c * q - c * p = c * (q - p)
  BY <1>1
<1>5. q - p > 0
  BY <1>1, <1>3, <1>4
<1>6. QED
  BY <1>1, <1>3, <1>4, <1>5, TimesAtLeast

-----------------------------------------------------------------------------
(***************************************************************************)
(* Rings, views and what a store makes of them.                            *)
(***************************************************************************)
Words(c) == [0..c - 1 -> Nat]
Ring == UNION {[cap : {c}, base : Words(c), n : Words(c)] : c \in Nat \ {0}}
View == [bottom : Int, ring : Seq(Ring) \ {<<>>}]

\* The number of the ring that array points to.
Cur(v) == Len(v.ring)

LEMMA RingFields ==
  ASSUME NEW r \in Ring
  PROVE  /\ r.cap \in Nat /\ r.cap > 0 /\ r.base \in Words(r.cap) /\ r.n \in Words(r.cap)
         /\ r = [cap |-> r.cap, base |-> r.base, n |-> r.n]
<1>1. PICK c \in Nat \ {0} : r \in [cap : {c}, base : Words(c), n : Words(c)]
  BY DEF Ring
<1>2. QED
  BY <1>1

LEMMA RingMade ==
  ASSUME NEW c \in Nat \ {0}, NEW b \in Words(c), NEW m \in Words(c)
  PROVE  [cap |-> c, base |-> b, n |-> m] \in Ring
BY DEF Ring

LEMMA ViewFields ==
  ASSUME NEW v \in View
  PROVE  /\ v.bottom \in Int /\ v.ring \in Seq(Ring) /\ Cur(v) \in Nat \ {0}
         /\ \A r \in 1..Cur(v) : v.ring[r] \in Ring
BY DEF View, Cur

LEMMA BottomStored ==
  ASSUME NEW v \in View, NEW b \in Int
  PROVE  LET w == Apply(v, ToBottom(b)) IN w \in View /\ w.bottom = b /\ w.ring = v.ring
BY DEF View, Apply, ToBottom

LEMMA ArrayStored ==
  ASSUME NEW v \in View, NEW g \in Ring
  PROVE  LET w == Apply(v, ToArray(g))
         IN  /\ w \in View /\ w.bottom = v.bottom /\ Cur(w) = Cur(v) + 1
             /\ w.ring[Cur(w)] = g
             /\ \A r \in 1..Cur(v) : w.ring[r] = v.ring[r]
<1>1. Apply(v, ToArray(g)) = [v EXCEPT !.ring = Append(@, g)]
  BY DEF Apply, ToArray
<1>2. v.ring \in Seq(Ring)
  BY DEF View
<1>3. /\ Append(v.ring, g) \in Seq(Ring) \ {<<>>} /\ Len(Append(v.ring, g)) = Len(v.ring) + 1
      /\ Append(v.ring, g)[Len(v.ring) + 1] = g
      /\ \A r \in 1..Len(v.ring) : Append(v.ring, g)[r] = v.ring[r]
  BY <1>2
<1>4. QED
  BY <1>1, <1>3 DEF View, Cur

\* w is v with f stored in a field of slot i of ring a.
Filled(v, w, field, a, i, f) ==
  /\ w \in View /\ w.bottom = v.bottom /\ Cur(w) = Cur(v)
  /\ w.ring[a].cap = v.ring[a].cap
  /\ \A r \in 1..Cur(v) : r # a => w.ring[r] = v.ring[r]
  /\ w.ring[a].base = IF field = "base" THEN [v.ring[a].base EXCEPT ![i] = f] ELSE v.ring[a].base
  /\ w.ring[a].n = IF field = "n" THEN [v.ring[a].n EXCEPT ![i] = f] ELSE v.ring[a].n

LEMMA SlotStored ==
  ASSUME NEW v \in View, NEW a \in 1..Cur(v), NEW i \in 0..v.ring[a].cap - 1, NEW f \in Nat,
         NEW field \in {"base", "n"}
  PROVE  Filled(v, Apply(v, ToSlot(field, a, i, f)), field, a, i, f)
<1> DEFINE old == v.ring[a]
           new == IF field = "base" THEN [old EXCEPT !.base[i] = f] ELSE [old EXCEPT !.n[i] = f]
<1>1. Apply(v, ToSlot(field, a, i, f)) = [v EXCEPT !.ring = [v.ring EXCEPT ![a] = new]]
  BY DEF Apply, ToSlot
<1>2. old \in Ring /\ v.ring \in Seq(Ring) /\ Len(v.ring) \in Nat \ {0}
  BY ViewFields DEF Cur
<1>3. old.cap \in Nat \ {0} /\ old.base \in Words(old.cap) /\ old.n \in Words(old.cap)
      /\ old = [cap |-> old.cap, base |-> old.base, n |-> old.n]
  BY <1>2, RingFields
<1>4. /\ new.base = IF field = "base" THEN [old.base EXCEPT ![i] = f] ELSE old.base
      /\ new.n = IF field = "n" THEN [old.n EXCEPT ![i] = f] ELSE old.n
      /\ new.cap = old.cap
      /\ new = [cap |-> new.cap, base |-> new.base, n |-> new.n]
  BY <1>3
<1>5. new.base \in Words(old.cap) /\ new.n \in Words(old.cap)
  BY <1>3, <1>4 DEF Words
<1>6. new \in Ring
  BY <1>3, <1>4, <1>5, RingMade
<1> HIDE DEF new
<1>7. [v.ring EXCEPT ![a] = new] \in Seq(Ring) \ {<<>>} /\ Len([v.ring EXCEPT ![a] = new]) = Len(v.ring)
  BY <1>2, <1>6 DEF Cur
<1>8. [v.ring EXCEPT ![a] = new][a] = new
  BY <1>2 DEF Cur
<1> DEFINE rings == [v.ring EXCEPT ![a] = new]
           u == [v EXCEPT !.ring = rings]
<1>9. \A r \in 1..Len(v.ring) : r # a => rings[r] = v.ring[r]
  BY <1>2
<1> HIDE DEF rings
<1>10. u \in View /\ u.bottom = v.bottom /\ u.ring = rings
  BY <1>7 DEF View, rings
<1>11. QED
  BY <1>1, <1>4, <1>7, <1>8, <1>9, <1>10 DEF Cur, rings, Filled
-----------------------------------------------------------------------------
(***************************************************************************)
(* A history vs of N views: memory as it is, then as each store still in   *)
(* the buffer will leave it; the last is the owner's.  The deque holds the *)
(* positions lo..hi-1, and f says which frame is at each.                  *)
(***************************************************************************)

\* Position k of ring r holds frame g, both fields of it.
Holds(v, r, k, g) ==
  v.ring[r].base[k % v.ring[r].cap] = g /\ v.ring[r].n[k % v.ring[r].cap] = g

\* No ring ever goes, so what array points to is always later or the same.
Grows(vs, N) == \A p, q \in 1..N : p <= q => Cur(vs[p]) <= Cur(vs[q])

\* A frame of the deque is not overwritten where it stands, and goes along
\* when the ring grows: a thief with an old ring still reads it.
Keeps(vs, N, lo, hi, f) ==
  \A p, q \in 1..N : p <= q => \A k \in lo..hi - 1 :
    /\ \A r \in 1..Cur(vs[p]) : Holds(vs[p], r, k, f[k]) => Holds(vs[q], r, k, f[k])
    /\ Holds(vs[p], Cur(vs[p]), k, f[k]) => Holds(vs[q], Cur(vs[q]), k, f[k])

\* Below the bottom that a thief can see, it finds the frames.
Shows(vs, N, lo, hi, f) ==
  \A p \in 1..N : /\ vs[p].bottom <= hi
                  /\ \A k \in lo..hi - 1 : k < vs[p].bottom => Holds(vs[p], Cur(vs[p]), k, f[k])

Coherent(vs, N, lo, hi, f) ==
  /\ \A p \in 1..N : vs[p] \in View
  /\ Grows(vs, N) /\ Keeps(vs, N, lo, hi, f) /\ Shows(vs, N, lo, hi, f)

Longer(vs, N, v) == [p \in 1..N + 1 |-> IF p <= N THEN vs[p] ELSE v]
Shorter(vs, N) == [p \in 1..N - 1 |-> vs[p + 1]]

\* Frames leave the deque at its ends.
LEMMA CoherentShrinks ==
  ASSUME NEW vs, NEW N \in Nat, NEW lo \in Int, NEW hi \in Int, NEW f,
         NEW lo2 \in Int, NEW hi2 \in Int, NEW g,
         Coherent(vs, N, lo, hi, f), lo <= lo2, hi2 <= hi,
         \A p \in 1..N : vs[p].bottom <= hi2,
         \A k \in lo2..hi2 - 1 : g[k] = f[k]
  PROVE  Coherent(vs, N, lo2, hi2, g)
<1>1. \A k \in lo2..hi2 - 1 : k \in lo..hi - 1
  OBVIOUS
<1>2. Keeps(vs, N, lo2, hi2, g)
  BY <1>1 DEF Coherent, Keeps
<1>3. Shows(vs, N, lo2, hi2, g)
  BY <1>1 DEF Coherent, Shows
<1>4. QED
  BY <1>2, <1>3 DEF Coherent

\* Only the frames matter, not what f is elsewhere.
LEMMA CoherentSame ==
  ASSUME NEW vs, NEW N \in Nat, NEW lo \in Int, NEW hi \in Int, NEW f, NEW g,
         Coherent(vs, N, lo, hi, f), \A k \in lo..hi - 1 : g[k] = f[k]
  PROVE  Coherent(vs, N, lo, hi, g)
<1>1. \A p \in 1..N : vs[p].bottom <= hi
  BY DEF Coherent, Shows
<1>2. lo <= lo /\ hi <= hi
  OBVIOUS
<1>3. QED
  BY <1>1, <1>2, CoherentShrinks

\* The oldest store reaches memory.
LEMMA CoherentDrains ==
  ASSUME NEW vs, NEW N \in Nat, NEW lo \in Int, NEW hi \in Int, NEW f,
         Coherent(vs, N, lo, hi, f)
  PROVE  Coherent(Shorter(vs, N), N - 1, lo, hi, f)
<1> DEFINE ws == Shorter(vs, N)
<1>1. \A p \in 1..N - 1 : p + 1 \in 1..N /\ ws[p] = vs[p + 1]
  BY DEF Shorter
<1> HIDE DEF ws
<1>2. \A p, q \in 1..N - 1 : p <= q => p + 1 <= q + 1
  OBVIOUS
<1>3. Grows(ws, N - 1)
  BY <1>1, <1>2 DEF Coherent, Grows
<1>4. Keeps(ws, N - 1, lo, hi, f)
  <2> SUFFICES ASSUME NEW p \in 1..N - 1, NEW q \in 1..N - 1, p <= q, NEW k \in lo..hi - 1
               PROVE  /\ \A r \in 1..Cur(ws[p]) : Holds(ws[p], r, k, f[k]) => Holds(ws[q], r, k, f[k])
                      /\ Holds(ws[p], Cur(ws[p]), k, f[k]) => Holds(ws[q], Cur(ws[q]), k, f[k])
    BY DEF Keeps
  <2>1. p + 1 \in 1..N /\ q + 1 \in 1..N /\ p + 1 <= q + 1
    OBVIOUS
  <2>2. ws[p] = vs[p + 1] /\ ws[q] = vs[q + 1]
    BY <1>1
  <2>3. QED
    BY <2>1, <2>2 DEF Coherent, Keeps
<1>5. Shows(ws, N - 1, lo, hi, f)
  BY <1>1 DEF Coherent, Shows
<1>6. QED
  BY <1>1, <1>3, <1>4, <1>5 DEF Coherent, ws

\* The owner stores once more.
LEMMA CoherentStores ==
  ASSUME NEW vs, NEW N \in Nat \ {0}, NEW lo \in Int, NEW hi \in Int, NEW f, NEW v \in View,
         Coherent(vs, N, lo, hi, f),
         Cur(vs[N]) <= Cur(v), v.bottom <= hi,
         \A k \in lo..hi - 1 :
           /\ \A r \in 1..Cur(vs[N]) : Holds(vs[N], r, k, f[k]) => Holds(v, r, k, f[k])
           /\ Holds(vs[N], Cur(vs[N]), k, f[k]) => Holds(v, Cur(v), k, f[k])
           /\ k < v.bottom => Holds(v, Cur(v), k, f[k])
  PROVE  Coherent(Longer(vs, N, v), N + 1, lo, hi, f)
<1> DEFINE ws == Longer(vs, N, v)
<1>1. /\ ws[N + 1] = v /\ N \in 1..N
      /\ \A p \in 1..N : ws[p] = vs[p]
      /\ \A p \in 1..N + 1 : p \in 1..N \/ p = N + 1
  BY DEF Longer
<1> HIDE DEF ws
<1>2. \A p \in 1..N + 1 : ws[p] \in View
  BY <1>1 DEF Coherent
<1>3. \A p \in 1..N : Cur(vs[p]) \in Nat /\ Cur(vs[p]) <= Cur(vs[N])
  BY <1>1, ViewFields DEF Coherent, Grows
<1>4. Cur(v) \in Nat
  BY ViewFields
<1>5. Grows(ws, N + 1)
  <2> SUFFICES ASSUME NEW p \in 1..N + 1, NEW q \in 1..N + 1, p <= q PROVE Cur(ws[p]) <= Cur(ws[q])
    BY DEF Grows
  <2>1. CASE q = N + 1 /\ p = N + 1
    BY <1>1, <1>4, <2>1
  <2>2. CASE q = N + 1 /\ p \in 1..N
    BY <1>1, <1>3, <1>4, <2>2
  <2>3. CASE q \in 1..N
    <3>1. p \in 1..N
      BY <2>3
    <3>2. QED
      BY <1>1, <2>3, <3>1 DEF Coherent, Grows
  <2>4. QED
    BY <1>1, <2>1, <2>2, <2>3
<1>6. Keeps(ws, N + 1, lo, hi, f)
  <2> SUFFICES ASSUME NEW p \in 1..N + 1, NEW q \in 1..N + 1, p <= q, NEW k \in lo..hi - 1
               PROVE  /\ \A r \in 1..Cur(ws[p]) : Holds(ws[p], r, k, f[k]) => Holds(ws[q], r, k, f[k])
                      /\ Holds(ws[p], Cur(ws[p]), k, f[k]) => Holds(ws[q], Cur(ws[q]), k, f[k])
    BY DEF Keeps
  <2>1. CASE q = N + 1 /\ p = N + 1
    BY <2>1
  <2>2. CASE q = N + 1 /\ p \in 1..N
    <3>1. ws[p] = vs[p] /\ ws[q] = v
      BY <1>1, <2>2
    <3>2. /\ \A r \in 1..Cur(vs[p]) : Holds(vs[p], r, k, f[k]) => Holds(vs[N], r, k, f[k])
          /\ Holds(vs[p], Cur(vs[p]), k, f[k]) => Holds(vs[N], Cur(vs[N]), k, f[k])
      BY <1>1, <2>2 DEF Coherent, Keeps
    <3>3. \A r \in 1..Cur(vs[p]) : r \in 1..Cur(vs[N])
      <4>1. Cur(vs[p]) \in Nat /\ Cur(vs[N]) \in Nat /\ Cur(vs[p]) <= Cur(vs[N])
        BY <1>1, <1>3, <2>2
      <4>2. QED
        BY <4>1
    <3>4. QED
      BY <3>1, <3>2, <3>3
  <2>3. CASE q \in 1..N
    <3>1. p \in 1..N
      BY <2>3
    <3>2. ws[p] = vs[p] /\ ws[q] = vs[q]
      BY <1>1, <2>3, <3>1
    <3>3. QED
      BY <2>3, <3>1, <3>2 DEF Coherent, Keeps
  <2>4. QED
    BY <1>1, <2>1, <2>2, <2>3
<1>7. Shows(ws, N + 1, lo, hi, f)
  BY <1>1 DEF Coherent, Shows
<1>8. QED
  BY <1>2, <1>5, <1>6, <1>7 DEF Coherent, ws

\* A frame enters the deque that no ring holds yet.
LEMMA CoherentGrows ==
  ASSUME NEW vs, NEW N \in Nat, NEW lo \in Int, NEW hi \in Int, NEW f, NEW g,
         Coherent(vs, N, lo, hi, f),
         \A k \in lo..hi - 1 : g[k] = f[k],
         \A p \in 1..N : \A r \in 1..Cur(vs[p]) : ~Holds(vs[p], r, hi, g[hi])
  PROVE  Coherent(vs, N, lo, hi + 1, g)
<1>1. \A k \in lo..(hi + 1) - 1 : k \in lo..hi - 1 \/ k = hi
  OBVIOUS
<1>2. \A p \in 1..N : Cur(vs[p]) \in 1..Cur(vs[p])
  BY ViewFields DEF Coherent
<1>3. Keeps(vs, N, lo, hi + 1, g)
  <2> SUFFICES ASSUME NEW p \in 1..N, NEW q \in 1..N, p <= q, NEW k \in lo..(hi + 1) - 1
               PROVE  /\ \A r \in 1..Cur(vs[p]) : Holds(vs[p], r, k, g[k]) => Holds(vs[q], r, k, g[k])
                      /\ Holds(vs[p], Cur(vs[p]), k, g[k]) => Holds(vs[q], Cur(vs[q]), k, g[k])
    BY DEF Keeps
  <2>1. CASE k \in lo..hi - 1
    BY <2>1 DEF Coherent, Keeps
  <2>2. CASE k = hi
    BY <1>2, <2>2
  <2>3. QED
    BY <1>1, <2>1, <2>2
<1>4. Shows(vs, N, lo, hi + 1, g)
  <2> SUFFICES ASSUME NEW p \in 1..N
               PROVE  /\ vs[p].bottom <= hi + 1
                      /\ \A k \in lo..(hi + 1) - 1 : k < vs[p].bottom => Holds(vs[p], Cur(vs[p]), k, g[k])
    BY DEF Shows
  <2>1. vs[p].bottom \in Int /\ vs[p].bottom <= hi
    BY ViewFields DEF Coherent, Shows
  <2>2. \A k \in lo..hi - 1 : k < vs[p].bottom => Holds(vs[p], Cur(vs[p]), k, g[k])
    BY DEF Coherent, Shows
  <2>3. QED
    BY <1>1, <2>1, <2>2
<1>5. QED
  BY <1>3, <1>4 DEF Coherent

\* A store to a slot spares every frame that is not there or is the one stored.
LEMMA SlotSpares ==
  ASSUME NEW v \in View, NEW a \in 1..Cur(v), NEW b \in Int, NEW m \in Nat, NEW field \in {"base", "n"},
         NEW w, w = Apply(v, ToSlot(field, a, b % v.ring[a].cap, m)),
         NEW r \in 1..Cur(v), NEW k \in Int, NEW g, Holds(v, r, k, g),
         r = a => k % v.ring[a].cap # b % v.ring[a].cap \/ g = m
  PROVE  Holds(w, r, k, g)
<1>1. /\ v.ring[a].cap \in Nat /\ v.ring[a].cap > 0
      /\ v.ring[a].base \in Words(v.ring[a].cap) /\ v.ring[a].n \in Words(v.ring[a].cap)
  BY RingFields, ViewFields
<1>2. b % v.ring[a].cap \in 0..v.ring[a].cap - 1 /\ k % v.ring[a].cap \in 0..v.ring[a].cap - 1
  BY <1>1, ModRange
<1>3. /\ w.ring[a].cap = v.ring[a].cap
      /\ r # a => w.ring[r] = v.ring[r]
      /\ w.ring[a].base = IF field = "base" THEN [v.ring[a].base EXCEPT ![b % v.ring[a].cap] = m]
                                            ELSE v.ring[a].base
      /\ w.ring[a].n = IF field = "n" THEN [v.ring[a].n EXCEPT ![b % v.ring[a].cap] = m] ELSE v.ring[a].n
  <2>1. PICK s : s = b % v.ring[a].cap
    OBVIOUS
  <2>2. s \in 0..v.ring[a].cap - 1 /\ w = Apply(v, ToSlot(field, a, s, m))
    BY <1>2, <2>1
  <2>3. Filled(v, w, field, a, s, m)
    BY <2>2, SlotStored
  <2>4. QED
    BY <2>1, <2>3 DEF Filled
<1>4. CASE r # a
  BY <1>3, <1>4 DEF Holds
<1>5. CASE r = a
  <2> DEFINE i == k % v.ring[a].cap
             j == b % v.ring[a].cap
  <2>1. v.ring[a].base[i] = g /\ v.ring[a].n[i] = g /\ (i # j \/ g = m)
    BY <1>5 DEF Holds
  <2>2. i \in 0..v.ring[a].cap - 1
    BY <1>2
  <2> HIDE DEF i, j
  <2>3. [v.ring[a].base EXCEPT ![j] = m][i] = g /\ [v.ring[a].n EXCEPT ![j] = m][i] = g
    BY <1>1, <2>1, <2>2 DEF Words
  <2>4. w.ring[a].base[i] = g /\ w.ring[a].n[i] = g
    BY <1>3, <2>1, <2>3 DEF j
  <2>5. QED
    BY <1>3, <1>5, <2>4 DEF Holds, i
<1>6. QED
  BY <1>4, <1>5

-----------------------------------------------------------------------------
(***************************************************************************)
(* The invariant.                                                          *)
(***************************************************************************)
StoreSet == [to : {"bottom"}, val : Int] \cup [to : {"array"}, val : Ring]
              \cup [to : {"base", "n"}, a : Nat, i : Nat, val : Nat]

DequeTypeOK ==
  /\ top \in Nat
  /\ own \in View /\ mem \in View
  /\ sb \in Seq(StoreSet)
  /\ freedRings = {}
  /\ opc \in {"idle", "push", "store", "fence", "load", "cas"}
  /\ ob \in Int /\ ot \in Int
  /\ tpc \in [Thieves -> {"idle", "bottom", "array", "base", "n", "cas", "won"}]
  /\ tt \in [Thieves -> Nat]
  /\ ta \in [Thieves -> Nat]
  /\ tout \in [Thieves -> [base : Nat, n : Nat]]
  /\ pushed \in 0..MaxPush
  /\ taken \in [Frames -> Nat]

\* The deque holds the positions top..End-1.  A take lowers bottom before it
\* knows whether there is a frame for it.
End == IF opc \in {"fence", "load", "cas"} THEN ob + 1 ELSE own.bottom

\* The frame at each position, as the owner sees its ring.
FrameAt == [k \in Int |-> Array(own).base[k % Array(own).cap]]

\* Nothing is in a ring that was not pushed.
Known(v, m) == \A r \in 1..Cur(v) : \A i \in 0..v.ring[r].cap - 1 : v.ring[r].base[i] <= m /\ v.ring[r].n[i] <= m

\* The views vs come of the stores s, one by one.
Leads(vs, s, m) ==
  /\ \A p \in 1..Len(s) : vs[p + 1] = Apply(vs[p], s[p])
  /\ \A p \in 1..Len(s) + 1 : Known(vs[p], m)

\* vs leads from memory to what the owner sees, store by store.
History(vs) ==
  /\ vs[1] = mem /\ vs[Len(sb) + 1] = own
  /\ Leads(vs, sb, pushed)
  /\ Coherent(vs, Len(sb) + 1, top, End, FrameAt)

\* The deque holds each frame that was pushed and not taken, once; and no
\* more than fit the ring.
OwnFrames ==
  /\ top <= End /\ End - top <= Array(own).cap
  /\ \A k \in top..End - 1 :
       Holds(own, Cur(own), k, FrameAt[k]) /\ FrameAt[k] \in 1..pushed /\ taken[FrameAt[k]] = 0
  /\ \A k, l \in top..End - 1 : FrameAt[k] = FrameAt[l] => k = l
  /\ \A f \in 1..pushed : taken[f] = 0 => \E k \in top..End - 1 : FrameAt[k] = f
  /\ \A f \in Frames : taken[f] \in {0, 1} /\ (f > pushed => taken[f] = 0)

\* What the owner knows at each point of a call: it has read top, which only
\* rises, so there is room for what it stores; and past the fence there is
\* nothing in its buffer.
OwnerFollows ==
  /\ opc # "idle" => own.bottom = ob
  /\ opc \in {"push", "store"} => pushed < MaxPush /\ ot <= top /\ ob - ot <= Array(own).cap
  /\ opc = "store" => ob - ot <= Array(own).cap - 1
  /\ opc \in {"load", "cas"} => sb = <<>>
  /\ opc = "cas" => ot = ob /\ top >= ob

\* A thief whose exchange would succeed has in hand, or in reach, the frame at
\* top: it is still in the ring that the thief reads.
Committed(h) == tpc[h] \in {"array", "base", "n", "cas"} /\ tt[h] = top
Sees(h) ==
  /\ top < End
  /\ tpc[h] = "array" => Holds(mem, Cur(mem), top, FrameAt[top])
  /\ tpc[h] # "array" => Holds(mem, ta[h], top, FrameAt[top])
  /\ tpc[h] \in {"n", "cas"} => tout[h].base = FrameAt[top]
  /\ tpc[h] = "cas" => tout[h].n = FrameAt[top]
Follows(h) ==
  /\ tt[h] <= top
  /\ tpc[h] \in {"base", "n", "cas"} => ta[h] \in 1..Cur(mem)
  /\ Committed(h) => Sees(h)
ThievesFollow == \A h \in Thieves : Follows(h)

DequeInv ==
  /\ DequeTypeOK
  /\ \E vs : History(vs)
  /\ OwnFrames
  /\ OwnerFollows
  /\ ThievesFollow
  /\ NoTornFrame

LEMMA EmptyRingIs == ASSUME NEW c \in Nat \ {0} PROVE EmptyRing(c) \in Ring
<1>1. [i \in 0..c - 1 |-> NoWord] \in Words(c)
  BY DEF Words, NoWord
<1>2. QED
  BY <1>1, RingMade DEF EmptyRing

LEMMA DequeInvInit == DequeInit => DequeInv
<1> SUFFICES ASSUME DequeInit PROVE DequeInv
  OBVIOUS
<1>1. InitCap \in Nat \ {0} /\ MaxPush \in Nat
  BY DequeAssumption
<1>2. own \in View /\ mem = own /\ Cur(own) = 1 /\ own.bottom = 0 /\ own.ring[1] = EmptyRing(InitCap)
  <2>1. EmptyRing(InitCap) \in Ring
    BY <1>1, EmptyRingIs
  <2> HIDE DEF EmptyRing
  <2>2. <<EmptyRing(InitCap)>> \in Seq(Ring) \ {<<>>} /\ Len(<<EmptyRing(InitCap)>>) = 1
    BY <2>1
  <2>3. QED
    BY <2>2 DEF DequeInit, View, Cur
<1>3. DequeTypeOK
  BY <1>1, <1>2 DEF DequeInit, DequeTypeOK, Frames, NoWord
<1>4. top = 0 /\ End = 0 /\ sb = <<>> /\ Len(sb) = 0 /\ pushed = 0
  BY <1>2 DEF DequeInit, End
<1>5. Array(own) = EmptyRing(InitCap) /\ Array(own).cap = InitCap
  BY <1>2 DEF Array, Cur, EmptyRing
<1>6. Known(own, 0)
  <2> DEFINE e == EmptyRing(InitCap)
  <2>1. \A i \in 0..e.cap - 1 : e.base[i] = 0 /\ e.n[i] = 0
    BY DEF EmptyRing, NoWord
  <2> HIDE DEF e
  <2>2. \A r \in 1..Cur(own) : own.ring[r] = e
    BY <1>2 DEF e
  <2>3. QED
    BY <2>1, <2>2 DEF Known
<1>7. History(<<own>>)
  <2> DEFINE vs == <<own>>
  <2>1. vs[1] = own /\ \A p \in 1..0 + 1 : p = 1
    OBVIOUS
  <2> HIDE DEF vs
  <2>2. Coherent(vs, 0 + 1, 0, 0, FrameAt)
    BY <1>2, <2>1 DEF Coherent, Grows, Keeps, Shows
  <2>3. QED
    BY <1>2, <1>4, <1>6, <2>1, <2>2 DEF History, Leads, vs
<1>8. OwnFrames
  BY <1>1, <1>3, <1>4, <1>5 DEF OwnFrames, DequeInit
<1>9. OwnerFollows /\ ThievesFollow /\ NoTornFrame
  BY DEF DequeInit, OwnerFollows, ThievesFollow, NoTornFrame, Committed, Follows
<1>10. QED
  BY <1>3, <1>7, <1>8, <1>9 DEF DequeInv

\* End, top and the frames between them are integers.
LEMMA Ends ==
  ASSUME DequeTypeOK
  PROVE  /\ End \in Int /\ Array(own) = own.ring[Cur(own)] /\ Array(own) \in Ring /\ Cur(own) \in Nat \ {0}
         /\ Array(own).cap \in Nat /\ Array(own).cap > 0 /\ own.bottom \in Int
<1>1. own.bottom \in Int /\ Cur(own) \in 1..Cur(own) /\ own.ring[Cur(own)] \in Ring /\ Cur(own) \in Nat \ {0}
  BY ViewFields DEF DequeTypeOK
<1>2. QED
  BY <1>1, RingFields DEF DequeTypeOK, End, Array, Cur

-----------------------------------------------------------------------------
(***************************************************************************)
(* What steps that leave memory, the buffer or the deque alone preserve.   *)
(***************************************************************************)
LEMMA QuietHistory ==
  ASSUME NEW vs, History(vs), UNCHANGED <<own, mem, sb, pushed, top>>, End' = End
  PROVE  History(vs)'
<1>1. FrameAt' = FrameAt
  BY DEF FrameAt, Array
<1>2. QED
  BY <1>1 DEF History

LEMMA QuietFrames ==
  ASSUME OwnFrames, own'.ring = own.ring, UNCHANGED <<pushed, top, taken>>, End' = End
  PROVE  OwnFrames'
<1>1. FrameAt' = FrameAt /\ Array(own)' = Array(own) /\ Cur(own)' = Cur(own)
  BY DEF FrameAt, Array, Cur
<1>2. QED
  BY <1>1 DEF OwnFrames, Holds

\* The owner's steps change nothing for a thief, unless they take its frame.
LEMMA QuietThieves ==
  ASSUME DequeTypeOK, ThievesFollow, NoTornFrame, UNCHANGED <<thiefVars, mem>>,
         top' \in Nat, top' >= top,
         top' = top /\ top < End => top < End' /\ FrameAt'[top] = FrameAt[top]
  PROVE  ThievesFollow' /\ NoTornFrame'
<1>1. NoTornFrame'
  BY DEF NoTornFrame, thiefVars
<1>2. ASSUME NEW h \in Thieves
      PROVE  /\ tt'[h] <= top'
             /\ tpc'[h] \in {"base", "n", "cas"} => ta'[h] \in 1..Cur(mem')
             /\ Committed(h)' => Sees(h)'
  <2>1. tt[h] \in Nat /\ top \in Nat /\ tt[h] <= top
    BY DEF DequeTypeOK, ThievesFollow, Follows
  <2>2. tt' = tt /\ ta' = ta /\ tpc' = tpc /\ tout' = tout
    BY DEF thiefVars
  <2>3. ASSUME Committed(h)' PROVE Sees(h)'
    <3>1. top' = top /\ Committed(h)
      BY <2>1, <2>2, <2>3 DEF Committed
    <3>2. Sees(h)
      BY <3>1 DEF ThievesFollow, Follows
    <3>3. top < End
      BY <3>2 DEF Sees
    <3>4. top < End' /\ FrameAt'[top] = FrameAt[top]
      BY <3>1, <3>3
    <3>5. QED
      BY <2>2, <3>1, <3>2, <3>4 DEF Sees
  <2>4. QED
    BY <2>1, <2>2, <2>3 DEF ThievesFollow, Follows
<1>3. QED
  BY <1>1, <1>2 DEF ThievesFollow, Follows

\* The owner or a thief takes the frame at one end of the deque.
LEMMA FrameLeaves ==
  ASSUME DequeTypeOK, OwnFrames, own'.ring = own.ring, pushed' = pushed,
         NEW k0 \in top..End - 1,
         taken' = [f \in Frames |-> taken[f] + (IF FrameAt[k0] = f THEN 1 ELSE 0)],
         \/ k0 = top /\ top' = top + 1 /\ End' = End
         \/ k0 = End - 1 /\ top' = top /\ End' = End - 1
  PROVE  OwnFrames'
<1>1. /\ End \in Int /\ Array(own).cap \in Nat /\ top \in Nat /\ Cur(own)' = Cur(own)
      /\ Array(own)' = Array(own)
  BY Ends DEF DequeTypeOK, Cur, Array
<1>2. FrameAt' = FrameAt
  BY <1>1 DEF FrameAt
<1>3. \A k : k \in top'..End' - 1 <=> k \in top..End - 1 /\ k # k0
  BY <1>1
<1>4. top' <= End' /\ End' - top' <= Array(own).cap
  BY <1>1 DEF OwnFrames
<1>5. FrameAt[k0] \in 1..pushed /\ taken[FrameAt[k0]] = 0 /\ pushed \in 0..MaxPush /\ MaxPush \in Nat
  BY DequeAssumption DEF OwnFrames, DequeTypeOK
<1>6. FrameAt[k0] \in Frames
  BY <1>5 DEF Frames
<1>7. \A f \in Frames : taken'[f] = IF f = FrameAt[k0] THEN 1 ELSE taken[f]
  BY <1>5, <1>6 DEF OwnFrames
<1>8. \A f \in 1..pushed : f \in Frames
  BY <1>5 DEF Frames
<1>9. \A k \in top'..End' - 1 : /\ Holds(own', Cur(own)', k, FrameAt[k]) /\ FrameAt[k] \in 1..pushed
                                /\ taken'[FrameAt[k]] = 0
  <2> SUFFICES ASSUME NEW k \in top'..End' - 1
               PROVE  /\ Holds(own', Cur(own)', k, FrameAt[k]) /\ FrameAt[k] \in 1..pushed
                      /\ taken'[FrameAt[k]] = 0
    OBVIOUS
  <2>1. k \in top..End - 1 /\ k # k0
    BY <1>3
  <2>2. Holds(own, Cur(own), k, FrameAt[k]) /\ FrameAt[k] \in 1..pushed /\ taken[FrameAt[k]] = 0
    BY <2>1 DEF OwnFrames
  <2>3. FrameAt[k] # FrameAt[k0]
    BY <2>1 DEF OwnFrames
  <2>4. QED
    BY <1>1, <1>7, <1>8, <2>2, <2>3 DEF Holds
<1>10. \A k, l \in top'..End' - 1 : FrameAt[k] = FrameAt[l] => k = l
  BY <1>3 DEF OwnFrames
<1>11. \A f \in 1..pushed : taken'[f] = 0 => \E k \in top'..End' - 1 : FrameAt[k] = f
  <2> SUFFICES ASSUME NEW f \in 1..pushed, taken'[f] = 0 PROVE \E k \in top'..End' - 1 : FrameAt[k] = f
    OBVIOUS
  <2>1. f # FrameAt[k0] /\ taken[f] = 0
    BY <1>7, <1>8
  <2>2. PICK k \in top..End - 1 : FrameAt[k] = f
    BY <2>1 DEF OwnFrames
  <2>3. k \in top'..End' - 1
    BY <1>3, <2>1, <2>2
  <2>4. QED
    BY <2>2, <2>3
<1>12. \A f \in Frames : taken'[f] \in {0, 1} /\ (f > pushed => taken'[f] = 0)
  BY <1>5, <1>7 DEF OwnFrames, Frames
<1>13. QED
  BY <1>1, <1>2, <1>4, <1>9, <1>10, <1>11, <1>12 DEF OwnFrames

-----------------------------------------------------------------------------
(***************************************************************************)
(* Each step preserves the invariant.                                      *)
(***************************************************************************)

\* The oldest store reaches memory.
LEMMA DrainKeeps == ASSUME DequeInv, Drain PROVE DequeInv'
<1> PICK vs : History(vs)
  BY DEF DequeInv
<1> DEFINE N == Len(sb) + 1
<1> PICK ws : ws = Shorter(vs, N)
  OBVIOUS
<1>1. DequeTypeOK /\ sb \in Seq(StoreSet) /\ sb # <<>>
  BY DEF DequeInv, DequeTypeOK, Drain
<1>2. Len(sb) \in Nat \ {0} /\ N \in Nat /\ 1 \in 1..Len(sb) /\ 1 \in 1..N /\ 2 \in 1..N
  BY <1>1
<1>3. UNCHANGED <<top, own, freedRings, ownerVars, thiefVars, pushed, taken>>
  BY DEF Drain
<1>4. sb' \in Seq(StoreSet) /\ Len(sb') = Len(sb) - 1 /\ \A p \in 1..Len(sb') : sb'[p] = sb[p + 1]
  BY <1>1 DEF Drain
<1>5. mem' = vs[2]
  <2>1. vs[1 + 1] = Apply(vs[1], sb[1]) /\ vs[1] = mem
    BY <1>2 DEF History, Leads
  <2>2. QED
    BY <1>1, <2>1 DEF Drain
<1>6. Coherent(vs, N, top, End, FrameAt) /\ top \in Int /\ End \in Int
  BY <1>1, Ends DEF History, DequeTypeOK
<1>7. End' = End /\ FrameAt' = FrameAt
  BY <1>3 DEF End, FrameAt, Array, ownerVars
<1>8. History(ws)'
  <2>1. \A p \in 1..N - 1 : ws[p] = vs[p + 1]
    BY DEF Shorter
  <2>2. Coherent(ws, N - 1, top, End, FrameAt)
    BY <1>2, <1>6, CoherentDrains
  <2>3. ws[1] = mem' /\ ws[Len(sb') + 1] = own'
    BY <1>2, <1>3, <1>4, <1>5, <2>1 DEF History
  <2>4. ASSUME NEW p \in 1..Len(sb') PROVE ws[p + 1] = Apply(ws[p], sb'[p])
    <3>1. p \in 1..N - 1 /\ p + 1 \in 1..N - 1 /\ p + 1 \in 1..Len(sb)
      BY <1>2, <1>4, <2>4
    <3>2. vs[(p + 1) + 1] = Apply(vs[p + 1], sb[p + 1])
      BY <3>1 DEF History, Leads
    <3>3. QED
      BY <1>4, <2>1, <2>4, <3>1, <3>2
  <2>5. ASSUME NEW p \in 1..Len(sb') + 1 PROVE Known(ws[p], pushed)
    <3>1. p \in 1..N - 1 /\ p + 1 \in 1..Len(sb) + 1
      BY <1>2, <1>4, <2>5
    <3>2. QED
      BY <2>1, <3>1 DEF History, Leads
  <2>6. Len(sb') + 1 = N - 1
    BY <1>2, <1>4
  <2>7. Coherent(ws, Len(sb') + 1, top', End', FrameAt')
    BY <1>3, <1>7, <2>2, <2>6
  <2>8. \A p \in 1..Len(sb') + 1 : Known(ws[p], pushed')
    BY <1>3, <2>5
  <2>9. QED
    BY <2>3, <2>4, <2>7, <2>8 DEF History, Leads
<1>9. mem' \in View /\ Cur(mem) \in Nat /\ Cur(mem') \in Nat /\ Cur(mem) <= Cur(mem')
  <2>1. vs[1] = mem /\ vs[2] \in View
    BY <1>2, <1>6 DEF History, Coherent
  <2>2. Cur(vs[1]) <= Cur(vs[2])
    BY <1>2, <1>6 DEF Coherent, Grows
  <2>3. QED
    BY <1>1, <1>5, <2>1, <2>2, ViewFields DEF DequeTypeOK
<1>10. DequeTypeOK'
  BY <1>1, <1>3, <1>4, <1>9 DEF DequeTypeOK, ownerVars, thiefVars
<1>11. OwnFrames'
  BY <1>3, <1>7, QuietFrames DEF DequeInv
<1>12. OwnerFollows'
  <2>1. opc \notin {"load", "cas"}
    BY <1>1 DEF DequeInv, OwnerFollows
  <2>2. QED
    BY <1>3, <2>1 DEF DequeInv, OwnerFollows, ownerVars, Array
<1>13. NoTornFrame'
  BY <1>3 DEF DequeInv, NoTornFrame, thiefVars
<1>14. ASSUME NEW h \in Thieves
       PROVE  /\ tt'[h] <= top'
              /\ tpc'[h] \in {"base", "n", "cas"} => ta'[h] \in 1..Cur(mem')
              /\ Committed(h)' => Sees(h)'
  <2>1. tt' = tt /\ ta' = ta /\ tpc' = tpc /\ tout' = tout /\ top' = top
    BY <1>3 DEF thiefVars
  <2>2. /\ tt[h] <= top
        /\ tpc[h] \in {"base", "n", "cas"} => ta[h] \in 1..Cur(mem)
        /\ Committed(h) => Sees(h)
    BY DEF DequeInv, ThievesFollow, Follows
  <2>3. tpc[h] \in {"base", "n", "cas"} => ta[h] \in 1..Cur(mem')
    <3>1. \A r \in 1..Cur(mem) : r \in 1..Cur(mem')
      BY <1>9
    <3>2. QED
      BY <2>2, <3>1
  <2>4. ASSUME Committed(h)' PROVE Sees(h)'
    <3>1. Sees(h) /\ Committed(h)
      BY <2>1, <2>2, <2>4 DEF Committed
    <3>2. top \in top..End - 1
      BY <1>6, <3>1 DEF Sees
    <3>3. /\ \A r \in 1..Cur(vs[1]) : Holds(vs[1], r, top, FrameAt[top]) => Holds(vs[2], r, top, FrameAt[top])
          /\ Holds(vs[1], Cur(vs[1]), top, FrameAt[top]) => Holds(vs[2], Cur(vs[2]), top, FrameAt[top])
      BY <1>2, <1>6, <3>2 DEF Coherent, Keeps
    <3>4. vs[1] = mem /\ vs[2] = mem'
      BY <1>5 DEF History
    <3>5. tpc[h] = "array" => Holds(mem', Cur(mem'), top, FrameAt[top])
      BY <3>1, <3>3, <3>4 DEF Sees
    <3>6. tpc[h] # "array" => Holds(mem', ta[h], top, FrameAt[top])
      BY <2>2, <3>1, <3>3, <3>4 DEF Sees, Committed
    <3>7. QED
      BY <1>7, <2>1, <3>1, <3>5, <3>6 DEF Sees
  <2>5. QED
    BY <2>1, <2>2, <2>3, <2>4
<1>15. QED
  BY <1>8, <1>10, <1>11, <1>12, <1>13, <1>14 DEF DequeInv, ThievesFollow, Follows

\* Steps of the owner that only load.
LEMMA LoadsKeep ==
  ASSUME DequeInv, UNCHANGED <<top, own, mem, sb, freedRings, thiefVars, pushed, taken>>,
         opc' \in {"idle", "push", "store", "fence", "load", "cas"}, ob' \in Int, ot' \in Int,
         End' = End, OwnerFollows'
  PROVE  DequeInv'
<1> PICK vs : History(vs)
  BY DEF DequeInv
<1>1. History(vs)'
  BY QuietHistory
<1>2. OwnFrames'
  BY QuietFrames DEF DequeInv
<1>3. DequeTypeOK'
  BY DEF DequeInv, DequeTypeOK, thiefVars
<1>4. FrameAt' = FrameAt
  BY DEF FrameAt, Array
<1>5. ThievesFollow' /\ NoTornFrame'
  <2>1. top \in Nat /\ top' = top
    BY DEF DequeInv, DequeTypeOK
  <2>2. top' >= top
    BY <2>1
  <2>3. QED
    BY <1>4, <2>1, <2>2, QuietThieves DEF DequeInv
<1>6. QED
  BY <1>1, <1>2, <1>3, <1>5 DEF DequeInv

LEMMA PushBeginKeeps == ASSUME DequeInv, PushBegin PROVE DequeInv'
<1>1. DequeTypeOK /\ OwnFrames /\ OwnerFollows /\ own.bottom \in Int /\ Array(own).cap \in Nat
  BY Ends DEF DequeInv
<1>2. OwnerFollows'
  <2>1. ot' <= top' /\ ob' - ot' <= Array(own)'.cap
    BY <1>1 DEF PushBegin, OwnFrames, End, DequeTypeOK, Array
  <2>2. QED
    BY <1>1, <2>1 DEF PushBegin, OwnerFollows
<1>3. End' = End
  BY DEF PushBegin, End
<1>4. ob' \in Int /\ ot' \in Int
  BY <1>1 DEF PushBegin, DequeTypeOK
<1>5. QED
  BY <1>2, <1>3, <1>4, LoadsKeep DEF PushBegin

LEMMA PushFailsKeeps == ASSUME DequeInv, PushFails PROVE DequeInv'
<1>1. OwnerFollows' /\ End' = End
  BY DEF DequeInv, PushFails, OwnerFollows, End
<1>2. ob' \in Int /\ ot' \in Int
  BY DEF PushFails, DequeInv, DequeTypeOK
<1>3. /\ UNCHANGED <<top, own, mem, sb, freedRings, thiefVars, pushed, taken>>
      /\ opc' \in {"idle", "push", "store", "fence", "load", "cas"}
  BY DEF PushFails
<1>4. QED
  BY <1>1, <1>2, <1>3, LoadsKeep

LEMMA PushFitsKeeps == ASSUME DequeInv, PushFits PROVE DequeInv'
<1>1. ob - ot <= Array(own).cap - 1
  BY Ends DEF DequeInv, DequeTypeOK, PushFits, RingFull
<1>2. OwnerFollows'
  BY <1>1 DEF DequeInv, PushFits, OwnerFollows, Array
<1>3. End' = End
  BY DEF PushFits, End
<1>4. QED
  BY <1>2, <1>3, LoadsKeep DEF PushFits, DequeInv, DequeTypeOK

LEMMA TakeFenceKeeps == ASSUME DequeInv, TakeFence PROVE DequeInv'
<1>1. OwnerFollows' /\ End' = End
  BY DEF DequeInv, TakeFence, OwnerFollows, End
<1>2. QED
  BY <1>1, LoadsKeep DEF TakeFence, DequeInv, DequeTypeOK

LEMMA TakeLastKeeps == ASSUME DequeInv, TakeLast PROVE DequeInv'
<1>1. DequeTypeOK
  BY DEF DequeInv
<1>2. OwnerFollows' /\ End' = End
  BY <1>1 DEF DequeInv, DequeTypeOK, TakeLast, OwnerFollows, End
<1>3. QED
  BY <1>1, <1>2, LoadsKeep DEF TakeLast, DequeTypeOK

\* A new view joins the history, the owner's.
LEMMA StoreLeads ==
  ASSUME NEW s \in Seq(StoreSet), NEW vs, NEW N \in Nat, N = Len(s) + 1,
         NEW st \in StoreSet, NEW w, w = Apply(vs[N], st), NEW m,
         Leads(vs, s, m), Known(w, m)
  PROVE  /\ Append(s, st) \in Seq(StoreSet) /\ Len(Append(s, st)) = N
         /\ Longer(vs, N, w)[1] = vs[1] /\ Longer(vs, N, w)[N + 1] = w
         /\ Leads(Longer(vs, N, w), Append(s, st), m)
<1>1. Len(s) \in Nat /\ 1 \in 1..N + 1 /\ 1 \in 1..N /\ N + 1 \notin 1..N
  OBVIOUS
<1>2. /\ Append(s, st) \in Seq(StoreSet) /\ Len(Append(s, st)) = N
      /\ Append(s, st)[N] = st /\ \A p \in 1..Len(s) : Append(s, st)[p] = s[p]
  BY <1>1
<1>3. /\ \A p \in 1..N : Longer(vs, N, w)[p] = vs[p]
      /\ Longer(vs, N, w)[N + 1] = w
  BY <1>1 DEF Longer
<1>4. \A p \in 1..N + 1 : p \in 1..N \/ p = N + 1
  BY <1>1
<1>5. ASSUME NEW p \in 1..N
      PROVE  Longer(vs, N, w)[p + 1] = Apply(Longer(vs, N, w)[p], Append(s, st)[p])
  <2>1. CASE p = N
    BY <1>2, <1>3, <2>1
  <2>2. CASE p \in 1..Len(s)
    <3>1. p + 1 \in 1..N /\ p \in 1..N
      BY <1>1, <2>2
    <3>2. QED
      BY <1>2, <1>3, <2>2, <3>1 DEF Leads
  <2>3. QED
    BY <1>1, <2>1, <2>2
<1>6. \A p \in 1..N + 1 : Known(Longer(vs, N, w)[p], m)
  BY <1>3, <1>4 DEF Leads
<1>7. QED
  BY <1>1, <1>2, <1>3, <1>5, <1>6 DEF Leads

\* The N views vs lead from one to the other by the stores s.
Led(vs, N, s, m, first, last) ==
  s \in Seq(StoreSet) /\ N = Len(s) + 1 /\ vs[1] = first /\ vs[N] = last /\ Leads(vs, s, m)

LEMMA Lengthens ==
  ASSUME NEW vs, NEW N, NEW s, NEW m, NEW first, NEW u, Led(vs, N, s, m, first, u),
         NEW st \in StoreSet, Known(Apply(u, st), m)
  PROVE  Led(Longer(vs, N, Apply(u, st)), N + 1, Append(s, st), m, first, Apply(u, st))
<1>1. /\ s \in Seq(StoreSet) /\ N = Len(s) + 1 /\ N \in Nat /\ vs[1] = first /\ vs[N] = u
      /\ Leads(vs, s, m)
  BY DEF Led
<1> PICK w : w = Apply(u, st)
  OBVIOUS
<1>2. w = Apply(vs[N], st) /\ Known(w, m)
  BY <1>1
<1>3. /\ Append(s, st) \in Seq(StoreSet) /\ Len(Append(s, st)) = N
      /\ Longer(vs, N, w)[1] = vs[1] /\ Longer(vs, N, w)[N + 1] = w
      /\ Leads(Longer(vs, N, w), Append(s, st), m)
  BY <1>1, <1>2, StoreLeads
<1>4. QED
  BY <1>1, <1>3 DEF Led

\* The owner stores bottom, at or below the end of the deque; in the same step
\* it may have taken the frame at the top.
LEMMA BottomHistory ==
  ASSUME DequeInv, NEW b \in Int, Store(ToBottom(b)), UNCHANGED <<mem, pushed>>,
         top' \in Int, top' >= top, End' = End, b <= End
  PROVE  /\ \E vs : History(vs)'
         /\ own' \in View /\ own'.ring = own.ring /\ own'.bottom = b /\ FrameAt' = FrameAt
         /\ sb' \in Seq(StoreSet)
<1> PICK vs : History(vs)
  BY DEF DequeInv
<1> DEFINE N == Len(sb) + 1
<1> PICK w : w = Apply(own, ToBottom(b))
  OBVIOUS
<1> PICK ws : ws = Longer(vs, N, w)
  OBVIOUS
<1>0. DequeTypeOK /\ sb \in Seq(StoreSet) /\ own \in View /\ top \in Int
  BY DEF DequeInv, DequeTypeOK
<1>1. DequeTypeOK /\ own \in View /\ N \in Nat \ {0} /\ top \in Int /\ End \in Int /\ N \in 1..N
  BY <1>0, Ends
<1>2. w \in View /\ w.bottom = b /\ w.ring = own.ring /\ own' = w /\ Cur(w) = Cur(own)
  BY <1>1, BottomStored DEF Store, Cur
<1>3. FrameAt' = FrameAt
  BY <1>2 DEF FrameAt, Array
<1>4. ToBottom(b) \in StoreSet
  BY DEF ToBottom, StoreSet
<1>5. Known(w, pushed)
  <2>1. Known(own, pushed)
    BY <1>1 DEF History, Leads
  <2>2. QED
    BY <1>2, <2>1 DEF Known
<1>6. Coherent(vs, N, top', End, FrameAt)
  <2>1. Coherent(vs, N, top, End, FrameAt)
    BY DEF History
  <2>2. \A p \in 1..N : vs[p].bottom <= End
    BY <2>1 DEF Coherent, Shows
  <2>3. End <= End
    BY <1>1
  <2>4. QED
    BY <1>1, <2>1, <2>2, <2>3, CoherentShrinks
<1>7. Coherent(ws, N + 1, top', End, FrameAt)
  <2>1. vs[N] = own /\ Cur(vs[N]) <= Cur(w)
    BY <1>1, <1>2, ViewFields DEF History
  <2>2. \A k \in top'..End - 1 : Holds(own, Cur(own), k, FrameAt[k])
    <3>1. \A k \in top'..End - 1 : k \in top..End - 1
      BY <1>1
    <3>2. QED
      BY <3>1 DEF DequeInv, OwnFrames
  <2>3. ASSUME NEW k \in top'..End - 1
        PROVE  /\ \A r \in 1..Cur(vs[N]) : Holds(vs[N], r, k, FrameAt[k]) => Holds(w, r, k, FrameAt[k])
               /\ Holds(w, Cur(w), k, FrameAt[k])
    BY <1>2, <2>1, <2>2 DEF Holds
  <2>4. QED
    BY <1>1, <1>2, <1>6, <2>1, <2>3, CoherentStores
<1>8. /\ Append(sb, ToBottom(b)) \in Seq(StoreSet) /\ Len(Append(sb, ToBottom(b))) = N
      /\ ws[1] = mem /\ ws[N + 1] = w /\ Leads(ws, Append(sb, ToBottom(b)), pushed)
  <2>1. vs[N] = own /\ vs[1] = mem /\ w = Apply(vs[N], ToBottom(b)) /\ Leads(vs, sb, pushed)
    BY <1>1 DEF History
  <2>2. QED
    BY <1>0, <1>1, <1>4, <1>5, <2>1, StoreLeads
<1>9. History(ws)'
  <2>1. sb' = Append(sb, ToBottom(b)) /\ mem' = mem /\ pushed' = pushed /\ own' = w
    BY <1>2 DEF Store
  <2>2. Coherent(ws, Len(sb') + 1, top', End', FrameAt')
    BY <1>3, <1>7, <1>8, <2>1
  <2>3. ws[1] = mem' /\ ws[Len(sb') + 1] = own' /\ Leads(ws, sb', pushed')
    BY <1>8, <2>1
  <2>4. QED
    BY <2>2, <2>3 DEF History
<1>10. QED
  BY <1>2, <1>3, <1>8, <1>9 DEF Store

\* What a store of bottom does besides: the rest of the invariant.
LEMMA BottomKeeps ==
  ASSUME DequeInv, NEW b \in Int, Store(ToBottom(b)), b <= End, End' = End,
         UNCHANGED <<mem, freedRings, thiefVars, pushed>>, top' \in Nat, top' >= top,
         opc' \in {"idle", "fence"}, ob' \in Int, ot' \in Int, taken' \in [Frames -> Nat],
         opc' = "fence" => b = ob',
         OwnFrames'
  PROVE  DequeInv'
<1>1. DequeTypeOK /\ top' \in Int
  BY DEF DequeInv
<1>2. /\ \E vs : History(vs)'
      /\ own' \in View /\ own'.bottom = b /\ FrameAt' = FrameAt /\ sb' \in Seq(StoreSet)
  BY <1>1, BottomHistory
<1>3. DequeTypeOK'
  BY <1>1, <1>2 DEF DequeTypeOK, thiefVars
<1>4. OwnerFollows'
  BY <1>2 DEF OwnerFollows
<1>5. ThievesFollow' /\ NoTornFrame'
  <2>1. top' = top /\ top < End => top < End' /\ FrameAt'[top] = FrameAt[top]
    BY <1>2
  <2>2. QED
    BY <1>1, <2>1, QuietThieves DEF DequeInv
<1>6. QED
  BY <1>2, <1>3, <1>4, <1>5 DEF DequeInv

LEMMA TakeStoreKeeps == ASSUME DequeInv, TakeStore PROVE DequeInv'
<1> DEFINE b == own.bottom - 1
<1>1. DequeTypeOK /\ own.bottom \in Int /\ b \in Int /\ End = own.bottom
  BY Ends DEF DequeInv, TakeStore, End
<1>2. own'.ring = own.ring
  BY <1>1, BottomStored DEF TakeStore, Store, DequeTypeOK
<1>3. End' = End /\ b <= End
  BY <1>1 DEF TakeStore, End
<1>4. OwnFrames'
  BY <1>2, <1>3, QuietFrames DEF DequeInv, TakeStore
<1>5. top' \in Nat /\ top' >= top /\ ot' \in Int /\ taken' \in [Frames -> Nat]
  BY <1>1 DEF TakeStore, DequeTypeOK
<1>6. Store(ToBottom(b)) /\ ob' = b /\ opc' = "fence" /\ UNCHANGED <<mem, freedRings, thiefVars, pushed>>
  BY DEF TakeStore
<1>7. QED
  BY <1>1, <1>3, <1>4, <1>5, <1>6, BottomKeeps

LEMMA TakeEmptyKeeps == ASSUME DequeInv, TakeEmpty PROVE DequeInv'
<1>1. DequeTypeOK /\ ob \in Int /\ ob + 1 \in Int /\ End = ob + 1 /\ ob + 1 <= End
  BY DEF DequeInv, TakeEmpty, End, DequeTypeOK
<1>2. own'.ring = own.ring /\ own'.bottom = ob + 1
  BY <1>1, BottomStored DEF TakeEmpty, Store, DequeTypeOK
<1>3. End' = End
  BY <1>1, <1>2 DEF TakeEmpty, End
<1>4. OwnFrames'
  BY <1>2, <1>3, QuietFrames DEF DequeInv, TakeEmpty
<1>5. top' \in Nat /\ top' >= top /\ ob' \in Int /\ ot' \in Int /\ taken' \in [Frames -> Nat]
  BY <1>1 DEF TakeEmpty, DequeTypeOK
<1>6. Store(ToBottom(ob + 1)) /\ opc' = "idle" /\ UNCHANGED <<mem, freedRings, thiefVars, pushed>>
  BY DEF TakeEmpty
<1>7. QED
  BY <1>1, <1>3, <1>4, <1>5, <1>6, BottomKeeps

\* The frame that the owner reads at b is the one there.
LEMMA BottomIs ==
  ASSUME DequeTypeOK, Hand(Bottom)
  PROVE  /\ taken' = [f \in Frames |-> taken[f] + (IF FrameAt[ob] = f THEN 1 ELSE 0)]
         /\ taken' \in [Frames -> Nat]
<1>1. Bottom.base = FrameAt[ob]
  BY DEF Bottom, Frame, Index, FrameAt, DequeTypeOK
<1>2. taken' = [f \in Frames |-> taken[f] + (IF FrameAt[ob] = f THEN 1 ELSE 0)]
  BY <1>1 DEF Hand
<1>3. QED
  BY <1>2 DEF DequeTypeOK

LEMMA TakeCasKeeps == ASSUME DequeInv, TakeCas PROVE DequeInv'
<1>1. /\ DequeTypeOK /\ ob \in Int /\ ob + 1 \in Int /\ End = ob + 1 /\ ob + 1 <= End /\ top \in Nat
      /\ ot = ob
  BY DEF DequeInv, TakeCas, End, DequeTypeOK, OwnerFollows
<1>2. own'.ring = own.ring /\ own'.bottom = ob + 1
  BY <1>1, BottomStored DEF TakeCas, Store, DequeTypeOK
<1>3. End' = End
  BY <1>1, <1>2 DEF TakeCas, End
<1>4. Store(ToBottom(ob + 1)) /\ opc' = "idle" /\ UNCHANGED <<mem, freedRings, thiefVars, pushed, ob, ot>>
  BY DEF TakeCas
<1>5. /\ OwnFrames' /\ top' \in Nat /\ top' >= top /\ taken' \in [Frames -> Nat]
  <2>1. CASE top = ot /\ top' = ot + 1 /\ Hand(Bottom)
    <3>1. top' = top + 1 /\ ob = top /\ ob \in top..End - 1
      BY <1>1, <2>1
    <3>2. /\ taken' = [f \in Frames |-> taken[f] + (IF FrameAt[ob] = f THEN 1 ELSE 0)]
          /\ taken' \in [Frames -> Nat]
      BY <1>1, <2>1, BottomIs
    <3>3. OwnFrames'
      BY <1>1, <1>2, <1>3, <1>4, <3>1, <3>2, FrameLeaves DEF DequeInv
    <3>4. QED
      BY <1>1, <3>1, <3>2, <3>3
  <2>2. CASE UNCHANGED <<top, taken>>
    <3>1. OwnFrames'
      BY <1>2, <1>3, <1>4, <2>2, QuietFrames DEF DequeInv
    <3>2. QED
      BY <1>1, <2>2, <3>1 DEF DequeTypeOK
  <2>3. QED
    BY <2>1, <2>2 DEF TakeCas
<1>6. QED
  BY <1>1, <1>3, <1>4, <1>5, BottomKeeps

LEMMA TakeManyKeeps == ASSUME DequeInv, TakeMany PROVE DequeInv'
<1> PICK vs : History(vs)
  BY DEF DequeInv
<1>1. /\ DequeTypeOK /\ ob \in Int /\ End = ob + 1 /\ top \in Nat /\ sb = <<>> /\ own.bottom = ob
      /\ top < ob /\ Len(sb) = 0 /\ End \in Int
  BY DEF DequeInv, TakeMany, End, DequeTypeOK, OwnerFollows
<1>2. End' = End - 1 /\ ob = End - 1 /\ ob \in top..End - 1
  BY <1>1 DEF TakeMany, End
<1>3. UNCHANGED <<top, own, mem, sb, freedRings, ob, ot, thiefVars, pushed>> /\ opc' = "idle" /\ FrameAt' = FrameAt
  BY DEF TakeMany, FrameAt, Array
<1>4. /\ taken' = [f \in Frames |-> taken[f] + (IF FrameAt[ob] = f THEN 1 ELSE 0)]
      /\ taken' \in [Frames -> Nat]
  BY <1>1, BottomIs DEF TakeMany
<1>5. OwnFrames'
  BY <1>1, <1>2, <1>3, <1>4, FrameLeaves DEF DequeInv
<1>6. History(vs)'
  <2>1. Coherent(vs, 1, top, End, FrameAt) /\ vs[1] = own
    BY <1>1 DEF History
  <2>2. Coherent(vs, 1, top, End - 1, FrameAt)
    <3>1. \A p \in 1..1 : vs[p].bottom <= End - 1
      BY <1>1, <2>1
    <3>2. top <= top /\ End - 1 <= End /\ top \in Int /\ End - 1 \in Int /\ 1 \in Nat
      BY <1>1
    <3>3. QED
      BY <1>1, <2>1, <3>1, <3>2, CoherentShrinks
  <2>3. QED
    BY <1>1, <1>2, <1>3, <2>2 DEF History
<1>7. DequeTypeOK'
  BY <1>1, <1>3, <1>4 DEF DequeTypeOK, thiefVars
<1>8. OwnerFollows'
  BY <1>3 DEF OwnerFollows
<1>9. ThievesFollow' /\ NoTornFrame'
  <2>1. top' = top /\ top' >= top /\ top < End'
    BY <1>1, <1>2, <1>3
  <2>2. QED
    BY <1>1, <1>3, <2>1, QuietThieves DEF DequeInv
<1>10. QED
  BY <1>5, <1>6, <1>7, <1>8, <1>9 DEF DequeInv

\* The ring that push makes has the frames of the old one, each at its place.
LEMMA GrownIs ==
  ASSUME DequeTypeOK, ob - ot <= Array(own).cap, NEW m \in Nat, Known(own, m)
  PROVE  /\ Grown \in Ring /\ Grown.cap = 2 * Array(own).cap
         /\ \A k \in ot..ob - 1 : /\ Grown.base[k % Grown.cap] = Array(own).base[k % Array(own).cap]
                                  /\ Grown.n[k % Grown.cap] = Array(own).n[k % Array(own).cap]
         /\ \A i \in 0..Grown.cap - 1 : Grown.base[i] <= m /\ Grown.n[i] <= m
<1> DEFINE a == Array(own)
           c == 2 * a.cap
           moved == {k % c : k \in ot..ob - 1}
<1>1. /\ a.cap \in Nat /\ a.cap > 0 /\ a.base \in Words(a.cap) /\ a.n \in Words(a.cap)
      /\ c \in Nat \ {0} /\ c \in Int /\ c > 0 /\ ob \in Int /\ ot \in Int
  BY Ends, RingFields, SMTT(30) DEF DequeTypeOK
<1>2. \A i \in 0..a.cap - 1 : /\ a.base[i] \in Nat /\ a.base[i] <= m
                              /\ a.n[i] \in Nat /\ a.n[i] <= m
  <2>1. a = own.ring[Cur(own)] /\ Cur(own) \in 1..Cur(own)
    BY Ends
  <2> HIDE DEF a
  <2>2. \A i \in 0..a.cap - 1 : a.base[i] <= m /\ a.n[i] <= m
    BY <2>1 DEF Known
  <2>3. \A i \in 0..a.cap - 1 : a.base[i] \in Nat /\ a.n[i] \in Nat
    BY <1>1 DEF Words
  <2>4. QED
    BY <2>2, <2>3
<1>3. ASSUME NEW k \in ot..ob - 1 PROVE Moved(k % c) = k
  <2>1. ASSUME NEW l \in ot..ob - 1, l % c = k % c PROVE l = k
    <3>1. k \in Int /\ l \in Int /\ k - l < c /\ l - k < c
      BY <1>1, <1>3, <2>1
    <3>2. ~(k < l) /\ ~(l < k)
      BY <1>1, <2>1, <3>1, ModDistinct
    <3>3. QED
      BY <3>1, <3>2
  <2>2. QED
    BY <1>3, <2>1 DEF Moved
<1>4. ASSUME NEW i \in moved PROVE Moved(i) \in ot..ob - 1
  <2>1. PICK k \in ot..ob - 1 : i = k % c
    BY <1>4
  <2>2. QED
    BY <1>3, <2>1
<1>5. ASSUME NEW k \in ot..ob - 1 PROVE k % c \in 0..c - 1 /\ k % a.cap \in 0..a.cap - 1 /\ k % c \in moved
  BY <1>1, <1>5, ModRange
<1> DEFINE word(i) == IF i \in moved THEN a.base[Moved(i) % a.cap] ELSE NoWord
           size(i) == IF i \in moved THEN a.n[Moved(i) % a.cap] ELSE NoWord
<1>6. /\ Grown.cap = c
      /\ Grown.base = [i \in 0..c - 1 |-> word(i)]
      /\ Grown.n = [i \in 0..c - 1 |-> size(i)]
      /\ Grown = [cap |-> Grown.cap, base |-> Grown.base, n |-> Grown.n]
  BY DEF Grown, Frame, Index
<1> HIDE DEF a, c, moved
<1>7. ASSUME NEW i \in 0..c - 1
      PROVE  word(i) \in Nat /\ word(i) <= m /\ size(i) \in Nat /\ size(i) <= m
  <2>1. CASE i \in moved
    <3>1. Moved(i) % a.cap \in 0..a.cap - 1
      BY <1>4, <1>5, <2>1
    <3>2. QED
      BY <1>2, <2>1, <3>1
  <2>2. CASE i \notin moved
    BY <2>2 DEF NoWord
  <2>3. QED
    BY <2>1, <2>2
<1>8. Grown.base \in Words(c) /\ Grown.n \in Words(c)
  BY <1>6, <1>7 DEF Words
<1>9. ASSUME NEW k \in ot..ob - 1
      PROVE  word(k % c) = a.base[k % a.cap] /\ size(k % c) = a.n[k % a.cap]
  BY <1>3, <1>5, <1>9
<1> HIDE DEF word, size
<1>10. Grown \in Ring
  <2>1. c \in Nat \ {0}
    BY <1>1 DEF a, c
  <2>2. [cap |-> c, base |-> Grown.base, n |-> Grown.n] \in Ring
    BY <1>8, <2>1, RingMade
  <2>3. QED
    BY <1>6, <2>2
<1>11. ASSUME NEW k \in ot..ob - 1
       PROVE  Grown.base[k % c] = a.base[k % a.cap] /\ Grown.n[k % c] = a.n[k % a.cap]
  BY <1>5, <1>6, <1>9, <1>11
<1>12. ASSUME NEW i \in 0..c - 1 PROVE Grown.base[i] <= m /\ Grown.n[i] <= m
  BY <1>6, <1>7, <1>12
<1>13. /\ \A k \in ot..ob - 1 : Grown.base[k % c] = a.base[k % a.cap] /\ Grown.n[k % c] = a.n[k % a.cap]
       /\ \A i \in 0..c - 1 : Grown.base[i] <= m /\ Grown.n[i] <= m
  BY <1>11, <1>12
<1>14. Grown.cap = c
  BY <1>6
<1> HIDE DEF Grown
<1>15. QED
  BY <1>10, <1>13, <1>14 DEF a, c

LEMMA PushGrowKeeps == ASSUME DequeInv, PushGrow PROVE DequeInv'
<1> PICK vs : History(vs)
  BY DEF DequeInv
<1> DEFINE N == Len(sb) + 1
<1> PICK g : g = Grown
  OBVIOUS
<1> PICK w : w = Apply(own, ToArray(g))
  OBVIOUS
<1> PICK ws : ws = Longer(vs, N, w)
  OBVIOUS
<1>1. /\ DequeTypeOK /\ sb \in Seq(StoreSet) /\ own \in View /\ top \in Int /\ ob \in Int /\ ot \in Int
      /\ pushed \in Nat /\ Len(sb) \in Nat
  BY DEF DequeInv, DequeTypeOK
<1>2. /\ N \in Nat \ {0} /\ N \in 1..N /\ End \in Int /\ Cur(own) \in Nat \ {0}
      /\ Array(own).cap \in Nat /\ Array(own).cap > 0 /\ Array(own) = own.ring[Cur(own)]
  BY <1>1, Ends
<1>3. /\ own.bottom = ob /\ End = ob /\ ot <= top /\ pushed < MaxPush /\ ob - ot <= Array(own).cap
  BY DEF DequeInv, PushGrow, OwnerFollows, End
<1>4. /\ UNCHANGED <<top, mem, freedRings, ob, ot, thiefVars, pushed, taken>> /\ opc' = "store"
      /\ sb' = Append(sb, ToArray(g)) /\ own' = w
  BY DEF PushGrow, Store, Retire
<1>5. vs[N] = own /\ Known(own, pushed)
  BY <1>2 DEF History, Leads
<1>6. /\ g \in Ring /\ g.cap = 2 * Array(own).cap
      /\ \A k \in ot..ob - 1 : /\ g.base[k % g.cap] = Array(own).base[k % Array(own).cap]
                               /\ g.n[k % g.cap] = Array(own).n[k % Array(own).cap]
      /\ \A i \in 0..g.cap - 1 : g.base[i] <= pushed /\ g.n[i] <= pushed
  BY <1>1, <1>3, <1>5, GrownIs
<1>7. /\ w \in View /\ w.bottom = ob /\ Cur(w) = Cur(own) + 1 /\ w.ring[Cur(w)] = g
      /\ \A r \in 1..Cur(own) : w.ring[r] = own.ring[r]
  BY <1>1, <1>3, <1>6, ArrayStored
<1>8. ToArray(g) \in StoreSet
  BY <1>6 DEF ToArray, StoreSet
<1>9. Array(own)' = g /\ Cur(own)' = Cur(w) /\ End' = End
  BY <1>3, <1>4, <1>7 DEF Array, Cur, End
<1>10. ASSUME NEW k \in top..End - 1
       PROVE  /\ k \in ot..ob - 1 /\ FrameAt'[k] = FrameAt[k]
              /\ \A x : Holds(own, Cur(own), k, x) => Holds(w, Cur(w), k, x)
              /\ \A x : \A r \in 1..Cur(own) : Holds(own, r, k, x) => Holds(w, r, k, x)
  <2>1. k \in ot..ob - 1 /\ k \in Int
    BY <1>1, <1>3, <1>10
  <2>2. FrameAt'[k] = FrameAt[k]
    BY <1>6, <1>9, <2>1 DEF FrameAt
  <2>3. \A x : Holds(own, Cur(own), k, x) => Holds(w, Cur(w), k, x)
    <3>1. /\ g.base[k % g.cap] = own.ring[Cur(own)].base[k % own.ring[Cur(own)].cap]
          /\ g.n[k % g.cap] = own.ring[Cur(own)].n[k % own.ring[Cur(own)].cap]
      BY <1>2, <1>6, <2>1
    <3>2. QED
      BY <1>7, <3>1 DEF Holds
  <2>4. \A x : \A r \in 1..Cur(own) : Holds(own, r, k, x) => Holds(w, r, k, x)
    BY <1>7 DEF Holds
  <2>5. QED
    BY <2>1, <2>2, <2>3, <2>4
<1>11. Known(w, pushed)
  <2>1. \A r \in 1..Cur(w) : r \in 1..Cur(own) \/ r = Cur(w)
    BY <1>2, <1>7
  <2>2. QED
    BY <1>5, <1>6, <1>7, <2>1 DEF Known
<1>12. Coherent(vs, N, top, End, FrameAt')
  <2>1. Coherent(vs, N, top, End, FrameAt)
    BY DEF History
  <2>2. \A k \in top..End - 1 : FrameAt'[k] = FrameAt[k]
    BY <1>10
  <2>3. QED
    BY <1>1, <1>2, <2>1, <2>2, CoherentSame
<1>13. \A k \in top..End - 1 : Holds(own, Cur(own), k, FrameAt'[k]) /\ Holds(w, Cur(w), k, FrameAt'[k])
  BY <1>10 DEF DequeInv, OwnFrames
<1>14. Coherent(ws, N + 1, top, End, FrameAt')
  <2>1. Cur(vs[N]) <= Cur(w) /\ w.bottom <= End
    BY <1>1, <1>2, <1>3, <1>5, <1>7
  <2>2. \A k \in top..End - 1 :
          /\ \A r \in 1..Cur(vs[N]) : Holds(vs[N], r, k, FrameAt'[k]) => Holds(w, r, k, FrameAt'[k])
          /\ Holds(w, Cur(w), k, FrameAt'[k])
    BY <1>5, <1>10, <1>13
  <2>3. QED
    BY <1>1, <1>2, <1>7, <1>12, <2>1, <2>2, CoherentStores
<1>15. /\ Append(sb, ToArray(g)) \in Seq(StoreSet) /\ Len(Append(sb, ToArray(g))) = N
       /\ ws[1] = mem /\ ws[N + 1] = w /\ Leads(ws, Append(sb, ToArray(g)), pushed)
  <2>1. vs[1] = mem /\ w = Apply(vs[N], ToArray(g)) /\ Leads(vs, sb, pushed)
    BY <1>5 DEF History
  <2>2. QED
    BY <1>1, <1>2, <1>8, <1>11, <2>1, StoreLeads
<1>16. History(ws)'
  <2>1. Coherent(ws, Len(sb') + 1, top', End', FrameAt')
    BY <1>4, <1>9, <1>14, <1>15
  <2>2. ws[1] = mem' /\ ws[Len(sb') + 1] = own' /\ Leads(ws, sb', pushed')
    BY <1>4, <1>15
  <2>3. QED
    BY <2>1, <2>2 DEF History
<1>17. DequeTypeOK'
  BY <1>1, <1>4, <1>7, <1>15 DEF DequeTypeOK, thiefVars
<1>18. OwnFrames'
  <2>1. top' <= End' /\ End' - top' <= Array(own)'.cap
    <3>1. PICK c : c = Array(own).cap
      OBVIOUS
    <3>2. c \in Nat /\ top \in Int /\ End \in Int /\ top <= End /\ End - top <= c
      BY <1>1, <1>2, <3>1 DEF DequeInv, OwnFrames
    <3>3. End - top <= 2 * c
      BY <3>2
    <3>4. top' = top /\ End' = End /\ Array(own)'.cap = 2 * c
      BY <1>4, <1>6, <1>9, <3>1
    <3>5. QED
      BY <3>2, <3>3, <3>4
  <2>2. \A k \in top..End - 1 : FrameAt'[k] = FrameAt[k]
    BY <1>10
  <2>3. \A k \in top'..End' - 1 : /\ Holds(own', Cur(own)', k, FrameAt'[k]) /\ FrameAt'[k] \in 1..pushed'
                                  /\ taken'[FrameAt'[k]] = 0
    BY <1>4, <1>9, <1>13, <2>2 DEF DequeInv, OwnFrames
  <2>4. \A k, l \in top'..End' - 1 : FrameAt'[k] = FrameAt'[l] => k = l
    BY <1>4, <1>9, <2>2 DEF DequeInv, OwnFrames
  <2>5. \A f \in 1..pushed' : taken'[f] = 0 => \E k \in top'..End' - 1 : FrameAt'[k] = f
    BY <1>4, <1>9, <2>2 DEF DequeInv, OwnFrames
  <2>6. \A f \in Frames : taken'[f] \in {0, 1} /\ (f > pushed' => taken'[f] = 0)
    BY <1>4 DEF DequeInv, OwnFrames
  <2>7. QED
    BY <2>1, <2>3, <2>4, <2>5, <2>6 DEF OwnFrames
<1>19. OwnerFollows'
  <2>1. PICK c : c = Array(own).cap
    OBVIOUS
  <2>2. c \in Nat /\ c > 0 /\ ob \in Int /\ ot \in Int /\ ob - ot <= c
    BY <1>1, <1>2, <1>3, <2>1
  <2>3. ob - ot <= 2 * c /\ ob - ot <= 2 * c - 1
    BY <2>2
  <2>4. Array(own)'.cap = 2 * c /\ own'.bottom = ob
    BY <1>4, <1>6, <1>7, <1>9, <2>1
  <2>5. pushed' < MaxPush /\ ot' <= top' /\ ob' = ob /\ ot' = ot /\ opc' = "store"
    BY <1>3, <1>4
  <2>6. QED
    BY <2>3, <2>4, <2>5 DEF OwnerFollows
<1>20. ThievesFollow' /\ NoTornFrame'
  <2>1. top' \in Nat /\ top' >= top
    BY <1>1, <1>4 DEF DequeTypeOK
  <2>2. top < End => top < End' /\ FrameAt'[top] = FrameAt[top]
    BY <1>1, <1>2, <1>9, <1>10
  <2>3. QED
    BY <1>1, <1>4, <2>1, <2>2, QuietThieves DEF DequeInv
<1>21. QED
  BY <1>16, <1>17, <1>18, <1>19, <1>20 DEF DequeInv

\* A store to the slot of position b in the ring that array points to.
At(v, b) == b % v.ring[Cur(v)].cap
Stored(v, field, b, m) == Apply(v, ToSlot(field, Cur(v), At(v, b), m))

LEMMA StoredIs ==
  ASSUME NEW v \in View, NEW b \in Int, NEW m \in Nat, NEW field \in {"base", "n"},
         NEW w, w = Stored(v, field, b, m), NEW old, old = v.ring[Cur(v)], NEW new, new = w.ring[Cur(w)]
  PROVE  /\ w \in View /\ w.bottom = v.bottom /\ Cur(w) = Cur(v) /\ Cur(v) \in 1..Cur(v)
         /\ \A r \in 1..Cur(v) : r # Cur(v) => w.ring[r] = v.ring[r]
         /\ old.cap \in Nat /\ old.cap > 0 /\ new.cap = old.cap /\ At(w, b) = At(v, b)
         /\ At(v, b) \in 0..old.cap - 1
         /\ old.base \in Words(old.cap) /\ old.n \in Words(old.cap)
         /\ new.base = IF field = "base" THEN [old.base EXCEPT ![At(v, b)] = m] ELSE old.base
         /\ new.n = IF field = "n" THEN [old.n EXCEPT ![At(v, b)] = m] ELSE old.n
<1>1. /\ Cur(v) \in 1..Cur(v) /\ old \in Ring /\ old.cap \in Nat /\ old.cap > 0
      /\ old.base \in Words(old.cap) /\ old.n \in Words(old.cap)
  BY ViewFields, RingFields
<1>2. PICK a : a = Cur(v)
  OBVIOUS
<1>3. PICK i : i = At(v, b)
  OBVIOUS
<1>4. i \in 0..old.cap - 1
  BY <1>1, <1>3, ModRange DEF At
<1>5. a \in 1..Cur(v) /\ i \in 0..v.ring[a].cap - 1 /\ w = Apply(v, ToSlot(field, a, i, m))
  BY <1>1, <1>2, <1>3, <1>4 DEF Stored
<1>6. Filled(v, w, field, a, i, m)
  BY <1>5, SlotStored
<1>7. old = v.ring[a] /\ new = w.ring[a]
  BY <1>2, <1>6 DEF Filled
<1>8. At(w, b) = At(v, b)
  BY <1>2, <1>6 DEF At, Filled
<1>9. /\ new.base = IF field = "base" THEN [old.base EXCEPT ![At(v, b)] = m] ELSE old.base
      /\ new.n = IF field = "n" THEN [old.n EXCEPT ![At(v, b)] = m] ELSE old.n
      /\ new.cap = old.cap
  BY <1>3, <1>6, <1>7 DEF Filled
<1>10. \A r \in 1..Cur(v) : r # Cur(v) => w.ring[r] = v.ring[r]
  BY <1>2, <1>6 DEF Filled
<1>11. QED
  BY <1>1, <1>3, <1>4, <1>6, <1>8, <1>9, <1>10 DEF Filled

LEMMA StoredShape ==
  ASSUME NEW v \in View, NEW b \in Int, NEW m \in Nat, NEW field \in {"base", "n"},
         NEW w, w = Stored(v, field, b, m)
  PROVE  /\ w \in View /\ w.bottom = v.bottom /\ Cur(w) = Cur(v) /\ At(w, b) = At(v, b)
         /\ w.ring[Cur(w)].cap = v.ring[Cur(v)].cap
         /\ At(v, b) \in 0..v.ring[Cur(v)].cap - 1
<1>1. PICK old : old = v.ring[Cur(v)]
  OBVIOUS
<1>2. PICK new : new = w.ring[Cur(w)]
  OBVIOUS
<1>3. /\ w \in View /\ w.bottom = v.bottom /\ Cur(w) = Cur(v) /\ Cur(v) \in 1..Cur(v)
      /\ \A r \in 1..Cur(v) : r # Cur(v) => w.ring[r] = v.ring[r]
      /\ old.cap \in Nat /\ old.cap > 0 /\ new.cap = old.cap /\ At(w, b) = At(v, b)
      /\ At(v, b) \in 0..old.cap - 1
      /\ old.base \in Words(old.cap) /\ old.n \in Words(old.cap)
      /\ new.base = IF field = "base" THEN [old.base EXCEPT ![At(v, b)] = m] ELSE old.base
      /\ new.n = IF field = "n" THEN [old.n EXCEPT ![At(v, b)] = m] ELSE old.n
  BY <1>1, <1>2, StoredIs
<1>4. QED
  BY <1>1, <1>2, <1>3

\* It spares the frames lo..b-1, as many as have room beside it, and the new
\* frame m once that is there.
LEMMA StoredSpares ==
  ASSUME NEW v \in View, NEW b \in Int, NEW lo \in Int, b - lo <= v.ring[Cur(v)].cap - 1,
         NEW m \in Nat, NEW field \in {"base", "n"}, NEW f, f[b] = m,
         NEW w, w = Stored(v, field, b, m)
  PROVE  \A k \in lo..b : \A r \in 1..Cur(v) : Holds(v, r, k, f[k]) => Holds(w, r, k, f[k])
<1>1. PICK c : c = v.ring[Cur(v)].cap
  OBVIOUS
<1>2. PICK a : a = Cur(v)
  OBVIOUS
<1>3. a \in 1..Cur(v) /\ c \in Int /\ c > 0 /\ c = v.ring[a].cap
  BY <1>1, <1>2, ViewFields, RingFields
<1>4. w = Apply(v, ToSlot(field, a, b % v.ring[a].cap, m))
  BY <1>2 DEF Stored, At
<1>5. ASSUME NEW k \in lo..b PROVE k % v.ring[a].cap # b % v.ring[a].cap \/ f[k] = m
  <2>1. CASE k = b
    BY <2>1
  <2>2. CASE k < b
    <3>1. k \in Int /\ b - k < c
      BY <1>1, <1>3, <2>2
    <3>2. k % c # b % c
      BY <1>3, <2>2, <3>1, ModDistinct
    <3>3. QED
      BY <1>3, <3>2
  <2>3. QED
    BY <2>1, <2>2
<1>6. ASSUME NEW k \in lo..b, NEW r \in 1..Cur(v), Holds(v, r, k, f[k]) PROVE Holds(w, r, k, f[k])
  <2>1. k \in Int /\ (r = a => k % v.ring[a].cap # b % v.ring[a].cap \/ f[k] = m)
    BY <1>5
  <2>2. QED
    BY <1>3, <1>4, <1>6, <2>1, SlotSpares
<1>7. QED
  BY <1>6

\* What the rings hold stays known, with the new frame's number as the bound.
LEMMA StoredKnown ==
  ASSUME NEW v \in View, NEW b \in Int, NEW m \in Nat, NEW field \in {"base", "n"}, Known(v, m),
         NEW w, w = Stored(v, field, b, m)
  PROVE  Known(w, m)
<1>1. PICK old : old = v.ring[Cur(v)]
  OBVIOUS
<1>2. PICK new : new = w.ring[Cur(w)]
  OBVIOUS
<1>3. PICK j : j = At(v, b)
  OBVIOUS
<1>4. /\ Cur(v) \in 1..Cur(v) /\ old.cap \in Nat /\ j \in 0..old.cap - 1
      /\ old.base \in Words(old.cap) /\ old.n \in Words(old.cap)
      /\ Cur(w) = Cur(v) /\ new.cap = old.cap
      /\ \A r \in 1..Cur(v) : r # Cur(v) => w.ring[r] = v.ring[r]
      /\ new.base = IF field = "base" THEN [old.base EXCEPT ![j] = m] ELSE old.base
      /\ new.n = IF field = "n" THEN [old.n EXCEPT ![j] = m] ELSE old.n
  BY <1>1, <1>2, <1>3, StoredIs
<1>5. \A i \in 0..old.cap - 1 : old.base[i] <= m /\ old.n[i] <= m
  BY <1>1, <1>4 DEF Known
<1>6. ASSUME NEW i \in 0..old.cap - 1 PROVE new.base[i] <= m /\ new.n[i] <= m
  <2>1. /\ [old.base EXCEPT ![j] = m][i] \in {m, old.base[i]}
        /\ [old.n EXCEPT ![j] = m][i] \in {m, old.n[i]}
    BY <1>4 DEF Words
  <2>2. m <= m
    OBVIOUS
  <2>3. QED
    BY <1>4, <1>5, <2>1, <2>2
<1>7. ASSUME NEW r \in 1..Cur(w), NEW i \in 0..w.ring[r].cap - 1
      PROVE  w.ring[r].base[i] <= m /\ w.ring[r].n[i] <= m
  <2>1. CASE r = Cur(v)
    <3>1. w.ring[r] = new /\ i \in 0..old.cap - 1
      BY <1>2, <1>4, <1>7, <2>1
    <3>2. QED
      BY <1>6, <3>1
  <2>2. CASE r # Cur(v)
    BY <1>4, <1>7, <2>2 DEF Known
  <2>3. QED
    BY <2>1, <2>2
<1>8. QED
  BY <1>7 DEF Known

\* With both fields stored, the slot holds the frame.
LEMMA SlotFilled ==
  ASSUME NEW v \in View, NEW b \in Int, NEW m \in Nat,
         NEW w, w = Stored(v, "base", b, m), NEW x, x = Stored(w, "n", b, m)
  PROVE  Holds(x, Cur(x), b, m)
<1>1. PICK j : j = At(v, b)
  OBVIOUS
<1>2. PICK old : old = v.ring[Cur(v)]
  OBVIOUS
<1>3. PICK mid : mid = w.ring[Cur(w)]
  OBVIOUS
<1>4. PICK new : new = x.ring[Cur(x)]
  OBVIOUS
<1>5. /\ w \in View /\ At(w, b) = j /\ mid.cap = old.cap /\ j \in 0..old.cap - 1
      /\ old.base \in Words(old.cap) /\ mid.base = [old.base EXCEPT ![j] = m]
  BY <1>1, <1>2, <1>3, StoredIs
<1>6. /\ At(x, b) = j /\ mid.n \in Words(mid.cap)
      /\ new.base = mid.base /\ new.n = [mid.n EXCEPT ![j] = m]
  BY <1>3, <1>4, <1>5, StoredIs
<1>7. new.base[j] = m /\ new.n[j] = m
  BY <1>5, <1>6 DEF Words
<1>8. b % new.cap = j
  BY <1>4, <1>6 DEF At
<1>9. QED
  BY <1>4, <1>7, <1>8 DEF Holds

LEMMA KnownMore ==
  ASSUME NEW v \in View, NEW m \in Nat, Known(v, m) PROVE Known(v, m + 1)
<1> SUFFICES ASSUME NEW r \in 1..Cur(v), NEW i \in 0..v.ring[r].cap - 1
             PROVE  v.ring[r].base[i] <= m + 1 /\ v.ring[r].n[i] <= m + 1
  BY DEF Known
<1>1. v.ring[r].base \in Words(v.ring[r].cap) /\ v.ring[r].n \in Words(v.ring[r].cap)
  BY ViewFields, RingFields
<1>2. v.ring[r].base[i] \in Nat /\ v.ring[r].n[i] \in Nat
  BY <1>1 DEF Words
<1>3. v.ring[r].base[i] <= m /\ v.ring[r].n[i] <= m
  BY DEF Known
<1>4. QED
  BY <1>2, <1>3

\* A frame that nobody pushed is in no ring.
LEMMA NotYetHeld ==
  ASSUME NEW v \in View, NEW m \in Nat, Known(v, m), NEW k \in Int, NEW r \in 1..Cur(v)
  PROVE  ~Holds(v, r, k, m + 1)
<1>1. v.ring[r].cap \in Int /\ v.ring[r].cap > 0
  BY ViewFields, RingFields
<1>2. k % v.ring[r].cap \in 0..v.ring[r].cap - 1
  BY <1>1, ModRange
<1>3. v.ring[r].base[k % v.ring[r].cap] <= m
  BY <1>2 DEF Known
<1>4. QED
  BY <1>3 DEF Holds

\* Push stores the slot's two fields, then bottom.
LEMMA PushStoreKeeps == ASSUME DequeInv, PushStore PROVE DequeInv'
<1> PICK vs : History(vs)
  BY DEF DequeInv
<1> DEFINE N == Len(sb) + 1
<1> PICK m : m = pushed + 1
  OBVIOUS
<1> PICK x : x = Stored(own, "base", ob, m)
  OBVIOUS
<1> PICK y : y = Stored(x, "n", ob, m)
  OBVIOUS
<1> PICK z : z = Apply(y, ToBottom(ob + 1))
  OBVIOUS
<1> PICK f : f = [k \in Int |-> IF k = ob THEN m ELSE FrameAt[k]]
  OBVIOUS
<1> PICK s1 : s1 = SlotStore("base")
  OBVIOUS
<1> PICK s2 : s2 = SlotStore("n")
  OBVIOUS
<1> PICK s3 : s3 = ToBottom(ob + 1)
  OBVIOUS
<1>1. /\ DequeTypeOK /\ sb \in Seq(StoreSet) /\ own \in View /\ top \in Nat /\ ob \in Int /\ ot \in Int
      /\ pushed \in Nat /\ m \in Nat /\ Len(sb) \in Nat /\ pushed < m
  BY DEF DequeInv, DequeTypeOK
<1>2. /\ N \in Nat \ {0} /\ N \in 1..N /\ N = Len(sb) + 1 /\ End \in Int /\ Cur(own) \in Nat \ {0}
      /\ Array(own).cap \in Nat /\ Array(own).cap > 0 /\ Array(own) = own.ring[Cur(own)]
      /\ Array(own) \in Ring
  BY <1>1, Ends
<1>3. /\ opc = "store" /\ own.bottom = ob /\ End = ob /\ ot <= top /\ pushed < MaxPush
      /\ ob - ot <= Array(own).cap - 1 /\ top <= ob
  BY DEF DequeInv, PushStore, OwnerFollows, OwnFrames, End
<1>4. /\ UNCHANGED <<top, mem, freedRings, ob, ot, thiefVars, taken>> /\ opc' = "idle"
      /\ pushed' = m
  BY DEF PushStore
<1>5. Index(Array(own), ob) = At(own, ob) /\ Len(own.ring) = Cur(own)
  BY <1>2 DEF Index, At, Cur
<1>6. /\ x \in View /\ x.bottom = ob /\ Cur(x) = Cur(own) /\ At(x, ob) = At(own, ob)
      /\ x.ring[Cur(x)].cap = Array(own).cap
      /\ At(own, ob) \in 0..Array(own).cap - 1
  <2>1. own \in View /\ ob \in Int /\ m \in Nat /\ "base" \in {"base", "n"}
    BY <1>1
  <2>2. /\ x \in View /\ x.bottom = own.bottom /\ Cur(x) = Cur(own) /\ At(x, ob) = At(own, ob)
        /\ x.ring[Cur(x)].cap = own.ring[Cur(own)].cap
        /\ At(own, ob) \in 0..own.ring[Cur(own)].cap - 1
    BY <2>1, StoredShape
  <2>3. QED
    BY <1>2, <1>3, <2>2
<1>7. /\ y \in View /\ y.bottom = ob /\ Cur(y) = Cur(own)
      /\ y.ring[Cur(y)].cap = Array(own).cap
  <2>1. x \in View /\ ob \in Int /\ m \in Nat /\ "n" \in {"base", "n"}
    BY <1>1, <1>6
  <2>2. /\ y \in View /\ y.bottom = x.bottom /\ Cur(y) = Cur(x)
        /\ y.ring[Cur(y)].cap = x.ring[Cur(x)].cap
    BY <2>1, StoredShape
  <2>3. QED
    BY <1>6, <2>2
<1>8. z \in View /\ z.bottom = ob + 1 /\ z.ring = y.ring /\ Cur(z) = Cur(own)
  <2>1. y \in View /\ ob + 1 \in Int
    BY <1>1, <1>7
  <2>2. z \in View /\ z.bottom = ob + 1 /\ z.ring = y.ring
    BY <2>1, BottomStored
  <2>3. QED
    BY <1>7, <2>2 DEF Cur
<1>9. /\ s1 = ToSlot("base", Cur(own), At(own, ob), m)
      /\ s2 = ToSlot("n", Cur(x), At(x, ob), m)
  BY <1>5, <1>6 DEF SlotStore
<1>10. x = Apply(own, s1) /\ y = Apply(x, s2) /\ z = Apply(y, s3)
  BY <1>9 DEF Stored
<1>11. own' = z /\ sb' = sb \o <<s1, s2, s3>>
  BY <1>10 DEF PushStore
<1>12. s1 \in StoreSet /\ s2 \in StoreSet /\ s3 \in StoreSet
  BY <1>1, <1>2, <1>6, <1>9 DEF ToSlot, ToBottom, StoreSet
<1>13. End' = ob + 1 /\ Array(own)' = z.ring[Cur(z)] /\ Cur(own)' = Cur(z)
  BY <1>4, <1>8, <1>11 DEF End, Array, Cur
<1>14. /\ f[ob] = m
       /\ \A k \in top..ob - 1 : f[k] = FrameAt[k] /\ Holds(own, Cur(own), k, f[k])
       /\ \A k \in top..ob : k \in top..ob - 1 \/ k = ob
  <2>1. \A k \in top..ob - 1 : k \in Int /\ k # ob
    BY <1>1
  <2>2. f[ob] = m /\ \A k \in top..ob - 1 : f[k] = FrameAt[k]
    BY <1>1, <2>1
  <2>3. \A k \in top..ob : k \in top..ob - 1 \/ k = ob
    BY <1>1
  <2>4. \A k \in top..ob - 1 : Holds(own, Cur(own), k, FrameAt[k])
    BY <1>3 DEF DequeInv, OwnFrames
  <2>5. QED
    BY <2>2, <2>3, <2>4
<1>15. /\ \A k \in top..ob : \A r \in 1..Cur(own) : Holds(own, r, k, f[k]) => Holds(x, r, k, f[k])
       /\ \A k \in top..ob : \A r \in 1..Cur(own) : Holds(x, r, k, f[k]) => Holds(y, r, k, f[k])
       /\ \A k \in top..ob : \A r \in 1..Cur(own) : Holds(y, r, k, f[k]) => Holds(z, r, k, f[k])
  <2>1. top \in Int /\ ob - top <= own.ring[Cur(own)].cap - 1 /\ ob - top <= x.ring[Cur(x)].cap - 1
    <3>1. top \in Int /\ ob - top <= Array(own).cap - 1
      BY <1>1, <1>2, <1>3, SMTT(30)
    <3>2. QED
      BY <1>2, <1>6, <3>1
  <2>2. \A k \in top..ob : \A r \in 1..Cur(own) : Holds(own, r, k, f[k]) => Holds(x, r, k, f[k])
    <3>1. own \in View /\ ob \in Int /\ m \in Nat /\ "base" \in {"base", "n"} /\ f[ob] = m
      BY <1>1, <1>14
    <3>2. QED
      BY <2>1, <3>1, StoredSpares
  <2>3. \A k \in top..ob : \A r \in 1..Cur(x) : Holds(x, r, k, f[k]) => Holds(y, r, k, f[k])
    <3>1. x \in View /\ ob \in Int /\ m \in Nat /\ "n" \in {"base", "n"} /\ f[ob] = m
      BY <1>1, <1>6, <1>14
    <3>2. QED
      BY <2>1, <3>1, StoredSpares
  <2>4. \A k : \A r : Holds(y, r, k, f[k]) => Holds(z, r, k, f[k])
    BY <1>8 DEF Holds
  <2>5. QED
    BY <1>6, <2>2, <2>3, <2>4
<1>16. Cur(own) \in 1..Cur(own)
  BY <1>2
<1>17. /\ \A k \in top..ob - 1 : /\ Holds(x, Cur(own), k, f[k])
                                 /\ Holds(y, Cur(own), k, f[k]) /\ Holds(z, Cur(own), k, f[k])
       /\ Holds(z, Cur(own), ob, f[ob])
  <2>1. \A k \in top..ob - 1 : k \in top..ob
    BY <1>1
  <2>2. Holds(y, Cur(y), ob, m)
    BY <1>1, SlotFilled
  <2>3. Holds(z, Cur(own), ob, f[ob])
    BY <1>7, <1>8, <1>14, <2>2 DEF Holds
  <2>4. QED
    BY <1>14, <1>15, <1>16, <2>1, <2>3
<1>18. \A k \in top..ob : FrameAt'[k] = f[k]
  <2>1. ASSUME NEW k \in top..ob PROVE FrameAt'[k] = z.ring[Cur(z)].base[k % z.ring[Cur(z)].cap]
    <3>1. k \in Int
      BY <1>1
    <3>2. QED
      BY <1>13, <3>1 DEF FrameAt
  <2>2. \A k \in top..ob : Holds(z, Cur(z), k, f[k])
    BY <1>8, <1>14, <1>17
  <2>3. ASSUME NEW k \in top..ob PROVE FrameAt'[k] = f[k]
    <3>1. Holds(z, Cur(z), k, f[k])
      BY <2>2
    <3>2. z.ring[Cur(z)].base[k % z.ring[Cur(z)].cap] = f[k]
      BY <3>1 DEF Holds
    <3>3. QED
      BY <2>1, <3>2
  <2>4. QED
    BY <2>3
<1>19. Leads(vs, sb, m) /\ Known(x, m) /\ Known(y, m) /\ Known(z, m)
  <2>1. Coherent(vs, N, top, End, FrameAt) /\ Leads(vs, sb, pushed) /\ vs[N] = own
    BY DEF History
  <2>2. \A p \in 1..N : vs[p] \in View /\ Known(vs[p], pushed)
    BY <2>1 DEF Coherent, Leads
  <2>3. \A p \in 1..N : Known(vs[p], m)
    BY <1>1, <2>2, KnownMore
  <2>4. Leads(vs, sb, m)
    BY <2>1, <2>3 DEF Leads
  <2>5. Known(own, m)
    BY <1>2, <2>1, <2>3
  <2>6. Known(x, m)
    BY <1>1, <2>5, StoredKnown
  <2>7. Known(y, m)
    BY <1>1, <1>6, <2>6, StoredKnown
  <2>8. Known(z, m)
    BY <1>8, <2>7 DEF Known, Cur
  <2>9. QED
    BY <2>4, <2>6, <2>7, <2>8
<1>20. Coherent(vs, N, top, ob + 1, f)
  <2>1. Coherent(vs, N, top, ob, FrameAt)
    BY <1>3 DEF History
  <2>2. \A p \in 1..N : vs[p] \in View /\ Known(vs[p], pushed)
    BY <2>1 DEF Coherent, History, Leads
  <2>3. \A p \in 1..N : \A r \in 1..Cur(vs[p]) : ~Holds(vs[p], r, ob, f[ob])
    BY <1>1, <1>14, <2>2, NotYetHeld
  <2>4. top \in Int /\ N \in Nat
    BY <1>1
  <2>5. QED
    BY <1>1, <1>14, <2>1, <2>3, <2>4, CoherentGrows
<1> PICK n0 : n0 = N
  OBVIOUS
<1> PICK n1 : n1 = n0 + 1
  OBVIOUS
<1> PICK n2 : n2 = n1 + 1
  OBVIOUS
<1> PICK n3 : n3 = n2 + 1
  OBVIOUS
<1> PICK hi : hi = ob + 1
  OBVIOUS
<1> PICK v1 : v1 = Longer(vs, n0, x)
  OBVIOUS
<1> PICK v2 : v2 = Longer(v1, n1, y)
  OBVIOUS
<1> PICK v3 : v3 = Longer(v2, n2, z)
  OBVIOUS
<1> PICK b1 : b1 = Append(sb, s1)
  OBVIOUS
<1> PICK b2 : b2 = Append(b1, s2)
  OBVIOUS
<1> PICK b3 : b3 = Append(b2, s3)
  OBVIOUS
<1>21. vs[1] = mem /\ vs[N] = own /\ vs[n0] = own /\ n0 \in Nat \ {0} /\ n0 = Len(sb) + 1
  BY <1>1, <1>2 DEF History
<1>22. Led(vs, n0, sb, m, mem, own)
  BY <1>1, <1>19, <1>21 DEF Led
<1>23. /\ Led(v1, n1, b1, m, mem, x)
       /\ Led(v2, n2, b2, m, mem, y)
       /\ Led(v3, n3, b3, m, mem, z)
  <2>1. Led(v1, n1, b1, m, mem, x)
    BY <1>10, <1>12, <1>19, <1>22, Lengthens
  <2>2. Led(v2, n2, b2, m, mem, y)
    BY <1>10, <1>12, <1>19, <2>1, Lengthens
  <2>3. Led(v3, n3, b3, m, mem, z)
    BY <1>10, <1>12, <1>19, <2>2, Lengthens
  <2>4. QED
    BY <2>1, <2>2, <2>3
<1>24. /\ n1 \in Nat \ {0} /\ n2 \in Nat \ {0} /\ n3 \in Nat
       /\ v1[n1] = x /\ v2[n2] = y
       /\ b3 \in Seq(StoreSet) /\ n3 = Len(b3) + 1 /\ v3[1] = mem /\ v3[n3] = z /\ Leads(v3, b3, m)
  BY <1>21, <1>23 DEF Led
<1>25. Coherent(v1, n1, top, hi, f)
  <2>1. top \in Int /\ x.bottom <= hi /\ Cur(vs[n0]) <= Cur(x) /\ hi - 1 = ob /\ hi \in Int
    BY <1>1, <1>2, <1>6, <1>21, SMTT(30)
  <2>2. ASSUME NEW k \in top..hi - 1
        PROVE  /\ \A r \in 1..Cur(vs[n0]) : Holds(vs[n0], r, k, f[k]) => Holds(x, r, k, f[k])
               /\ Holds(vs[n0], Cur(vs[n0]), k, f[k]) => Holds(x, Cur(x), k, f[k])
               /\ k < x.bottom => Holds(x, Cur(x), k, f[k])
    <3>1. k \in top..ob /\ (k < x.bottom => k \in top..ob - 1)
      BY <1>1, <1>6, <2>1, SMTT(30)
    <3>2. QED
      BY <1>6, <1>15, <1>16, <1>17, <1>21, <3>1
  <2>3. Coherent(vs, n0, top, hi, f)
    BY <1>20
  <2>4. QED
    BY <1>6, <1>21, <2>1, <2>2, <2>3, CoherentStores
<1>26. Coherent(v2, n2, top, hi, f)
  <2>1. /\ top \in Int /\ y.bottom <= hi /\ Cur(v1[n1]) <= Cur(y)
        /\ hi - 1 = ob /\ hi \in Int /\ n1 \in Nat \ {0}
    BY <1>1, <1>2, <1>6, <1>7, <1>24
  <2>2. ASSUME NEW k \in top..hi - 1
        PROVE  /\ \A r \in 1..Cur(v1[n1]) : Holds(v1[n1], r, k, f[k]) => Holds(y, r, k, f[k])
               /\ Holds(v1[n1], Cur(v1[n1]), k, f[k]) => Holds(y, Cur(y), k, f[k])
               /\ k < y.bottom => Holds(y, Cur(y), k, f[k])
    <3>1. k \in top..ob /\ (k < y.bottom => k \in top..ob - 1)
      BY <1>1, <1>7, <2>1
    <3>2. QED
      BY <1>6, <1>7, <1>15, <1>16, <1>17, <1>24, <3>1, SMTT(30)
  <2>3. QED
    BY <1>7, <1>25, <2>1, <2>2, CoherentStores
<1>27. Coherent(v3, n3, top, hi, f)
  <2>1. /\ top \in Int /\ z.bottom <= hi /\ Cur(v2[n2]) <= Cur(z)
        /\ hi - 1 = ob /\ hi \in Int /\ n2 \in Nat \ {0}
    BY <1>1, <1>2, <1>7, <1>8, <1>24
  <2>2. ASSUME NEW k \in top..hi - 1
        PROVE  /\ \A r \in 1..Cur(v2[n2]) : Holds(v2[n2], r, k, f[k]) => Holds(z, r, k, f[k])
               /\ Holds(v2[n2], Cur(v2[n2]), k, f[k]) => Holds(z, Cur(z), k, f[k])
               /\ k < z.bottom => Holds(z, Cur(z), k, f[k])
    <3>1. k \in top..ob
      BY <2>1
    <3>2. QED
      BY <1>7, <1>8, <1>14, <1>15, <1>16, <1>17, <1>24, <3>1
  <2>3. QED
    BY <1>8, <1>26, <2>1, <2>2, CoherentStores
<1>28. sb' = b3
  <2>1. sb \o <<s1, s2, s3>> = Append(Append(Append(sb, s1), s2), s3)
    BY <1>1, <1>12, SMTT(30)
  <2>2. QED
    BY <1>11, <2>1
<1>29. History(v3)'
  <2> PICK h : h = FrameAt'
    OBVIOUS
  <2>1. Coherent(v3, n3, top, hi, h)
    <3>1. \A k \in top..hi - 1 : h[k] = f[k]
      <4>1. hi - 1 = ob
        BY <1>1
      <4>2. QED
        BY <1>18, <4>1
    <3>2. top \in Int /\ hi \in Int /\ n3 \in Nat
      BY <1>1, <1>24
    <3>3. QED
      BY <1>27, <3>1, <3>2, CoherentSame
  <2>2. Len(sb') + 1 = n3
    BY <1>24, <1>28
  <2>3. End' = hi
    BY <1>13
  <2>4. Coherent(v3, Len(sb') + 1, top', End', FrameAt')
    BY <1>4, <2>1, <2>2, <2>3
  <2>5. v3[1] = mem' /\ v3[Len(sb') + 1] = own' /\ Leads(v3, sb', pushed')
    BY <1>4, <1>11, <1>24, <1>28, <2>2
  <2>6. QED
    BY <2>4, <2>5 DEF History
<1>30. DequeTypeOK'
  <2>1. m \in 0..MaxPush
    <3>1. pushed + 1 \in 0..MaxPush
      BY <1>1, <1>3, DequeAssumption
    <3>2. QED
      BY <3>1
  <2>2. QED
    BY <1>1, <1>4, <1>8, <1>11, <1>24, <1>28, <2>1 DEF DequeTypeOK, thiefVars
<1>31. OwnFrames'
  <2>1. top' <= End' /\ End' - top' <= Array(own)'.cap
    <3>1. z.ring[Cur(z)].cap = Array(own).cap
      BY <1>7, <1>8
    <3>2. Array(own)'.cap = Array(own).cap
      BY <1>13, <3>1
    <3>3. PICK c : c = Array(own).cap
      OBVIOUS
    <3>4. /\ c \in Int /\ ob - ot <= c - 1 /\ ot <= top /\ top <= ob
          /\ top \in Int /\ ob \in Int /\ ot \in Int
      BY <1>1, <1>2, <1>3, <3>3, SMTT(30)
    <3>5. top <= hi /\ hi - top <= c
      BY <3>4
    <3>6. End' = hi /\ top' = top /\ Array(own)'.cap = c
      BY <1>4, <1>13, <3>2, <3>3
    <3>7. QED
      BY <3>5, <3>6
  <2>2. End' - 1 = ob /\ top' = top
    BY <1>1, <1>4, <1>13
  <2>3. \A k \in top..ob - 1 : f[k] \in 1..pushed /\ taken[f[k]] = 0
    BY <1>3, <1>14 DEF DequeInv, OwnFrames
  <2>4. m \in Frames /\ m \in 1..m /\ taken[m] = 0 /\ \A g \in 1..pushed : g \in 1..m /\ g # m
    <3>1. m \in Frames /\ m > pushed
      BY <1>1, <1>3, DequeAssumption DEF Frames
    <3>2. taken[m] = 0
      BY <3>1 DEF DequeInv, OwnFrames
    <3>3. QED
      BY <1>1, <3>1, <3>2
  <2>5. \A k \in top..ob : /\ Holds(own', Cur(own)', k, f[k]) /\ f[k] \in 1..m /\ taken[f[k]] = 0
    BY <1>8, <1>11, <1>13, <1>14, <1>17, <2>3, <2>4
  <2>6. \A k, l \in top..ob : f[k] = f[l] => k = l
    <3>1. ASSUME NEW k \in top..ob - 1, NEW l \in top..ob - 1, f[k] = f[l] PROVE k = l
      <4>1. FrameAt[k] = FrameAt[l] /\ k \in top..End - 1 /\ l \in top..End - 1
        BY <1>3, <1>14, <3>1
      <4>2. QED
        BY <4>1 DEF DequeInv, OwnFrames
    <3>2. \A k \in top..ob - 1 : f[k] # f[ob]
      BY <1>14, <2>3, <2>4
    <3>3. ASSUME NEW k \in top..ob, NEW l \in top..ob, f[k] = f[l] PROVE k = l
      <4>1. (k \in top..ob - 1 \/ k = ob) /\ (l \in top..ob - 1 \/ l = ob)
        BY <1>14
      <4>2. QED
        BY <3>1, <3>2, <3>3, <4>1
    <3>4. QED
      BY <3>3
  <2>7. \A g \in 1..m : taken[g] = 0 => \E k \in top..ob : f[k] = g
    <3>1. ASSUME NEW g \in 1..m, taken[g] = 0 PROVE \E k \in top..ob : f[k] = g
      <4>1. CASE g = m
        BY <1>1, <1>3, <1>14, <4>1
      <4>2. CASE g # m
        <5>1. g \in 1..pushed
          BY <1>1, <4>2
        <5>2. PICK k \in top..ob - 1 : FrameAt[k] = g
          BY <1>3, <3>1, <5>1 DEF DequeInv, OwnFrames
        <5>3. k \in top..ob /\ f[k] = g
          BY <1>1, <1>14, <5>2
        <5>4. QED
          BY <5>3
      <4>3. QED
        BY <4>1, <4>2
    <3>2. QED
      BY <3>1
  <2>8. \A g \in Frames : taken[g] \in {0, 1} /\ (g > m => taken[g] = 0)
    <3>1. \A g \in Frames : g > m => g > pushed
      BY <1>1, DequeAssumption DEF Frames
    <3>2. QED
      BY <3>1 DEF DequeInv, OwnFrames
  <2>9. \A k \in top..ob : FrameAt'[k] = f[k]
    BY <1>18
  <2>10. taken' = taken /\ pushed' = m
    BY <1>4
  <2>11. \A k \in top'..End' - 1 : /\ Holds(own', Cur(own)', k, FrameAt'[k]) /\ FrameAt'[k] \in 1..pushed'
                                   /\ taken'[FrameAt'[k]] = 0
    BY <2>2, <2>5, <2>9, <2>10
  <2>12. \A k, l \in top'..End' - 1 : FrameAt'[k] = FrameAt'[l] => k = l
    BY <2>2, <2>6, <2>9
  <2>13. \A g \in 1..pushed' : taken'[g] = 0 => \E k \in top'..End' - 1 : FrameAt'[k] = g
    <3>1. ASSUME NEW g \in 1..m, taken[g] = 0 PROVE \E k \in top..ob : FrameAt'[k] = g
      <4>1. PICK k \in top..ob : f[k] = g
        BY <2>7, <3>1
      <4>2. QED
        BY <2>9, <4>1
    <3>2. QED
      BY <2>2, <2>10, <3>1
  <2>14. QED
    BY <2>1, <2>8, <2>10, <2>11, <2>12, <2>13 DEF OwnFrames
<1>32. OwnerFollows'
  BY <1>4 DEF OwnerFollows
<1>33. ThievesFollow' /\ NoTornFrame'
  <2>1. top' \in Nat /\ top' >= top /\ top' = top
    BY <1>1, <1>4
  <2>2. top < End => top < End' /\ FrameAt'[top] = FrameAt[top]
    <3>1. top < End => top \in top..ob - 1 /\ top \in top..ob /\ top < ob + 1
      BY <1>1, <1>3
    <3>2. QED
      BY <1>13, <1>14, <1>18, <3>1
  <2>3. QED
    BY <1>1, <1>4, <2>1, <2>2, QuietThieves DEF DequeInv
<1>34. QED
  BY <1>29, <1>30, <1>31, <1>32, <1>33 DEF DequeInv

-----------------------------------------------------------------------------
(***************************************************************************)
(* The thieves: a step of h changes h's place and locals, and a steal that *)
(* wins takes the frame at top.                                            *)
(***************************************************************************)

\* What NoTornFrame says of one thief.
Whole(h) == tpc[h] = "won" => tout[h].base = tout[h].n /\ tout[h].base # NoWord

Deque == <<top, own, mem, sb, freedRings, ownerVars, pushed, taken>>

\* The others are where they were.
LEMMA ThiefKeeps ==
  ASSUME DequeInv, NEW h \in Thieves, UNCHANGED Deque, DequeTypeOK',
         \A g \in Thieves \ {h} : /\ tpc'[g] = tpc[g] /\ tt'[g] = tt[g]
                                /\ ta'[g] = ta[g] /\ tout'[g] = tout[g],
         Follows(h)', Whole(h)'
  PROVE  DequeInv'
<1>1. UNCHANGED <<top, own, mem, sb, freedRings, opc, ob, ot, pushed, taken>>
  BY DEF Deque, ownerVars
<1>2. End' = End /\ FrameAt' = FrameAt /\ Cur(mem)' = Cur(mem)
  BY <1>1 DEF End, FrameAt, Array, Cur
<1>3. \E vs : History(vs)'
  <2>1. PICK vs : History(vs)
    BY DEF DequeInv
  <2>2. History(vs)'
    BY <1>1, <1>2, <2>1, QuietHistory
  <2>3. QED
    BY <2>2
<1>4. OwnFrames'
  BY <1>1, <1>2, QuietFrames DEF DequeInv
<1>5. OwnerFollows'
  BY <1>1 DEF DequeInv, OwnerFollows, Array
<1>6. ASSUME NEW g \in Thieves PROVE Follows(g)' /\ Whole(g)'
  <2>1. CASE g = h
    BY <2>1
  <2>2. CASE g # h
    <3>1. Follows(g) /\ Whole(g)
      BY DEF DequeInv, ThievesFollow, NoTornFrame, Follows, Whole
    <3>2. tpc'[g] = tpc[g] /\ tt'[g] = tt[g] /\ ta'[g] = ta[g] /\ tout'[g] = tout[g]
      BY <2>2
    <3>3. Whole(g)'
      BY <3>1, <3>2 DEF Whole
    <3>4. Committed(g)' => Committed(g)
      BY <1>1, <3>2 DEF Committed
    <3>5. Sees(g) => Sees(g)'
      BY <1>1, <1>2, <3>2 DEF Sees
    <3>6. QED
      BY <1>1, <1>2, <3>1, <3>2, <3>3, <3>4, <3>5 DEF Follows
  <2>3. QED
    BY <2>1, <2>2
<1>7. ThievesFollow' /\ NoTornFrame'
  <2>1. ThievesFollow'
    BY <1>6 DEF ThievesFollow
  <2>2. NoTornFrame'
    BY <1>6 DEF NoTornFrame, Whole
  <2>3. QED
    BY <2>1, <2>2
<1>8. QED
  BY <1>3, <1>4, <1>5, <1>7 DEF DequeInv

\* While a thief reads, the deque's rings and views are what they are.
LEMMA ThiefFacts ==
  ASSUME DequeInv, NEW h \in Thieves
  PROVE  /\ DequeTypeOK /\ Follows(h) /\ Whole(h) /\ top \in Nat /\ tt[h] \in Nat /\ ta[h] \in Nat
         /\ tout[h] \in [base : Nat, n : Nat]
         /\ mem \in View /\ Cur(mem) \in 1..Cur(mem) /\ End \in Int
<1>1. DequeTypeOK /\ Follows(h) /\ Whole(h)
  BY DEF DequeInv, ThievesFollow, NoTornFrame, Whole
<1>2. /\ top \in Nat /\ tt[h] \in Nat /\ ta[h] \in Nat /\ tout[h] \in [base : Nat, n : Nat]
      /\ mem \in View
  BY <1>1 DEF DequeTypeOK
<1>3. Cur(mem) \in 1..Cur(mem) /\ End \in Int
  BY <1>1, <1>2, Ends, ViewFields
<1>4. QED
  BY <1>1, <1>2, <1>3

LEMMA StealTopKeeps == ASSUME DequeInv, NEW h \in Thieves, StealTop(h) PROVE DequeInv'
<1>1. DequeTypeOK /\ top \in Nat
  BY ThiefFacts
<1>2. /\ UNCHANGED Deque /\ UNCHANGED <<ta, tout>>
      /\ tt' = [tt EXCEPT ![h] = top] /\ tpc' = [tpc EXCEPT ![h] = "bottom"]
  BY DEF StealTop, Deque
<1>3. tpc'[h] = "bottom" /\ tt'[h] = top /\ top' = top
  BY <1>1, <1>2 DEF DequeTypeOK, Deque
<1>4. DequeTypeOK'
  BY <1>1, <1>2 DEF DequeTypeOK, Deque, ownerVars
<1>5. \A g \in Thieves \ {h} : /\ tpc'[g] = tpc[g] /\ tt'[g] = tt[g]
                              /\ ta'[g] = ta[g] /\ tout'[g] = tout[g]
  BY <1>1, <1>2 DEF DequeTypeOK
<1>6. Follows(h)' /\ Whole(h)'
  BY <1>1, <1>3 DEF Follows, Whole, Committed
<1>7. QED
  BY <1>2, <1>4, <1>5, <1>6, ThiefKeeps

\* It reads bottom: if top is below what memory shows, the frame is there.
LEMMA StealBottomKeeps == ASSUME DequeInv, NEW h \in Thieves, StealBottom(h) PROVE DequeInv'
<1>1. /\ DequeTypeOK /\ Follows(h) /\ top \in Nat /\ tt[h] \in Nat /\ mem \in View
      /\ End \in Int
  BY ThiefFacts
<1>2. /\ UNCHANGED Deque /\ UNCHANGED <<tt, ta, tout>>
      /\ tpc' = [tpc EXCEPT ![h] = IF tt[h] < mem.bottom THEN "array" ELSE "idle"]
  BY DEF StealBottom, Deque
<1>3. tpc'[h] = (IF tt[h] < mem.bottom THEN "array" ELSE "idle") /\ tt' = tt /\ top' = top
  BY <1>1, <1>2 DEF DequeTypeOK, Deque
<1>4. DequeTypeOK'
  <2>1. tpc' \in [Thieves -> {"idle", "bottom", "array", "base", "n", "cas", "won"}]
    BY <1>1, <1>2 DEF DequeTypeOK
  <2>2. QED
    BY <1>1, <1>2, <2>1 DEF DequeTypeOK, Deque, ownerVars
<1>5. \A g \in Thieves \ {h} : /\ tpc'[g] = tpc[g] /\ tt'[g] = tt[g]
                              /\ ta'[g] = ta[g] /\ tout'[g] = tout[g]
  BY <1>1, <1>2 DEF DequeTypeOK
<1>6. tt[h] = top /\ tt[h] < mem.bottom => top < End /\ Holds(mem, Cur(mem), top, FrameAt[top])
  <2>1. PICK vs : History(vs)
    BY DEF DequeInv
  <2>2. vs[1] = mem /\ 1 \in 1..Len(sb) + 1
    BY <1>1, <2>1 DEF History, DequeTypeOK
  <2>3. /\ mem.bottom <= End
        /\ \A k \in top..End - 1 : k < mem.bottom => Holds(mem, Cur(mem), k, FrameAt[k])
    BY <2>1, <2>2 DEF History, Coherent, Shows
  <2>4. mem.bottom \in Int
    BY <1>1, ViewFields
  <2>5. top < mem.bottom => top \in top..End - 1 /\ top < End
    BY <1>1, <2>3, <2>4
  <2>6. QED
    BY <2>3, <2>5
<1>7. End' = End /\ FrameAt' = FrameAt /\ mem' = mem
  BY <1>2 DEF End, FrameAt, Array, Deque, ownerVars
<1>8. Committed(h)' => Sees(h)'
  BY <1>3, <1>6, <1>7 DEF Committed, Sees
<1>9. Follows(h)' /\ Whole(h)'
  BY <1>1, <1>3, <1>8 DEF Follows, Whole
<1>10. QED
  BY <1>2, <1>4, <1>5, <1>9, ThiefKeeps

\* It reads the pointer of the ring that holds the frame.
LEMMA StealArrayKeeps == ASSUME DequeInv, NEW h \in Thieves, StealArray(h) PROVE DequeInv'
<1>1. /\ DequeTypeOK /\ Follows(h) /\ top \in Nat /\ tt[h] \in Nat /\ mem \in View
      /\ Cur(mem) \in 1..Cur(mem) /\ Cur(mem) \in Nat
  BY ThiefFacts, ViewFields
<1>2. /\ UNCHANGED Deque /\ UNCHANGED <<tt, tout>> /\ tpc[h] = "array"
      /\ ta' = [ta EXCEPT ![h] = Cur(mem)] /\ tpc' = [tpc EXCEPT ![h] = "base"]
  BY DEF StealArray, Deque, Cur
<1>3. tpc'[h] = "base" /\ ta'[h] = Cur(mem) /\ tt' = tt /\ top' = top
  BY <1>1, <1>2 DEF DequeTypeOK, Deque
<1>4. DequeTypeOK'
  BY <1>1, <1>2 DEF DequeTypeOK, Deque, ownerVars
<1>5. \A g \in Thieves \ {h} : /\ tpc'[g] = tpc[g] /\ tt'[g] = tt[g]
                              /\ ta'[g] = ta[g] /\ tout'[g] = tout[g]
  BY <1>1, <1>2 DEF DequeTypeOK
<1>6. End' = End /\ FrameAt' = FrameAt /\ mem' = mem
  BY <1>2 DEF End, FrameAt, Array, Deque, ownerVars
<1>7. Committed(h)' => Sees(h)'
  <2>1. Committed(h)' => Sees(h)
    BY <1>1, <1>2, <1>3 DEF Committed, Follows
  <2>2. QED
    BY <1>2, <1>3, <1>6, <2>1 DEF Sees
<1>8. ta'[h] \in 1..Cur(mem)'
  BY <1>1, <1>3, <1>6 DEF Cur
<1>9. Follows(h)' /\ Whole(h)'
  BY <1>1, <1>3, <1>7, <1>8 DEF Follows, Whole
<1>10. QED
  BY <1>2, <1>4, <1>5, <1>9, ThiefKeeps

\* A word of a ring is a number.
LEMMA WordIs ==
  ASSUME NEW v \in View, NEW r \in 1..Cur(v), NEW i \in Int
  PROVE  Frame(v.ring[r], i).base \in Nat /\ Frame(v.ring[r], i).n \in Nat
<1> DEFINE ring == v.ring[r]
<1>1. /\ ring.cap \in Nat /\ ring.cap > 0 /\ ring.base \in [0..ring.cap - 1 -> Nat]
      /\ ring.n \in [0..ring.cap - 1 -> Nat]
  BY ViewFields, RingFields DEF Words
<1>2. i % ring.cap \in 0..ring.cap - 1
  BY <1>1, ModRange
<1> HIDE DEF ring
<1>3. ring.base[i % ring.cap] \in Nat /\ ring.n[i % ring.cap] \in Nat
  BY <1>1, <1>2
<1>4. QED
  BY <1>3 DEF Frame, Index, ring

\* It reads one field of the frame, then the other.
LEMMA StealBaseKeeps == ASSUME DequeInv, NEW h \in Thieves, StealBase(h) PROVE DequeInv'
<1> PICK word : word = Frame(mem.ring[ta[h]], tt[h]).base
  OBVIOUS
<1>1. /\ DequeTypeOK /\ Follows(h) /\ top \in Nat /\ tt[h] \in Nat /\ mem \in View
      /\ ta[h] \in Nat /\ tout[h] \in [base : Nat, n : Nat]
  BY ThiefFacts
<1>2. /\ UNCHANGED Deque /\ UNCHANGED <<tt, ta>> /\ tpc[h] = "base"
      /\ tout' = [tout EXCEPT ![h].base = word] /\ tpc' = [tpc EXCEPT ![h] = "n"]
  BY DEF StealBase, Deque
<1>3. ta[h] \in 1..Cur(mem)
  BY <1>1, <1>2 DEF Follows
<1>4. word \in Nat
  <2>1. tt[h] \in Int
    BY <1>1
  <2>2. QED
    BY <1>1, <1>3, <2>1, WordIs
<1>5. /\ tpc'[h] = "n" /\ tt' = tt /\ ta' = ta /\ top' = top
      /\ tout'[h].base = word /\ tout'[h].n = tout[h].n /\ tout'[h] \in [base : Nat, n : Nat]
  BY <1>1, <1>2, <1>4 DEF DequeTypeOK, Deque
<1>6. \A g \in Thieves \ {h} : /\ tpc'[g] = tpc[g] /\ tt'[g] = tt[g]
                              /\ ta'[g] = ta[g] /\ tout'[g] = tout[g]
  BY <1>1, <1>2 DEF DequeTypeOK
<1>7. DequeTypeOK'
  <2>1. tout' \in [Thieves -> [base : Nat, n : Nat]]
    BY <1>1, <1>2, <1>5, <1>6 DEF DequeTypeOK
  <2>2. QED
    BY <1>1, <1>2, <2>1 DEF DequeTypeOK, Deque, ownerVars
<1>8. End' = End /\ FrameAt' = FrameAt /\ mem' = mem /\ Cur(mem)' = Cur(mem)
  BY <1>2 DEF End, FrameAt, Array, Deque, ownerVars, Cur
<1>9. Committed(h)' => Sees(h)'
  <2>1. Committed(h)' => Sees(h) /\ tt[h] = top
    BY <1>1, <1>2, <1>5 DEF Committed, Follows
  <2>2. Sees(h) /\ tt[h] = top => word = FrameAt[top]
    BY <1>2 DEF Sees, Holds, Frame, Index
  <2>3. QED
    BY <1>2, <1>5, <1>8, <2>1, <2>2 DEF Sees
<1>10. Follows(h)' /\ Whole(h)'
  BY <1>1, <1>3, <1>5, <1>8, <1>9 DEF Follows, Whole
<1>11. QED
  BY <1>2, <1>6, <1>7, <1>10, ThiefKeeps

LEMMA StealNKeeps == ASSUME DequeInv, NEW h \in Thieves, StealN(h) PROVE DequeInv'
<1> PICK word : word = Frame(mem.ring[ta[h]], tt[h]).n
  OBVIOUS
<1>1. /\ DequeTypeOK /\ Follows(h) /\ top \in Nat /\ tt[h] \in Nat /\ mem \in View
      /\ ta[h] \in Nat /\ tout[h] \in [base : Nat, n : Nat]
  BY ThiefFacts
<1>2. /\ UNCHANGED Deque /\ UNCHANGED <<tt, ta>> /\ tpc[h] = "n"
      /\ tout' = [tout EXCEPT ![h].n = word] /\ tpc' = [tpc EXCEPT ![h] = "cas"]
  BY DEF StealN, Deque
<1>3. ta[h] \in 1..Cur(mem)
  BY <1>1, <1>2 DEF Follows
<1>4. word \in Nat
  <2>1. tt[h] \in Int
    BY <1>1
  <2>2. QED
    BY <1>1, <1>3, <2>1, WordIs
<1>5. /\ tpc'[h] = "cas" /\ tt' = tt /\ ta' = ta /\ top' = top
      /\ tout'[h].n = word /\ tout'[h].base = tout[h].base /\ tout'[h] \in [base : Nat, n : Nat]
  BY <1>1, <1>2, <1>4 DEF DequeTypeOK, Deque
<1>6. \A g \in Thieves \ {h} : /\ tpc'[g] = tpc[g] /\ tt'[g] = tt[g]
                              /\ ta'[g] = ta[g] /\ tout'[g] = tout[g]
  BY <1>1, <1>2 DEF DequeTypeOK
<1>7. DequeTypeOK'
  <2>1. tout' \in [Thieves -> [base : Nat, n : Nat]]
    BY <1>1, <1>2, <1>5, <1>6 DEF DequeTypeOK
  <2>2. QED
    BY <1>1, <1>2, <2>1 DEF DequeTypeOK, Deque, ownerVars
<1>8. End' = End /\ FrameAt' = FrameAt /\ mem' = mem /\ Cur(mem)' = Cur(mem)
  BY <1>2 DEF End, FrameAt, Array, Deque, ownerVars, Cur
<1>9. Committed(h)' => Sees(h)'
  <2>1. Committed(h)' => Sees(h) /\ tt[h] = top
    BY <1>1, <1>2, <1>5 DEF Committed, Follows
  <2>2. Sees(h) /\ tt[h] = top => word = FrameAt[top]
    BY <1>2 DEF Sees, Holds, Frame, Index
  <2>3. QED
    BY <1>2, <1>5, <1>8, <2>1, <2>2 DEF Sees
<1>10. Follows(h)' /\ Whole(h)'
  BY <1>1, <1>3, <1>5, <1>8, <1>9 DEF Follows, Whole
<1>11. QED
  BY <1>2, <1>6, <1>7, <1>10, ThiefKeeps

LEMMA StealLosesKeeps == ASSUME DequeInv, NEW h \in Thieves, StealLoses(h) PROVE DequeInv'
<1>1. DequeTypeOK /\ Follows(h)
  BY ThiefFacts
<1>2. /\ UNCHANGED Deque /\ UNCHANGED <<tt, ta, tout>> /\ tpc' = [tpc EXCEPT ![h] = "idle"]
  BY DEF StealLoses, Deque
<1>3. tpc'[h] = "idle" /\ tt' = tt /\ top' = top
  BY <1>1, <1>2 DEF DequeTypeOK, Deque
<1>4. DequeTypeOK'
  BY <1>1, <1>2 DEF DequeTypeOK, Deque, ownerVars
<1>5. \A g \in Thieves \ {h} : /\ tpc'[g] = tpc[g] /\ tt'[g] = tt[g]
                              /\ ta'[g] = ta[g] /\ tout'[g] = tout[g]
  BY <1>1, <1>2 DEF DequeTypeOK
<1>6. Follows(h)' /\ Whole(h)'
  BY <1>1, <1>3 DEF Follows, Whole, Committed
<1>7. QED
  BY <1>2, <1>4, <1>5, <1>6, ThiefKeeps

LEMMA StealReturnsKeeps == ASSUME DequeInv, NEW h \in Thieves, StealReturns(h) PROVE DequeInv'
<1>1. DequeTypeOK /\ Follows(h)
  BY ThiefFacts
<1>2. /\ UNCHANGED Deque /\ UNCHANGED <<tt, ta, tout>> /\ tpc' = [tpc EXCEPT ![h] = "idle"]
  BY DEF StealReturns, Deque
<1>3. tpc'[h] = "idle" /\ tt' = tt /\ top' = top
  BY <1>1, <1>2 DEF DequeTypeOK, Deque
<1>4. DequeTypeOK'
  BY <1>1, <1>2 DEF DequeTypeOK, Deque, ownerVars
<1>5. \A g \in Thieves \ {h} : /\ tpc'[g] = tpc[g] /\ tt'[g] = tt[g]
                              /\ ta'[g] = ta[g] /\ tout'[g] = tout[g]
  BY <1>1, <1>2 DEF DequeTypeOK
<1>6. Follows(h)' /\ Whole(h)'
  BY <1>1, <1>3 DEF Follows, Whole, Committed
<1>7. QED
  BY <1>2, <1>4, <1>5, <1>6, ThiefKeeps

\* Its exchange succeeds: it has the frame at top, whole, and nobody else does.
LEMMA StealWinsKeeps == ASSUME DequeInv, NEW h \in Thieves, StealWins(h) PROVE DequeInv'
<1>1. /\ DequeTypeOK /\ Follows(h) /\ top \in Nat /\ tt[h] \in Nat /\ End \in Int
      /\ tout[h] \in [base : Nat, n : Nat]
  BY ThiefFacts
<1>2. /\ tpc[h] = "cas" /\ top = tt[h] /\ top' = top + 1 /\ tpc' = [tpc EXCEPT ![h] = "won"]
      /\ UNCHANGED <<own, mem, sb, freedRings, opc, ob, ot, tt, ta, tout, pushed>>
      /\ taken' = [f \in Frames |-> taken[f] + (IF tout[h].base = f THEN 1 ELSE 0)]
  BY DEF StealWins, ownerVars, Hand
<1>3. top < End /\ tout[h].base = FrameAt[top] /\ tout[h].n = FrameAt[top]
  <2>1. Sees(h)
    BY <1>1, <1>2 DEF Follows, Committed
  <2>2. QED
    BY <1>2, <2>1 DEF Sees
<1>4. top \in top..End - 1 /\ top' \in Nat /\ top <= top' /\ top' \in Int
  BY <1>1, <1>2, <1>3
<1>5. End' = End /\ FrameAt' = FrameAt /\ Array(own)' = Array(own) /\ Cur(mem)' = Cur(mem)
  BY <1>2 DEF End, FrameAt, Array, Cur
<1>6. OwnFrames'
  <2>1. taken' = [f \in Frames |-> taken[f] + (IF FrameAt[top] = f THEN 1 ELSE 0)]
    BY <1>2, <1>3
  <2>2. OwnFrames /\ own'.ring = own.ring /\ pushed' = pushed
    BY <1>2 DEF DequeInv
  <2>3. QED
    BY <1>1, <1>2, <1>4, <1>5, <2>1, <2>2, FrameLeaves
<1>7. FrameAt[top] \in 1..pushed
  BY <1>4 DEF DequeInv, OwnFrames
<1>8. \E vs : History(vs)'
  <2>1. PICK vs : History(vs)
    BY DEF DequeInv
  <2>2. PICK N : N = Len(sb) + 1
    OBVIOUS
  <2>3. N \in Nat
    BY <1>1, <2>2 DEF DequeTypeOK
  <2>4. Coherent(vs, N, top, End, FrameAt)
    BY <2>1, <2>2 DEF History
  <2>5. (\A p \in 1..N : vs[p].bottom <= End) /\ End <= End /\ top \in Int
    BY <1>1, <2>4 DEF Coherent, Shows
  <2>6. Coherent(vs, N, top', End, FrameAt)
    BY <1>1, <1>4, <2>3, <2>4, <2>5, CoherentShrinks
  <2>7. History(vs)'
    BY <1>2, <1>5, <2>1, <2>2, <2>6 DEF History
  <2>8. QED
    BY <2>7
<1>9. OwnerFollows'
  <2>1. ob \in Int /\ ot \in Int
    BY <1>1 DEF DequeTypeOK
  <2>2. QED
    BY <1>1, <1>2, <1>5, <2>1 DEF DequeInv, OwnerFollows
<1>10. ASSUME NEW g \in Thieves PROVE Follows(g)' /\ Whole(g)'
  <2>1. tt[g] \in Nat /\ tt[g] <= top /\ tt'[g] = tt[g] /\ Follows(g) /\ Whole(g)
    BY <1>2, ThiefFacts DEF Follows
  <2>2. tt'[g] <= top' /\ tt'[g] # top'
    BY <1>1, <1>2, <2>1
  <2>3. tpc'[g] = IF g = h THEN "won" ELSE tpc[g]
    BY <1>1, <1>2 DEF DequeTypeOK
  <2>4. Follows(g)'
    BY <1>2, <1>5, <2>1, <2>2, <2>3 DEF Follows, Committed
  <2>5. Whole(g)'
    BY <1>1, <1>2, <1>3, <1>7, <2>1, <2>3 DEF Whole, NoWord
  <2>6. QED
    BY <2>4, <2>5
<1>11. ThievesFollow' /\ NoTornFrame'
  <2>1. ThievesFollow'
    BY <1>10 DEF ThievesFollow
  <2>2. NoTornFrame'
    BY <1>10 DEF NoTornFrame, Whole
  <2>3. QED
    BY <2>1, <2>2
<1>12. DequeTypeOK'
  <2>1. tpc' \in [Thieves -> {"idle", "bottom", "array", "base", "n", "cas", "won"}]
    BY <1>1, <1>2 DEF DequeTypeOK
  <2>2. taken' \in [Frames -> Nat]
    BY <1>1, <1>2 DEF DequeTypeOK
  <2>3. QED
    BY <1>1, <1>2, <1>4, <2>1, <2>2 DEF DequeTypeOK
<1>13. QED
  BY <1>6, <1>8, <1>9, <1>11, <1>12 DEF DequeInv

-----------------------------------------------------------------------------
LEMMA DequeInvNext == DequeInv /\ [DequeNext]_dequeVars => DequeInv'
<1> SUFFICES ASSUME DequeInv, [DequeNext]_dequeVars PROVE DequeInv'
  OBVIOUS
<1>1. CASE Drain
  BY <1>1, DrainKeeps
<1>2. CASE OwnerStep
  BY <1>2, PushBeginKeeps, PushGrowKeeps, PushFailsKeeps, PushFitsKeeps, PushStoreKeeps,
     TakeStoreKeeps, TakeFenceKeeps, TakeEmptyKeeps, TakeManyKeeps, TakeLastKeeps, TakeCasKeeps
  DEF OwnerStep
<1>3. ASSUME NEW h \in Thieves, ThiefStep(h) PROVE DequeInv'
  BY <1>3, StealTopKeeps, StealBottomKeeps, StealArrayKeeps, StealBaseKeeps, StealNKeeps,
     StealWinsKeeps, StealLosesKeeps, StealReturnsKeeps DEF ThiefStep
<1>4. CASE UNCHANGED dequeVars
  <2>1. UNCHANGED <<top, own, mem, sb, freedRings, opc, ob, ot, tpc, tt, ta, tout, pushed, taken>>
    BY <1>4 DEF dequeVars, ownerVars, thiefVars
  <2>2. End' = End /\ FrameAt' = FrameAt
    BY <2>1 DEF End, FrameAt, Array
  <2>3. PICK vs : History(vs)
    BY DEF DequeInv
  <2>4. History(vs)'
    BY <2>1, <2>2, <2>3, QuietHistory
  <2>5. OwnFrames'
    BY <2>1, <2>2, QuietFrames DEF DequeInv
  <2>6. OwnerFollows'
    BY <2>1 DEF DequeInv, OwnerFollows, Array
  <2>7. ThievesFollow' /\ NoTornFrame'
    BY <2>1, <2>2 DEF DequeInv, ThievesFollow, NoTornFrame, Committed, Sees, Holds, Cur, Follows
  <2>8. DequeTypeOK'
    BY <2>1 DEF DequeInv, DequeTypeOK
  <2>9. QED
    BY <2>4, <2>5, <2>6, <2>7, <2>8 DEF DequeInv
<1>5. QED
  BY <1>1, <1>2, <1>3, <1>4 DEF DequeNext

LEMMA DequeInvAlways == DequeSpec => []DequeInv
<1>1. DequeInit => DequeInv
  BY DequeInvInit
<1>2. DequeInv /\ [DequeNext]_dequeVars => DequeInv'
  BY DequeInvNext
<1>3. QED
  BY <1>1, <1>2, PTL DEF DequeSpec

(***************************************************************************)
(* Type correctness of the deque: the stores on their way to memory, the   *)
(* rings that owner and thieves read, and where each of them is in its     *)
(* call of push, take or steal (wsdeque.c).                                *)
(***************************************************************************)
THEOREM DequeTypeCorrect == DequeSpec => []DequeTypeOK
<1>1. DequeInv => DequeTypeOK
  BY DEF DequeInv
<1>2. QED
  BY <1>1, DequeInvAlways, PTL

LEMMA NothingIsLost == DequeInv => NoFrameLost
<1> SUFFICES ASSUME DequeInv, opc = "idle", sb = <<>>
             PROVE  {Frame(Array(mem), k).base : k \in top..mem.bottom - 1}
                      = {f \in 1..pushed : taken[f] = 0}
  BY DEF NoFrameLost
<1>1. mem = own /\ End = mem.bottom
  BY DEF DequeInv, History, End
<1>2. top \in Nat /\ End \in Int
  BY Ends DEF DequeInv, DequeTypeOK
<1>3. \A k \in top..End - 1 : Frame(Array(mem), k).base = FrameAt[k]
  BY <1>1, <1>2 DEF Frame, Index, FrameAt
<1>4. /\ \A k \in top..End - 1 : FrameAt[k] \in 1..pushed /\ taken[FrameAt[k]] = 0
      /\ \A f \in 1..pushed : taken[f] = 0 => \E k \in top..End - 1 : FrameAt[k] = f
  BY DEF DequeInv, OwnFrames
<1>5. QED
  BY <1>1, <1>3, <1>4

(***************************************************************************)
(* Every frame that push put in the deque is handed out at most once, as it *)
(* was pushed, whatever owner and thieves do and however late a store      *)
(* reaches memory; none is lost; and no thief reads a ring that was freed: *)
(* sub_wsdeque_push, _take and _steal of wsdeque.c, with any number of     *)
(* thieves, any first capacity and any number of frames.                   *)
(***************************************************************************)
THEOREM FramesKept == DequeSpec => []FramesAreKept
<1>1. DequeInv => NoFrameTwice
  BY DEF DequeInv, OwnFrames, NoFrameTwice
<1>2. DequeInv => NoFrameLost
  BY NothingIsLost
<1>3. DequeInv => NoTornFrame
  BY DEF DequeInv
<1>4. DequeInv => NoArrayAfterFree
  BY DEF DequeInv, DequeTypeOK, NoArrayAfterFree
<1>5. QED
  BY <1>1, <1>2, <1>3, <1>4, DequeInvAlways, PTL DEF FramesAreKept
=============================================================================
