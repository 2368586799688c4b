------------------------------ MODULE WsDeque ------------------------------
(***************************************************************************)
(* The Chase-Lev work-stealing deque (sublimation/src/parallel/wsdeque.c). *)
(* Its owner pushes and takes at the bottom, thieves steal at the top.     *)
(*                                                                         *)
(* Memory is x86-TSO, the target of the build: the owner's stores sit in a *)
(* FIFO buffer, and thieves see them when they drain; a seq_cst fence and a *)
(* compare-exchange wait for the buffer to be empty.  Thieves store with a *)
(* compare-exchange only, so they have no buffer.  Only the owner stores   *)
(* to bottom, array and the slots, so what it reads of those is its own    *)
(* latest store (own); what the others read is memory (mem).               *)
(***************************************************************************)
EXTENDS Integers, Sequences

CONSTANTS Thieves,
          InitCap,   \* the first ring's capacity (64 or more in the code)
          MaxPush    \* bound: frames pushed

ASSUME DequeAssumption ==
  /\ InitCap \in Nat \ {0}
  /\ MaxPush \in Nat

VARIABLES top,      \* q->top; stored by compare-exchange only
          own,      \* bottom and the rings as the owner sees them
          mem,      \* ... and as everyone else sees them
          sb,       \* the owner's store buffer
          freedRings,    \* rings that were freed
          opc, ob, ot,   \* the owner: where it is, its locals b and t
          tpc, tt, ta, tout,  \* each thief: where it is, its locals t, a, *out
          pushed,   \* frames pushed so far, numbered 1, 2, ...
          taken       \* how often each frame was handed out

ownerVars == <<opc, ob, ot>>
thiefVars == <<tpc, tt, ta, tout>>
dequeVars == <<top, own, mem, sb, freedRings, ownerVars, thiefVars, pushed, taken>>

Frames == 1..MaxPush
NoWord == 0                               \* malloc'd and never stored to
EmptyRing(c) == [cap |-> c, base |-> [i \in 0..c - 1 |-> NoWord], n |-> [i \in 0..c - 1 |-> NoWord]]
Index(r, i) == i % r.cap                  \* i & mask
Frame(r, i) == [base |-> r.base[Index(r, i)], n |-> r.n[Index(r, i)]]   \* slot_load
Array(view) == view.ring[Len(view.ring)]  \* q->array: the last ring that was made

DequeInit ==
  /\ top = 0
  /\ own = [bottom |-> 0, ring |-> <<EmptyRing(InitCap)>>]
  /\ mem = own
  /\ sb = <<>>
  /\ freedRings = {}
  /\ opc = "idle" /\ ob = 0 /\ ot = 0
  /\ tpc = [h \in Thieves |-> "idle"]
  /\ tt = [h \in Thieves |-> 0]
  /\ ta = [h \in Thieves |-> 0]
  /\ tout = [h \in Thieves |-> [base |-> NoWord, n |-> NoWord]]
  /\ pushed = 0
  /\ taken = [f \in Frames |-> 0]
-----------------------------------------------------------------------------
(***************************************************************************)
(* Stores.  An array store makes the next ring, whose slots it carries.    *)
(***************************************************************************)
Apply(view, st) ==
  CASE st.to = "bottom" -> [view EXCEPT !.bottom = st.val]
    [] st.to = "base"   -> [view EXCEPT !.ring[st.a].base[st.i] = st.val]
    [] st.to = "n"      -> [view EXCEPT !.ring[st.a].n[st.i] = st.val]
    [] st.to = "array"  -> [view EXCEPT !.ring = Append(@, st.val)]

ToBottom(v) == [to |-> "bottom", val |-> v]
ToArray(r)  == [to |-> "array", val |-> r]
ToSlot(field, a, i, f) == [to |-> field, a |-> a, i |-> i, val |-> f]

\* The owner executes a store: it is in its own view at once.
Store(st) ==
  /\ sb' = Append(sb, st)
  /\ own' = Apply(own, st)

\* The oldest store reaches memory.
Drain ==
  /\ sb # <<>>
  /\ mem' = Apply(mem, Head(sb))
  /\ sb' = Tail(sb)
  /\ UNCHANGED <<top, own, freedRings, ownerVars, thiefVars, pushed, taken>>
-----------------------------------------------------------------------------
(***************************************************************************)
(* The owner: sub_wsdeque_push.                                            *)
(***************************************************************************)

\* Load bottom, top and array.
PushBegin ==
  /\ opc = "idle"
  /\ pushed < MaxPush
  /\ ob' = own.bottom
  /\ ot' = top
  /\ opc' = "push"
  /\ UNCHANGED <<top, own, mem, sb, freedRings, thiefVars, pushed, taken>>

RingFull == ob - ot > Array(own).cap - 1

\* The frames t..b-1 move to a ring twice the size.
Moved(i) == CHOOSE k \in ot..ob - 1 : k % (2 * Array(own).cap) = i
Grown ==
  LET c == 2 * Array(own).cap
      moved == {k % c : k \in ot..ob - 1}
  IN  [cap  |-> c,
       base |-> [i \in 0..c - 1 |-> IF i \in moved THEN Frame(Array(own), Moved(i)).base ELSE NoWord],
       n    |-> [i \in 0..c - 1 |-> IF i \in moved THEN Frame(Array(own), Moved(i)).n ELSE NoWord]]

\* The old ring is kept until destroy.
Retire == UNCHANGED freedRings

\* Full: make a larger ring; the new slots are stored before the pointer.
PushGrow ==
  /\ opc = "push"
  /\ RingFull
  /\ Retire
  /\ Store(ToArray(Grown))
  /\ opc' = "store"
  /\ UNCHANGED <<top, mem, ob, ot, thiefVars, pushed, taken>>

\* No memory for the ring or for the list of retired ones: push returns
\* false and leaves the deque as it was.
PushFails ==
  /\ opc = "push"
  /\ RingFull
  /\ opc' = "idle"
  /\ UNCHANGED <<top, own, mem, sb, freedRings, ob, ot, thiefVars, pushed, taken>>

PushFits ==
  /\ opc = "push"
  /\ ~RingFull
  /\ opc' = "store"
  /\ UNCHANGED <<top, own, mem, sb, freedRings, ob, ot, thiefVars, pushed, taken>>

\* The slot, then bottom with release order.
SlotStore(field) == ToSlot(field, Len(own.ring), Index(Array(own), ob), pushed + 1)

PushStore ==
  /\ opc = "store"
  /\ sb' = sb \o <<SlotStore("base"), SlotStore("n"), ToBottom(ob + 1)>>
  /\ own' = Apply(Apply(Apply(own, SlotStore("base")), SlotStore("n")), ToBottom(ob + 1))
  /\ pushed' = pushed + 1
  /\ opc' = "idle"
  /\ UNCHANGED <<top, mem, freedRings, ob, ot, thiefVars, taken>>
-----------------------------------------------------------------------------
(***************************************************************************)
(* The owner: sub_wsdeque_take.                                            *)
(***************************************************************************)

\* A frame is handed out: both its fields, as they were read.
Hand(s) == taken' = [f \in Frames |-> taken[f] + (IF s.base = f THEN 1 ELSE 0)]

Bottom == Frame(Array(own), ob)

TakeStore ==
  /\ opc = "idle"
  /\ ob' = own.bottom - 1
  /\ Store(ToBottom(own.bottom - 1))
  /\ opc' = "fence"
  /\ UNCHANGED <<top, mem, freedRings, ot, thiefVars, pushed, taken>>

\* Mutant: no fence between the store of bottom and the load of top.
TakeFenceSkipped ==
  /\ opc = "fence"
  /\ opc' = "load"
  /\ UNCHANGED <<top, own, mem, sb, freedRings, ob, ot, thiefVars, pushed, taken>>

TakeFence ==
  /\ opc = "fence"
  /\ sb = <<>>
  /\ opc' = "load"
  /\ UNCHANGED <<top, own, mem, sb, freedRings, ob, ot, thiefVars, pushed, taken>>

\* t > b: the deque was empty, bottom is put back.
TakeEmpty ==
  /\ opc = "load"
  /\ top > ob
  /\ Store(ToBottom(ob + 1))
  /\ opc' = "idle"
  /\ UNCHANGED <<top, mem, freedRings, ob, ot, thiefVars, pushed, taken>>

\* t < b: the frame is the owner's, no race possible.
TakeMany ==
  /\ opc = "load"
  /\ top < ob
  /\ Hand(Bottom)
  /\ opc' = "idle"
  /\ UNCHANGED <<top, own, mem, sb, freedRings, ob, ot, thiefVars, pushed>>

\* t = b: the last one, a thief may be at it.
TakeLast ==
  /\ opc = "load"
  /\ top = ob
  /\ ot' = top
  /\ opc' = "cas"
  /\ UNCHANGED <<top, own, mem, sb, freedRings, ob, thiefVars, pushed, taken>>

TakeCas ==
  /\ opc = "cas"
  /\ sb = <<>>
  /\ \/ top = ot /\ top' = ot + 1 /\ Hand(Bottom)
     \/ top # ot /\ UNCHANGED <<top, taken>>
  /\ Store(ToBottom(ob + 1))
  /\ opc' = "idle"
  /\ UNCHANGED <<mem, freedRings, ob, ot, thiefVars, pushed>>
-----------------------------------------------------------------------------
(***************************************************************************)
(* A thief: sub_wsdeque_steal.  Its seq_cst fence orders the two loads.    *)
(***************************************************************************)

StealTop(h) ==
  /\ tpc[h] = "idle"
  /\ tt' = [tt EXCEPT ![h] = top]
  /\ tpc' = [tpc EXCEPT ![h] = "bottom"]
  /\ UNCHANGED <<top, own, mem, sb, freedRings, ownerVars, ta, tout, pushed, taken>>

\* t >= b: SUB_STEAL_EMPTY
StealBottom(h) ==
  /\ tpc[h] = "bottom"
  /\ tpc' = [tpc EXCEPT ![h] = IF tt[h] < mem.bottom THEN "array" ELSE "idle"]
  /\ UNCHANGED <<top, own, mem, sb, freedRings, ownerVars, tt, ta, tout, pushed, taken>>

StealArray(h) ==
  /\ tpc[h] = "array"
  /\ ta' = [ta EXCEPT ![h] = Len(mem.ring)]
  /\ tpc' = [tpc EXCEPT ![h] = "base"]
  /\ UNCHANGED <<top, own, mem, sb, freedRings, ownerVars, tt, tout, pushed, taken>>

\* The speculative read, field by field.
StealBase(h) ==
  /\ tpc[h] = "base"
  /\ tout' = [tout EXCEPT ![h].base = Frame(mem.ring[ta[h]], tt[h]).base]
  /\ tpc' = [tpc EXCEPT ![h] = "n"]
  /\ UNCHANGED <<top, own, mem, sb, freedRings, ownerVars, tt, ta, pushed, taken>>

StealN(h) ==
  /\ tpc[h] = "n"
  /\ tout' = [tout EXCEPT ![h].n = Frame(mem.ring[ta[h]], tt[h]).n]
  /\ tpc' = [tpc EXCEPT ![h] = "cas"]
  /\ UNCHANGED <<top, own, mem, sb, freedRings, ownerVars, tt, ta, pushed, taken>>

\* SUB_STEAL_OK
StealWins(h) ==
  /\ tpc[h] = "cas"
  /\ top = tt[h]
  /\ top' = top + 1
  /\ Hand(tout[h])
  /\ tpc' = [tpc EXCEPT ![h] = "won"]
  /\ UNCHANGED <<own, mem, sb, freedRings, ownerVars, tt, ta, tout, pushed>>

\* SUB_STEAL_ABORT
StealLoses(h) ==
  /\ tpc[h] = "cas"
  /\ top # tt[h]
  /\ tpc' = [tpc EXCEPT ![h] = "idle"]
  /\ UNCHANGED <<top, own, mem, sb, freedRings, ownerVars, tt, ta, tout, pushed, taken>>

\* The thief is done with the frame it returned.
StealReturns(h) ==
  /\ tpc[h] = "won"
  /\ tpc' = [tpc EXCEPT ![h] = "idle"]
  /\ UNCHANGED <<top, own, mem, sb, freedRings, ownerVars, tt, ta, tout, pushed, taken>>
-----------------------------------------------------------------------------
OwnerStep ==
  \/ PushBegin \/ PushGrow \/ PushFails \/ PushFits \/ PushStore
  \/ TakeStore \/ TakeFence \/ TakeEmpty \/ TakeMany \/ TakeLast \/ TakeCas

ThiefStep(h) ==
  \/ StealTop(h) \/ StealBottom(h) \/ StealArray(h) \/ StealBase(h) \/ StealN(h)
  \/ StealWins(h) \/ StealLoses(h) \/ StealReturns(h)

DequeNext == Drain \/ OwnerStep \/ \E h \in Thieves : ThiefStep(h)

DequeSpec == DequeInit /\ [][DequeNext]_dequeVars
-----------------------------------------------------------------------------
(***************************************************************************)
(* Properties.                                                             *)
(***************************************************************************)

(***************************************************************************)
(* A frame is handed out at most once, although owner and thieves race for *)
(* the last one and the owner's store of bottom may be late: two workers   *)
(* would sort the same subarray at the same time.                          *)
(***************************************************************************)
NoFrameTwice == \A f \in Frames : taken[f] <= 1

(***************************************************************************)
(* No frame is lost: when nobody is inside an operation, the frames pushed *)
(* and not handed out are exactly those between top and bottom, in order.  *)
(***************************************************************************)
NoFrameLost ==
  opc = "idle" /\ sb = <<>> /\ (\A h \in Thieves : tpc[h] = "idle") =>
    LET inside == {Frame(Array(mem), k).base : k \in top..mem.bottom - 1}
    IN  inside = {f \in 1..pushed : taken[f] = 0}

(***************************************************************************)
(* wsdeque.h: "a successful steal CAS proves the slot was not reused, so   *)
(* the three field reads are coherent -- no torn frame", and none that was *)
(* never stored.                                                           *)
(***************************************************************************)
NoTornFrame ==
  \A h \in Thieves : tpc[h] = "won" => tout[h].base = tout[h].n /\ tout[h].base # NoWord

(***************************************************************************)
(* A thief that still holds an old ring never reads it after it was freed. *)
(***************************************************************************)
NoArrayAfterFree == \A h \in Thieves : tpc[h] \in {"base", "n"} => ta[h] \notin freedRings

\* What the deque promises the pool: each frame pushed is handed out once, as
\* it was pushed, from memory that is still there.
FramesAreKept == NoFrameTwice /\ NoFrameLost /\ NoTornFrame /\ NoArrayAfterFree
=============================================================================
