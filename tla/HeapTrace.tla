----------------------------- MODULE HeapTrace -----------------------------
(***************************************************************************)
(* The heap of a traced process, the uprobes on its allocator              *)
(* (src/src/bpf/montauk_trace.bpf.c) and, first, the memory and death      *)
(* reports of src/src/tools/trace_analyze.cpp that read their events:      *)
(* doublefree, abortpm, heapstk and signals.  Addresses are small numbers, *)
(* a user stack is one value, and of a process's threads only the ids      *)
(* matter.                                                                 *)
(*                                                                         *)
(* The allocator is external: a call enters, takes effect at one instant,  *)
(* and returns.  malloc, calloc and realloc are reported when they return, *)
(* with the arguments heap_inflight kept per thread; free is reported when *)
(* it is entered.  The uprobe layer may deliver the probe of one free      *)
(* twice (Echo).  The program is correct unless Buggy: it frees a chunk    *)
(* once, from any thread.                                                  *)
(***************************************************************************)
EXTENDS Maps, FiniteSetsExt, SequencesExt

CONSTANTS MaxHits,     \* DoubleFreeReport keeps at most 64 hits
          ArenaSize,   \* kArenaSize: an arena is an aligned window
          Window       \* --window: the trailing teardown window

ASSUME HeapAssumption ==
    {MaxHits, ArenaSize} \subseteq Nat \ {0} /\ Window \in Nat

NoHeapEvent == [type |-> "", pid |-> 0, tid |-> 0, ts |-> 0, op |-> "",
                addr |-> 0, new |-> 0, size |-> 0, kind |-> "", sig |-> 0]

----------------------------------------------------------------------------
(* doublefree: an address freed while not live.  Keyed by (pid, address).  *)

DoubleFreeInit == [live |-> EmptyMap, freed |-> EmptyMap, hits |-> <<>>,
                   frees |-> 0]

\* Allocated at a: live, and no longer remembered as freed.
Allocated(st, e, a) ==
    LET k == <<e.pid, a>>
    IN  IF a = 0 THEN st
        ELSE [st EXCEPT !.live = Put(@, k, [size |-> e.size, tid |-> e.tid]),
                        !.freed = Erase(@, {k})]
\* Mutant: a free of an unknown address leaves the old chunk live.
ForgottenFreed(st, e, a) ==
    IF a = 0 THEN st ELSE [st EXCEPT !.freed = Erase(@, {<<e.pid, a>>})]

Forgotten(st, e, a) ==
    IF a = 0 THEN st
    ELSE [st EXCEPT !.live = Erase(@, {<<e.pid, a>>}),
                    !.freed = Erase(@, {<<e.pid, a>>})]

Freed(st, e) ==
    LET k == <<e.pid, e.addr>>
        was == k \in DOMAIN st.live
        before == k \in DOMAIN st.freed
        size == IF was THEN st.live[k].size
                ELSE At(st.freed, k, [size |-> 0]).size
        hit == [addr |-> e.addr, first |-> st.freed[k].tid, second |-> e.tid]
    IN  [live |-> Erase(st.live, {k}),
         freed |-> Put(st.freed, k, [size |-> size, tid |-> e.tid]),
         frees |-> st.frees + 1,
         hits |-> IF ~was /\ before /\ Len(st.hits) < MaxHits
                  THEN Append(st.hits, hit) ELSE st.hits]

DoubleFreeFold(st, e) ==
    IF e.type # "heap" THEN st
    ELSE CASE e.op \in {"MALLOC", "CALLOC"} -> Allocated(st, e, e.addr)
           [] e.op = "REALLOC" ->
                  Allocated(Forgotten(st, e, e.addr), e, e.new)
           [] e.op = "FREE" -> IF e.addr = 0 THEN st ELSE Freed(st, e)

\* A race outranks a logic error.
CrossThread(st) == CountWhere(st.hits, LAMBDA h : h.first # h.second)
DoubleFreeVerdict(st) ==
    IF st.hits = <<>> THEN "CLEAN"
    ELSE IF CrossThread(st) > 0 THEN "RACE" ELSE "LOGIC"

----------------------------------------------------------------------------
(* abortpm: at an abort, the highest live chunk of the arena the aborting  *)
(* thread last allocated from is the suspect.  Keyed by address alone.     *)

AbortInit == [live |-> EmptyMap, lastAlloc |-> EmptyMap, hits |-> <<>>]

AbortAlloc(st, e, a) ==
    IF a = 0 THEN st
    ELSE [st EXCEPT !.live = Put(@, a, [size |-> e.size, tid |-> e.tid]),
                    !.lastAlloc = Put(@, e.tid, a)]
AbortFree(st, a) == [st EXCEPT !.live = Erase(@, {a} \ {0})]

InArena(st, a) ==
    {x \in DOMAIN st.live : x \div ArenaSize = a \div ArenaSize}
\* 0: no allocation of the thread is known, or its arena holds nothing.
Victim(st, t) ==
    IF t \notin DOMAIN st.lastAlloc \/ InArena(st, st.lastAlloc[t]) = {}
    THEN 0 ELSE Max(InArena(st, st.lastAlloc[t]))

AbortFold(st, e) ==
    CASE e.type = "heap" /\ e.op \in {"MALLOC", "CALLOC"} ->
             AbortAlloc(st, e, e.addr)
      [] e.type = "heap" /\ e.op = "FREE" -> AbortFree(st, e.addr)
      [] e.type = "heap" /\ e.op = "REALLOC" ->
             AbortAlloc(AbortFree(st, e.addr), e, e.new)
      [] e.type = "abort" ->
             [st EXCEPT !.hits =
                 Append(@, [tid |-> e.tid, victim |-> Victim(st, e.tid)])]
      [] OTHER -> st
AbortVerdict(st) == IF st.hits = <<>> THEN "NONE" ELSE "ABORT"

----------------------------------------------------------------------------
(* heapstk: allocation sites, by stack; a site's size is its first one's.  *)

HeapstkInit == EmptyMap
HeapstkFold(sites, e) ==
    LET s == At(sites, e.op, [count |-> 0, size |-> e.size])
    IN  IF e.type # "heapstack" THEN sites
        ELSE Put(sites, e.op, [s EXCEPT !.count = @ + 1])
HeapstkVerdict(sites) ==
    IF DOMAIN sites = {} THEN "NO-HEAPSTACK" ELSE "HEAPSTACK"

----------------------------------------------------------------------------
(* signals: deaths by signal, before or inside the teardown window.        *)

SignalsInit == [evs |-> <<>>, min |-> 0, max |-> 0]

\* note_ts(): the window of the always-on streams; 0 is no timestamp.
NoteTs(st, ts) ==
    IF ts = 0 THEN st
    ELSE [st EXCEPT !.min = IF @ = 0 \/ ts < @ THEN ts ELSE @,
                    !.max = Larger(@, ts)]

SignalsFold(st, e) ==
    IF e.type \in {"heap", "ntsync", "io", "sched"} THEN NoteTs(st, e.ts)
    ELSE IF e.type # "signal" THEN st
    ELSE [NoteTs(st, e.ts) EXCEPT !.evs =
             Append(@, [ts |-> e.ts, tid |-> e.tid, kind |-> e.kind,
                        sig |-> e.sig])]

Teardown(st, v) == st.max # 0 /\ v.ts + Window >= st.max
MidtraceDeath(st, v) ==
    v.kind = "EXIT_ABNL" /\ v.sig # 0 /\ ~Teardown(st, v)
SignalsVerdict(st) ==
    IF st.evs = <<>> THEN "NO-SIGNALS"
    ELSE IF \E i \in DOMAIN st.evs : MidtraceDeath(st, st.evs[i])
    THEN "MIDTRACE-DEATH" ELSE "TEARDOWN-ONLY"

----------------------------------------------------------------------------
CONSTANTS Workers,    \* thread ids, positive
          Main,       \* the main thread: its tid is the pid
          Addrs,      \* addresses, positive
          Buggy,      \* may the program free a chunk twice?
          StackSize,  \* heap_stack_size, 0 when off
          EchoWindow, \* FREE_ECHO_WINDOW_NS
          MaxHeapOps, MaxHeapLost, MaxHeapTime

ASSUME HeapTraceAssumption ==
    /\ Workers \subseteq Nat \ {0} /\ Main \in Workers
    /\ Addrs \subseteq Nat \ {0} /\ Buggy \in BOOLEAN

VARIABLES
    heap,      \* address -> "free" or "live", as the allocator sees it
    doing,     \* thread -> the call it is in
    inflight,  \* heap_inflight: threads with an entry
    echo,      \* free_echo_guard: thread -> last freed address and time
    hnow, hops, hlost,
    dead,      \* did a fatal signal end the process? when?
    blurred,   \* ghost: a realloc failed, or its old address was issued again
               \* before it returned
    swallowed, \* ghost: frees taken for an echo
    hrep       \* the reports' state

hvars == <<heap, doing, inflight, echo, hnow, hops, hlost, dead, blurred,
           swallowed, hrep>>

\* op: the call; arg: its pointer; ret: what the allocator gave; step: how
\* far it is.  `dup` says that a free's probe may still be delivered again.
Idle == [op |-> "none", arg |-> 0, ret |-> 0, step |-> "out", dup |-> FALSE]
SizeOf == [MALLOC |-> 1, CALLOC |-> 2, REALLOC |-> 1, FREE |-> 0]

HeapInit ==
    /\ heap = [a \in Addrs |-> "free"]
    /\ doing = [t \in Workers |-> Idle]
    /\ inflight = {}
    /\ echo = [t \in Workers |-> [ptr |-> 0, ts |-> 0]]
    /\ hnow = 1 /\ hops = 0 /\ hlost = 0 /\ dead = 0
    /\ blurred = FALSE /\ swallowed = 0
    /\ hrep = [df |-> DoubleFreeInit, pm |-> AbortInit, stk |-> HeapstkInit,
               sig |-> SignalsInit]

HeapFold(r, e) ==
    [df |-> DoubleFreeFold(r.df, e), pm |-> AbortFold(r.pm, e),
     stk |-> HeapstkFold(r.stk, e), sig |-> SignalsFold(r.sig, e)]

\* The events of a probe reach the trace, and the reports are `after` when they
\* have read them; or (gone) they are lost to a full ring.
HeapEmit(after, gone) ==
    /\ gone => hlost < MaxHeapLost
    /\ hlost' = IF gone THEN hlost + 1 ELSE hlost
    /\ hrep' = IF gone THEN hrep ELSE after

HeapEvent(t) == [NoHeapEvent EXCEPT !.pid = Main, !.tid = t, !.ts = hnow]

----------------------------------------------------------------------------
(* uprobe_malloc, uprobe_calloc, uprobe_realloc and their return probes.   *)

\* A chunk the program has got and has not passed to another call.
Held(a) ==
    heap[a] = "live" /\ \A u \in Workers : a \notin {doing[u].arg, doing[u].ret}

uprobe_alloc(t, op, old) ==
    /\ doing[t] = Idle /\ dead = 0 /\ hops < MaxHeapOps
    /\ IF op = "REALLOC" THEN Held(old) ELSE old = 0
    /\ doing' = [doing EXCEPT ![t] = [Idle EXCEPT !.op = op, !.arg = old,
                                                  !.step = "in"]]
    /\ inflight' = inflight \cup {t}
    /\ hops' = hops + 1
    /\ UNCHANGED <<heap, echo, hnow, hlost, dead, blurred, swallowed, hrep>>

\* The allocator's effect (external): a free address, or none left.  The
\* chunk a realloc moves away from is free from here on.
Allocate(t, a) ==
    LET d == doing[t]
        left == {x \in Addrs : heap[x] = "free"}
    IN  /\ d.step = "in" /\ d.op # "FREE" /\ dead = 0
        /\ a \in (IF left = {} THEN {0} ELSE left)
        /\ heap' = [x \in Addrs |->
                       IF x = a THEN "live"
                       ELSE IF x = d.arg /\ a # 0 THEN "free" ELSE heap[x]]
        /\ doing' = [doing EXCEPT ![t].ret = a, ![t].step = "done"]
        /\ blurred' = \/ blurred
                      \/ d.op = "REALLOC" /\ a = 0
                      \/ \E u \in Workers \ {t} :
                             /\ doing[u].op = "REALLOC"
                             /\ doing[u].step = "done"
                             /\ doing[u].arg = a /\ a # 0
        /\ UNCHANGED <<inflight, echo, hnow, hops, hlost, dead, swallowed,
                       hrep>>

\* emit_heap() and, for malloc and calloc of the filtered size,
\* emit_heapstack(): the stack is named by the operation here.
AllocEvent(t) ==
    LET d == doing[t]
        e == [HeapEvent(t) EXCEPT !.type = "heap", !.op = d.op,
                                  !.size = SizeOf[d.op]]
    IN  IF d.op = "REALLOC" THEN [e EXCEPT !.addr = d.arg, !.new = d.ret]
        ELSE [e EXCEPT !.addr = d.ret]

WithStack(t) ==
    doing[t].op # "REALLOC" /\ StackSize # 0 /\ SizeOf[doing[t].op] = StackSize

AfterAlloc(t) ==
    LET e == AllocEvent(t)
        r == HeapFold(hrep, e)
    IN  IF WithStack(t) THEN HeapFold(r, [e EXCEPT !.type = "heapstack"]) ELSE r

uretprobe_alloc(t, gone) ==
    /\ doing[t].step = "done" /\ doing[t].op # "FREE" /\ dead = 0
    /\ t \in inflight
    /\ HeapEmit(AfterAlloc(t), gone)
    /\ inflight' = inflight \ {t}
    /\ echo' = [echo EXCEPT ![t] = [ptr |-> 0, ts |-> 0]]
    /\ doing' = [doing EXCEPT ![t] = Idle]
    /\ UNCHANGED <<heap, hnow, hops, dead, blurred, swallowed>>

----------------------------------------------------------------------------
(* uprobe_free, its echo, and free() itself.                               *)

\* The guard: the pointer this thread freed last, within the window.
IsEcho(t, a) ==
    echo[t].ptr = a /\ hnow - echo[t].ts <= EchoWindow

FreeEvent(t, a) ==
    [HeapEvent(t) EXCEPT !.type = "heap", !.op = "FREE", !.addr = a]

FreeProbe(t, a, gone) ==
    IF IsEcho(t, a)
    THEN gone = FALSE /\ UNCHANGED <<echo, hlost, hrep>>
    ELSE /\ echo' = [echo EXCEPT ![t] = [ptr |-> a, ts |-> hnow]]
         /\ HeapEmit(HeapFold(hrep, FreeEvent(t, a)), gone)

uprobe_free(t, a, gone) ==
    /\ doing[t] = Idle /\ dead = 0 /\ hops < MaxHeapOps
    /\ Buggy \/ Held(a)
    /\ doing' = [doing EXCEPT ![t] = [op |-> "FREE", arg |-> a, ret |-> 0,
                                      step |-> "in", dup |-> TRUE]]
    /\ swallowed' = swallowed + (IF IsEcho(t, a) THEN 1 ELSE 0)
    /\ hops' = hops + 1
    /\ FreeProbe(t, a, gone)
    /\ UNCHANGED <<heap, inflight, hnow, dead, blurred>>

\* The same probe delivered again for the call t is in, soon after.
Echo(t, gone) ==
    /\ doing[t].op = "FREE" /\ doing[t].dup /\ dead = 0
    /\ hnow - echo[t].ts <= EchoWindow
    /\ doing' = [doing EXCEPT ![t].dup = FALSE]
    /\ FreeProbe(t, doing[t].arg, gone)
    /\ UNCHANGED <<heap, inflight, hnow, hops, dead, blurred, swallowed>>

FreeDone(t) ==
    /\ doing[t].op = "FREE" /\ dead = 0
    /\ heap' = [heap EXCEPT ![doing[t].arg] = "free"]
    /\ doing' = [doing EXCEPT ![t] = Idle]
    /\ UNCHANGED <<inflight, echo, hnow, hops, hlost, dead, blurred, swallowed,
                   hrep>>

----------------------------------------------------------------------------
(* uprobe_abort, then the death of the process.                            *)

uprobe_abort(t, gone) ==
    /\ doing[t] = Idle /\ dead = 0 /\ hops < MaxHeapOps
    /\ doing' = [doing EXCEPT ![t].op = "ABORT"]
    /\ hops' = hops + 1
    /\ HeapEmit(HeapFold(hrep, [HeapEvent(t) EXCEPT !.type = "abort"]), gone)
    /\ UNCHANGED <<heap, inflight, echo, hnow, dead, blurred, swallowed>>

\* SIGABRT is delivered to the thread, and the process exits: an event for
\* the delivery, one for the exit of the main thread.
SignalEvent(t, what) ==
    [HeapEvent(t) EXCEPT !.type = "signal", !.kind = what, !.sig = 6]
AfterDeath(t) == HeapFold(HeapFold(hrep, SignalEvent(t, "DELIVER")),
                          SignalEvent(Main, "EXIT_ABNL"))
Die(t, gone) ==
    /\ doing[t].op = "ABORT" /\ dead = 0
    /\ dead' = hnow
    /\ HeapEmit(AfterDeath(t), gone)
    /\ UNCHANGED <<heap, doing, inflight, echo, hnow, hops, blurred, swallowed>>

\* Another traced process is still active: any of its I/O events.
OtherActivity ==
    /\ dead # 0 /\ hnow > hrep.sig.max
    /\ HeapEmit(HeapFold(hrep, [NoHeapEvent EXCEPT !.type = "io", !.ts = hnow]),
                FALSE)
    /\ UNCHANGED <<heap, doing, inflight, echo, hnow, hops, dead, blurred,
                   swallowed>>

HeapTick ==
    /\ hnow < MaxHeapTime /\ hnow' = hnow + 1
    /\ UNCHANGED <<heap, doing, inflight, echo, hops, hlost, dead, blurred,
                   swallowed, hrep>>

HeapNext ==
    \/ \E t \in Workers, op \in {"MALLOC", "CALLOC", "REALLOC"},
          a \in Addrs \cup {0} :
           (op = "REALLOC" => a # 0) /\ uprobe_alloc(t, op, a)
    \/ \E t \in Workers, a \in Addrs \cup {0} : Allocate(t, a)
    \/ \E t \in Workers, gone \in BOOLEAN : uretprobe_alloc(t, gone)
    \/ \E t \in Workers, a \in Addrs, gone \in BOOLEAN : uprobe_free(t, a, gone)
    \/ \E t \in Workers, gone \in BOOLEAN : Echo(t, gone)
    \/ \E t \in Workers : FreeDone(t)
    \/ \E t \in Workers, gone \in BOOLEAN : uprobe_abort(t, gone)
    \/ \E t \in Workers, gone \in BOOLEAN : Die(t, gone)
    \/ OtherActivity
    \/ HeapTick

HeapSpec == HeapInit /\ [][HeapNext]_hvars

----------------------------------------------------------------------------
(* Properties.                                                             *)

\* While nothing is lost, doublefree stays CLEAN on a correct program:
\* neither a probe delivered twice, nor a chunk handed from thread to
\* thread, nor a realloc whose event comes after the address was issued
\* again makes a free look like a second one.
NoFalseDoubleFree ==
    ~Buggy /\ hlost = 0 => DoubleFreeVerdict(hrep.df) = "CLEAN"

\* While nothing is lost, no free was taken for an echo, no realloc failed and
\* no address was issued again inside one, the replayed heap is the real one:
\* doublefree's live set and abortpm's are the live chunks, but for the
\* calls whose event is still to come or whose effect is.
InCalls == UNION {{doing[t].arg, doing[t].ret} : t \in Workers}
ReplayIsHeap ==
    hlost = 0 /\ ~blurred /\ swallowed = 0 /\ ~Buggy =>
        \A a \in Addrs \ InCalls :
            /\ heap[a] = "live" <=> <<Main, a>> \in DOMAIN hrep.df.live
            /\ heap[a] = "live" <=> a \in DOMAIN hrep.pm.live

\* A process that died of a signal is named as a mid-trace death as soon as
\* the trace goes on for longer than the teardown window.
DeathIsNamed ==
    dead # 0 /\ hlost = 0 /\ hrep.sig.max > dead + Window =>
        SignalsVerdict(hrep.sig) = "MIDTRACE-DEATH"

\* The heap the reports replay is the program's, and so are its faults and its death.
HeapReplayExact == ReplayIsHeap /\ NoFalseDoubleFree /\ DeathIsNamed

\* The guard's own claim: a real free / allocate / free cycle at one address
\* is never taken for an echo.
NoFreeSwallowed == ~Buggy => swallowed = 0

=============================================================================
