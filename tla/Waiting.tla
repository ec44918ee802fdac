------------------------------ MODULE Waiting ------------------------------
(***************************************************************************)
(* The ways a guest thread waits for several descriptors: ALooper_pollOnce   *)
(* of source/android_ndk.c with its wake-ups and callbacks, and poll and     *)
(* select of source/imports.c.  None of them is told when a pipe becomes     *)
(* ready: they look at one descriptor after the other, rest for at most a    *)
(* millisecond, and look again.                                              *)
(*                                                                           *)
(* A thread is its kernel handle, the key of the looper table; a thread that *)
(* ends leaves its handle, and its looper, to the next one.  The guest       *)
(* releases what it acquired, and no more.  The table's mutex is made; the   *)
(* first call of loop_get makes it, guarded by nothing.                      *)
(***************************************************************************)
EXTENDS Integers, FiniteSets

CONSTANTS
  Threads, NoThread,
  Fds,          \* descriptors of emulated pipes
  LooperFds,    \* bound: those a looper may be given
  NLoopers,     \* g_loop: 16
  MaxRegs,      \* regs: 16
  MaxMs         \* bound: the longest timeout

ASSUME WaitingAssumption == IsFiniteSet(Threads) /\ NoThread \notin Threads /\ NLoopers \in Nat

Timeouts == -1..MaxMs

VARIABLES
  looper,       \* g_loop, with the host mutex m of each looper
  ready,        \* descriptors with data, room, a hang-up, or not open
  held,         \* references each thread has acquired
  woken,        \* a wake of this thread's looper, not yet returned to it
  steady,       \* descriptors ready ever since this thread's time ran out
  pollers,      \* bound: the threads that call poll; the others use loopers
  waitPc, waitLoc

waitVars == <<looper, ready, held, woken, steady, pollers, waitPc, waitLoc>>

NoWaitLoc == [l |-> 0, ms |-> 0, ask |-> {}, left |-> {}, found |-> FALSE]
Unused == [used |-> FALSE, owner |-> NoThread, refs |-> 0, signaled |-> FALSE,
           m |-> NoThread, regs |-> [fd \in Fds |-> "none"]]

WaitInit ==
  /\ looper = [l \in 1..NLoopers |-> Unused] /\ ready = {}
  /\ held = [t \in Threads |-> {}] /\ woken = [t \in Threads |-> FALSE]
  /\ steady = [t \in Threads |-> {}] /\ pollers \in SUBSET Threads
  /\ waitPc = [t \in Threads |-> "idle"] /\ waitLoc = [t \in Threads |-> NoWaitLoc]

WaitGoto(t, where) == waitPc' = [waitPc EXCEPT ![t] = where]
\* On its return a call's locals are gone.
Return(t) == WaitGoto(t, "idle") /\ waitLoc' = [waitLoc EXCEPT ![t] = NoWaitLoc]
Guest(t) == waitPc[t] \in {"idle", "callback"} /\ t \notin pollers
MyLooper(t) == looper[waitLoc[t].l]

-----------------------------------------------------------------------------
(***************************************************************************)
(* The pipes behind the descriptors.                                        *)
(***************************************************************************)
BecomeReady(fd) ==
  /\ fd \notin ready /\ ready' = ready \cup {fd}
  /\ UNCHANGED <<looper, held, woken, steady, waitPc, waitLoc, pollers>>
BecomeUnready(fd) ==
  /\ fd \in ready /\ ready' = ready \ {fd}
  /\ steady' = [t \in Threads |-> steady[t] \ {fd}]
  /\ UNCHANGED <<looper, held, woken, waitPc, waitLoc, pollers>>

-----------------------------------------------------------------------------
(***************************************************************************)
(* Loopers.                                                                 *)
(***************************************************************************)
\* loop_get: the caller's slot, or the first unused one, wiped; 0 for NULL.
Own(t) == {l \in 1..NLoopers : looper[l].used /\ looper[l].owner = t}
Free == {l \in 1..NLoopers : ~looper[l].used}
First(S) == CHOOSE l \in S : \A k \in S : l <= k
SlotFor(t) == IF Own(t) # {} THEN First(Own(t)) ELSE IF Free # {} THEN First(Free) ELSE 0
LoopGet(t) ==
  looper' = IF Own(t) # {} \/ Free = {} THEN looper
            ELSE [looper EXCEPT ![SlotFor(t)] =
                    [Unused EXCEPT !.used = TRUE, !.owner = t, !.refs = 1]]

Prepare(t) ==
  /\ Guest(t) /\ LoopGet(t)
  /\ UNCHANGED <<ready, held, woken, steady, waitPc, waitLoc, pollers>>

Acquire(t, l) ==
  /\ Guest(t) /\ looper[l].used /\ looper[l].m = NoThread /\ l \notin held[t]
  /\ looper' = [looper EXCEPT ![l].refs = @ + 1]
  /\ held' = [held EXCEPT ![t] = @ \cup {l}]
  /\ UNCHANGED <<ready, woken, steady, waitPc, waitLoc, pollers>>

Release(t, l) ==
  /\ Guest(t) /\ l \in held[t] /\ looper[l].m = NoThread
  /\ looper' = [looper EXCEPT ![l].refs = @ - 1, ![l].used = @ /\ looper[l].refs - 1 > 0]
  /\ held' = [held EXCEPT ![t] = @ \ {l}]
  /\ UNCHANGED <<ready, woken, steady, waitPc, waitLoc, pollers>>

\* condvarWakeAll: whoever waits on l is to take its mutex again.
WakeAll(l) == waitPc' = [t \in Threads |-> IF waitPc[t] = "asleep" /\ waitLoc[t].l = l THEN "relock" ELSE waitPc[t]]
MayUse(t, l) == Guest(t) /\ looper[l].m = NoThread /\ (l \in held[t] \/ l \in Own(t))

WakeLooper(t, l) ==
  /\ MayUse(t, l)
  /\ looper' = [looper EXCEPT ![l].signaled = TRUE] /\ WakeAll(l)
  /\ woken' = [woken EXCEPT ![looper[l].owner] = TRUE]
  /\ UNCHANGED <<ready, held, steady, waitLoc, pollers>>

\* ALooper_addFd, over the same descriptor or in a free entry.
AddFd(t, l, fd, kind) ==
  /\ MayUse(t, l) /\ fd \in LooperFds /\ kind \in {"ident", "callback"}
  /\ looper[l].regs[fd] # "none"
       \/ Cardinality({g \in Fds : looper[l].regs[g] # "none"}) < MaxRegs
  /\ looper' = [looper EXCEPT ![l].regs[fd] = kind] /\ WakeAll(l)
  /\ UNCHANGED <<ready, held, woken, steady, waitLoc, pollers>>
RemoveFd(t, l, fd) ==
  /\ MayUse(t, l) /\ looper[l].regs[fd] # "none"
  /\ looper' = [looper EXCEPT ![l].regs[fd] = "none"]
  /\ UNCHANGED <<ready, held, woken, steady, waitPc, waitLoc, pollers>>

\* The handle of a thread that ends is given out again.
ThreadEnds(t) ==
  /\ waitPc[t] = "idle" /\ held[t] = {} /\ woken[t]
  /\ woken' = [woken EXCEPT ![t] = FALSE]
  /\ UNCHANGED <<looper, ready, held, steady, waitPc, waitLoc, pollers>>

-----------------------------------------------------------------------------
(***************************************************************************)
(* ALooper_pollOnce.                                                        *)
(***************************************************************************)
\* With every slot taken the looper is NULL, and so is its mutex.
PollOnce(t) ==
  /\ waitPc[t] = "idle" /\ t \notin pollers
  /\ \E ms \in Timeouts : waitLoc' = [waitLoc EXCEPT ![t] = [NoWaitLoc EXCEPT !.l = SlotFor(t), !.ms = ms]]
  /\ WaitGoto(t, IF SlotFor(t) = 0 THEN "crashed" ELSE "enter") /\ LoopGet(t)
  /\ UNCHANGED <<ready, held, woken, steady, pollers>>

TakeWake(t) ==
  /\ waitPc[t] = "enter" /\ MyLooper(t).m = NoThread /\ MyLooper(t).signaled
  /\ looper' = [looper EXCEPT ![waitLoc[t].l].signaled = FALSE]
  /\ woken' = [woken EXCEPT ![t] = FALSE] /\ Return(t)
  /\ UNCHANGED <<ready, held, steady, pollers>>
Enter(t) ==
  /\ waitPc[t] = "enter" /\ MyLooper(t).m = NoThread /\ ~MyLooper(t).signaled
  /\ looper' = [looper EXCEPT ![waitLoc[t].l].m = t]
  /\ waitLoc' = [waitLoc EXCEPT ![t].left = {fd \in Fds : MyLooper(t).regs[fd] # "none"}]
  /\ WaitGoto(t, "scan")
  /\ UNCHANGED <<ready, held, woken, steady, pollers>>

\* looper_ready_events for one registration; a callback runs unlocked.
Scan(t, fd) ==
  /\ waitPc[t] = "scan" /\ fd \in waitLoc[t].left
  /\ IF fd \in ready
     THEN /\ looper' = [looper EXCEPT ![waitLoc[t].l].m = NoThread]
          /\ IF MyLooper(t).regs[fd] = "callback"
             THEN WaitGoto(t, "callback") /\ waitLoc' = [waitLoc EXCEPT ![t].left = {fd}]
             ELSE Return(t)
     ELSE /\ waitLoc' = [waitLoc EXCEPT ![t].left = @ \ {fd}] /\ UNCHANGED <<looper, waitPc>>
  /\ UNCHANGED <<ready, held, woken, steady, pollers>>
CallbackReturns(t) ==
  /\ waitPc[t] = "callback"
  /\ Return(t) \/ (WaitGoto(t, "remove") /\ UNCHANGED waitLoc)     \* keep, or not
  /\ UNCHANGED <<looper, ready, held, woken, steady, pollers>>
\* The registration goes by the descriptor's number, whoever made it.
RemoveAfter(t) ==
  /\ waitPc[t] = "remove" /\ MyLooper(t).m = NoThread
  /\ looper' = [looper EXCEPT ![waitLoc[t].l].regs =
                  [fd \in Fds |-> IF fd \in waitLoc[t].left THEN "none" ELSE @[fd]]]
  /\ Return(t) /\ UNCHANGED <<ready, held, woken, steady, pollers>>

Rest(t) ==
  /\ waitPc[t] = "scan" /\ waitLoc[t].left = {}
  /\ looper' = [looper EXCEPT ![waitLoc[t].l].m = NoThread]
  /\ IF waitLoc[t].ms = 0 THEN Return(t) ELSE WaitGoto(t, "asleep") /\ UNCHANGED waitLoc
  /\ UNCHANGED <<ready, held, woken, steady, pollers>>
RestOver(t) ==
  /\ waitPc[t] = "asleep" /\ WaitGoto(t, "relock")
  /\ UNCHANGED <<looper, ready, held, woken, steady, waitLoc, pollers>>
\* A whole millisecond is taken off, however short the rest was; the last
\* one ends the call without another look.
Relock(t) ==
  /\ waitPc[t] = "relock" /\ MyLooper(t).m = NoThread
  /\ IF waitLoc[t].ms = 1 THEN Return(t)
     ELSE WaitGoto(t, "enter") /\ waitLoc' = [waitLoc EXCEPT ![t].ms = IF @ > 0 THEN @ - 1 ELSE @]
  /\ UNCHANGED <<looper, ready, held, woken, steady, pollers>>

-----------------------------------------------------------------------------
(***************************************************************************)
(* nx_poll and nx_select with an emulated descriptor among those asked for. *)
(***************************************************************************)
Poll(t) ==
  /\ waitPc[t] = "idle" /\ t \in pollers
  /\ \E ask \in SUBSET Fds \ {{}}, ms \in Timeouts :
       /\ waitLoc' = [waitLoc EXCEPT ![t] = [NoWaitLoc EXCEPT !.ask = ask, !.left = ask, !.ms = ms]]
       /\ steady' = [steady EXCEPT ![t] = IF ms = 0 THEN ask \cap ready ELSE {}]
  /\ WaitGoto(t, "sample") /\ UNCHANGED <<looper, ready, held, woken, pollers>>

Sample(t, fd) ==
  /\ waitPc[t] = "sample" /\ fd \in waitLoc[t].left
  /\ waitLoc' = [waitLoc EXCEPT ![t].left = @ \ {fd}, ![t].found = @ \/ fd \in ready]
  /\ UNCHANGED <<looper, ready, held, woken, steady, waitPc, pollers>>
\* Ready descriptors, or no time left: the call returns; else it sleeps.
Sampled(t) ==
  /\ waitPc[t] = "sample" /\ waitLoc[t].left = {}
  /\ IF waitLoc[t].found THEN Return(t) /\ steady' = [steady EXCEPT ![t] = {}]
     ELSE WaitGoto(t, IF waitLoc[t].ms = 0 THEN "nothing" ELSE "nap") /\ UNCHANGED <<waitLoc, steady>>
  /\ UNCHANGED <<looper, ready, held, woken, pollers>>
ReturnNothing(t) ==
  /\ waitPc[t] = "nothing" /\ Return(t)
  /\ steady' = [steady EXCEPT ![t] = {}] /\ UNCHANGED <<looper, ready, held, woken, pollers>>

\* Mutant: poll ends the call after its last rest, as pollOnce does.
NapIsLast(t) ==
  /\ waitPc[t] = "nap"
  /\ waitLoc' = [waitLoc EXCEPT ![t].ms = IF @ > 0 THEN @ - 1 ELSE @, ![t].left = waitLoc[t].ask]
  /\ steady' = [steady EXCEPT ![t] = IF waitLoc[t].ms = 1 THEN waitLoc[t].ask \cap ready ELSE {}]
  /\ WaitGoto(t, IF waitLoc[t].ms = 1 THEN "nothing" ELSE "sample")
  /\ UNCHANGED <<looper, ready, held, woken, pollers>>

Nap(t) ==
  /\ waitPc[t] = "nap"
  /\ waitLoc' = [waitLoc EXCEPT ![t].ms = IF @ > 0 THEN @ - 1 ELSE @, ![t].left = waitLoc[t].ask]
  /\ steady' = [steady EXCEPT ![t] = IF waitLoc[t].ms = 1 THEN waitLoc[t].ask \cap ready ELSE {}]
  /\ WaitGoto(t, "sample") /\ UNCHANGED <<looper, ready, held, woken, pollers>>

WaitStep(t) ==
  \/ Prepare(t) \/ ThreadEnds(t)
  \/ \E l \in 1..NLoopers :
       \/ Acquire(t, l) \/ Release(t, l) \/ WakeLooper(t, l)
       \/ \E fd \in Fds : RemoveFd(t, l, fd)
                          \/ \E kind \in {"ident", "callback"} : AddFd(t, l, fd, kind)
  \/ PollOnce(t) \/ TakeWake(t) \/ Enter(t) \/ CallbackReturns(t) \/ RemoveAfter(t)
  \/ Rest(t) \/ RestOver(t) \/ Relock(t) \/ Poll(t) \/ Sampled(t) \/ ReturnNothing(t) \/ Nap(t)
  \/ \E fd \in Fds : Scan(t, fd) \/ Sample(t, fd)
WaitNext ==
  \/ \E t \in Threads : WaitStep(t)
  \/ \E fd \in Fds : BecomeReady(fd) \/ BecomeUnready(fd)
WaitSpec == WaitInit /\ [][WaitNext]_waitVars

-----------------------------------------------------------------------------
(* Properties *)

\* A wake-up is there until the thread whose looper was woken has taken it:
\* no other thread's looper takes over the slot, and no timeout eats the
\* signal (android_ndk.c:28-31, 61, 81-83).
WakeKept ==
  \A t \in Threads : woken[t] => \E l \in Own(t) : looper[l].signaled

\* poll and select report nothing only if each descriptor was unready at
\* some moment after the time had run out (imports.c:403-421, 447-487).
LooksLast == \A t \in Threads : waitPc[t] = "nothing" => steady[t] = {}

\* No wait gives up over something that is there to be seen.
NothingMissed == WakeKept /\ LooksLast

=============================================================================
