----------------------------- MODULE StopWorld -----------------------------
(***************************************************************************)
(* The semaphores of source/bionic.c, and the collector's way to stop the   *)
(* world with them: pthread_kill with its suspend signal pauses a thread    *)
(* and posts the acknowledgement the thread's signal handler would have     *)
(* posted, its restart signal lets it run again.                            *)
(*                                                                          *)
(* A thread may be paused at any point, so every lock a semaphore call      *)
(* takes is here with its holder: g_slots_lock, for the lookup, and the     *)
(* host mutex of the semaphore's slot.  Guest semaphores have been          *)
(* initialised, so the lookup finds them.                                   *)
(*                                                                          *)
(* The collector's own code is the guest's: it signals each thread, waits   *)
(* for as many acknowledgements, collects, and signals each thread again.   *)
(***************************************************************************)
EXTENDS Integers, FiniteSets

CONSTANTS
  Mutators,     \* threads in the collector's table
  Collector,    \* the thread that collects
  NoThread,     \* nobody
  MaxCount      \* bound: posts to the guest's own semaphore

Threads == Mutators \cup {Collector}
Sems == {"ack", "user"}

\* Threads are registered one by one, and the collector does not stop itself.
ASSUME StopWorldAssumption ==
  /\ IsFiniteSet(Mutators)
  /\ Collector \notin Mutators
  /\ NoThread \notin Threads

VARIABLES
  slotsLock,    \* holder of g_slots_lock
  sem,          \* the slot of each semaphore: m, cv and count
  activity,     \* kernel: whether each thread may run
  paused,       \* g_boehm_paused: the threads with a used entry
  state,        \* suspend_state in each thread's record, with its stack_ptr
  restartAck,   \* the collector's own switch: restarts are acknowledged too
  todo,         \* collector: threads still to be signalled
  acks,         \* collector: acknowledgements still to be waited for
  pc, loc       \* where each thread is, and its locals there

gcVars == <<activity, paused, state, restartAck, todo, acks>>
vars == <<slotsLock, sem, gcVars, pc, loc>>

NoLoc == [op |-> "none", s |-> "user", next |-> "idle", late |-> FALSE, m |-> NoThread]

Init ==
  /\ slotsLock = NoThread
  /\ sem = [s \in Sems |-> [m |-> NoThread, cv |-> {}, count |-> 0]]
  /\ activity = [t \in Threads |-> "runnable"]
  /\ paused = {} /\ state = [t \in Mutators |-> "old"]
  /\ restartAck \in BOOLEAN
  /\ todo = {} /\ acks = 0
  /\ pc = [t \in Threads |-> "idle"] /\ loc = [t \in Threads |-> NoLoc]

Runs(t, where) == activity[t] = "runnable" /\ pc[t] = where
Goto(t, where) == pc' = [pc EXCEPT ![t] = where]
Sem(t) == sem[loc[t].s]

-----------------------------------------------------------------------------
(***************************************************************************)
(* bionic_sem_post, sem_wait, sem_trywait and sem_timedwait.                *)
(***************************************************************************)
\* t calls op on s, and goes on at next; m is what the collector is about.
Enter(t, op, s, next, m) ==
  /\ Goto(t, "get")
  /\ loc' = [loc EXCEPT ![t] = [op |-> op, s |-> s, next |-> next, late |-> FALSE, m |-> m]]

Return(t) == Goto(t, loc[t].next) /\ loc' = [loc EXCEPT ![t] = [NoLoc EXCEPT !.m = loc[t].m]]

\* slot_get takes the lock of the table ...
GetLock(t) ==
  /\ Runs(t, "get") /\ slotsLock = NoThread
  /\ slotsLock' = t /\ Goto(t, "got")
  /\ UNCHANGED <<sem, gcVars, loc>>

\* ... and gives it back.
GetUnlock(t) ==
  /\ Runs(t, "got")
  /\ slotsLock' = NoThread /\ Goto(t, "lock")
  /\ UNCHANGED <<sem, gcVars, loc>>

\* mutexLock, also on the way out of condvarWait.
Lock(t) ==
  /\ Runs(t, "lock") \/ (Runs(t, "asleep") /\ t \notin Sem(t).cv)
  /\ Sem(t).m = NoThread
  /\ sem' = [sem EXCEPT ![loc[t].s].m = t]
  /\ Goto(t, "in")
  /\ UNCHANGED <<slotsLock, gcVars, loc>>

\* The slot after a post whose condvarWakeOne wakes u, or nobody.
Posted(s, u) == [sem[s] EXCEPT !.count = @ + 1, !.cv = @ \ {u}, !.m = NoThread]

\* Mutant: only the first post wakes somebody.
PostWakesFirst(t) ==
  LET s == loc[t].s IN
  /\ Runs(t, "in") /\ loc[t].op = "post"
  /\ \E u \in IF sem[s].cv = {} \/ sem[s].count > 0 THEN {NoThread} ELSE sem[s].cv :
       sem' = [sem EXCEPT ![s] = Posted(s, u)]
  /\ Return(t)
  /\ UNCHANGED <<slotsLock, gcVars>>

Post(t) ==
  LET s == loc[t].s IN
  /\ Runs(t, "in") /\ loc[t].op = "post"
  /\ \E u \in IF sem[s].cv = {} THEN {NoThread} ELSE sem[s].cv :
       sem' = [sem EXCEPT ![s] = Posted(s, u)]
  /\ Return(t)
  /\ UNCHANGED <<slotsLock, gcVars>>

Waits(t) == Runs(t, "in") /\ loc[t].op \in {"wait", "trywait", "timedwait"}

\* A wait that timed out does not look at the count again.
Take(t) ==
  /\ Waits(t) /\ ~loc[t].late /\ Sem(t).count > 0
  /\ sem' = [sem EXCEPT ![loc[t].s].count = @ - 1, ![loc[t].s].m = NoThread]
  /\ Return(t)
  /\ UNCHANGED <<slotsLock, gcVars>>

\* EAGAIN, or ETIMEDOUT after a sleep or at once.
GiveUp(t) ==
  /\ Waits(t)
  /\ loc[t].late \/ (loc[t].op # "wait" /\ Sem(t).count <= 0)
  /\ sem' = [sem EXCEPT ![loc[t].s].m = NoThread]
  /\ Return(t)
  /\ UNCHANGED <<slotsLock, gcVars>>

\* condvarWait and condvarWaitTimeout.
Sleep(t) ==
  /\ Waits(t) /\ ~loc[t].late /\ loc[t].op # "trywait" /\ Sem(t).count <= 0
  /\ sem' = [sem EXCEPT ![loc[t].s].m = NoThread, ![loc[t].s].cv = @ \cup {t}]
  /\ Goto(t, "asleep")
  /\ UNCHANGED <<slotsLock, gcVars, loc>>

\* The kernel's step: a paused thread may time out, too.
TimesOut(t) ==
  /\ pc[t] = "asleep" /\ loc[t].op = "timedwait" /\ t \in Sem(t).cv
  /\ sem' = [sem EXCEPT ![loc[t].s].cv = @ \ {t}]
  /\ loc' = [loc EXCEPT ![t].late = TRUE]
  /\ UNCHANGED <<slotsLock, gcVars, pc>>

-----------------------------------------------------------------------------
(***************************************************************************)
(* bionic_pthread_kill with the suspend signal: boehm_horizon_suspend.      *)
(***************************************************************************)
\* The collector begins to stop the world; its new marker makes the old states stale.
StopBegin ==
  /\ Runs(Collector, "idle")
  /\ todo' = Mutators /\ acks' = 0
  /\ state' = [t \in Mutators |-> "old"]
  /\ Goto(Collector, "stop")
  /\ UNCHANGED <<slotsLock, sem, activity, paused, restartAck, loc>>

\* svcSetThreadActivity; the calls that validate the thread come before.
Pause(m) ==
  /\ Runs(Collector, "stop") /\ m \in todo
  /\ activity' = [activity EXCEPT ![m] = "paused"]
  /\ loc' = [loc EXCEPT ![Collector].m = m]
  /\ Goto(Collector, "mark")
  /\ UNCHANGED <<slotsLock, sem, paused, state, restartAck, todo, acks>>

\* The context is on the thread's stack, the record says so, and sem_post follows.
Mark ==
  LET m == loc[Collector].m IN
  /\ Runs(Collector, "mark")
  /\ paused' = paused \cup {m}
  /\ state' = [state EXCEPT ![m] = "stopped"]
  /\ Enter(Collector, "post", "ack", "stopped", m)
  /\ UNCHANGED <<slotsLock, sem, activity, restartAck, todo, acks>>

\* No context, no free entry, or no room on the stack: the thread runs on.  The
\* collector aborts on the error.
MarkFails ==
  LET m == loc[Collector].m IN
  /\ Runs(Collector, "mark")
  /\ activity' = [activity EXCEPT ![m] = "runnable"]
  /\ paused' = paused \ {m}
  /\ Goto(Collector, "aborted") /\ loc' = [loc EXCEPT ![Collector] = NoLoc]
  /\ UNCHANGED <<slotsLock, sem, state, restartAck, todo, acks>>

\* pthread_kill has returned 0.
Stopped ==
  /\ Runs(Collector, "stopped")
  /\ todo' = todo \ {loc[Collector].m} /\ acks' = acks + 1
  /\ loc' = [loc EXCEPT ![Collector] = NoLoc]
  /\ Goto(Collector, IF todo' = {} THEN "await" ELSE "stop")
  /\ UNCHANGED <<slotsLock, sem, activity, paused, state, restartAck>>

-----------------------------------------------------------------------------
\* The collector waits for an acknowledgement of each thread.
Await ==
  /\ Runs(Collector, "await") /\ acks > 0
  /\ acks' = acks - 1
  /\ Enter(Collector, "wait", "ack", "await", NoThread)
  /\ UNCHANGED <<slotsLock, sem, activity, paused, state, restartAck, todo>>

\* All are in: the world has stopped, or runs again.
Collect ==
  /\ Runs(Collector, "await") /\ acks = 0
  /\ IF paused # {}
       THEN Goto(Collector, "restart") /\ todo' = Mutators
       ELSE Goto(Collector, "idle") /\ UNCHANGED todo
  /\ UNCHANGED <<slotsLock, sem, activity, paused, state, restartAck, acks, loc>>

(***************************************************************************)
(* bionic_pthread_kill with the restart signal: boehm_horizon_restart.      *)
(***************************************************************************)
\* Mutant: the collector's switch is not looked at.
RestartAlwaysPosts(m) ==
  /\ Runs(Collector, "restart") /\ m \in todo
  /\ state' = [state EXCEPT ![m] = "restarted"]
  /\ Enter(Collector, "post", "ack", "resume", m)
  /\ UNCHANGED <<slotsLock, sem, activity, paused, restartAck, todo, acks>>

Restart(m) ==
  /\ Runs(Collector, "restart") /\ m \in todo
  /\ IF m \in paused /\ restartAck
       THEN /\ state' = [state EXCEPT ![m] = "restarted"]
            /\ Enter(Collector, "post", "ack", "resume", m)
       ELSE /\ Goto(Collector, "resume") /\ loc' = [loc EXCEPT ![Collector].m = m]
            /\ UNCHANGED state
  /\ UNCHANGED <<slotsLock, sem, activity, paused, restartAck, todo, acks>>

\* Mutant: a thread whose restart was acknowledged is taken to run.
ResumeUnacknowledged ==
  LET m == loc[Collector].m IN
  /\ Runs(Collector, "resume")
  /\ activity' = IF restartAck THEN activity ELSE [activity EXCEPT ![m] = "runnable"]
  /\ paused' = paused \ {m}
  /\ todo' = todo \ {m}
  /\ acks' = IF restartAck THEN acks + 1 ELSE acks
  /\ loc' = [loc EXCEPT ![Collector] = NoLoc]
  /\ Goto(Collector, IF todo' = {} THEN "await" ELSE "restart")
  /\ UNCHANGED <<slotsLock, sem, state, restartAck>>

Resume ==
  LET m == loc[Collector].m IN
  /\ Runs(Collector, "resume")
  /\ activity' = [activity EXCEPT ![m] = "runnable"]
  /\ paused' = paused \ {m}
  /\ todo' = todo \ {m}
  /\ acks' = IF restartAck THEN acks + 1 ELSE acks
  /\ loc' = [loc EXCEPT ![Collector] = NoLoc]
  /\ Goto(Collector, IF todo' = {} THEN "await" ELSE "restart")
  /\ UNCHANGED <<slotsLock, sem, state, restartAck>>

-----------------------------------------------------------------------------
\* A thread is paused while it holds a lock that sem_post takes.
HolderPaused ==
  \E m \in Mutators : activity[m] = "paused" /\ (slotsLock = m \/ sem["ack"].m = m)

\* The program may stop: it has aborted, or waits for a lock whose holder is paused.
Halted ==
  /\ \/ pc[Collector] = "aborted" \/ HolderPaused
     \/ \E m \in Mutators : activity[m] = "paused" /\ sem["user"].m = m
  /\ UNCHANGED vars

Collects ==
  \/ StopBegin \/ Mark \/ MarkFails \/ Stopped \/ Await \/ Collect \/ Resume
  \/ \E m \in Mutators : Pause(m) \/ Restart(m)

\* A thread uses the guest's semaphore; the collector does not wait for it.
Call(t) ==
  /\ Runs(t, "idle")
  /\ \E op \in {"post", "wait", "trywait", "timedwait"} :
       /\ IF op = "post" THEN sem["user"].count < MaxCount ELSE t # Collector
       /\ Enter(t, op, "user", "idle", NoThread)
  /\ UNCHANGED <<slotsLock, sem, gcVars>>

Proceeds(t) ==
  GetLock(t) \/ GetUnlock(t) \/ Lock(t) \/ Post(t) \/ Take(t) \/ GiveUp(t) \/ Sleep(t)

Next == \/ Collects \/ Halted
        \/ \E t \in Threads : Proceeds(t) \/ TimesOut(t)
        \/ \E t \in Threads : Call(t)

Spec == Init /\ [][Next]_vars

\* The scheduler runs every thread that can run, and a host mutex that is free again
\* and again is got in the end; no mutator is obliged to make a call.
Fairness ==
  /\ \A t \in Threads : SF_vars(Proceeds(t))
  /\ WF_vars(Collects /\ ~Runs(Collector, "idle"))

FairSpec == Spec /\ Fairness

-----------------------------------------------------------------------------
(***************************************************************************)
(* Properties.                                                              *)
(***************************************************************************)
\* The type invariant.
TypeOK ==
  /\ slotsLock \in Threads \cup {NoThread}
  /\ sem \in [Sems -> [m : Threads \cup {NoThread}, cv : SUBSET Threads, count : Nat]]
  /\ activity \in [Threads -> {"runnable", "paused"}]
  /\ paused \subseteq Mutators /\ todo \subseteq Mutators /\ acks \in Nat
  /\ state \in [Mutators -> {"old", "stopped", "restarted"}]
  /\ restartAck \in BOOLEAN

\* Threads that a post has woken and that have not got the mutex back.
WokenBy(s) ==
  {t \in Threads : loc[t].s = s /\ ~loc[t].late /\ t \notin sem[s].cv
                   /\ (pc[t] = "asleep" \/ (pc[t] = "in" /\ loc[t].op # "post"))}

\* While a thread sleeps for a semaphore, every unit posted has another thread on
\* its way to take it: no post is lost to a wait that timed out or was overtaken.
NoLostPost ==
  \A s \in Sems : sem[s].cv # {} => Cardinality(WokenBy(s)) >= sem[s].count

\* While the collector collects, every thread is paused and has its state stored,
\* although acknowledgements of restarts go to the same semaphore.
WorldStopped ==
  (pc[Collector] = "await" /\ acks = 0 /\ paused # {}) =>
    /\ sem["ack"].count = 0
    /\ \A m \in Mutators : activity[m] = "paused" /\ m \in paused /\ state[m] = "stopped"

\* A thread that is paused runs again: the collector gets through its signals and
\* acknowledgements, unless it paused a thread in the few instructions it holds the
\* table's lock for.
PausedRunsAgain ==
  \A m \in Mutators :
    activity[m] = "paused" ~> activity[m] = "runnable" \/ pc[Collector] = "aborted" \/ HolderPaused
=============================================================================
