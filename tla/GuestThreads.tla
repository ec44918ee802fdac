---------------------------- MODULE GuestThreads ----------------------------
(***************************************************************************)
(* Guest threads of source/bionic.c: pthread_create, join, detach, exit and *)
(* the reaping of detached threads that every create, join and detach does. *)
(* A GuestThread is known by its handle, which is also its pthread_t.  Each *)
(* action is one critical section of g_thread_lock, or one kernel call      *)
(* between two of them.                                                     *)
(*                                                                          *)
(* Names, affinity, TLS values and stack addresses are data no step here    *)
(* depends on; destructors run on the thread before it stores its result.   *)
(***************************************************************************)
EXTENDS Integers, FiniteSets

CONSTANTS
  Main,     \* the main thread, which has no GuestThread
  Handles   \* kernel handles; a closed one may be given out again
            \* once no call names it

\* What the theorems assume of them.
GuestThreadsAssumption == Main \notin Handles

VARIABLES
  obj,   \* the GuestThreads, by handle
  list,  \* g_guest_threads
  kern,  \* what the kernel knows of each handle
  at,    \* where each thread is in one of the calls below
  mem    \* its locals there: the GuestThread, what follows the reaping, and
         \* the GuestThread being reaped

threadVars == <<obj, list, kern, at, mem>>

AllThreads == Handles \cup {Main}

NoObj == [allocated |-> FALSE, detached |-> FALSE, joining |-> FALSE, finished |-> FALSE]
NewObj(detached) == [NoObj EXCEPT !.allocated = TRUE, !.detached = detached]

Blank == [h |-> Main, next |-> "idle", victim |-> Main]

ThreadsInit ==
  /\ obj = [h \in Handles |-> NoObj]
  /\ list = {}
  /\ kern = [h \in Handles |-> "none"]
  /\ at = [t \in AllThreads |-> IF t = Main THEN "idle" ELSE "off"]
  /\ mem = [t \in AllThreads |-> Blank]

Is(t, where) == at[t] = where
Move(t, where) == at' = [at EXCEPT ![t] = where]

\* The call of t is over.
Ended(t) ==
  /\ at' = [at EXCEPT ![t] = "idle"]
  /\ mem' = [mem EXCEPT ![t] = Blank]

\* t begins to reap, for the sake of handle h, and goes on at next.
Enter(t, h, next) ==
  /\ at' = [at EXCEPT ![t] = "reap"]
  /\ mem' = [mem EXCEPT ![t] = [h |-> h, next |-> next, victim |-> Main]]

-----------------------------------------------------------------------------
(***************************************************************************)
(* guest_thread_reap_detached.                                              *)
(***************************************************************************)
\* Mutant: the thread need not have ended.
ReapableRunning(h, t) == h \in list /\ obj[h].detached /\ ~obj[h].joining /\ h # t

Reapable(h, t) ==
  /\ h \in list /\ obj[h].detached /\ ~obj[h].joining /\ h # t
  /\ kern[h] = "exited"

\* One victim is unlinked ...
ReapTake(t) ==
  /\ Is(t, "reap")
  /\ \E h \in Handles :
       /\ Reapable(h, t)
       /\ list' = list \ {h}
       /\ at' = [at EXCEPT ![t] = "free"]
       /\ mem' = [mem EXCEPT ![t].victim = h]
  /\ UNCHANGED <<obj, kern>>

\* ... and closed and freed outside the lock.
ReapFree(t) ==
  /\ Is(t, "free")
  /\ obj' = [obj EXCEPT ![mem[t].victim] = NoObj]
  /\ kern' = [kern EXCEPT ![mem[t].victim] = "none"]
  /\ at' = [at EXCEPT ![t] = "reap"]
  /\ mem' = [mem EXCEPT ![t].victim = Main]
  /\ UNCHANGED list

ReapDone(t) ==
  /\ Is(t, "reap")
  /\ \A h \in Handles : ~Reapable(h, t)
  /\ IF mem[t].next = "idle" THEN Ended(t) ELSE Move(t, mem[t].next) /\ UNCHANGED mem
  /\ UNCHANGED <<obj, list, kern>>

-----------------------------------------------------------------------------
(***************************************************************************)
(* bionic_pthread_create.                                                   *)
(***************************************************************************)
Create(t) ==
  /\ Is(t, "idle")
  /\ Enter(t, Main, "alloc")
  /\ UNCHANGED <<obj, list, kern>>

\* A handle carries a count the kernel advances with every object, so a new
\* thread does not get the handle that a call in progress still names.
FreshHandle(h) == kern[h] = "none" /\ \A t \in AllThreads : mem[t].h # h

\* calloc and threadCreate.
Alloc(t) ==
  /\ Is(t, "alloc")
  /\ \E h \in Handles, detached \in BOOLEAN :
       /\ FreshHandle(h)
       /\ obj' = [obj EXCEPT ![h] = NewObj(detached)]
       /\ kern' = [kern EXCEPT ![h] = "created"]
       /\ mem' = [mem EXCEPT ![t].h = h]
  /\ Move(t, "add")
  /\ UNCHANGED list

\* ENOMEM or EAGAIN: nothing is left behind.
AllocFails(t) ==
  /\ Is(t, "alloc")
  /\ Ended(t)
  /\ UNCHANGED <<obj, list, kern>>

Add(t) ==
  /\ Is(t, "add")
  /\ list' = list \cup {mem[t].h}
  /\ Move(t, "start")
  /\ UNCHANGED <<obj, kern, mem>>

\* threadStart succeeds: the new thread may run at once.
Start(t) ==
  /\ Is(t, "start")
  /\ kern' = [kern EXCEPT ![mem[t].h] = "running"]
  /\ at' = [at EXCEPT ![t] = "log", ![mem[t].h] = "idle"]
  /\ UNCHANGED <<obj, list, mem>>

\* The log line after threadStart reads the new GuestThread once more.
CreateLog(t) ==
  /\ Is(t, "log")
  /\ Ended(t)
  /\ UNCHANGED <<obj, list, kern>>

\* Mutant: the GuestThread stays in the list when it is freed.
StartFailsListed(t) ==
  /\ Is(t, "start")
  /\ Move(t, "close")
  /\ UNCHANGED <<obj, list, kern, mem>>

\* threadStart fails: unlink, close, free.
StartFails(t) ==
  /\ Is(t, "start")
  /\ list' = list \ {mem[t].h}
  /\ Move(t, "close")
  /\ UNCHANGED <<obj, kern, mem>>

\* threadClose and free at the end of join and of a failed create.
CloseFree(t) ==
  /\ Is(t, "close")
  /\ obj' = [obj EXCEPT ![mem[t].h] = NoObj]
  /\ kern' = [kern EXCEPT ![mem[t].h] = "none"]
  /\ Ended(t)
  /\ UNCHANGED list

-----------------------------------------------------------------------------
(***************************************************************************)
(* bionic_pthread_join and bionic_pthread_detach.  The guest may pass any   *)
(* handle that is not still being created.                                  *)
(***************************************************************************)
\* Mutant: a second joiner is let in.
ClaimableTwice(h) == h \in list /\ ~obj[h].detached

\* The thread is known and nobody has detached it or joins it.
Claimable(h) == h \in list /\ ~obj[h].detached /\ ~obj[h].joining

Join(t, h) ==
  /\ Is(t, "idle")
  /\ h # t /\ kern[h] # "created"
  /\ Enter(t, h, "lookup")
  /\ UNCHANGED <<obj, list, kern>>

JoinLookup(t) ==
  LET h == mem[t].h IN
  /\ Is(t, "lookup")
  /\ IF Claimable(h)
       THEN /\ obj' = [obj EXCEPT ![h].joining = TRUE]
            /\ Move(t, "joinwait")
            /\ UNCHANGED mem
       ELSE Ended(t) /\ UNCHANGED obj
  /\ UNCHANGED <<list, kern>>

\* threadWaitForExit returns; the result is read.
JoinWaited(t) ==
  /\ Is(t, "joinwait")
  /\ kern[mem[t].h] = "exited"
  /\ Move(t, "unlink")
  /\ UNCHANGED <<obj, list, kern, mem>>

\* threadWaitForExit fails: the thread may be joined again.
JoinWaitFails(t) ==
  /\ Is(t, "joinwait")
  /\ obj' = [obj EXCEPT ![mem[t].h].joining = FALSE]
  /\ Ended(t)
  /\ UNCHANGED <<list, kern>>

JoinUnlink(t) ==
  /\ Is(t, "unlink")
  /\ list' = list \ {mem[t].h}
  /\ Move(t, "close")
  /\ UNCHANGED <<obj, kern, mem>>

\* An unknown, detached or joined thread is an error that changes nothing.
Detach(t, h) ==
  /\ Is(t, "idle")
  /\ kern[h] # "created"
  /\ Claimable(h)
  /\ obj' = [obj EXCEPT ![h].detached = TRUE]
  /\ Enter(t, Main, "idle")
  /\ UNCHANGED <<list, kern>>

-----------------------------------------------------------------------------
(***************************************************************************)
(* thread_entry and bionic_pthread_exit.                                    *)
(***************************************************************************)
\* The thread function has returned, or called pthread_exit; the destructors
\* have run, and the result is stored under the lock.
Finish(h) ==
  /\ Is(h, "idle") /\ kern[h] = "running"
  /\ obj' = [obj EXCEPT ![h].finished = TRUE]
  /\ Move(h, "ending")
  /\ UNCHANGED <<list, kern, mem>>

\* The kernel ends the thread and signals its handle.
Exit(h) ==
  /\ Is(h, "ending")
  /\ kern' = [kern EXCEPT ![h] = "exited"]
  /\ Move(h, "off")
  /\ UNCHANGED <<obj, list, mem>>

GuestCall(t) ==
  \/ ReapTake(t) \/ ReapFree(t) \/ ReapDone(t)
  \/ Create(t) \/ Alloc(t) \/ AllocFails(t) \/ Add(t) \/ Start(t) \/ StartFails(t)
  \/ CreateLog(t) \/ CloseFree(t)
  \/ JoinLookup(t) \/ JoinWaited(t) \/ JoinWaitFails(t) \/ JoinUnlink(t)
  \/ \E h \in Handles : Join(t, h) \/ Detach(t, h)

ThreadsNext == (\E t \in AllThreads : GuestCall(t)) \/ (\E h \in Handles : Finish(h) \/ Exit(h))

ThreadsSpec == ThreadsInit /\ [][ThreadsNext]_threadVars

-----------------------------------------------------------------------------
(***************************************************************************)
(* Properties.                                                              *)
(***************************************************************************)
\* The type invariant.
ThreadsOK ==
  /\ obj \in [Handles -> [allocated : BOOLEAN, detached : BOOLEAN,
                          joining : BOOLEAN, finished : BOOLEAN]]
  /\ list \subseteq Handles
  /\ kern \in [Handles -> {"none", "created", "running", "exited"}]
  /\ at \in [AllThreads -> {"off", "idle", "reap", "free", "alloc", "add", "start", "log",
                            "close", "lookup", "joinwait", "unlink", "ending"}]
  /\ mem \in [AllThreads -> [h : AllThreads, next : {"idle", "alloc", "lookup"}, victim : AllThreads]]

\* Thread t alone is about to link, or to close and free, the GuestThread of h.
Claims(t, h) ==
  \/ at[t] \in {"add", "close"} /\ mem[t].h = h
  \/ at[t] = "free" /\ mem[t].victim = h

\* Thread t is inside a join of h.
Joins(t, h) == at[t] \in {"joinwait", "unlink"} /\ mem[t].h = h

\* Every allocated GuestThread is in the list or in the hands of exactly one
\* thread that will link it or free it: joiners, detachers, reapers and failed
\* creates never free one twice, and none is lost.
OneReclaimer ==
  \A h \in Handles :
    /\ obj[h].allocated <=> (h \in list \/ \E t \in AllThreads : Claims(t, h))
    /\ h \in list => \A t \in AllThreads : ~Claims(t, h)
    /\ \A t, u \in AllThreads : Claims(t, h) /\ Claims(u, h) => t = u

\* A join that has found its thread keeps it: it is the only one, the thread
\* stays listed, and nobody may detach it and so let it be reaped.
JoinerKeeps ==
  \A h \in Handles :
    /\ \A t \in AllThreads : Joins(t, h) => h \in list /\ obj[h].joining /\ ~obj[h].detached
    /\ \A t, u \in AllThreads : Joins(t, h) /\ Joins(u, h) => t = u

\* A thread that can still run has its GuestThread, which it uses until its end,
\* and its handle is open; one is given up only after its thread has ended and
\* stored its result, or if it never started.
FreedAfterEnd ==
  \A h \in Handles :
    /\ kern[h] = "running" => h \in list
    /\ \A t \in AllThreads :
         /\ at[t] \in {"free", "unlink"} /\ (Claims(t, h) \/ Joins(t, h)) =>
              kern[h] = "exited" /\ obj[h].finished
         /\ at[t] = "start" /\ mem[t].h = h => h \in list /\ kern[h] = "created"
=============================================================================
