---------------------------- MODULE StopWorldProofs ----------------------------
(***************************************************************************)
(* For any threads: no post to a semaphore is lost on a sleeping thread,    *)
(* and when the collector collects every other thread is paused with its    *)
(* state stored.                                                            *)
(***************************************************************************)
EXTENDS StopWorld, FiniteSetTheorems, TLAPS

Calling == {"get", "got", "lock", "in"}
Places == Calling \cup {"idle", "asleep", "stop", "mark", "stopped", "await", "aborted",
                        "restart", "resume"}
Locals == [op : {"none", "post", "wait", "trywait", "timedwait"}, s : Sems,
           next : {"idle", "stopped", "await", "resume"}, late : BOOLEAN,
           m : Mutators \cup {NoThread}]
Slot == [m : Threads \cup {NoThread}, cv : SUBSET Threads, count : Nat]

Typed ==
  /\ slotsLock \in Threads \cup {NoThread} /\ sem \in [Sems -> Slot]
  /\ activity \in [Threads -> {"runnable", "paused"}]
  /\ paused \subseteq Mutators /\ todo \subseteq Mutators /\ acks \in Nat
  /\ state \in [Mutators -> {"old", "stopped", "restarted"}] /\ restartAck \in BOOLEAN
  /\ pc \in [Threads -> Places] /\ loc \in [Threads -> Locals]

\* Who is in a semaphore's condition variable sleeps there, and has not timed out.
Asleep ==
  /\ \A s \in Sems, t \in Threads :
       t \in sem[s].cv => pc[t] = "asleep" /\ loc[t].s = s /\ ~loc[t].late
  /\ \A t \in Threads : pc[t] = "asleep" => loc[t].op # "post"

\* The acknowledgements are between the collector and itself.
MutatorsApart == \A t \in Mutators : loc[t].s = "user"

Down(m) == activity[m] = "paused" /\ m \in paused /\ state[m] = "stopped"
OnCall(op, s, next) ==
  /\ pc[Collector] \in Calling
  /\ loc[Collector].op = op /\ loc[Collector].s = s /\ loc[Collector].next = next
  /\ ~loc[Collector].late
Unacked == sem["ack"].count - acks     \* posts that no wait to come accounts for

Resting ==
  /\ pc[Collector] = "idle" \/ OnCall("post", "user", "idle")
  /\ sem["ack"].count = 0 /\ acks = 0 /\ paused = {}

\* Threads that are no longer to be signalled are down, and so is the one whose
\* acknowledgement is being posted.
Stopping ==
  /\ \A m \in Mutators \ todo : Down(m)
  /\ \/ pc[Collector] = "stop" /\ Unacked = 0
     \/ /\ loc[Collector].m \in todo
        /\ \/ pc[Collector] = "mark" /\ Unacked = 0 /\ activity[loc[Collector].m] = "paused"
           \/ OnCall("post", "ack", "stopped") /\ Unacked = 0 /\ Down(loc[Collector].m)
           \/ pc[Collector] = "stopped" /\ Unacked = 1 /\ Down(loc[Collector].m)

\* The post that a wait is about has been made.
Awaiting ==
  /\ (\A m \in Mutators : Down(m)) \/ paused = {}
  /\ \/ pc[Collector] = "await" /\ Unacked = 0
     \/ OnCall("wait", "ack", "await") /\ Unacked = 1

Restarting ==
  /\ paused = todo
  /\ \/ pc[Collector] = "restart" /\ Unacked = 0
     \/ /\ loc[Collector].m \in todo
        /\ \/ OnCall("post", "ack", "resume") /\ restartAck /\ Unacked = 0
           \/ pc[Collector] = "resume" /\ Unacked = (IF restartAck THEN 1 ELSE 0)

Collecting == Resting \/ Stopping \/ Awaiting \/ Restarting \/ pc[Collector] = "aborted"

IInv == Typed /\ Asleep /\ MutatorsApart /\ NoLostPost /\ Collecting

-----------------------------------------------------------------------------
\* Where a thread goes, and what it takes along.
OthersStay(t) == \A u \in Threads \ {t} : pc'[u] = pc[u] /\ loc'[u] = loc[u]
LocalsTyped == pc' \in [Threads -> Places] /\ loc' \in [Threads -> Locals]

\* How a thread moves within a call, out of one, and into one.
LEMMA GotoIs ==
  ASSUME Typed, NEW t \in Threads, NEW where \in Places, Goto(t, where), UNCHANGED loc
  PROVE  LocalsTyped /\ OthersStay(t) /\ pc'[t] = where /\ loc'[t] = loc[t]
BY DEF Typed, Goto, LocalsTyped, OthersStay

LEMMA ReturnIs ==
  ASSUME Typed, NEW t \in Threads, Return(t)
  PROVE  /\ LocalsTyped /\ OthersStay(t) /\ pc'[t] = loc[t].next
         /\ loc'[t].s = "user" /\ ~loc'[t].late /\ loc'[t].m = loc[t].m
<1> DEFINE r == [NoLoc EXCEPT !.m = loc[t].m]
<1>1. loc[t] \in Locals /\ loc \in [Threads -> Locals] /\ pc \in [Threads -> Places]
  BY DEF Typed
<1>2. r \in Locals /\ r.s = "user" /\ ~r.late /\ r.m = loc[t].m
  BY <1>1 DEF Locals, NoLoc, Sems
<1>3. loc' = [loc EXCEPT ![t] = r] /\ pc' = [pc EXCEPT ![t] = loc[t].next]
  BY DEF Return, Goto
<1>4. loc[t].next \in Places
  BY <1>1 DEF Locals, Places
<1> HIDE DEF r
<1> QED  BY <1>1, <1>2, <1>3, <1>4 DEF LocalsTyped, OthersStay

LEMMA EnterIs ==
  ASSUME Typed, NEW t \in Threads, NEW op \in {"post", "wait", "trywait", "timedwait"},
         NEW s \in Sems, NEW next \in {"idle", "stopped", "await", "resume"},
         NEW m \in Mutators \cup {NoThread}, Enter(t, op, s, next, m)
  PROVE  /\ LocalsTyped /\ OthersStay(t) /\ pc'[t] = "get"
         /\ loc'[t] = [op |-> op, s |-> s, next |-> next, late |-> FALSE, m |-> m]
<1> DEFINE r == [op |-> op, s |-> s, next |-> next, late |-> FALSE, m |-> m]
<1>1. r \in Locals /\ "get" \in Places
  BY DEF Locals, Places, Calling
<1>2. loc' = [loc EXCEPT ![t] = r] /\ pc' = [pc EXCEPT ![t] = "get"]
  BY DEF Enter, Goto
<1> HIDE DEF r
<1>3. LocalsTyped /\ OthersStay(t) /\ pc'[t] = "get" /\ loc'[t] = r
  BY <1>1, <1>2 DEF Typed, LocalsTyped, OthersStay
<1> QED  BY <1>3 DEF r

-----------------------------------------------------------------------------
\* Sets of threads are finite.
LEMMA ThreadsFinite ==
  ASSUME StopWorldAssumption, NEW S, S \subseteq Threads
  PROVE  IsFiniteSet(S) /\ Cardinality(S) \in Nat
<1>1. IsFiniteSet(Threads)
  BY FS_AddElement DEF StopWorldAssumption, Threads
<1> QED  BY <1>1, FS_Subset, FS_CardinalityType

\* Whether another thread was woken changes only with its semaphore.
LEMMA WokenElse ==
  ASSUME NEW t \in Threads, NEW s \in Sems, OthersStay(t)
  PROVE  /\ WokenBy(s) \subseteq Threads /\ WokenBy(s)' \subseteq Threads
         /\ \A u \in Threads \ {t} :
              (u \in sem'[s].cv <=> u \in sem[s].cv) => (u \in WokenBy(s)' <=> u \in WokenBy(s))
<1>1. WokenBy(s) \subseteq Threads /\ WokenBy(s)' \subseteq Threads
  BY DEF WokenBy
<1>2. ASSUME NEW u \in Threads \ {t}, u \in sem'[s].cv <=> u \in sem[s].cv
      PROVE  u \in WokenBy(s)' <=> u \in WokenBy(s)
  BY <1>2 DEF WokenBy, OthersStay
<1> QED  BY <1>1, <1>2

\* A step of t changes only the semaphore it is about.
LEMMA AtOne ==
  ASSUME IInv, NEW t \in Threads, NEW s \in Sems, OthersStay(t),
         loc[t].s = s, pc'[t] \in {"asleep", "in"} => loc'[t].s = s,
         \A r \in Sems \ {s} : sem'[r] = sem[r],
         sem'[s].cv \subseteq sem[s].cv \cup {t},
         t \in sem'[s].cv => pc'[t] = "asleep" /\ loc'[t].s = s /\ ~loc'[t].late,
         pc'[t] = "asleep" => loc'[t].op # "post",
         sem'[s].cv # {} => Cardinality(WokenBy(s)') >= sem'[s].count
  PROVE  Asleep' /\ NoLostPost'
<1>1. ASSUME NEW r \in Sems \ {s} PROVE t \notin sem[r].cv /\ WokenBy(r)' = WokenBy(r)
  BY <1>1 DEF IInv, Asleep, WokenBy, OthersStay
<1>2. Asleep'
  BY <1>1 DEF IInv, Asleep, OthersStay
<1>3. NoLostPost'
  BY <1>1 DEF IInv, NoLostPost
<1> QED  BY <1>2, <1>3

\* A step outside the semaphores.
LEMMA StepApart ==
  ASSUME IInv, NEW t \in Threads, OthersStay(t), UNCHANGED sem,
         pc[t] \notin {"asleep", "in"}, pc'[t] \notin {"asleep", "in"}
  PROVE  Asleep' /\ NoLostPost'
<1>1. \A s \in Sems : t \notin sem[s].cv /\ WokenBy(s)' = WokenBy(s)
  BY DEF IInv, Asleep, WokenBy, OthersStay
<1>2. Asleep'
  BY <1>1 DEF IInv, Asleep, OthersStay
<1>3. NoLostPost'
  BY <1>1 DEF IInv, NoLostPost
<1> QED  BY <1>2, <1>3

\* A step of t that changes s to c.
LEMMA SlotIs ==
  ASSUME Typed, NEW s \in Sems, NEW c \in Slot, sem' = [sem EXCEPT ![s] = c]
  PROVE  sem' \in [Sems -> Slot] /\ sem'[s] = c /\ \A r \in Sems \ {s} : sem'[r] = sem[r]
BY DEF Typed

-----------------------------------------------------------------------------
\* What one step of a semaphore call does to the call and to its semaphore.
LEMMA LockStep ==
  ASSUME StopWorldAssumption, IInv, NEW t \in Threads, NEW s \in Sems, loc[t].s = s, Lock(t)
  PROVE  /\ Typed' /\ Asleep' /\ NoLostPost' /\ OthersStay(t)
         /\ pc'[t] = "in" /\ loc' = loc
         /\ \A r \in Sems : sem'[r].count = sem[r].count
         /\ \A r \in Sems \ {s} : sem'[r] = sem[r]
<1> DEFINE c == [sem[s] EXCEPT !.m = t]
<1>1. sem[s] \in Slot /\ Typed
  BY DEF IInv, Typed, Locals
<1>2. c \in Slot /\ c.cv = sem[s].cv /\ c.count = sem[s].count
  BY <1>1 DEF Slot
<1>3. sem' = [sem EXCEPT ![s] = c]
  BY DEF Lock
<1> HIDE DEF c
<1>4. sem' \in [Sems -> Slot] /\ sem'[s] = c /\ \A r \in Sems \ {s} : sem'[r] = sem[r]
  BY <1>1, <1>2, <1>3, SlotIs
<1>5. LocalsTyped /\ OthersStay(t) /\ pc'[t] = "in" /\ loc'[t] = loc[t] /\ loc' = loc
  BY <1>1, GotoIs DEF Lock, Places, Calling
<1>6. Typed'
  BY <1>4, <1>5 DEF Lock, IInv, Typed, LocalsTyped, gcVars
<1>7. t \notin sem[s].cv
  BY <1>1 DEF Lock, IInv, Asleep, Sem, Runs
<1>8. WokenBy(s) \subseteq WokenBy(s)' /\ WokenBy(s)' \subseteq Threads
  <2>1. t \in WokenBy(s) => t \in WokenBy(s)'
    BY <1>2, <1>4, <1>5, <1>7 DEF WokenBy, Lock, Runs, IInv, Asleep
  <2> QED  BY <1>1, <1>2, <1>4, <1>5, <2>1, WokenElse
<1>9. sem'[s].cv # {} => Cardinality(WokenBy(s)') >= sem'[s].count
  <2>1. Cardinality(WokenBy(s)) <= Cardinality(WokenBy(s)')
    BY <1>8, ThreadsFinite, FS_Subset
  <2>2. Cardinality(WokenBy(s)) \in Nat /\ Cardinality(WokenBy(s)') \in Nat
    BY <1>8, ThreadsFinite
  <2>3. sem[s].cv # {} => Cardinality(WokenBy(s)) >= sem[s].count
    BY <1>1 DEF IInv, NoLostPost
  <2> QED  BY <1>1, <1>2, <1>4, <2>1, <2>2, <2>3 DEF Slot
<1>10. Asleep' /\ NoLostPost'
  <2>1. t \notin sem'[s].cv /\ sem'[s].cv \subseteq sem[s].cv \cup {t}
    BY <1>2, <1>4, <1>7
  <2> QED  BY <1>4, <1>5, <1>9, <2>1, AtOne
<1> QED  BY <1>2, <1>4, <1>5, <1>6, <1>10

\* A post adds one and wakes; a wait takes one or sleeps; none of them loses a post.
LEMMA PostStep ==
  ASSUME StopWorldAssumption, IInv, NEW t \in Threads, NEW s \in Sems, loc[t].s = s, Post(t)
  PROVE  /\ Typed' /\ Asleep' /\ NoLostPost' /\ OthersStay(t) /\ Return(t)
         /\ sem'[s].count = sem[s].count + 1
         /\ \A r \in Sems \ {s} : sem'[r] = sem[r]
<1>1. sem[s] \in Slot /\ Typed /\ loc[t] \in Locals
  BY DEF IInv, Typed, Locals
<1>2. PICK u \in (IF sem[s].cv = {} THEN {NoThread} ELSE sem[s].cv) :
        sem' = [sem EXCEPT ![s] = Posted(s, u)]
  BY DEF Post
<1> DEFINE c == Posted(s, u)
<1>3. c \in Slot /\ c.cv = sem[s].cv \ {u} /\ c.count = sem[s].count + 1
  <2>1. sem[s].count + 1 \in Nat /\ sem[s].cv \ {u} \subseteq Threads
    BY <1>1 DEF Slot
  <2> QED  BY <1>1, <2>1 DEF Slot, Posted
<1> HIDE DEF c
<1>4. sem' \in [Sems -> Slot] /\ sem'[s] = c /\ \A r \in Sems \ {s} : sem'[r] = sem[r]
  BY <1>1, <1>2, <1>3, SlotIs DEF c
<1>5. /\ LocalsTyped /\ OthersStay(t) /\ Return(t)
      /\ pc[t] = "in" /\ loc[t].op = "post" /\ pc'[t] \notin {"asleep", "in"}
  BY <1>1, ReturnIs DEF Post, Runs, Locals
<1>6. Typed'
  BY <1>4, <1>5 DEF Post, IInv, Typed, LocalsTyped, gcVars
<1>7. t \notin sem[s].cv
  BY <1>1, <1>5 DEF IInv, Asleep
<1>8. sem'[s].cv # {} => Cardinality(WokenBy(s)') >= sem'[s].count
  <2> SUFFICES ASSUME sem'[s].cv # {}
               PROVE  Cardinality(WokenBy(s)') >= sem'[s].count
    OBVIOUS
  <2>1. sem[s].cv # {} /\ u \in sem[s].cv
    BY <1>2, <1>3, <1>4
  <2>2. u \in Threads /\ pc[u] = "asleep" /\ loc[u].s = s /\ ~loc[u].late /\ u # t
    BY <1>1, <1>5, <2>1 DEF IInv, Asleep, Slot
  <2>3. WokenBy(s)' = WokenBy(s) \cup {u} /\ u \notin WokenBy(s)
    <3>1. t \notin WokenBy(s) /\ t \notin WokenBy(s)'
      BY <1>5 DEF WokenBy
    <3>2. u \in WokenBy(s)' /\ u \notin WokenBy(s)
      BY <1>3, <1>4, <1>5, <2>1, <2>2 DEF WokenBy, OthersStay
    <3> QED  BY <1>1, <1>3, <1>4, <1>5, <3>1, <3>2, WokenElse
  <2>4. IsFiniteSet(WokenBy(s)) /\ Cardinality(WokenBy(s)) \in Nat
    BY ThreadsFinite DEF WokenBy
  <2>5. Cardinality(WokenBy(s)') = Cardinality(WokenBy(s)) + 1
    BY <2>3, <2>4, FS_AddElement
  <2>6. Cardinality(WokenBy(s)) >= sem[s].count
    BY <1>1, <2>1 DEF IInv, NoLostPost
  <2> QED  BY <1>1, <1>3, <1>4, <2>4, <2>5, <2>6 DEF Slot
<1>9. Asleep' /\ NoLostPost'
  <2>1. t \notin sem'[s].cv /\ sem'[s].cv \subseteq sem[s].cv \cup {t}
    BY <1>3, <1>4, <1>7
  <2> QED  BY <1>1, <1>4, <1>5, <1>8, <2>1, AtOne
<1> QED  BY <1>3, <1>4, <1>5, <1>6, <1>9

LEMMA TakeStep ==
  ASSUME StopWorldAssumption, IInv, NEW t \in Threads, NEW s \in Sems, loc[t].s = s, Take(t)
  PROVE  /\ Typed' /\ Asleep' /\ NoLostPost' /\ OthersStay(t) /\ Return(t)
         /\ sem'[s].count = sem[s].count - 1
         /\ \A r \in Sems \ {s} : sem'[r] = sem[r]
<1> DEFINE c == [sem[s] EXCEPT !.count = @ - 1, !.m = NoThread]
<1>1. sem[s] \in Slot /\ Typed /\ loc[t] \in Locals
  BY DEF IInv, Typed, Locals
<1>2. c \in Slot /\ c.cv = sem[s].cv /\ c.count = sem[s].count - 1
  <2>1. sem[s].count \in Nat /\ sem[s].count > 0
    BY <1>1 DEF Slot, Take, Sem
  <2>2. sem[s].count - 1 \in Nat
    BY <2>1
  <2> QED  BY <1>1, <2>2 DEF Slot
<1>3. sem' = [sem EXCEPT ![s] = c]
  BY <1>1 DEF Take, Typed
<1> HIDE DEF c
<1>4. sem' \in [Sems -> Slot] /\ sem'[s] = c /\ \A r \in Sems \ {s} : sem'[r] = sem[r]
  BY <1>1, <1>2, <1>3, SlotIs
<1>5. /\ LocalsTyped /\ OthersStay(t) /\ Return(t) /\ ~loc[t].late
      /\ pc[t] = "in" /\ loc[t].op # "post" /\ pc'[t] \notin {"asleep", "in"}
  BY <1>1, ReturnIs DEF Take, Waits, Runs, Locals
<1>6. Typed'
  BY <1>4, <1>5 DEF Take, IInv, Typed, LocalsTyped, gcVars
<1>7. t \notin sem[s].cv
  BY <1>1, <1>5 DEF IInv, Asleep
<1>8. sem'[s].cv # {} => Cardinality(WokenBy(s)') >= sem'[s].count
  <2>1. WokenBy(s)' = WokenBy(s) \ {t} /\ t \in WokenBy(s)
    <3>1. t \in WokenBy(s) /\ t \notin WokenBy(s)'
      BY <1>5, <1>7 DEF WokenBy
    <3> QED  BY <1>1, <1>2, <1>4, <1>5, <3>1, WokenElse
  <2>2. IsFiniteSet(WokenBy(s)) /\ Cardinality(WokenBy(s)) \in Nat
    BY ThreadsFinite DEF WokenBy
  <2>3. Cardinality(WokenBy(s)') = Cardinality(WokenBy(s)) - 1
    BY <2>1, <2>2, FS_RemoveElement
  <2>4. sem[s].cv # {} => Cardinality(WokenBy(s)) >= sem[s].count
    BY <1>1 DEF IInv, NoLostPost
  <2> QED  BY <1>1, <1>2, <1>4, <2>2, <2>3, <2>4 DEF Slot
<1>9. Asleep' /\ NoLostPost'
  <2>1. t \notin sem'[s].cv /\ sem'[s].cv \subseteq sem[s].cv \cup {t}
    BY <1>2, <1>4, <1>7
  <2> QED  BY <1>1, <1>4, <1>5, <1>8, <2>1, AtOne
<1> QED  BY <1>2, <1>4, <1>5, <1>6, <1>9

\* No unit is left behind by a wait that gives up: it saw none, or was not woken.
LEMMA GiveUpStep ==
  ASSUME StopWorldAssumption, IInv, NEW t \in Threads, NEW s \in Sems, loc[t].s = s, GiveUp(t)
  PROVE  /\ Typed' /\ Asleep' /\ NoLostPost' /\ OthersStay(t) /\ Return(t)
         /\ \A r \in Sems \ {s} : sem'[r] = sem[r]
<1> DEFINE c == [sem[s] EXCEPT !.m = NoThread]
<1>1. sem[s] \in Slot /\ Typed /\ loc[t] \in Locals
  BY DEF IInv, Typed, Locals
<1>2. c \in Slot /\ c.cv = sem[s].cv /\ c.count = sem[s].count
  BY <1>1 DEF Slot
<1>3. sem' = [sem EXCEPT ![s] = c]
  BY DEF GiveUp
<1> HIDE DEF c
<1>4. sem' \in [Sems -> Slot] /\ sem'[s] = c /\ \A r \in Sems \ {s} : sem'[r] = sem[r]
  BY <1>1, <1>2, <1>3, SlotIs
<1>5. /\ LocalsTyped /\ OthersStay(t) /\ Return(t)
      /\ pc[t] = "in" /\ pc'[t] \notin {"asleep", "in"}
  BY <1>1, ReturnIs DEF GiveUp, Waits, Runs, Locals
<1>6. Typed'
  BY <1>4, <1>5 DEF GiveUp, IInv, Typed, LocalsTyped, gcVars
<1>7. t \notin sem[s].cv
  BY <1>1, <1>5 DEF IInv, Asleep
<1>8. sem'[s].cv # {} => Cardinality(WokenBy(s)') >= sem'[s].count
  <2>1. Cardinality(WokenBy(s)') \in Nat
    BY ThreadsFinite DEF WokenBy
  <2>2. CASE loc[t].late
    <3>1. t \notin WokenBy(s) /\ t \notin WokenBy(s)'
      BY <1>5, <2>2 DEF WokenBy
    <3>2. WokenBy(s)' = WokenBy(s)
      <4>1. sem'[s].cv = sem[s].cv
        BY <1>2, <1>4
      <4> QED  BY <1>5, <3>1, <4>1, WokenElse
    <3> QED  BY <1>1, <1>2, <1>4, <3>2 DEF IInv, NoLostPost
  <2>3. CASE ~loc[t].late
    <3>1. sem[s].count <= 0
      BY <2>3 DEF GiveUp, Sem
    <3> QED  BY <1>1, <1>2, <1>4, <2>1, <3>1 DEF Slot
  <2> QED  BY <2>2, <2>3
<1>9. Asleep' /\ NoLostPost'
  <2>1. t \notin sem'[s].cv /\ sem'[s].cv \subseteq sem[s].cv \cup {t}
    BY <1>2, <1>4, <1>7
  <2> QED  BY <1>1, <1>4, <1>5, <1>8, <2>1, AtOne
<1> QED  BY <1>4, <1>5, <1>6, <1>9

LEMMA SleepStep ==
  ASSUME StopWorldAssumption, IInv, NEW t \in Threads, NEW s \in Sems, loc[t].s = s, Sleep(t)
  PROVE  /\ Typed' /\ Asleep' /\ NoLostPost' /\ OthersStay(t) /\ loc' = loc
         /\ \A r \in Sems \ {s} : sem'[r] = sem[r]
<1> DEFINE c == [sem[s] EXCEPT !.m = NoThread, !.cv = @ \cup {t}]
<1>1. sem[s] \in Slot /\ Typed /\ loc[t] \in Locals
  BY DEF IInv, Typed, Locals
<1>2. c \in Slot /\ c.cv = sem[s].cv \cup {t} /\ c.count = sem[s].count
  BY <1>1 DEF Slot
<1>3. sem' = [sem EXCEPT ![s] = c]
  BY <1>1 DEF Sleep, Typed
<1> HIDE DEF c
<1>4. sem' \in [Sems -> Slot] /\ sem'[s] = c /\ \A r \in Sems \ {s} : sem'[r] = sem[r]
  BY <1>1, <1>2, <1>3, SlotIs
<1>5. /\ LocalsTyped /\ OthersStay(t) /\ pc'[t] = "asleep" /\ loc'[t] = loc[t] /\ loc' = loc
      /\ ~loc[t].late
  BY <1>1, GotoIs DEF Sleep, Places
<1>6. Typed'
  BY <1>4, <1>5 DEF Sleep, IInv, Typed, LocalsTyped, gcVars
<1>7. sem'[s].cv # {} => Cardinality(WokenBy(s)') >= sem'[s].count
  <2>1. Cardinality(WokenBy(s)') \in Nat
    BY ThreadsFinite DEF WokenBy
  <2>2. sem[s].count <= 0
    BY DEF Sleep, Sem
  <2> QED  BY <1>1, <1>2, <1>4, <2>1, <2>2 DEF Slot
<1>8. Asleep' /\ NoLostPost'
  <2>1. loc[t].op # "post"
    BY DEF Sleep, Waits
  <2> QED  BY <1>1, <1>2, <1>4, <1>5, <1>7, <2>1, AtOne
<1> QED  BY <1>4, <1>5, <1>6, <1>8

\* A thread that times out was not woken, and nobody it leaves is owed less.
LEMMA TimesOutStep ==
  ASSUME StopWorldAssumption, IInv, NEW t \in Threads, NEW s \in Sems, loc[t].s = s, TimesOut(t)
  PROVE  /\ Typed' /\ Asleep' /\ NoLostPost' /\ OthersStay(t)
         /\ loc[t].op = "timedwait" /\ pc' = pc /\ pc[t] = "asleep" /\ loc'[t].s = s
         /\ \A r \in Sems \ {s} : sem'[r] = sem[r]
<1> DEFINE c == [sem[s] EXCEPT !.cv = @ \ {t}]
           l == [loc[t] EXCEPT !.late = TRUE]
<1>1. sem[s] \in Slot /\ Typed /\ loc[t] \in Locals
  BY DEF IInv, Typed, Locals
<1>2. c \in Slot /\ c.cv = sem[s].cv \ {t} /\ c.count = sem[s].count
  BY <1>1 DEF Slot
<1>3. l \in Locals /\ l.s = s /\ l.late
  BY <1>1 DEF Locals
<1>4. sem' = [sem EXCEPT ![s] = c] /\ loc' = [loc EXCEPT ![t] = l] /\ pc' = pc
  BY DEF TimesOut
<1> HIDE DEF c, l
<1>5. sem' \in [Sems -> Slot] /\ sem'[s] = c /\ \A r \in Sems \ {s} : sem'[r] = sem[r]
  BY <1>1, <1>2, <1>4, SlotIs
<1>6. LocalsTyped /\ OthersStay(t) /\ loc'[t] = l
  BY <1>3, <1>4 DEF IInv, Typed, LocalsTyped, OthersStay
<1>7. pc[t] = "asleep" /\ loc[t].op = "timedwait" /\ t \in sem[s].cv
  BY DEF TimesOut, Sem
<1>8. Typed'
  BY <1>5, <1>6 DEF TimesOut, IInv, Typed, LocalsTyped, gcVars
<1>9. sem'[s].cv # {} => Cardinality(WokenBy(s)') >= sem'[s].count
  <2>1. WokenBy(s)' = WokenBy(s)
    BY <1>2, <1>3, <1>4, <1>5, <1>6, <1>7 DEF WokenBy, OthersStay
  <2> QED  BY <1>1, <1>2, <1>5, <1>7, <2>1 DEF IInv, NoLostPost
<1>10. Asleep' /\ NoLostPost'
  <2>1. loc'[t].op = "timedwait"
    BY <1>1, <1>6, <1>7 DEF Locals, l
  <2> QED  BY <1>1, <1>2, <1>3, <1>5, <1>6, <1>9, <2>1, AtOne
<1> QED  BY <1>3, <1>4, <1>5, <1>6, <1>7, <1>8, <1>10

-----------------------------------------------------------------------------
\* The steps of a call that do not look at its semaphore, and its beginning.
LEMMA LookupStep ==
  ASSUME IInv, NEW t \in Threads, GetLock(t) \/ GetUnlock(t)
  PROVE  /\ Typed' /\ Asleep' /\ NoLostPost' /\ OthersStay(t)
         /\ loc' = loc /\ sem' = sem /\ pc'[t] \in {"got", "lock"}
<1>1. Typed /\ loc' = loc /\ sem' = sem /\ pc[t] \in {"get", "got"}
  BY DEF IInv, GetLock, GetUnlock, Runs
<1>2. LocalsTyped /\ OthersStay(t) /\ pc'[t] \in {"got", "lock"}
  BY <1>1, GotoIs DEF GetLock, GetUnlock, Places, Calling
<1>3. Typed'
  BY <1>1, <1>2 DEF GetLock, GetUnlock, Typed, LocalsTyped, gcVars
<1>4. Asleep' /\ NoLostPost'
  BY <1>1, <1>2, StepApart
<1> QED  BY <1>1, <1>2, <1>3, <1>4

\* A thread of its own accord calls the user's semaphore only.
LEMMA CallStep ==
  ASSUME IInv, NEW t \in Threads, Call(t)
  PROVE  /\ Typed' /\ Asleep' /\ NoLostPost' /\ OthersStay(t) /\ sem' = sem
         /\ pc[t] = "idle" /\ pc'[t] = "get" /\ (t = Collector => loc'[t].op = "post")
         /\ loc'[t].s = "user" /\ loc'[t].next = "idle" /\ ~loc'[t].late
<1>1. PICK op \in {"post", "wait", "trywait", "timedwait"} :
        /\ IF op = "post" THEN sem["user"].count < MaxCount ELSE t # Collector
        /\ Enter(t, op, "user", "idle", NoThread)
  BY DEF Call
<1>2. Typed /\ sem' = sem /\ pc[t] = "idle"
  BY DEF IInv, Call, Runs
<1>3. /\ LocalsTyped /\ OthersStay(t) /\ pc'[t] = "get"
      /\ loc'[t] = [op |-> op, s |-> "user", next |-> "idle", late |-> FALSE, m |-> NoThread]
  BY <1>1, <1>2, EnterIs DEF Sems
<1>4. Typed'
  BY <1>2, <1>3 DEF Call, Typed, LocalsTyped, gcVars
<1>5. Asleep' /\ NoLostPost'
  BY <1>2, <1>3, StepApart
<1> QED  BY <1>1, <1>2, <1>3, <1>4, <1>5

-----------------------------------------------------------------------------
\* A mutator's steps leave the acknowledgements, and the collector, alone.
LEMMA MutatorSteps ==
  ASSUME StopWorldAssumption, IInv, NEW t \in Mutators, Proceeds(t) \/ TimesOut(t) \/ Call(t)
  PROVE  IInv'
<1>1. /\ t \in Threads /\ "user" \in Sems /\ loc[t].s = "user" /\ t # Collector
      /\ UNCHANGED gcVars
  BY DEF StopWorldAssumption, Threads, Sems, IInv, MutatorsApart, Proceeds,
         GetLock, GetUnlock, Lock, Post, Take, GiveUp, Sleep, TimesOut, Call
<1>2. Typed /\ loc[t] \in Locals
  BY <1>1 DEF IInv, Typed
<1>3. /\ Typed' /\ Asleep' /\ NoLostPost' /\ OthersStay(t) /\ loc'[t].s = "user"
      /\ sem'["ack"] = sem["ack"]
  <2>1. CASE GetLock(t) \/ GetUnlock(t)
    BY <1>1, <2>1, LookupStep
  <2>2. CASE Lock(t)
    BY <1>1, <2>2, LockStep DEF Sems
  <2>3. CASE Post(t)
    BY <1>1, <1>2, <2>3, PostStep, ReturnIs DEF Sems
  <2>4. CASE Take(t)
    BY <1>1, <1>2, <2>4, TakeStep, ReturnIs DEF Sems
  <2>5. CASE GiveUp(t)
    BY <1>1, <1>2, <2>5, GiveUpStep, ReturnIs DEF Sems
  <2>6. CASE Sleep(t)
    BY <1>1, <2>6, SleepStep DEF Sems
  <2>7. CASE TimesOut(t)
    BY <1>1, <2>7, TimesOutStep DEF Sems
  <2>8. CASE Call(t)
    BY <1>1, <2>8, CallStep
  <2> QED  BY <2>1, <2>2, <2>3, <2>4, <2>5, <2>6, <2>7, <2>8 DEF Proceeds
<1>4. MutatorsApart'
  BY <1>3 DEF IInv, MutatorsApart, OthersStay, Threads
<1>5. Collecting'
  <2>1. pc'[Collector] = pc[Collector] /\ loc'[Collector] = loc[Collector]
    BY <1>1, <1>3 DEF OthersStay, Threads
  <2> QED  BY <1>1, <1>3, <2>1 DEF IInv, Collecting, Resting, Stopping, Awaiting, Restarting,
                                   OnCall, Unacked, Down, gcVars
<1> QED  BY <1>3, <1>4, <1>5 DEF IInv

\* What the collector has called, and where that leaves it: the acknowledgements are
\* a semaphore it never sleeps on.
InCall ==
  \/ Resting /\ OnCall("post", "user", "idle")
  \/ Stopping /\ OnCall("post", "ack", "stopped")
  \/ Awaiting /\ OnCall("wait", "ack", "await")
  \/ Restarting /\ OnCall("post", "ack", "resume")

\* The collector is inside a call only as its part of the round says.
LEMMA CollectorCalls ==
  ASSUME IInv, pc[Collector] \in Calling \cup {"asleep"}
  PROVE  InCall
BY DEF IInv, Collecting, Resting, Stopping, Awaiting, Restarting, OnCall, InCall, Calling

\* The call goes on, and its semaphore's count stays.
LEMMA CallGoesOn ==
  ASSUME IInv, InCall, pc'[Collector] \in Calling, loc'[Collector] = loc[Collector],
         sem'["ack"].count = sem["ack"].count, UNCHANGED gcVars
  PROVE  Collecting'
<1>1. \A op, s, next : OnCall(op, s, next) => OnCall(op, s, next)'
  BY DEF OnCall
<1>2. Unacked' = Unacked /\ \A m \in Mutators : Down(m) => Down(m)'
  BY DEF Unacked, Down, gcVars
<1>3. pc[Collector] \in Calling
  BY DEF InCall, OnCall
<1>4. loc[Collector].m \in todo => (Down(loc[Collector].m) => Down(loc[Collector].m)')
  BY DEF Down, gcVars
<1>5. CASE Resting /\ OnCall("post", "user", "idle")
  BY <1>1, <1>5 DEF Resting, Collecting, gcVars
<1>6. CASE Stopping /\ OnCall("post", "ack", "stopped")
  BY <1>1, <1>2, <1>3, <1>4, <1>6 DEF Stopping, Collecting, Calling, gcVars
<1>7. CASE Awaiting /\ OnCall("wait", "ack", "await")
  BY <1>1, <1>2, <1>3, <1>7 DEF Awaiting, Collecting, Calling, gcVars
<1>8. CASE Restarting /\ OnCall("post", "ack", "resume")
  BY <1>1, <1>2, <1>3, <1>8 DEF Restarting, Collecting, Calling, gcVars
<1> QED  BY <1>5, <1>6, <1>7, <1>8 DEF InCall

\* The collector inside a semaphore call.
LEMMA CollectorProceeds ==
  ASSUME StopWorldAssumption, IInv, Proceeds(Collector) \/ TimesOut(Collector) \/ Call(Collector)
  PROVE  IInv'
<1>1. Collector \in Threads /\ Collector \notin Mutators /\ UNCHANGED gcVars
  BY DEF StopWorldAssumption, Threads, Proceeds,
         GetLock, GetUnlock, Lock, Post, Take, GiveUp, Sleep, TimesOut, Call
<1>2. PICK s \in Sems : loc[Collector].s = s
  BY <1>1 DEF IInv, Typed, Locals
<1>3. sem["ack"] \in Slot /\ acks \in Nat
  BY DEF IInv, Typed, Sems
<1>4. ASSUME Typed', Asleep', NoLostPost', OthersStay(Collector), Collecting' PROVE IInv'
  BY <1>1, <1>4 DEF IInv, MutatorsApart, OthersStay, Threads
<1>5. CASE GetLock(Collector) \/ GetUnlock(Collector)
  <2>1. /\ Typed' /\ Asleep' /\ NoLostPost' /\ OthersStay(Collector)
        /\ loc' = loc /\ sem' = sem /\ pc'[Collector] \in Calling
    BY <1>1, <1>5, LookupStep DEF Calling
  <2>2. InCall
    BY <1>5, CollectorCalls DEF GetLock, GetUnlock, Runs, Calling
  <2> QED  BY <1>1, <1>4, <2>1, <2>2, CallGoesOn
<1>6. CASE Lock(Collector)
  <2>1. /\ Typed' /\ Asleep' /\ NoLostPost' /\ OthersStay(Collector)
        /\ loc' = loc /\ pc'[Collector] \in Calling /\ sem'["ack"].count = sem["ack"].count
    BY <1>1, <1>2, <1>6, LockStep DEF Calling, Sems
  <2>2. InCall
    BY <1>6, CollectorCalls DEF Lock, Runs, Calling
  <2> QED  BY <1>1, <1>4, <2>1, <2>2, CallGoesOn
<1>7. CASE Post(Collector)
  <2>1. /\ Typed' /\ Asleep' /\ NoLostPost' /\ OthersStay(Collector) /\ Return(Collector)
        /\ sem'[s].count = sem[s].count + 1 /\ \A r \in Sems \ {s} : sem'[r] = sem[r]
    BY <1>1, <1>2, <1>7, PostStep
  <2>2. InCall /\ loc[Collector].op = "post"
    BY <1>7, CollectorCalls DEF Post, Runs, Calling
  <2>3. pc'[Collector] = loc[Collector].next /\ loc'[Collector].m = loc[Collector].m
    BY <1>1, <2>1, ReturnIs DEF IInv
  <2>4. \A m \in Mutators : Down(m) => Down(m)'
    BY <1>1 DEF Down, gcVars
  <2>5. Collecting'
    <3>1. CASE Resting /\ OnCall("post", "user", "idle")
      BY <1>1, <1>2, <2>1, <2>3, <3>1 DEF Resting, OnCall, Sems, Collecting, gcVars
    <3>2. ASSUME OnCall("post", "ack", "stopped") \/ OnCall("post", "ack", "resume")
          PROVE  Unacked' = Unacked + 1
      <4>1. sem'["ack"].count = sem["ack"].count + 1 /\ acks' = acks
        BY <1>1, <1>2, <2>1, <3>2 DEF OnCall, gcVars
      <4> QED  BY <1>3, <4>1 DEF Unacked, Slot
    <3>3. CASE Stopping /\ OnCall("post", "ack", "stopped")
      <4>1. loc[Collector].m \in todo /\ Unacked = 0 /\ Down(loc[Collector].m)
        BY <3>3 DEF Stopping, OnCall, Calling
      <4>2. Down(loc[Collector].m)'
        BY <1>1, <2>3, <4>1 DEF Down, gcVars
      <4> QED  BY <1>1, <2>3, <2>4, <3>2, <3>3, <4>1, <4>2
              DEF Stopping, OnCall, Collecting, gcVars
    <3>4. CASE Restarting /\ OnCall("post", "ack", "resume")
      <4>1. loc[Collector].m \in todo /\ Unacked = 0 /\ restartAck
        BY <3>4 DEF Restarting, OnCall, Calling
      <4> QED  BY <1>1, <2>3, <3>2, <3>4, <4>1 DEF Restarting, OnCall, Collecting, gcVars
    <3> QED  BY <2>2, <3>1, <3>3, <3>4 DEF InCall, OnCall
  <2> QED  BY <1>4, <2>1, <2>5
<1>8. CASE Take(Collector)
  <2>1. /\ Typed' /\ Asleep' /\ NoLostPost' /\ OthersStay(Collector) /\ Return(Collector)
        /\ sem'[s].count = sem[s].count - 1 /\ \A r \in Sems \ {s} : sem'[r] = sem[r]
    BY <1>1, <1>2, <1>8, TakeStep
  <2>2. InCall /\ loc[Collector].op # "post"
    BY <1>8, CollectorCalls DEF Take, Waits, Runs, Calling
  <2>3. Awaiting /\ OnCall("wait", "ack", "await") /\ Unacked = 1
    BY <2>2 DEF InCall, OnCall, Awaiting, Calling
  <2>4. pc'[Collector] = "await"
    BY <1>1, <2>1, <2>3, ReturnIs DEF IInv, OnCall
  <2>5. Unacked' = 0
    <3>1. sem'["ack"].count = sem["ack"].count - 1 /\ acks' = acks
      BY <1>1, <1>2, <2>1, <2>3 DEF OnCall, gcVars
    <3> QED  BY <1>3, <2>3, <3>1 DEF Unacked, Slot
  <2>6. \A m \in Mutators : Down(m) => Down(m)'
    BY <1>1 DEF Down, gcVars
  <2>7. Collecting'
    BY <1>1, <2>3, <2>4, <2>5, <2>6 DEF Awaiting, Collecting, gcVars
  <2> QED  BY <1>4, <2>1, <2>7
<1>9. CASE GiveUp(Collector) \/ Sleep(Collector)
  <2>1. InCall /\ loc[Collector].op # "post"
    BY <1>9, CollectorCalls DEF GiveUp, Sleep, Waits, Runs, Calling
  <2>2. OnCall("wait", "ack", "await") /\ Unacked = 1
    BY <2>1 DEF InCall, OnCall, Awaiting, Calling
  <2>3. sem["ack"].count <= 0
    BY <1>9, <2>2 DEF GiveUp, Sleep, OnCall, Sem
  <2> QED  BY <1>3, <2>2, <2>3 DEF Unacked, Slot
<1>10. CASE TimesOut(Collector)
  BY <1>10, CollectorCalls DEF TimesOut, InCall, OnCall, Calling
<1>11. CASE Call(Collector)
  <2>1. /\ Typed' /\ Asleep' /\ NoLostPost' /\ OthersStay(Collector) /\ sem' = sem
        /\ pc[Collector] = "idle" /\ OnCall("post", "user", "idle")'
    BY <1>1, <1>11, CallStep DEF OnCall, Calling
  <2>2. Collecting'
    BY <1>1, <2>1 DEF IInv, Collecting, Resting, Stopping, Awaiting, Restarting,
                      OnCall, Calling, gcVars
  <2> QED  BY <1>4, <2>1, <2>2
<1> QED  BY <1>5, <1>6, <1>7, <1>8, <1>9, <1>10, <1>11 DEF Proceeds

-----------------------------------------------------------------------------
\* The collector's own steps: where they lead from and to.
LEMMA CollectsStep ==
  ASSUME StopWorldAssumption, IInv, UNCHANGED <<slotsLock, sem>>,
         LocalsTyped, OthersStay(Collector),
         pc[Collector] \notin {"asleep", "in"}, pc'[Collector] \notin {"asleep", "in"},
         activity' \in [Threads -> {"runnable", "paused"}],
         paused' \subseteq Mutators, todo' \subseteq Mutators, acks' \in Nat,
         state' \in [Mutators -> {"old", "stopped", "restarted"}], restartAck' \in BOOLEAN,
         Collecting'
  PROVE  IInv'
<1>1. Collector \in Threads /\ Collector \notin Mutators
  BY DEF StopWorldAssumption, Threads
<1>2. Typed'
  BY DEF IInv, Typed, LocalsTyped
<1>3. Asleep' /\ NoLostPost'
  BY <1>1, StepApart
<1>4. MutatorsApart'
  BY <1>1 DEF IInv, MutatorsApart, OthersStay, Threads
<1> QED  BY <1>2, <1>3, <1>4 DEF IInv

\* The collector's calls use the acknowledgements.
LEMMA CollectorEnters ==
  ASSUME Typed, NEW op \in {"post", "wait"}, NEW next \in {"stopped", "await", "resume"},
         NEW m \in Mutators \cup {NoThread}, Enter(Collector, op, "ack", next, m)
  PROVE  /\ LocalsTyped /\ OthersStay(Collector) /\ pc'[Collector] = "get"
         /\ OnCall(op, "ack", next)' /\ loc'[Collector].m = m
<1>1. Collector \in Threads /\ "ack" \in Sems
  BY DEF Threads, Sems
<1>2. /\ LocalsTyped /\ OthersStay(Collector) /\ pc'[Collector] = "get"
      /\ loc'[Collector] = [op |-> op, s |-> "ack", next |-> next, late |-> FALSE, m |-> m]
  BY <1>1, EnterIs
<1> QED  BY <1>2 DEF OnCall, Calling

\* The collector's own steps, in the order of a round.
LEMMA Begins ==
  ASSUME StopWorldAssumption, IInv, StopBegin
  PROVE  IInv'
<1>1. Typed /\ Collector \in Threads /\ pc[Collector] = "idle"
  BY DEF IInv, Threads, StopBegin, Runs
<1>2. Resting
  BY <1>1 DEF IInv, Collecting, Resting, Stopping, Awaiting, Restarting, OnCall, Calling
<1>3. LocalsTyped /\ OthersStay(Collector) /\ pc'[Collector] = "stop"
  BY <1>1, GotoIs DEF StopBegin, Places
<1>4. Collecting'
  <2>1. Unacked' = 0
    BY <1>2 DEF StopBegin, Resting, Unacked
  <2>2. todo' = Mutators
    BY DEF StopBegin
  <2> QED  BY <1>3, <2>1, <2>2 DEF Collecting, Stopping
<1> QED  BY <1>1, <1>3, <1>4, CollectsStep DEF StopBegin, Typed

LEMMA Pauses ==
  ASSUME StopWorldAssumption, IInv, NEW m \in Mutators, Pause(m)
  PROVE  IInv'
<1>1. Typed /\ Collector \in Threads /\ m \in Threads /\ pc[Collector] = "stop" /\ m \in todo
  BY DEF IInv, Threads, Pause, Runs
<1>2. Stopping /\ Unacked = 0
  BY <1>1 DEF IInv, Collecting, Resting, Stopping, Awaiting, Restarting, OnCall, Calling
<1> DEFINE l == [loc[Collector] EXCEPT !.m = m]
<1>3. l \in Locals /\ l.m = m
  <2>1. loc[Collector] \in Locals
    BY <1>1 DEF Typed
  <2> QED  BY <2>1 DEF Locals
<1>4. loc' = [loc EXCEPT ![Collector] = l] /\ pc' = [pc EXCEPT ![Collector] = "mark"]
  BY DEF Pause, Goto
<1> HIDE DEF l
<1>5. /\ LocalsTyped /\ OthersStay(Collector) /\ pc'[Collector] = "mark"
      /\ loc'[Collector].m = m
  BY <1>1, <1>3, <1>4 DEF Typed, LocalsTyped, OthersStay, Places
<1>6. /\ activity' \in [Threads -> {"runnable", "paused"}] /\ activity'[m] = "paused"
      /\ \A u \in Mutators : Down(u) => Down(u)'
  BY <1>1 DEF Pause, Typed, Down, Threads
<1>7. Collecting'
  <2>1. Unacked' = 0 /\ todo' = todo
    BY <1>2 DEF Pause, Unacked
  <2> QED  BY <1>1, <1>2, <1>5, <1>6, <2>1 DEF Collecting, Stopping
<1> QED  BY <1>1, <1>5, <1>6, <1>7, CollectsStep DEF Pause, Typed

LEMMA Marks ==
  ASSUME StopWorldAssumption, IInv, Mark
  PROVE  IInv'
<1> DEFINE m == loc[Collector].m
<1>1. Typed /\ Collector \in Threads /\ pc[Collector] = "mark"
  BY DEF IInv, Threads, Mark, Runs
<1>2. /\ Stopping /\ Unacked = 0 /\ m \in todo /\ m \in Mutators /\ activity[m] = "paused"
  BY <1>1 DEF IInv, Typed, Collecting, Resting, Stopping, Awaiting, Restarting, OnCall, Calling
<1>3. /\ LocalsTyped /\ OthersStay(Collector) /\ pc'[Collector] = "get"
      /\ OnCall("post", "ack", "stopped")' /\ loc'[Collector].m = loc[Collector].m
  <2>1. Enter(Collector, "post", "ack", "stopped", m)
    BY DEF Mark
  <2>2. m \in Mutators \cup {NoThread}
    BY <1>2
  <2> HIDE DEF m
  <2>3. /\ LocalsTyped /\ OthersStay(Collector) /\ pc'[Collector] = "get"
        /\ OnCall("post", "ack", "stopped")' /\ loc'[Collector].m = m
    BY <1>1, <2>1, <2>2, CollectorEnters
  <2> QED  BY <2>3 DEF m
<1>4. /\ state' \in [Mutators -> {"old", "stopped", "restarted"}]
      /\ Down(m)' /\ \A u \in Mutators : Down(u) => Down(u)'
  <2>1. /\ state' = [state EXCEPT ![m] = "stopped"]
        /\ paused' = paused \cup {m} /\ activity' = activity
    BY DEF Mark
  <2>2. \A u \in Mutators : Down(u) => Down(u)'
    BY <1>1, <1>2, <2>1 DEF Typed, Down
  <2>3. Down(m)'
    BY <1>1, <1>2, <1>3, <2>1 DEF Typed, Down
  <2> QED  BY <1>1, <2>1, <2>2, <2>3 DEF Typed
<1>5. Collecting'
  <2>1. Unacked' = 0 /\ todo' = todo
    BY <1>2 DEF Mark, Unacked
  <2> QED  BY <1>2, <1>3, <1>4, <2>1 DEF Collecting, Stopping
<1> QED  BY <1>1, <1>2, <1>3, <1>4, <1>5, CollectsStep DEF Mark, Typed

\* The collector is done with a signal or a round.
LEMMA GoneIs ==
  ASSUME Typed, NEW where \in Places, Goto(Collector, where),
         loc' = [loc EXCEPT ![Collector] = NoLoc]
  PROVE  LocalsTyped /\ OthersStay(Collector) /\ pc'[Collector] = where
<1>1. NoLoc \in Locals /\ Collector \in Threads
  BY DEF NoLoc, Locals, Sems, Threads
<1> QED  BY <1>1 DEF Typed, LocalsTyped, OthersStay, Goto

LEMMA Fails ==
  ASSUME StopWorldAssumption, IInv, MarkFails
  PROVE  IInv'
<1>1. Typed /\ pc[Collector] = "mark"
  BY DEF IInv, MarkFails, Runs
<1>2. LocalsTyped /\ OthersStay(Collector) /\ pc'[Collector] = "aborted"
  BY <1>1, GoneIs DEF MarkFails, Places
<1> QED  BY <1>1, <1>2, CollectsStep DEF MarkFails, Typed, Collecting

LEMMA Signalled ==
  ASSUME StopWorldAssumption, IInv, Stopped
  PROVE  IInv'
<1> DEFINE m == loc[Collector].m
<1>1. Typed /\ pc[Collector] = "stopped"
  BY DEF IInv, Stopped, Runs
<1>2. Stopping /\ Unacked = 1 /\ m \in todo /\ m \in Mutators /\ Down(m)
  BY <1>1 DEF IInv, Typed, Collecting, Resting, Stopping, Awaiting, Restarting, OnCall, Calling
<1>3. /\ LocalsTyped /\ OthersStay(Collector)
      /\ pc'[Collector] = (IF todo' = {} THEN "await" ELSE "stop")
  BY <1>1, GoneIs DEF Stopped, Places
<1>4. Unacked' = 0
  <2>1. sem["ack"] \in Slot /\ acks \in Nat
    BY <1>1 DEF Typed, Sems
  <2> QED  BY <1>2, <2>1 DEF Stopped, Unacked, Slot
<1>5. \A u \in Mutators \ todo' : Down(u)'
  BY <1>2 DEF Stopped, Stopping, Down
<1>6. Collecting'
  BY <1>3, <1>4, <1>5 DEF Collecting, Stopping, Awaiting
<1> QED  BY <1>1, <1>3, <1>6, CollectsStep DEF Stopped, Typed

LEMMA Awaits ==
  ASSUME StopWorldAssumption, IInv, Await
  PROVE  IInv'
<1>1. Typed /\ Collector \in Threads /\ pc[Collector] = "await"
  BY DEF IInv, Threads, Await, Runs
<1>2. Awaiting /\ Unacked = 0
  BY <1>1 DEF IInv, Collecting, Resting, Stopping, Awaiting, Restarting, OnCall, Calling
<1>3. /\ LocalsTyped /\ OthersStay(Collector) /\ pc'[Collector] = "get"
      /\ OnCall("wait", "ack", "await")'
  BY <1>1, CollectorEnters DEF Await
<1>4. acks' \in Nat /\ Unacked' = 1
  <2>1. sem["ack"] \in Slot /\ acks \in Nat
    BY <1>1 DEF Typed, Sems
  <2> QED  BY <1>2, <2>1 DEF Await, Unacked, Slot
<1>5. Collecting'
  <2>1. \A u \in Mutators : Down(u) => Down(u)'
    BY DEF Await, Down
  <2> QED  BY <1>2, <1>3, <1>4, <2>1 DEF Collecting, Awaiting, Await
<1> QED  BY <1>1, <1>3, <1>4, <1>5, CollectsStep DEF Await, Typed

LEMMA RoundEnds ==
  ASSUME StopWorldAssumption, IInv, Collect
  PROVE  IInv'
<1>1. Typed /\ Collector \in Threads /\ pc[Collector] = "await" /\ acks = 0
  BY DEF IInv, Threads, Collect, Runs
<1>2. Awaiting /\ Unacked = 0
  BY <1>1 DEF IInv, Collecting, Resting, Stopping, Awaiting, Restarting, OnCall, Calling
<1>3. sem["ack"].count = 0 /\ Unacked' = 0
  <2>1. sem["ack"] \in Slot /\ acks \in Nat
    BY <1>1 DEF Typed, Sems
  <2> QED  BY <1>1, <1>2, <2>1 DEF Collect, Unacked, Slot
<1>4. CASE paused # {}
  <2>1. LocalsTyped /\ OthersStay(Collector) /\ pc'[Collector] = "restart" /\ todo' = Mutators
    BY <1>1, <1>4, GotoIs DEF Collect, Places
  <2>2. paused = Mutators
    BY <1>1, <1>2, <1>4 DEF Awaiting, Down, Typed
  <2>3. Collecting'
    BY <1>3, <2>1, <2>2 DEF Collect, Collecting, Restarting
  <2> QED  BY <1>1, <2>1, <2>3, CollectsStep DEF Collect, Typed
<1>5. CASE paused = {}
  <2>1. LocalsTyped /\ OthersStay(Collector) /\ pc'[Collector] = "idle" /\ todo' = todo
    BY <1>1, <1>5, GotoIs DEF Collect, Places
  <2>2. Collecting'
    BY <1>1, <1>3, <1>5, <2>1 DEF Collect, Collecting, Resting
  <2> QED  BY <1>1, <2>1, <2>2, CollectsStep DEF Collect, Typed
<1> QED  BY <1>4, <1>5

LEMMA Restarts ==
  ASSUME StopWorldAssumption, IInv, NEW m \in Mutators, Restart(m)
  PROVE  IInv'
<1>1. Typed /\ Collector \in Threads /\ pc[Collector] = "restart" /\ m \in todo
  BY DEF IInv, Threads, Restart, Runs
<1>2. Restarting /\ Unacked = 0 /\ m \in paused
  BY <1>1 DEF IInv, Collecting, Resting, Stopping, Awaiting, Restarting, OnCall, Calling
<1>3. Unacked' = 0 /\ UNCHANGED <<slotsLock, sem, activity, paused, restartAck, todo, acks>>
  BY <1>2 DEF Restart, Unacked
<1>4. CASE restartAck
  <2>1. state' = [state EXCEPT ![m] = "restarted"] /\ Enter(Collector, "post", "ack", "resume", m)
    BY <1>2, <1>4 DEF Restart
  <2>2. /\ LocalsTyped /\ OthersStay(Collector) /\ pc'[Collector] = "get"
        /\ OnCall("post", "ack", "resume")' /\ loc'[Collector].m = m
    BY <1>1, <2>1, CollectorEnters
  <2>3. Collecting'
    BY <1>1, <1>2, <1>3, <1>4, <2>2 DEF Collecting, Restarting
  <2>4. state' \in [Mutators -> {"old", "stopped", "restarted"}]
    BY <1>1, <2>1 DEF Typed
  <2> QED  BY <1>1, <1>3, <2>2, <2>3, <2>4, CollectsStep DEF Typed
<1>5. CASE ~restartAck
  <2> DEFINE l == [loc[Collector] EXCEPT !.m = m]
  <2>1. l \in Locals /\ l.m = m
    <3>1. loc[Collector] \in Locals
      BY <1>1 DEF Typed
    <3> QED  BY <3>1 DEF Locals
  <2>2. /\ loc' = [loc EXCEPT ![Collector] = l] /\ pc' = [pc EXCEPT ![Collector] = "resume"]
        /\ state' = state
    BY <1>5 DEF Restart, Goto
  <2> HIDE DEF l
  <2>3. /\ LocalsTyped /\ OthersStay(Collector) /\ pc'[Collector] = "resume"
        /\ loc'[Collector].m = m
    BY <1>1, <2>1, <2>2 DEF Typed, LocalsTyped, OthersStay, Places
  <2>4. Collecting'
    BY <1>1, <1>2, <1>3, <1>5, <2>3 DEF Collecting, Restarting
  <2> QED  BY <1>1, <1>3, <2>2, <2>3, <2>4, CollectsStep DEF Typed
<1> QED  BY <1>1, <1>4, <1>5

LEMMA Resumes ==
  ASSUME StopWorldAssumption, IInv, Resume
  PROVE  IInv'
<1> DEFINE m == loc[Collector].m
<1>1. Typed /\ pc[Collector] = "resume"
  BY DEF IInv, Resume, Runs
<1>2. /\ Restarting /\ m \in todo /\ m \in Mutators
      /\ Unacked = IF restartAck THEN 1 ELSE 0
  BY <1>1 DEF IInv, Typed, Collecting, Resting, Stopping, Awaiting, Restarting, OnCall, Calling
<1>3. /\ LocalsTyped /\ OthersStay(Collector)
      /\ pc'[Collector] = (IF todo' = {} THEN "await" ELSE "restart")
  BY <1>1, GoneIs DEF Resume, Places
<1>4. Unacked' = 0 /\ acks' \in Nat
  <2>1. sem["ack"] \in Slot /\ acks \in Nat
    BY <1>1 DEF Typed, Sems
  <2> QED  BY <1>2, <2>1 DEF Resume, Unacked, Slot
<1>5. paused' = todo'
  BY <1>2 DEF Resume, Restarting
<1>6. Collecting'
  BY <1>3, <1>4, <1>5 DEF Collecting, Awaiting, Restarting
<1>7. activity' \in [Threads -> {"runnable", "paused"}]
  BY <1>1 DEF Resume, Typed
<1> QED  BY <1>1, <1>3, <1>4, <1>6, <1>7, CollectsStep DEF Resume, Typed

-----------------------------------------------------------------------------
\* Every step: the mutators', the collector's calls, the collector's own.
LEMMA Inductive ==
  ASSUME StopWorldAssumption, IInv, [Next]_vars
  PROVE  IInv'
<1>1. CASE Collects
  BY <1>1, Begins, Pauses, Marks, Fails, Signalled, Awaits, RoundEnds, Restarts, Resumes
     DEF Collects
<1>2. ASSUME NEW t \in Threads, Proceeds(t) \/ TimesOut(t) \/ Call(t) PROVE IInv'
  <2>1. t \in Mutators \/ t = Collector
    BY DEF Threads
  <2> QED  BY <1>2, <2>1, MutatorSteps, CollectorProceeds
<1>3. CASE UNCHANGED vars
  <2>1. \A s \in Sems : WokenBy(s)' = WokenBy(s)
    BY <1>3 DEF vars, WokenBy
  <2>2. \A m \in Mutators : Down(m)' <=> Down(m)
    BY <1>3 DEF vars, gcVars, Down
  <2>3. Typed' /\ Asleep' /\ MutatorsApart' /\ NoLostPost'
    BY <1>3, <2>1 DEF vars, gcVars, IInv, Typed, Asleep, MutatorsApart, NoLostPost
  <2>4. Collecting'
    BY <1>3, <2>2 DEF vars, gcVars, IInv, Collecting, Resting, Stopping, Awaiting, Restarting,
                      OnCall, Unacked, Down
  <2> QED  BY <2>3, <2>4 DEF IInv
<1> QED  BY <1>1, <1>2, <1>3 DEF Next, Halted

LEMMA Initially ==
  ASSUME StopWorldAssumption, Init
  PROVE  IInv
<1>1. Typed
  BY DEF Init, Typed, Slot, Places, Locals, NoLoc, Sems
<1>2. Asleep /\ MutatorsApart /\ NoLostPost
  BY DEF Init, Asleep, MutatorsApart, NoLostPost, NoLoc, Threads
<1>3. Collecting
  BY DEF Init, Collecting, Resting, Sems, Threads
<1> QED  BY <1>1, <1>2, <1>3 DEF IInv

\* The invariant holds throughout.
LEMMA Invariant == Spec => []IInv
  BY StopWorldAssumption, Initially, Inductive, PTL DEF Spec

-----------------------------------------------------------------------------
\* Semaphores, locks and the collector's bookkeeping stay within their types (the
\* type invariant).
THEOREM TypeCorrect == Spec => []TypeOK
<1>1. IInv => TypeOK
  BY DEF IInv, Typed, TypeOK, Slot
<1> QED  BY <1>1, Invariant, PTL

\* While a thread sleeps for a semaphore, every unit posted has another thread on its
\* way to take it (bionic_sem_post, bionic_sem_wait, bionic_sem_timedwait).
THEOREM PostsReachWaiters == Spec => []NoLostPost
<1>1. IInv => NoLostPost
  BY DEF IInv
<1> QED  BY <1>1, Invariant, PTL

\* When the collector has its acknowledgements, every other thread is paused and its
\* state is stored, though restarts are acknowledged on the same semaphore
\* (boehm_horizon_suspend, boehm_horizon_restart).
THEOREM CollectsAlone == Spec => []WorldStopped
<1>1. IInv => WorldStopped
  <2> SUFFICES ASSUME IInv, pc[Collector] = "await", acks = 0, paused # {}
               PROVE  sem["ack"].count = 0 /\ \A m \in Mutators : Down(m)
    BY DEF WorldStopped, Down
  <2>1. Awaiting /\ Unacked = 0
    BY DEF IInv, Collecting, Resting, Stopping, Awaiting, Restarting, OnCall, Calling
  <2>2. sem["ack"] \in Slot
    BY DEF IInv, Typed, Sems
  <2> QED  BY <2>1, <2>2 DEF Awaiting, Unacked, Slot
<1> QED  BY <1>1, Invariant, PTL
=============================================================================
