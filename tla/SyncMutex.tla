------------------------------ MODULE SyncMutex ------------------------------
(***************************************************************************)
(* pthread mutexes and condition variables of source/bionic.c, on the slots *)
(* of SyncSlots.  A read-write lock is a normal mutex there.                *)
(*                                                                          *)
(* Steps are cut where another thread can see the difference: the lookup,   *)
(* the unlocked reads of a slot, the host mutex and the host condition      *)
(* variable.  The host primitives are libnx's: condvarWaitTimeout releases  *)
(* the mutex and sleeps in one step, and takes the mutex again before it    *)
(* returns, whether woken or timed out.                                     *)
(*                                                                          *)
(* The guest is a monitor program, but for errors the code reports: it      *)
(* holds a mutex when it waits on its condition variable, sets a condition  *)
(* under the mutex and then wakes the waiters, and destroys objects only    *)
(* when every thread has said, under the mutex, that it will not use them   *)
(* again.                                                                   *)
(***************************************************************************)
EXTENDS SyncSlots

CONSTANTS
  Mutexes, Conds,   \* the objects of either kind
  MutexOf,          \* the mutex each condition variable is used with
  Types,            \* the mutex types the guest uses
  MaxDepth          \* bound: how often the guest locks a recursive mutex

ASSUME SyncMutexAssumption ==
  /\ Objects = Mutexes \cup Conds /\ Mutexes \cap Conds = {}
  /\ MutexOf \in [Conds -> Mutexes]
  /\ Types \subseteq {"normal", "recursive", "errorcheck"}
  /\ MaxDepth \in Nat \ {0}

VARIABLES
  pc, loc,   \* where each thread is in a call, and its locals there
  typeOf,    \* the type in each mutex's static initialiser or attribute
  held,      \* guest: how often each thread holds each mutex
  users,     \* guest: who may still use a mutex and its condition variables
  last,      \* guest: who was the last of them
  cond,      \* guest: the condition waited for at each condition variable
  owes       \* guest: who has set a condition and not yet woken the waiters

guest == <<typeOf, held, users, last, cond, owes>>
vars == <<slots, pc, loc, guest>>

NoLoc == [op |-> "none", o |-> NoObject, s |-> 0, c |-> 0]

Init ==
  /\ SlotsInit
  /\ pc = [t \in Threads |-> "idle"]
  /\ loc = [t \in Threads |-> NoLoc]
  /\ typeOf \in [Mutexes -> Types]
  /\ held = [t \in Threads |-> [k \in Mutexes |-> 0]]
  /\ users = [k \in Mutexes |-> Threads]
  /\ last = [k \in Mutexes |-> NoThread]
  /\ cond = [c \in Conds |-> FALSE]
  /\ owes = [c \in Conds |-> {}]

At(t, where) == pc[t] = where
Goto(t, where) == pc' = [pc EXCEPT ![t] = where]
Leave(t) == Goto(t, "idle") /\ loc' = [loc EXCEPT ![t] = NoLoc]

\* The slots of the call t is in.
Slot(t) == slots[loc[t].s]
CSlot(t) == slots[loc[t].c]

\* What the call of t stores in them.
SetOwner(t, who, d) == slots' = [slots EXCEPT ![loc[t].s].owner = who, ![loc[t].s].depth = d]
SetHost(t, who) == slots' = [slots EXCEPT ![loc[t].s].m = who]
SetDepth(t, d) == slots' = [slots EXCEPT ![loc[t].s].depth = d]

\* t goes on with slot i of object o.
Holding(t, op, o, i, where) ==
  /\ Goto(t, where)
  /\ loc' = [loc EXCEPT ![t] = [op |-> op, o |-> o, s |-> i, c |-> 0]]

-----------------------------------------------------------------------------
(***************************************************************************)
(* bionic_pthread_mutex_lock and trylock.                                   *)
(***************************************************************************)
\* The guest takes its mutexes one at a time, and a normal one only once.
MayUse(t, k) ==
  /\ t \in users[k] /\ held[t][k] < MaxDepth
  /\ \A j \in Mutexes : held[t][j] > 0 => j = k /\ typeOf[k] # "normal"

\* slot_get.
Lock(t, k, op) ==
  /\ At(t, "idle") /\ op \in {"lock", "trylock"} /\ MayUse(t, k)
  /\ \/ \E i \in Indices : GetSlot(k, i) /\ Holding(t, op, k, i, "detect")
     \/ NoSlotLeft(k) /\ UNCHANGED <<slots, pc, loc>>
  /\ UNCHANGED guest

\* The type as the slot has it after bionic_mutex_detect_static_type.
Detected(i, k) == [slots[i] EXCEPT !.known = TRUE, !.type = IF slots[i].known THEN @ ELSE typeOf[k]]

Detect(t) ==
  /\ At(t, "detect")
  /\ slots' = [slots EXCEPT ![loc[t].s] = Detected(loc[t].s, loc[t].o)]
  /\ Goto(t, CASE loc[t].op \in {"wait", "timedwait"} -> "bridge"
               [] loc[t].op \in {"lock", "trylock"} /\ slots'[loc[t].s].type = "normal" -> "take"
               [] OTHER -> "owner")
  /\ UNCHANGED <<loc, guest>>

\* The owner is read without the mutex: only its own number matters to a thread.
OwnerIsMe(t) ==
  /\ At(t, "owner") /\ Slot(t).owner = t
  /\ IF Slot(t).type = "errorcheck"
       THEN UNCHANGED <<slots, held>>
       ELSE /\ SetDepth(t, Slot(t).depth + 1)
            /\ held' = [held EXCEPT ![t][loc[t].o] = @ + 1]
  /\ Leave(t)
  /\ UNCHANGED <<typeOf, users, last, cond, owes>>

OwnerIsNotMe(t) ==
  /\ At(t, "owner") /\ Slot(t).owner # t
  /\ Goto(t, "take")
  /\ UNCHANGED <<slots, loc, guest>>

\* mutexTryLock or mutexLock gets the host mutex.
Take(t) ==
  /\ At(t, "take") /\ Slot(t).m = NoThread
  /\ slots' = [slots EXCEPT ![loc[t].s].m = t]
  /\ IF Slot(t).type = "normal"
       THEN Leave(t) /\ held' = [held EXCEPT ![t][loc[t].o] = 1]
       ELSE Goto(t, "own") /\ UNCHANGED <<loc, held>>
  /\ UNCHANGED <<typeOf, users, last, cond, owes>>

\* EBUSY.
TakeBusy(t) ==
  /\ At(t, "take") /\ loc[t].op = "trylock" /\ Slot(t).m # NoThread
  /\ Leave(t)
  /\ UNCHANGED <<slots, guest>>

Own(t) ==
  /\ At(t, "own")
  /\ SetOwner(t, t, 1)
  /\ held' = [held EXCEPT ![t][loc[t].o] = 1]
  /\ Leave(t)
  /\ UNCHANGED <<typeOf, users, last, cond, owes>>

-----------------------------------------------------------------------------
(***************************************************************************)
(* bionic_pthread_mutex_unlock.  The guest may also unlock a mutex with an   *)
(* owner that it does not hold, which is an error, once the mutex has been  *)
(* used: unlock does not look at the static type itself.                    *)
(***************************************************************************)
Unlock(t, k) ==
  /\ At(t, "idle")
  /\ held[t][k] > 0 \/ (t \in users[k] /\ typeOf[k] # "normal" /\ \A i \in Indices : slots[i].key = k => slots[i].known)
  /\ IF Present(k) THEN Holding(t, "unlock", k, SlotOf(k), "unlock") ELSE UNCHANGED <<pc, loc>>
  /\ UNCHANGED <<slots, guest>>

\* mutexUnlock: the last thing the call does with the slot.
UnlockNormal(t) ==
  /\ At(t, "unlock") /\ Slot(t).type = "normal"
  /\ SetHost(t, NoThread)
  /\ held' = [held EXCEPT ![t][loc[t].o] = @ - 1]
  /\ Leave(t)
  /\ UNCHANGED <<typeOf, users, last, cond, owes>>

MayUnlock(t) == Slot(t).owner = t /\ Slot(t).depth > 0

\* EPERM.
UnlockFails(t) ==
  /\ At(t, "unlock") /\ Slot(t).type # "normal" /\ ~MayUnlock(t)
  /\ Leave(t)
  /\ UNCHANGED <<slots, guest>>

UnlockInner(t) ==
  /\ At(t, "unlock") /\ Slot(t).type # "normal" /\ MayUnlock(t) /\ Slot(t).depth > 1
  /\ SetDepth(t, Slot(t).depth - 1)
  /\ held' = [held EXCEPT ![t][loc[t].o] = @ - 1]
  /\ Leave(t)
  /\ UNCHANGED <<typeOf, users, last, cond, owes>>

\* Mutant: the depth is not looked at.
UnlockOuterDeep(t) ==
  /\ At(t, "unlock") /\ Slot(t).type # "normal" /\ MayUnlock(t)
  /\ SetOwner(t, NoThread, 0)
  /\ Goto(t, "release")
  /\ UNCHANGED <<loc, guest>>

UnlockOuter(t) ==
  /\ At(t, "unlock") /\ Slot(t).type # "normal" /\ MayUnlock(t) /\ Slot(t).depth = 1
  /\ SetOwner(t, NoThread, 0)
  /\ Goto(t, "release")
  /\ UNCHANGED <<loc, guest>>

Release(t) ==
  /\ At(t, "release")
  /\ SetHost(t, NoThread)
  /\ held' = [held EXCEPT ![t][loc[t].o] = @ - 1]
  /\ Leave(t)
  /\ UNCHANGED <<typeOf, users, last, cond, owes>>

-----------------------------------------------------------------------------
(***************************************************************************)
(* bionic_pthread_cond_wait and timedwait, bionic_cond_wait_bridge.         *)
(***************************************************************************)
\* slot_get of the condition variable ...  The guest may also wait with a mutex that
\* has an owner and that it does not hold, which is an error.
Wait(t, c, op) ==
  LET k == MutexOf[c] IN
  /\ At(t, "idle") /\ op \in {"wait", "timedwait"}
  /\ t \in users[k] /\ ~cond[c] /\ (held[t][k] > 0 \/ typeOf[k] # "normal")
  /\ \/ \E i \in Indices :
          /\ GetSlot(c, i)
          /\ loc' = [loc EXCEPT ![t] = [op |-> op, o |-> k, s |-> 0, c |-> i]]
     \/ /\ NoSlotLeft(c)
        /\ loc' = [loc EXCEPT ![t] = [op |-> op, o |-> k, s |-> 0, c |-> 0]]
        /\ UNCHANGED slots
  /\ Goto(t, "second")
  /\ UNCHANGED guest

\* ... and of the mutex; either may be missing.
WaitSecond(t) ==
  /\ At(t, "second")
  /\ \/ \E i \in Indices :
          /\ GetSlot(loc[t].o, i)
          /\ IF loc[t].c = 0 THEN Leave(t)
             ELSE Goto(t, "detect") /\ loc' = [loc EXCEPT ![t].s = i]
     \/ NoSlotLeft(loc[t].o) /\ Leave(t) /\ UNCHANGED slots
  /\ UNCHANGED guest

\* The deadline has passed already.
WaitExpired(t) ==
  /\ At(t, "bridge") /\ loc[t].op = "timedwait"
  /\ Leave(t)
  /\ UNCHANGED <<slots, guest>>

\* BadInput: not the owner.
WaitFails(t) ==
  /\ At(t, "bridge") /\ Slot(t).type # "normal" /\ ~MayUnlock(t)
  /\ Leave(t)
  /\ UNCHANGED <<slots, guest>>

\* Mutant: the mutex is given up before the thread sleeps.
WaitOwnedReleases(t) ==
  /\ At(t, "bridge") /\ Slot(t).type # "normal" /\ MayUnlock(t) /\ Slot(t).depth = 1
  /\ slots' = [slots EXCEPT ![loc[t].s].owner = NoThread, ![loc[t].s].depth = 0,
                            ![loc[t].s].m = NoThread]
  /\ Goto(t, "sleep")
  /\ UNCHANGED <<loc, guest>>

\* Held once: the owner is cleared, then the host mutex is waited with.
WaitOwned(t) ==
  /\ At(t, "bridge") /\ Slot(t).type # "normal" /\ MayUnlock(t) /\ Slot(t).depth = 1
  /\ SetOwner(t, NoThread, 0)
  /\ Goto(t, "sleep")
  /\ UNCHANGED <<loc, guest>>

\* condvarWaitTimeout with the host mutex of the guest's mutex.
Sleep(t) ==
  /\ At(t, "sleep") \/ (At(t, "bridge") /\ Slot(t).type = "normal")
  /\ slots' = [slots EXCEPT ![loc[t].s].m = NoThread, ![loc[t].c].cv = @ \cup {t}]
  /\ Goto(t, "asleep")
  /\ UNCHANGED <<loc, guest>>

\* Held more than once: the guest's mutex is kept, and the thread waits with the
\* host mutex of the condition variable's slot.
WaitNested(t) ==
  /\ At(t, "bridge") /\ Slot(t).type # "normal" /\ MayUnlock(t) /\ Slot(t).depth > 1
  /\ SetDepth(t, Slot(t).depth - 1)
  /\ Goto(t, "nested")
  /\ UNCHANGED <<loc, guest>>

NestedLock(t) ==
  /\ At(t, "nested") /\ CSlot(t).m = NoThread
  /\ slots' = [slots EXCEPT ![loc[t].c].m = t]
  /\ Goto(t, "nestedsleep")
  /\ UNCHANGED <<loc, guest>>

NestedSleep(t) ==
  /\ At(t, "nestedsleep")
  /\ slots' = [slots EXCEPT ![loc[t].c].m = NoThread, ![loc[t].c].cv = @ \cup {t}]
  /\ Goto(t, "nestedasleep")
  /\ UNCHANGED <<loc, guest>>

\* The timeout: every wait has one, cond_wait's is 16 ms.
TimesOut(t) ==
  /\ pc[t] \in {"asleep", "nestedasleep"} /\ t \in CSlot(t).cv
  /\ slots' = [slots EXCEPT ![loc[t].c].cv = @ \ {t}]
  /\ UNCHANGED <<pc, loc, guest>>

\* Woken or timed out, the thread takes the host mutex again.
Retake(t) ==
  /\ At(t, "asleep") /\ t \notin CSlot(t).cv /\ Slot(t).m = NoThread
  /\ SetHost(t, t)
  /\ IF Slot(t).type = "normal" THEN Leave(t) ELSE Goto(t, "reown") /\ UNCHANGED loc
  /\ UNCHANGED guest

Reown(t) ==
  /\ At(t, "reown")
  /\ SetOwner(t, t, 1)
  /\ Leave(t)
  /\ UNCHANGED guest

NestedRetake(t) ==
  /\ At(t, "nestedasleep") /\ t \notin CSlot(t).cv /\ CSlot(t).m = NoThread
  /\ slots' = [slots EXCEPT ![loc[t].c].m = t]
  /\ Goto(t, "nestedunlock")
  /\ UNCHANGED <<loc, guest>>

NestedUnlock(t) ==
  /\ At(t, "nestedunlock")
  /\ slots' = [slots EXCEPT ![loc[t].c].m = NoThread]
  /\ Goto(t, "deepen")
  /\ UNCHANGED <<loc, guest>>

Deepen(t) ==
  /\ At(t, "deepen")
  /\ SetDepth(t, Slot(t).depth + 1)
  /\ Leave(t)
  /\ UNCHANGED guest

-----------------------------------------------------------------------------
(***************************************************************************)
(* bionic_pthread_cond_signal and broadcast.                                *)
(***************************************************************************)
Awaken(t, c, op) ==
  /\ At(t, "idle") /\ op \in {"signal", "broadcast"} /\ t \in users[MutexOf[c]]
  /\ \/ /\ \E i \in Indices : GetSlot(c, i) /\ Holding(t, op, c, i, "wake")
        /\ UNCHANGED owes
     \/ /\ NoSlotLeft(c)
        /\ owes' = [owes EXCEPT ![c] = @ \ {t}]
        /\ UNCHANGED <<slots, pc, loc>>
  /\ UNCHANGED <<typeOf, held, users, last, cond>>

\* condvarWakeOne or condvarWakeAll.
Wake(t) ==
  LET cv == Slot(t).cv IN
  /\ At(t, "wake")
  /\ IF loc[t].op = "broadcast"
       THEN /\ slots' = [slots EXCEPT ![loc[t].s].cv = {}]
            /\ owes' = [owes EXCEPT ![loc[t].o] = @ \ {t}]
       ELSE /\ IF cv = {} THEN UNCHANGED slots
               ELSE \E u \in cv : slots' = [slots EXCEPT ![loc[t].s].cv = cv \ {u}]
            /\ UNCHANGED owes
  /\ Leave(t)
  /\ UNCHANGED <<typeOf, held, users, last, cond>>

-----------------------------------------------------------------------------
(***************************************************************************)
(* bionic_pthread_mutex_destroy and init, cond_destroy and init, by the last *)
(* user of a mutex once it has unlocked it.                                 *)
(***************************************************************************)
Alone(t, k) == At(t, "idle") /\ last[k] = t /\ held[t][k] = 0

Destroy(t, o) ==
  /\ Alone(t, IF o \in Conds THEN MutexOf[o] ELSE o)
  /\ ReleaseSlot(o)
  /\ UNCHANGED <<pc, loc, guest>>

CondInit(t, c) ==
  /\ Alone(t, MutexOf[c])
  /\ \E i \in Indices : GetSlot(c, i)
  /\ UNCHANGED <<pc, loc, guest>>

\* The new mutex may be of another type.
MutexInit(t, k) ==
  /\ Alone(t, k)
  /\ \E i \in Indices : GetSlot(k, i) /\ Holding(t, "init", k, i, "init")
  /\ \E ty \in Types : typeOf' = [typeOf EXCEPT ![k] = ty]
  /\ UNCHANGED <<held, users, last, cond, owes>>

MutexInitStore(t) ==
  /\ At(t, "init")
  /\ slots' = [slots EXCEPT ![loc[t].s] = [@ EXCEPT !.type = typeOf[loc[t].o], !.known = TRUE,
                                                    !.owner = NoThread, !.depth = 0]]
  /\ Leave(t)
  /\ UNCHANGED guest

-----------------------------------------------------------------------------
(***************************************************************************)
(* The guest's own steps.                                                   *)
(***************************************************************************)
\* It sets a condition under the mutex and so owes the waiters a broadcast.
SetCond(t, c) ==
  /\ At(t, "idle") /\ t \in users[MutexOf[c]] /\ held[t][MutexOf[c]] > 0 /\ ~cond[c]
  /\ cond' = [cond EXCEPT ![c] = TRUE]
  /\ owes' = [owes EXCEPT ![c] = @ \cup {t}]
  /\ UNCHANGED <<slots, pc, loc, typeOf, held, users, last>>

ClearCond(t, c) ==
  /\ At(t, "idle") /\ t \in users[MutexOf[c]] /\ held[t][MutexOf[c]] > 0 /\ cond[c]
  /\ cond' = [cond EXCEPT ![c] = FALSE]
  /\ UNCHANGED <<slots, pc, loc, typeOf, held, users, last, owes>>

\* It has used a mutex for the last time, but for the unlock.
Drop(t, k) ==
  /\ At(t, "idle") /\ t \in users[k] /\ held[t][k] = 1
  /\ \A c \in Conds : MutexOf[c] = k => t \notin owes[c]
  /\ users' = [users EXCEPT ![k] = @ \ {t}]
  /\ last' = [last EXCEPT ![k] = IF users[k] = {t} THEN t ELSE @]
  /\ UNCHANGED <<slots, pc, loc, typeOf, held, cond, owes>>

\* A new mutex at the same address is given to all threads.
Publish(t, k) ==
  /\ Alone(t, k)
  /\ users' = [users EXCEPT ![k] = Threads]
  /\ last' = [last EXCEPT ![k] = NoThread]
  /\ cond' = [c \in Conds |-> cond[c] /\ MutexOf[c] # k]
  /\ UNCHANGED <<slots, pc, loc, typeOf, held, owes>>

Step(t) ==
  \/ Detect(t) \/ OwnerIsMe(t) \/ OwnerIsNotMe(t) \/ Take(t) \/ TakeBusy(t) \/ Own(t)
  \/ UnlockNormal(t) \/ UnlockFails(t) \/ UnlockInner(t) \/ UnlockOuter(t) \/ Release(t)
  \/ WaitSecond(t) \/ WaitExpired(t) \/ WaitFails(t) \/ WaitOwned(t) \/ Sleep(t)
  \/ WaitNested(t) \/ NestedLock(t) \/ NestedSleep(t) \/ TimesOut(t)
  \/ Retake(t) \/ Reown(t) \/ NestedRetake(t) \/ NestedUnlock(t) \/ Deepen(t)
  \/ Wake(t) \/ MutexInitStore(t)

Call(t) ==
  \/ \E k \in Mutexes :
       \/ Lock(t, k, "lock") \/ Lock(t, k, "trylock") \/ Unlock(t, k)
       \/ MutexInit(t, k) \/ Drop(t, k) \/ Publish(t, k)
  \/ \E c \in Conds :
       \/ Wait(t, c, "wait") \/ Wait(t, c, "timedwait")
       \/ Awaken(t, c, "signal") \/ Awaken(t, c, "broadcast")
       \/ CondInit(t, c) \/ SetCond(t, c) \/ ClearCond(t, c)
  \/ \E o \in Objects : Destroy(t, o)

Next == \E t \in Threads : Step(t) \/ Call(t)

Spec == Init /\ [][Next]_vars

-----------------------------------------------------------------------------
(***************************************************************************)
(* Properties.                                                              *)
(***************************************************************************)
\* The type invariant.
TypeOK ==
  /\ slots \in [Indices -> [key : Objects \cup {NoObject}, m : Threads \cup {NoThread},
                            cv : SUBSET Threads, count : {0},
                            type : {"normal", "recursive", "errorcheck"}, known : BOOLEAN,
                            owner : Threads \cup {NoThread}, depth : 0..MaxDepth]]
  /\ loc \in [Threads -> [op : {"none", "lock", "trylock", "unlock", "wait", "timedwait",
                                "signal", "broadcast", "init"},
                          o : Objects \cup {NoObject}, s : 0..NSlots, c : 0..NSlots]]
  /\ held \in [Threads -> [Mutexes -> 0..MaxDepth]]
  /\ typeOf \in [Mutexes -> Types]

\* t holds k and is not in a call that gives it up.
Inside(t, k) ==
  held[t][k] > 0 /\ ~(loc[t].o = k /\ loc[t].op \in {"unlock", "wait", "timedwait"})

\* What a thread believes it holds it does hold, to the same depth, in the slot of
\* that mutex: so no two threads are inside at once, a wait comes back with the
\* mutex as deep as it was, and the unlocks that follow will succeed.
HoldersOwnSlot ==
  \A t \in Threads, k \in Mutexes : Inside(t, k) =>
    /\ Present(k)
    /\ LET s == slots[SlotOf(k)] IN
         /\ s.m = t /\ s.type = typeOf[k]
         /\ s.type # "normal" => s.owner = t /\ s.depth = held[t][k]

\* No object has two slots, and a call uses the slot of its own object until it
\* returns, although the object may be destroyed, and the slot given to another one,
\* as soon as the mutex is free.
NoStaleSlot ==
  /\ \A i, j \in Indices : slots[i].key = slots[j].key /\ slots[i].key # NoObject => i = j
  /\ \A t \in Threads :
       /\ loc[t].s # 0 => slots[loc[t].s].key = loc[t].o
       /\ loc[t].c # 0 => slots[loc[t].c].key \in {c \in Conds : MutexOf[c] = loc[t].o}

\* Once a condition holds and its broadcasts are done, nobody sleeps for it.
NoMissedSignal ==
  \A t \in Threads, c \in Conds :
    cond[c] /\ owes[c] = {} /\ pc[t] \in {"asleep", "nestedasleep"} /\ slots[loc[t].c].key = c
      => t \notin slots[loc[t].c].cv
=============================================================================
