---------------------------- MODULE SyncMutexProofs ----------------------------
(***************************************************************************)
(* The mutexes and condition variables of bionic.c, for any number of       *)
(* threads, slots, objects and nested locks.  Whoever has locked a mutex is *)
(* its owner in its slot, to the depth it locked it; no call goes on with a *)
(* slot that has meanwhile become another object's; nobody who was asleep   *)
(* when a condition was set is forgotten by the signal.                     *)
(*                                                                          *)
(* The invariant says for each thread where in which call it is and what it *)
(* may then rely on, and for each slot whom it must name.  Reads of a slot  *)
(* are not locked, so a step is mostly about what the other threads, having *)
(* read, still believe: OthersSound settles that once for every action.     *)
(***************************************************************************)
EXTENDS SyncMutex, FiniteSetTheorems, TLAPS

-----------------------------------------------------------------------------
\* A wait with the mutex locked more than once.
Nesting == {"nested", "nestedsleep", "nestedasleep", "nestedunlock", "deepen"}

\* Thread u has the host mutex of k.
Host(u, k) ==
  IF loc[u].o = k
    THEN \/ pc[u] \in {"own", "release", "sleep", "reown"} \cup Nesting
         \/ pc[u] \in {"second", "detect", "owner", "bridge", "unlock"} /\ held[u][k] > 0
    ELSE held[u][k] > 0

\* ... and is its owner in the sense of pthread.
Owns(u, k) == Host(u, k) /\ (loc[u].o = k => pc[u] \notin {"own", "release", "sleep", "reown"})

\* The depth written in the slot: a nested wait has counted one lock down.
Depth(u, k) == IF loc[u].o = k /\ pc[u] \in Nesting THEN held[u][k] - 1 ELSE held[u][k]

\* The slot a call found is its object's, its type settled.
HasSlot(u) == loc[u].s \in Indices /\ slots[loc[u].s].key = loc[u].o
Known(u) == slots[loc[u].s].known /\ slots[loc[u].s].type = typeOf[loc[u].o]

Idle(u) == pc[u] = "idle" /\ loc[u] = NoLoc

\* In lock or trylock.
Locking(u) ==
  LET k == loc[u].o IN
  /\ pc[u] \in {"detect", "owner", "take", "own"} /\ loc[u].op \in {"lock", "trylock"}
  /\ k \in Mutexes /\ HasSlot(u) /\ loc[u].c = 0 /\ u \in users[k]
  /\ held[u][k] < MaxDepth /\ (typeOf[k] = "normal" => held[u][k] = 0)
  /\ pc[u] # "detect" => Known(u)
  /\ pc[u] \in {"owner", "own"} => typeOf[k] # "normal"
  /\ pc[u] \in {"take", "own"} => held[u][k] = 0

\* In unlock, as the owner or to be refused.
Unlocking(u) ==
  LET k == loc[u].o IN
  /\ pc[u] \in {"unlock", "release"} /\ loc[u].op = "unlock"
  /\ k \in Mutexes /\ HasSlot(u) /\ loc[u].c = 0 /\ Known(u)
  /\ pc[u] = "release" => typeOf[k] # "normal" /\ held[u][k] = 1
  /\ held[u][k] = 0 => u \in users[k] /\ typeOf[k] # "normal"

\* The condition variable waited for.
WaitsFor(u) == slots[loc[u].c].key

\* In a wait.
Waits(u) ==
  LET k == loc[u].o IN
  /\ pc[u] \in {"second", "detect", "bridge", "sleep", "asleep", "reown"} \cup Nesting
  /\ loc[u].op \in {"wait", "timedwait"}
  /\ k \in Mutexes /\ u \in users[k]
  /\ IF pc[u] = "second" THEN loc[u].s = 0 ELSE HasSlot(u) /\ loc[u].c # 0
  /\ loc[u].c # 0 => WaitsFor(u) \in Conds /\ MutexOf[WaitsFor(u)] = k
  /\ pc[u] \notin {"second", "detect"} => Known(u)
  /\ typeOf[k] = "normal" => held[u][k] > 0
  /\ pc[u] \in {"sleep", "asleep", "reown"} => held[u][k] > 0 /\ (typeOf[k] # "normal" => held[u][k] = 1)
  /\ pc[u] \in {"sleep", "reown"} \cup Nesting => typeOf[k] # "normal"
  /\ pc[u] \in Nesting => held[u][k] > 1
  /\ Host(u, k) /\ loc[u].c # 0 /\ pc[u] \notin {"reown", "nestedunlock", "deepen"} => ~cond[WaitsFor(u)]

\* In a signal or broadcast.
Waking(u) ==
  LET c == loc[u].o IN
  /\ pc[u] = "wake" /\ loc[u].op \in {"signal", "broadcast"}
  /\ c \in Conds /\ HasSlot(u) /\ loc[u].c = 0 /\ u \in users[MutexOf[c]]

\* In pthread_mutex_init.
Making(u) ==
  LET k == loc[u].o IN
  /\ pc[u] = "init" /\ loc[u].op = "init"
  /\ k \in Mutexes /\ HasSlot(u) /\ loc[u].c = 0 /\ last[k] = u /\ held[u][k] = 0

InPlace(u) == Idle(u) \/ Locking(u) \/ Unlocking(u) \/ Waits(u) \/ Waking(u) \/ Making(u)

OneSlotEach == \A i, j \in Indices : slots[i].key = slots[j].key /\ slots[i].key # NoObject => i = j

\* A slot's type is its mutex's once it is known; only normal mutexes have no owner.
Detecting(i) ==
  /\ ~slots[i].known => slots[i].type = "normal"
  /\ slots[i].type = "normal" => slots[i].owner = NoThread
  /\ slots[i].known /\ slots[i].key \in Mutexes =>
       \/ slots[i].type = typeOf[slots[i].key]
       \/ \E u \in Threads : pc[u] = "init" /\ loc[u].o = slots[i].key

\* Slot i says that u has the host mutex of k, and that it is the owner if it is.
HostAt(u, k, i) ==
  /\ slots[i].key = k /\ slots[i].m = u /\ slots[i].known /\ slots[i].type = typeOf[k]
  /\ typeOf[k] # "normal" /\ Owns(u, k) => slots[i].owner = u /\ slots[i].depth = Depth(u, k)

Hosts(u) == \A k \in Mutexes : Host(u, k) => \E i \in Indices : HostAt(u, k, i)

\* A slot names as owner only who is.
OwnerOwns(u) == \A i \in Indices :
  slots[i].owner = u /\ slots[i].key \in Mutexes => Owns(u, slots[i].key)

\* The last user of a mutex is alone with it.
Left(k) == last[k] # NoThread =>
  last[k] \in Threads /\ users[k] = {} /\ \A u \in Threads \ {last[k]} : held[u][k] = 0

NormalOnce == \A u \in Threads, k \in Mutexes : typeOf[k] = "normal" => held[u][k] <= 1

\* TypeOK, with the places of the code and the guest's own state.
MutexTypes ==
  /\ TypeOK
  /\ pc \in [Threads -> {"idle", "detect", "owner", "take", "own", "unlock", "release", "second",
                         "bridge", "sleep", "asleep", "reown", "wake", "init"} \cup Nesting]
  /\ users \in [Mutexes -> SUBSET Threads] /\ last \in [Mutexes -> Threads \cup {NoThread}]
  /\ cond \in [Conds -> BOOLEAN] /\ owes \in [Conds -> SUBSET Threads]

MInv ==
  /\ MutexTypes /\ OneSlotEach /\ NormalOnce
  /\ \A i \in Indices : Detecting(i)
  /\ \A k \in Mutexes : Left(k)
  /\ \A u \in Threads : InPlace(u) /\ Hosts(u) /\ OwnerOwns(u)
  /\ NoMissedSignal

-----------------------------------------------------------------------------
\* The values TypeOK allows.
SlotRecs == [key : Objects \cup {NoObject}, m : Threads \cup {NoThread},
             cv : SUBSET Threads, count : {0},
             type : {"normal", "recursive", "errorcheck"}, known : BOOLEAN,
             owner : Threads \cup {NoThread}, depth : 0..MaxDepth]
LocRecs == [op : {"none", "lock", "trylock", "unlock", "wait", "timedwait",
                  "signal", "broadcast", "init"},
            o : Objects \cup {NoObject}, s : 0..NSlots, c : 0..NSlots]

\* NoMissedSignal, for one thread.
NoMissed(u) == \A c \in Conds :
  cond[c] /\ owes[c] = {} /\ pc[u] \in {"asleep", "nestedasleep"} /\ slots[loc[u].c].key = c
    => u \notin slots[loc[u].c].cv

Sound(u) == InPlace(u) /\ Hosts(u) /\ OwnerOwns(u) /\ NoMissed(u)

\* The other threads stay where they are.
Others(t) == \A u \in Threads \ {t} : pc'[u] = pc[u] /\ loc'[u] = loc[u] /\ held'[u] = held[u]

\* What t may do to a slot that others use ...
Kept(t, i) ==
  /\ slots'[i].key = slots[i].key
  /\ slots[i].known => slots'[i].known /\ slots'[i].type = slots[i].type
  /\ slots'[i].owner \in {slots[i].owner, t, NoThread}
  /\ slots'[i].cv \subseteq slots[i].cv \cup {t}
  /\ \/ /\ slots'[i].m = slots[i].m /\ slots'[i].owner = slots[i].owner
        /\ slots'[i].depth = slots[i].depth
     \/ slots[i].key \notin Mutexes
     \/ \A u \in Threads \ {t} : ~Host(u, slots[i].key)

\* ... to one that is not used ...
Given(i, o) == slots[i].key = NoObject /\ ~Present(o) /\ slots'[i] = Fresh(o)

\* ... and to one that only t still uses.
Deserted(t, i) ==
  /\ slots'[i].key \in {slots[i].key, NoObject}
  /\ slots'[i].owner \in {slots[i].owner, t, NoThread}
  /\ \A u \in Threads \ {t} :
       loc[u].s # i /\ loc[u].c # i /\ (slots[i].key \in Mutexes => ~Host(u, slots[i].key))

\* The guest's view may change as far as nobody who waits is misled.
GuestStep(t) ==
  /\ \A k \in Mutexes : /\ users[k] \ {t} \subseteq users'[k]
                        /\ last[k] \in Threads \ {t} => last'[k] = last[k]
  /\ \A c \in Conds : cond'[c] => cond[c] \/ \A u \in Threads \ {t} : ~Host(u, MutexOf[c])
  /\ \A c \in Conds : cond'[c] /\ owes'[c] = {} =>
       (cond[c] /\ owes[c] = {}) \/ \A i \in Indices : slots'[i].key = c => slots'[i].cv \subseteq {t}

\* Who has a mutex is in the mutex's slot, wherever it was found.
LEMMA HostSlot ==
  ASSUME MInv, NEW u \in Threads, NEW k \in Mutexes, Host(u, k), NEW i \in Indices,
         slots[i].key = k,
         k # NoObject
  PROVE  HostAt(u, k, i)
BY DEF MInv, Hosts, OneSlotEach, HostAt

\* A mutex is one thread's at a time.
LEMMA HostUnique ==
  ASSUME MInv, NEW u \in Threads, NEW v \in Threads, NEW k \in Mutexes, k # NoObject, Host(u, k), Host(v, k)
  PROVE  u = v
<1>1. PICK i \in Indices : HostAt(u, k, i)
  BY DEF MInv, Hosts
<1>2. HostAt(v, k, i)
  BY <1>1, HostSlot DEF HostAt
<1> QED  BY <1>1, <1>2 DEF HostAt

\* What one thread does to slots it may touch leaves every other thread where it is, with
\* the mutexes it holds and the wake it was promised.
LEMMA OthersSound ==
  ASSUME MInv, MutexTypes', NEW t \in Threads, Others(t),
         \A k \in Mutexes : \/ typeOf'[k] = typeOf[k]
                            \/ \A u \in Threads \ {t} : loc[u].o # k /\ held[u][k] = 0,
         GuestStep(t),
         \A i \in Indices : Kept(t, i) \/ (\E o \in Objects : Given(i, o)) \/ Deserted(t, i)
  PROVE  \A u \in Threads \ {t} : Sound(u)'
<1> SUFFICES ASSUME NEW u \in Threads \ {t} PROVE Sound(u)'
  OBVIOUS
<1>a. \A k \in Mutexes : (u \in users[k] => u \in users'[k]) /\ (last[k] = u => last'[k] = u)
  BY DEF GuestStep
<1>b. \A c \in Conds : cond'[c] => cond[c] \/ ~Host(u, MutexOf[c])
  BY DEF GuestStep
<1>c. \A c \in Conds : cond'[c] /\ owes'[c] = {} =>
        (cond[c] /\ owes[c] = {}) \/ \A i \in Indices : slots'[i].key = c => slots'[i].cv \subseteq {t}
  BY DEF GuestStep
<1>0. u \in Threads /\ u # t /\ Others(t) /\ pc'[u] = pc[u] /\ loc'[u] = loc[u] /\ held'[u] = held[u]
      /\ InPlace(u) /\ Hosts(u) /\ OwnerOwns(u) /\ NoObject \notin Objects /\ NoThread # u
      /\ loc[u].s \in 0..NSlots /\ loc[u].c \in 0..NSlots /\ 0 \notin Indices
      /\ Indices = (0..NSlots) \ {0}
  BY SlotsAssumption DEF Others, MInv, MutexTypes, TypeOK, Indices
<1>1. \A k : /\ Host(u, k)' <=> Host(u, k)
             /\ Owns(u, k)' <=> Owns(u, k)
             /\ Depth(u, k)' = Depth(u, k)
  BY <1>0 DEF Host, Owns, Depth
<1>2. \A i \in Indices : (i = loc[u].s \/ i = loc[u].c) /\ slots[i].key \in Objects => Kept(t, i)
  BY <1>0 DEF Deserted, Given
<1>3. InPlace(u)'
  <2>1. CASE Idle(u)
    BY <2>1, <1>0 DEF Idle, InPlace
  <2>2. CASE Locking(u)
    <3>1. loc[u].s \in Indices /\ loc[u].o \in Mutexes /\ slots[loc[u].s].key = loc[u].o
      BY <2>2 DEF Locking, HasSlot
    <3>2. Kept(t, loc[u].s) /\ typeOf'[loc[u].o] = typeOf[loc[u].o]
      BY <3>1, <1>2, <1>0, SyncMutexAssumption
    <3>3. Locking(u)'
      BY <2>2, <3>1, <3>2, <1>0, <1>a DEF Locking, HasSlot, Known, Kept, Indices
    <3> QED  BY <3>3 DEF InPlace
  <2>3. CASE Unlocking(u)
    <3>1. loc[u].s \in Indices /\ loc[u].o \in Mutexes /\ slots[loc[u].s].key = loc[u].o
      BY <2>3 DEF Unlocking, HasSlot
    <3>2. Kept(t, loc[u].s) /\ typeOf'[loc[u].o] = typeOf[loc[u].o]
      BY <3>1, <1>2, <1>0, SyncMutexAssumption
    <3>3. Unlocking(u)'
      BY <2>3, <3>1, <3>2, <1>0, <1>a DEF Unlocking, HasSlot, Known, Kept, Indices
    <3> QED  BY <3>3 DEF InPlace
  <2>4. CASE Waits(u)
    <3>1. /\ loc[u].o \in Mutexes
          /\ pc[u] # "second" => loc[u].s \in Indices /\ slots[loc[u].s].key = loc[u].o
          /\ loc[u].c # 0 => loc[u].c \in Indices /\ slots[loc[u].c].key \in Conds
                             /\ MutexOf[slots[loc[u].c].key] = loc[u].o
      BY <2>4, <1>0 DEF Waits, HasSlot, WaitsFor
    <3>2. typeOf'[loc[u].o] = typeOf[loc[u].o]
      BY <3>1, <1>0
    <3>3. pc[u] # "second" => Kept(t, loc[u].s)
      BY <3>1, <1>2, <1>0, SyncMutexAssumption
    <3>4. loc[u].c # 0 => slots'[loc[u].c].key = slots[loc[u].c].key
      BY <3>1, <1>2, <1>0, SyncMutexAssumption DEF Kept
    <3>5. pc[u] # "second" => /\ HasSlot(u)' <=> HasSlot(u)
                              /\ Known(u) => Known(u)'
      BY <3>2, <3>3, <1>0 DEF HasSlot, Known, Kept, Indices
    <3>6. Host(u, loc[u].o) /\ loc[u].c # 0 /\ ~cond[WaitsFor(u)] => ~cond'[WaitsFor(u)]
      BY <3>1, <1>b DEF WaitsFor
    <3>7. u \in users[loc[u].o] => u \in users'[loc[u].o]
      BY <3>1, <1>a
    <3>8. loc[u].c # 0 => WaitsFor(u)' = WaitsFor(u)
      BY <3>4, <1>0 DEF WaitsFor
    <3>9. Waits(u)'
      <4>1. /\ loc'[u].o = loc[u].o /\ (Host(u, loc[u].o)' <=> Host(u, loc[u].o))
            /\ pc[u] = "second" \/ ((HasSlot(u)' <=> HasSlot(u)) /\ (Known(u) => Known(u)'))
            /\ loc[u].c # 0 => WaitsFor(u)' = WaitsFor(u)
        BY <1>0, <1>1, <3>5, <3>8
      <4> HIDE DEF Nesting, Host, HasSlot, Known, WaitsFor
      <4> QED  BY <4>1, <2>4, <1>0, <3>2, <3>6, <3>7 DEF Waits
    <3> QED  BY <3>9 DEF InPlace
  <2>5. CASE Waking(u)
    <3>1. loc[u].s \in Indices /\ loc[u].o \in Conds /\ slots[loc[u].s].key = loc[u].o
      BY <2>5 DEF Waking, HasSlot
    <3>2. Kept(t, loc[u].s) /\ MutexOf[loc[u].o] \in Mutexes
      BY <3>1, <1>2, <1>0, SyncMutexAssumption
    <3>3. Waking(u)'
      BY <2>5, <3>1, <3>2, <1>0, <1>a DEF Waking, HasSlot, Kept, Indices
    <3> QED  BY <3>3 DEF InPlace
  <2>6. CASE Making(u)
    <3>1. loc[u].s \in Indices /\ loc[u].o \in Mutexes /\ slots[loc[u].s].key = loc[u].o
      BY <2>6 DEF Making, HasSlot
    <3>2. Kept(t, loc[u].s)
      BY <3>1, <1>2, <1>0, SyncMutexAssumption
    <3>3. Making(u)'
      BY <2>6, <3>1, <3>2, <1>0, <1>a DEF Making, HasSlot, Kept, Indices
    <3> QED  BY <3>3 DEF InPlace
  <2> QED  BY <1>0, <2>1, <2>2, <2>3, <2>4, <2>5, <2>6 DEF InPlace
<1>4. Hosts(u)'
  <2> SUFFICES ASSUME NEW k \in Mutexes, Host(u, k)' PROVE \E i \in Indices : HostAt(u, k, i)'
    BY DEF Hosts, Indices
  <2>1. Host(u, k) /\ k \in Objects
    BY <1>1, SyncMutexAssumption
  <2>2. PICK i \in Indices : HostAt(u, k, i)
    BY <2>1, <1>0 DEF Hosts
  <2>3. slots[i].key = k
    BY <2>2 DEF HostAt
  <2>4. Kept(t, i)
    BY <2>1, <2>3, <1>0 DEF Deserted, Given
  <2>5. typeOf'[k] = typeOf[k]
    BY <2>1, <1>0 DEF Host
  <2>6. HostAt(u, k, i)'
    BY <2>1, <2>2, <2>3, <2>4, <2>5, <1>0, <1>1 DEF HostAt, Kept
  <2> QED  BY <2>6
<1>5. OwnerOwns(u)'
  <2> SUFFICES ASSUME NEW i \in Indices, NEW k \in Mutexes, slots'[i].owner = u, slots'[i].key = k
               PROVE  Owns(u, k)'
    BY DEF OwnerOwns, Indices
  <2>1. k \in Objects
    BY SyncMutexAssumption
  <2>2. slots[i].owner = u /\ slots[i].key = k
    <3>1. CASE Kept(t, i)
      BY <3>1, <1>0 DEF Kept
    <3>2. CASE \E o \in Objects : Given(i, o)
      BY <3>2, <1>0 DEF Given, Fresh
    <3>3. CASE Deserted(t, i)
      BY <3>3, <2>1, <1>0 DEF Deserted
    <3> QED  BY <3>1, <3>2, <3>3
  <2>3. Owns(u, k)
    BY <2>2, <1>0 DEF OwnerOwns
  <2> QED  BY <2>3, <1>1
<1>6. NoMissed(u)'
  <2> SUFFICES ASSUME NEW c \in Conds, cond'[c], owes'[c] = {}, pc[u] \in {"asleep", "nestedasleep"},
                      slots'[loc[u].c].key = c, u \in slots'[loc[u].c].cv
               PROVE  FALSE
    BY <1>0 DEF NoMissed
  <2> DEFINE i == loc[u].c
  <2>1. Waits(u)
    BY <1>0 DEF InPlace, Idle, Locking, Unlocking, Waking, Making
  <2>2. i \in Indices /\ slots[i].key \in Conds
    BY <2>1, <1>0 DEF Waits, WaitsFor
  <2>3. Kept(t, i)
    BY <2>2, <1>2, <1>0, SyncMutexAssumption
  <2>4. slots[i].key = c /\ u \in slots[i].cv
    BY <2>3, <1>0 DEF Kept
  <2>5. cond[c] /\ owes[c] = {}
    BY <2>2, <2>3, <2>4, <1>0, <1>c DEF Kept
  <2> QED  BY <2>4, <2>5 DEF MInv, NoMissedSignal
<1> QED  BY <1>3, <1>4, <1>5, <1>6 DEF Sound

-----------------------------------------------------------------------------
(***************************************************************************)
(* Steps that leave the guest's conditions alone.                           *)
(***************************************************************************)
\* A slot's type is detected once, and its fields are kept apart until then.
Detects(i) ==
  /\ \/ slots'[i].known = slots[i].known /\ slots'[i].type = slots[i].type
     \/ slots'[i].known /\ (slots[i].key \in Mutexes => slots'[i].type = typeOf[slots[i].key])
  /\ slots'[i].type = "normal" =>
       slots[i].type = "normal" /\ slots'[i].owner = slots[i].owner

\* How often t holds a mutex goes down, or up while it may use it.
HeldStep(t) == \A k \in Mutexes :
  held'[t][k] <= held[t][k] \/ (t \in users[k] /\ (typeOf[k] = "normal" => held'[t][k] <= 1))

\* No object comes to have two slots.
LEMMA OneSlotStep ==
  ASSUME OneSlotEach, NEW t \in Threads,
         \/ \A i \in Indices : Kept(t, i)
         \/ \E o \in Objects, j \in Indices :
              Given(j, o) /\ \A i \in Indices \ {j} : slots'[i] = slots[i]
  PROVE  OneSlotEach'
<1>1. CASE \A i \in Indices : Kept(t, i)
  BY <1>1 DEF OneSlotEach, Kept, Indices
<1>2. ASSUME NEW o \in Objects, NEW j \in Indices, Given(j, o),
             \A i \in Indices \ {j} : slots'[i] = slots[i]
      PROVE  OneSlotEach'
  BY <1>2 DEF OneSlotEach, Given, Present, Fresh, Indices
<1> QED  BY <1>1, <1>2

\* A step that keeps its own thread in order keeps the invariant.
LEMMA StepKeeps ==
  ASSUME MInv, MutexTypes', NEW t \in Threads, Others(t),
         GuestStep(t), typeOf' = typeOf, HeldStep(t), pc[t] # "init",
         \/ \A i \in Indices : Kept(t, i) /\ Detects(i)
         \/ \E o \in Objects, j \in Indices :
              Given(j, o) /\ \A i \in Indices \ {j} : slots'[i] = slots[i],
         \A k \in Mutexes : Left(k)',
         Sound(t)'
  PROVE  MInv'
<1>1. \A i \in Indices : Kept(t, i) \/ (\E o \in Objects : Given(i, o))
  BY DEF Kept
<1>2. \A u \in Threads \ {t} : Sound(u)'
  BY <1>1, OthersSound
<1>3. OneSlotEach'
  BY OneSlotStep DEF MInv
<1>4. \A i \in Indices : Detecting(i)'
  <2> SUFFICES ASSUME NEW i \in Indices PROVE Detecting(i)'
    OBVIOUS
  <2>1. Detecting(i)
    BY DEF MInv
  <2>2. \A k : (\E u \in Threads : pc[u] = "init" /\ loc[u].o = k)
             => \E u \in Threads : pc'[u] = "init" /\ loc'[u].o = k
    BY DEF Others
  <2>3. CASE \A j \in Indices : Kept(t, j) /\ Detects(j)
    BY <2>1, <2>2, <2>3 DEF Detecting, Detects, Kept
  <2>4. ASSUME NEW o \in Objects, NEW j \in Indices, Given(j, o),
               \A n \in Indices \ {j} : slots'[n] = slots[n]
        PROVE  Detecting(i)'
    BY <2>1, <2>2, <2>4 DEF Detecting, Given, Fresh
  <2> QED  BY <2>3, <2>4
<1>6. NormalOnce'
  <2> SUFFICES ASSUME NEW u \in Threads, NEW k \in Mutexes, typeOf[k] = "normal"
               PROVE  held'[u][k] <= 1
    BY DEF NormalOnce
  <2>1. held[u][k] <= 1 /\ held'[u][k] \in Nat /\ held[u][k] \in Nat
    BY SyncMutexAssumption DEF MInv, NormalOnce, MutexTypes, TypeOK
  <2> QED  BY <2>1 DEF Others, HeldStep
<1>7. NoMissedSignal'
  <2>1. \A u \in Threads : NoMissed(u)'
    BY <1>2 DEF Sound
  <2> QED  BY <2>1 DEF NoMissed, NoMissedSignal
<1>8. \A u \in Threads : InPlace(u)' /\ Hosts(u)' /\ OwnerOwns(u)'
  BY <1>2 DEF Sound
<1> QED  BY <1>3, <1>4, <1>6, <1>7, <1>8 DEF MInv, Indices

\* ... for instance one that leaves the guest's own state alone.
LEMMA Calm ==
  ASSUME MInv, MutexTypes', NEW t \in Threads, Others(t),
         UNCHANGED <<typeOf, users, last, cond, owes>>, HeldStep(t), pc[t] # "init",
         \/ \A i \in Indices : Kept(t, i) /\ Detects(i)
         \/ \E o \in Objects, j \in Indices :
              Given(j, o) /\ \A i \in Indices \ {j} : slots'[i] = slots[i],
         Sound(t)'
  PROVE  MInv'
<1>1. \A k \in Mutexes : Left(k)'
  <2> SUFFICES ASSUME NEW k \in Mutexes, last[k] # NoThread
               PROVE  last[k] \in Threads /\ users[k] = {}
                      /\ \A u \in Threads \ {last[k]} : held'[u][k] = 0
    BY DEF Left
  <2>1. last[k] \in Threads /\ users[k] = {} /\ \A u \in Threads \ {last[k]} : held[u][k] = 0
    BY DEF MInv, Left
  <2>2. \A u \in Threads : held'[u][k] \in Nat /\ held[u][k] \in Nat
    BY SyncMutexAssumption DEF MInv, MutexTypes, TypeOK
  <2>3. held'[t][k] <= held[t][k]
    BY <2>1 DEF HeldStep
  <2> QED  BY <2>1, <2>2, <2>3 DEF Others
<1>2. GuestStep(t)
  BY DEF GuestStep
<1> QED  BY <1>1, <1>2, StepKeeps

\* The mutexes a call is not about.
LEMMA Elsewhere ==
  ASSUME MInv, NEW t \in Threads, NEW j \in Mutexes,
         loc[t].o # j, loc'[t].o # j, held'[t][j] = held[t][j], typeOf'[j] = typeOf[j],
         \A i \in Indices : \/ slots'[i] = slots[i]
                            \/ slots[i].key # j /\ slots'[i].key # j
                            \/ slots[i].key # j /\ slots'[i].owner = NoThread
  PROVE  /\ Host(t, j)' => \E i \in Indices : HostAt(t, j, i)'
         /\ \A i \in Indices : slots'[i].owner = t /\ slots'[i].key = j => Owns(t, j)'
<1>1. (Host(t, j)' <=> Host(t, j)) /\ (Owns(t, j)' <=> Owns(t, j)) /\ Depth(t, j)' = Depth(t, j)
  BY DEF Host, Owns, Depth
<1>2. Hosts(t) /\ OwnerOwns(t) /\ t # NoThread
  BY SlotsAssumption DEF MInv
<1>3. ASSUME Host(t, j)' PROVE \E i \in Indices : HostAt(t, j, i)'
  <2>1. PICK i \in Indices : HostAt(t, j, i)
    BY <1>1, <1>2, <1>3 DEF Hosts
  <2>2. HostAt(t, j, i)'
    BY <2>1, <1>1 DEF HostAt
  <2> QED  BY <2>2
<1>4. ASSUME NEW i \in Indices, slots'[i].owner = t, slots'[i].key = j PROVE Owns(t, j)'
  BY <1>1, <1>2, <1>4 DEF OwnerOwns
<1> QED  BY <1>3, <1>4

\* A step with the slot of the call's mutex.
Places == {"idle", "detect", "owner", "take", "own", "unlock", "release", "second",
           "bridge", "sleep", "asleep", "reown", "wake"} \cup Nesting

\* t is in a call on k, with slot s.
Works(t, k, s) ==
  loc[t].o = k /\ loc[t].s = s /\ slots[s].key = k /\ pc[t] # "init"

\* It stores r there, and then holds k to depth d.
Stores(t, k, s, r, d) ==
  /\ slots' = [slots EXCEPT ![s] = r] /\ held' = [held EXCEPT ![t] = [@ EXCEPT ![k] = d]]
  /\ UNCHANGED <<typeOf, users, last, cond, owes>>
  /\ r.key = k /\ r.cv = slots[s].cv /\ r.known /\ r.type = typeOf[k]
  /\ slots[s].known => slots[s].type = typeOf[k]
  /\ r.type = "normal" => slots[s].type = "normal" /\ r.owner = slots[s].owner
  /\ r.owner \in {slots[s].owner, t, NoThread}
  /\ \/ Host(t, k) \/ slots[s].m = NoThread
     \/ r.m = slots[s].m /\ r.owner = slots[s].owner /\ r.depth = slots[s].depth
  /\ d <= held[t][k] \/ (t \in users[k] /\ (typeOf[k] = "normal" => d <= 1))

\* A step of a call on k: only what it stores in k's slot is to be looked at. It goes on ...
LEMMA MutexStep ==
  ASSUME MInv, NEW t \in Threads, NEW k \in Mutexes,
         NEW s \in Indices, Works(t, k, s),
         NEW r \in SlotRecs, NEW d \in 0..MaxDepth, Stores(t, k, s, r, d),
         NEW q \in Places, pc' = [pc EXCEPT ![t] = q],
         NEW l \in LocRecs, loc' = [loc EXCEPT ![t] = l], l.o \in {k, NoObject},
         InPlace(t)', NoMissed(t)', Host(t, k)' => HostAt(t, k, s)', r.owner = t => Owns(t, k)'
  PROVE  MInv'
<1> USE DEF SlotRecs, LocRecs, Places, Works, Stores
<1>0. MutexTypes /\ k \in Objects /\ NoObject \notin Objects /\ OneSlotEach /\ k # NoObject
  BY SyncMutexAssumption, SlotsAssumption DEF MInv
<1>1. /\ slots'[s] = r /\ \A i \in Indices \ {s} : slots'[i] = slots[i]
      /\ pc'[t] = q /\ loc'[t] = l /\ held'[t][k] = d
      /\ \A j \in Mutexes \ {k} : held'[t][j] = held[t][j]
  BY <1>0 DEF MutexTypes, TypeOK
<1>2. MutexTypes'
  BY <1>0 DEF MutexTypes, TypeOK, Indices
<1>3. Others(t)
  BY <1>0 DEF Others, MutexTypes, TypeOK
<1>4. HeldStep(t)
  BY <1>0, <1>1, SyncMutexAssumption DEF HeldStep, MutexTypes, TypeOK
<1>5. \A i \in Indices \ {s} : slots[i].key # k
  BY <1>0 DEF OneSlotEach
<1>6. ASSUME NEW i \in Indices PROVE Kept(t, i) /\ Detects(i)
  <2>1. CASE i # s
    BY <2>1, <1>1 DEF Kept, Detects
  <2>2. CASE i = s
    <3>1. ASSUME NEW u \in Threads \ {t}, Host(u, k)
          PROVE  r.m = slots[s].m /\ r.owner = slots[s].owner /\ r.depth = slots[s].depth
      <4>1. HostAt(u, k, s)
        BY <3>1, <1>0, HostSlot
      <4>2. ~Host(t, k)
        BY <3>1, <1>0, HostUnique
      <4>3. slots[s].m # NoThread
        BY <4>1, SlotsAssumption DEF HostAt
      <4> QED  BY <4>2, <4>3
    <3> QED  BY <2>2, <3>1, <1>1 DEF Kept, Detects
  <2> QED  BY <2>1, <2>2
<1>7. \A j \in Mutexes \ {k} : /\ Host(t, j)' => \E i \in Indices : HostAt(t, j, i)'
                               /\ \A i \in Indices : slots'[i].owner = t /\ slots'[i].key = j => Owns(t, j)'
  <2> SUFFICES ASSUME NEW j \in Mutexes \ {k}
               PROVE  /\ Host(t, j)' => \E i \in Indices : HostAt(t, j, i)'
                      /\ \A i \in Indices : slots'[i].owner = t /\ slots'[i].key = j => Owns(t, j)'
    OBVIOUS
  <2>1. j # NoObject /\ loc[t].o # j /\ loc'[t].o # j
    BY <1>0, <1>1, SyncMutexAssumption
  <2>2. \A i \in Indices : slots'[i] = slots[i] \/ (slots[i].key # j /\ slots'[i].key # j)
    BY <1>1
  <2> QED  BY <2>1, <2>2, <1>1, Elsewhere
<1>8. Hosts(t)'
  BY <1>7 DEF Hosts, Indices
<1>9. OwnerOwns(t)'
  <2> SUFFICES ASSUME NEW i \in Indices, NEW j \in Mutexes, slots'[i].owner = t, slots'[i].key = j
               PROVE  Owns(t, j)'
    BY DEF OwnerOwns, Indices
  <2> QED  BY <1>0, <1>1, <1>5, <1>7
<1> QED  BY <1>2, <1>3, <1>4, <1>6, <1>8, <1>9, Calm DEF Sound

\* ... and returns.
LEMMA LeaveStep ==
  ASSUME MInv, NEW t \in Threads, NEW k \in Mutexes,
         NEW s \in Indices, Works(t, k, s), Leave(t),
         NEW r \in SlotRecs, NEW d \in 0..MaxDepth, Stores(t, k, s, r, d),
         d > 0 => r.m = t /\ (typeOf[k] # "normal" => r.owner = t /\ r.depth = d),
         r.owner = t => d > 0
  PROVE  MInv'
<1>1. NoLoc \in LocRecs /\ NoLoc.o = NoObject /\ k # NoObject /\ MutexTypes
  BY SyncMutexAssumption, SlotsAssumption DEF NoLoc, LocRecs, MInv
<1>2. /\ pc'[t] = "idle" /\ loc'[t] = NoLoc /\ loc' = [loc EXCEPT ![t] = NoLoc]
      /\ pc' = [pc EXCEPT ![t] = "idle"] /\ held'[t][k] = d /\ slots'[s] = r
  BY <1>1 DEF Leave, Goto, MutexTypes, TypeOK, Stores
<1>3. InPlace(t)' /\ NoMissed(t)'
  BY <1>2 DEF InPlace, Idle, NoMissed
<1>4. /\ Host(t, k)' <=> d > 0
      /\ Owns(t, k)' <=> d > 0
      /\ Depth(t, k)' = d
  BY <1>1, <1>2 DEF Host, Owns, Depth
<1>5. Host(t, k)' => HostAt(t, k, s)'
  BY <1>2, <1>4 DEF HostAt, Stores
<1>6. "idle" \in Places /\ NoLoc.o \in {k, NoObject} /\ (r.owner = t => Owns(t, k)')
  BY <1>1, <1>4 DEF Places
<1> QED  BY <1>1, <1>2, <1>3, <1>5, <1>6, MutexStep

\* ... and goes on.
LEMMA StayStep ==
  ASSUME MInv, NEW t \in Threads, NEW k \in Mutexes,
         NEW s \in Indices, Works(t, k, s), UNCHANGED loc,
         NEW q \in Places \ {"asleep", "nestedasleep"}, Goto(t, q),
         NEW r \in SlotRecs, Stores(t, k, s, r, held[t][k]), InPlace(t)',
         Host(t, k)' => r.m = t /\ (typeOf[k] # "normal" /\ Owns(t, k)'
                                     => r.owner = t /\ r.depth = Depth(t, k)'),
         r.owner = t => Owns(t, k)'
  PROVE  MInv'
<1>1. MutexTypes /\ held[t][k] \in 0..MaxDepth /\ loc[t] \in LocRecs
      /\ loc = [loc EXCEPT ![t] = loc[t]] /\ loc[t].o = k
  BY DEF MInv, MutexTypes, TypeOK, LocRecs, Works
<1>2. pc'[t] = q /\ pc' = [pc EXCEPT ![t] = q] /\ slots'[s] = r
  BY <1>1 DEF Goto, MutexTypes, TypeOK, Stores
<1>3. NoMissed(t)'
  BY <1>2 DEF NoMissed
<1>4. Host(t, k)' => HostAt(t, k, s)'
  BY <1>2 DEF HostAt, Stores
<1> QED  BY <1>1, <1>2, <1>3, <1>4, MutexStep DEF Places

-----------------------------------------------------------------------------
(***************************************************************************)
(* Lock and unlock.                                                         *)
(***************************************************************************)

\* What a thread is doing, from where it is in the code.
LEMMA WhereIs ==
  ASSUME MInv, NEW t \in Threads
  PROVE  /\ pc[t] = "idle" => Idle(t)
         /\ pc[t] \in {"owner", "take", "own"} => Locking(t)
         /\ pc[t] \in {"unlock", "release"} => Unlocking(t)
         /\ pc[t] \in {"second", "bridge", "sleep", "asleep", "reown"} \cup Nesting => Waits(t)
         /\ pc[t] = "detect" => Locking(t) \/ Waits(t)
         /\ pc[t] = "wake" => Waking(t)
         /\ pc[t] = "init" => Making(t)
<1>1. InPlace(t)
  BY DEF MInv
<1> QED  BY <1>1 DEF InPlace, Idle, Locking, Unlocking, Waits, Waking, Making, Nesting

InCall(t) == Locking(t) \/ Unlocking(t) \/ (Waits(t) /\ pc[t] # "second")

\* The slot a call on a mutex works with.
LEMMA CallSlot ==
  ASSUME MInv, NEW t \in Threads, InCall(t),
         NEW k, k = loc[t].o, NEW s, s = loc[t].s
  PROVE  /\ k \in Mutexes /\ s \in Indices /\ Works(t, k, s) /\ slots[s] \in SlotRecs
         /\ slots[s].key = k /\ held[t][k] \in 0..MaxDepth /\ t # NoThread
         /\ Host(t, k) => HostAt(t, k, s)
         /\ slots[s].owner = t => Owns(t, k)
         /\ held = [held EXCEPT ![t] = [@ EXCEPT ![k] = held[t][k]]]
<1>1. k \in Mutexes /\ s \in Indices /\ slots[s].key = k /\ pc[t] # "init"
  BY DEF InCall, Locking, Unlocking, Waits, HasSlot, Nesting
<1>2. MutexTypes /\ OwnerOwns(t) /\ k # NoObject
  BY <1>1, SyncMutexAssumption, SlotsAssumption DEF MInv
<1>3. Host(t, k) => HostAt(t, k, s)
  BY <1>1, <1>2, HostSlot
<1>4. slots[s] \in SlotRecs /\ held[t][k] \in 0..MaxDepth
      /\ held = [held EXCEPT ![t] = [@ EXCEPT ![k] = held[t][k]]]
  BY <1>1, <1>2 DEF MutexTypes, TypeOK, SlotRecs
<1> QED  BY <1>1, <1>2, <1>3, <1>4, SlotsAssumption DEF OwnerOwns, Works

\* An error, or the lock not taken: the call returns and nothing has changed.
LEMMA ReturnsOnly ==
  ASSUME MInv, NEW t \in Threads, InCall(t), Known(t),
         pc[t] \in {"owner", "take", "bridge", "unlock"}, Leave(t), UNCHANGED <<slots, guest>>
  PROVE  MInv'
<1> PICK k, s, r : k = loc[t].o /\ s = loc[t].s /\ r = slots[s]
  OBVIOUS
<1>1. /\ k \in Mutexes /\ s \in Indices /\ Works(t, k, s) /\ r \in SlotRecs /\ r.key = k
      /\ held[t][k] \in 0..MaxDepth /\ t # NoThread /\ (Host(t, k) => HostAt(t, k, s))
      /\ r.owner = t => Owns(t, k)
      /\ held = [held EXCEPT ![t] = [@ EXCEPT ![k] = held[t][k]]]
  BY CallSlot
<1>2. r.known /\ r.type = typeOf[k]
  BY DEF Known
<1>3. slots' = [slots EXCEPT ![s] = r]
  BY <1>1 DEF MInv, MutexTypes, TypeOK
<1>4. Stores(t, k, s, r, held[t][k])
  <2>1. held' = held /\ UNCHANGED <<typeOf, users, last, cond, owes>>
    BY DEF guest
  <2>2. r.key = k /\ r.cv = slots[s].cv /\ r.known /\ r.type = typeOf[k]
    BY <1>1, <1>2
  <2>3. /\ slots[s].known => slots[s].type = typeOf[k]
        /\ r.type = "normal" => slots[s].type = "normal" /\ r.owner = slots[s].owner
        /\ r.m = slots[s].m /\ r.owner = slots[s].owner /\ r.depth = slots[s].depth
    BY <1>1, <1>2
  <2>4. held[t][k] <= held[t][k]
    BY <1>1
  <2>5. held' = [held EXCEPT ![t] = [@ EXCEPT ![k] = held[t][k]]]
    BY <1>1, <2>1
  <2> QED  BY <1>3, <2>1, <2>2, <2>3, <2>4, <2>5 DEF Stores
<1>5. held[t][k] > 0 => pc[t] # "take" /\ Owns(t, k) /\ Depth(t, k) = held[t][k]
  <2>1. pc[t] = "take" => held[t][k] = 0
    BY WhereIs DEF Locking
  <2> QED  BY <2>1 DEF Owns, Host, Depth, Nesting
<1>6. held[t][k] > 0 => r.m = t /\ (typeOf[k] # "normal" => r.owner = t /\ r.depth = held[t][k])
  BY <1>1, <1>5 DEF HostAt, Owns
<1>7. r.owner = t => held[t][k] > 0
  BY <1>1 DEF Owns, Host, Nesting
<1> QED  BY <1>1, <1>4, <1>6, <1>7, LeaveStep

\* The type is read from the object once, by whichever call comes first.
LEMMA DetectStep ==
  ASSUME MInv, NEW t \in Threads, Detect(t)
  PROVE  MInv'
<1> PICK k, s, r, q :
      /\ k = loc[t].o /\ s = loc[t].s /\ r = Detected(s, k)
      /\ q = CASE loc[t].op \in {"wait", "timedwait"} -> "bridge"
               [] loc[t].op \in {"lock", "trylock"} /\ r.type = "normal" -> "take"
               [] OTHER -> "owner"
  OBVIOUS
<1>1. /\ pc[t] = "detect" /\ (Locking(t) \/ Waits(t)) /\ InCall(t)
      /\ UNCHANGED loc /\ UNCHANGED guest
  BY WhereIs DEF Detect, At, InCall
<1>2. /\ k \in Mutexes /\ s \in Indices /\ Works(t, k, s) /\ slots[s] \in SlotRecs
      /\ slots[s].key = k /\ held[t][k] \in 0..MaxDepth /\ t # NoThread
      /\ Host(t, k) => HostAt(t, k, s)
      /\ slots[s].owner = t => Owns(t, k)
      /\ held = [held EXCEPT ![t] = [@ EXCEPT ![k] = held[t][k]]]
  BY <1>1, CallSlot
<1>3. slots[s].known => slots[s].type = typeOf[k]
  <2>1. ASSUME NEW u \in Threads, pc[u] = "init", loc[u].o = k PROVE FALSE
    <3>1. Making(u) /\ last[k] = u
      BY <2>1, WhereIs DEF Making
    <3>2. users[k] = {}
      BY <3>1, <1>2, SlotsAssumption DEF MInv, Left
    <3>3. t \in users[k]
      BY <1>1 DEF Locking, Waits
    <3> QED  BY <3>2, <3>3
  <2> QED  BY <2>1, <1>2 DEF MInv, Detecting
<1>4. /\ r \in SlotRecs /\ r.key = k /\ r.cv = slots[s].cv /\ r.known /\ r.type = typeOf[k]
      /\ r.owner = slots[s].owner /\ r.m = slots[s].m /\ r.depth = slots[s].depth
  <2>1. typeOf[k] \in {"normal", "recursive", "errorcheck"}
    BY <1>2, SyncMutexAssumption DEF MInv, MutexTypes, TypeOK
  <2> QED  BY <1>2, <1>3, <2>1 DEF Detected, SlotRecs
<1>5. slots' = [slots EXCEPT ![s] = r] /\ slots'[s] = r
  BY <1>2 DEF Detect, MInv, MutexTypes, TypeOK
<1>6. Goto(t, q) /\ q \in {"take", "owner", "bridge"} /\ pc'[t] = q
  BY <1>5 DEF Detect, Goto, MInv, MutexTypes
<1>7. Stores(t, k, s, r, held[t][k])
  <2>1. ~slots[s].known => slots[s].type = "normal"
    BY <1>2 DEF MInv, Detecting
  <2> QED  BY <2>1, <1>1, <1>2, <1>3, <1>4, <1>5 DEF Stores, guest
<1>8. q = "take" => held[t][k] = 0
  BY <1>1, <1>4 DEF Locking, Waits
<1>9. /\ Host(t, k)' => Host(t, k)
      /\ Owns(t, k)' <=> Owns(t, k)
      /\ Depth(t, k)' = Depth(t, k)
  BY <1>1, <1>6, <1>8 DEF Host, Owns, Depth, Nesting, guest
<1>10. InPlace(t)'
  <2>1. slots'[s].key = k /\ Known(t)' /\ HasSlot(t)'
    BY <1>1, <1>2, <1>4, <1>5 DEF Known, HasSlot, guest, Indices
  <2>2. CASE Locking(t)
    <3>1. q \in {"take", "owner"} /\ (q = "owner" => typeOf[k] # "normal")
      BY <2>2, <1>4 DEF Locking
    <3>2. Locking(t)'
      BY <2>1, <2>2, <3>1, <1>1, <1>6, <1>8 DEF Locking, guest
    <3> QED  BY <3>2 DEF InPlace
  <2>3. CASE Waits(t)
    <3>1. q = "bridge"
      BY <2>3 DEF Waits
    <3>2. loc[t].c # 0 => loc[t].c # s /\ slots'[loc[t].c] = slots[loc[t].c]
      BY <2>3, <1>2, <1>5, SyncMutexAssumption DEF Waits, WaitsFor, MInv, MutexTypes, TypeOK,
                                                   Indices
    <3>3. Waits(t)'
      BY <2>1, <2>3, <3>1, <3>2, <1>1, <1>6, <1>9 DEF Waits, WaitsFor, guest, Nesting
    <3> QED  BY <3>3 DEF InPlace
  <2> QED  BY <2>2, <2>3, <1>1
<1>11. Host(t, k)' => r.m = t /\ (typeOf[k] # "normal" /\ Owns(t, k)'
                                   => r.owner = t /\ r.depth = Depth(t, k)')
  BY <1>2, <1>4, <1>9 DEF HostAt
<1>12. r.owner = t => Owns(t, k)'
  BY <1>2, <1>4, <1>9
<1>13. q \in Places \ {"asleep", "nestedasleep"}
  BY <1>6 DEF Places
<1> QED  BY <1>1, <1>2, <1>4, <1>6, <1>7, <1>10, <1>11, <1>12, <1>13, StayStep

\* ... and after that the slot's type is the mutex's.
LEMMA SettledSlot ==
  ASSUME MInv, NEW t \in Threads,
         pc[t] \in {"owner", "take", "own", "unlock", "release", "bridge", "sleep", "asleep", "reown"}
                   \cup Nesting,
         NEW k, k = loc[t].o, NEW s, s = loc[t].s
  PROVE  /\ k \in Mutexes /\ s \in Indices /\ Works(t, k, s) /\ slots[s] \in SlotRecs
         /\ slots[s].key = k /\ slots[s].known /\ slots[s].type = typeOf[k]
         /\ held[t][k] \in 0..MaxDepth
         /\ Host(t, k) => HostAt(t, k, s)
         /\ slots[s].owner = t => Owns(t, k)
         /\ slots[s].type = "normal" => slots[s].owner = NoThread
         /\ held = [held EXCEPT ![t] = [@ EXCEPT ![k] = held[t][k]]]
<1>1. InCall(t) /\ Known(t)
  BY WhereIs DEF InCall, Locking, Unlocking, Waits, Nesting
<1>2. s \in Indices
  BY <1>1, CallSlot
<1>3. slots[s].type = "normal" => slots[s].owner = NoThread
  BY <1>2 DEF MInv, Detecting
<1> QED  BY <1>1, <1>3, CallSlot DEF Known

\* A recursive mutex's owner locks it again.
LEMMA OwnerDeepens ==
  ASSUME MInv, NEW t \in Threads, OwnerIsMe(t), Slot(t).type # "errorcheck"
  PROVE  MInv'
<1> PICK k, s, r : k = loc[t].o /\ s = loc[t].s /\ r = [slots[s] EXCEPT !.depth = @ + 1]
  OBVIOUS
<1>1. pc[t] = "owner" /\ Locking(t) /\ t # NoThread
  BY WhereIs, SlotsAssumption DEF OwnerIsMe, At, Nesting
<1>2. /\ k \in Mutexes /\ s \in Indices /\ Works(t, k, s) /\ slots[s] \in SlotRecs
      /\ slots[s].key = k /\ slots[s].known /\ slots[s].type = typeOf[k]
      /\ held[t][k] \in 0..MaxDepth
      /\ Host(t, k) => HostAt(t, k, s)
      /\ slots[s].owner = t => Owns(t, k)
      /\ slots[s].type = "normal" => slots[s].owner = NoThread
      /\ held = [held EXCEPT ![t] = [@ EXCEPT ![k] = held[t][k]]]
  BY <1>1, SettledSlot DEF Nesting
<1>3. Host(t, k) /\ Owns(t, k) /\ HostAt(t, k, s) /\ typeOf[k] # "normal" /\ slots[s].owner = t
      /\ slots[s].depth = held[t][k] /\ held[t][k] \in 1..MaxDepth - 1
  BY <1>1, <1>2, SyncMutexAssumption DEF OwnerIsMe, Slot, Locking, Owns, Host, HostAt, Depth,
                                         Nesting, Works
<1>4. r \in SlotRecs /\ slots' = [slots EXCEPT ![s] = r]
  <2>0. MaxDepth \in Nat /\ 0 \in 0..MaxDepth /\ 1 \in 0..MaxDepth /\ t \in Threads
    BY SyncMutexAssumption
  <2>1. r \in SlotRecs
    BY <2>0, <1>2, <1>3 DEF SlotRecs
  <2>2. slots' = [slots EXCEPT ![s] = r]
    BY <1>1, <1>2 DEF OwnerIsMe, SetOwner, SetHost, SetDepth, Slot, MInv, MutexTypes, TypeOK
  <2> QED  BY <2>1, <2>2
<1>5. held[t][k] + 1 \in 0..MaxDepth /\ Leave(t)
      /\ held' = [held EXCEPT ![t] = [@ EXCEPT ![k] = held[t][k] + 1]]
      /\ UNCHANGED <<typeOf, users, last, cond, owes>>
  BY <1>1, <1>2, <1>3, SyncMutexAssumption DEF OwnerIsMe, Slot, guest, MayUnlock
<1>6. /\ r.key = k /\ r.cv = slots[s].cv /\ r.known /\ r.type = typeOf[k]
      /\ r.owner \in {slots[s].owner, t, NoThread}
      /\ r.type = "normal" => r.owner = slots[s].owner
      /\ Host(t, k) \/ slots[s].m = NoThread
      /\ held[t][k] + 1 <= held[t][k] \/ (t \in users[k] /\ (typeOf[k] = "normal" => held[t][k] + 1 <= 1))
  BY <1>1, <1>2, <1>3 DEF SlotRecs, Locking
<1>7. Stores(t, k, s, r, held[t][k] + 1)
  BY <1>2, <1>4, <1>5, <1>6 DEF Stores
<1>8. /\ held[t][k] + 1 > 0 => r.m = t /\ (typeOf[k] # "normal" => r.owner = t /\ r.depth = held[t][k] + 1)
      /\ r.owner = t => held[t][k] + 1 > 0
  BY <1>1, <1>2, <1>3 DEF SlotRecs, HostAt
<1> QED  BY <1>2, <1>4, <1>5, <1>7, <1>8, LeaveStep

\* A normal mutex is taken ...
LEMMA TakeNormal ==
  ASSUME MInv, NEW t \in Threads, Take(t), Slot(t).type = "normal"
  PROVE  MInv'
<1> PICK k, s, r : k = loc[t].o /\ s = loc[t].s /\ r = [slots[s] EXCEPT !.m = t]
  OBVIOUS
<1>1. pc[t] = "take" /\ Locking(t) /\ t # NoThread
  BY WhereIs, SlotsAssumption DEF Take, At, Nesting
<1>2. /\ k \in Mutexes /\ s \in Indices /\ Works(t, k, s) /\ slots[s] \in SlotRecs
      /\ slots[s].key = k /\ slots[s].known /\ slots[s].type = typeOf[k]
      /\ held[t][k] \in 0..MaxDepth
      /\ Host(t, k) => HostAt(t, k, s)
      /\ slots[s].owner = t => Owns(t, k)
      /\ slots[s].type = "normal" => slots[s].owner = NoThread
      /\ held = [held EXCEPT ![t] = [@ EXCEPT ![k] = held[t][k]]]
  BY <1>1, SettledSlot DEF Nesting
<1>3. typeOf[k] = "normal" /\ slots[s].m = NoThread /\ held[t][k] = 0
  BY <1>1, <1>2 DEF Take, Slot, Locking, Works
<1>4. r \in SlotRecs /\ slots' = [slots EXCEPT ![s] = r]
  <2>0. MaxDepth \in Nat /\ 0 \in 0..MaxDepth /\ 1 \in 0..MaxDepth /\ t \in Threads
    BY SyncMutexAssumption
  <2>1. r \in SlotRecs
    BY <2>0, <1>2, <1>3 DEF SlotRecs
  <2>2. slots' = [slots EXCEPT ![s] = r]
    BY <1>1, <1>2 DEF Take, SetOwner, SetHost, SetDepth, Slot, MInv, MutexTypes, TypeOK
  <2> QED  BY <2>1, <2>2
<1>5. 1 \in 0..MaxDepth /\ Leave(t)
      /\ held' = [held EXCEPT ![t] = [@ EXCEPT ![k] = 1]]
      /\ UNCHANGED <<typeOf, users, last, cond, owes>>
  BY <1>1, <1>2, <1>3, SyncMutexAssumption DEF Take, Slot, guest, MayUnlock
<1>6. /\ r.key = k /\ r.cv = slots[s].cv /\ r.known /\ r.type = typeOf[k]
      /\ r.owner \in {slots[s].owner, t, NoThread}
      /\ r.type = "normal" => r.owner = slots[s].owner
      /\ Host(t, k) \/ slots[s].m = NoThread
      /\ 1 <= held[t][k] \/ (t \in users[k] /\ (typeOf[k] = "normal" => 1 <= 1))
  BY <1>1, <1>2, <1>3 DEF SlotRecs, Locking
<1>7. Stores(t, k, s, r, 1)
  BY <1>2, <1>4, <1>5, <1>6 DEF Stores
<1>8. /\ 1 > 0 => r.m = t /\ (typeOf[k] # "normal" => r.owner = t /\ r.depth = 1)
      /\ r.owner = t => 1 > 0
  BY <1>1, <1>2, <1>3 DEF SlotRecs, HostAt
<1> QED  BY <1>2, <1>4, <1>5, <1>7, <1>8, LeaveStep

\* ... another type's host mutex, the owner not yet written ...
LEMMA TakeOther ==
  ASSUME MInv, NEW t \in Threads, Take(t), Slot(t).type # "normal"
  PROVE  MInv'
<1> PICK k, s, r : k = loc[t].o /\ s = loc[t].s /\ r = [slots[s] EXCEPT !.m = t]
  OBVIOUS
<1>1. pc[t] = "take" /\ Locking(t) /\ t # NoThread
  BY WhereIs, SlotsAssumption DEF Take, At, Nesting
<1>2. /\ k \in Mutexes /\ s \in Indices /\ Works(t, k, s) /\ slots[s] \in SlotRecs
      /\ slots[s].key = k /\ slots[s].known /\ slots[s].type = typeOf[k]
      /\ held[t][k] \in 0..MaxDepth
      /\ Host(t, k) => HostAt(t, k, s)
      /\ slots[s].owner = t => Owns(t, k)
      /\ slots[s].type = "normal" => slots[s].owner = NoThread
      /\ held = [held EXCEPT ![t] = [@ EXCEPT ![k] = held[t][k]]]
  BY <1>1, SettledSlot DEF Nesting
<1>3. typeOf[k] # "normal" /\ slots[s].m = NoThread /\ held[t][k] = 0 /\ ~Owns(t, k)
  BY <1>1, <1>2 DEF Take, Slot, Locking, Works, Owns, Host, Nesting
<1>4. r \in SlotRecs /\ slots' = [slots EXCEPT ![s] = r]
  <2>0. MaxDepth \in Nat /\ 0 \in 0..MaxDepth /\ 1 \in 0..MaxDepth /\ t \in Threads
    BY SyncMutexAssumption
  <2>1. r \in SlotRecs
    BY <2>0, <1>2, <1>3 DEF SlotRecs
  <2>2. slots' = [slots EXCEPT ![s] = r]
    BY <1>1, <1>2 DEF Take, SetOwner, SetHost, SetDepth, Slot, MInv, MutexTypes, TypeOK
  <2> QED  BY <2>1, <2>2
<1>5. /\ Goto(t, "own") /\ pc'[t] = "own" /\ slots'[s] = r /\ UNCHANGED loc
      /\ held' = held /\ UNCHANGED <<typeOf, users, last, cond, owes>>
  BY <1>1, <1>2, <1>3, <1>4 DEF Take, Goto, Slot, guest, MInv, MutexTypes, TypeOK
<1>6. /\ r.key = k /\ r.cv = slots[s].cv /\ r.known /\ r.type = typeOf[k]
      /\ r.owner \in {slots[s].owner, t, NoThread}
      /\ r.type = "normal" => r.owner = slots[s].owner
      /\ \/ Host(t, k) \/ slots[s].m = NoThread
         \/ r.m = slots[s].m /\ r.owner = slots[s].owner /\ r.depth = slots[s].depth
  BY <1>1, <1>2, <1>3 DEF SlotRecs
<1>7. Stores(t, k, s, r, held[t][k])
  <2>1. held[t][k] <= held[t][k]
    BY <1>2
  <2> QED  BY <1>2, <1>4, <1>5, <1>6, <2>1 DEF Stores
<1>8. HasSlot(t)' /\ Known(t)'
  <2>1. loc'[t].s = s /\ loc'[t].o = k /\ slots'[s] = r /\ typeOf' = typeOf /\ s \in Indices'
    BY <1>2, <1>5 DEF Works, Indices
  <2> QED  BY <2>1, <1>6 DEF HasSlot, Known
<1>9. /\ Host(t, k)' /\ (~Owns(t, k)')
      /\ Depth(t, k)' = held[t][k]
  BY <1>2, <1>3, <1>5 DEF Host, Owns, Depth, Works, Nesting
<1>10. InPlace(t)'
  <2>1. Locking(t)'
    BY <1>1, <1>2, <1>3, <1>5, <1>8 DEF Locking, Works
  <2> QED  BY <2>1 DEF InPlace
<1>11. /\ r.m = t
       /\ Owns(t, k)' => r.owner = t /\ r.depth = Depth(t, k)'
       /\ r.owner = t => Owns(t, k)'
  BY <1>1, <1>2, <1>3, <1>9 DEF SlotRecs, HostAt
<1>12. "own" \in Places \ {"asleep", "nestedasleep"}
  BY DEF Places, Nesting
<1> QED  BY <1>2, <1>4, <1>5, <1>7, <1>10, <1>11, <1>12, StayStep

\* ... and then the owner and the depth.
LEMMA OwnStep ==
  ASSUME MInv, NEW t \in Threads, Own(t)
  PROVE  MInv'
<1> PICK k, s, r : k = loc[t].o /\ s = loc[t].s /\ r = [slots[s] EXCEPT !.owner = t, !.depth = 1]
  OBVIOUS
<1>1. pc[t] = "own" /\ Locking(t) /\ t # NoThread
  BY WhereIs, SlotsAssumption DEF Own, At, Nesting
<1>2. /\ k \in Mutexes /\ s \in Indices /\ Works(t, k, s) /\ slots[s] \in SlotRecs
      /\ slots[s].key = k /\ slots[s].known /\ slots[s].type = typeOf[k]
      /\ held[t][k] \in 0..MaxDepth
      /\ Host(t, k) => HostAt(t, k, s)
      /\ slots[s].owner = t => Owns(t, k)
      /\ slots[s].type = "normal" => slots[s].owner = NoThread
      /\ held = [held EXCEPT ![t] = [@ EXCEPT ![k] = held[t][k]]]
  BY <1>1, SettledSlot DEF Nesting
<1>3. Host(t, k) /\ HostAt(t, k, s) /\ typeOf[k] # "normal" /\ held[t][k] = 0
  BY <1>1, <1>2 DEF Own, Locking, Host, Works
<1>4. r \in SlotRecs /\ slots' = [slots EXCEPT ![s] = r]
  <2>0. MaxDepth \in Nat /\ 0 \in 0..MaxDepth /\ 1 \in 0..MaxDepth /\ t \in Threads
    BY SyncMutexAssumption
  <2>1. r \in SlotRecs
    BY <2>0, <1>2, <1>3 DEF SlotRecs
  <2>2. slots' = [slots EXCEPT ![s] = r]
    BY <1>1, <1>2 DEF Own, SetOwner, SetHost, SetDepth, Slot, MInv, MutexTypes, TypeOK
  <2> QED  BY <2>1, <2>2
<1>5. 1 \in 0..MaxDepth /\ Leave(t)
      /\ held' = [held EXCEPT ![t] = [@ EXCEPT ![k] = 1]]
      /\ UNCHANGED <<typeOf, users, last, cond, owes>>
  BY <1>1, <1>2, <1>3, SyncMutexAssumption DEF Own, Slot, guest, MayUnlock
<1>6. /\ r.key = k /\ r.cv = slots[s].cv /\ r.known /\ r.type = typeOf[k]
      /\ r.owner \in {slots[s].owner, t, NoThread}
      /\ r.type = "normal" => r.owner = slots[s].owner
      /\ Host(t, k) \/ slots[s].m = NoThread
      /\ 1 <= held[t][k] \/ (t \in users[k] /\ (typeOf[k] = "normal" => 1 <= 1))
  BY <1>1, <1>2, <1>3 DEF SlotRecs, Locking
<1>7. Stores(t, k, s, r, 1)
  BY <1>2, <1>4, <1>5, <1>6 DEF Stores
<1>8. /\ 1 > 0 => r.m = t /\ (typeOf[k] # "normal" => r.owner = t /\ r.depth = 1)
      /\ r.owner = t => 1 > 0
  BY <1>1, <1>2, <1>3 DEF SlotRecs, HostAt
<1> QED  BY <1>2, <1>4, <1>5, <1>7, <1>8, LeaveStep

\* A normal mutex is given back.
LEMMA UnlockNormalStep ==
  ASSUME MInv, NEW t \in Threads, UnlockNormal(t)
  PROVE  MInv'
<1> PICK k, s, r : k = loc[t].o /\ s = loc[t].s /\ r = [slots[s] EXCEPT !.m = NoThread]
  OBVIOUS
<1>1. pc[t] = "unlock" /\ Unlocking(t) /\ t # NoThread
  BY WhereIs, SlotsAssumption DEF UnlockNormal, At, Nesting
<1>2. /\ k \in Mutexes /\ s \in Indices /\ Works(t, k, s) /\ slots[s] \in SlotRecs
      /\ slots[s].key = k /\ slots[s].known /\ slots[s].type = typeOf[k]
      /\ held[t][k] \in 0..MaxDepth
      /\ Host(t, k) => HostAt(t, k, s)
      /\ slots[s].owner = t => Owns(t, k)
      /\ slots[s].type = "normal" => slots[s].owner = NoThread
      /\ held = [held EXCEPT ![t] = [@ EXCEPT ![k] = held[t][k]]]
  BY <1>1, SettledSlot DEF Nesting
<1>3. Host(t, k) /\ typeOf[k] = "normal" /\ held[t][k] = 1
  BY <1>1, <1>2 DEF UnlockNormal, Slot, Unlocking, Host, Works, MInv, NormalOnce
<1>4. r \in SlotRecs /\ slots' = [slots EXCEPT ![s] = r]
  <2>0. MaxDepth \in Nat /\ 0 \in 0..MaxDepth /\ 1 \in 0..MaxDepth /\ t \in Threads
    BY SyncMutexAssumption
  <2>1. r \in SlotRecs
    BY <2>0, <1>2, <1>3 DEF SlotRecs
  <2>2. slots' = [slots EXCEPT ![s] = r]
    BY <1>1, <1>2 DEF UnlockNormal, SetOwner, SetHost, SetDepth, Slot, MInv, MutexTypes, TypeOK
  <2> QED  BY <2>1, <2>2
<1>5. held[t][k] - 1 \in 0..MaxDepth /\ Leave(t)
      /\ held' = [held EXCEPT ![t] = [@ EXCEPT ![k] = held[t][k] - 1]]
      /\ UNCHANGED <<typeOf, users, last, cond, owes>>
  BY <1>1, <1>2, <1>3, SyncMutexAssumption DEF UnlockNormal, Slot, guest, MayUnlock
<1>6. /\ r.key = k /\ r.cv = slots[s].cv /\ r.known /\ r.type = typeOf[k]
      /\ r.owner \in {slots[s].owner, t, NoThread}
      /\ r.type = "normal" => r.owner = slots[s].owner
      /\ Host(t, k) \/ slots[s].m = NoThread
      /\ held[t][k] - 1 <= held[t][k] \/ (t \in users[k] /\ (typeOf[k] = "normal" => held[t][k] - 1 <= 1))
  BY <1>1, <1>2, <1>3 DEF SlotRecs, Unlocking
<1>7. Stores(t, k, s, r, held[t][k] - 1)
  BY <1>2, <1>4, <1>5, <1>6 DEF Stores
<1>8. /\ held[t][k] - 1 > 0 => r.m = t /\ (typeOf[k] # "normal" => r.owner = t /\ r.depth = held[t][k] - 1)
      /\ r.owner = t => held[t][k] - 1 > 0
  BY <1>1, <1>2, <1>3 DEF SlotRecs, HostAt
<1> QED  BY <1>2, <1>4, <1>5, <1>7, <1>8, LeaveStep

\* An inner unlock only counts down.
LEMMA UnlockInnerStep ==
  ASSUME MInv, NEW t \in Threads, UnlockInner(t)
  PROVE  MInv'
<1> PICK k, s, r : k = loc[t].o /\ s = loc[t].s /\ r = [slots[s] EXCEPT !.depth = @ - 1]
  OBVIOUS
<1>1. pc[t] = "unlock" /\ Unlocking(t) /\ t # NoThread
  BY WhereIs, SlotsAssumption DEF UnlockInner, At, Nesting
<1>2. /\ k \in Mutexes /\ s \in Indices /\ Works(t, k, s) /\ slots[s] \in SlotRecs
      /\ slots[s].key = k /\ slots[s].known /\ slots[s].type = typeOf[k]
      /\ held[t][k] \in 0..MaxDepth
      /\ Host(t, k) => HostAt(t, k, s)
      /\ slots[s].owner = t => Owns(t, k)
      /\ slots[s].type = "normal" => slots[s].owner = NoThread
      /\ held = [held EXCEPT ![t] = [@ EXCEPT ![k] = held[t][k]]]
  BY <1>1, SettledSlot DEF Nesting
<1>3. Host(t, k) /\ Owns(t, k) /\ HostAt(t, k, s) /\ typeOf[k] # "normal" /\ slots[s].owner = t
      /\ slots[s].depth = held[t][k] /\ held[t][k] > 1
  BY <1>1, <1>2 DEF UnlockInner, MayUnlock, Slot, Owns, HostAt, Depth, Nesting, Works
<1>4. r \in SlotRecs /\ slots' = [slots EXCEPT ![s] = r]
  <2>0. MaxDepth \in Nat /\ 0 \in 0..MaxDepth /\ 1 \in 0..MaxDepth /\ t \in Threads
    BY SyncMutexAssumption
  <2>1. r \in SlotRecs
    BY <2>0, <1>2, <1>3 DEF SlotRecs
  <2>2. slots' = [slots EXCEPT ![s] = r]
    BY <1>1, <1>2 DEF UnlockInner, SetOwner, SetHost, SetDepth, Slot, MInv, MutexTypes, TypeOK
  <2> QED  BY <2>1, <2>2
<1>5. held[t][k] - 1 \in 0..MaxDepth /\ Leave(t)
      /\ held' = [held EXCEPT ![t] = [@ EXCEPT ![k] = held[t][k] - 1]]
      /\ UNCHANGED <<typeOf, users, last, cond, owes>>
  BY <1>1, <1>2, <1>3, SyncMutexAssumption DEF UnlockInner, Slot, guest, MayUnlock
<1>6. /\ r.key = k /\ r.cv = slots[s].cv /\ r.known /\ r.type = typeOf[k]
      /\ r.owner \in {slots[s].owner, t, NoThread}
      /\ r.type = "normal" => r.owner = slots[s].owner
      /\ Host(t, k) \/ slots[s].m = NoThread
      /\ held[t][k] - 1 <= held[t][k] \/ (t \in users[k] /\ (typeOf[k] = "normal" => held[t][k] - 1 <= 1))
  BY <1>1, <1>2, <1>3 DEF SlotRecs, Unlocking
<1>7. Stores(t, k, s, r, held[t][k] - 1)
  BY <1>2, <1>4, <1>5, <1>6 DEF Stores
<1>8. /\ held[t][k] - 1 > 0 => r.m = t /\ (typeOf[k] # "normal" => r.owner = t /\ r.depth = held[t][k] - 1)
      /\ r.owner = t => held[t][k] - 1 > 0
  BY <1>1, <1>2, <1>3 DEF SlotRecs, HostAt
<1> QED  BY <1>2, <1>4, <1>5, <1>7, <1>8, LeaveStep

\* The outermost one clears the owner ...
LEMMA UnlockOuterStep ==
  ASSUME MInv, NEW t \in Threads, UnlockOuter(t)
  PROVE  MInv'
<1> PICK k, s, r : k = loc[t].o /\ s = loc[t].s /\ r = [slots[s] EXCEPT !.owner = NoThread, !.depth = 0]
  OBVIOUS
<1>1. pc[t] = "unlock" /\ Unlocking(t) /\ t # NoThread
  BY WhereIs, SlotsAssumption DEF UnlockOuter, At, Nesting
<1>2. /\ k \in Mutexes /\ s \in Indices /\ Works(t, k, s) /\ slots[s] \in SlotRecs
      /\ slots[s].key = k /\ slots[s].known /\ slots[s].type = typeOf[k]
      /\ held[t][k] \in 0..MaxDepth
      /\ Host(t, k) => HostAt(t, k, s)
      /\ slots[s].owner = t => Owns(t, k)
      /\ slots[s].type = "normal" => slots[s].owner = NoThread
      /\ held = [held EXCEPT ![t] = [@ EXCEPT ![k] = held[t][k]]]
  BY <1>1, SettledSlot DEF Nesting
<1>3. Host(t, k) /\ Owns(t, k) /\ HostAt(t, k, s) /\ typeOf[k] # "normal" /\ slots[s].owner = t
      /\ held[t][k] = 1
  BY <1>1, <1>2 DEF UnlockOuter, MayUnlock, Slot, Owns, HostAt, Depth, Nesting, Works
<1>4. r \in SlotRecs /\ slots' = [slots EXCEPT ![s] = r]
  <2>0. MaxDepth \in Nat /\ 0 \in 0..MaxDepth /\ 1 \in 0..MaxDepth /\ t \in Threads
    BY SyncMutexAssumption
  <2>1. r \in SlotRecs
    BY <2>0, <1>2, <1>3 DEF SlotRecs
  <2>2. slots' = [slots EXCEPT ![s] = r]
    BY <1>1, <1>2 DEF UnlockOuter, SetOwner, SetHost, SetDepth, Slot, MInv, MutexTypes, TypeOK
  <2> QED  BY <2>1, <2>2
<1>5. /\ Goto(t, "release") /\ pc'[t] = "release" /\ slots'[s] = r /\ UNCHANGED loc
      /\ held' = held /\ UNCHANGED <<typeOf, users, last, cond, owes>>
  BY <1>1, <1>2, <1>3, <1>4 DEF UnlockOuter, Goto, Slot, guest, MInv, MutexTypes, TypeOK
<1>6. /\ r.key = k /\ r.cv = slots[s].cv /\ r.known /\ r.type = typeOf[k]
      /\ r.owner \in {slots[s].owner, t, NoThread}
      /\ r.type = "normal" => r.owner = slots[s].owner
      /\ \/ Host(t, k) \/ slots[s].m = NoThread
         \/ r.m = slots[s].m /\ r.owner = slots[s].owner /\ r.depth = slots[s].depth
  BY <1>1, <1>2, <1>3 DEF SlotRecs
<1>7. Stores(t, k, s, r, held[t][k])
  <2>1. held[t][k] <= held[t][k]
    BY <1>2
  <2> QED  BY <1>2, <1>4, <1>5, <1>6, <2>1 DEF Stores
<1>8. HasSlot(t)' /\ Known(t)'
  <2>1. loc'[t].s = s /\ loc'[t].o = k /\ slots'[s] = r /\ typeOf' = typeOf /\ s \in Indices'
    BY <1>2, <1>5 DEF Works, Indices
  <2> QED  BY <2>1, <1>6 DEF HasSlot, Known
<1>9. /\ Host(t, k)' /\ (~Owns(t, k)')
      /\ Depth(t, k)' = held[t][k]
  BY <1>2, <1>3, <1>5 DEF Host, Owns, Depth, Works, Nesting
<1>10. InPlace(t)'
  <2>1. Unlocking(t)'
    BY <1>1, <1>2, <1>3, <1>5, <1>8 DEF Unlocking, Works
  <2> QED  BY <2>1 DEF InPlace
<1>11. /\ r.m = t
       /\ Owns(t, k)' => r.owner = t /\ r.depth = Depth(t, k)'
       /\ r.owner = t => Owns(t, k)'
  BY <1>1, <1>2, <1>3, <1>9 DEF SlotRecs, HostAt
<1>12. "release" \in Places \ {"asleep", "nestedasleep"}
  BY DEF Places, Nesting
<1> QED  BY <1>2, <1>4, <1>5, <1>7, <1>10, <1>11, <1>12, StayStep

\* ... before it lets the host mutex go.
LEMMA ReleaseStep ==
  ASSUME MInv, NEW t \in Threads, Release(t)
  PROVE  MInv'
<1> PICK k, s, r : k = loc[t].o /\ s = loc[t].s /\ r = [slots[s] EXCEPT !.m = NoThread]
  OBVIOUS
<1>1. pc[t] = "release" /\ Unlocking(t) /\ t # NoThread
  BY WhereIs, SlotsAssumption DEF Release, At, Nesting
<1>2. /\ k \in Mutexes /\ s \in Indices /\ Works(t, k, s) /\ slots[s] \in SlotRecs
      /\ slots[s].key = k /\ slots[s].known /\ slots[s].type = typeOf[k]
      /\ held[t][k] \in 0..MaxDepth
      /\ Host(t, k) => HostAt(t, k, s)
      /\ slots[s].owner = t => Owns(t, k)
      /\ slots[s].type = "normal" => slots[s].owner = NoThread
      /\ held = [held EXCEPT ![t] = [@ EXCEPT ![k] = held[t][k]]]
  BY <1>1, SettledSlot DEF Nesting
<1>3. Host(t, k) /\ held[t][k] = 1 /\ slots[s].owner # t /\ typeOf[k] # "normal"
  BY <1>1, <1>2 DEF Release, Unlocking, Host, Owns, Works
<1>4. r \in SlotRecs /\ slots' = [slots EXCEPT ![s] = r]
  <2>0. MaxDepth \in Nat /\ 0 \in 0..MaxDepth /\ 1 \in 0..MaxDepth /\ t \in Threads
    BY SyncMutexAssumption
  <2>1. r \in SlotRecs
    BY <2>0, <1>2, <1>3 DEF SlotRecs
  <2>2. slots' = [slots EXCEPT ![s] = r]
    BY <1>1, <1>2 DEF Release, SetOwner, SetHost, SetDepth, Slot, MInv, MutexTypes, TypeOK
  <2> QED  BY <2>1, <2>2
<1>5. held[t][k] - 1 \in 0..MaxDepth /\ Leave(t)
      /\ held' = [held EXCEPT ![t] = [@ EXCEPT ![k] = held[t][k] - 1]]
      /\ UNCHANGED <<typeOf, users, last, cond, owes>>
  BY <1>1, <1>2, <1>3, SyncMutexAssumption DEF Release, Slot, guest, MayUnlock
<1>6. /\ r.key = k /\ r.cv = slots[s].cv /\ r.known /\ r.type = typeOf[k]
      /\ r.owner \in {slots[s].owner, t, NoThread}
      /\ r.type = "normal" => r.owner = slots[s].owner
      /\ Host(t, k) \/ slots[s].m = NoThread
      /\ held[t][k] - 1 <= held[t][k] \/ (t \in users[k] /\ (typeOf[k] = "normal" => held[t][k] - 1 <= 1))
  BY <1>1, <1>2, <1>3 DEF SlotRecs, Unlocking
<1>7. Stores(t, k, s, r, held[t][k] - 1)
  BY <1>2, <1>4, <1>5, <1>6 DEF Stores
<1>8. /\ held[t][k] - 1 > 0 => r.m = t /\ (typeOf[k] # "normal" => r.owner = t /\ r.depth = held[t][k] - 1)
      /\ r.owner = t => held[t][k] - 1 > 0
  BY <1>1, <1>2, <1>3 DEF SlotRecs, HostAt
<1> QED  BY <1>2, <1>4, <1>5, <1>7, <1>8, LeaveStep

-----------------------------------------------------------------------------
(***************************************************************************)
(* Waits, with the mutex.                                                   *)
(***************************************************************************)

\* A wait on a mutex locked once clears the owner, with the host mutex still held.
LEMMA WaitOwnedStep ==
  ASSUME MInv, NEW t \in Threads, WaitOwned(t)
  PROVE  MInv'
<1> PICK k, s, r : k = loc[t].o /\ s = loc[t].s /\ r = [slots[s] EXCEPT !.owner = NoThread, !.depth = 0]
  OBVIOUS
<1>1. pc[t] = "bridge" /\ Waits(t) /\ t # NoThread
  BY WhereIs, SlotsAssumption DEF WaitOwned, At, Nesting
<1>2. /\ k \in Mutexes /\ s \in Indices /\ Works(t, k, s) /\ slots[s] \in SlotRecs
      /\ slots[s].key = k /\ slots[s].known /\ slots[s].type = typeOf[k]
      /\ held[t][k] \in 0..MaxDepth
      /\ Host(t, k) => HostAt(t, k, s)
      /\ slots[s].owner = t => Owns(t, k)
      /\ slots[s].type = "normal" => slots[s].owner = NoThread
      /\ held = [held EXCEPT ![t] = [@ EXCEPT ![k] = held[t][k]]]
  BY <1>1, SettledSlot DEF Nesting
<1>3. Host(t, k) /\ Owns(t, k) /\ HostAt(t, k, s) /\ typeOf[k] # "normal" /\ slots[s].owner = t
      /\ held[t][k] = 1
  BY <1>1, <1>2 DEF WaitOwned, MayUnlock, Slot, Owns, HostAt, Depth, Nesting, Works
<1>4. r \in SlotRecs /\ slots' = [slots EXCEPT ![s] = r]
  <2>0. MaxDepth \in Nat /\ 0 \in 0..MaxDepth /\ 1 \in 0..MaxDepth /\ t \in Threads
    BY SyncMutexAssumption
  <2>1. r \in SlotRecs
    BY <2>0, <1>2, <1>3 DEF SlotRecs
  <2>2. slots' = [slots EXCEPT ![s] = r]
    BY <1>1, <1>2 DEF WaitOwned, SetOwner, SetHost, SetDepth, Slot, MInv, MutexTypes, TypeOK
  <2> QED  BY <2>1, <2>2
<1>5. /\ Goto(t, "sleep") /\ pc'[t] = "sleep" /\ slots'[s] = r /\ UNCHANGED loc
      /\ held' = held /\ UNCHANGED <<typeOf, users, last, cond, owes>>
  BY <1>1, <1>2, <1>3, <1>4 DEF WaitOwned, Goto, Slot, guest, MInv, MutexTypes, TypeOK
<1>6. /\ r.key = k /\ r.cv = slots[s].cv /\ r.known /\ r.type = typeOf[k]
      /\ r.owner \in {slots[s].owner, t, NoThread}
      /\ r.type = "normal" => r.owner = slots[s].owner
      /\ \/ Host(t, k) \/ slots[s].m = NoThread
         \/ r.m = slots[s].m /\ r.owner = slots[s].owner /\ r.depth = slots[s].depth
  BY <1>1, <1>2, <1>3 DEF SlotRecs
<1>7. Stores(t, k, s, r, held[t][k])
  <2>1. held[t][k] <= held[t][k]
    BY <1>2
  <2> QED  BY <1>2, <1>4, <1>5, <1>6, <2>1 DEF Stores
<1>8. HasSlot(t)' /\ Known(t)'
  <2>1. loc'[t].s = s /\ loc'[t].o = k /\ slots'[s] = r /\ typeOf' = typeOf /\ s \in Indices'
    BY <1>2, <1>5 DEF Works, Indices
  <2> QED  BY <2>1, <1>6 DEF HasSlot, Known
<1>9. /\ Host(t, k)' /\ (~Owns(t, k)')
      /\ Depth(t, k)' = held[t][k]
  BY <1>2, <1>3, <1>5 DEF Host, Owns, Depth, Works, Nesting
<1>10. InPlace(t)'
  <2>1. loc[t].c # 0 => loc[t].c # s /\ slots'[loc[t].c] = slots[loc[t].c]
    BY <1>1, <1>2, <1>4, SyncMutexAssumption DEF Waits, WaitsFor, MInv, MutexTypes, TypeOK,
                                                 Indices
  <2>2. Waits(t)'
    BY <1>1, <1>2, <1>3, <1>5, <1>8, <1>9, <2>1 DEF Waits, WaitsFor, Works, Nesting, HostAt
  <2> QED  BY <2>2 DEF InPlace
<1>11. /\ r.m = t
       /\ Owns(t, k)' => r.owner = t /\ r.depth = Depth(t, k)'
       /\ r.owner = t => Owns(t, k)'
  BY <1>1, <1>2, <1>3, <1>9 DEF SlotRecs, HostAt
<1>12. "sleep" \in Places \ {"asleep", "nestedasleep"}
  BY DEF Places, Nesting
<1> QED  BY <1>2, <1>4, <1>5, <1>7, <1>10, <1>11, <1>12, StayStep

\* A wait on a mutex locked more than once keeps the mutex.
LEMMA WaitNestedStep ==
  ASSUME MInv, NEW t \in Threads, WaitNested(t)
  PROVE  MInv'
<1> PICK k, s, r : k = loc[t].o /\ s = loc[t].s /\ r = [slots[s] EXCEPT !.depth = @ - 1]
  OBVIOUS
<1>1. pc[t] = "bridge" /\ Waits(t) /\ t # NoThread
  BY WhereIs, SlotsAssumption DEF WaitNested, At, Nesting
<1>2. /\ k \in Mutexes /\ s \in Indices /\ Works(t, k, s) /\ slots[s] \in SlotRecs
      /\ slots[s].key = k /\ slots[s].known /\ slots[s].type = typeOf[k]
      /\ held[t][k] \in 0..MaxDepth
      /\ Host(t, k) => HostAt(t, k, s)
      /\ slots[s].owner = t => Owns(t, k)
      /\ slots[s].type = "normal" => slots[s].owner = NoThread
      /\ held = [held EXCEPT ![t] = [@ EXCEPT ![k] = held[t][k]]]
  BY <1>1, SettledSlot DEF Nesting
<1>3. Host(t, k) /\ Owns(t, k) /\ HostAt(t, k, s) /\ typeOf[k] # "normal" /\ slots[s].owner = t
      /\ slots[s].depth = held[t][k] /\ held[t][k] > 1
  BY <1>1, <1>2 DEF WaitNested, MayUnlock, Slot, Owns, HostAt, Depth, Nesting, Works
<1>4. r \in SlotRecs /\ slots' = [slots EXCEPT ![s] = r]
  <2>0. MaxDepth \in Nat /\ 0 \in 0..MaxDepth /\ 1 \in 0..MaxDepth /\ t \in Threads
    BY SyncMutexAssumption
  <2>1. r \in SlotRecs
    BY <2>0, <1>2, <1>3 DEF SlotRecs
  <2>2. slots' = [slots EXCEPT ![s] = r]
    BY <1>1, <1>2 DEF WaitNested, SetOwner, SetHost, SetDepth, Slot, MInv, MutexTypes, TypeOK
  <2> QED  BY <2>1, <2>2
<1>5. /\ Goto(t, "nested") /\ pc'[t] = "nested" /\ slots'[s] = r /\ UNCHANGED loc
      /\ held' = held /\ UNCHANGED <<typeOf, users, last, cond, owes>>
  BY <1>1, <1>2, <1>3, <1>4 DEF WaitNested, Goto, Slot, guest, MInv, MutexTypes, TypeOK
<1>6. /\ r.key = k /\ r.cv = slots[s].cv /\ r.known /\ r.type = typeOf[k]
      /\ r.owner \in {slots[s].owner, t, NoThread}
      /\ r.type = "normal" => r.owner = slots[s].owner
      /\ \/ Host(t, k) \/ slots[s].m = NoThread
         \/ r.m = slots[s].m /\ r.owner = slots[s].owner /\ r.depth = slots[s].depth
  BY <1>1, <1>2, <1>3 DEF SlotRecs
<1>7. Stores(t, k, s, r, held[t][k])
  <2>1. held[t][k] <= held[t][k]
    BY <1>2
  <2> QED  BY <1>2, <1>4, <1>5, <1>6, <2>1 DEF Stores
<1>8. HasSlot(t)' /\ Known(t)'
  <2>1. loc'[t].s = s /\ loc'[t].o = k /\ slots'[s] = r /\ typeOf' = typeOf /\ s \in Indices'
    BY <1>2, <1>5 DEF Works, Indices
  <2> QED  BY <2>1, <1>6 DEF HasSlot, Known
<1>9. /\ Host(t, k)' /\ (Owns(t, k)')
      /\ Depth(t, k)' = held[t][k] - 1
  BY <1>2, <1>3, <1>5 DEF Host, Owns, Depth, Works, Nesting
<1>10. InPlace(t)'
  <2>1. loc[t].c # 0 => loc[t].c # s /\ slots'[loc[t].c] = slots[loc[t].c]
    BY <1>1, <1>2, <1>4, SyncMutexAssumption DEF Waits, WaitsFor, MInv, MutexTypes, TypeOK,
                                                 Indices
  <2>2. Waits(t)'
    BY <1>1, <1>2, <1>3, <1>5, <1>8, <1>9, <2>1 DEF Waits, WaitsFor, Works, Nesting, HostAt
  <2> QED  BY <2>2 DEF InPlace
<1>11. /\ r.m = t
       /\ Owns(t, k)' => r.owner = t /\ r.depth = Depth(t, k)'
       /\ r.owner = t => Owns(t, k)'
  BY <1>1, <1>2, <1>3, <1>9 DEF SlotRecs, HostAt
<1>12. "nested" \in Places \ {"asleep", "nestedasleep"}
  BY DEF Places, Nesting
<1> QED  BY <1>2, <1>4, <1>5, <1>7, <1>10, <1>11, <1>12, StayStep

\* A sleeper that was woken takes a normal mutex again ...
LEMMA RetakeNormal ==
  ASSUME MInv, NEW t \in Threads, Retake(t), Slot(t).type = "normal"
  PROVE  MInv'
<1> PICK k, s, r : k = loc[t].o /\ s = loc[t].s /\ r = [slots[s] EXCEPT !.m = t]
  OBVIOUS
<1>1. pc[t] = "asleep" /\ Waits(t) /\ t # NoThread
  BY WhereIs, SlotsAssumption DEF Retake, At, Nesting
<1>2. /\ k \in Mutexes /\ s \in Indices /\ Works(t, k, s) /\ slots[s] \in SlotRecs
      /\ slots[s].key = k /\ slots[s].known /\ slots[s].type = typeOf[k]
      /\ held[t][k] \in 0..MaxDepth
      /\ Host(t, k) => HostAt(t, k, s)
      /\ slots[s].owner = t => Owns(t, k)
      /\ slots[s].type = "normal" => slots[s].owner = NoThread
      /\ held = [held EXCEPT ![t] = [@ EXCEPT ![k] = held[t][k]]]
  BY <1>1, SettledSlot DEF Nesting
<1>3. typeOf[k] = "normal" /\ slots[s].m = NoThread /\ held[t][k] > 0
  BY <1>1, <1>2 DEF Retake, Slot, Waits, Works
<1>4. r \in SlotRecs /\ slots' = [slots EXCEPT ![s] = r]
  <2>0. MaxDepth \in Nat /\ 0 \in 0..MaxDepth /\ 1 \in 0..MaxDepth /\ t \in Threads
    BY SyncMutexAssumption
  <2>1. r \in SlotRecs
    BY <2>0, <1>2, <1>3 DEF SlotRecs
  <2>2. slots' = [slots EXCEPT ![s] = r]
    BY <1>1, <1>2 DEF Retake, SetOwner, SetHost, SetDepth, Slot, MInv, MutexTypes, TypeOK
  <2> QED  BY <2>1, <2>2
<1>5. held[t][k] \in 0..MaxDepth /\ Leave(t)
      /\ held' = [held EXCEPT ![t] = [@ EXCEPT ![k] = held[t][k]]]
      /\ UNCHANGED <<typeOf, users, last, cond, owes>>
  BY <1>1, <1>2, <1>3, SyncMutexAssumption DEF Retake, Slot, guest, MayUnlock
<1>6. /\ r.key = k /\ r.cv = slots[s].cv /\ r.known /\ r.type = typeOf[k]
      /\ r.owner \in {slots[s].owner, t, NoThread}
      /\ r.type = "normal" => r.owner = slots[s].owner
      /\ Host(t, k) \/ slots[s].m = NoThread
      /\ held[t][k] <= held[t][k] \/ (t \in users[k] /\ (typeOf[k] = "normal" => held[t][k] <= 1))
  BY <1>1, <1>2, <1>3 DEF SlotRecs, Waits
<1>7. Stores(t, k, s, r, held[t][k])
  BY <1>2, <1>4, <1>5, <1>6 DEF Stores
<1>8. /\ held[t][k] > 0 => r.m = t /\ (typeOf[k] # "normal" => r.owner = t /\ r.depth = held[t][k])
      /\ r.owner = t => held[t][k] > 0
  BY <1>1, <1>2, <1>3 DEF SlotRecs, HostAt
<1> QED  BY <1>2, <1>4, <1>5, <1>7, <1>8, LeaveStep

\* ... or another type's host mutex ...
LEMMA RetakeOther ==
  ASSUME MInv, NEW t \in Threads, Retake(t), Slot(t).type # "normal"
  PROVE  MInv'
<1> PICK k, s, r : k = loc[t].o /\ s = loc[t].s /\ r = [slots[s] EXCEPT !.m = t]
  OBVIOUS
<1>1. pc[t] = "asleep" /\ Waits(t) /\ t # NoThread
  BY WhereIs, SlotsAssumption DEF Retake, At, Nesting
<1>2. /\ k \in Mutexes /\ s \in Indices /\ Works(t, k, s) /\ slots[s] \in SlotRecs
      /\ slots[s].key = k /\ slots[s].known /\ slots[s].type = typeOf[k]
      /\ held[t][k] \in 0..MaxDepth
      /\ Host(t, k) => HostAt(t, k, s)
      /\ slots[s].owner = t => Owns(t, k)
      /\ slots[s].type = "normal" => slots[s].owner = NoThread
      /\ held = [held EXCEPT ![t] = [@ EXCEPT ![k] = held[t][k]]]
  BY <1>1, SettledSlot DEF Nesting
<1>3. typeOf[k] # "normal" /\ slots[s].m = NoThread /\ held[t][k] = 1 /\ ~Owns(t, k)
  BY <1>1, <1>2 DEF Retake, Slot, Waits, Works, Owns, Host, Nesting
<1>4. r \in SlotRecs /\ slots' = [slots EXCEPT ![s] = r]
  <2>0. MaxDepth \in Nat /\ 0 \in 0..MaxDepth /\ 1 \in 0..MaxDepth /\ t \in Threads
    BY SyncMutexAssumption
  <2>1. r \in SlotRecs
    BY <2>0, <1>2, <1>3 DEF SlotRecs
  <2>2. slots' = [slots EXCEPT ![s] = r]
    BY <1>1, <1>2 DEF Retake, SetOwner, SetHost, SetDepth, Slot, MInv, MutexTypes, TypeOK
  <2> QED  BY <2>1, <2>2
<1>5. /\ Goto(t, "reown") /\ pc'[t] = "reown" /\ slots'[s] = r /\ UNCHANGED loc
      /\ held' = held /\ UNCHANGED <<typeOf, users, last, cond, owes>>
  <2>1. Goto(t, "reown") /\ UNCHANGED loc /\ UNCHANGED guest
    BY DEF Retake
  <2>2. pc'[t] = "reown"
    BY <2>1 DEF Goto, MInv, MutexTypes
  <2>3. slots'[s] = r
    BY <1>2, <1>4 DEF MInv, MutexTypes, TypeOK
  <2> QED  BY <2>1, <2>2, <2>3 DEF guest
<1>6. /\ r.key = k /\ r.cv = slots[s].cv /\ r.known /\ r.type = typeOf[k]
      /\ r.owner \in {slots[s].owner, t, NoThread}
      /\ r.type = "normal" => r.owner = slots[s].owner
      /\ \/ Host(t, k) \/ slots[s].m = NoThread
         \/ r.m = slots[s].m /\ r.owner = slots[s].owner /\ r.depth = slots[s].depth
  BY <1>1, <1>2, <1>3 DEF SlotRecs
<1>7. Stores(t, k, s, r, held[t][k])
  <2>1. held[t][k] <= held[t][k]
    BY <1>2
  <2> QED  BY <1>2, <1>4, <1>5, <1>6, <2>1 DEF Stores
<1>8. HasSlot(t)' /\ Known(t)'
  <2>1. loc'[t].s = s /\ loc'[t].o = k /\ slots'[s] = r /\ typeOf' = typeOf /\ s \in Indices'
    BY <1>2, <1>5 DEF Works, Indices
  <2> QED  BY <2>1, <1>6 DEF HasSlot, Known
<1>9. /\ Host(t, k)' /\ (~Owns(t, k)')
      /\ Depth(t, k)' = held[t][k]
  BY <1>2, <1>3, <1>5 DEF Host, Owns, Depth, Works, Nesting
<1>10. InPlace(t)'
  <2>1. loc[t].c # 0 => loc[t].c # s /\ slots'[loc[t].c] = slots[loc[t].c]
    BY <1>1, <1>2, <1>4, SyncMutexAssumption DEF Waits, WaitsFor, MInv, MutexTypes, TypeOK,
                                                 Indices
  <2>2. Waits(t)'
    BY <1>1, <1>2, <1>3, <1>5, <1>8, <1>9, <2>1 DEF Waits, WaitsFor, Works, Nesting, HostAt
  <2> QED  BY <2>2 DEF InPlace
<1>11. /\ r.m = t
       /\ Owns(t, k)' => r.owner = t /\ r.depth = Depth(t, k)'
       /\ r.owner = t => Owns(t, k)'
  BY <1>1, <1>2, <1>3, <1>9 DEF SlotRecs, HostAt
<1>12. "reown" \in Places \ {"asleep", "nestedasleep"}
  BY DEF Places, Nesting
<1> QED  BY <1>2, <1>4, <1>5, <1>7, <1>10, <1>11, <1>12, StayStep

\* ... and is written as its owner.
LEMMA ReownStep ==
  ASSUME MInv, NEW t \in Threads, Reown(t)
  PROVE  MInv'
<1> PICK k, s, r : k = loc[t].o /\ s = loc[t].s /\ r = [slots[s] EXCEPT !.owner = t, !.depth = 1]
  OBVIOUS
<1>1. pc[t] = "reown" /\ Waits(t) /\ t # NoThread
  BY WhereIs, SlotsAssumption DEF Reown, At, Nesting
<1>2. /\ k \in Mutexes /\ s \in Indices /\ Works(t, k, s) /\ slots[s] \in SlotRecs
      /\ slots[s].key = k /\ slots[s].known /\ slots[s].type = typeOf[k]
      /\ held[t][k] \in 0..MaxDepth
      /\ Host(t, k) => HostAt(t, k, s)
      /\ slots[s].owner = t => Owns(t, k)
      /\ slots[s].type = "normal" => slots[s].owner = NoThread
      /\ held = [held EXCEPT ![t] = [@ EXCEPT ![k] = held[t][k]]]
  BY <1>1, SettledSlot DEF Nesting
<1>3. Host(t, k) /\ HostAt(t, k, s) /\ typeOf[k] # "normal" /\ held[t][k] = 1
  BY <1>1, <1>2 DEF Reown, Waits, Host, Works
<1>4. r \in SlotRecs /\ slots' = [slots EXCEPT ![s] = r]
  <2>0. MaxDepth \in Nat /\ 0 \in 0..MaxDepth /\ 1 \in 0..MaxDepth /\ t \in Threads
    BY SyncMutexAssumption
  <2>1. r \in SlotRecs
    BY <2>0, <1>2, <1>3 DEF SlotRecs
  <2>2. slots' = [slots EXCEPT ![s] = r]
    BY <1>1, <1>2 DEF Reown, SetOwner, SetHost, SetDepth, Slot, MInv, MutexTypes, TypeOK
  <2> QED  BY <2>1, <2>2
<1>5. held[t][k] \in 0..MaxDepth /\ Leave(t)
      /\ held' = [held EXCEPT ![t] = [@ EXCEPT ![k] = held[t][k]]]
      /\ UNCHANGED <<typeOf, users, last, cond, owes>>
  BY <1>1, <1>2, <1>3, SyncMutexAssumption DEF Reown, Slot, guest, MayUnlock
<1>6. /\ r.key = k /\ r.cv = slots[s].cv /\ r.known /\ r.type = typeOf[k]
      /\ r.owner \in {slots[s].owner, t, NoThread}
      /\ r.type = "normal" => r.owner = slots[s].owner
      /\ Host(t, k) \/ slots[s].m = NoThread
      /\ held[t][k] <= held[t][k] \/ (t \in users[k] /\ (typeOf[k] = "normal" => held[t][k] <= 1))
  BY <1>1, <1>2, <1>3 DEF SlotRecs, Waits
<1>7. Stores(t, k, s, r, held[t][k])
  BY <1>2, <1>4, <1>5, <1>6 DEF Stores
<1>8. /\ held[t][k] > 0 => r.m = t /\ (typeOf[k] # "normal" => r.owner = t /\ r.depth = held[t][k])
      /\ r.owner = t => held[t][k] > 0
  BY <1>1, <1>2, <1>3 DEF SlotRecs, HostAt
<1> QED  BY <1>2, <1>4, <1>5, <1>7, <1>8, LeaveStep

\* A nested wait ends by counting the mutex up again.
LEMMA DeepenStep ==
  ASSUME MInv, NEW t \in Threads, Deepen(t)
  PROVE  MInv'
<1> PICK k, s, r : k = loc[t].o /\ s = loc[t].s /\ r = [slots[s] EXCEPT !.depth = @ + 1]
  OBVIOUS
<1>1. pc[t] = "deepen" /\ Waits(t) /\ t # NoThread
  BY WhereIs, SlotsAssumption DEF Deepen, At, Nesting
<1>2. /\ k \in Mutexes /\ s \in Indices /\ Works(t, k, s) /\ slots[s] \in SlotRecs
      /\ slots[s].key = k /\ slots[s].known /\ slots[s].type = typeOf[k]
      /\ held[t][k] \in 0..MaxDepth
      /\ Host(t, k) => HostAt(t, k, s)
      /\ slots[s].owner = t => Owns(t, k)
      /\ slots[s].type = "normal" => slots[s].owner = NoThread
      /\ held = [held EXCEPT ![t] = [@ EXCEPT ![k] = held[t][k]]]
  BY <1>1, SettledSlot DEF Nesting
<1>3. Host(t, k) /\ Owns(t, k) /\ HostAt(t, k, s) /\ typeOf[k] # "normal" /\ slots[s].owner = t
      /\ slots[s].depth = held[t][k] - 1 /\ held[t][k] > 1
  BY <1>1, <1>2 DEF Deepen, Waits, Host, Owns, HostAt, Depth, Nesting, Works
<1>4. r \in SlotRecs /\ slots' = [slots EXCEPT ![s] = r]
  <2>0. MaxDepth \in Nat /\ 0 \in 0..MaxDepth /\ 1 \in 0..MaxDepth /\ t \in Threads
    BY SyncMutexAssumption
  <2>1. r \in SlotRecs
    BY <2>0, <1>2, <1>3 DEF SlotRecs
  <2>2. slots' = [slots EXCEPT ![s] = r]
    BY <1>1, <1>2 DEF Deepen, SetOwner, SetHost, SetDepth, Slot, MInv, MutexTypes, TypeOK
  <2> QED  BY <2>1, <2>2
<1>5. held[t][k] \in 0..MaxDepth /\ Leave(t)
      /\ held' = [held EXCEPT ![t] = [@ EXCEPT ![k] = held[t][k]]]
      /\ UNCHANGED <<typeOf, users, last, cond, owes>>
  BY <1>1, <1>2, <1>3, SyncMutexAssumption DEF Deepen, Slot, guest, MayUnlock
<1>6. /\ r.key = k /\ r.cv = slots[s].cv /\ r.known /\ r.type = typeOf[k]
      /\ r.owner \in {slots[s].owner, t, NoThread}
      /\ r.type = "normal" => r.owner = slots[s].owner
      /\ Host(t, k) \/ slots[s].m = NoThread
      /\ held[t][k] <= held[t][k] \/ (t \in users[k] /\ (typeOf[k] = "normal" => held[t][k] <= 1))
  BY <1>1, <1>2, <1>3 DEF SlotRecs, Waits
<1>7. Stores(t, k, s, r, held[t][k])
  BY <1>2, <1>4, <1>5, <1>6 DEF Stores
<1>8. /\ held[t][k] > 0 => r.m = t /\ (typeOf[k] # "normal" => r.owner = t /\ r.depth = held[t][k])
      /\ r.owner = t => held[t][k] > 0
  BY <1>1, <1>2, <1>3 DEF SlotRecs, HostAt
<1> QED  BY <1>2, <1>4, <1>5, <1>7, <1>8, LeaveStep

\* A thread that reads another owner goes for the host mutex.
LEMMA OwnerIsNotMeStep ==
  ASSUME MInv, NEW t \in Threads, OwnerIsNotMe(t)
  PROVE  MInv'
<1> PICK k, s, r : k = loc[t].o /\ s = loc[t].s /\ r = slots[s]
  OBVIOUS
<1>1. pc[t] = "owner" /\ Locking(t) /\ t # NoThread /\ r.owner # t
  BY WhereIs, SlotsAssumption DEF OwnerIsNotMe, At, Slot
<1>2. /\ k \in Mutexes /\ s \in Indices /\ Works(t, k, s) /\ slots[s] \in SlotRecs
      /\ slots[s].key = k /\ slots[s].known /\ slots[s].type = typeOf[k]
      /\ held[t][k] \in 0..MaxDepth
      /\ Host(t, k) => HostAt(t, k, s)
      /\ held = [held EXCEPT ![t] = [@ EXCEPT ![k] = held[t][k]]]
  BY <1>1, SettledSlot
<1>3. typeOf[k] # "normal" /\ held[t][k] = 0
  BY <1>1, <1>2 DEF Locking, Works, Owns, Host, HostAt, Nesting
<1>4. slots' = [slots EXCEPT ![s] = r] /\ held' = held
      /\ UNCHANGED <<typeOf, users, last, cond, owes>> /\ UNCHANGED loc
  BY <1>2 DEF OwnerIsNotMe, guest, MInv, MutexTypes, TypeOK
<1>5. Goto(t, "take") /\ pc'[t] = "take"
  BY DEF OwnerIsNotMe, Goto, MInv, MutexTypes
<1>6. Stores(t, k, s, r, held[t][k])
  <2>1. held[t][k] <= held[t][k]
    BY <1>2
  <2> QED  BY <1>2, <1>4, <2>1 DEF Stores
<1>7. ~Host(t, k)' /\ ~Owns(t, k)'
  BY <1>2, <1>3, <1>4, <1>5 DEF Host, Owns, Works, Nesting
<1>8. Locking(t)'
  BY <1>1, <1>2, <1>3, <1>4, <1>5 DEF Locking, HasSlot, Known, Works, OwnerIsNotMe, Indices
<1> QED  BY <1>1, <1>2, <1>4, <1>5, <1>6, <1>7, <1>8, StayStep DEF InPlace, Places

-----------------------------------------------------------------------------
(***************************************************************************)
(* Waits, with the condition variable.                                      *)
(***************************************************************************)
\* A step with the slot of the condition variable only.
LEMMA CondStep ==
  ASSUME MInv, NEW t \in Threads, Waits(t),
         pc[t] \in Nesting \cup {"asleep"}, NEW c, c = loc[t].c,
         NEW r \in SlotRecs, slots' = [slots EXCEPT ![c] = r],
         r.key = slots[c].key, r.cv \subseteq slots[c].cv \cup {t},
         r.known = slots[c].known, r.type = slots[c].type, r.owner = slots[c].owner,
         NEW q \in Nesting \cup {"asleep"}, Goto(t, q), UNCHANGED <<loc, guest>>,
         q = "asleep" <=> pc[t] = "asleep",
         pc[t] \in {"nestedunlock", "deepen"} => q \in {"nestedunlock", "deepen"},
         q = "asleep" => t \notin r.cv
  PROVE  MInv'
<1>1. /\ loc[t].o \in Mutexes /\ c \in Indices /\ slots[c].key \in Conds
      /\ HasSlot(t) /\ loc[t].s # c /\ slots[c].key \notin Mutexes
  BY SyncMutexAssumption DEF Waits, WaitsFor, HasSlot, MInv, MutexTypes, TypeOK, Indices,
                             Nesting
<1>2. /\ slots'[c] = r /\ \A i \in Indices \ {c} : slots'[i] = slots[i]
      /\ pc'[t] = q /\ loc' = loc /\ held' = held
      /\ UNCHANGED <<typeOf, users, last, cond, owes>>
  BY <1>1 DEF Goto, guest, MInv, MutexTypes, TypeOK
<1>3. MutexTypes'
  BY <1>1, <1>2 DEF Goto, Nesting, SlotRecs, MInv, MutexTypes, TypeOK, Indices
<1>4. Others(t) /\ HeldStep(t) /\ pc[t] # "init"
  <2>1. \A k \in Mutexes : held[t][k] <= held[t][k]
    BY DEF MInv, MutexTypes, TypeOK
  <2> QED  BY <1>2, <2>1 DEF Others, HeldStep, Goto, Nesting, MInv, MutexTypes, TypeOK
<1>5. \A i \in Indices : Kept(t, i) /\ Detects(i)
  BY <1>1, <1>2 DEF Kept, Detects
<1>6. \A k : /\ Host(t, k)' <=> Host(t, k)
             /\ Owns(t, k)' <=> Owns(t, k)
             /\ Depth(t, k)' = Depth(t, k)
  BY <1>2 DEF Host, Owns, Depth, Nesting
<1>7. InPlace(t)'
  <2>1. slots'[loc[t].s] = slots[loc[t].s] /\ slots'[c].key = slots[c].key
    BY <1>1, <1>2 DEF HasSlot
  <2>2. (HasSlot(t)' <=> HasSlot(t)) /\ (Known(t)' <=> Known(t)) /\ WaitsFor(t)' = WaitsFor(t)
    BY <1>2, <2>1 DEF HasSlot, Known, WaitsFor, Indices
  <2>3. Host(t, loc[t].o)' <=> Host(t, loc[t].o)
    BY <1>2, <1>6
  <2>4. Waits(t)'
    BY <1>1, <1>2, <2>2, <2>3 DEF Waits, Nesting
  <2> QED  BY <2>4 DEF InPlace
<1>8. Hosts(t)'
  <2> SUFFICES ASSUME NEW k \in Mutexes, Host(t, k)' PROVE \E i \in Indices : HostAt(t, k, i)'
    BY DEF Hosts, Indices
  <2>1. PICK i \in Indices : HostAt(t, k, i)
    BY <1>6 DEF MInv, Hosts
  <2>2. i # c
    BY <1>1, <2>1 DEF HostAt
  <2>3. HostAt(t, k, i)'
    BY <1>2, <1>6, <2>1, <2>2 DEF HostAt
  <2> QED  BY <2>3
<1>9. OwnerOwns(t)'
  <2> SUFFICES ASSUME NEW i \in Indices, NEW k \in Mutexes, slots'[i].owner = t, slots'[i].key = k
               PROVE  Owns(t, k)'
    BY DEF OwnerOwns, Indices
  <2>1. slots[i].owner = t /\ slots[i].key = k
    BY <1>2
  <2> QED  BY <2>1, <1>6 DEF MInv, OwnerOwns
<1>10. NoMissed(t)'
  <2>1. q # "asleep" => ~cond[slots[c].key] \/ q # "nestedasleep"
    BY <1>1 DEF Waits, WaitsFor, Host, Nesting
  <2> QED  BY <2>1, <1>2 DEF NoMissed
<1> QED  BY <1>2, <1>3, <1>4, <1>5, <1>7, <1>8, <1>9, <1>10, Calm DEF Sound

\* Every step of a nested wait, and a timeout, is one.
LEMMA CondSteps ==
  ASSUME MInv, NEW t \in Threads,
         NestedLock(t) \/ NestedSleep(t) \/ TimesOut(t) \/ NestedRetake(t) \/ NestedUnlock(t)
  PROVE  MInv'
<1> PICK c : c = loc[t].c
  OBVIOUS
<1>1. pc[t] \in Nesting \cup {"asleep"} /\ Waits(t)
  BY WhereIs DEF NestedLock, NestedSleep, TimesOut, NestedRetake, NestedUnlock, At, Nesting
<1>2. c \in Indices /\ slots[c] \in SlotRecs /\ MutexTypes /\ t \in Threads
  BY <1>1 DEF Waits, Nesting, MInv, MutexTypes, TypeOK, SlotRecs, Indices
<1>3. CASE NestedLock(t)
  <2> PICK r : r = [slots[c] EXCEPT !.m = t]
    OBVIOUS
  <2>1. slots' = [slots EXCEPT ![c] = r] /\ r \in SlotRecs
    BY <1>2, <1>3 DEF NestedLock, SlotRecs
  <2>2. /\ r.key = slots[c].key /\ r.cv = slots[c].cv /\ r.known = slots[c].known
        /\ r.type = slots[c].type /\ r.owner = slots[c].owner
    BY <1>2 DEF SlotRecs
  <2>3. pc[t] = "nested" /\ Goto(t, "nestedsleep") /\ UNCHANGED <<loc, guest>>
    BY <1>3 DEF NestedLock, At
  <2>4. "nestedsleep" \in Nesting \cup {"asleep"} /\ r.cv \subseteq slots[c].cv \cup {t}
    BY <2>2 DEF Nesting
  <2>5. /\ pc[t] \in {"nestedunlock", "deepen"} => "nestedsleep" \in {"nestedunlock", "deepen"}
        /\ "nestedsleep" = "asleep" <=> pc[t] = "asleep"
        /\ "nestedsleep" = "asleep" => t \notin r.cv
    BY <2>3
  <2> QED  BY <1>1, <1>2, <2>1, <2>2, <2>3, <2>4, <2>5, CondStep
<1>4. CASE NestedSleep(t)
  <2> PICK r : r = [slots[c] EXCEPT !.m = NoThread, !.cv = @ \cup {t}]
    OBVIOUS
  <2>1. slots' = [slots EXCEPT ![c] = r] /\ r \in SlotRecs
    BY <1>2, <1>4 DEF NestedSleep, SlotRecs, MutexTypes, TypeOK
  <2>2. /\ r.key = slots[c].key /\ r.cv = slots[c].cv \cup {t} /\ r.known = slots[c].known
        /\ r.type = slots[c].type /\ r.owner = slots[c].owner
    BY <1>2 DEF SlotRecs
  <2>3. pc[t] = "nestedsleep" /\ Goto(t, "nestedasleep") /\ UNCHANGED <<loc, guest>>
    BY <1>4 DEF NestedSleep, At
  <2>4. "nestedasleep" \in Nesting \cup {"asleep"} /\ r.cv \subseteq slots[c].cv \cup {t}
    BY <2>2 DEF Nesting
  <2>5. /\ pc[t] \in {"nestedunlock", "deepen"} => "nestedasleep" \in {"nestedunlock", "deepen"}
        /\ "nestedasleep" = "asleep" <=> pc[t] = "asleep"
        /\ "nestedasleep" = "asleep" => t \notin r.cv
    BY <2>3
  <2> QED  BY <1>1, <1>2, <2>1, <2>2, <2>3, <2>4, <2>5, CondStep
<1>5. CASE TimesOut(t)
  <2> PICK r : r = [slots[c] EXCEPT !.cv = @ \ {t}]
    OBVIOUS
  <2>1. slots' = [slots EXCEPT ![c] = r] /\ r \in SlotRecs
    BY <1>2, <1>5 DEF TimesOut, SlotRecs
  <2>2. /\ r.key = slots[c].key /\ r.cv = slots[c].cv \ {t} /\ r.known = slots[c].known
        /\ r.type = slots[c].type /\ r.owner = slots[c].owner
    BY <1>2 DEF SlotRecs
  <2>3. Goto(t, pc[t]) /\ UNCHANGED <<loc, guest>>
    BY <1>2, <1>5 DEF TimesOut, Goto, MutexTypes
  <2>4. pc[t] \in Nesting \cup {"asleep"} /\ r.cv \subseteq slots[c].cv \cup {t} /\ t \notin r.cv
    BY <1>1, <2>2
  <2>5. /\ pc[t] \in {"nestedunlock", "deepen"} => pc[t] \in {"nestedunlock", "deepen"}
        /\ pc[t] = "asleep" <=> pc[t] = "asleep"
        /\ pc[t] = "asleep" => t \notin r.cv
    BY <2>3
  <2> QED  BY <1>1, <1>2, <2>1, <2>2, <2>3, <2>4, <2>5, CondStep
<1>6. CASE NestedRetake(t)
  <2> PICK r : r = [slots[c] EXCEPT !.m = t]
    OBVIOUS
  <2>1. slots' = [slots EXCEPT ![c] = r] /\ r \in SlotRecs
    BY <1>2, <1>6 DEF NestedRetake, SlotRecs
  <2>2. /\ r.key = slots[c].key /\ r.cv = slots[c].cv /\ r.known = slots[c].known
        /\ r.type = slots[c].type /\ r.owner = slots[c].owner
    BY <1>2 DEF SlotRecs
  <2>3. pc[t] = "nestedasleep" /\ Goto(t, "nestedunlock") /\ UNCHANGED <<loc, guest>>
    BY <1>6 DEF NestedRetake, At
  <2>4. "nestedunlock" \in Nesting \cup {"asleep"} /\ r.cv \subseteq slots[c].cv \cup {t}
    BY <2>2 DEF Nesting
  <2>5. /\ pc[t] \in {"nestedunlock", "deepen"} => "nestedunlock" \in {"nestedunlock", "deepen"}
        /\ "nestedunlock" = "asleep" <=> pc[t] = "asleep"
        /\ "nestedunlock" = "asleep" => t \notin r.cv
    BY <2>3
  <2> QED  BY <1>1, <1>2, <2>1, <2>2, <2>3, <2>4, <2>5, CondStep
<1>7. CASE NestedUnlock(t)
  <2> PICK r : r = [slots[c] EXCEPT !.m = NoThread]
    OBVIOUS
  <2>1. slots' = [slots EXCEPT ![c] = r] /\ r \in SlotRecs
    BY <1>2, <1>7 DEF NestedUnlock, SlotRecs
  <2>2. /\ r.key = slots[c].key /\ r.cv = slots[c].cv /\ r.known = slots[c].known
        /\ r.type = slots[c].type /\ r.owner = slots[c].owner
    BY <1>2 DEF SlotRecs
  <2>3. pc[t] = "nestedunlock" /\ Goto(t, "deepen") /\ UNCHANGED <<loc, guest>>
    BY <1>7 DEF NestedUnlock, At
  <2>4. "deepen" \in Nesting \cup {"asleep"} /\ r.cv \subseteq slots[c].cv \cup {t}
    BY <2>2 DEF Nesting
  <2>5. /\ pc[t] \in {"nestedunlock", "deepen"} => "deepen" \in {"nestedunlock", "deepen"}
        /\ "deepen" = "asleep" <=> pc[t] = "asleep"
        /\ "deepen" = "asleep" => t \notin r.cv
    BY <2>3
  <2> QED  BY <1>1, <1>2, <2>1, <2>2, <2>3, <2>4, <2>5, CondStep
<1> QED  BY <1>3, <1>4, <1>5, <1>6, <1>7

\* The mutex is let go and the thread asleep in one step: no signal falls between.
LEMMA SleepStep ==
  ASSUME MInv, NEW t \in Threads, Sleep(t)
  PROVE  MInv'
<1> PICK k, s, c : k = loc[t].o /\ s = loc[t].s /\ c = loc[t].c
  OBVIOUS
<1>1. /\ pc[t] \in {"sleep", "bridge"}
      /\ pc[t] = "bridge" => Slot(t).type = "normal"
      /\ Waits(t) /\ t # NoThread
  BY WhereIs, SlotsAssumption DEF Sleep, At
<1>2. /\ k \in Mutexes /\ s \in Indices /\ slots[s] \in SlotRecs
      /\ slots[s].key = k /\ slots[s].known /\ slots[s].type = typeOf[k]
      /\ held[t][k] \in 0..MaxDepth
      /\ slots[s].owner = t => Owns(t, k)
      /\ slots[s].type = "normal" => slots[s].owner = NoThread
  BY <1>1, SettledSlot DEF Nesting
<1>3. /\ Host(t, k) /\ slots[s].owner # t /\ held[t][k] > 0
      /\ typeOf[k] # "normal" => held[t][k] = 1
  <2>1. CASE pc[t] = "sleep"
    BY <2>1, <1>1, <1>2 DEF Waits, Host, Owns
  <2>2. CASE pc[t] = "bridge"
    BY <2>2, <1>1, <1>2 DEF Waits, Host, Slot
  <2> QED  BY <2>1, <2>2, <1>1
<1>4. /\ c \in Indices /\ slots[c] \in SlotRecs /\ slots[c].key \in Conds /\ c # s
      /\ slots[c].key \notin Mutexes /\ ~cond[slots[c].key] /\ MutexTypes /\ OneSlotEach
  <2>1. MutexTypes /\ OneSlotEach
    BY DEF MInv
  <2>2. c # 0 /\ c \in 0..NSlots
    BY <1>1, <2>1 DEF Waits, MutexTypes, TypeOK
  <2>3. c \in Indices /\ slots[c] \in SlotRecs
    BY <2>1, <2>2 DEF Indices, MutexTypes, TypeOK, SlotRecs
  <2>4. slots[c].key \in Conds /\ ~cond[slots[c].key]
    BY <1>1, <1>3, <2>2 DEF Waits, WaitsFor
  <2> QED  BY <1>2, <2>1, <2>3, <2>4, SyncMutexAssumption
<1>5. /\ slots'[s] = [slots[s] EXCEPT !.m = NoThread]
      /\ slots'[c] = [slots[c] EXCEPT !.cv = @ \cup {t}]
      /\ \A i \in Indices \ {s, c} : slots'[i] = slots[i]
      /\ slots' \in [Indices -> SlotRecs]
  <2>1. slots \in [Indices -> SlotRecs] /\ slots[s] \in SlotRecs
    BY <1>2, <1>4 DEF MutexTypes, TypeOK, SlotRecs
  <2>2. slots' = [slots EXCEPT ![s].m = NoThread, ![c].cv = @ \cup {t}]
    BY <1>2 DEF Sleep
  <2>3. PICK a, b : a = [slots[s] EXCEPT !.m = NoThread] /\ b = [slots[c] EXCEPT !.cv = @ \cup {t}]
    OBVIOUS
  <2>4. a \in SlotRecs /\ b \in SlotRecs
    BY <2>1, <2>3, <1>4 DEF SlotRecs
  <2>5. slots' = [slots EXCEPT ![s] = a, ![c] = b]
    BY <2>1, <2>2, <2>3, <1>2, <1>4
  <2> QED  BY <2>1, <2>3, <2>4, <2>5, <1>2, <1>4
<1>6. /\ slots'[s].key = k /\ slots'[s].owner = slots[s].owner /\ slots'[s].cv = slots[s].cv
      /\ slots'[s].known /\ slots'[s].type = typeOf[k]
      /\ slots'[c].key = slots[c].key /\ slots'[c].owner = slots[c].owner
      /\ slots'[c].known = slots[c].known /\ slots'[c].type = slots[c].type
      /\ slots'[c].cv = slots[c].cv \cup {t}
  BY <1>2, <1>4, <1>5 DEF SlotRecs
<1>7. pc'[t] = "asleep" /\ loc' = loc /\ held' = held /\ UNCHANGED <<typeOf, users, last, cond, owes>>
  BY <1>4 DEF Sleep, Goto, guest, MutexTypes
<1>8. MutexTypes'
  BY <1>4, <1>5, <1>7 DEF Sleep, Goto, MutexTypes, TypeOK, SlotRecs, Indices
<1>9. Others(t) /\ HeldStep(t) /\ pc[t] # "init"
  <2>1. \A j \in Mutexes : held[t][j] <= held[t][j]
    BY <1>4 DEF MutexTypes, TypeOK
  <2>2. Others(t)
    BY <1>4, <1>7 DEF Others, Sleep, Goto, MutexTypes
  <2>3. HeldStep(t)
    BY <1>7, <2>1 DEF HeldStep
  <2> QED  BY <1>1, <2>2, <2>3
<1>10. \A i \in Indices : Kept(t, i) /\ Detects(i)
  <2>1. k # NoObject /\ \A u \in Threads \ {t} : ~Host(u, k)
    BY <1>2, <1>3, HostUnique, SyncMutexAssumption, SlotsAssumption
  <2> SUFFICES ASSUME NEW i \in Indices PROVE Kept(t, i) /\ Detects(i)
    OBVIOUS
  <2>2. CASE i = s
    BY <2>1, <2>2, <1>2, <1>6 DEF Kept, Detects
  <2>3. CASE i = c
    BY <2>3, <1>4, <1>6 DEF Kept, Detects
  <2>4. CASE i \notin {s, c}
    BY <2>4, <1>5 DEF Kept, Detects
  <2> QED  BY <2>2, <2>3, <2>4
<1>11. InPlace(t)'
  <2>1. HasSlot(t)' /\ Known(t)' /\ WaitsFor(t)' = WaitsFor(t)
    BY <1>2, <1>6, <1>7 DEF HasSlot, Known, WaitsFor, Indices
  <2>2. ~Host(t, k)'
    BY <1>7 DEF Host, Nesting
  <2>3. Waits(t)'
    BY <1>1, <1>3, <1>4, <1>7, <2>1, <2>2 DEF Waits, Nesting
  <2> QED  BY <2>3 DEF InPlace
<1>12. \A j \in Mutexes : /\ Host(t, j)' => \E i \in Indices : HostAt(t, j, i)'
                          /\ \A i \in Indices : slots'[i].owner = t /\ slots'[i].key = j => Owns(t, j)'
  <2> SUFFICES ASSUME NEW j \in Mutexes
               PROVE  /\ Host(t, j)' => \E i \in Indices : HostAt(t, j, i)'
                      /\ \A i \in Indices : slots'[i].owner = t /\ slots'[i].key = j => Owns(t, j)'
    OBVIOUS
  <2>1. CASE j = k
    <3>1. ~Host(t, j)'
      BY <2>1, <1>7 DEF Host, Nesting
    <3>2. ASSUME NEW i \in Indices, slots'[i].key = k PROVE i = s
      <4>1. slots[i].key = k
        <5>1. slots'[c].key = slots[c].key
          BY <1>4, <1>5 DEF SlotRecs
        <5>2. CASE i \in {s, c}
          BY <5>1, <5>2, <3>2, <1>2
        <5>3. CASE i \notin {s, c}
          BY <5>3, <3>2, <1>5
        <5> QED  BY <5>2, <5>3
      <4>2. k # NoObject
        BY <1>2, SyncMutexAssumption, SlotsAssumption
      <4> QED  BY <4>1, <4>2, <1>2, <1>4 DEF OneSlotEach
    <3> QED  BY <2>1, <3>1, <3>2, <1>3, <1>6
  <2>2. CASE j # k
    <3>1. ASSUME NEW i \in Indices
          PROVE  slots'[i] = slots[i] \/ (slots[i].key # j /\ slots'[i].key # j)
      <4>1. CASE i = s
        BY <4>1, <2>2, <1>2, <1>6
      <4>2. CASE i = c
        BY <4>2, <1>4, <1>6
      <4>3. CASE i \notin {s, c}
        BY <4>3, <1>5
      <4> QED  BY <4>1, <4>2, <4>3
    <3>2. loc[t].o # j /\ loc'[t].o # j /\ held'[t][j] = held[t][j] /\ typeOf'[j] = typeOf[j]
      BY <2>2, <1>7
    <3> QED  BY <3>1, <3>2, Elsewhere
  <2> QED  BY <2>1, <2>2
<1>13. Hosts(t)' /\ OwnerOwns(t)'
  BY <1>12 DEF Hosts, OwnerOwns, Indices
<1>14. NoMissed(t)'
  BY <1>4, <1>6, <1>7 DEF NoMissed
<1> QED  BY <1>7, <1>8, <1>9, <1>10, <1>11, <1>13, <1>14, Calm DEF Sound

-----------------------------------------------------------------------------
(***************************************************************************)
(* Steps that look a slot up, and make it if need be.                       *)
(***************************************************************************)

\* A set of naturals that has a bound and is not empty has a least element.
LEMMA Least ==
  ASSUME NEW n \in Nat, NEW A, A \subseteq 1..n, A # {}
  PROVE  \E k \in A : \A j \in A : k <= j
<1> DEFINE below(k) == {j \in A : j <= k}
           T == {below(k) : k \in A}
<1>1. T \subseteq FiniteSubsetsOf(1..n) /\ T # {}
  <2>1. IsFiniteSet(1..n)
    BY FS_Interval
  <2>2. \A k \in A : below(k) \subseteq 1..n
    OBVIOUS
  <2>3. \A k \in A : IsFiniteSet(below(k))
    BY <2>1, <2>2, FS_Subset
  <2> HIDE DEF below
  <2> QED  BY <2>2, <2>3 DEF FiniteSubsetsOf
<1>2. PICK x \in T : \A y \in T : <<y, x>> \notin StrictSubsetOrdering(1..n)
  <2> HIDE DEF T
  <2> QED  BY <1>1, FS_StrictSubsetOrderingWellFounded, WFMin
<1>3. PICK k \in A : x = below(k)
  OBVIOUS
<1>4. ASSUME NEW j \in A, j < k PROVE FALSE
  <2>1. below(j) \subseteq below(k) /\ k \in below(k) /\ k \notin below(j)
    <3>1. \A i \in A : i \in Int
      OBVIOUS
    <3>2. \A i \in A : i <= j => i <= k
      BY <1>4, <3>1
    <3>3. k <= k /\ ~(k <= j)
      BY <1>4, <3>1
    <3> QED  BY <3>2, <3>3
  <2>2. <<below(j), x>> \in StrictSubsetOrdering(1..n)
    BY <1>3, <2>1 DEF StrictSubsetOrdering
  <2> QED  BY <1>2, <2>2
<1> QED  BY <1>4

\* slot_get returns the object's slot: the one it had, or one that nobody used.
LEMMA GetSlotIs ==
  ASSUME MutexTypes, NEW o \in Objects, NEW i \in Indices,
         GetSlot(o, i)
  PROVE  /\ slots'[i].key = o /\ slots' \in [Indices -> SlotRecs]
         /\ \/ UNCHANGED slots
            \/ Given(i, o) /\ \A j \in Indices \ {i} : slots'[j] = slots[j]
<1>1. slots \in [Indices -> SlotRecs]
  BY DEF MutexTypes, TypeOK, SlotRecs
<1>2. CASE Present(o) /\ i = SlotOf(o) /\ UNCHANGED slots
  BY <1>1, <1>2 DEF Present, SlotOf
<1>3. CASE ~Present(o) /\ Unused # {} /\ i = FirstUnused
           /\ slots' = [slots EXCEPT ![i] = Fresh(o)]
  <2>1. i \in Unused
    <3>1. \E k \in Unused : \A j \in Unused : k <= j
      BY <1>3, Least, SlotsAssumption DEF Unused, Indices
    <3> QED  BY <1>3, <3>1 DEF FirstUnused
  <2>2. Fresh(o) \in SlotRecs /\ Fresh(o).key = o
    BY <1>1, SyncMutexAssumption DEF Fresh, SlotRecs
  <2> QED  BY <1>1, <1>3, <2>1, <2>2 DEF Unused, Given
<1> QED  BY <1>2, <1>3 DEF GetSlot

\* t gets slot i of o, and is then at q with locals l.
Gets(t, q, l) ==
  /\ \/ UNCHANGED slots
     \/ \E o \in Objects, i \in Indices :
          Given(i, o) /\ \A j \in Indices \ {i} : slots'[j] = slots[j]
  /\ slots' \in [Indices -> SlotRecs]
  /\ pc' = [pc EXCEPT ![t] = q] /\ loc' = [loc EXCEPT ![t] = l] /\ UNCHANGED guest

\* A call that begins by looking its object up.
LEMMA GetStep ==
  ASSUME MInv, NEW t \in Threads,
         pc[t] \in {"idle", "second"},
         NEW q \in {"idle", "second", "detect", "unlock", "wake"}, NEW l \in LocRecs,
         q \in {"second", "detect", "unlock"} \/ l.o \notin Mutexes,
         Gets(t, q, l), InPlace(t)'
  PROVE  MInv'
<1>1. /\ MutexTypes /\ OneSlotEach /\ t # NoThread /\ NoObject \notin Mutexes
      /\ held' = held /\ UNCHANGED <<typeOf, users, last, cond, owes>>
      /\ slots' \in [Indices -> SlotRecs]
      /\ pc' = [pc EXCEPT ![t] = q] /\ loc' = [loc EXCEPT ![t] = l]
  BY SlotsAssumption, SyncMutexAssumption DEF MInv, Gets, guest
<1>2. pc'[t] = q /\ loc'[t] = l
  BY <1>1 DEF MutexTypes, TypeOK
<1>3. MutexTypes'
  BY <1>1 DEF MutexTypes, TypeOK, SlotRecs, LocRecs, Indices
<1>4. Others(t)
  BY <1>1 DEF Others, MutexTypes, TypeOK
<1>5. HeldStep(t)
  <2>1. \A j \in Mutexes : held[t][j] <= held[t][j]
    BY <1>1 DEF MutexTypes, TypeOK
  <2> QED  BY <1>1, <2>1 DEF HeldStep
<1>6. \A j \in Mutexes : /\ Host(t, j) <=> held[t][j] > 0
                         /\ Host(t, j)' <=> held[t][j] > 0
                         /\ Owns(t, j) <=> held[t][j] > 0
                         /\ Owns(t, j)' <=> held[t][j] > 0
                         /\ Depth(t, j) = held[t][j]
                         /\ Depth(t, j)' = held[t][j]
  <2>1. Idle(t) \/ pc[t] = "second"
    BY WhereIs
  <2>2. \A j \in Mutexes : loc[t].o = j => pc[t] = "second"
    BY <1>1, <2>1 DEF Idle, NoLoc
  <2>3. \A j \in Mutexes : loc'[t].o = j => pc'[t] \in {"second", "detect", "unlock"}
    BY <1>2
  <2> QED  BY <1>1, <2>2, <2>3 DEF Host, Owns, Depth, Nesting
<1>7. \A i \in Indices : slots'[i] = slots[i] \/ (slots[i].key = NoObject /\ slots'[i].owner = NoThread)
  <2>1. CASE UNCHANGED slots
    BY <2>1
  <2>2. ASSUME NEW o \in Objects, NEW i \in Indices, Given(i, o),
               \A j \in Indices \ {i} : slots'[j] = slots[j]
        PROVE  \A j \in Indices : \/ slots'[j] = slots[j]
                                  \/ slots[j].key = NoObject /\ slots'[j].owner = NoThread
    BY <2>2 DEF Given, Fresh
  <2> QED  BY <2>1, <2>2 DEF Gets
<1>8. Hosts(t)'
  <2> SUFFICES ASSUME NEW k \in Mutexes, Host(t, k)' PROVE \E i \in Indices : HostAt(t, k, i)'
    BY DEF Hosts, Indices
  <2>1. PICK i \in Indices : HostAt(t, k, i)
    BY <1>6 DEF MInv, Hosts
  <2>2. slots'[i] = slots[i]
    BY <1>1, <1>7, <2>1 DEF HostAt
  <2>3. HostAt(t, k, i)'
    BY <1>1, <1>6, <2>1, <2>2 DEF HostAt
  <2> QED  BY <2>3
<1>9. OwnerOwns(t)'
  <2> SUFFICES ASSUME NEW i \in Indices, NEW k \in Mutexes, slots'[i].owner = t, slots'[i].key = k
               PROVE  Owns(t, k)'
    BY DEF OwnerOwns, Indices
  <2>1. slots[i].owner = t /\ slots[i].key = k
    BY <1>1, <1>7
  <2> QED  BY <2>1, <1>6 DEF MInv, OwnerOwns
<1>10. NoMissed(t)'
  BY <1>2 DEF NoMissed
<1>11. \/ \A i \in Indices : Kept(t, i) /\ Detects(i)
       \/ \E o \in Objects, j \in Indices :
            Given(j, o) /\ \A i \in Indices \ {j} : slots'[i] = slots[i]
  BY DEF Gets, Kept, Detects
<1> QED  BY <1>1, <1>3, <1>4, <1>5, <1>8, <1>9, <1>10, <1>11, Calm DEF Sound

\* A lookup with nothing of the guest's changed is one.
LEMMA GetsSlot ==
  ASSUME MutexTypes, NEW t \in Threads, NEW o \in Objects, NEW i \in Indices,
         GetSlot(o, i), NEW q, Goto(t, q), NEW l, loc' = [loc EXCEPT ![t] = l], UNCHANGED guest
  PROVE  Gets(t, q, l) /\ slots'[i].key = o /\ pc'[t] = q /\ loc'[t] = l
<1>1. pc'[t] = q /\ loc'[t] = l
  BY DEF Goto, MutexTypes, TypeOK
<1> QED  BY <1>1, GetSlotIs DEF Gets, Goto

\* Lock and trylock begin.
LEMMA LockStep ==
  ASSUME MInv, NEW t \in Threads, NEW k \in Mutexes,
         NEW op \in {"lock", "trylock"}, Lock(t, k, op), ~UNCHANGED vars
  PROVE  MInv'
<1>0. MutexTypes /\ k \in Objects /\ pc[t] = "idle" /\ MayUse(t, k) /\ UNCHANGED guest
  BY SyncMutexAssumption DEF MInv, Lock, At
<1>1. PICK i \in Indices : GetSlot(k, i) /\ Holding(t, op, k, i, "detect")
  BY DEF Lock, vars
<1>l. PICK l : l = [op |-> op, o |-> k, s |-> i, c |-> 0]
  OBVIOUS
<1>2. l \in LocRecs /\ Goto(t, "detect") /\ loc' = [loc EXCEPT ![t] = l]
  BY <1>0, <1>1, <1>l, SlotsAssumption DEF Holding, LocRecs, Indices
<1>3. Gets(t, "detect", l) /\ slots'[i].key = k /\ pc'[t] = "detect" /\ loc'[t] = l
  BY <1>0, <1>1, <1>2, GetsSlot
<1>4. held[t][k] < MaxDepth /\ t \in users[k] /\ (typeOf[k] = "normal" => held[t][k] = 0)
  <2>1. held[t][k] \in Nat
    BY <1>0 DEF MutexTypes, TypeOK
  <2> QED  BY <1>0, <2>1 DEF MayUse
<1>5. InPlace(t)'
  <2>1. HasSlot(t)'
    BY <1>3, <1>l DEF HasSlot, Indices
  <2>2. Locking(t)'
    BY <1>0, <1>3, <1>4, <1>l, <2>1 DEF Locking, guest
  <2> QED  BY <2>2 DEF InPlace
<1> QED  BY <1>0, <1>2, <1>3, <1>5, GetStep

\* Nobody makes a mutex that a thread may still use.
LEMMA NobodyMakes ==
  ASSUME MInv, NEW t \in Threads, NEW k \in Mutexes, t \in users[k], NEW u \in Threads
  PROVE  ~(pc[u] = "init" /\ loc[u].o = k)
<1> SUFFICES ASSUME pc[u] = "init", loc[u].o = k PROVE FALSE
  OBVIOUS
<1>1. last[k] = u
  BY WhereIs DEF Making
<1> QED  BY <1>1, SlotsAssumption DEF MInv, Left

\* Unlock begins.
LEMMA UnlockCall ==
  ASSUME MInv, NEW t \in Threads, NEW k \in Mutexes,
         Unlock(t, k), ~UNCHANGED vars
  PROVE  MInv'
<1>0. /\ MutexTypes /\ k \in Objects /\ pc[t] = "idle" /\ Idle(t) /\ UNCHANGED guest
      /\ UNCHANGED slots /\ k # NoObject
      /\ \/ held[t][k] > 0
         \/ t \in users[k] /\ typeOf[k] # "normal"
            /\ \A i \in Indices : slots[i].key = k => slots[i].known
  BY WhereIs, SyncMutexAssumption, SlotsAssumption DEF MInv, Unlock, At
<1>1. Present(k) /\ Holding(t, "unlock", k, SlotOf(k), "unlock")
  BY DEF Unlock, vars
<1> PICK i, l : i = SlotOf(k) /\ l = [op |-> "unlock", o |-> k, s |-> i, c |-> 0]
  OBVIOUS
<1>2. i \in Indices /\ slots[i].key = k
  BY <1>1 DEF Present, SlotOf
<1>3. l \in LocRecs /\ Goto(t, "unlock") /\ loc' = [loc EXCEPT ![t] = l]
  BY <1>0, <1>1, <1>2, SlotsAssumption DEF Holding, LocRecs, Indices
<1>4. slots[i].known /\ slots[i].type = typeOf[k]
  <2>1. CASE held[t][k] > 0
    <3>1. Host(t, k)
      BY <1>0, <2>1 DEF Host, Idle, NoLoc
    <3>2. HostAt(t, k, i)
      BY <1>0, <1>2, <3>1, HostSlot
    <3> QED  BY <3>2 DEF HostAt
  <2>2. CASE t \in users[k] /\ \A j \in Indices : slots[j].key = k => slots[j].known
    <3>1. slots[i].known
      BY <1>2, <2>2
    <3>2. \A u \in Threads : ~(pc[u] = "init" /\ loc[u].o = k)
      BY <2>2, NobodyMakes
    <3> QED  BY <1>2, <3>1, <3>2 DEF MInv, Detecting
  <2> QED  BY <1>0, <2>1, <2>2
<1>5. /\ Gets(t, "unlock", l) /\ slots' = slots /\ pc'[t] = "unlock" /\ loc'[t] = l
      /\ UNCHANGED guest
  BY <1>0, <1>3 DEF Gets, Goto, MutexTypes, TypeOK, SlotRecs
<1>6. InPlace(t)'
  <2>1. HasSlot(t)' /\ Known(t)'
    BY <1>2, <1>4, <1>5 DEF HasSlot, Known, Indices, guest
  <2>2. held[t][k] = 0 => t \in users[k] /\ typeOf[k] # "normal"
    BY <1>0
  <2>3. Unlocking(t)'
    BY <1>5, <2>1, <2>2 DEF Unlocking, guest
  <2> QED  BY <2>3 DEF InPlace
<1> QED  BY <1>0, <1>3, <1>5, <1>6, GetStep

\* A wait looks its condition variable up ...
LEMMA WaitCall ==
  ASSUME MInv, NEW t \in Threads, NEW c \in Conds,
         NEW op \in {"wait", "timedwait"}, Wait(t, c, op)
  PROVE  MInv'
<1> PICK k : k = MutexOf[c]
  OBVIOUS
<1>0. /\ MutexTypes /\ c \in Objects /\ k \in Objects /\ k \in Mutexes /\ pc[t] = "idle"
      /\ UNCHANGED guest /\ t \in users[k] /\ ~cond[c] /\ Goto(t, "second")
      /\ held[t][k] > 0 \/ typeOf[k] # "normal"
  BY SyncMutexAssumption DEF MInv, Wait, At
<1>1. \E i \in 0..NSlots :
        \/ i \in Indices /\ GetSlot(c, i) /\ loc' = [loc EXCEPT ![t] = [op |-> op, o |-> k, s |-> 0, c |-> i]]
        \/ i = 0 /\ UNCHANGED slots /\ loc' = [loc EXCEPT ![t] = [op |-> op, o |-> k, s |-> 0, c |-> 0]]
  BY SlotsAssumption DEF Wait, Indices
<1>i. PICK i \in 0..NSlots :
        \/ i \in Indices /\ GetSlot(c, i) /\ loc' = [loc EXCEPT ![t] = [op |-> op, o |-> k, s |-> 0, c |-> i]]
        \/ i = 0 /\ UNCHANGED slots /\ loc' = [loc EXCEPT ![t] = [op |-> op, o |-> k, s |-> 0, c |-> 0]]
  BY <1>1
<1>l. PICK l : l = [op |-> op, o |-> k, s |-> 0, c |-> i]
  OBVIOUS
<1>2. l \in LocRecs /\ loc' = [loc EXCEPT ![t] = l]
  BY <1>0, <1>i, <1>l, SlotsAssumption DEF LocRecs
<1>3. /\ Gets(t, "second", l) /\ (i # 0 => slots'[i].key = c)
      /\ pc'[t] = "second" /\ loc'[t] = l
  <2>1. CASE i \in Indices /\ GetSlot(c, i)
    <3>1. PICK q : q = "second"
      OBVIOUS
    <3>2. Goto(t, q) /\ loc' = [loc EXCEPT ![t] = l]
      BY <3>1, <1>0, <1>2
    <3>3. Gets(t, q, l) /\ slots'[i].key = c /\ pc'[t] = q /\ loc'[t] = l
      BY <2>1, <3>2, <1>0, GetsSlot
    <3> QED  BY <3>1, <3>3
  <2>2. CASE i = 0 /\ UNCHANGED slots
    BY <2>2, <1>0, <1>2 DEF Gets, Goto, MutexTypes, TypeOK, SlotRecs
  <2> QED  BY <1>i, <2>1, <2>2
<1>4. InPlace(t)'
  <2>1. i # 0 => WaitsFor(t)' = c
    BY <1>3, <1>l DEF WaitsFor
  <2>2. /\ l.o = k /\ l.s = 0 /\ l.c = i /\ l.op = op
        /\ UNCHANGED <<held, users, typeOf, cond>>
    BY <1>0, <1>l DEF guest
  <2>3. Waits(t)'
    BY <1>0, <1>3, <2>1, <2>2 DEF Waits, Nesting
  <2> QED  BY <2>3 DEF InPlace
<1> QED  BY <1>0, <1>2, <1>3, <1>4, GetStep

\* ... and then its mutex.
LEMMA WaitSecondStep ==
  ASSUME MInv, NEW t \in Threads, WaitSecond(t)
  PROVE  MInv'
<1>k. PICK k, c : k = loc[t].o /\ c = loc[t].c
  OBVIOUS
<1>0. /\ MutexTypes /\ k \in Objects /\ k \in Mutexes /\ pc[t] = "second" /\ UNCHANGED guest
      /\ Waits(t) /\ loc[t] \in LocRecs /\ t # NoThread /\ k = loc[t].o /\ c = loc[t].c
  <2>1. MutexTypes /\ pc[t] = "second" /\ UNCHANGED guest
    BY DEF MInv, WaitSecond, At
  <2>2. Waits(t)
    BY <2>1, WhereIs
  <2>3. k \in Mutexes
    BY <2>2, <1>k DEF Waits
  <2>4. loc[t] \in LocRecs
    BY <2>1 DEF MutexTypes, TypeOK, LocRecs
  <2> QED  BY <1>k, <2>1, <2>2, <2>3, <2>4, SyncMutexAssumption, SlotsAssumption
<1>1. ASSUME Leave(t), slots' \in [Indices -> SlotRecs],
             UNCHANGED slots \/ \E i \in Indices : GetSlot(k, i)
      PROVE  MInv'
  <2>1. NoLoc \in LocRecs /\ NoLoc.o \notin Mutexes
    BY SlotsAssumption, SyncMutexAssumption DEF NoLoc, LocRecs
  <2>2. Gets(t, "idle", NoLoc) /\ pc'[t] = "idle" /\ loc'[t] = NoLoc
    <3>1. pc'[t] = "idle" /\ loc'[t] = NoLoc
      BY <1>0, <1>1 DEF Leave, Goto, MutexTypes, TypeOK
    <3>2. CASE UNCHANGED slots
      BY <3>1, <3>2, <1>0, <1>1 DEF Gets, Leave, Goto
    <3>3. CASE \E i \in Indices : GetSlot(k, i)
      BY <3>3, <1>0, <1>1, GetsSlot DEF Leave
    <3> QED  BY <3>2, <3>3, <1>1
  <2>3. InPlace(t)'
    BY <2>2 DEF InPlace, Idle
  <2> QED  BY <1>0, <2>1, <2>2, <2>3, GetStep
<1>2. CASE UNCHANGED slots /\ Leave(t)
  BY <1>1, <1>2, <1>0 DEF MutexTypes, TypeOK, SlotRecs
<1>3. ASSUME NEW i \in Indices, GetSlot(k, i), c = 0, Leave(t) PROVE MInv'
  BY <1>0, <1>1, <1>3, GetSlotIs
<1>4. ASSUME NEW i \in Indices, GetSlot(k, i), c # 0, Goto(t, "detect"), loc' = [loc EXCEPT ![t].s = i]
      PROVE  MInv'
  <2>l. PICK l : l = [loc[t] EXCEPT !.s = i]
    OBVIOUS
  <2>1. /\ l \in LocRecs /\ loc' = [loc EXCEPT ![t] = l] /\ l.o = k /\ l.c = c /\ l.s = i
        /\ l.op = loc[t].op
    <3>1. i \in 0..NSlots
      BY SlotsAssumption DEF Indices
    <3>2. l \in LocRecs /\ l.o = k /\ l.c = c /\ l.s = i /\ l.op = loc[t].op
      BY <1>0, <2>l, <3>1 DEF LocRecs
    <3>3. loc' = [loc EXCEPT ![t] = l]
      BY <1>0, <1>4, <2>l DEF MutexTypes, TypeOK
    <3> QED  BY <3>2, <3>3
  <2>2. Gets(t, "detect", l) /\ slots'[i].key = k /\ pc'[t] = "detect" /\ loc'[t] = l
    <3>1. GetSlot(k, i) /\ Goto(t, "detect") /\ UNCHANGED guest /\ k \in Objects /\ MutexTypes
      BY <1>0, <1>4
    <3>2. loc' = [loc EXCEPT ![t] = l]
      BY <2>1
    <3> QED  BY <3>1, <3>2, GetsSlot
  <2>3. c \in Indices /\ slots[c].key \in Conds
    BY <1>0, <1>4 DEF Waits, WaitsFor, LocRecs, Indices
  <2>4. slots'[c] = slots[c]
    BY <2>2, <2>3, SyncMutexAssumption, SlotsAssumption DEF Gets, Given
  <2>5. HasSlot(t)' /\ WaitsFor(t)' = WaitsFor(t)
    BY <1>0, <2>1, <2>2, <2>4, <1>4 DEF HasSlot, WaitsFor, Indices
  <2>6. Host(t, k)' <=> Host(t, k)
    BY <1>0, <2>1, <2>2 DEF Host, Nesting, guest
  <2>7. InPlace(t)'
    <3>1. Waits(t)'
      BY <1>0, <1>4, <2>1, <2>2, <2>5, <2>6 DEF Waits, guest, Nesting
    <3> QED  BY <3>1 DEF InPlace
  <2> QED  BY <1>0, <2>1, <2>2, <2>7, GetStep
<1> QED  BY <1>0, <1>2, <1>3, <1>4 DEF WaitSecond

\* A condition variable's slot is made when it is initialised.
LEMMA CondInitStep ==
  ASSUME MInv, NEW t \in Threads, NEW c \in Conds, CondInit(t, c)
  PROVE  MInv'
<1>0. MutexTypes /\ c \in Objects /\ pc[t] = "idle" /\ Idle(t) /\ UNCHANGED guest
  BY WhereIs, SyncMutexAssumption DEF MInv, CondInit, Alone, At
<1>1. NoLoc \in LocRecs /\ NoLoc.o \notin Mutexes
  BY SlotsAssumption, SyncMutexAssumption DEF NoLoc, LocRecs
<1>2. Goto(t, "idle") /\ loc' = [loc EXCEPT ![t] = NoLoc]
  BY <1>0 DEF CondInit, Goto, Idle, MutexTypes, TypeOK
<1>3. PICK i \in Indices : GetSlot(c, i)
  BY DEF CondInit
<1>4. Gets(t, "idle", NoLoc) /\ pc'[t] = "idle" /\ loc'[t] = NoLoc
  BY <1>0, <1>2, <1>3, GetsSlot
<1>5. InPlace(t)'
  BY <1>4 DEF InPlace, Idle
<1> QED  BY <1>0, <1>1, <1>4, <1>5, GetStep

\* A signal or broadcast finds a slot ...
LEMMA AwakenFound ==
  ASSUME MInv, NEW t \in Threads, NEW c \in Conds,
         NEW op \in {"signal", "broadcast"}, Awaken(t, c, op), UNCHANGED owes,
         NEW i \in Indices, GetSlot(c, i), Holding(t, op, c, i, "wake")
  PROVE  MInv'
<1>0. /\ MutexTypes /\ c \in Objects /\ pc[t] = "idle" /\ t \in users[MutexOf[c]] /\ c \notin Mutexes
      /\ UNCHANGED guest
  BY SyncMutexAssumption DEF MInv, Awaken, At, guest
<1>l. PICK l : l = [op |-> op, o |-> c, s |-> i, c |-> 0]
  OBVIOUS
<1>1. l \in LocRecs /\ Goto(t, "wake") /\ loc' = [loc EXCEPT ![t] = l] /\ l.o \notin Mutexes
  BY <1>0, <1>l, SlotsAssumption DEF Holding, LocRecs, Indices
<1>2. Gets(t, "wake", l) /\ slots'[i].key = c /\ pc'[t] = "wake" /\ loc'[t] = l
  BY <1>0, <1>1, GetsSlot
<1>3. InPlace(t)'
  <2>1. HasSlot(t)'
    BY <1>2, <1>l DEF HasSlot, Indices
  <2>2. Waking(t)'
    BY <1>0, <1>2, <1>l, <2>1 DEF Waking, guest
  <2> QED  BY <2>2 DEF InPlace
<1> QED  BY <1>0, <1>1, <1>2, <1>3, GetStep

-----------------------------------------------------------------------------
(***************************************************************************)
(* Steps of a thread that is in no mutex's call, before or after.           *)
(***************************************************************************)
\* t is idle now, and no slot has changed but for those who sleep there.
Settles(t) ==
  /\ loc[t].o \notin Mutexes /\ pc'[t] = "idle" /\ loc'[t] = NoLoc /\ held' = held /\ typeOf' = typeOf
  /\ \A i \in Indices :
       /\ slots'[i].key = slots[i].key /\ slots'[i].m = slots[i].m /\ slots'[i].known = slots[i].known
       /\ slots'[i].type = slots[i].type /\ slots'[i].owner = slots[i].owner
       /\ slots'[i].depth = slots[i].depth /\ slots'[i].cv \subseteq slots[i].cv

\* A step of a thread that is in no call on a mutex.
LEMMA SettleStep ==
  ASSUME MInv, MutexTypes', NEW t \in Threads, Others(t),
         pc[t] # "init", Settles(t), GuestStep(t), \A k \in Mutexes : Left(k)'
  PROVE  MInv'
<1>1. NoObject \notin Mutexes /\ MutexTypes
  BY SyncMutexAssumption, SlotsAssumption DEF MInv
<1>2. \A j \in Mutexes : /\ Host(t, j)' <=> Host(t, j)
                         /\ Owns(t, j)' <=> Owns(t, j)
                         /\ Depth(t, j)' = Depth(t, j)
  BY <1>1 DEF Settles, NoLoc, Host, Owns, Depth
<1>3. InPlace(t)' /\ NoMissed(t)'
  BY DEF Settles, InPlace, Idle, NoMissed
<1>4. Hosts(t)'
  <2> SUFFICES ASSUME NEW k \in Mutexes, Host(t, k)' PROVE \E i \in Indices : HostAt(t, k, i)'
    BY DEF Hosts, Indices
  <2>1. PICK i \in Indices : HostAt(t, k, i)
    BY <1>2 DEF MInv, Hosts
  <2>2. HostAt(t, k, i)'
    BY <1>2, <2>1 DEF HostAt, Settles
  <2> QED  BY <2>2
<1>5. OwnerOwns(t)'
  <2> SUFFICES ASSUME NEW i \in Indices, NEW k \in Mutexes, slots'[i].owner = t, slots'[i].key = k
               PROVE  Owns(t, k)'
    BY DEF OwnerOwns, Indices
  <2>1. slots[i].owner = t /\ slots[i].key = k
    BY DEF Settles
  <2> QED  BY <2>1, <1>2 DEF MInv, OwnerOwns
<1>6. \A i \in Indices : Kept(t, i) /\ Detects(i)
  <2> SUFFICES ASSUME NEW i \in Indices PROVE Kept(t, i) /\ Detects(i)
    OBVIOUS
  <2> QED  BY DEF Settles, Kept, Detects
<1>7. HeldStep(t) /\ typeOf' = typeOf
  <2>1. \A j \in Mutexes : held[t][j] <= held[t][j]
    BY <1>1 DEF MutexTypes, TypeOK
  <2> QED  BY <2>1 DEF HeldStep, Settles
<1> QED  BY <1>3, <1>4, <1>5, <1>6, <1>7, StepKeeps DEF Sound

\* The guest's own steps: nothing but users, last, cond and owes changes.
LEMMA GuestSettles ==
  ASSUME MInv, NEW t \in Threads, pc[t] = "idle",
         UNCHANGED <<slots, pc, loc, typeOf, held>>,
         users' \in [Mutexes -> SUBSET Threads], last' \in [Mutexes -> Threads \cup {NoThread}],
         cond' \in [Conds -> BOOLEAN], owes' \in [Conds -> SUBSET Threads]
  PROVE  Settles(t) /\ Others(t) /\ MutexTypes'
<1>1. Idle(t) /\ MutexTypes
  BY WhereIs DEF MInv
<1>2. Settles(t)
  BY <1>1, SyncMutexAssumption, SlotsAssumption DEF Settles, Idle, NoLoc
<1>3. Others(t)
  BY DEF Others
<1>4. MutexTypes'
  BY <1>1 DEF MutexTypes, TypeOK, Indices
<1> QED  BY <1>2, <1>3, <1>4

\* Who has left a mutex has left it.
LEMMA LeftKept ==
  ASSUME MInv, UNCHANGED <<users, last, held>>
  PROVE  \A k \in Mutexes : Left(k)'
BY DEF MInv, Left

\* ... or no slot is left, and it returns.
LEMMA AwakenNone ==
  ASSUME MInv, NEW t \in Threads, NEW c \in Conds,
         pc[t] = "idle", NoSlotLeft(c), owes' = [owes EXCEPT ![c] = @ \ {t}],
         UNCHANGED <<slots, pc, loc>>, UNCHANGED <<typeOf, held, users, last, cond>>
  PROVE  MInv'
<1>1. MutexTypes /\ owes' \in [Conds -> SUBSET Threads]
  BY DEF MInv, MutexTypes
<1>2. Settles(t) /\ Others(t) /\ MutexTypes'
  BY <1>1, GuestSettles DEF MutexTypes
<1>3. GuestStep(t)
  BY <1>1 DEF GuestStep, NoSlotLeft, Present, MutexTypes
<1>4. \A k \in Mutexes : Left(k)'
  BY LeftKept
<1> QED  BY <1>2, <1>3, <1>4, SettleStep

\* Either way.
LEMMA AwakenStep ==
  ASSUME MInv, NEW t \in Threads, NEW c \in Conds,
         NEW op \in {"signal", "broadcast"}, Awaken(t, c, op)
  PROVE  MInv'
<1>1. ASSUME NEW i \in Indices, GetSlot(c, i), Holding(t, op, c, i, "wake"), UNCHANGED owes PROVE MInv'
  BY <1>1, AwakenFound
<1>2. CASE NoSlotLeft(c) /\ owes' = [owes EXCEPT ![c] = @ \ {t}] /\ UNCHANGED <<slots, pc, loc>>
  BY <1>2, AwakenNone DEF Awaken, At
<1> QED  BY <1>1, <1>2 DEF Awaken

\* The waiters it owed are woken.
LEMMA WakeStep ==
  ASSUME MInv, NEW t \in Threads, Wake(t)
  PROVE  MInv'
<1>k. PICK c, s : c = loc[t].o /\ s = loc[t].s
  OBVIOUS
<1>0. /\ MutexTypes /\ OneSlotEach /\ pc[t] = "wake" /\ Waking(t) /\ c \in Conds /\ c \notin Mutexes
      /\ s \in Indices /\ slots[s].key = c /\ c # NoObject
      /\ UNCHANGED <<typeOf, held, users, last, cond>> /\ Leave(t)
      /\ c = loc[t].o /\ s = loc[t].s /\ slots[s] \in SlotRecs
  BY <1>k, WhereIs, SyncMutexAssumption, SlotsAssumption DEF Wake, At, Waking, HasSlot, MInv,
       MutexTypes, TypeOK, SlotRecs
<1>1. PICK v \in SUBSET slots[s].cv : slots' = [slots EXCEPT ![s].cv = v]
      /\ \/ v = {} /\ owes' = [owes EXCEPT ![c] = @ \ {t}]
         \/ UNCHANGED owes
  <2>1. CASE loc[t].op = "broadcast"
    BY <2>1, <1>0 DEF Wake, Slot
  <2>2. CASE loc[t].op # "broadcast" /\ slots[s].cv = {}
    <3>1. UNCHANGED slots /\ UNCHANGED owes
      BY <2>2, <1>0 DEF Wake, Slot
    <3>2. slots' = [slots EXCEPT ![s].cv = slots[s].cv]
      BY <3>1, <1>0 DEF MutexTypes, TypeOK
    <3> QED  BY <3>1, <3>2
  <2>3. CASE loc[t].op # "broadcast" /\ slots[s].cv # {}
    BY <2>3, <1>0 DEF Wake, Slot
  <2> QED  BY <2>1, <2>2, <2>3
<1>2. /\ slots' \in [Indices -> SlotRecs] /\ slots'[s] = [slots[s] EXCEPT !.cv = v]
      /\ \A i \in Indices \ {s} : slots'[i] = slots[i]
  BY <1>0, <1>1 DEF MutexTypes, TypeOK, SlotRecs
<1>3. /\ pc'[t] = "idle" /\ loc'[t] = NoLoc /\ owes' \in [Conds -> SUBSET Threads]
      /\ \A d \in Conds \ {c} : owes'[d] = owes[d]
  <2>1. pc'[t] = "idle" /\ loc'[t] = NoLoc
    BY <1>0 DEF Leave, Goto, MutexTypes, TypeOK
  <2>2. owes \in [Conds -> SUBSET Threads]
    BY <1>0 DEF MutexTypes
  <2>3. CASE UNCHANGED owes
    BY <2>1, <2>2, <2>3
  <2>4. CASE owes' = [owes EXCEPT ![c] = @ \ {t}]
    BY <2>1, <2>2, <2>4, <1>0
  <2> QED  BY <2>3, <2>4, <1>1
<1>4. NoLoc \in LocRecs
  BY SlotsAssumption DEF NoLoc, LocRecs
<1>5. MutexTypes'
  <2>1. pc' = [pc EXCEPT ![t] = "idle"] /\ loc' = [loc EXCEPT ![t] = NoLoc]
    BY <1>0 DEF Leave, Goto
  <2> QED  BY <1>0, <1>2, <1>3, <1>4, <2>1 DEF MutexTypes, TypeOK, SlotRecs, LocRecs, Indices
<1>6. Others(t)
  BY <1>0 DEF Others, Leave, Goto, MutexTypes, TypeOK
<1>7. Settles(t)
  <2>1. \A i \in Indices :
       /\ slots'[i].key = slots[i].key /\ slots'[i].m = slots[i].m /\ slots'[i].known = slots[i].known
       /\ slots'[i].type = slots[i].type /\ slots'[i].owner = slots[i].owner
       /\ slots'[i].depth = slots[i].depth /\ slots'[i].cv \subseteq slots[i].cv
    BY <1>0, <1>2 DEF SlotRecs
  <2> QED  BY <1>0, <1>3, <2>1 DEF Settles
<1>8. GuestStep(t)
  <2>1. \A k \in Mutexes : /\ users[k] \ {t} \subseteq users'[k]
                           /\ last[k] \in Threads \ {t} => last'[k] = last[k]
    BY <1>0
  <2>2. ASSUME NEW d \in Conds, cond'[d], owes'[d] = {}
        PROVE  (cond[d] /\ owes[d] = {}) \/ \A i \in Indices : slots'[i].key = d => slots'[i].cv \subseteq {t}
    <3>1. CASE d # c \/ UNCHANGED owes
      BY <3>1, <2>2, <1>0, <1>3
    <3>2. CASE d = c /\ v = {}
      <4> SUFFICES ASSUME NEW i \in Indices, slots'[i].key = c PROVE slots'[i].cv \subseteq {t}
        BY <3>2
      <4>1. slots[i].key = c
        BY <1>0, <1>2 DEF SlotRecs
      <4>2. i = s
        BY <4>1, <1>0 DEF OneSlotEach
      <4> QED  BY <4>2, <3>2, <1>0, <1>2 DEF SlotRecs
    <3> QED  BY <3>1, <3>2, <1>1
  <2> QED  BY <1>0, <2>1, <2>2 DEF GuestStep
<1>9. \A k \in Mutexes : Left(k)'
  BY <1>0, LeftKept
<1> QED  BY <1>0, <1>5, <1>6, <1>7, <1>8, <1>9, SettleStep

\* The guest sets a condition under the mutex, or takes it back.
LEMMA SetCondStep ==
  ASSUME MInv, NEW t \in Threads, NEW c \in Conds,
         SetCond(t, c) \/ ClearCond(t, c)
  PROVE  MInv'
<1>0. /\ MutexTypes /\ pc[t] = "idle" /\ Idle(t) /\ held[t][MutexOf[c]] > 0 /\ MutexOf[c] \in Mutexes
      /\ MutexOf[c] # NoObject
      /\ UNCHANGED <<slots, pc, loc, typeOf, held>> /\ UNCHANGED <<users, last>>
  <2>1. /\ pc[t] = "idle" /\ held[t][MutexOf[c]] > 0
        /\ UNCHANGED <<slots, pc, loc, typeOf, held>> /\ UNCHANGED <<users, last>>
    BY DEF SetCond, ClearCond, At
  <2>2. MutexTypes
    BY DEF MInv
  <2>3. Idle(t)
    BY <2>1, WhereIs
  <2>4. MutexOf[c] \in Mutexes /\ MutexOf[c] # NoObject
    BY SyncMutexAssumption, SlotsAssumption
  <2> QED  BY <2>1, <2>2, <2>3, <2>4
<1>1. cond' \in [Conds -> BOOLEAN] /\ owes' \in [Conds -> SUBSET Threads]
  <2>1. cond \in [Conds -> BOOLEAN] /\ owes \in [Conds -> SUBSET Threads]
    BY <1>0 DEF MutexTypes
  <2>2. CASE SetCond(t, c)
    BY <2>1, <2>2 DEF SetCond
  <2>3. CASE ClearCond(t, c)
    BY <2>1, <2>3 DEF ClearCond
  <2> QED  BY <2>2, <2>3
<1>2. Settles(t) /\ Others(t) /\ MutexTypes'
  BY <1>0, <1>1, GuestSettles DEF MutexTypes
<1>3. \A u \in Threads \ {t} : ~Host(u, MutexOf[c])
  <2>1. Host(t, MutexOf[c])
    BY <1>0 DEF Host, Idle, NoLoc
  <2> QED  BY <1>0, <2>1, HostUnique
<1>4. GuestStep(t)
  <2>1. \A d \in Conds \ {c} : cond'[d] = cond[d] /\ owes'[d] = owes[d]
    BY <1>0 DEF SetCond, ClearCond, MutexTypes
  <2>2. cond'[c] => owes'[c] # {}
    BY <1>0 DEF SetCond, ClearCond, MutexTypes
  <2> QED  BY <1>0, <1>3, <2>1, <2>2 DEF GuestStep
<1>5. \A k \in Mutexes : Left(k)'
  BY <1>0, LeftKept
<1> QED  BY <1>0, <1>2, <1>4, <1>5, SettleStep

\* A thread will not use a mutex again; the last one to say so may destroy it.
LEMMA DropStep ==
  ASSUME MInv, NEW t \in Threads, NEW k \in Mutexes, Drop(t, k)
  PROVE  MInv'
<1>0. /\ MutexTypes /\ pc[t] = "idle" /\ Idle(t) /\ held[t][k] = 1 /\ k # NoObject /\ t \in users[k]
      /\ UNCHANGED <<slots, pc, loc, typeOf, held>> /\ UNCHANGED <<cond, owes>> /\ Left(k)
      /\ users' = [users EXCEPT ![k] = @ \ {t}]
      /\ last' = [last EXCEPT ![k] = IF users[k] = {t} THEN t ELSE @] /\ t # NoThread
      /\ \A j \in Mutexes : Left(j)
  BY WhereIs, SyncMutexAssumption, SlotsAssumption DEF MInv, Drop, At
<1>1. /\ users' \in [Mutexes -> SUBSET Threads] /\ last' \in [Mutexes -> Threads \cup {NoThread}]
      /\ last[k] = NoThread
      /\ \A j \in Mutexes \ {k} : users'[j] = users[j] /\ last'[j] = last[j]
      /\ users'[k] = users[k] \ {t} /\ last'[k] = IF users[k] = {t} THEN t ELSE NoThread
  <2>1. last[k] = NoThread
    BY <1>0 DEF Left
  <2> QED  BY <1>0, <2>1 DEF MutexTypes
<1>2. Settles(t) /\ Others(t) /\ MutexTypes'
  BY <1>0, <1>1, GuestSettles DEF MutexTypes
<1>3. GuestStep(t)
  <2>1. \A j \in Mutexes : /\ users[j] \ {t} \subseteq users'[j]
                           /\ last[j] \in Threads \ {t} => last'[j] = last[j]
    <3>0. last[k] = NoThread /\ users'[k] = users[k] \ {t}
      BY <1>1
    <3>1. last[k] \notin Threads /\ users[k] \ {t} \subseteq users'[k]
      BY <3>0, SlotsAssumption
    <3>2. \A j \in Mutexes \ {k} : users'[j] = users[j] /\ last'[j] = last[j]
      BY <1>1
    <3> QED  BY <3>1, <3>2
  <2> QED  BY <1>0, <2>1 DEF GuestStep
<1>4. ASSUME users[k] = {t}, NEW u \in Threads \ {t} PROVE held[u][k] = 0
  <2>1. ~Host(u, k)
    <3>1. Host(t, k)
      BY <1>0 DEF Host, Idle, NoLoc
    <3> QED  BY <1>0, <3>1, HostUnique
  <2>2. InPlace(u) /\ held[u][k] \in Nat
    BY <1>0, SyncMutexAssumption DEF MInv, MutexTypes, TypeOK
  <2>3. u \notin users[k]
    BY <1>4
  <2>4. CASE loc[u].o # k
    BY <2>1, <2>2, <2>4 DEF Host
  <2>5. CASE loc[u].o = k
    BY <1>0, <2>1, <2>2, <2>3, <2>5, SyncMutexAssumption DEF InPlace, Idle, NoLoc, Locking,
         Unlocking, Waits, Waking, Making, Host
  <2> QED  BY <2>4, <2>5
<1>5. ASSUME NEW j \in Mutexes PROVE Left(j)'
  <2>1. CASE j # k
    BY <2>1, <1>0, <1>1 DEF Left
  <2>2. CASE j = k
    BY <2>2, <1>0, <1>1, <1>4 DEF Left
  <2> QED  BY <2>1, <2>2
<1> QED  BY <1>0, <1>2, <1>3, <1>5, SettleStep

\* A mutex is made known to the threads that will use it.
LEMMA PublishStep ==
  ASSUME MInv, NEW t \in Threads, NEW k \in Mutexes, Publish(t, k)
  PROVE  MInv'
<1>0. /\ MutexTypes /\ pc[t] = "idle" /\ last[k] = t
      /\ UNCHANGED <<slots, pc, loc, typeOf, held>> /\ UNCHANGED owes
      /\ users' = [users EXCEPT ![k] = Threads] /\ last' = [last EXCEPT ![k] = NoThread]
      /\ cond' = [c \in Conds |-> cond[c] /\ MutexOf[c] # k]
      /\ \A j \in Mutexes : Left(j)
  BY DEF MInv, Publish, Alone, At
<1>1. /\ users' \in [Mutexes -> SUBSET Threads] /\ last' \in [Mutexes -> Threads \cup {NoThread}]
      /\ cond' \in [Conds -> BOOLEAN]
  BY <1>0 DEF MutexTypes
<1>2. Settles(t) /\ Others(t) /\ MutexTypes'
  BY <1>0, <1>1, GuestSettles DEF MutexTypes
<1>3. GuestStep(t)
  <2>1. \A j \in Mutexes : /\ users[j] \ {t} \subseteq users'[j]
                           /\ last[j] \in Threads \ {t} => last'[j] = last[j]
    BY <1>0 DEF MutexTypes
  <2>2. \A c \in Conds : cond'[c] => cond[c]
    BY <1>0
  <2> QED  BY <1>0, <2>1, <2>2 DEF GuestStep
<1>4. \A j \in Mutexes : Left(j)'
  BY <1>0 DEF Left, MutexTypes
<1> QED  BY <1>0, <1>2, <1>3, <1>4, SettleStep

-----------------------------------------------------------------------------
(***************************************************************************)
(* Destroy and init, by the last user of a mutex.                           *)
(***************************************************************************)
\* Nobody but the last user of k is in a call on k or on a condition variable of k.
LEMMA NobodyElse ==
  ASSUME MInv, NEW k \in Mutexes, NEW t \in Threads, last[k] = t,
         NEW u \in Threads \ {t}
  PROVE  /\ loc[u].o # k /\ held[u][k] = 0 /\ ~Host(u, k)
         /\ \A i \in Indices : slots[i].key = k \/ (slots[i].key \in Conds /\ MutexOf[slots[i].key] = k)
              => loc[u].s # i /\ loc[u].c # i
<1>1. users[k] = {} /\ held[u][k] = 0 /\ InPlace(u) /\ k # NoObject
  BY SyncMutexAssumption, SlotsAssumption DEF MInv, Left
<1>2. k \notin Conds /\ NoObject \notin Conds
  BY SyncMutexAssumption, SlotsAssumption
<1>3. CASE Idle(u)
  BY <1>1, <1>2, <1>3 DEF Idle, NoLoc, Host, Indices
<1>4. CASE Locking(u)
  BY <1>1, <1>2, <1>4, SyncMutexAssumption DEF Locking, HasSlot, Host, Indices
<1>5. CASE Unlocking(u)
  BY <1>1, <1>2, <1>5, SyncMutexAssumption DEF Unlocking, HasSlot, Host, Indices
<1>6. CASE Waits(u)
  <2>1. loc[u].o # k
    BY <1>1, <1>6 DEF Waits
  <2>2. loc[u].s # 0 => slots[loc[u].s].key = loc[u].o /\ loc[u].o \in Mutexes
    BY <1>6 DEF Waits, HasSlot
  <2>3. loc[u].c # 0 => slots[loc[u].c].key \in Conds /\ MutexOf[slots[loc[u].c].key] = loc[u].o
    BY <1>6 DEF Waits, WaitsFor
  <2>4. 0 \notin Indices
    BY DEF Indices
  <2> QED  BY <1>1, <1>2, <2>1, <2>2, <2>3, <2>4, SyncMutexAssumption DEF Host
<1>7. CASE Waking(u)
  BY <1>1, <1>2, <1>7, SyncMutexAssumption DEF Waking, HasSlot, Host, Indices
<1>8. CASE Making(u)
  BY <1>1, <1>2, <1>8, SyncMutexAssumption DEF Making, HasSlot, Host, Indices
<1> QED  BY <1>1, <1>3, <1>4, <1>5, <1>6, <1>7, <1>8 DEF InPlace

\* The invariant is that of each thread, slot and mutex.
LEMMA AllSound ==
  ASSUME MutexTypes', OneSlotEach', NormalOnce', \A i \in Indices : Detecting(i)',
         \A k \in Mutexes : Left(k)', \A u \in Threads : Sound(u)'
  PROVE  MInv'
<1>1. \A u \in Threads : InPlace(u)' /\ Hosts(u)' /\ OwnerOwns(u)' /\ NoMissed(u)'
  BY DEF Sound
<1>2. NoMissedSignal'
  BY <1>1 DEF NoMissed, NoMissedSignal
<1> QED  BY <1>1, <1>2 DEF MInv, Indices

\* Destroy clears the slot, and nobody is left who would miss it.
LEMMA DestroyStep ==
  ASSUME MInv, NEW t \in Threads, NEW o \in Objects,
         Destroy(t, o), ~UNCHANGED vars
  PROVE  MInv'
<1>k. PICK k, s : k = (IF o \in Conds THEN MutexOf[o] ELSE o) /\ s = SlotOf(o)
  OBVIOUS
<1>0. /\ MutexTypes /\ OneSlotEach /\ NormalOnce /\ k \in Mutexes /\ pc[t] = "idle" /\ Idle(t)
      /\ last[k] = t /\ held[t][k] = 0 /\ UNCHANGED <<pc, loc>> /\ t # NoThread
      /\ UNCHANGED <<typeOf, held, users, last, cond, owes>>
      /\ o = k \/ (o \in Conds /\ MutexOf[o] = k)
      /\ NoObject \notin Objects /\ Mutexes \subseteq Objects
  BY <1>k, WhereIs, SyncMutexAssumption, SlotsAssumption DEF MInv, Destroy, Alone, At, guest
<1>1. /\ s \in Indices /\ slots[s].key = o
      /\ slots' = [slots EXCEPT ![s].key = NoObject]
  BY <1>0, <1>k DEF Destroy, ReleaseSlot, Present, SlotOf, vars, guest
<1>2. /\ \A i \in Indices \ {s} : slots'[i] = slots[i] /\ slots[i].key # o
      /\ slots'[s].key = NoObject /\ slots'[s].owner = slots[s].owner
      /\ slots'[s].known = slots[s].known /\ slots'[s].type = slots[s].type
      /\ slots' \in [Indices -> SlotRecs]
  <2>1. slots \in [Indices -> SlotRecs]
    BY <1>0 DEF MutexTypes, TypeOK, SlotRecs
  <2>2. \A i \in Indices \ {s} : slots[i].key # o
    BY <1>0, <1>1 DEF OneSlotEach
  <2> QED  BY <1>1, <2>1, <2>2 DEF SlotRecs
<1>3. MutexTypes'
  BY <1>0, <1>2 DEF MutexTypes, TypeOK, SlotRecs, Indices
<1>4. Others(t)
  BY <1>0 DEF Others
<1>5. \A i \in Indices : Kept(t, i) \/ Deserted(t, i)
  <2> SUFFICES ASSUME NEW i \in Indices PROVE Kept(t, i) \/ Deserted(t, i)
    OBVIOUS
  <2>1. CASE i # s
    BY <2>1, <1>2 DEF Kept
  <2>2. CASE i = s
    <3>1. ASSUME NEW u \in Threads \ {t}
          PROVE  loc[u].s # s /\ loc[u].c # s /\ (slots[s].key \in Mutexes => ~Host(u, slots[s].key))
      BY <1>0, <1>1, NobodyElse, SyncMutexAssumption
    <3> QED  BY <2>2, <3>1, <1>2 DEF Deserted
  <2> QED  BY <2>1, <2>2
<1>6. GuestStep(t)
  <2>1. \A c \in Conds : cond'[c] => cond[c]
    BY <1>0
  <2> QED  BY <1>0, <2>1 DEF GuestStep
<1>7. \A u \in Threads \ {t} : Sound(u)'
  BY <1>0, <1>3, <1>4, <1>5, <1>6, OthersSound
<1>8. \A j \in Mutexes : /\ Host(t, j)' <=> held[t][j] > 0
                         /\ Host(t, j) <=> held[t][j] > 0
                         /\ Owns(t, j) <=> Owns(t, j)'
                         /\ Depth(t, j) = Depth(t, j)'
  BY <1>0 DEF Idle, NoLoc, Host, Owns, Depth
<1>9. Sound(t)'
  <2>1. InPlace(t)' /\ NoMissed(t)'
    BY <1>0 DEF InPlace, Idle, NoMissed
  <2>2. Hosts(t)'
    <3> SUFFICES ASSUME NEW j \in Mutexes, Host(t, j)' PROVE \E i \in Indices : HostAt(t, j, i)'
      BY DEF Hosts, Indices
    <3>1. PICK i \in Indices : HostAt(t, j, i)
      BY <1>8 DEF MInv, Hosts
    <3>2. i # s
      BY <1>0, <1>1, <1>8, <3>1, SyncMutexAssumption DEF HostAt
    <3>3. HostAt(t, j, i)'
      BY <1>0, <1>2, <1>8, <3>1, <3>2 DEF HostAt
    <3> QED  BY <3>3
  <2>3. OwnerOwns(t)'
    <3> SUFFICES ASSUME NEW i \in Indices, NEW j \in Mutexes, slots'[i].owner = t, slots'[i].key = j
                 PROVE  Owns(t, j)'
      BY DEF OwnerOwns, Indices
    <3>1. slots[i].owner = t /\ slots[i].key = j
      BY <1>0, <1>2
    <3> QED  BY <3>1, <1>8 DEF MInv, OwnerOwns
  <2> QED  BY <2>1, <2>2, <2>3 DEF Sound
<1>10. OneSlotEach'
  BY <1>0, <1>2 DEF OneSlotEach, Indices
<1>11. \A i \in Indices : Detecting(i)'
  <2> SUFFICES ASSUME NEW i \in Indices PROVE Detecting(i)'
    OBVIOUS
  <2>1. Detecting(i)
    BY DEF MInv
  <2>2. CASE i # s
    BY <2>1, <2>2, <1>0, <1>2 DEF Detecting
  <2>3. CASE i = s
    BY <2>1, <2>3, <1>0, <1>2 DEF Detecting
  <2> QED  BY <2>2, <2>3
<1>12. NormalOnce' /\ \A j \in Mutexes : Left(j)'
  BY <1>0, LeftKept DEF NormalOnce
<1> QED  BY <1>3, <1>7, <1>9, <1>10, <1>11, <1>12, AllSound

\* Init looks the mutex up and takes the type from the attribute ...
LEMMA MutexInitStep ==
  ASSUME MInv, NEW t \in Threads, NEW k \in Mutexes,
         MutexInit(t, k)
  PROVE  MInv'
<1>0. /\ MutexTypes /\ OneSlotEach /\ NormalOnce /\ k \in Objects /\ pc[t] = "idle" /\ Idle(t)
      /\ last[k] = t /\ held[t][k] = 0 /\ t # NoThread /\ k # NoObject /\ NoObject \notin Mutexes
      /\ UNCHANGED <<held, users, last, cond, owes>>
  BY WhereIs, SyncMutexAssumption, SlotsAssumption DEF MInv, MutexInit, Alone, At
<1>1. PICK i \in Indices : GetSlot(k, i) /\ Holding(t, "init", k, i, "init")
  BY DEF MutexInit
<1>t. PICK ty \in Types : typeOf' = [typeOf EXCEPT ![k] = ty]
  BY DEF MutexInit
<1>l. PICK l : l = [op |-> "init", o |-> k, s |-> i, c |-> 0]
  OBVIOUS
<1>2. /\ l \in LocRecs /\ pc' = [pc EXCEPT ![t] = "init"] /\ loc' = [loc EXCEPT ![t] = l]
      /\ l.o = k /\ l.s = i /\ l.c = 0 /\ l.op = "init"
  BY <1>0, <1>1, <1>l, SlotsAssumption DEF Goto, Holding, LocRecs, Indices
<1>3. /\ pc'[t] = "init" /\ loc'[t] = l /\ typeOf' \in [Mutexes -> Types]
      /\ \A j \in Mutexes \ {k} : typeOf'[j] = typeOf[j]
  BY <1>0, <1>2, <1>t DEF MutexTypes, TypeOK
<1>4. /\ slots'[i].key = k /\ slots' \in [Indices -> SlotRecs]
      /\ \/ UNCHANGED slots
         \/ Given(i, k) /\ \A j \in Indices \ {i} : slots'[j] = slots[j]
  BY <1>0, <1>1, GetSlotIs
<1>5. MutexTypes'
  BY <1>0, <1>2, <1>3, <1>4 DEF MutexTypes, TypeOK, SlotRecs, LocRecs, Indices
<1>6. Others(t)
  BY <1>0, <1>2 DEF Others, MutexTypes, TypeOK
<1>7. GuestStep(t)
  <2>1. \A c \in Conds : cond'[c] => cond[c]
    BY <1>0
  <2> QED  BY <1>0, <2>1 DEF GuestStep
<1>8. \A u \in Threads \ {t} : loc[u].o # k /\ held[u][k] = 0
  BY <1>0, NobodyElse
<1>9. \A u \in Threads \ {t} : Sound(u)'
  <2>1. \A j \in Indices : Kept(t, j) \/ \E o \in Objects : Given(j, o)
    <3>1. CASE UNCHANGED slots
      BY <3>1 DEF Kept
    <3>2. CASE Given(i, k) /\ \A j \in Indices \ {i} : slots'[j] = slots[j]
      BY <3>2, <1>0 DEF Kept
    <3> QED  BY <3>1, <3>2, <1>4
  <2>2. \A j \in Mutexes : \/ typeOf'[j] = typeOf[j]
                           \/ \A u \in Threads \ {t} : loc[u].o # j /\ held[u][j] = 0
    BY <1>3, <1>8
  <2> QED  BY <1>5, <1>6, <1>7, <2>1, <2>2, OthersSound
<1>10. ~Host(t, k)' /\ ~Owns(t, k)
  BY <1>0, <1>2, <1>3 DEF Idle, NoLoc, Host, Owns, Nesting
<1>11. \A j \in Mutexes \ {k} : /\ Host(t, j)' <=> Host(t, j)
                                /\ Owns(t, j)' <=> Owns(t, j)
                                /\ Depth(t, j)' = Depth(t, j)
  BY <1>0, <1>2, <1>3 DEF Idle, NoLoc, Host, Owns, Depth
<1>12. Sound(t)'
  <2>1. NoMissed(t)'
    BY <1>3 DEF NoMissed
  <2>2. Hosts(t)'
    <3> SUFFICES ASSUME NEW j \in Mutexes, Host(t, j)' PROVE \E n \in Indices : HostAt(t, j, n)'
      BY DEF Hosts, Indices
    <3>0. j # k /\ j # NoObject
      BY <1>0, <1>10
    <3>1. PICK n \in Indices : HostAt(t, j, n)
      BY <1>11, <3>0 DEF MInv, Hosts
    <3>2. slots'[n] = slots[n]
      BY <1>4, <3>0, <3>1 DEF HostAt, Given
    <3>3. HostAt(t, j, n)'
      BY <1>3, <1>11, <3>0, <3>1, <3>2 DEF HostAt
    <3> QED  BY <3>3
  <2>3. OwnerOwns(t)'
    <3> SUFFICES ASSUME NEW n \in Indices, NEW j \in Mutexes, slots'[n].owner = t, slots'[n].key = j
                 PROVE  Owns(t, j)'
      BY DEF OwnerOwns, Indices
    <3>1. slots[n].owner = t /\ slots[n].key = j
      <4>1. CASE UNCHANGED slots
        BY <4>1
      <4>2. CASE Given(i, k) /\ \A m \in Indices \ {i} : slots'[m] = slots[m]
        BY <4>2, <1>0 DEF Given, Fresh
      <4> QED  BY <4>1, <4>2, <1>4
    <3>2. Owns(t, j)
      BY <3>1 DEF MInv, OwnerOwns
    <3> QED  BY <3>2, <1>10, <1>11
  <2>4. InPlace(t)'
    <3>1. HasSlot(t)'
      BY <1>2, <1>3, <1>4 DEF HasSlot, Indices
    <3>2. Making(t)'
      BY <1>0, <1>2, <1>3, <3>1 DEF Making
    <3> QED  BY <3>2 DEF InPlace
  <2> QED  BY <2>1, <2>2, <2>3, <2>4 DEF Sound
<1>13. OneSlotEach'
  <2>1. CASE UNCHANGED slots
    BY <2>1, <1>0 DEF OneSlotEach, Indices
  <2>2. CASE Given(i, k) /\ \A m \in Indices \ {i} : slots'[m] = slots[m]
    BY <2>2, <1>0 DEF OneSlotEach, Given, Present, Fresh, Indices
  <2> QED  BY <2>1, <2>2, <1>4
<1>14. \A n \in Indices : Detecting(n)'
  <2> SUFFICES ASSUME NEW n \in Indices PROVE Detecting(n)'
    OBVIOUS
  <2>1. Detecting(n)
    BY DEF MInv
  <2>2. \A j : (\E u \in Threads : pc[u] = "init" /\ loc[u].o = j)
             => \E u \in Threads : pc'[u] = "init" /\ loc'[u].o = j
    BY <1>0, <1>6 DEF Others
  <2>3. \E u \in Threads : pc'[u] = "init" /\ loc'[u].o = k
    BY <1>2, <1>3
  <2>4. CASE slots'[n] = slots[n]
    BY <2>1, <2>2, <2>3, <2>4, <1>3 DEF Detecting
  <2>5. CASE n = i /\ Given(i, k)
    BY <2>5 DEF Detecting, Given, Fresh
  <2> QED  BY <2>4, <2>5, <1>4
<1>15. NormalOnce'
  <2> SUFFICES ASSUME NEW u \in Threads, NEW j \in Mutexes, typeOf'[j] = "normal"
               PROVE  held[u][j] <= 1
    BY <1>0 DEF NormalOnce
  <2>1. CASE j = k
    BY <2>1, <1>0, <1>8
  <2>2. CASE j # k
    BY <2>2, <1>0, <1>3 DEF NormalOnce
  <2> QED  BY <2>1, <2>2
<1>16. \A j \in Mutexes : Left(j)'
  BY <1>0, LeftKept
<1> QED  BY <1>5, <1>9, <1>12, <1>13, <1>14, <1>15, <1>16, AllSound

\* ... and writes it into the slot.
LEMMA MutexInitStoreStep ==
  ASSUME MInv, NEW t \in Threads, MutexInitStore(t)
  PROVE  MInv'
<1>k. PICK k, s : k = loc[t].o /\ s = loc[t].s
  OBVIOUS
<1>0. /\ MutexTypes /\ OneSlotEach /\ NormalOnce /\ pc[t] = "init" /\ Making(t) /\ k \in Mutexes
      /\ s \in Indices /\ slots[s].key = k /\ last[k] = t /\ held[t][k] = 0 /\ t # NoThread
      /\ k # NoObject /\ NoObject \notin Mutexes /\ Leave(t) /\ k = loc[t].o
      /\ UNCHANGED <<typeOf, held, users, last, cond, owes>>
  BY <1>k, WhereIs, SyncMutexAssumption, SlotsAssumption DEF MInv, MutexInitStore, At, Making,
       HasSlot, guest
<1>r. PICK r : r = [slots[s] EXCEPT !.type = typeOf[k], !.known = TRUE, !.owner = NoThread, !.depth = 0]
  OBVIOUS
<1>1. slots' = [slots EXCEPT ![s] = r]
  BY <1>k, <1>r DEF MutexInitStore
<1>2. /\ r \in SlotRecs /\ r.key = k /\ r.type = typeOf[k] /\ r.known /\ r.owner = NoThread
  <2>1. slots[s] \in SlotRecs /\ typeOf[k] \in {"normal", "recursive", "errorcheck"}
    BY <1>0, SyncMutexAssumption DEF MutexTypes, TypeOK, SlotRecs
  <2>2. 0 \in 0..MaxDepth
    BY SyncMutexAssumption
  <2> QED  BY <1>0, <1>r, <2>1, <2>2 DEF SlotRecs
<1>3. /\ slots'[s] = r /\ slots' \in [Indices -> SlotRecs]
      /\ \A i \in Indices \ {s} : slots'[i] = slots[i] /\ slots[i].key # k
  <2>1. slots \in [Indices -> SlotRecs]
    BY <1>0 DEF MutexTypes, TypeOK, SlotRecs
  <2>2. \A i \in Indices \ {s} : slots[i].key # k
    BY <1>0 DEF OneSlotEach
  <2> QED  BY <1>0, <1>1, <1>2, <2>1, <2>2
<1>4. pc'[t] = "idle" /\ loc'[t] = NoLoc /\ NoLoc \in LocRecs
      /\ pc' = [pc EXCEPT ![t] = "idle"] /\ loc' = [loc EXCEPT ![t] = NoLoc]
  BY <1>0, SlotsAssumption DEF Leave, Goto, MutexTypes, TypeOK, NoLoc, LocRecs
<1>5. MutexTypes'
  BY <1>0, <1>3, <1>4 DEF MutexTypes, TypeOK, SlotRecs, LocRecs, Indices
<1>6. Others(t)
  BY <1>0, <1>4 DEF Others, MutexTypes, TypeOK
<1>7. GuestStep(t)
  <2>1. \A c \in Conds : cond'[c] => cond[c]
    BY <1>0
  <2> QED  BY <1>0, <2>1 DEF GuestStep
<1>8. \A u \in Threads \ {t} : Sound(u)'
  <2>1. \A i \in Indices : Kept(t, i) \/ Deserted(t, i)
    <3> SUFFICES ASSUME NEW i \in Indices PROVE Kept(t, i) \/ Deserted(t, i)
      OBVIOUS
    <3>1. CASE i # s
      BY <3>1, <1>3 DEF Kept
    <3>2. CASE i = s
      <4>1. ASSUME NEW u \in Threads \ {t} PROVE loc[u].s # s /\ loc[u].c # s /\ ~Host(u, k)
        BY <1>0, NobodyElse
      <4> QED  BY <3>2, <4>1, <1>0, <1>2, <1>3 DEF Deserted
    <3> QED  BY <3>1, <3>2
  <2> QED  BY <1>0, <1>5, <1>6, <1>7, <2>1, OthersSound
<1>9. \A j \in Mutexes : Host(t, j)' => j # k
  BY <1>0, <1>4 DEF NoLoc, Host
<1>10. \A j \in Mutexes \ {k} : /\ Host(t, j)' => \E i \in Indices : HostAt(t, j, i)'
                                /\ \A i \in Indices : slots'[i].owner = t /\ slots'[i].key = j => Owns(t, j)'
  <2> SUFFICES ASSUME NEW j \in Mutexes \ {k}
               PROVE  /\ Host(t, j)' => \E i \in Indices : HostAt(t, j, i)'
                      /\ \A i \in Indices : slots'[i].owner = t /\ slots'[i].key = j => Owns(t, j)'
    OBVIOUS
  <2>1. \A i \in Indices : slots'[i] = slots[i] \/ (slots[i].key # j /\ slots'[i].key # j)
    BY <1>0, <1>2, <1>3
  <2>2. loc[t].o # j /\ loc'[t].o # j /\ held'[t][j] = held[t][j] /\ typeOf'[j] = typeOf[j]
    BY <1>0, <1>4 DEF NoLoc
  <2> QED  BY <2>1, <2>2, Elsewhere
<1>11. Sound(t)'
  <2>1. InPlace(t)' /\ NoMissed(t)'
    BY <1>4 DEF InPlace, Idle, NoMissed
  <2>2. Hosts(t)'
    BY <1>9, <1>10 DEF Hosts, Indices
  <2>3. OwnerOwns(t)'
    <3> SUFFICES ASSUME NEW i \in Indices, NEW j \in Mutexes, slots'[i].owner = t, slots'[i].key = j
                 PROVE  Owns(t, j)'
      BY DEF OwnerOwns, Indices
    <3>1. j # k
      BY <1>0, <1>2, <1>3
    <3> QED  BY <3>1, <1>10
  <2> QED  BY <2>1, <2>2, <2>3 DEF Sound
<1>12. OneSlotEach'
  BY <1>0, <1>2, <1>3 DEF OneSlotEach, Indices
<1>13. \A i \in Indices : Detecting(i)'
  <2> SUFFICES ASSUME NEW i \in Indices PROVE Detecting(i)'
    OBVIOUS
  <2>1. Detecting(i)
    BY DEF MInv
  <2>2. CASE i = s
    BY <2>2, <1>0, <1>2, <1>3 DEF Detecting
  <2>3. CASE i # s
    <3>1. \A u \in Threads : pc[u] = "init" /\ loc[u].o = slots[i].key
                               => pc'[u] = "init" /\ loc'[u].o = slots[i].key
      BY <2>3, <1>0, <1>3, <1>6 DEF Others
    <3> QED  BY <2>1, <2>3, <3>1, <1>0, <1>3 DEF Detecting
  <2> QED  BY <2>2, <2>3
<1>14. NormalOnce' /\ \A j \in Mutexes : Left(j)'
  BY <1>0, LeftKept DEF NormalOnce
<1> QED  BY <1>5, <1>8, <1>11, <1>12, <1>13, <1>14, AllSound

-----------------------------------------------------------------------------
(***************************************************************************)
(* The invariant, and what it is for.                                       *)
(***************************************************************************)

\* The calls that return an error, or without the lock.
LEMMA ReturnSteps ==
  ASSUME MInv, NEW t \in Threads,
         \/ OwnerIsMe(t) /\ Slot(t).type = "errorcheck"
         \/ TakeBusy(t) \/ UnlockFails(t) \/ WaitExpired(t) \/ WaitFails(t)
  PROVE  MInv'
<1>1. /\ pc[t] \in {"owner", "take", "bridge", "unlock"} /\ Leave(t)
      /\ UNCHANGED <<slots, guest>>
  BY DEF OwnerIsMe, TakeBusy, UnlockFails, WaitExpired, WaitFails, At, guest
<1>2. InCall(t) /\ Known(t)
  BY <1>1, WhereIs DEF InCall, Locking, Unlocking, Waits, Nesting
<1> QED  BY <1>1, <1>2, ReturnsOnly

\* Every step inside a call.
LEMMA StepStep ==
  ASSUME MInv, NEW t \in Threads, Step(t)
  PROVE  MInv'
<1>1. CASE Detect(t) \/ OwnerIsMe(t) \/ OwnerIsNotMe(t) \/ Take(t) \/ TakeBusy(t) \/ Own(t)
  BY <1>1, DetectStep, OwnerDeepens, OwnerIsNotMeStep, TakeNormal, TakeOther, OwnStep, ReturnSteps
<1>2. CASE UnlockNormal(t) \/ UnlockFails(t) \/ UnlockInner(t) \/ UnlockOuter(t) \/ Release(t)
  BY <1>2, UnlockNormalStep, UnlockInnerStep, UnlockOuterStep, ReleaseStep, ReturnSteps
<1>3. CASE WaitSecond(t) \/ WaitExpired(t) \/ WaitFails(t) \/ WaitOwned(t) \/ Sleep(t)
  BY <1>3, WaitSecondStep, WaitOwnedStep, SleepStep, ReturnSteps
<1>4. CASE WaitNested(t) \/ NestedLock(t) \/ NestedSleep(t) \/ TimesOut(t)
  BY <1>4, WaitNestedStep, CondSteps
<1>5. CASE Retake(t) \/ Reown(t) \/ NestedRetake(t) \/ NestedUnlock(t) \/ Deepen(t)
  BY <1>5, RetakeNormal, RetakeOther, ReownStep, DeepenStep, CondSteps
<1>6. CASE Wake(t) \/ MutexInitStore(t)
  BY <1>6, WakeStep, MutexInitStoreStep
<1> QED  BY <1>1, <1>2, <1>3, <1>4, <1>5, <1>6 DEF Step

\* A stuttering step.
LEMMA Stutters ==
  ASSUME MInv, UNCHANGED vars
  PROVE  MInv'
<1>1. UNCHANGED <<slots, pc, loc, typeOf, held, users, last>> /\ UNCHANGED <<cond, owes>>
  BY DEF vars, guest
<1>2. (MutexTypes /\ OneSlotEach /\ NormalOnce)'
  BY <1>1 DEF MInv, MutexTypes, TypeOK, OneSlotEach, NormalOnce
<1>3. \A i \in Indices : Detecting(i)'
  BY <1>1 DEF MInv, Detecting
<1>4. \A k \in Mutexes : Left(k)'
  BY <1>1 DEF MInv, Left
<1>5. ASSUME NEW u \in Threads PROVE InPlace(u)' /\ Hosts(u)' /\ OwnerOwns(u)'
  <2>1. InPlace(u) /\ Hosts(u) /\ OwnerOwns(u)
    BY DEF MInv
  <2>2. InPlace(u)'
    BY <1>1, <2>1 DEF InPlace, Idle, Locking, Unlocking, Waits, Waking, Making, WaitsFor,
                      HasSlot, Known, Host
  <2>3. Hosts(u)'
    BY <1>1, <2>1 DEF Hosts, HostAt, Host, Owns, Depth
  <2>4. OwnerOwns(u)'
    BY <1>1, <2>1 DEF OwnerOwns, Host, Owns
  <2> QED  BY <2>2, <2>3, <2>4
<1>6. NoMissedSignal'
  BY <1>1 DEF MInv, NoMissedSignal
<1> QED  BY <1>2, <1>3, <1>4, <1>5, <1>6 DEF MInv

\* Every call's first step, and the guest's own.
LEMMA CallStep ==
  ASSUME MInv, NEW t \in Threads, Call(t), ~UNCHANGED vars
  PROVE  MInv'
<1>1. ASSUME NEW k \in Mutexes,
             \/ Lock(t, k, "lock") \/ Lock(t, k, "trylock") \/ Unlock(t, k)
             \/ MutexInit(t, k) \/ Drop(t, k) \/ Publish(t, k)
      PROVE  MInv'
  BY <1>1, LockStep, UnlockCall, MutexInitStep, DropStep, PublishStep
<1>2. ASSUME NEW c \in Conds,
             \/ Wait(t, c, "wait") \/ Wait(t, c, "timedwait")
             \/ Awaken(t, c, "signal") \/ Awaken(t, c, "broadcast")
             \/ CondInit(t, c) \/ SetCond(t, c) \/ ClearCond(t, c)
      PROVE  MInv'
  BY <1>2, WaitCall, AwakenStep, CondInitStep, SetCondStep
<1>3. ASSUME NEW o \in Objects, Destroy(t, o) PROVE MInv'
  BY <1>3, DestroyStep
<1> QED  BY <1>1, <1>2, <1>3 DEF Call

\* Initially every slot is unused and every thread idle.
LEMMA Starts ==
  ASSUME Init
  PROVE  MInv
<1>1. MutexTypes
  <2>1. \A o \in {NoObject} : Fresh(o) \in SlotRecs /\ NoLoc \in LocRecs
    BY SyncMutexAssumption, SlotsAssumption DEF Fresh, NoLoc, SlotRecs, LocRecs
  <2>2. TypeOK
    BY <2>1, SyncMutexAssumption DEF Init, SlotsInit, TypeOK, SlotRecs, LocRecs
  <2> QED  BY <2>2 DEF Init, MutexTypes
<1>2. \A i \in Indices : slots[i] = Fresh(NoObject)
  BY DEF Init, SlotsInit
<1>3. OneSlotEach /\ NormalOnce /\ (\A i \in Indices : Detecting(i)) /\ \A k \in Mutexes : Left(k)
  BY <1>2, SyncMutexAssumption, SlotsAssumption DEF Init, OneSlotEach, NormalOnce, Detecting,
                                                    Left, Fresh
<1>4. ASSUME NEW u \in Threads PROVE InPlace(u) /\ Hosts(u) /\ OwnerOwns(u)
  <2>1. Idle(u) /\ \A k \in Mutexes : held[u][k] = 0 /\ loc[u].o # k
    BY SyncMutexAssumption, SlotsAssumption DEF Init, Idle, NoLoc
  <2> QED  BY <2>1, <1>2, SlotsAssumption DEF InPlace, Hosts, Host, OwnerOwns, Fresh
<1>5. NoMissedSignal
  BY DEF Init, NoMissedSignal
<1> QED  BY <1>1, <1>3, <1>4, <1>5 DEF MInv

\* Who has come out of lock is the mutex's owner in its slot.
LEMMA InvHolders ==
  ASSUME MInv
  PROVE  HoldersOwnSlot
<1> SUFFICES ASSUME NEW t \in Threads, NEW k \in Mutexes, Inside(t, k)
             PROVE  /\ Present(k)
                    /\ LET s == slots[SlotOf(k)] IN
                         /\ s.m = t /\ s.type = typeOf[k]
                         /\ s.type # "normal" => s.owner = t /\ s.depth = held[t][k]
  BY DEF HoldersOwnSlot
<1>1. k # NoObject /\ OneSlotEach /\ InPlace(t) /\ held[t][k] > 0
  BY SyncMutexAssumption, SlotsAssumption DEF MInv, Inside
<1>2. Host(t, k) /\ Owns(t, k) /\ Depth(t, k) = held[t][k]
  <2>1. CASE loc[t].o # k
    BY <2>1, <1>1 DEF Host, Owns, Depth
  <2>2. CASE loc[t].o = k
    <3>1. Locking(t)
      BY <2>2, <1>1, SyncMutexAssumption DEF Inside, InPlace, Idle, NoLoc, Unlocking, Waits,
                                             Waking, Making
    <3>2. pc[t] \in {"detect", "owner"}
      BY <2>2, <1>1, <3>1 DEF Locking
    <3> QED  BY <2>2, <3>2, <1>1 DEF Host, Owns, Depth, Nesting
  <2> QED  BY <2>1, <2>2
<1>3. PICK i \in Indices : HostAt(t, k, i)
  BY <1>2 DEF MInv, Hosts
<1>4. Present(k) /\ SlotOf(k) = i
  BY <1>1, <1>3 DEF HostAt, Present, SlotOf, OneSlotEach
<1> QED  BY <1>2, <1>3, <1>4 DEF HostAt

\* A call's slot is still its object's.
LEMMA InvNoStale ==
  ASSUME MInv
  PROVE  NoStaleSlot
<1>1. \A i, j \in Indices : slots[i].key = slots[j].key /\ slots[i].key # NoObject => i = j
  BY DEF MInv, OneSlotEach
<1>2. ASSUME NEW t \in Threads
      PROVE  /\ loc[t].s # 0 => slots[loc[t].s].key = loc[t].o
             /\ loc[t].c # 0 => slots[loc[t].c].key \in {c \in Conds : MutexOf[c] = loc[t].o}
  BY DEF MInv, InPlace, Idle, NoLoc, Locking, Unlocking, Waits, Waking, Making, HasSlot, WaitsFor
<1> QED  BY <1>1, <1>2 DEF NoStaleSlot

\* The invariant is inductive.
LEMMA NextKeeps ==
  ASSUME MInv, [Next]_vars
  PROVE  MInv'
<1>1. CASE UNCHANGED vars
  BY <1>1, Stutters
<1>2. ASSUME ~UNCHANGED vars, NEW t \in Threads, Step(t) \/ Call(t) PROVE MInv'
  BY <1>2, StepStep, CallStep
<1> QED  BY <1>1, <1>2 DEF Next

(***************************************************************************)
(* MInv holds throughout: Starts, and NextKeeps for every step.             *)
(***************************************************************************)
THEOREM MutexInvariant == Spec => []MInv
<1>1. Init => MInv
  BY Starts
<1>2. MInv /\ [Next]_vars => MInv'
  BY NextKeeps
<1> QED  BY <1>1, <1>2, PTL DEF Spec

(***************************************************************************)
(* Every slot keeps its shape, and every call its place, its object and its *)
(* two slots.                                                               *)
(***************************************************************************)
THEOREM TypeCorrect == Spec => []TypeOK
<1>1. MInv => TypeOK
  BY DEF MInv, MutexTypes
<1> QED  BY <1>1, MutexInvariant, PTL

(***************************************************************************)
(* Who has locked a mutex (__nx_mutex_lock, or a wait that came back) has   *)
(* its host mutex, and for a recursive or an error-checking one is named as *)
(* its owner, with the depth it locked it to: the unlocked reads of owner   *)
(* and depth never take one thread for another.                             *)
(***************************************************************************)
THEOREM HoldersOwn == Spec => []HoldersOwnSlot
<1> QED  BY InvHolders, MutexInvariant, PTL

(***************************************************************************)
(* An object has one slot at most, and the slot a call found is its         *)
(* object's for as long as the call uses it, although slot_get hands it out  *)
(* after letting g_slots_lock go and slot_release frees slots.              *)
(***************************************************************************)
THEOREM SlotsNeverStale == Spec => []NoStaleSlot
<1> QED  BY InvNoStale, MutexInvariant, PTL

(***************************************************************************)
(* Once a condition is set and who set it has signalled, no thread that     *)
(* waits for it is still asleep in the host's condition variable: also when *)
(* the waiter was just clearing the owner, or waits with the mutex locked   *)
(* more than once.                                                          *)
(***************************************************************************)
THEOREM SignalsReach == Spec => []NoMissedSignal
<1>1. MInv => NoMissedSignal
  BY DEF MInv
<1> QED  BY <1>1, MutexInvariant, PTL
=============================================================================
