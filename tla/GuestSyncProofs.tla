---------------------------- MODULE GuestSyncProofs ----------------------------
(***************************************************************************)
(* What guest threads synchronise with.  For any number of threads, words   *)
(* and slots and any hash: the futexes count their waiters exactly, and a   *)
(* wake of a changed word misses none.  For any set of handles: a guest     *)
(* thread's object is freed exactly once, after the thread's end, and never *)
(* under a join.                                                            *)
(***************************************************************************)
EXTENDS Futex, GuestThreads, FiniteSetTheorems, TLAPS

-----------------------------------------------------------------------------
(***************************************************************************)
(* Futexes.                                                                 *)
(***************************************************************************)
\* TypeOK without the uniqueness of keys, and before the waiters are known not to be negative.
FutexTypes ==
  /\ word \in [Words -> Values]
  /\ futexes \in [FutexIndices -> [key : Words \cup {NoWord}, m : FutexThreads \cup {Nobody},
                            cv : SUBSET FutexThreads, waiters : Int]]
  /\ futexPc \in [FutexThreads -> {"idle", "lock", "compare", "wait", "asleep", "wake"}]
  /\ futexLoc \in [FutexThreads -> [w : Words \cup {NoWord}, s : 0..NFutexes, val : Nat]]
  /\ owesWake \in [Words -> SUBSET FutexThreads]

Unique == \A i, j \in FutexIndices :
  futexes[i].key = futexes[j].key /\ futexes[i].key # NoWord => i = j

\* The slots before a word's own are used: a search for the word never stops early.
Probing == \A w \in Words : \A i, j \in FutexIndices :
  futexes[i].key = w /\ futexes[j].key = NoWord => Distance(w, i) <= Distance(w, j)

\* A call works on the slot of its word.
Keyed == \A t \in FutexThreads : futexPc[t] # "idle" =>
  futexLoc[t].w \in Words /\ futexLoc[t].s \in FutexIndices /\ futexes[futexLoc[t].s].key = futexLoc[t].w

\* The mutex is held over the comparison and until the thread is asleep.
Locked == \A t \in FutexThreads :
  futexPc[t] \in {"compare", "wait"} => futexes[futexLoc[t].s].m = t

Sleepers == \A i \in FutexIndices :
  \A t \in futexes[i].cv : futexPc[t] = "asleep" /\ futexLoc[t].s = i

Waking == \A t \in FutexThreads :
  futexPc[t] = "wake" => futexLoc[t].val \in {1, Cardinality(FutexThreads)}

\* As NoMissedWake, and for the threads about to sleep.
Warned == \A t \in FutexThreads :
  /\ futexPc[t] = "wait" \/ (futexPc[t] = "asleep" /\ t \in FutexSlot(t).cv)
  /\ word[futexLoc[t].w] # futexLoc[t].val
  => owesWake[futexLoc[t].w] # {}

FutexShape == FutexTypes /\ Unique /\ Probing /\ Keyed /\ Locked /\ Sleepers /\ Waking

FutexIInv == FutexShape /\ WaitersExact /\ Warned

-----------------------------------------------------------------------------
\* From a word's hash each slot has a distance of its own.
LEMMA DistanceTells ==
  ASSUME FutexAssumption, NEW w \in Words, NEW i \in FutexIndices, NEW j \in FutexIndices
  PROVE  Distance(w, i) \in Nat /\ (Distance(w, i) = Distance(w, j) => i = j)
<1>1. Hash[w] \in 0..NFutexes - 1 /\ NFutexes \in Nat
  BY DEF FutexAssumption, FutexIndices
<1> QED  BY <1>1 DEF Distance, FutexIndices

\* The slot a search with create stops at becomes the word's only one.
LEMMA GetSlotShape ==
  ASSUME FutexAssumption, FutexTypes, Unique, Probing,
         NEW w \in Words, NEW i \in FutexIndices, GetFutex(w, i)
  PROVE  Unique' /\ Probing'
         /\ (\A j \in FutexIndices : futexes[j].key # NoWord => futexes'[j] = futexes[j])
<1>1. /\ futexes[i].key \in {w, NoWord}
      /\ \A j \in FutexIndices : futexes[j].key \in {w, NoWord} => Distance(w, i) <= Distance(w, j)
      /\ futexes' = [futexes EXCEPT ![i].key = w]
  BY DEF GetFutex, Finds, Stops
<1>2. \A j \in FutexIndices : futexes'[j].key = IF j = i THEN w ELSE futexes[j].key
  BY <1>1 DEF FutexTypes
<1>3. \A j \in FutexIndices : futexes[j].key = w => j = i
  <2> SUFFICES ASSUME NEW j \in FutexIndices, futexes[j].key = w PROVE j = i
    OBVIOUS
  <2>1. CASE futexes[i].key = w
    BY <2>1 DEF Unique, FutexAssumption
  <2>2. CASE futexes[i].key = NoWord
    <3>1. Distance(w, j) <= Distance(w, i) /\ Distance(w, i) <= Distance(w, j)
      BY <1>1, <2>2 DEF Probing
    <3>2. Distance(w, i) \in Nat /\ Distance(w, j) \in Nat
          /\ (Distance(w, i) = Distance(w, j) => i = j)
      BY DistanceTells
    <3> QED  BY <3>1, <3>2
  <2> QED  BY <1>1, <2>1, <2>2
<1>4. Unique'
  BY <1>2, <1>3 DEF Unique
<1>5. Probing'
  <2> SUFFICES ASSUME NEW v \in Words, NEW k \in FutexIndices, NEW j \in FutexIndices,
                      futexes'[k].key = v, futexes'[j].key = NoWord
               PROVE  Distance(v, k) <= Distance(v, j)
    BY DEF Probing, Distance
  <2>1. j # i /\ futexes[j].key = NoWord
    BY <1>2 DEF FutexAssumption
  <2>2. CASE k = i
    BY <1>1, <1>2, <2>1, <2>2
  <2>3. CASE k # i
    BY <1>2, <2>1, <2>3 DEF Probing
  <2> QED  BY <2>2, <2>3
<1>6. ASSUME NEW j \in FutexIndices, futexes[j].key # NoWord PROVE futexes'[j] = futexes[j]
  BY <1>1, <1>6 DEF FutexTypes
<1> QED  BY <1>4, <1>5, <1>6

\* The word of a call is found: a search with or without create stops at its slot.
LEMMA WaiterFound ==
  ASSUME FutexAssumption, FutexTypes, Unique, Probing, NEW w \in Words, NEW i \in FutexIndices,
         futexes[i].key = w
  PROVE  Finds(w, i)
<1> SUFFICES ASSUME NEW j \in FutexIndices, futexes[j].key \in {w, NoWord}
             PROVE  Distance(w, i) <= Distance(w, j)
  BY DEF Finds, Stops
<1>1. CASE futexes[j].key = w
  BY <1>1, DistanceTells DEF Unique, FutexAssumption
<1>2. CASE futexes[j].key = NoWord
  BY <1>2 DEF Probing
<1> QED  BY <1>1, <1>2

\* Where no key changes, neither does what the keys say.
LEMMA SameKeys ==
  ASSUME Unique, Probing, \A i \in FutexIndices : futexes'[i].key = futexes[i].key
  PROVE  Unique' /\ Probing'
  BY DEF Unique, Probing, Distance

\* A slot whose mutex changes hands is a slot still.
LEMMA HandOver ==
  ASSUME NEW T, NEW S, NEW s \in [S -> [key : Words \cup {NoWord}, m : T, cv : SUBSET FutexThreads,
                                        waiters : Int]],
         NEW i \in S, NEW u \in T
  PROVE  [s EXCEPT ![i].m = u] \in
           [S -> [key : Words \cup {NoWord}, m : T, cv : SUBSET FutexThreads, waiters : Int]]
  OBVIOUS

\* The same where a thread is no longer counted as well.
LEMMA CountDown ==
  ASSUME NEW T, NEW S, NEW s \in [S -> [key : Words \cup {NoWord}, m : T, cv : SUBSET FutexThreads,
                                        waiters : Int]],
         NEW i \in S, NEW u \in T, NEW r,
         r = [s EXCEPT ![i].waiters = @ - 1, ![i].m = u]
  PROVE  /\ r \in [S -> [key : Words \cup {NoWord}, m : T, cv : SUBSET FutexThreads, waiters : Int]]
         /\ \A j \in S : /\ r[j].key = s[j].key /\ r[j].cv = s[j].cv
                         /\ r[j].m = IF j = i THEN u ELSE s[j].m
<1>1. s[i] \in [key : Words \cup {NoWord}, m : T, cv : SUBSET FutexThreads, waiters : Int]
  OBVIOUS
<1> DEFINE less == [s[i] EXCEPT !.waiters = @ - 1]
           new == [less EXCEPT !.m = u]
<1>2. less \in [key : Words \cup {NoWord}, m : T, cv : SUBSET FutexThreads, waiters : Int]
      /\ less.key = s[i].key /\ less.cv = s[i].cv
  BY <1>1
<1>3. r = [s EXCEPT ![i] = new]
  OBVIOUS
<1> HIDE DEF less
<1>4. /\ new \in [key : Words \cup {NoWord}, m : T, cv : SUBSET FutexThreads, waiters : Int]
      /\ new.key = s[i].key /\ new.cv = s[i].cv /\ new.m = u
  BY <1>2
<1> HIDE DEF new
<1>5. \A j \in S : r[j] = IF j = i THEN new ELSE s[j]
  BY <1>3
<1>6. r \in [S -> [key : Words \cup {NoWord}, m : T, cv : SUBSET FutexThreads, waiters : Int]]
  BY <1>3, <1>4
<1> QED  BY <1>4, <1>5, <1>6

\* What the early return of a wait leaves of the slots.
LEMMA InvalidKeeps ==
  ASSUME FutexAssumption, FutexTypes, NEW t \in FutexThreads, futexLoc[t].s \in FutexIndices, WaitInvalid(t)
  PROVE  /\ futexes' \in [FutexIndices -> [key : Words \cup {NoWord}, m : FutexThreads \cup {Nobody},
                                    cv : SUBSET FutexThreads, waiters : Int]]
         /\ \A j \in FutexIndices : /\ futexes'[j].key = futexes[j].key /\ futexes'[j].cv = futexes[j].cv
                                    /\ futexes'[j].m = IF j = futexLoc[t].s THEN Nobody ELSE futexes[j].m
<1>1. futexes' = [futexes EXCEPT ![futexLoc[t].s].waiters = @ - 1, ![futexLoc[t].s].m = Nobody]
  BY DEF WaitInvalid
<1>2. futexes \in [FutexIndices -> [key : Words \cup {NoWord}, m : FutexThreads \cup {Nobody},
                            cv : SUBSET FutexThreads, waiters : Int]]
  BY DEF FutexTypes
<1> HIDE DEF FutexIndices
<1> QED  BY <1>1, <1>2, CountDown

-----------------------------------------------------------------------------
\* Types, unique keys, unbroken probe sequences, and who may be where.
LEMMA ShapeStep ==
  ASSUME FutexAssumption, FutexShape, [FutexNext]_futexVars
  PROVE  FutexShape'
<1> USE DEF FutexAssumption, FutexShape, FutexAt, FutexGoto, FutexLeave, FutexSlot, NoFutexLoc,
            NoSlot
<1>1. CASE UNCHANGED futexVars
  BY <1>1 DEF futexVars, FutexTypes, Unique, Probing, Keyed, Locked, Sleepers, Waking, Distance
<1>2. ASSUME NEW t \in FutexThreads, FutexLock(t) PROVE FutexShape'
  <2>1. Unique' /\ Probing'
    BY <1>2, SameKeys DEF FutexLock, FutexTypes, Keyed
  <2>2. FutexTypes'
    <3>1. futexLoc[t].s \in FutexIndices /\ t \in FutexThreads \cup {Nobody}
      BY <1>2 DEF FutexLock, FutexTypes, Keyed
    <3>2. PICK f : f = [futexes[futexLoc[t].s] EXCEPT !.m = t] /\ futexes' = [futexes EXCEPT ![futexLoc[t].s] = f]
      BY <1>2, <3>1 DEF FutexLock, FutexTypes
    <3>3. f \in [key : Words \cup {NoWord}, m : FutexThreads \cup {Nobody},
                cv : SUBSET FutexThreads, waiters : Int]
      BY <3>1, <3>2 DEF FutexTypes
    <3> QED  BY <1>2, <3>1, <3>2, <3>3 DEF FutexLock, FutexTypes
  <2>3. Keyed' /\ Locked'
    BY <1>2 DEF FutexLock, FutexTypes, Keyed, Locked
  <2>4. Sleepers' /\ Waking'
    BY <1>2 DEF FutexLock, FutexTypes, Keyed, Sleepers, Waking
  <2> QED  BY <2>1, <2>2, <2>3, <2>4
<1>3. ASSUME NEW t \in FutexThreads, WaitDiffers(t) PROVE FutexShape'
  <2>1. Unique' /\ Probing'
    BY <1>3, SameKeys DEF WaitDiffers, FutexTypes, Keyed
  <2>2. FutexTypes'
    <3>1. futexes' = [futexes EXCEPT ![futexLoc[t].s].m = Nobody] /\ futexLoc[t].s \in FutexIndices
      BY <1>3 DEF WaitDiffers, Keyed
    <3>2. futexes' \in [FutexIndices -> [key : Words \cup {NoWord}, m : FutexThreads \cup {Nobody},
                                  cv : SUBSET FutexThreads, waiters : Int]]
      <4> HIDE DEF FutexIndices
      <4> QED  BY <3>1, HandOver, ZenonT(60) DEF FutexTypes
    <3> QED  BY <1>3, <3>2 DEF WaitDiffers, FutexTypes
  <2>3. Keyed' /\ Sleepers' /\ Waking'
    BY <1>3 DEF WaitDiffers, FutexTypes, Keyed, Sleepers, Waking
  <2>4. Locked'
    BY <1>3 DEF WaitDiffers, FutexTypes, Keyed, Locked
  <2> QED  BY <2>1, <2>2, <2>3, <2>4
<1>4. ASSUME NEW t \in FutexThreads, WaitSame(t) PROVE FutexShape'
  <2>1. Unique' /\ Probing'
    BY <1>4, SameKeys DEF WaitSame, FutexTypes, Keyed
  <2>2. FutexTypes' /\ Keyed' /\ Locked' /\ Sleepers' /\ Waking'
    BY <1>4 DEF WaitSame, FutexTypes, Keyed, Locked, Sleepers, Waking
  <2> QED  BY <2>1, <2>2
<1>5. ASSUME NEW t \in FutexThreads, WaitInvalid(t) PROVE FutexShape'
  <2>1. Unique' /\ Probing'
    BY <1>5, SameKeys DEF WaitInvalid, FutexTypes, Keyed
  <2>2. /\ futexes' \in [FutexIndices -> [key : Words \cup {NoWord}, m : FutexThreads \cup {Nobody},
                                   cv : SUBSET FutexThreads, waiters : Int]]
        /\ \A j \in FutexIndices : /\ futexes'[j].key = futexes[j].key /\ futexes'[j].cv = futexes[j].cv
                                   /\ futexes'[j].m = IF j = futexLoc[t].s THEN Nobody ELSE futexes[j].m
    BY <1>5, InvalidKeeps DEF WaitInvalid, FutexTypes, Keyed
  <2>3. /\ futexPc[t] = "wait" /\ UNCHANGED <<word, owesWake>>
        /\ futexPc' = [futexPc EXCEPT ![t] = "idle"] /\ futexLoc' = [futexLoc EXCEPT ![t] = NoFutexLoc]
    BY <1>5 DEF WaitInvalid
  <2>4. FutexTypes'
    BY <2>2, <2>3 DEF FutexTypes
  <2>5. Keyed' /\ Sleepers' /\ Waking'
    BY <2>2, <2>3 DEF FutexTypes, Keyed, Sleepers, Waking
  <2>6. Locked'
    BY <2>2, <2>3 DEF FutexTypes, Keyed, Locked
  <2> QED  BY <2>1, <2>4, <2>5, <2>6
<1>6. ASSUME NEW t \in FutexThreads, FutexSleep(t) PROVE FutexShape'
  <2>1. Unique' /\ Probing'
    BY <1>6, SameKeys DEF FutexSleep, FutexTypes, Keyed
  <2>2. FutexTypes' /\ Keyed' /\ Locked' /\ Sleepers' /\ Waking'
    BY <1>6 DEF FutexSleep, FutexTypes, Keyed, Locked, Sleepers, Waking
  <2> QED  BY <2>1, <2>2
<1>7. ASSUME NEW t \in FutexThreads, FutexTimesOut(t) PROVE FutexShape'
  <2>1. Unique' /\ Probing'
    BY <1>7, SameKeys DEF FutexTimesOut, FutexTypes, Keyed
  <2>2. FutexTypes' /\ Keyed' /\ Locked' /\ Sleepers' /\ Waking'
    BY <1>7 DEF FutexTimesOut, FutexTypes, Keyed, Locked, Sleepers, Waking
  <2> QED  BY <2>1, <2>2
<1>8. ASSUME NEW t \in FutexThreads, Awake(t) PROVE FutexShape'
  <2>1. Unique' /\ Probing'
    BY <1>8, SameKeys DEF Awake, FutexTypes, Keyed
  <2>2. FutexTypes' /\ Keyed' /\ Locked' /\ Sleepers' /\ Waking'
    BY <1>8, SMTT(60) DEF Awake, FutexTypes, Keyed, Locked, Sleepers, Waking
  <2> QED  BY <2>1, <2>2
<1>9. ASSUME NEW t \in FutexThreads, DoWake(t) PROVE FutexShape'
  <2>1. PICK W : futexes' = [futexes EXCEPT ![futexLoc[t].s].cv = @ \ W]
    BY <1>9 DEF DoWake
  <2>2. Unique' /\ Probing'
    BY <1>9, <2>1, SameKeys DEF DoWake, FutexTypes, Keyed
  <2>3. FutexTypes'
    BY <1>9, <2>1 DEF DoWake, FutexTypes, Keyed
  <2>4. Keyed' /\ Locked'
    BY <1>9, <2>1 DEF DoWake, FutexTypes, Keyed, Locked
  <2>5. Sleepers' /\ Waking'
    BY <1>9, <2>1 DEF DoWake, FutexTypes, Keyed, Sleepers, Waking
  <2> QED  BY <2>2, <2>3, <2>4, <2>5
<1>10. ASSUME NEW t \in FutexThreads, NEW w \in Words, NEW v \in Values, Store(t, w, v) PROVE FutexShape'
  <2>1. Unique' /\ Probing'
    BY <1>10, SameKeys DEF Store
  <2>2. FutexTypes' /\ Keyed' /\ Locked' /\ Sleepers' /\ Waking'
    BY <1>10 DEF Store, FutexTypes, Keyed, Locked, Sleepers, Waking
  <2> QED  BY <2>1, <2>2
<1>11. ASSUME NEW t \in FutexThreads, NEW w \in Words, NEW v \in Values, FutexWait(t, w, v) PROVE FutexShape'
  <2>1. ASSUME NEW i \in FutexIndices, GetFutex(w, i), FutexGoto(t, "lock"),
               futexLoc' = [futexLoc EXCEPT ![t] = [w |-> w, s |-> i, val |-> v]]
        PROVE  FutexShape'
    <3>1. /\ Unique' /\ Probing'
          /\ \A j \in FutexIndices : futexes[j].key # NoWord => futexes'[j] = futexes[j]
      BY <2>1, GetSlotShape
    <3>2. futexes' = [futexes EXCEPT ![i].key = w]
      BY <2>1 DEF GetFutex
    <3>3. FutexTypes'
      <4>1. futexLoc' \in [FutexThreads -> [w : Words \cup {NoWord}, s : 0..NFutexes, val : Nat]]
        BY <2>1 DEF FutexTypes, FutexIndices
      <4> QED  BY <1>11, <2>1, <3>2, <4>1, SMTT(60) DEF FutexWait, FutexTypes
    <3>4. Keyed' /\ Waking'
      BY <2>1, <3>1, <3>2 DEF FutexTypes, Keyed, Waking
    <3>5. \A j \in FutexIndices : futexes'[j].m = futexes[j].m /\ futexes'[j].cv = futexes[j].cv
      BY <3>2 DEF FutexTypes
    <3>6. Locked' /\ Sleepers'
      BY <1>11, <2>1, <3>5 DEF FutexWait, FutexTypes, Keyed, Locked, Sleepers
    <3> QED  BY <3>1, <3>3, <3>4, <3>6
  <2>2. CASE UNCHANGED <<futexes, futexPc, futexLoc>>
    <3>1. Unique' /\ Probing'
      BY <2>2, SameKeys
    <3> QED  BY <1>11, <2>2, <3>1 DEF FutexWait, FutexTypes, Keyed, Locked, Sleepers, Waking
  <2> QED  BY <1>11, <2>1, <2>2 DEF FutexWait
<1>12. ASSUME NEW t \in FutexThreads, NEW w \in Words, NEW n \in {1, Cardinality(FutexThreads)},
              FutexWake(t, w, n)
       PROVE  FutexShape'
  <2>1. Unique' /\ Probing'
    BY <1>12, SameKeys DEF FutexWake
  <2>2. n \in Nat
    BY FS_CardinalityType
  <2>3. futexes' = futexes /\ word' = word /\ owesWake' \in [Words -> SUBSET FutexThreads]
    BY <1>12 DEF FutexWake, FutexTypes
  <2>4. CASE UNCHANGED <<futexPc, futexLoc>>
    BY <2>1, <2>3, <2>4 DEF FutexTypes, Keyed, Locked, Sleepers, Waking
  <2>5. ASSUME NEW i \in FutexIndices, futexes[i].key = w, futexPc[t] = "idle",
               futexPc' = [futexPc EXCEPT ![t] = "wake"],
               futexLoc' = [futexLoc EXCEPT ![t] = [w |-> w, s |-> i, val |-> n]]
        PROVE  FutexTypes' /\ Keyed' /\ Locked' /\ Sleepers' /\ Waking'
    <3>1. futexLoc' \in [FutexThreads -> [w : Words \cup {NoWord}, s : 0..NFutexes, val : Nat]]
      BY <2>2, <2>5 DEF FutexTypes, FutexIndices
    <3>2. FutexTypes'
      BY <2>3, <2>5, <3>1 DEF FutexTypes
    <3> QED  BY <2>3, <2>5, <3>2 DEF FutexTypes, Keyed, Locked, Sleepers, Waking
  <2> QED  BY <1>12, <2>1, <2>4, <2>5 DEF FutexWake
<1> QED  BY <1>1, <1>2, <1>3, <1>4, <1>5, <1>6, <1>7, <1>8, <1>9, <1>10, <1>11, <1>12
         DEF FutexNext, FutexStep, FutexCall

-----------------------------------------------------------------------------
\* The threads counted at a slot are finitely many.
LEMMA CountedFinite ==
  ASSUME FutexAssumption, NEW i
  PROVE  IsFiniteSet(Counted(i)) /\ Cardinality(Counted(i)) \in Nat
         /\ Cardinality(Counted(i)) <= Cardinality(FutexThreads) /\ Cardinality(FutexThreads) \in Nat
<1>1. Counted(i) \subseteq FutexThreads
  BY DEF Counted
<1> QED  BY <1>1, FS_Subset, FS_CardinalityType DEF FutexAssumption

\* A step that moves no thread in or out of the waits and leaves the counts.
LEMMA ExactSame ==
  ASSUME WaitersExact,
         \A i \in FutexIndices : /\ Counted(i)' = Counted(i) /\ futexes'[i].waiters = futexes[i].waiters
                                 /\ futexes'[i].cv \subseteq Counted(i)
  PROVE  WaitersExact'
  BY DEF WaitersExact

\* The count goes up and down with the threads it counts.
LEMMA ExactStep ==
  ASSUME FutexAssumption, FutexShape, WaitersExact, [FutexNext]_futexVars
  PROVE  WaitersExact'
<1> USE DEF FutexAssumption, FutexShape, FutexAt, FutexGoto, FutexLeave, FutexSlot, NoFutexLoc,
            NoSlot
<1>1. CASE UNCHANGED futexVars
  BY <1>1 DEF futexVars, WaitersExact, Counted
<1>2. ASSUME NEW t \in FutexThreads, FutexLock(t) PROVE WaitersExact'
  <2>1. \A i \in FutexIndices : Counted(i)' = Counted(i)
    BY <1>2 DEF FutexLock, FutexTypes, Counted
  <2> QED  BY <1>2, <2>1, ExactSame DEF FutexLock, FutexTypes, Keyed, WaitersExact
<1>3. ASSUME NEW t \in FutexThreads, WaitDiffers(t) PROVE WaitersExact'
  <2>1. \A i \in FutexIndices : Counted(i)' = Counted(i)
    BY <1>3 DEF WaitDiffers, FutexTypes, Counted
  <2> QED  BY <1>3, <2>1, ExactSame DEF WaitDiffers, FutexTypes, Keyed, WaitersExact
<1>4. ASSUME NEW t \in FutexThreads, WaitSame(t) PROVE WaitersExact'
  <2>1. \A i \in FutexIndices : /\ i # futexLoc[t].s => Counted(i)' = Counted(i) /\ futexes'[i] = futexes[i]
                                /\ i = futexLoc[t].s => Counted(i)' = Counted(i) \cup {t} /\ t \notin Counted(i)
                                     /\ futexes'[i].cv = futexes[i].cv
                                     /\ futexes'[i].waiters = futexes[i].waiters + 1
    BY <1>4 DEF WaitSame, FutexTypes, Keyed, Counted
  <2> SUFFICES ASSUME NEW i \in FutexIndices
               PROVE  futexes'[i].cv \subseteq Counted(i)'
                      /\ futexes'[i].waiters = Cardinality(Counted(i)')
    BY DEF WaitersExact
  <2>2. Cardinality(Counted(i) \cup {t}) = IF t \in Counted(i) THEN Cardinality(Counted(i))
                                           ELSE Cardinality(Counted(i)) + 1
    BY CountedFinite, FS_AddElement
  <2> HIDE DEF FutexAssumption, FutexShape, FutexSlot
  <2>3. futexes[i].cv \subseteq Counted(i) /\ futexes[i].waiters = Cardinality(Counted(i))
    BY DEF WaitersExact
  <2>4. CASE i = futexLoc[t].s
    BY <2>1, <2>2, <2>3, <2>4
  <2>5. CASE i # futexLoc[t].s
    <3>1. Counted(i)' = Counted(i) /\ futexes'[i] = futexes[i]
      BY <2>1, <2>5
    <3>2. Cardinality(Counted(i)') = Cardinality(Counted(i))
      BY <3>1
    <3> QED  BY <2>3, <3>1, <3>2
  <2> QED  BY <2>4, <2>5
<1>5. ASSUME NEW t \in FutexThreads, WaitInvalid(t) \/ Awake(t) PROVE WaitersExact'
  <2>1. \A i \in FutexIndices : /\ i # futexLoc[t].s => Counted(i)' = Counted(i) /\ futexes'[i] = futexes[i]
                                /\ i = futexLoc[t].s => Counted(i)' = Counted(i) \ {t} /\ t \in Counted(i)
                                     /\ futexes'[i].cv = futexes[i].cv /\ t \notin futexes[i].cv
                                     /\ futexes'[i].waiters = futexes[i].waiters - 1
    <3>1. CASE WaitInvalid(t)
      BY <3>1 DEF WaitInvalid, FutexTypes, Keyed, Sleepers, Counted
    <3>2. CASE Awake(t)
      BY <3>2 DEF Awake, FutexTypes, Keyed, Sleepers, Counted
    <3> QED  BY <1>5, <3>1, <3>2
  <2> SUFFICES ASSUME NEW i \in FutexIndices
               PROVE  futexes'[i].cv \subseteq Counted(i)'
                      /\ futexes'[i].waiters = Cardinality(Counted(i)')
    BY DEF WaitersExact
  <2>2. Cardinality(Counted(i) \ {t}) = IF t \in Counted(i) THEN Cardinality(Counted(i)) - 1
                                         ELSE Cardinality(Counted(i))
    BY CountedFinite, FS_RemoveElement
  <2> HIDE DEF FutexAssumption, FutexShape, FutexSlot
  <2>3. futexes[i].cv \subseteq Counted(i) /\ futexes[i].waiters = Cardinality(Counted(i))
    BY DEF WaitersExact
  <2>4. CASE i = futexLoc[t].s
    BY <2>1, <2>2, <2>3, <2>4
  <2>5. CASE i # futexLoc[t].s
    <3>1. Counted(i)' = Counted(i) /\ futexes'[i] = futexes[i]
      BY <2>1, <2>5
    <3>2. Cardinality(Counted(i)') = Cardinality(Counted(i))
      BY <3>1
    <3> QED  BY <2>3, <3>1, <3>2
  <2> QED  BY <2>4, <2>5
<1>6. ASSUME NEW t \in FutexThreads, FutexSleep(t) PROVE WaitersExact'
  <2>1. \A i \in FutexIndices : Counted(i)' = Counted(i)
    BY <1>6 DEF FutexSleep, FutexTypes, Counted
  <2>2. t \in Counted(futexLoc[t].s)
    BY <1>6 DEF FutexSleep, Counted
  <2> QED  BY <1>6, <2>1, <2>2, ExactSame DEF FutexSleep, FutexTypes, Keyed, WaitersExact
<1>7. ASSUME NEW t \in FutexThreads, FutexTimesOut(t) PROVE WaitersExact'
  <2>1. \A i \in FutexIndices : Counted(i)' = Counted(i)
    BY <1>7 DEF FutexTimesOut, Counted
  <2> QED  BY <1>7, <2>1, ExactSame DEF FutexTimesOut, FutexTypes, Keyed, WaitersExact
<1>8. ASSUME NEW t \in FutexThreads, DoWake(t) PROVE WaitersExact'
  <2>1. PICK W : futexes' = [futexes EXCEPT ![futexLoc[t].s].cv = @ \ W]
    BY <1>8 DEF DoWake
  <2>2. \A i \in FutexIndices : Counted(i)' = Counted(i)
    BY <1>8 DEF DoWake, FutexTypes, Counted
  <2> QED  BY <1>8, <2>1, <2>2, ExactSame DEF DoWake, FutexTypes, Keyed, WaitersExact
<1>9. ASSUME NEW t \in FutexThreads, NEW w \in Words, NEW v \in Values, Store(t, w, v)
      PROVE  WaitersExact'
  BY <1>9, ExactSame DEF Store, Counted, WaitersExact
<1>10. ASSUME NEW t \in FutexThreads, NEW w \in Words, NEW v \in Values, FutexWait(t, w, v)
       PROVE  WaitersExact'
  <2>1. \A i \in FutexIndices : Counted(i)' = Counted(i)
    BY <1>10 DEF FutexWait, FutexTypes, Counted
  <2>2. \A i \in FutexIndices : futexes'[i].cv = futexes[i].cv /\ futexes'[i].waiters = futexes[i].waiters
    BY <1>10 DEF FutexWait, GetFutex, FutexTypes
  <2> QED  BY <2>1, <2>2, ExactSame DEF WaitersExact
<1>11. ASSUME NEW t \in FutexThreads, NEW w \in Words, NEW n \in {1, Cardinality(FutexThreads)},
              FutexWake(t, w, n)
       PROVE  WaitersExact'
  <2>1. \A i \in FutexIndices : Counted(i)' = Counted(i)
    BY <1>11 DEF FutexWake, FutexTypes, Counted
  <2> QED  BY <1>11, <2>1, ExactSame DEF FutexWake, WaitersExact
<1> QED  BY <1>1, <1>2, <1>3, <1>4, <1>5, <1>6, <1>7, <1>8, <1>9, <1>10, <1>11
         DEF FutexNext, FutexStep, FutexCall

-----------------------------------------------------------------------------
\* A wake of all empties the slot of its word.
LEMMA WakeOfAll ==
  ASSUME FutexAssumption, FutexShape, WaitersExact,
         NEW t \in FutexThreads, futexPc[t] = "wake", futexLoc[t].val = Cardinality(FutexThreads)
  PROVE  Woken(t) = {FutexSlot(t).cv}
<1>1. futexLoc[t].s \in FutexIndices
  BY DEF FutexShape, Keyed
<1>2. FutexSlot(t).waiters = Cardinality(Counted(futexLoc[t].s))
  BY <1>1 DEF FutexSlot, WaitersExact
<1>3. FutexSlot(t).waiters \in Nat /\ Cardinality(FutexThreads) \in Nat
      /\ FutexSlot(t).waiters <= Cardinality(FutexThreads)
  BY <1>2, CountedFinite
<1>4. WakeCount(t) = FutexSlot(t).waiters
  BY <1>3 DEF WakeCount, Lesser
<1> QED  BY <1>4 DEF Woken

\* Who is about to sleep with an outdated value has somebody coming to wake it.
LEMMA WarnedStep ==
  ASSUME FutexAssumption, FutexIInv, [FutexNext]_futexVars
  PROVE  Warned'
<1> USE DEF FutexAssumption, FutexIInv, FutexShape, FutexAt, FutexGoto, FutexLeave, FutexSlot
<1>1. CASE UNCHANGED futexVars
  BY <1>1 DEF futexVars, Warned
<1>2. ASSUME NEW t \in FutexThreads,
             \/ FutexLock(t) \/ WaitDiffers(t) \/ WaitSame(t) \/ WaitInvalid(t)
             \/ FutexSleep(t) \/ FutexTimesOut(t) \/ Awake(t)
      PROVE  Warned'
  <2> SUFFICES ASSUME NEW u \in FutexThreads,
                      futexPc'[u] = "wait" \/ (futexPc'[u] = "asleep" /\ u \in futexes'[futexLoc'[u].s].cv),
                      word[futexLoc'[u].w] # futexLoc'[u].val
               PROVE  owesWake[futexLoc'[u].w] # {}
    BY <1>2 DEF Warned, FutexLock, WaitDiffers, WaitSame, WaitInvalid, FutexSleep, FutexTimesOut,
                Awake
  <2>1. CASE u = t
    BY <1>2, <2>1 DEF Warned, FutexTypes, Keyed, Sleepers,
                      FutexLock, WaitDiffers, WaitSame, WaitInvalid, FutexSleep, FutexTimesOut, Awake
  <2>2. CASE u # t
    <3>1. futexPc'[u] = futexPc[u] /\ futexLoc'[u] = futexLoc[u]
      BY <1>2, <2>2 DEF FutexTypes, FutexLock, WaitDiffers, WaitSame, WaitInvalid, FutexSleep,
                        FutexTimesOut, Awake
    <3>2. u \in futexes'[futexLoc[u].s].cv /\ futexPc[u] = "asleep" => u \in futexes[futexLoc[u].s].cv
      <4>1. futexLoc[t].s \in FutexIndices /\ (futexPc[u] = "asleep" => futexLoc[u].s \in FutexIndices)
        BY <1>2 DEF Keyed, FutexLock, WaitDiffers, WaitSame, WaitInvalid, FutexSleep,
                    FutexTimesOut, Awake
      <4>2. \A i \in FutexIndices : futexes'[i].cv \subseteq futexes[i].cv \cup {t}
        <5> SUFFICES ASSUME NEW i \in FutexIndices PROVE futexes'[i].cv \subseteq futexes[i].cv \cup {t}
          OBVIOUS
        <5>1. CASE FutexLock(t)
          BY <4>1, <5>1 DEF FutexTypes, FutexLock
        <5>2. CASE WaitDiffers(t)
          BY <4>1, <5>2 DEF FutexTypes, WaitDiffers
        <5>3. CASE WaitSame(t)
          BY <4>1, <5>3 DEF FutexTypes, WaitSame
        <5>4. CASE WaitInvalid(t)
          BY <4>1, <5>4, InvalidKeeps
        <5>5. CASE FutexSleep(t)
          BY <4>1, <5>5 DEF FutexTypes, FutexSleep
        <5>6. CASE FutexTimesOut(t)
          BY <4>1, <5>6 DEF FutexTypes, FutexTimesOut
        <5>7. CASE Awake(t)
          BY <4>1, <5>7 DEF FutexTypes, Awake
        <5> QED  BY <1>2, <5>1, <5>2, <5>3, <5>4, <5>5, <5>6, <5>7
      <4> QED  BY <2>2, <4>1, <4>2
    <3> QED  BY <3>1, <3>2 DEF Warned
  <2> QED  BY <2>1, <2>2
<1>3. ASSUME NEW t \in FutexThreads, DoWake(t) PROVE Warned'
  <2>1. PICK W \in Woken(t) : futexes' = [futexes EXCEPT ![futexLoc[t].s].cv = @ \ W]
    BY <1>3 DEF DoWake
  <2>2. /\ futexPc[t] = "wake" /\ futexes[futexLoc[t].s].m = Nobody /\ word' = word
        /\ futexPc' = [futexPc EXCEPT ![t] = "idle"] /\ futexLoc' = [futexLoc EXCEPT ![t] = NoFutexLoc]
    BY <1>3 DEF DoWake
  <2> SUFFICES ASSUME NEW u \in FutexThreads,
                      futexPc'[u] = "wait" \/ (futexPc'[u] = "asleep" /\ u \in futexes'[futexLoc'[u].s].cv),
                      word[futexLoc'[u].w] # futexLoc'[u].val
               PROVE  owesWake'[futexLoc'[u].w] # {}
    BY <2>2 DEF Warned
  <2>3. u # t /\ futexPc'[u] = futexPc[u] /\ futexLoc'[u] = futexLoc[u]
    BY <2>2 DEF FutexTypes
  <2>4. futexPc[u] = "wait" \/ (futexPc[u] = "asleep" /\ u \in futexes[futexLoc[u].s].cv)
    BY <2>1, <2>3 DEF FutexTypes, Keyed
  <2>5. owesWake[futexLoc[u].w] # {}
    BY <2>3, <2>4 DEF Warned
  <2>6. CASE futexLoc[t].val = Cardinality(FutexThreads) /\ futexLoc[u].w = futexLoc[t].w
    <3>1. futexLoc[u].s = futexLoc[t].s /\ futexLoc[t].s \in FutexIndices
      BY <2>2, <2>4, <2>6 DEF Keyed, Unique
    <3>2. futexPc[u] # "wait"
      BY <2>2, <3>1 DEF Locked
    <3>3. futexes'[futexLoc[t].s].cv = {}
      BY <2>1, <2>2, <2>6, <3>1, WakeOfAll DEF FutexTypes
    <3> QED  BY <2>3, <3>1, <3>2, <3>3
  <2>7. CASE ~(futexLoc[t].val = Cardinality(FutexThreads) /\ futexLoc[u].w = futexLoc[t].w)
    <3>1. futexLoc[u].w \in Words
      BY <2>4 DEF Keyed
    <3>2. owesWake'[futexLoc[u].w] = owesWake[futexLoc[u].w]
      BY <1>3, <2>7, <3>1 DEF DoWake, FutexTypes
    <3> QED  BY <2>3, <2>5, <3>2
  <2> QED  BY <2>6, <2>7
<1>4. ASSUME NEW t \in FutexThreads, NEW w \in Words, NEW v \in Values, Store(t, w, v) PROVE Warned'
  BY <1>4 DEF Store, Warned, FutexTypes, Keyed
<1>5. ASSUME NEW t \in FutexThreads, NEW w \in Words, NEW v \in Values, FutexWait(t, w, v) PROVE Warned'
  <2>1. \A i \in FutexIndices : futexes'[i].cv = futexes[i].cv
    <3>1. futexes \in [FutexIndices -> [key : Words \cup {NoWord}, m : FutexThreads \cup {Nobody},
                                cv : SUBSET FutexThreads, waiters : Int]]
      BY DEF FutexTypes
    <3>2. futexes' = futexes \/ \E j \in FutexIndices : futexes' = [futexes EXCEPT ![j].key = w]
      BY <1>5 DEF FutexWait, GetFutex
    <3>3. CASE futexes' = futexes
      BY <3>3
    <3>4. ASSUME NEW j \in FutexIndices, futexes' = [futexes EXCEPT ![j].key = w]
          PROVE  \A i \in FutexIndices : futexes'[i].cv = futexes[i].cv
      BY <3>1, <3>4
    <3> QED  BY <3>2, <3>3, <3>4
  <2>2. \A u \in FutexThreads : futexPc'[u] \in {"wait", "asleep"} =>
          futexPc'[u] = futexPc[u] /\ futexLoc'[u] = futexLoc[u] /\ futexLoc[u].s \in FutexIndices
    BY <1>5 DEF FutexWait, FutexTypes, Keyed
  <2>3. word' = word /\ owesWake' = owesWake
    BY <1>5 DEF FutexWait
  <2> QED  BY <2>1, <2>2, <2>3 DEF Warned
<1>6. ASSUME NEW t \in FutexThreads, NEW w \in Words, NEW n \in {1, Cardinality(FutexThreads)},
             FutexWake(t, w, n)
      PROVE  Warned'
  <2>1. futexes' = futexes /\ word' = word
    BY <1>6 DEF FutexWake
  <2>2. CASE \A i \in FutexIndices : Finds(w, i) => futexes[i].key # w
    <3>1. \A u \in FutexThreads : futexPc[u] # "idle" => futexLoc[u].w # w
      BY <2>2, WaiterFound DEF Keyed
    <3>2. \A v \in Words : v # w => owesWake'[v] = owesWake[v]
      BY <1>6 DEF FutexWake, FutexTypes
    <3>3. \A u \in FutexThreads : futexPc'[u] \in {"wait", "asleep"} =>
            futexPc'[u] = futexPc[u] /\ futexLoc'[u] = futexLoc[u]
      BY <1>6 DEF FutexWake, FutexTypes
    <3> QED  BY <2>1, <3>1, <3>2, <3>3 DEF Warned, Keyed
  <2>3. CASE owesWake' = owesWake
    <3>1. \A u \in FutexThreads : futexPc'[u] \in {"wait", "asleep"} =>
            futexPc'[u] = futexPc[u] /\ futexLoc'[u] = futexLoc[u]
      BY <1>6 DEF FutexWake, FutexTypes
    <3> QED  BY <2>1, <2>3, <3>1 DEF Warned
  <2> QED  BY <1>6, <2>2, <2>3 DEF FutexWake
<1> QED  BY <1>1, <1>2, <1>3, <1>4, <1>5, <1>6 DEF FutexNext, FutexStep, FutexCall

-----------------------------------------------------------------------------
LEMMA FutexInitially ==
  ASSUME FutexAssumption, FutexInit
  PROVE  FutexIInv
<1>1. FutexShape
  BY DEF FutexAssumption, FutexInit, NoFutexLoc, NoSlot, FutexShape, FutexTypes, Unique, Probing,
         Keyed, Locked,
         Sleepers, Waking
<1>2. \A i \in FutexIndices : Counted(i) = {}
  BY DEF FutexInit, Counted
<1>3. WaitersExact
  BY <1>2, FS_EmptySet DEF FutexInit, WaitersExact
<1>4. Warned
  BY DEF FutexInit, Warned
<1> QED  BY <1>1, <1>3, <1>4 DEF FutexIInv

\* The three together.
LEMMA FutexInductive ==
  ASSUME FutexAssumption, FutexIInv, [FutexNext]_futexVars
  PROVE  FutexIInv'
  BY ShapeStep, ExactStep, WarnedStep DEF FutexIInv

(***************************************************************************)
(* The futex state is well typed and no word ever gets a second slot, for   *)
(* any hash and however full the table: a search goes round the table to    *)
(* the word's slot.                                                         *)
(***************************************************************************)
THEOREM TypeCorrect ==
  ASSUME FutexAssumption
  PROVE  FutexSpec => []FutexTypeOK
<1>1. FutexInit => FutexIInv
  BY FutexInitially
<1>2. FutexIInv /\ [FutexNext]_futexVars => FutexIInv'
  BY FutexInductive
<1>3. FutexIInv => FutexTypeOK
  <2> SUFFICES ASSUME FutexIInv PROVE FutexTypeOK
    OBVIOUS
  <2>1. \A i \in FutexIndices : futexes[i].waiters \in Nat
    BY CountedFinite DEF FutexIInv, WaitersExact
  <2> QED  BY <2>1 DEF FutexIInv, FutexShape, FutexTypes, Unique, FutexTypeOK
<1> QED  BY <1>1, <1>2, <1>3, PTL DEF FutexSpec

(***************************************************************************)
(* A slot counts exactly the threads in a wait on it, whatever times out or *)
(* is woken in between.                                                     *)
(***************************************************************************)
THEOREM WaitersCounted ==
  ASSUME FutexAssumption
  PROVE  FutexSpec => []WaitersExact
<1>1. FutexInit => FutexIInv
  BY FutexInitially
<1>2. FutexIInv /\ [FutexNext]_futexVars => FutexIInv'
  BY FutexInductive
<1>3. FutexIInv => WaitersExact
  BY DEF FutexIInv
<1> QED  BY <1>1, <1>2, <1>3, PTL DEF FutexSpec

(***************************************************************************)
(* A thread asleep on a word that has changed is one whose wake is still to *)
(* come, for any number of threads and words that share slots' neighbours.  *)
(***************************************************************************)
THEOREM WakeMissesNone ==
  ASSUME FutexAssumption
  PROVE  FutexSpec => []NoMissedWake
<1>1. FutexInit => FutexIInv
  BY FutexInitially
<1>2. FutexIInv /\ [FutexNext]_futexVars => FutexIInv'
  BY FutexInductive
<1>3. FutexIInv => NoMissedWake
  BY DEF FutexIInv, Warned, NoMissedWake, FutexAt
<1> QED  BY <1>1, <1>2, <1>3, PTL DEF FutexSpec

-----------------------------------------------------------------------------
(***************************************************************************)
(* Guest threads.                                                           *)
(***************************************************************************)
\* An open handle has its object.
Open == \A h \in Handles : kern[h] = "none" <=> ~obj[h].allocated

\* A thread is in its code while the kernel runs it, and has stored its result
\* before it ends.
Running == \A h \in Handles :
  /\ at[h] # "off" <=> kern[h] = "running"
  /\ kern[h] = "exited" \/ at[h] = "ending" => obj[h].finished

\* A thread that was not started is in the hands of the one call that creates it.
Creates(t, h) == at[t] \in {"add", "start"} /\ mem[t].h = h
Created == \A h \in Handles :
  /\ \A t \in AllThreads : Creates(t, h) => kern[h] = "created"
  /\ \A t, u \in AllThreads : Creates(t, h) /\ Creates(u, h) => t = u

\* What a call names, and that it does not name a thread being created.
Named == \A t \in AllThreads :
  /\ at[t] \in {"add", "start", "close", "lookup", "joinwait", "unlink"} => mem[t].h \in Handles
  /\ at[t] \in {"reap", "free"} /\ mem[t].next = "lookup" => mem[t].h \in Handles
  /\ at[t] = "free" => mem[t].victim \in Handles
  /\ at[t] \in {"reap", "free", "lookup", "joinwait", "unlink"} /\ mem[t].h \in Handles =>
       kern[mem[t].h] # "created"

ThreadsShape == ThreadsOK /\ Open /\ Running /\ Created /\ Named

ThreadsIInv == ThreadsShape /\ OneReclaimer /\ JoinerKeeps /\ FreedAfterEnd

-----------------------------------------------------------------------------
\* The step puts no thread where it would have more to do with a handle, or less.
Unmoved(hs) ==
  \A u \in AllThreads : \A g \in hs :
    /\ (Claims(u, g)' <=> Claims(u, g)) /\ (Joins(u, g)' <=> Joins(u, g))
    /\ at'[u] \in {"free", "unlink"} => at[u] = at'[u]
    /\ at'[u] = "start" => at[u] = "start" /\ mem'[u] = mem[u]

\* A step that moves no thread between calls keeps the three properties.
LEMMA UnmovedKeeps ==
  ASSUME ThreadsIInv, Unmoved(Handles), UNCHANGED <<list, kern>>,
         \A g \in Handles : /\ obj'[g].allocated = obj[g].allocated
                            /\ obj'[g].detached = obj[g].detached
                            /\ obj'[g].joining = obj[g].joining
                            /\ obj[g].finished => obj'[g].finished
  PROVE  OneReclaimer' /\ JoinerKeeps' /\ FreedAfterEnd'
<1>1. OneReclaimer'
  BY DEF ThreadsIInv, Unmoved, OneReclaimer
<1>2. JoinerKeeps'
  BY DEF ThreadsIInv, Unmoved, JoinerKeeps
<1>3. FreedAfterEnd'
  BY DEF ThreadsIInv, Unmoved, FreedAfterEnd
<1> QED  BY <1>1, <1>2, <1>3

\* The parts of a step that only moves thread t, in its call or out of it.
LEMMA MoveStep ==
  ASSUME GuestThreadsAssumption, ThreadsIInv, NEW t \in AllThreads,
         ReapDone(t) \/ Create(t) \/ AllocFails(t) \/ CreateLog(t)
           \/ JoinWaited(t) \/ (\E h \in Handles : Join(t, h))
  PROVE  ThreadsIInv'
<1> USE DEF GuestThreadsAssumption, ThreadsIInv, ThreadsShape, Is, Move, Ended, Enter, Blank,
            AllThreads
<1>1. CASE ReapDone(t)
  <2>1. CASE mem[t].next = "idle"
    <3>1. /\ at[t] = "reap" /\ UNCHANGED <<obj, list, kern>>
          /\ at' = [at EXCEPT ![t] = "idle"] /\ mem' = [mem EXCEPT ![t] = Blank]
      BY <1>1, <2>1 DEF ReapDone
    <3>2. ThreadsShape'
      BY <3>1 DEF ThreadsOK, Open, Running, Created, Creates, Named
    <3>3. OneReclaimer' /\ JoinerKeeps' /\ FreedAfterEnd'
      BY <3>1 DEF ThreadsOK, OneReclaimer, JoinerKeeps, FreedAfterEnd, Claims, Joins
    <3> QED  BY <3>2, <3>3
  <2>2. CASE mem[t].next # "idle"
    <3>1. mem[t].next \in {"alloc", "lookup"} /\ mem' = mem /\ at' = [at EXCEPT ![t] = mem[t].next]
          /\ at[t] = "reap" /\ UNCHANGED <<obj, list, kern>>
      BY <1>1, <2>2 DEF ReapDone, ThreadsOK
    <3>2. ThreadsOK'
      BY <3>1 DEF ThreadsOK
    <3>3. Open' /\ Running' /\ Created' /\ Named'
      BY <3>1 DEF ThreadsOK, Open, Running, Created, Creates, Named
    <3>4. OneReclaimer' /\ JoinerKeeps' /\ FreedAfterEnd'
      BY <3>1 DEF ThreadsOK, OneReclaimer, JoinerKeeps, FreedAfterEnd, Claims, Joins
    <3> QED  BY <3>2, <3>3, <3>4
  <2> QED  BY <2>1, <2>2
<1>2. CASE Create(t)
  <2>1. ThreadsShape'
    BY <1>2 DEF Create, ThreadsOK, Open, Running, Created, Creates, Named
  <2>2. UNCHANGED <<obj, list, kern>> /\ Unmoved(Handles)
    BY <1>2 DEF Create, ThreadsOK, Unmoved, Claims, Joins
  <2> QED  BY <2>1, <2>2, UnmovedKeeps
<1>3. CASE AllocFails(t) \/ CreateLog(t)
  <2>1. /\ at[t] \in {"alloc", "log"} /\ UNCHANGED <<obj, list, kern>>
        /\ at' = [at EXCEPT ![t] = "idle"] /\ mem' = [mem EXCEPT ![t] = Blank]
    BY <1>3 DEF AllocFails, CreateLog
  <2>2. ThreadsShape'
    BY <2>1 DEF ThreadsOK, Open, Running, Created, Creates, Named
  <2>3. OneReclaimer' /\ JoinerKeeps' /\ FreedAfterEnd'
    BY <2>1 DEF ThreadsOK, OneReclaimer, JoinerKeeps, FreedAfterEnd, Claims, Joins
  <2> QED  BY <2>2, <2>3
<1>4. CASE JoinWaited(t)
  <2>1. ThreadsShape'
    BY <1>4 DEF JoinWaited, ThreadsOK, Open, Running, Created, Creates, Named
  <2>2. OneReclaimer' /\ JoinerKeeps' /\ FreedAfterEnd'
    BY <1>4, SMTT(60) DEF JoinWaited, ThreadsOK, Running, OneReclaimer, JoinerKeeps,
                          FreedAfterEnd, Claims, Joins
  <2> QED  BY <2>1, <2>2
<1>5. ASSUME NEW h \in Handles, Join(t, h) PROVE ThreadsIInv'
  <2>1. ThreadsShape'
    BY <1>5 DEF Join, ThreadsOK, Open, Running, Created, Creates, Named
  <2>2. OneReclaimer' /\ JoinerKeeps' /\ FreedAfterEnd'
    BY <1>5 DEF Join, ThreadsOK, OneReclaimer, JoinerKeeps, FreedAfterEnd, Claims, Joins
  <2> QED  BY <2>1, <2>2
<1> QED  BY <1>1, <1>2, <1>3, <1>4, <1>5

\* The reaping of a detached thread.
LEMMA ReapStep ==
  ASSUME GuestThreadsAssumption, ThreadsIInv, NEW t \in AllThreads, ReapTake(t) \/ ReapFree(t)
  PROVE  ThreadsIInv'
<1> USE DEF GuestThreadsAssumption, ThreadsIInv, ThreadsShape, Is, Move, AllThreads
<1>1. CASE ReapTake(t)
  <2> PICK h \in Handles : /\ Reapable(h, t)
                           /\ list' = list \ {h}
                           /\ at' = [at EXCEPT ![t] = "free"]
                           /\ mem' = [mem EXCEPT ![t].victim = h]
    BY <1>1 DEF ReapTake
  <2>1. ThreadsShape'
    BY <1>1 DEF ReapTake, Reapable, ThreadsOK, Open, Running, Created, Creates, Named
  <2>2. OneReclaimer'
    BY <1>1 DEF ReapTake, Reapable, ThreadsOK, OneReclaimer, Claims
  <2>3. JoinerKeeps' /\ FreedAfterEnd'
    BY <1>1 DEF ReapTake, Reapable, ThreadsOK, Running, OneReclaimer, JoinerKeeps, FreedAfterEnd,
                Claims, Joins
  <2> QED  BY <2>1, <2>2, <2>3
<1>2. CASE ReapFree(t)
  <2> DEFINE h == mem[t].victim
  <2>1. h \in Handles /\ Claims(t, h) /\ h \notin list /\ kern[h] = "exited"
        /\ (\A u \in AllThreads : Claims(u, h) => u = t)
    BY <1>2 DEF ReapFree, Named, Claims, OneReclaimer, FreedAfterEnd
  <2>2. ThreadsShape'
    <3>1. ThreadsOK'
      BY <1>2, <2>1 DEF ReapFree, NoObj, ThreadsOK
    <3>2. Open' /\ Running'
      BY <1>2, <2>1 DEF ReapFree, NoObj, ThreadsOK, Open, Running
    <3>3. Created' /\ Named'
      BY <1>2, <2>1 DEF ReapFree, ThreadsOK, Created, Creates, Named
    <3> QED  BY <3>1, <3>2, <3>3
  <2>3. OneReclaimer'
    BY <1>2, <2>1 DEF ReapFree, NoObj, ThreadsOK, OneReclaimer, Claims
  <2>4. JoinerKeeps' /\ FreedAfterEnd'
    BY <1>2, <2>1 DEF ReapFree, NoObj, ThreadsOK, Running, OneReclaimer, JoinerKeeps,
                      FreedAfterEnd, Claims, Joins
  <2> QED  BY <2>2, <2>3, <2>4
<1> QED  BY <1>1, <1>2

\* The creation of a thread.
LEMMA CreateStep ==
  ASSUME GuestThreadsAssumption, ThreadsIInv, NEW t \in AllThreads,
         Alloc(t) \/ Add(t) \/ Start(t) \/ StartFails(t) \/ CloseFree(t)
  PROVE  ThreadsIInv'
<1> USE DEF GuestThreadsAssumption, ThreadsIInv, ThreadsShape, Is, Move, Ended, Blank, AllThreads
<1>1. CASE Alloc(t)
  <2> PICK h \in Handles, detached \in BOOLEAN :
        /\ FreshHandle(h)
        /\ obj' = [obj EXCEPT ![h] = NewObj(detached)]
        /\ kern' = [kern EXCEPT ![h] = "created"]
        /\ mem' = [mem EXCEPT ![t].h = h]
    BY <1>1 DEF Alloc
  <2>1. /\ kern[h] = "none" /\ ~obj[h].allocated /\ h \notin list
        /\ \A u \in AllThreads : mem[u].h # h /\ ~Claims(u, h) /\ ~Joins(u, h)
    BY DEF FreshHandle, Open, OneReclaimer, Joins
  <2> DEFINE new == NewObj(detached)
  <2>6. /\ new \in [allocated : BOOLEAN, detached : BOOLEAN, joining : BOOLEAN, finished : BOOLEAN]
        /\ new.allocated
    BY DEF NewObj, NoObj
  <2> HIDE DEF new
  <2>2. ThreadsOK'
    <3>1. obj' \in [Handles -> [allocated : BOOLEAN, detached : BOOLEAN,
                                joining : BOOLEAN, finished : BOOLEAN]]
      BY <2>6 DEF new, ThreadsOK
    <3>2. kern' \in [Handles -> {"none", "created", "running", "exited"}]
      BY DEF ThreadsOK
    <3>3. at' = [at EXCEPT ![t] = "add"] /\ list' = list /\ t \in AllThreads
      BY <1>1 DEF Alloc
    <3>4. at' \in [AllThreads -> {"off", "idle", "reap", "free", "alloc", "add", "start",
                                  "log", "close", "lookup", "joinwait", "unlink", "ending"}]
      BY <3>3 DEF ThreadsOK
    <3>5. mem' \in [AllThreads -> [h : AllThreads, next : {"idle", "alloc", "lookup"},
                                   victim : AllThreads]]
      BY <3>3 DEF ThreadsOK
    <3> QED  BY <3>1, <3>2, <3>3, <3>4, <3>5 DEF ThreadsOK
  <2>3. Open' /\ Running' /\ Created' /\ Named'
    <3>1. \A g \in Handles : obj'[g] = IF g = h THEN new ELSE obj[g]
      BY DEF new, ThreadsOK
    <3>2. Open' /\ Running'
      BY <1>1, <2>1, <2>6, <3>1 DEF Alloc, ThreadsOK, Open, Running
    <3>3. Created' /\ Named'
      BY <1>1, <2>1 DEF Alloc, ThreadsOK, Created, Creates, Named
    <3> QED  BY <3>2, <3>3
  <2>4. OneReclaimer'
    <3>1. \A g \in Handles : obj'[g].allocated <=> (obj[g].allocated \/ g = h)
      <4>1. \A g \in Handles : obj'[g] = IF g = h THEN new ELSE obj[g]
        BY DEF new, ThreadsOK
      <4> QED  BY <2>6, <4>1
    <3>2. \A u \in AllThreads, g \in Handles : Claims(u, g)' <=> (Claims(u, g) \/ (u = t /\ g = h))
      BY <1>1, <2>1 DEF Alloc, ThreadsOK, Claims
    <3>3. list' = list /\ t \in AllThreads
      BY <1>1 DEF Alloc
    <3> HIDE DEF AllThreads
    <3> QED  BY <2>1, <3>1, <3>2, <3>3 DEF OneReclaimer
  <2>5. JoinerKeeps' /\ FreedAfterEnd'
    BY <1>1, <2>1, <2>6 DEF Alloc, ThreadsOK, Named, JoinerKeeps, FreedAfterEnd, Claims, Joins
  <2> QED  BY <2>2, <2>3, <2>4, <2>5
<1>2. CASE Add(t)
  <2> DEFINE h == mem[t].h
  <2>1. h \in Handles /\ kern[h] = "created" /\ obj[h].allocated
        /\ (\A u \in AllThreads : Claims(u, h) => u = t)
    BY <1>2 DEF Add, Named, Created, Creates, Claims, OneReclaimer
  <2>2. ThreadsShape'
    BY <1>2, <2>1 DEF Add, ThreadsOK, Open, Running, Created, Creates, Named
  <2>3. OneReclaimer'
    BY <1>2, <2>1 DEF Add, ThreadsOK, OneReclaimer, Claims
  <2>4. JoinerKeeps' /\ FreedAfterEnd'
    BY <1>2, <2>1 DEF Add, ThreadsOK, JoinerKeeps, FreedAfterEnd, Claims, Joins
  <2> QED  BY <2>2, <2>3, <2>4
<1>3. CASE Start(t)
  <2> DEFINE h == mem[t].h
  <2>1. h \in Handles /\ kern[h] = "created" /\ h \in list /\ h # t /\ at[h] = "off"
        /\ (\A u \in AllThreads : Creates(u, h) => u = t)
    BY <1>3 DEF Start, Named, Created, Creates, FreedAfterEnd, Running
  <2>2. /\ \A u \in AllThreads : at'[u] = IF u = h THEN "idle" ELSE IF u = t THEN "log" ELSE at[u]
        /\ \A g \in Handles : kern'[g] = IF g = h THEN "running" ELSE kern[g]
        /\ UNCHANGED <<obj, list, mem>>
    BY <1>3, <2>1 DEF Start, ThreadsOK
  <2>3. ThreadsOK'
    BY <1>3, <2>1 DEF Start, ThreadsOK
  <2>4. at[t] = "start"
    BY <1>3 DEF Start
  <2> HIDE DEF h
  <2>5. Open' /\ Running' /\ Created' /\ Named'
    <3>1. Open' /\ Running'
      BY <2>1, <2>2, <2>4 DEF ThreadsOK, Open, Running
    <3>2. Created'
      BY <2>1, <2>2, <2>4 DEF h, ThreadsOK, Created, Creates
    <3>3. Named'
      BY <2>1, <2>2, <2>4 DEF ThreadsOK, Named
    <3> QED  BY <3>1, <3>2, <3>3
  <2>6. \A u \in AllThreads : \A where \in {"add", "close", "free", "joinwait", "unlink"} :
          at'[u] = where <=> at[u] = where
    BY <2>1, <2>2, <2>4
  <2>7. OneReclaimer' /\ JoinerKeeps'
    <3> HIDE DEF AllThreads
    <3>1. obj' = obj /\ list' = list /\ mem' = mem
      BY <2>2
    <3>2. OneReclaimer'
      BY <2>6, <3>1 DEF OneReclaimer, Claims
    <3>3. JoinerKeeps'
      BY <2>6, <3>1 DEF JoinerKeeps, Joins
    <3> QED  BY <3>2, <3>3
  <2>8. FreedAfterEnd'
    <3>1. \A u \in AllThreads : at'[u] = "start" => at[u] = "start" /\ u # t
      BY <2>1, <2>2
    <3>2. \A u \in AllThreads : u # t /\ at[u] = "start" => mem[u].h # h
      BY <2>1 DEF Creates
    <3>3. \A u \in AllThreads : ~(at[u] \in {"free", "unlink"} /\ (Claims(u, h) \/ Joins(u, h)))
      BY <2>1 DEF FreedAfterEnd
    <3> HIDE DEF AllThreads
    <3> QED  BY <2>1, <2>2, <2>6, <3>1, <3>2, <3>3 DEF FreedAfterEnd, Claims, Joins
  <2> QED  BY <2>3, <2>5, <2>7, <2>8
<1>4. CASE StartFails(t)
  <2> DEFINE h == mem[t].h
  <2>1. h \in Handles /\ kern[h] = "created" /\ h \in list /\ obj[h].allocated
        /\ (\A u \in AllThreads : ~Claims(u, h) /\ ~Joins(u, h) /\ (Creates(u, h) => u = t))
    BY <1>4 DEF StartFails, Named, Created, Creates, FreedAfterEnd, OneReclaimer, Joins
  <2>2. ThreadsShape'
    BY <1>4, <2>1 DEF StartFails, ThreadsOK, Open, Running, Created, Creates, Named
  <2>3. OneReclaimer'
    BY <1>4, <2>1 DEF StartFails, ThreadsOK, OneReclaimer, Claims
  <2>4. JoinerKeeps' /\ FreedAfterEnd'
    BY <1>4, <2>1 DEF StartFails, ThreadsOK, JoinerKeeps, FreedAfterEnd, Claims, Joins, Creates
  <2> QED  BY <2>2, <2>3, <2>4
<1>5. CASE CloseFree(t)
  <2> DEFINE h == mem[t].h
  <2>1. h \in Handles /\ Claims(t, h) /\ h \notin list /\ kern[h] # "running"
        /\ (\A u \in AllThreads : Claims(u, h) => u = t)
    BY <1>5 DEF CloseFree, Named, Claims, OneReclaimer, FreedAfterEnd
  <2>2. ThreadsShape'
    <3>1. ASSUME NEW u \in AllThreads PROVE ~Creates(u, h)
      BY <1>5, <2>1 DEF CloseFree, Creates, Claims, FreedAfterEnd
    <3> QED  BY <1>5, <2>1, <3>1 DEF CloseFree, NoObj, ThreadsOK, Open, Running, Created,
                                     Creates, Named
  <2>3. OneReclaimer'
    BY <1>5, <2>1 DEF CloseFree, NoObj, ThreadsOK, OneReclaimer, Claims
  <2>4. JoinerKeeps' /\ FreedAfterEnd'
    BY <1>5, <2>1 DEF CloseFree, NoObj, ThreadsOK, Running, OneReclaimer, JoinerKeeps,
                      FreedAfterEnd, Claims, Joins
  <2> QED  BY <2>2, <2>3, <2>4
<1> QED  BY <1>1, <1>2, <1>3, <1>4, <1>5

\* Joining and detaching.
LEMMA JoinStep ==
  ASSUME GuestThreadsAssumption, ThreadsIInv, NEW t \in AllThreads,
         JoinLookup(t) \/ JoinWaitFails(t) \/ JoinUnlink(t) \/ (\E h \in Handles : Detach(t, h))
  PROVE  ThreadsIInv'
<1> USE DEF GuestThreadsAssumption, ThreadsIInv, ThreadsShape, Is, Move, Ended, Enter, Blank,
            AllThreads
<1>1. CASE JoinLookup(t)
  <2> DEFINE h == mem[t].h
  <2>1. at[t] = "lookup" /\ h \in Handles /\ UNCHANGED <<list, kern>>
    BY <1>1 DEF JoinLookup, Named
  <2>2. CASE Claimable(h)
    <3>1. obj' = [obj EXCEPT ![h].joining = TRUE] /\ at' = [at EXCEPT ![t] = "joinwait"] /\ mem' = mem
      BY <1>1, <2>2 DEF JoinLookup
    <3>2. h \in list /\ ~obj[h].detached /\ ~obj[h].joining
      BY <2>2 DEF Claimable
    <3>3. \A g \in Handles : /\ obj'[g].allocated = obj[g].allocated
                             /\ obj'[g].detached = obj[g].detached
                             /\ obj'[g].finished = obj[g].finished
                             /\ g # h => obj'[g].joining = obj[g].joining
                             /\ obj'[h].joining
      <4>1. \A g \in Handles : obj'[g] = IF g = h THEN [obj[g] EXCEPT !.joining = TRUE] ELSE obj[g]
        BY <2>1, <3>1 DEF ThreadsOK
      <4>2. \A g \in Handles : obj[g] \in [allocated : BOOLEAN, detached : BOOLEAN,
                                           joining : BOOLEAN, finished : BOOLEAN]
        BY DEF ThreadsOK
      <4> QED  BY <2>1, <4>1, <4>2, ZenonT(60)
    <3>4. ThreadsOK'
      BY <2>1, <3>1, ZenonT(60) DEF ThreadsOK
    <3>5. Open' /\ Running' /\ Created' /\ Named'
      BY <2>1, <3>1, <3>3 DEF ThreadsOK, Open, Running, Created, Creates, Named
    <3>6. OneReclaimer'
      BY <2>1, <3>1, <3>3 DEF ThreadsOK, OneReclaimer, Claims
    <3>7. JoinerKeeps' /\ FreedAfterEnd'
      BY <2>1, <3>1, <3>2, <3>3 DEF ThreadsOK, JoinerKeeps, FreedAfterEnd, Claims, Joins
    <3> QED  BY <3>4, <3>5, <3>6, <3>7
  <2>3. CASE ~Claimable(h)
    <3>1. obj' = obj /\ at' = [at EXCEPT ![t] = "idle"] /\ mem' = [mem EXCEPT ![t] = Blank]
      BY <1>1, <2>3 DEF JoinLookup
    <3>2. ThreadsShape'
      BY <2>1, <3>1 DEF ThreadsOK, Open, Running, Created, Creates, Named
    <3>3. OneReclaimer' /\ JoinerKeeps' /\ FreedAfterEnd'
      BY <2>1, <3>1 DEF ThreadsOK, OneReclaimer, JoinerKeeps, FreedAfterEnd, Claims, Joins
    <3> QED  BY <3>2, <3>3
  <2> QED  BY <2>2, <2>3
<1>2. CASE JoinWaitFails(t)
  <2>1. ThreadsShape'
    <3>1. mem[t].h \in Handles /\ obj' = [obj EXCEPT ![mem[t].h].joining = FALSE]
      BY <1>2 DEF JoinWaitFails, Named
    <3>2. ThreadsOK'
      <4>2. obj[mem[t].h] \in [allocated : BOOLEAN, detached : BOOLEAN,
                                           joining : BOOLEAN, finished : BOOLEAN]
        BY <3>1 DEF ThreadsOK
      <4>3. [obj[mem[t].h] EXCEPT !.joining = FALSE] \in [allocated : BOOLEAN, detached : BOOLEAN,
                                           joining : BOOLEAN, finished : BOOLEAN]
        BY <4>2
      <4>1. obj' \in [Handles -> [allocated : BOOLEAN, detached : BOOLEAN,
                                  joining : BOOLEAN, finished : BOOLEAN]]
        BY <3>1, <4>3 DEF ThreadsOK
      <4> QED  BY <1>2, <4>1 DEF JoinWaitFails, ThreadsOK
    <3>3. \A g \in Handles : /\ obj'[g].allocated = obj[g].allocated
                             /\ obj'[g].finished = obj[g].finished
      BY <3>1 DEF ThreadsOK
    <3>4. Open' /\ Running' /\ Created' /\ Named'
      BY <1>2, <3>3 DEF JoinWaitFails, ThreadsOK, Open, Running, Created, Creates, Named
    <3> QED  BY <3>2, <3>4
  <2>2. OneReclaimer'
    BY <1>2 DEF JoinWaitFails, ThreadsOK, Named, OneReclaimer, Claims
  <2>3. JoinerKeeps' /\ FreedAfterEnd'
    BY <1>2 DEF JoinWaitFails, ThreadsOK, Named, JoinerKeeps, FreedAfterEnd, Claims, Joins
  <2> QED  BY <2>1, <2>2, <2>3
<1>3. CASE JoinUnlink(t)
  <2> DEFINE h == mem[t].h
  <2>1. h \in Handles /\ h \in list /\ obj[h].allocated /\ kern[h] = "exited"
        /\ (\A u \in AllThreads : Joins(u, h) => u = t)
        /\ (\A u \in AllThreads : ~Claims(u, h))
    BY <1>3 DEF JoinUnlink, Named, JoinerKeeps, Joins, OneReclaimer, FreedAfterEnd
  <2>2. ThreadsShape'
    BY <1>3, <2>1 DEF JoinUnlink, ThreadsOK, Open, Running, Created, Creates, Named
  <2>3. OneReclaimer'
    BY <1>3, <2>1 DEF JoinUnlink, ThreadsOK, OneReclaimer, Claims
  <2>4. JoinerKeeps' /\ FreedAfterEnd'
    BY <1>3, <2>1 DEF JoinUnlink, ThreadsOK, JoinerKeeps, FreedAfterEnd, Claims, Joins
  <2> QED  BY <2>2, <2>3, <2>4
<1>4. ASSUME NEW h \in Handles, Detach(t, h) PROVE ThreadsIInv'
  <2>1. ThreadsShape'
    <3>1. ThreadsOK'
      <4>2. obj' = [obj EXCEPT ![h].detached = TRUE]
        BY <1>4 DEF Detach
      <4>3. obj[h] \in [allocated : BOOLEAN, detached : BOOLEAN,
                                           joining : BOOLEAN, finished : BOOLEAN]
        BY DEF ThreadsOK
      <4>4. [obj[h] EXCEPT !.detached = TRUE] \in [allocated : BOOLEAN, detached : BOOLEAN,
                                           joining : BOOLEAN, finished : BOOLEAN]
        BY <4>3
      <4>1. obj' \in [Handles -> [allocated : BOOLEAN, detached : BOOLEAN,
                                  joining : BOOLEAN, finished : BOOLEAN]]
        BY <4>2, <4>4 DEF ThreadsOK
      <4> QED  BY <1>4, <4>1 DEF Detach, ThreadsOK
    <3>2. \A g \in Handles : /\ obj'[g].allocated = obj[g].allocated
                             /\ obj'[g].finished = obj[g].finished
      BY <1>4 DEF Detach, ThreadsOK
    <3>3. Open' /\ Running' /\ Created' /\ Named'
      BY <1>4, <3>2 DEF Detach, ThreadsOK, Open, Running, Created, Creates, Named
    <3> QED  BY <3>1, <3>3
  <2>2. OneReclaimer'
    BY <1>4, SMTT(60) DEF Detach, Claimable, ThreadsOK, OneReclaimer, Claims
  <2>3. JoinerKeeps' /\ FreedAfterEnd'
    BY <1>4 DEF Detach, Claimable, ThreadsOK, JoinerKeeps, FreedAfterEnd, Claims, Joins
  <2> QED  BY <2>1, <2>2, <2>3
<1> QED  BY <1>1, <1>2, <1>3, <1>4

\* The end of a thread.
LEMMA EndStep ==
  ASSUME GuestThreadsAssumption, ThreadsIInv, NEW h \in Handles, Finish(h) \/ Exit(h)
  PROVE  ThreadsIInv'
<1> USE DEF GuestThreadsAssumption, ThreadsIInv, ThreadsShape, Is, Move, AllThreads
<1>1. CASE Finish(h)
  <2>1. ThreadsOK'
    BY <1>1, ZenonT(60) DEF Finish, ThreadsOK
  <2>2. \A g \in Handles : /\ obj'[g].allocated = obj[g].allocated
                           /\ obj'[g].detached = obj[g].detached
                           /\ obj'[g].joining = obj[g].joining
                           /\ obj'[g].finished <=> (obj[g].finished \/ g = h)
    BY <1>1 DEF Finish, ThreadsOK
  <2>3. at[h] = "idle" /\ kern[h] = "running" /\ at' = [at EXCEPT ![h] = "ending"]
        /\ UNCHANGED <<list, kern, mem>>
    BY <1>1 DEF Finish
  <2>4. Open' /\ Running' /\ Created' /\ Named'
    BY <2>2, <2>3 DEF ThreadsOK, Open, Running, Created, Creates, Named
  <2>5. Unmoved(Handles)
    BY <2>3 DEF ThreadsOK, Unmoved, Claims, Joins
  <2> QED  BY <2>1, <2>2, <2>3, <2>4, <2>5, UnmovedKeeps
<1>2. CASE Exit(h)
  <2>1. ThreadsShape'
    BY <1>2 DEF Exit, ThreadsOK, Open, Running, Created, Creates, Named
  <2>2. UNCHANGED <<obj, list>> /\ Unmoved(Handles)
    BY <1>2 DEF Exit, ThreadsOK, Unmoved, Claims, Joins
  <2>3. \A g \in Handles : kern'[g] = IF g = h THEN "exited" ELSE kern[g]
    BY <1>2 DEF Exit, ThreadsOK
  <2>4. kern[h] = "running" /\ at[h] = "ending"
    BY <1>2 DEF Exit, Running
  <2>5. OneReclaimer' /\ JoinerKeeps'
    BY <2>2 DEF Unmoved, OneReclaimer, JoinerKeeps
  <2>6. FreedAfterEnd'
    BY <2>2, <2>3, <2>4 DEF Unmoved, FreedAfterEnd
  <2> QED  BY <2>1, <2>5, <2>6
<1> QED  BY <1>1, <1>2

-----------------------------------------------------------------------------
\* The invariant of the guest threads holds at first and is kept.
LEMMA ThreadsInductive ==
  ASSUME GuestThreadsAssumption
  PROVE  (ThreadsInit => ThreadsIInv) /\ (ThreadsIInv /\ [ThreadsNext]_threadVars => ThreadsIInv')
<1>1. ThreadsInit => ThreadsIInv
  <2> SUFFICES ASSUME ThreadsInit PROVE ThreadsIInv
    OBVIOUS
  <2>1. ThreadsShape
    BY DEF GuestThreadsAssumption, ThreadsInit, NoObj, Blank, AllThreads, ThreadsShape,
           ThreadsOK, Open, Running,
           Created, Creates, Named
  <2>2. OneReclaimer /\ JoinerKeeps /\ FreedAfterEnd
    BY DEF ThreadsInit, NoObj, Blank, AllThreads, OneReclaimer, JoinerKeeps, FreedAfterEnd,
           Claims, Joins
  <2> QED  BY <2>1, <2>2 DEF ThreadsIInv
<1>2. ThreadsIInv /\ [ThreadsNext]_threadVars => ThreadsIInv'
  <2> SUFFICES ASSUME ThreadsIInv, [ThreadsNext]_threadVars PROVE ThreadsIInv'
    OBVIOUS
  <2>1. CASE UNCHANGED threadVars
    BY <2>1 DEF threadVars, ThreadsIInv, ThreadsShape, ThreadsOK, Open, Running, Created,
                Creates, Named, OneReclaimer,
                JoinerKeeps, FreedAfterEnd, Claims, Joins
  <2>2. ASSUME NEW t \in AllThreads, GuestCall(t) PROVE ThreadsIInv'
    BY <2>2, MoveStep, ReapStep, CreateStep, JoinStep DEF GuestCall
  <2>3. ASSUME NEW h \in Handles, Finish(h) \/ Exit(h) PROVE ThreadsIInv'
    BY <2>3, EndStep
  <2> QED  BY <2>1, <2>2, <2>3 DEF ThreadsNext
<1> QED  BY <1>1, <1>2

(***************************************************************************)
(* The GuestThread of any thread is listed or in the hands of one call that *)
(* will free it: none is freed twice and none is lost.                      *)
(***************************************************************************)
THEOREM FreedOnce ==
  ASSUME GuestThreadsAssumption
  PROVE  ThreadsSpec => []OneReclaimer
<1>1. ThreadsIInv => OneReclaimer
  BY DEF ThreadsIInv
<1> QED  BY <1>1, ThreadsInductive, PTL DEF ThreadsSpec

(***************************************************************************)
(* A join keeps the thread it has found until it has unlinked it itself.    *)
(***************************************************************************)
THEOREM JoinKeeps ==
  ASSUME GuestThreadsAssumption
  PROVE  ThreadsSpec => []JoinerKeeps
<1>1. ThreadsIInv => JoinerKeeps
  BY DEF ThreadsIInv
<1> QED  BY <1>1, ThreadsInductive, PTL DEF ThreadsSpec

(***************************************************************************)
(* No GuestThread is given up before its thread has ended with its result,  *)
(* whoever joins, detaches or reaps it.                                     *)
(***************************************************************************)
THEOREM FreedLate ==
  ASSUME GuestThreadsAssumption
  PROVE  ThreadsSpec => []FreedAfterEnd
<1>1. ThreadsIInv => FreedAfterEnd
  BY DEF ThreadsIInv
<1> QED  BY <1>1, ThreadsInductive, PTL DEF ThreadsSpec
=============================================================================
