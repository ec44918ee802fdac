------------------------------- MODULE Futex -------------------------------
(***************************************************************************)
(* futex_operation of source/bionic.c: FUTEX_WAIT and FUTEX_WAKE on slots   *)
(* found by hashing the word's address and never given up.                  *)
(*                                                                          *)
(* A slot has a mutex and a condition variable of the host, of which cv     *)
(* holds the threads asleep, and its own count of waiters, which a thread   *)
(* that was woken or has timed out leaves only when it has the mutex again. *)
(* The guest's words are plain memory: they are written without the mutex.  *)
(***************************************************************************)
EXTENDS Naturals, FiniteSets

CONSTANTS
  FutexThreads,  \* guest threads
  Nobody,        \* no thread
  Words,         \* addresses of the guest's futex words
  NoWord,        \* the key of an unused slot
  Hash,          \* futex_slot_hash
  NFutexes,      \* FUTEX_SLOTS
  Values         \* what the guest stores

VARIABLES
  word,               \* guest memory
  futexes,            \* g_futex_slots
  futexPc, futexLoc,  \* where each thread is in a call, and its locals there
  owesWake            \* guest: who has stored to a word and not yet woken its waiters

futexVars == <<word, futexes, futexPc, futexLoc, owesWake>>

FutexIndices == 0 .. NFutexes - 1

FutexAssumption ==
  /\ NFutexes \in Nat /\ Hash \in [Words -> FutexIndices] /\ Values \subseteq Nat
  /\ IsFiniteSet(FutexThreads) /\ Nobody \notin FutexThreads /\ NoWord \notin Words

NoSlot == NFutexes
NoFutexLoc == [w |-> NoWord, s |-> NoSlot, val |-> 0]

FutexInit ==
  /\ \E v \in Values : word = [w \in Words |-> v]
  /\ futexes = [i \in FutexIndices |-> [key |-> NoWord, m |-> Nobody, cv |-> {}, waiters |-> 0]]
  /\ futexPc = [t \in FutexThreads |-> "idle"] /\ futexLoc = [t \in FutexThreads |-> NoFutexLoc]
  /\ owesWake = [w \in Words |-> {}]

FutexAt(t, where) == futexPc[t] = where
FutexGoto(t, where) == futexPc' = [futexPc EXCEPT ![t] = where]
FutexLeave(t) == FutexGoto(t, "idle") /\ futexLoc' = [futexLoc EXCEPT ![t] = NoFutexLoc]
FutexSlot(t) == futexes[futexLoc[t].s]
Owes(t) == {w \in Words : t \in owesWake[w]}

-----------------------------------------------------------------------------
(***************************************************************************)
(* futex_slot_get: the slots are probed from the hash on, round the end,    *)
(* until the word or an unused slot is found.                               *)
(***************************************************************************)
Distance(w, i) == IF Hash[w] <= i THEN i - Hash[w] ELSE i + NFutexes - Hash[w]
Stops(w) == {i \in FutexIndices : futexes[i].key \in {w, NoWord}}
Finds(w, i) == i \in Stops(w) /\ \A j \in Stops(w) : Distance(w, i) <= Distance(w, j)

\* Mutant: a slot is taken for the word without a look at its key.
GetAnyFutex(w, i) ==
  /\ i = Hash[w]
  /\ futexes' = IF futexes[i].key = NoWord THEN [futexes EXCEPT ![i].key = w] ELSE futexes

\* With create set.
GetFutex(w, i) ==
  /\ Finds(w, i)
  /\ futexes' = [futexes EXCEPT ![i].key = w]

-----------------------------------------------------------------------------
(***************************************************************************)
(* FUTEX_WAIT and FUTEX_WAIT_BITSET.                                        *)
(***************************************************************************)
FutexWait(t, w, val) ==
  /\ FutexAt(t, "idle") /\ Owes(t) = {}
  /\ \/ \E i \in FutexIndices :
          /\ GetFutex(w, i)
          /\ futexLoc' = [futexLoc EXCEPT ![t] = [w |-> w, s |-> i, val |-> val]]
          /\ FutexGoto(t, "lock")
     \/ Stops(w) = {} /\ UNCHANGED <<futexes, futexPc, futexLoc>>   \* ENOMEM
  /\ UNCHANGED <<word, owesWake>>

FutexLock(t) ==
  /\ FutexAt(t, "lock") /\ FutexSlot(t).m = Nobody
  /\ futexes' = [futexes EXCEPT ![futexLoc[t].s].m = t]
  /\ FutexGoto(t, "compare")
  /\ UNCHANGED <<word, futexLoc, owesWake>>

\* EAGAIN.
WaitDiffers(t) ==
  /\ FutexAt(t, "compare") /\ word[futexLoc[t].w] # futexLoc[t].val
  /\ futexes' = [futexes EXCEPT ![futexLoc[t].s].m = Nobody]
  /\ FutexLeave(t)
  /\ UNCHANGED <<word, owesWake>>

WaitSame(t) ==
  /\ FutexAt(t, "compare") /\ word[futexLoc[t].w] = futexLoc[t].val
  /\ futexes' = [futexes EXCEPT ![futexLoc[t].s].waiters = @ + 1]
  /\ FutexGoto(t, "wait")
  /\ UNCHANGED <<word, futexLoc, owesWake>>

\* Mutant: the early return leaves the thread counted.
WaitInvalidCounted(t) ==
  /\ FutexAt(t, "wait")
  /\ futexes' = [futexes EXCEPT ![futexLoc[t].s].m = Nobody]
  /\ FutexLeave(t)
  /\ UNCHANGED <<word, owesWake>>

\* EINVAL: the time given is not one.
WaitInvalid(t) ==
  /\ FutexAt(t, "wait")
  /\ futexes' = [futexes EXCEPT ![futexLoc[t].s].waiters = @ - 1, ![futexLoc[t].s].m = Nobody]
  /\ FutexLeave(t)
  /\ UNCHANGED <<word, owesWake>>

\* condvarWaitTimeout: the mutex is released and the thread asleep in one step.
FutexSleep(t) ==
  /\ FutexAt(t, "wait")
  /\ futexes' = [futexes EXCEPT ![futexLoc[t].s].m = Nobody, ![futexLoc[t].s].cv = @ \cup {t}]
  /\ FutexGoto(t, "asleep")
  /\ UNCHANGED <<word, futexLoc, owesWake>>

\* The time given, or 16 ms.
FutexTimesOut(t) ==
  /\ FutexAt(t, "asleep") /\ t \in FutexSlot(t).cv
  /\ futexes' = [futexes EXCEPT ![futexLoc[t].s].cv = @ \ {t}]
  /\ UNCHANGED <<word, futexPc, futexLoc, owesWake>>

\* Woken or timed out, the thread takes the mutex, is no longer counted and returns.
Awake(t) ==
  /\ FutexAt(t, "asleep") /\ t \notin FutexSlot(t).cv /\ FutexSlot(t).m = Nobody
  /\ futexes' = [futexes EXCEPT ![futexLoc[t].s].waiters = @ - 1]
  /\ FutexLeave(t)
  /\ UNCHANGED <<word, owesWake>>

-----------------------------------------------------------------------------
(***************************************************************************)
(* FUTEX_WAKE and FUTEX_WAKE_BITSET.                                        *)
(***************************************************************************)
\* Without create: a word nobody has waited for has no slot.
FutexWake(t, w, val) ==
  /\ FutexAt(t, "idle")
  /\ \/ \E i \in FutexIndices :
          /\ Finds(w, i) /\ futexes[i].key = w
          /\ FutexGoto(t, "wake")
          /\ futexLoc' = [futexLoc EXCEPT ![t] = [w |-> w, s |-> i, val |-> val]]
          /\ UNCHANGED owesWake
     \/ /\ \A i \in FutexIndices : Finds(w, i) => futexes[i].key # w
        /\ owesWake' = [owesWake EXCEPT ![w] = @ \ {t}]
        /\ UNCHANGED <<futexPc, futexLoc>>
  /\ UNCHANGED <<word, futexes>>

Lesser(m, n) == IF m <= n THEN m ELSE n
WakeCount(t) == Lesser(futexLoc[t].val, FutexSlot(t).waiters)

\* condvarWakeOne for each thread to wake, or condvarWakeAll: the host wakes threads
\* that are asleep, whichever it likes.
Woken(t) ==
  LET n == WakeCount(t) IN
  IF n = FutexSlot(t).waiters THEN {FutexSlot(t).cv}
  ELSE {W \in SUBSET FutexSlot(t).cv : Cardinality(W) = Lesser(n, Cardinality(FutexSlot(t).cv))}

DoWake(t) ==
  /\ FutexAt(t, "wake") /\ FutexSlot(t).m = Nobody
  /\ \E W \in Woken(t) : futexes' = [futexes EXCEPT ![futexLoc[t].s].cv = @ \ W]
  /\ owesWake' = IF futexLoc[t].val = Cardinality(FutexThreads)
                   THEN [owesWake EXCEPT ![futexLoc[t].w] = @ \ {t}]
                   ELSE owesWake
  /\ FutexLeave(t)
  /\ UNCHANGED word

-----------------------------------------------------------------------------
\* The guest stores a value and so owes the word's waiters a wake of all.
Store(t, w, v) ==
  /\ FutexAt(t, "idle") /\ Owes(t) = {} /\ v # word[w]
  /\ word' = [word EXCEPT ![w] = v]
  /\ owesWake' = [owesWake EXCEPT ![w] = @ \cup {t}]
  /\ UNCHANGED <<futexes, futexPc, futexLoc>>

FutexStep(t) ==
  \/ FutexLock(t) \/ WaitDiffers(t) \/ WaitSame(t) \/ WaitInvalid(t) \/ FutexSleep(t)
  \/ FutexTimesOut(t) \/ Awake(t) \/ DoWake(t)

FutexCall(t) == \E w \in Words :
  \/ \E v \in Values : Store(t, w, v) \/ FutexWait(t, w, v)
  \/ \E n \in {1, Cardinality(FutexThreads)} : FutexWake(t, w, n)

FutexNext == \E t \in FutexThreads : FutexStep(t) \/ FutexCall(t)

FutexSpec == FutexInit /\ [][FutexNext]_futexVars

-----------------------------------------------------------------------------
(***************************************************************************)
(* Properties.                                                              *)
(***************************************************************************)
\* The type invariant; no word has two slots.
FutexTypeOK ==
  /\ word \in [Words -> Values]
  /\ futexes \in [FutexIndices -> [key : Words \cup {NoWord}, m : FutexThreads \cup {Nobody},
                            cv : SUBSET FutexThreads, waiters : Nat]]
  /\ \A i, j \in FutexIndices : futexes[i].key = futexes[j].key /\ futexes[i].key # NoWord => i = j
  /\ futexPc \in [FutexThreads -> {"idle", "lock", "compare", "wait", "asleep", "wake"}]
  /\ futexLoc \in [FutexThreads -> [w : Words \cup {NoWord}, s : 0..NFutexes, val : Nat]]
  /\ owesWake \in [Words -> SUBSET FutexThreads]

\* Once a word has changed and its waiters have been woken, no thread sleeps for
\* the old value: a wake finds the slot its waiters are in, and reaches the ones
\* that have not gone to sleep yet by way of the comparison.
NoMissedWake ==
  \A t \in FutexThreads :
    FutexAt(t, "asleep") /\ t \in FutexSlot(t).cv /\ word[futexLoc[t].w] # futexLoc[t].val
      => owesWake[futexLoc[t].w] # {}

Counted(i) == {t \in FutexThreads : futexLoc[t].s = i /\ futexPc[t] \in {"wait", "asleep"}}

\* The count is of the threads in a wait, asleep or not: so a wake of fewer than
\* all wakes as many sleepers as it was asked to, while there are any, and reports
\* at least as many.
WaitersExact ==
  \A i \in FutexIndices :
    futexes[i].cv \subseteq Counted(i) /\ futexes[i].waiters = Cardinality(Counted(i))
=============================================================================
