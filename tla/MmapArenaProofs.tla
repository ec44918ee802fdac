--------------------------- MODULE MmapArenaProofs ---------------------------
(***************************************************************************)
(* Arena and byte accounting, exact unmapping and, without dynamic windows, *)
(* the refinement of AddressSpace: for any number of threads, slots and     *)
(* records, any region size and any mix of requests.                        *)
(***************************************************************************)
EXTENDS MmapArena, WellFoundedInduction, TLAPS

\* The sizes the geometry derives are natural numbers.
LEMMA SizesNat ==
  /\ HeapUnits \in Nat
  /\ ArenaBase \in Nat
  /\ \A i \in Slots : i * R \in Nat /\ SlotAddr(i) \in Nat
  /\ \A n \in Nat : n * R \in Nat
<1> USE ArenaAssumption
<1>1. \A n \in Nat : n * R \in Nat
  OBVIOUS
<1>2. HeapUnits \in Nat
  BY <1>1 DEF HeapUnits
<1>3. HeapRegions + 1 \in Nat
  OBVIOUS
<1>4. ArenaBase \in Nat
  BY <1>1, <1>3 DEF ArenaBase
<1>5. \A i \in Slots : i * R \in Nat /\ SlotAddr(i) \in Nat
  BY <1>1, <1>4 DEF Slots, SlotAddr
<1> QED BY <1>1, <1>2, <1>4, <1>5

\* The sizes and counts bionic_mmap derives from a request are numbers.
LEMMA GeometryNat ==
  ASSUME NEW k \in AllKinds
  PROVE  /\ Logical(k) \in Nat \ {0}
         /\ KeepCount(k) \in Nat
         /\ ArenaCount(k) \in Nat
         /\ IsReserve(k) => ArenaCount(k) \in Nat \ {0}
         /\ HeapBacking(k) \in Nat
<1>1. (Keep256 + 1) * R \in Nat /\ (Keep256 + 1) * R >= R
  BY ArenaAssumption
<1> QED
  BY <1>1, ArenaAssumption
  DEF AllKinds, Logical, KeepCount, ArenaCount, HeapBacking, IsReserve

\* A run the arena can give lies inside it.
LEMMA RunInArena ==
  ASSUME TypeOK, NEW k \in AllKinds, IsReserve(k), NEW i \in Slots,
         CanTake(i, ArenaCount(k))
  PROVE  /\ Run(i, ArenaCount(k)) \subseteq Slots
         /\ Run(i, ArenaCount(k)) \cap used = {}
  BY GeometryNat, ArenaAssumption DEF CanTake, IsFree, Run, Slots

\* What munmap makes of a record is a record.
LEMMA TrimmedType ==
  ASSUME NEW s \in Record, NEW start \in Nat, NEW end \in Nat
  PROVE  /\ Trimmed(s, start, end) \in Record
         /\ Clipped(s, end) \in Nat
<1>1. s.keep * R \in Nat
  BY SizesNat DEF Record
<1>2. Clipped(s, end) \in Nat
  BY DEF Clipped, Record
<1>3. NoRec \in Record
  BY DEF NoRec, Record
<1>4. [s EXCEPT !.lo = end] \in Record
  BY DEF Record
<1>5. [s EXCEPT !.hi = start] \in Record
  BY DEF Record
<1>6. [s EXCEPT !.hi = start, !.cnt = s.keep, !.backing = s.keep * R] \in Record
  BY <1>1 DEF Record
<1>7. Trimmed(s, start, end) \in Record
  <2>1. CASE WholeUnmap(s, start, end)
    BY <2>1, <1>3 DEF Trimmed, HeadTrim, TailTrim, TailFreed, WholeUnmap, Record
  <2>2. CASE HeadTrim(s, start, end)
    BY <2>2, <1>4 DEF Trimmed, HeadTrim, TailTrim, TailFreed, WholeUnmap, Record
  <2>3. CASE TailFreed(s, start, end)
    BY <2>3, <1>6 DEF Trimmed, HeadTrim, TailTrim, TailFreed, WholeUnmap, Record
  <2>4. CASE TailTrim(s, start, end) /\ ~TailFreed(s, start, end)
    BY <2>4, <1>5 DEF Trimmed, HeadTrim, TailTrim, WholeUnmap, Record
  <2>5. CASE /\ ~WholeUnmap(s, start, end) /\ ~HeadTrim(s, start, end)
             /\ ~TailFreed(s, start, end)
             /\ ~(TailTrim(s, start, end) /\ ~TailFreed(s, start, end))
    BY <2>5 DEF Trimmed
  <2> QED BY <2>1, <2>2, <2>3, <2>4, <2>5
<1> QED BY <1>2, <1>7

-----------------------------------------------------------------------------
\* An empty arena and an empty record table are typed.
LEMMA TypeInit == Init => TypeOK
  BY ArenaAssumption
  DEF Init, TypeOK, NoRec, NoReq, Record, AllKinds, Slots

\* One step per action; each leaf looks only at the variables it changes.
LEMMA TypeStep == TypeOK /\ [Next]_vars => TypeOK'
<1> SUFFICES ASSUME TypeOK, [Next]_vars PROVE TypeOK'
  OBVIOUS
<1> USE ArenaAssumption, SizesNat
<1>1. ASSUME NEW t \in Threads, NEW k \in Kinds, MmapTake(t, k)
      PROVE  TypeOK'
  <2> k \in AllKinds
    BY DEF AllKinds
  <2>1. PICK i \in Slots :
          /\ TakeRun(i, ArenaCount(k))
          /\ req' = [req EXCEPT ![t] = [kind |-> k, base |-> SlotAddr(i),
                                        backing |-> ArenaCount(k) * R,
                                        idx |-> i, cnt |-> ArenaCount(k)]]
    BY <1>1 DEF MmapTake
  <2>2. used' \subseteq Slots
    BY <1>1, <2>1, RunInArena DEF TakeRun, MmapTake, TypeOK
  <2>3. SlotAddr(i) \in Nat /\ ArenaCount(k) * R \in Nat /\ ArenaCount(k) \in Nat
    BY GeometryNat
  <2>4. req' \in [Threads -> [kind : AllKinds, base : Nat, backing : Nat,
                             idx : Slots \cup {-1}, cnt : Nat]]
    BY <2>1, <2>3 DEF TypeOK
  <2> QED BY <1>1, <2>2, <2>4 DEF MmapTake, TypeOK
<1>2. ASSUME NEW t \in Threads, NEW k \in Kinds, MmapNoRun(t, k)
      PROVE  TypeOK'
  BY <1>2, GeometryNat DEF MmapNoRun, TypeOK, NoReq, AllKinds
<1>3. ASSUME NEW t \in Threads, MmapAlloc(t)
      PROVE  TypeOK'
  <2>1. req[t].kind \in AllKinds /\ HeapBacking(req[t].kind) \in Nat
    BY GeometryNat DEF TypeOK
  <2>2. PICK p \in 0 .. HeapUnits - 1 :
          /\ HeapFits(p, HeapBacking(req[t].kind))
          /\ heap' = heap \cup {Units(p, p + HeapBacking(req[t].kind))}
          /\ req' = [req EXCEPT ![t].base = p, ![t].backing = HeapBacking(req[t].kind)]
    BY <1>3 DEF MmapAlloc
  <2>3. Units(p, p + HeapBacking(req[t].kind)) \subseteq 0 .. HeapUnits - 1
    BY <2>1, <2>2 DEF HeapFits, Units
  <2>4. heap' \subseteq SUBSET (0 .. HeapUnits - 1)
    BY <2>2, <2>3 DEF TypeOK
  <2>5. p \in Nat
    BY <2>2
  <2>6. req' \in [Threads -> [kind : AllKinds, base : Nat, backing : Nat,
                             idx : Slots \cup {-1}, cnt : Nat]]
    BY <2>1, <2>2, <2>5, ZenonT(60) DEF TypeOK
  <2> QED BY <1>3, <2>4, <2>6 DEF MmapAlloc, TypeOK
<1>4. ASSUME NEW t \in Threads, MmapNoMemory(t)
      PROVE  TypeOK'
  BY <1>4 DEF MmapNoMemory, TypeOK, NoReq, AllKinds
<1>5. ASSUME NEW t \in Threads, MmapFileError(t)
      PROVE  TypeOK'
  BY <1>5 DEF MmapFileError, TypeOK, NoReq, AllKinds
<1>6. ASSUME NEW t \in Threads, MmapRecord(t)
      PROVE  TypeOK'
  <2>1. /\ req[t] \in [kind : AllKinds, base : Nat, backing : Nat,
                       idx : Slots \cup {-1}, cnt : Nat]
        /\ Logical(req[t].kind) \in Nat /\ KeepCount(req[t].kind) \in Nat
    BY GeometryNat DEF TypeOK
  <2> DEFINE r == [used |-> TRUE, base |-> req[t].base, logical |-> Logical(req[t].kind),
                   backing |-> req[t].backing, lo |-> req[t].base,
                   hi |-> req[t].base + Logical(req[t].kind), idx |-> req[t].idx,
                   cnt |-> req[t].cnt, keep |-> KeepCount(req[t].kind)]
             h == [base |-> req[t].base, lo |-> req[t].base,
                   hi |-> req[t].base + Logical(req[t].kind),
                   keep |-> KeepCount(req[t].kind)]
  <2>2. r \in Record
    BY <2>1 DEF Record
  <2>3. h \in [base : Nat, lo : Nat, hi : Nat, keep : Nat]
    BY <2>1
  <2>4. PICK i \in Recs : mmaps' = [mmaps EXCEPT ![i] = r]
    BY <1>6 DEF MmapRecord
  <2> HIDE DEF r, h
  <2>5. mmaps' \in [Recs -> Record]
    BY <2>2, <2>4 DEF TypeOK
  <2>6. held' = held \cup {h}
    BY <1>6 DEF MmapRecord, h
  <2>7. backing' \in Nat
    BY <1>6, <2>1 DEF MmapRecord, TypeOK
  <2> QED
    BY <1>6, <2>3, <2>5, <2>6, <2>7 DEF MmapRecord, TypeOK, NoReq, AllKinds
<1>7. ASSUME NEW t \in Threads, MmapNoRecord(t)
      PROVE  TypeOK'
  BY <1>7 DEF MmapNoRecord, TypeOK
<1>8. ASSUME NEW t \in Threads, MmapUndo(t)
      PROVE  TypeOK'
  BY <1>8 DEF MmapUndo, Released, TypeOK, NoReq, AllKinds
<1>9. ASSUME NEW t \in Threads, NEW m \in held,
             NEW start \in Units(m.lo, m.hi), NEW end \in Units(m.lo + 1, m.hi + 1),
             Munmap(t, m, start, end)
      PROVE  TypeOK'
  <2>1. /\ m \in [base : Nat, lo : Nat, hi : Nat, keep : Nat]
        /\ start \in Nat /\ end \in Nat
    BY DEF TypeOK, Units
  <2>2. held' \subseteq [base : Nat, lo : Nat, hi : Nat, keep : Nat]
    <3>1. /\ [m EXCEPT !.hi = start] \in [base : Nat, lo : Nat, hi : Nat, keep : Nat]
          /\ [m EXCEPT !.lo = end] \in [base : Nat, lo : Nat, hi : Nat, keep : Nat]
      BY <2>1
    <3> QED BY <1>9, <3>1 DEF Munmap, Remainder, TypeOK
  <2>3. CASE \A i \in Recs : ~Hit(i, start)
    <3>1. UNCHANGED <<mmaps, used, backing, pc, req>>
      BY <1>9, <2>3 DEF Munmap, FirstHit
    <3> QED BY <1>9, <2>2, <3>1 DEF Munmap, TypeOK
  <2>4. ASSUME NEW i \in Recs, MunmapHit(t, i, start, end)
        PROVE  TypeOK'
    <3> DEFINE e == Clipped(mmaps[i], end)
               n == Trimmed(mmaps[i], start, e)
    <3>1. mmaps[i] \in Record
      BY DEF TypeOK
    <3>2. e \in Nat
      BY <2>1, <3>1, TrimmedType
    <3>3. n \in Record
      BY <2>1, <3>1, <3>2, TrimmedType
    <3>4. /\ mmaps' = [mmaps EXCEPT ![i] = n]
          /\ used' \subseteq used
          /\ backing' = BackingAfter(mmaps[i], n)
          /\ \/ /\ req' = [req EXCEPT ![t].base = mmaps[i].base,
                                      ![t].backing = mmaps[i].backing]
                /\ pc' = [pc EXCEPT ![t] = "free"]
             \/ UNCHANGED <<pc, req>>
      BY <2>4 DEF MunmapHit
    <3> HIDE DEF n, e
    <3>5. mmaps' \in [Recs -> Record]
      BY <3>3, <3>4 DEF TypeOK
    <3>6. backing' \in Nat
      BY <3>1, <3>3, <3>4 DEF BackingAfter, Record, TypeOK
    <3>7. req' \in [Threads -> [kind : AllKinds, base : Nat, backing : Nat,
                               idx : Slots \cup {-1}, cnt : Nat]]
      <4>1. /\ mmaps[i].base \in Nat /\ mmaps[i].backing \in Nat
            /\ req \in [Threads -> [kind : AllKinds, base : Nat, backing : Nat,
                                    idx : Slots \cup {-1}, cnt : Nat]]
        BY <3>1 DEF Record, TypeOK
      <4>2. CASE req' = [req EXCEPT ![t].base = mmaps[i].base,
                                    ![t].backing = mmaps[i].backing]
        BY <4>1, <4>2
      <4> QED BY <3>4, <4>1, <4>2
    <3>8. pc' \in [Threads -> {"idle", "alloc", "fill", "undo", "free"}]
      BY <3>4 DEF TypeOK
    <3>9. heap' = heap
      BY <1>9 DEF Munmap
    <3> QED BY <2>2, <3>4, <3>5, <3>6, <3>7, <3>8, <3>9 DEF TypeOK
  <2> QED BY <1>9, <2>3, <2>4 DEF Munmap
<1>10. ASSUME NEW t \in Threads, MunmapFree(t)
       PROVE  TypeOK'
  BY <1>10 DEF MunmapFree, TypeOK, NoReq, AllKinds
<1>11. CASE UNCHANGED vars
  BY <1>11 DEF vars, TypeOK
<1> QED
  BY <1>1, <1>2, <1>3, <1>4, <1>5, <1>6, <1>7, <1>8, <1>9, <1>10, <1>11
  DEF Next, MmapStep, MunmapStep

\* Every variable of the arena, the record table and the calls in flight keeps
\* its type, for any number of threads, slots and records.
THEOREM TypeCorrect == Spec => []TypeOK
  BY TypeInit, TypeStep, PTL DEF Spec

-----------------------------------------------------------------------------
(***************************************************************************)
(* Arena accounting.  ArenaExact alone is not inductive: a request that     *)
(* went to the heap must not name a slot, or freeing it after a failed file *)
(* read, or a second allocation for it, would lose the run it names.        *)
(***************************************************************************)
HeapRequestsHoldNoRun ==
  \A t \in Threads : pc[t] = "alloc" \/ ~IsReserve(req[t].kind) => req[t].idx = -1

IInv == TypeOK /\ ArenaExact /\ HeapRequestsHoldNoRun

\* BitsAccounted, one slot at a time.
LEMMA BitsPointwise ==
  BitsAccounted <=>
    \A b : b \in used <=> \/ \E i \in Recs : b \in RecRun(i)
                          \/ \E t \in Threads : b \in FlyRun(t)
  BY DEF BitsAccounted

\* The same for the next state.
LEMMA BitsPointwisePrime ==
  BitsAccounted' <=>
    \A b : b \in used' <=> \/ \E i \in Recs : b \in RecRun(i)'
                           \/ \E t \in Threads : b \in FlyRun(t)'
  BY DEF BitsAccounted

\* A record or a thread whose state a step leaves alone keeps its run.
LEMMA SameRecRun ==
  ASSUME NEW i \in Recs, mmaps'[i] = mmaps[i]
  PROVE  RecRun(i)' = RecRun(i)
  BY DEF RecRun

\* A thread whose call did not move stands for the slots it stood for.
LEMMA SameFlyRun ==
  ASSUME NEW t \in Threads, pc'[t] = pc[t], req'[t] = req[t]
  PROVE  FlyRun(t)' = FlyRun(t)
  BY DEF FlyRun

\* No run moves: nothing to account for.
LEMMA RunsStay ==
  ASSUME ArenaExact, used' = used,
         \A i \in Recs : RecRun(i)' = RecRun(i),
         \A t \in Threads : FlyRun(t)' = FlyRun(t)
  PROVE  ArenaExact'
<1>1. BitsAccounted'
  BY BitsPointwise, BitsPointwisePrime DEF ArenaExact
<1>2. RunsDisjoint'
  BY DEF ArenaExact, RunsDisjoint
<1> QED BY <1>1, <1>2 DEF ArenaExact

\* A thread takes a run of clear bits.
LEMMA RunTaken ==
  ASSUME ArenaExact, NEW t \in Threads, NEW S,
         S \cap used = {}, used' = used \cup S,
         FlyRun(t) = {}, FlyRun(t)' = S,
         \A i \in Recs : RecRun(i)' = RecRun(i),
         \A u \in Threads \ {t} : FlyRun(u)' = FlyRun(u)
  PROVE  ArenaExact'
<1>1. BitsAccounted'
  BY BitsPointwise, BitsPointwisePrime DEF ArenaExact
<1>2. \A i \in Recs : RecRun(i) \cap S = {}
  BY BitsPointwise DEF ArenaExact
<1>3. \A u \in Threads : FlyRun(u) \cap S = {}
  BY BitsPointwise DEF ArenaExact
<1>4. RunsDisjoint'
  BY <1>2, <1>3 DEF ArenaExact, RunsDisjoint
<1> QED BY <1>1, <1>4 DEF ArenaExact

\* A run passes from a thread to the record it writes.
LEMMA RunRecorded ==
  ASSUME ArenaExact, NEW t \in Threads, NEW i \in Recs,
         used' = used, RecRun(i) = {}, RecRun(i)' = FlyRun(t), FlyRun(t)' = {},
         \A j \in Recs \ {i} : RecRun(j)' = RecRun(j),
         \A u \in Threads \ {t} : FlyRun(u)' = FlyRun(u)
  PROVE  ArenaExact'
<1>1. BitsAccounted'
  BY BitsPointwise, BitsPointwisePrime DEF ArenaExact
<1>2. RunsDisjoint'
  BY DEF ArenaExact, RunsDisjoint
<1> QED BY <1>1, <1>2 DEF ArenaExact

\* A thread gives its run back.
LEMMA RunDropped ==
  ASSUME ArenaExact, NEW t \in Threads,
         used' = used \ FlyRun(t), FlyRun(t)' = {},
         \A i \in Recs : RecRun(i)' = RecRun(i),
         \A u \in Threads \ {t} : FlyRun(u)' = FlyRun(u)
  PROVE  ArenaExact'
<1>1. BitsAccounted'
  <2>1. \A i \in Recs : RecRun(i) \cap FlyRun(t) = {}
    BY DEF ArenaExact, RunsDisjoint
  <2>2. \A u \in Threads \ {t} : FlyRun(u) \cap FlyRun(t) = {}
    BY DEF ArenaExact, RunsDisjoint
  <2> QED BY <2>1, <2>2, BitsPointwise, BitsPointwisePrime DEF ArenaExact
<1>2. RunsDisjoint'
  BY DEF ArenaExact, RunsDisjoint
<1> QED BY <1>1, <1>2 DEF ArenaExact

\* A record gives back a part of its run, F, and keeps the rest.
LEMMA RunShrunk ==
  ASSUME ArenaExact, NEW i \in Recs, NEW F,
         F \subseteq RecRun(i), used' = used \ F, RecRun(i)' = RecRun(i) \ F,
         \A j \in Recs \ {i} : RecRun(j)' = RecRun(j),
         \A u \in Threads : FlyRun(u)' = FlyRun(u)
  PROVE  ArenaExact'
<1>1. BitsAccounted'
  <2>1. \A j \in Recs \ {i} : RecRun(j) \cap F = {}
    BY DEF ArenaExact, RunsDisjoint
  <2>2. \A u \in Threads : FlyRun(u) \cap F = {}
    BY DEF ArenaExact, RunsDisjoint
  <2> QED BY <2>1, <2>2, BitsPointwise, BitsPointwisePrime DEF ArenaExact
<1>2. RunsDisjoint'
  BY DEF ArenaExact, RunsDisjoint
<1> QED BY <1>1, <1>2 DEF ArenaExact

\* The arena slots a record stands for.
RunOf(s) == IF s.used /\ s.idx >= 0 THEN Run(s.idx, s.cnt) ELSE {}

\* A record that munmap trims gives back exactly the slots it drops.
LEMMA TrimFreesWhatItDrops ==
  ASSUME NEW s \in Record, s.used, NEW start \in Nat, NEW end \in Nat
  PROVE  /\ FreedRun(s, start, end) \subseteq RunOf(s)
         /\ RunOf(Trimmed(s, start, end)) = RunOf(s) \ FreedRun(s, start, end)
<1>0. /\ s.lo \in Nat /\ s.hi \in Nat /\ s.cnt \in Nat /\ s.keep \in Nat
      /\ s.idx \in Int
  BY DEF Record, Slots
<1>1. CASE WholeUnmap(s, start, end)
  <2>1. Trimmed(s, start, end) = NoRec
    BY <1>0, <1>1 DEF Trimmed, HeadTrim, TailTrim, TailFreed, WholeUnmap
  <2>2. FreedRun(s, start, end) = RunOf(s)
    BY <1>0, <1>1 DEF FreedRun, TailTrim, TailFreed, WholeUnmap, RunOf
  <2>3. RunOf(NoRec) = {}
    BY DEF RunOf, NoRec
  <2> QED BY <2>1, <2>2, <2>3
<1>2. CASE TailFreed(s, start, end)
  <2>1. Trimmed(s, start, end) = [s EXCEPT !.hi = start, !.cnt = s.keep,
                                          !.backing = s.keep * R]
    BY <1>0, <1>2 DEF Trimmed, HeadTrim, TailTrim, TailFreed, WholeUnmap
  <2>2. FreedRun(s, start, end) = Run(s.idx + s.keep, s.cnt - s.keep)
    BY <1>0, <1>2 DEF FreedRun, TailTrim, TailFreed, WholeUnmap
  <2>3. RunOf(Trimmed(s, start, end)) = Run(s.idx, s.keep)
    BY <1>2, <2>1 DEF RunOf, Record, TailFreed
  <2>4. RunOf(s) = Run(s.idx, s.cnt)
    BY <1>2 DEF RunOf, TailFreed
  <2>5. /\ Run(s.idx + s.keep, s.cnt - s.keep) \subseteq Run(s.idx, s.cnt)
        /\ Run(s.idx, s.keep) = Run(s.idx, s.cnt) \ Run(s.idx + s.keep, s.cnt - s.keep)
    BY <1>0, <1>2 DEF Run, TailFreed
  <2> QED BY <2>2, <2>3, <2>4, <2>5
<1>3. CASE ~WholeUnmap(s, start, end) /\ ~TailFreed(s, start, end)
  <2>1. FreedRun(s, start, end) = {}
    BY <1>3 DEF FreedRun
  <2>2. \/ Trimmed(s, start, end) = s
        \/ Trimmed(s, start, end) = [s EXCEPT !.lo = end]
        \/ Trimmed(s, start, end) = [s EXCEPT !.hi = start]
    BY <1>0, <1>3 DEF Trimmed, HeadTrim, TailTrim
  <2>3. RunOf(Trimmed(s, start, end)) = RunOf(s)
    BY <2>2 DEF RunOf, Record
  <2> QED BY <2>1, <2>3
<1> QED BY <1>1, <1>2, <1>3

\* No bit is set, no record is used and no call is under way.
LEMMA IInit == Init => IInv
<1> SUFFICES ASSUME Init PROVE IInv
  OBVIOUS
<1>1. /\ \A i \in Recs : RecRun(i) = {}
      /\ \A t \in Threads : FlyRun(t) = {}
  BY DEF Init, NoRec, RecRun, FlyRun
<1>2. ArenaExact
  BY <1>1 DEF Init, ArenaExact, BitsAccounted, RunsDisjoint
<1>3. HeapRequestsHoldNoRun
  BY DEF Init, NoReq, HeapRequestsHoldNoRun
<1> QED BY TypeInit, <1>2, <1>3 DEF IInv

\* Every critical section of mmap and munmap preserves the invariant.
LEMMA IStep == IInv /\ [Next]_vars => IInv'
<1> SUFFICES ASSUME IInv, [Next]_vars PROVE IInv'
  OBVIOUS
<1> USE DEF IInv
<1>0. TypeOK'
  BY TypeStep
<1> SUFFICES ArenaExact' /\ HeapRequestsHoldNoRun'
  BY <1>0
<1>1. ASSUME NEW t \in Threads, NEW k \in Kinds, MmapTake(t, k)
      PROVE  ArenaExact' /\ HeapRequestsHoldNoRun'
  <2> k \in AllKinds
    BY ArenaAssumption
  <2>1. PICK i \in Slots :
          /\ TakeRun(i, ArenaCount(k))
          /\ req' = [req EXCEPT ![t] = [kind |-> k, base |-> SlotAddr(i),
                                        backing |-> ArenaCount(k) * R,
                                        idx |-> i, cnt |-> ArenaCount(k)]]
    BY <1>1 DEF MmapTake
  <2>2. /\ Run(i, ArenaCount(k)) \cap used = {}
        /\ used' = used \cup Run(i, ArenaCount(k))
    BY <1>1, <2>1, RunInArena DEF TakeRun, MmapTake
  <2>3. FlyRun(t) = {} /\ FlyRun(t)' = Run(i, ArenaCount(k))
    BY <1>1, <2>1 DEF MmapTake, FlyRun, TypeOK, Slots
  <2>4. \A j \in Recs : RecRun(j)' = RecRun(j)
    BY <1>1, SameRecRun DEF MmapTake
  <2>5. \A u \in Threads \ {t} : FlyRun(u)' = FlyRun(u)
    BY <1>1, <2>1, SameFlyRun DEF MmapTake, TypeOK
  <2>6. ArenaExact'
    BY <2>2, <2>3, <2>4, <2>5, RunTaken
  <2>7. HeapRequestsHoldNoRun'
    BY <1>1, <2>1 DEF MmapTake, HeapRequestsHoldNoRun, TypeOK
  <2> QED BY <2>6, <2>7
<1>2. ASSUME NEW t \in Threads, NEW k \in Kinds, MmapNoRun(t, k)
      PROVE  ArenaExact' /\ HeapRequestsHoldNoRun'
  <2>1. \A j \in Recs : RecRun(j)' = RecRun(j)
    BY <1>2, SameRecRun DEF MmapNoRun
  <2>2. FlyRun(t)' = FlyRun(t)
    BY <1>2 DEF MmapNoRun, FlyRun, TypeOK
  <2>3. \A u \in Threads \ {t} : FlyRun(u)' = FlyRun(u)
    BY <1>2, SameFlyRun DEF MmapNoRun, TypeOK
  <2>4. HeapRequestsHoldNoRun'
    BY <1>2 DEF MmapNoRun, HeapRequestsHoldNoRun, NoReq, TypeOK
  <2> QED BY <1>2, <2>1, <2>2, <2>3, <2>4, RunsStay DEF MmapNoRun
<1>3. ASSUME NEW t \in Threads, MmapAlloc(t)
      PROVE  ArenaExact' /\ HeapRequestsHoldNoRun'
  <2>1. \A j \in Recs : RecRun(j)' = RecRun(j)
    BY <1>3, SameRecRun DEF MmapAlloc
  <2>2. PICK p : req' = [req EXCEPT ![t].base = p, ![t].backing = HeapBacking(req[t].kind)]
    BY <1>3 DEF MmapAlloc
  <2>3. req[t].idx = -1
    BY <1>3 DEF MmapAlloc, HeapRequestsHoldNoRun
  <2>4. FlyRun(t)' = FlyRun(t)
    BY <1>3, <2>2, <2>3 DEF MmapAlloc, FlyRun, TypeOK
  <2>5. \A u \in Threads \ {t} : FlyRun(u)' = FlyRun(u)
    BY <1>3, <2>2, SameFlyRun DEF MmapAlloc, TypeOK
  <2>6. HeapRequestsHoldNoRun'
    BY <1>3, <2>2, <2>3 DEF MmapAlloc, HeapRequestsHoldNoRun, TypeOK
  <2> QED BY <1>3, <2>1, <2>4, <2>5, <2>6, RunsStay DEF MmapAlloc
<1>4. ASSUME NEW t \in Threads, MmapNoMemory(t)
      PROVE  ArenaExact' /\ HeapRequestsHoldNoRun'
  <2>1. \A j \in Recs : RecRun(j)' = RecRun(j)
    BY <1>4, SameRecRun DEF MmapNoMemory
  <2>2. FlyRun(t)' = FlyRun(t)
    BY <1>4 DEF MmapNoMemory, FlyRun, TypeOK
  <2>3. \A u \in Threads \ {t} : FlyRun(u)' = FlyRun(u)
    BY <1>4, SameFlyRun DEF MmapNoMemory, TypeOK
  <2>4. HeapRequestsHoldNoRun'
    BY <1>4 DEF MmapNoMemory, HeapRequestsHoldNoRun, NoReq, TypeOK
  <2> QED BY <1>4, <2>1, <2>2, <2>3, <2>4, RunsStay DEF MmapNoMemory
<1>5. ASSUME NEW t \in Threads, MmapFileError(t)
      PROVE  ArenaExact' /\ HeapRequestsHoldNoRun'
  <2>1. \A j \in Recs : RecRun(j)' = RecRun(j)
    BY <1>5, SameRecRun DEF MmapFileError
  <2>2. req[t].idx = -1
    BY <1>5 DEF MmapFileError, HeapRequestsHoldNoRun, IsReserve
  <2>3. FlyRun(t)' = FlyRun(t)
    BY <1>5, <2>2 DEF MmapFileError, FlyRun, TypeOK
  <2>4. \A u \in Threads \ {t} : FlyRun(u)' = FlyRun(u)
    BY <1>5, SameFlyRun DEF MmapFileError, TypeOK
  <2>5. HeapRequestsHoldNoRun'
    BY <1>5 DEF MmapFileError, HeapRequestsHoldNoRun, NoReq, TypeOK
  <2> QED BY <1>5, <2>1, <2>3, <2>4, <2>5, RunsStay DEF MmapFileError
<1>6. ASSUME NEW t \in Threads, MmapRecord(t)
      PROVE  ArenaExact' /\ HeapRequestsHoldNoRun'
  <2>1. PICK i \in Recs :
          /\ FirstFreeRec(i)
          /\ mmaps' = [mmaps EXCEPT ![i] =
               [used |-> TRUE, base |-> req[t].base, logical |-> Logical(req[t].kind),
                backing |-> req[t].backing, lo |-> req[t].base,
                hi |-> req[t].base + Logical(req[t].kind), idx |-> req[t].idx,
                cnt |-> req[t].cnt, keep |-> KeepCount(req[t].kind)]]
    BY <1>6 DEF MmapRecord
  <2>2. RecRun(i) = {}
    BY <2>1 DEF FirstFreeRec, RecRun
  <2>3. RecRun(i)' = FlyRun(t)
    BY <1>6, <2>1 DEF MmapRecord, RecRun, FlyRun, TypeOK
  <2>4. FlyRun(t)' = {}
    BY <1>6 DEF MmapRecord, FlyRun, TypeOK
  <2>5. \A j \in Recs \ {i} : RecRun(j)' = RecRun(j)
    BY <2>1, SameRecRun DEF TypeOK
  <2>6. \A u \in Threads \ {t} : FlyRun(u)' = FlyRun(u)
    BY <1>6, SameFlyRun DEF MmapRecord, TypeOK
  <2>7. ArenaExact'
    BY <1>6, <2>2, <2>3, <2>4, <2>5, <2>6, RunRecorded DEF MmapRecord
  <2>8. HeapRequestsHoldNoRun'
    BY <1>6 DEF MmapRecord, HeapRequestsHoldNoRun, NoReq, TypeOK
  <2> QED BY <2>7, <2>8
<1>7. ASSUME NEW t \in Threads, MmapNoRecord(t)
      PROVE  ArenaExact' /\ HeapRequestsHoldNoRun'
  <2>1. \A j \in Recs : RecRun(j)' = RecRun(j)
    BY <1>7, SameRecRun DEF MmapNoRecord
  <2>2. FlyRun(t)' = FlyRun(t)
    BY <1>7 DEF MmapNoRecord, FlyRun, TypeOK
  <2>3. \A u \in Threads \ {t} : FlyRun(u)' = FlyRun(u)
    BY <1>7, SameFlyRun DEF MmapNoRecord, TypeOK
  <2>4. HeapRequestsHoldNoRun'
    BY <1>7 DEF MmapNoRecord, HeapRequestsHoldNoRun, TypeOK
  <2> QED BY <1>7, <2>1, <2>2, <2>3, <2>4, RunsStay DEF MmapNoRecord
<1>8. ASSUME NEW t \in Threads, MmapUndo(t)
      PROVE  ArenaExact' /\ HeapRequestsHoldNoRun'
  <2>1. \A j \in Recs : RecRun(j)' = RecRun(j)
    BY <1>8, SameRecRun DEF MmapUndo
  <2>2. FlyRun(t)' = {}
    BY <1>8 DEF MmapUndo, FlyRun, TypeOK
  <2>3. \A u \in Threads \ {t} : FlyRun(u)' = FlyRun(u)
    BY <1>8, SameFlyRun DEF MmapUndo, TypeOK
  <2>4. used' = used \ FlyRun(t)
    BY <1>8 DEF MmapUndo, Released, FlyRun
  <2>5. HeapRequestsHoldNoRun'
    BY <1>8 DEF MmapUndo, HeapRequestsHoldNoRun, NoReq, TypeOK
  <2> QED BY <2>1, <2>2, <2>3, <2>4, <2>5, RunDropped
<1>9. ASSUME NEW t \in Threads, NEW m \in held,
             NEW start \in Units(m.lo, m.hi), NEW end \in Units(m.lo + 1, m.hi + 1),
             Munmap(t, m, start, end)
      PROVE  ArenaExact' /\ HeapRequestsHoldNoRun'
  <2>1. start \in Nat /\ end \in Nat
    BY DEF TypeOK, Units
  <2>2. CASE UNCHANGED <<mmaps, used, backing, pc, req>>
    <3>1. \A j \in Recs : RecRun(j)' = RecRun(j)
      BY <2>2, SameRecRun
    <3>2. \A u \in Threads : FlyRun(u)' = FlyRun(u)
      BY <2>2, SameFlyRun
    <3>3. HeapRequestsHoldNoRun'
      BY <2>2 DEF HeapRequestsHoldNoRun
    <3> QED BY <2>2, <3>1, <3>2, <3>3, RunsStay
  <2>3. ASSUME NEW i \in Recs, FirstHit(i, start), MunmapHit(t, i, start, end)
        PROVE  ArenaExact' /\ HeapRequestsHoldNoRun'
    <3> DEFINE e == Clipped(mmaps[i], end)
               n == Trimmed(mmaps[i], start, e)
               F == FreedRun(mmaps[i], start, e)
    <3>1. mmaps[i] \in Record /\ mmaps[i].used
      BY <2>3 DEF TypeOK, FirstHit, Hit
    <3>2. e \in Nat
      BY <2>1, <3>1, TrimmedType
    <3>3. F \subseteq RunOf(mmaps[i]) /\ RunOf(n) = RunOf(mmaps[i]) \ F
      BY <2>1, <3>1, <3>2, TrimFreesWhatItDrops
    <3>4. /\ mmaps' = [mmaps EXCEPT ![i] = n]
          /\ used' = used \ F
          /\ \/ /\ req' = [req EXCEPT ![t].base = mmaps[i].base,
                                      ![t].backing = mmaps[i].backing]
                /\ pc' = [pc EXCEPT ![t] = "free"]
             \/ UNCHANGED <<pc, req>>
      BY <2>3 DEF MunmapHit
    <3>5. pc[t] = "idle"
      BY <1>9 DEF Munmap
    <3> HIDE DEF n, e, F
    <3>6. RecRun(i) = RunOf(mmaps[i]) /\ RecRun(i)' = RunOf(n)
      BY <3>4 DEF RecRun, RunOf, TypeOK
    <3>7. \A j \in Recs \ {i} : RecRun(j)' = RecRun(j)
      BY <3>4, SameRecRun DEF TypeOK
    <3>8. FlyRun(t)' = FlyRun(t)
      BY <3>4, <3>5 DEF FlyRun, TypeOK
    <3>9. \A u \in Threads \ {t} : FlyRun(u)' = FlyRun(u)
      BY <3>4, SameFlyRun DEF TypeOK
    <3>10. ArenaExact'
      BY <3>3, <3>4, <3>6, <3>7, <3>8, <3>9, RunShrunk
    <3>11. HeapRequestsHoldNoRun'
      BY <3>4, <3>5 DEF HeapRequestsHoldNoRun, TypeOK
    <3> QED BY <3>10, <3>11
  <2> QED BY <1>9, <2>2, <2>3 DEF Munmap
<1>10. ASSUME NEW t \in Threads, MunmapFree(t)
       PROVE  ArenaExact' /\ HeapRequestsHoldNoRun'
  <2>1. \A j \in Recs : RecRun(j)' = RecRun(j)
    BY <1>10, SameRecRun DEF MunmapFree
  <2>2. FlyRun(t)' = FlyRun(t)
    BY <1>10 DEF MunmapFree, FlyRun, TypeOK
  <2>3. \A u \in Threads \ {t} : FlyRun(u)' = FlyRun(u)
    BY <1>10, SameFlyRun DEF MunmapFree, TypeOK
  <2>4. HeapRequestsHoldNoRun'
    BY <1>10 DEF MunmapFree, HeapRequestsHoldNoRun, NoReq, TypeOK
  <2> QED BY <1>10, <2>1, <2>2, <2>3, <2>4, RunsStay DEF MunmapFree
<1>11. CASE UNCHANGED vars
  <2>1. \A j \in Recs : RecRun(j)' = RecRun(j)
    BY <1>11, SameRecRun DEF vars
  <2>2. \A u \in Threads : FlyRun(u)' = FlyRun(u)
    BY <1>11, SameFlyRun DEF vars
  <2>3. HeapRequestsHoldNoRun'
    BY <1>11 DEF vars, HeapRequestsHoldNoRun
  <2> QED BY <1>11, <2>1, <2>2, <2>3, RunsStay DEF vars
<1> QED
  BY <1>1, <1>2, <1>3, <1>4, <1>5, <1>6, <1>7, <1>8, <1>9, <1>10, <1>11
  DEF Next, MmapStep, MunmapStep

\* Every set bit of the arena mask belongs to exactly one record or one mmap
\* in flight and every run is set, whatever the threads, sizes and requests.
THEOREM ArenaAccounting == Spec => []ArenaExact
<1>1. IInv => ArenaExact
  BY DEF IInv
<1> QED BY <1>1, IInit, IStep, PTL DEF Spec

-----------------------------------------------------------------------------
(***************************************************************************)
(* The record table and the guest.  A live interval is never empty and ends *)
(* within the record's logical range, so clipping never changes what the    *)
(* guest names.                                                             *)
(***************************************************************************)
Shaped(s) == s.used => s.lo < s.hi /\ s.hi <= s.base + s.logical

SInv == IInv /\ \A i \in Recs : Shaped(mmaps[i])

\* The record munmap finds is freed, cut at its head or its tail, or left alone.
LEMMA TrimmedIs ==
  ASSUME NEW s \in Record, NEW start \in Nat, NEW end \in Nat
  PROVE  \/ WholeUnmap(s, start, end) /\ Trimmed(s, start, end) = NoRec
         \/ HeadTrim(s, start, end) /\ Trimmed(s, start, end) = [s EXCEPT !.lo = end]
         \/ /\ TailFreed(s, start, end)
            /\ Trimmed(s, start, end) = [s EXCEPT !.hi = start, !.cnt = s.keep,
                                                  !.backing = s.keep * R]
         \/ /\ TailTrim(s, start, end) /\ ~TailFreed(s, start, end)
            /\ Trimmed(s, start, end) = [s EXCEPT !.hi = start]
         \/ /\ ~WholeUnmap(s, start, end) /\ ~HeadTrim(s, start, end)
            /\ ~TailTrim(s, start, end) /\ Trimmed(s, start, end) = s
<1>1. CASE WholeUnmap(s, start, end)
  BY <1>1 DEF Trimmed, HeadTrim, TailTrim, TailFreed, WholeUnmap, Record
<1>2. CASE HeadTrim(s, start, end)
  BY <1>2 DEF Trimmed, HeadTrim, TailTrim, TailFreed, WholeUnmap, Record
<1>3. CASE TailFreed(s, start, end)
  BY <1>3 DEF Trimmed, HeadTrim, TailTrim, TailFreed, WholeUnmap, Record
<1>4. CASE TailTrim(s, start, end) /\ ~TailFreed(s, start, end)
  BY <1>4 DEF Trimmed, HeadTrim, TailTrim, WholeUnmap, Record
<1>5. CASE /\ ~WholeUnmap(s, start, end) /\ ~HeadTrim(s, start, end)
           /\ ~TailTrim(s, start, end)
  BY <1>5 DEF Trimmed, TailFreed
<1> QED  BY <1>1, <1>2, <1>3, <1>4, <1>5 DEF TailFreed

\* What is left of it is what it was, between new ends that do not cross.
LEMMA TrimmedKeeps ==
  ASSUME NEW s \in Record, s.used, Shaped(s), NEW start \in Nat, NEW end \in Nat,
         NEW n, n = Trimmed(s, start, end)
  PROVE  \/ n = NoRec /\ WholeUnmap(s, start, end)
         \/ /\ n \in Record /\ n.used /\ Shaped(n) /\ ~WholeUnmap(s, start, end)
            /\ n.base = s.base /\ n.logical = s.logical /\ n.idx = s.idx /\ n.keep = s.keep
            /\ s.lo <= n.lo /\ n.hi <= s.hi
<1>0. HeadTrim(s, start, end) \/ TailTrim(s, start, end) => ~WholeUnmap(s, start, end)
  BY DEF HeadTrim, TailTrim, WholeUnmap, Record
<1>1. CASE WholeUnmap(s, start, end) /\ n = NoRec
  BY <1>1
<1>2. CASE HeadTrim(s, start, end) /\ n = [s EXCEPT !.lo = end]
  BY <1>0, <1>2 DEF HeadTrim, WholeUnmap, Shaped, Record
<1>3. CASE /\ TailFreed(s, start, end)
           /\ n = [s EXCEPT !.hi = start, !.cnt = s.keep, !.backing = s.keep * R]
  <2>1. PICK b \in Nat : b = s.keep * R
    BY SizesNat DEF Record
  <2>2. n = [s EXCEPT !.hi = start, !.cnt = s.keep, !.backing = b] /\ TailTrim(s, start, end)
    BY <1>3, <2>1 DEF TailFreed
  <2>3. n \in Record
    BY <2>2 DEF Record
  <2>4. /\ n.used /\ n.base = s.base /\ n.logical = s.logical /\ n.idx = s.idx
        /\ n.keep = s.keep /\ n.lo = s.lo /\ n.hi = start
    BY <2>2 DEF Record
  <2> QED  BY <1>0, <2>2, <2>3, <2>4 DEF TailTrim, Shaped, Record
<1>4. CASE TailTrim(s, start, end) /\ n = [s EXCEPT !.hi = start]
  BY <1>0, <1>4 DEF TailTrim, Shaped, Record
<1>5. CASE n = s /\ ~WholeUnmap(s, start, end)
  BY <1>5 DEF Record
<1> QED  BY <1>1, <1>2, <1>3, <1>4, <1>5, TrimmedIs

\* mmap writes a free record for what it answers with, and the guest holds that.
LEMMA RecordIs ==
  ASSUME IInv, NEW t \in Threads, MmapRecord(t)
  PROVE  \E i \in Recs, r \in Record, h \in [base : Nat, lo : Nat, hi : Nat, keep : Nat] :
           /\ ~mmaps[i].used /\ mmaps' = [mmaps EXCEPT ![i] = r] /\ held' = held \cup {h}
           /\ r.used /\ r.base = req[t].base /\ r.backing = req[t].backing
           /\ r.idx = req[t].idx /\ r.cnt = req[t].cnt /\ Shaped(r)
           /\ r.lo = req[t].base /\ r.hi = req[t].base + Logical(req[t].kind)
           /\ h.base = r.base /\ h.lo = r.lo /\ h.hi = r.hi /\ h.keep = r.keep
<1> DEFINE r == [used |-> TRUE, base |-> req[t].base, logical |-> Logical(req[t].kind),
                 backing |-> req[t].backing, lo |-> req[t].base,
                 hi |-> req[t].base + Logical(req[t].kind), idx |-> req[t].idx,
                 cnt |-> req[t].cnt, keep |-> KeepCount(req[t].kind)]
           h == [base |-> req[t].base, lo |-> req[t].base,
                 hi |-> req[t].base + Logical(req[t].kind),
                 keep |-> KeepCount(req[t].kind)]
<1>1. /\ req[t] \in [kind : AllKinds, base : Nat, backing : Nat, idx : Slots \cup {-1}, cnt : Nat]
      /\ Logical(req[t].kind) \in Nat \ {0} /\ KeepCount(req[t].kind) \in Nat
  BY GeometryNat DEF IInv, TypeOK
<1>2. /\ r \in Record /\ r.used /\ r.base = req[t].base /\ r.backing = req[t].backing
      /\ r.idx = req[t].idx /\ r.cnt = req[t].cnt /\ Shaped(r)
      /\ r.lo = req[t].base /\ r.hi = req[t].base + Logical(req[t].kind)
  BY <1>1 DEF Record, Shaped
<1>3. /\ h \in [base : Nat, lo : Nat, hi : Nat, keep : Nat]
      /\ h.base = r.base /\ h.lo = r.lo /\ h.hi = r.hi /\ h.keep = r.keep
  BY <1>1
<1>4. PICK i \in Recs : ~mmaps[i].used /\ mmaps' = [mmaps EXCEPT ![i] = r]
  BY DEF MmapRecord, FirstFreeRec
<1>5. held' = held \cup {h}
  BY DEF MmapRecord
<1> HIDE DEF r, h
<1> QED  BY <1>2, <1>3, <1>4, <1>5

\* Only these steps change the record table or what the guest holds.
LEMMA TableSteps ==
  ASSUME [Next]_vars
  PROVE  \/ UNCHANGED <<mmaps, held>>
         \/ \E t \in Threads : MmapRecord(t)
         \/ \E t \in Threads, m \in held :
              \E start \in Units(m.lo, m.hi), end \in Units(m.lo + 1, m.hi + 1) :
                start < end /\ Munmap(t, m, start, end)
BY DEF Next, MmapStep, MunmapStep, vars, MmapTake, MmapNoRun, MmapAlloc, MmapNoMemory,
   MmapFileError, MmapNoRecord, MmapUndo, MunmapFree

\* A record in use describes memory of its own kind and size.
LEMMA ShapedStep == SInv /\ [Next]_vars => SInv'
<1> SUFFICES ASSUME SInv, [Next]_vars PROVE \A i \in Recs : Shaped(mmaps[i])'
  BY IStep DEF SInv
<1>1. CASE UNCHANGED <<mmaps, held>>
  BY <1>1 DEF SInv
<1>2. ASSUME NEW t \in Threads, MmapRecord(t)
      PROVE  \A i \in Recs : Shaped(mmaps[i])'
  <2>1. PICK i \in Recs, r \in Record : mmaps' = [mmaps EXCEPT ![i] = r] /\ Shaped(r)
    BY <1>2, RecordIs DEF SInv
  <2> QED  BY <2>1 DEF SInv, IInv, TypeOK
<1>3. ASSUME NEW t \in Threads, NEW m \in held,
             NEW start \in Units(m.lo, m.hi), NEW end \in Units(m.lo + 1, m.hi + 1),
             Munmap(t, m, start, end)
      PROVE  \A i \in Recs : Shaped(mmaps[i])'
  <2>1. start \in Nat /\ end \in Nat
    BY DEF SInv, IInv, TypeOK, Units
  <2>2. CASE mmaps' = mmaps
    BY <2>2 DEF SInv
  <2>3. ASSUME NEW i \in Recs, FirstHit(i, start), MunmapHit(t, i, start, end)
        PROVE  \A j \in Recs : Shaped(mmaps[j])'
    <3> DEFINE e == Clipped(mmaps[i], end)
               n == Trimmed(mmaps[i], start, e)
    <3>1. mmaps[i] \in Record /\ mmaps[i].used /\ Shaped(mmaps[i])
      BY <2>3 DEF SInv, IInv, TypeOK, FirstHit, Hit
    <3>2. e \in Nat
      BY <2>1, <3>1, TrimmedType
    <3>3. mmaps' = [mmaps EXCEPT ![i] = n]
      BY <2>3 DEF MunmapHit
    <3> HIDE DEF e
    <3>4. Shaped(n)
      BY <2>1, <3>1, <3>2, TrimmedKeeps DEF Shaped, NoRec
    <3> HIDE DEF n
    <3> QED  BY <3>3, <3>4 DEF SInv, IInv, TypeOK
  <2> QED  BY <1>3, <2>2, <2>3 DEF Munmap
<1> QED  BY <1>1, <1>2, <1>3, TableSteps

\* What the guest unmaps of m cuts the record that mirrors m as it cuts m.
LEMMA GuestCut ==
  ASSUME SInv, NEW m \in held, NEW i \in Recs, Mirrors(i, m),
         NEW start \in Units(m.lo, m.hi), NEW end \in Units(m.lo + 1, m.hi + 1),
         start < end, GuestMayUnmap(m, start, end), NEW n, n = Trimmed(mmaps[i], start, end)
  PROVE  /\ Hit(i, start) /\ Clipped(mmaps[i], end) = end
         /\ \/ n = NoRec /\ Remainder(m, start, end) = {}
            \/ /\ n \in Record /\ n.used
               /\ \E x \in Remainder(m, start, end) :
                    /\ Remainder(m, start, end) = {x}
                    /\ x.base = n.base /\ x.keep = n.keep /\ x.lo = n.lo /\ x.hi = n.hi
<1> DEFINE tail == [m EXCEPT !.hi = start]
           head == [m EXCEPT !.lo = end]
<1>0. PICK s \in Record : s = mmaps[i]
  BY DEF SInv, IInv, TypeOK
<1>1. /\ n = Trimmed(s, start, end) /\ s.used /\ s.lo < s.hi /\ s.hi <= s.base + s.logical
      /\ m \in [base : Nat, lo : Nat, hi : Nat, keep : Nat] /\ Shaped(s)
      /\ m.base = s.base /\ m.keep = s.keep /\ m.lo = s.lo /\ m.hi = s.hi
  BY <1>0 DEF Mirrors, SInv, IInv, TypeOK, Shaped
<1>2. /\ start \in Nat /\ end \in Nat /\ s.lo <= start /\ start < s.hi /\ end <= s.hi
      /\ s.base \in Nat /\ s.logical \in Nat /\ s.lo \in Nat /\ s.hi \in Nat
  BY <1>1 DEF Units, Record
<1>3. Hit(i, start) /\ Clipped(s, end) = end
  BY <1>0, <1>1, <1>2 DEF Hit, Clipped
<1>4. start = s.lo \/ end = s.hi
  BY <1>1 DEF GuestMayUnmap
<1>5. /\ tail.base = s.base /\ tail.keep = s.keep /\ tail.lo = s.lo /\ tail.hi = start
      /\ head.base = s.base /\ head.keep = s.keep /\ head.lo = end /\ head.hi = s.hi
  BY <1>1
<1>6. Remainder(m, start, end) = {x \in {tail, head} : x.lo < x.hi}
  BY DEF Remainder
<1>7. n = NoRec \/ (n \in Record /\ n.used /\ n.base = s.base /\ n.keep = s.keep)
  BY <1>1, <1>2, TrimmedKeeps
<1> HIDE DEF tail, head
<1>8. CASE start = s.lo /\ end = s.hi
  <2>1. n = NoRec
    <3>1. WholeUnmap(s, start, end) /\ ~HeadTrim(s, start, end) /\ ~TailTrim(s, start, end)
      BY <1>2, <1>8 DEF WholeUnmap, HeadTrim, TailTrim
    <3> QED  BY <1>1, <1>2, <3>1, TrimmedIs DEF TailFreed
  <2>2. ~(tail.lo < tail.hi) /\ ~(head.lo < head.hi)
    BY <1>2, <1>5, <1>8
  <2> QED  BY <1>0, <1>3, <1>6, <2>1, <2>2
<1>9. CASE start = s.lo /\ end # s.hi
  <2>1. n.lo = end /\ n.hi = s.hi /\ n # NoRec
    <3>1. /\ HeadTrim(s, start, end) /\ ~WholeUnmap(s, start, end)
          /\ ~TailTrim(s, start, end)
      BY <1>2, <1>9 DEF HeadTrim, WholeUnmap, TailTrim
    <3>2. n = [s EXCEPT !.lo = end]
      BY <1>1, <1>2, <3>1, TrimmedIs DEF TailFreed
    <3> QED  BY <1>1, <3>2 DEF Record, NoRec
  <2>2. ~(tail.lo < tail.hi) /\ head.lo < head.hi
    BY <1>2, <1>5, <1>9
  <2> QED  BY <1>0, <1>3, <1>5, <1>6, <1>7, <2>1, <2>2
<1>10. CASE start # s.lo
  <2>1. n.lo = s.lo /\ n.hi = start /\ n # NoRec
    <3>1. ~WholeUnmap(s, start, end) /\ ~HeadTrim(s, start, end) /\ TailTrim(s, start, end)
      BY <1>2, <1>4, <1>10 DEF WholeUnmap, HeadTrim, TailTrim
    <3>2. \/ n = [s EXCEPT !.hi = start]
          \/ n = [s EXCEPT !.hi = start, !.cnt = s.keep, !.backing = s.keep * R]
      BY <1>1, <1>2, <3>1, TrimmedIs
    <3>3. n.lo = s.lo /\ n.hi = start /\ n.used
      BY <1>1, <3>2 DEF Record
    <3> QED  BY <3>3 DEF NoRec
  <2>2. tail.lo < tail.hi /\ ~(head.lo < head.hi)
    BY <1>2, <1>4, <1>5, <1>10
  <2> QED  BY <1>0, <1>3, <1>5, <1>6, <1>7, <2>1, <2>2
<1> QED  BY <1>4, <1>8, <1>9, <1>10

\* When no two intervals overlap, munmap finds the record of the mapping that the guest
\* names, no other mapping has that record, and the record then mirrors what is left.
LEMMA UnmapIs ==
  ASSUME SInv, LiveDisjoint, RecordsMatchGuest, NEW t \in Threads, NEW m \in held,
         NEW start \in Units(m.lo, m.hi), NEW end \in Units(m.lo + 1, m.hi + 1), start < end,
         Munmap(t, m, start, end)
  PROVE  \E i \in Recs :
           /\ Mirrors(i, m) /\ MunmapHit(t, i, start, end) /\ Clipped(mmaps[i], end) = end
           /\ \A h \in held \ {m} : ~Mirrors(i, h)
           /\ \A j \in Recs \ {i} : ~Mirrors(j, m)
<1>1. PICK i \in Recs : Mirrors(i, m)
  BY DEF RecordsMatchGuest
<1>2. Hit(i, start) /\ Clipped(mmaps[i], end) = end
  BY <1>1, GuestCut DEF Munmap
<1>3. start \in Nat /\ mmaps \in [Recs -> Record]
  BY DEF SInv, IInv, TypeOK, Units
<1>4. \A j \in Recs \ {i} : ~Hit(j, start)
  BY <1>2, <1>3 DEF LiveDisjoint, Hit, Units, Record
<1>5. MunmapHit(t, i, start, end)
  BY <1>2, <1>4 DEF Munmap, FirstHit
<1>6. \A h \in held \ {m} : ~Mirrors(i, h)
  BY <1>1 DEF Mirrors, SInv, IInv, TypeOK
<1>7. \A j \in Recs \ {i} : ~Mirrors(j, m)
  BY <1>1, <1>2, <1>4 DEF Mirrors, Hit
<1> QED  BY <1>1, <1>2, <1>5, <1>6, <1>7

\* While live intervals are disjoint, an unmap changes the record of its own mapping only.
LEMMA MatchStep ==
  SInv /\ LiveDisjoint /\ RecordsMatchGuest /\ [Next]_vars => RecordsMatchGuest'
<1> SUFFICES ASSUME SInv, LiveDisjoint, RecordsMatchGuest, [Next]_vars
             PROVE  RecordsMatchGuest'
  OBVIOUS
<1>1. CASE UNCHANGED <<mmaps, held>>
  BY <1>1 DEF RecordsMatchGuest, Mirrors
<1>2. ASSUME NEW t \in Threads, MmapRecord(t)
      PROVE  RecordsMatchGuest'
  <2>1. PICK i \in Recs, r \in Record, h \in [base : Nat, lo : Nat, hi : Nat, keep : Nat] :
          /\ ~mmaps[i].used /\ mmaps' = [mmaps EXCEPT ![i] = r] /\ held' = held \cup {h}
          /\ r.used /\ h.base = r.base /\ h.lo = r.lo /\ h.hi = r.hi /\ h.keep = r.keep
    BY <1>2, RecordIs DEF SInv
  <2>2. mmaps'[i] = r /\ \A j \in Recs \ {i} : mmaps'[j] = mmaps[j]
    BY <2>1 DEF SInv, IInv, TypeOK
  <2> QED  BY <2>1, <2>2 DEF RecordsMatchGuest, Mirrors
<1>3. ASSUME NEW t \in Threads, NEW m \in held,
             NEW start \in Units(m.lo, m.hi), NEW end \in Units(m.lo + 1, m.hi + 1),
             start < end, Munmap(t, m, start, end)
      PROVE  RecordsMatchGuest'
  <2>1. PICK i \in Recs :
          /\ Mirrors(i, m) /\ MunmapHit(t, i, start, end) /\ Clipped(mmaps[i], end) = end
          /\ \A h \in held \ {m} : ~Mirrors(i, h)
          /\ \A j \in Recs \ {i} : ~Mirrors(j, m)
    BY <1>3, UnmapIs
  <2> DEFINE n == Trimmed(mmaps[i], start, end)
  <2>2. held' = (held \ {m}) \cup Remainder(m, start, end) /\ mmaps' = [mmaps EXCEPT ![i] = n]
    BY <1>3, <2>1 DEF Munmap, MunmapHit
  <2>3. \/ n = NoRec /\ Remainder(m, start, end) = {}
        \/ /\ n.used
           /\ \E x \in Remainder(m, start, end) :
                /\ Remainder(m, start, end) = {x}
                /\ x.base = n.base /\ x.keep = n.keep /\ x.lo = n.lo /\ x.hi = n.hi
    BY <1>3, <2>1, GuestCut DEF Munmap
  <2> HIDE DEF n
  <2>4. mmaps'[i] = n /\ \A j \in Recs \ {i} : mmaps'[j] = mmaps[j]
    BY <2>2 DEF SInv, IInv, TypeOK
  <2>5. \A j \in Recs \ {i} : \A h : Mirrors(j, h)' <=> Mirrors(j, h)
    BY <2>4 DEF Mirrors
  <2>6. \A j \in Recs \ {i} : mmaps'[j].used => \E h \in held' : Mirrors(j, h)'
    BY <2>1, <2>2, <2>4, <2>5 DEF RecordsMatchGuest
  <2>7. \A h \in held \ {m} : \E j \in Recs : Mirrors(j, h)'
    BY <2>1, <2>5 DEF RecordsMatchGuest
  <2>8. CASE n = NoRec /\ Remainder(m, start, end) = {}
    BY <2>2, <2>4, <2>6, <2>7, <2>8 DEF RecordsMatchGuest, NoRec
  <2>9. ASSUME n.used, NEW x, Remainder(m, start, end) = {x}, x.base = n.base,
               x.keep = n.keep, x.lo = n.lo, x.hi = n.hi
        PROVE  RecordsMatchGuest'
    <3>1. Mirrors(i, x)' /\ x \in held'
      BY <2>2, <2>4, <2>9 DEF Mirrors
    <3> QED  BY <2>2, <2>6, <2>7, <2>9, <3>1 DEF RecordsMatchGuest
  <2> QED  BY <2>3, <2>8, <2>9
<1> QED  BY <1>1, <1>2, <1>3, TableSteps

LEMMA ShapedAlways == Spec => []SInv
<1>1. Init => SInv
  BY IInit DEF Init, SInv, Shaped, NoRec
<1> QED  BY <1>1, ShapedStep, PTL DEF Spec

\* bionic_munmap's search and trims are exact for every request and every guest: from a
\* state whose records mirror the guest and do not overlap they go on mirroring it.
THEOREM UnmapExact == Spec => UnmapKeepsMatch
<1>1. SInv /\ [Next]_vars =>
        [LiveDisjoint /\ RecordsMatchGuest => RecordsMatchGuest']_vars
  BY MatchStep
<1> QED  BY <1>1, ShapedAlways, PTL DEF Spec, UnmapKeepsMatch

-----------------------------------------------------------------------------
(***************************************************************************)
(* The sum over the records.  A statement about the first n of them is      *)
(* proved by looking at the least n for which it fails.                     *)
(***************************************************************************)
\* A set of natural numbers has a least element.
LEMMA Least ==
  ASSUME NEW S \in SUBSET Nat, S # {}
  PROVE  \E n \in S : \A m \in S : n <= m
<1> DEFINE less == {ss \in Nat \X Nat : ss[1] < ss[2]}
<1>1. less = OpToRel(<, Nat)
  BY DEF OpToRel
<1>2. IsWellFoundedOn(less, Nat)
  BY <1>1, NatLessThanWellFounded
<1> HIDE DEF less
<1>3. \E n \in S : \A m \in S : ~(<<m, n>> \in less)
  BY <1>2, WFMin
<1>4. \A m, n \in Nat : ~(<<m, n>> \in less) => n <= m
  BY DEF less
<1> QED  BY <1>3, <1>4

\* f sums g up to the n-th place.
Sums(f, g, n) ==
  f \in [0 .. n -> Nat] /\ f[0] = 0 /\ \A k \in 1 .. n : f[k] = f[k - 1] + g[k]

\* Any bytes can be summed.
LEMMA SumExists ==
  ASSUME NEW g \in [Recs -> Nat]
  PROVE  \E f : Sums(f, g, MaxRec)
<1> DEFINE S == {n \in 0 .. MaxRec : ~\E f : Sums(f, g, n)}
<1>1. SUFFICES ASSUME S # {} PROVE FALSE
  BY ArenaAssumption
<1>2. PICK n \in S : \A m \in S : n <= m
  <2>1. S \in SUBSET Nat
    BY ArenaAssumption
  <2> HIDE DEF S
  <2> QED  BY <1>1, <2>1, Least
<1>3. CASE n = 0
  <2> DEFINE e == [k \in 0 .. 0 |-> 0]
  <2>1. Sums(e, g, 0)
    BY DEF Sums
  <2> QED  BY <1>2, <1>3, <2>1
<1>4. CASE n # 0
  <2>1. n \in Recs /\ n - 1 \in 0 .. MaxRec /\ n - 1 < n /\ n \in Nat
    BY <1>2, <1>4, ArenaAssumption DEF Recs
  <2>2. PICK f : Sums(f, g, n - 1)
    BY <1>2, <2>1
  <2> DEFINE e == [k \in 0 .. n |-> IF k < n THEN f[k] ELSE f[n - 1] + g[n]]
  <2>3. f \in [0 .. n - 1 -> Nat] /\ g[n] \in Nat
    BY <2>1, <2>2 DEF Sums
  <2>4. e \in [0 .. n -> Nat] /\ e[0] = 0
    BY <1>4, <2>1, <2>2, <2>3 DEF Sums
  <2>5. ASSUME NEW k \in 1 .. n PROVE e[k] = e[k - 1] + g[k]
    <3>1. CASE k < n
      BY <2>1, <2>2, <3>1 DEF Sums
    <3>2. CASE k = n
      BY <2>1, <3>2
    <3> QED  BY <2>1, <3>1, <3>2
  <2>6. Sums(e, g, n)
    <3> HIDE DEF e
    <3> QED  BY <2>4, <2>5 DEF Sums
  <2> QED  BY <1>2, <2>6
<1> QED  BY <1>3, <1>4

\* The bytes of each record.
Charge == [i \in Recs |-> mmaps[i].backing]

\* Total sums the bytes of the records.
LEMMA TotalIs == TypeOK => Charge \in [Recs -> Nat] /\ Sums(Total, Charge, MaxRec)
<1> SUFFICES ASSUME TypeOK PROVE Charge \in [Recs -> Nat] /\ Sums(Total, Charge, MaxRec)
  OBVIOUS
<1>1. Charge \in [Recs -> Nat] /\ \A i \in Recs : Charge[i] = mmaps[i].backing
  BY DEF TypeOK, Record, Charge
<1>2. PICK f : Sums(f, Charge, MaxRec)
  BY <1>1, SumExists
<1>3. MaxRec \in Nat /\ Recs = 1 .. MaxRec
  BY ArenaAssumption DEF Recs
<1>4. \A n \in 0 .. MaxRec : f[n] = IF n = 0 THEN 0 ELSE f[n - 1] + mmaps[n].backing
  BY <1>1, <1>2, <1>3 DEF Sums
<1>5. f = [n \in 0 .. MaxRec |-> IF n = 0 THEN 0 ELSE f[n - 1] + mmaps[n].backing]
  BY <1>2, <1>4 DEF Sums
<1>6. Total = [n \in 0 .. MaxRec |-> IF n = 0 THEN 0 ELSE Total[n - 1] + mmaps[n].backing]
  BY <1>5 DEF Total
<1> DEFINE S == {n \in 0 .. MaxRec : Total[n] \notin Nat}
<1>7. S = {}
  <2> SUFFICES ASSUME S # {} PROVE FALSE
    OBVIOUS
  <2>1. PICK n \in S : \A m \in S : n <= m
    <3>1. S \in SUBSET Nat
      BY <1>3
    <3> HIDE DEF S
    <3> QED  BY <3>1, Least
  <2>2. n # 0
    BY <1>3, <1>6, <2>1
  <2>3. n - 1 \in 0 .. MaxRec /\ n - 1 < n /\ n \in Recs
    BY <1>3, <2>1, <2>2
  <2>4. Total[n - 1] \in Nat
    BY <2>1, <2>3, <1>3
  <2>5. Total[n] = Total[n - 1] + Charge[n]
    BY <1>1, <1>6, <2>2, <2>3
  <2>6. Total[n] \in Nat
    BY <1>1, <2>3, <2>4, <2>5
  <2> QED  BY <2>1, <2>6
<1>8. \A n \in 1 .. MaxRec : Total[n] = Total[n - 1] + Charge[n]
  BY <1>1, <1>3, <1>6
<1>9. \A n \in 0 .. MaxRec : Total[n] \in Nat
  BY <1>7
<1>10. Total \in [0 .. MaxRec -> Nat]
  BY <1>6, <1>9
<1>11. Total[0] = 0
  BY <1>3, <1>6
<1> QED  BY <1>1, <1>8, <1>10, <1>11 DEF Sums

\* One record's bytes change, and the sum changes by the difference.
LEMMA SumChanges ==
  ASSUME NEW g \in [Recs -> Nat], NEW h \in [Recs -> Nat], NEW j \in Recs,
         \A i \in Recs \ {j} : h[i] = g[i],
         NEW f, Sums(f, g, MaxRec), NEW e, Sums(e, h, MaxRec)
  PROVE  e[MaxRec] = f[MaxRec] - g[j] + h[j] /\ g[j] <= f[MaxRec]
<1>1. MaxRec \in Nat /\ Recs = 1 .. MaxRec /\ j \in Nat /\ j > 0 /\ j <= MaxRec
  BY ArenaAssumption DEF Recs
<1>2. f \in [0 .. MaxRec -> Nat] /\ e \in [0 .. MaxRec -> Nat] /\ f[0] = 0 /\ e[0] = 0
  BY DEF Sums
<1>3. \A k \in Recs : f[k] = f[k - 1] + g[k] /\ e[k] = e[k - 1] + h[k]
  BY <1>1 DEF Sums
<1> DEFINE Good(k) == IF k < j THEN e[k] = f[k] ELSE e[k] = f[k] - g[j] + h[j] /\ g[j] <= f[k]
           S == {k \in 0 .. MaxRec : ~Good(k)}
<1>4. S = {}
  <2> SUFFICES ASSUME S # {} PROVE FALSE
    OBVIOUS
  <2>1. PICK n \in S : \A m \in S : n <= m
    <3>1. S \in SUBSET Nat
      BY <1>1
    <3> HIDE DEF S
    <3> QED  BY <3>1, Least
  <2>2. n # 0
    BY <1>1, <1>2, <2>1
  <2>3. /\ n - 1 \in 0 .. MaxRec /\ n - 1 < n /\ n \in Recs /\ n \in Nat
        /\ f[n] = f[n - 1] + g[n] /\ e[n] = e[n - 1] + h[n]
    BY <1>1, <1>3, <2>1, <2>2
  <2>4. Good(n - 1)
    <3> HIDE DEF Good
    <3> QED  BY <2>1, <2>3
  <2>5. /\ f[n - 1] \in Nat /\ e[n - 1] \in Nat /\ f[n] \in Nat /\ e[n] \in Nat
        /\ g[n] \in Nat /\ h[n] \in Nat /\ g[j] \in Nat /\ h[j] \in Nat
    BY <1>1, <1>2, <2>3
  <2>6. CASE n = j
    BY <1>1, <2>3, <2>4, <2>5, <2>6, <2>1
  <2>7. CASE n < j
    <3>1. h[n] = g[n] /\ n - 1 < j
      BY <1>1, <2>3, <2>7
    <3> QED  BY <2>1, <2>3, <2>4, <2>5, <2>7, <3>1
  <2>8. CASE n > j
    <3>1. h[n] = g[n] /\ ~(n - 1 < j) /\ ~(n < j)
      BY <1>1, <2>3, <2>8
    <3> QED  BY <2>1, <2>3, <2>4, <2>5, <3>1
  <2> QED  BY <1>1, <2>3, <2>6, <2>7, <2>8
<1>5. Good(MaxRec)
  <2> HIDE DEF Good
  <2> QED  BY <1>1, <1>4
<1> QED  BY <1>1, <1>5

\* A step that changes one record changes the sum by the difference.
LEMMA TotalChanges ==
  ASSUME TypeOK, TypeOK', NEW j \in Recs, NEW n \in Record, mmaps' = [mmaps EXCEPT ![j] = n]
  PROVE  /\ Total[MaxRec] \in Nat /\ mmaps[j].backing <= Total[MaxRec]
         /\ Total'[MaxRec] = Total[MaxRec] - mmaps[j].backing + n.backing
<1>1. Charge \in [Recs -> Nat] /\ Sums(Total, Charge, MaxRec)
  BY TotalIs
<1>2. TypeOK' => (Charge \in [Recs -> Nat] /\ Sums(Total, Charge, MaxRec))'
  BY TotalIs, PTL
<1>3. Charge' \in [Recs -> Nat] /\ Sums(Total', Charge', MaxRec)
  BY <1>2 DEF Sums
<1>4. PICK f, g : f = Total /\ g = Charge
  OBVIOUS
<1>5. PICK e, h : e = Total' /\ h = Charge'
  OBVIOUS
<1>6. /\ g[j] = mmaps[j].backing /\ h[j] = n.backing
      /\ \A i \in Recs \ {j} : h[i] = g[i]
  BY <1>4, <1>5 DEF Charge, TypeOK
<1>7. e[MaxRec] = f[MaxRec] - g[j] + h[j] /\ g[j] <= f[MaxRec]
  BY <1>1, <1>3, <1>4, <1>5, <1>6, SumChanges
<1>8. f[MaxRec] \in Nat
  BY <1>1, <1>4, ArenaAssumption DEF Sums
<1> QED  BY <1>4, <1>5, <1>6, <1>7, <1>8

\* A free record is charged with nothing.
FreeIsEmpty == \A i \in Recs : ~mmaps[i].used => mmaps[i].backing = 0

BInv == SInv /\ FreeIsEmpty /\ BackingExact

\* All records are free at first.
LEMMA BackingInit == Init => FreeIsEmpty /\ BackingExact
<1> SUFFICES ASSUME Init PROVE FreeIsEmpty /\ BackingExact
  OBVIOUS
<1>1. FreeIsEmpty
  BY DEF Init, FreeIsEmpty, NoRec
<1>2. Charge \in [Recs -> Nat] /\ Sums(Total, Charge, MaxRec)
  BY TotalIs, TypeInit
<1>3. MaxRec \in Nat /\ Recs = 1 .. MaxRec /\ \A i \in Recs : Charge[i] = 0
  BY ArenaAssumption DEF Recs, Charge, Init, NoRec
<1> DEFINE S == {n \in 0 .. MaxRec : Total[n] # 0}
<1>4. S = {}
  <2> SUFFICES ASSUME S # {} PROVE FALSE
    OBVIOUS
  <2>1. PICK n \in S : \A m \in S : n <= m
    <3>1. S \in SUBSET Nat
      BY <1>3
    <3> HIDE DEF S
    <3> QED  BY <3>1, Least
  <2>2. n # 0
    BY <1>2, <2>1 DEF Sums
  <2>3. n - 1 \in 0 .. MaxRec /\ n - 1 < n /\ n \in 1 .. MaxRec
    BY <1>3, <2>1, <2>2
  <2>4. Total[n - 1] = 0 /\ Total[n] = Total[n - 1] + Charge[n] /\ Charge[n] = 0
    BY <1>2, <1>3, <2>1, <2>3 DEF Sums
  <2> QED  BY <2>1, <2>4
<1>5. Total[MaxRec] = 0
  BY <1>3, <1>4
<1> QED  BY <1>1, <1>5 DEF BackingExact, Init

\* Whatever changes a record changes the count by as much.
LEMMA BackingStep == BInv /\ [Next]_vars => BInv'
<1> SUFFICES ASSUME BInv, [Next]_vars PROVE BInv'
  OBVIOUS
<1>0. SInv' /\ TypeOK /\ TypeOK' /\ SInv
  BY ShapedStep DEF BInv, SInv, IInv
<1>1. CASE UNCHANGED <<mmaps, backing>>
  <2>1. FreeIsEmpty'
    BY <1>1 DEF BInv, FreeIsEmpty
  <2>2. BackingExact'
    BY <1>1 DEF BInv, BackingExact, Total
  <2> QED  BY <1>0, <2>1, <2>2 DEF BInv
<1>2. ASSUME NEW j \in Recs, NEW n \in Record, mmaps' = [mmaps EXCEPT ![j] = n],
             n.used \/ n.backing = 0,
             mmaps[j].backing <= backing /\ mmaps[j].backing \in Nat
               => backing' = backing - mmaps[j].backing + n.backing
      PROVE  BInv'
  <2>1. FreeIsEmpty'
    BY <1>0, <1>2 DEF BInv, FreeIsEmpty, TypeOK
  <2>2. BackingExact'
    <3>1. /\ Total[MaxRec] \in Nat /\ mmaps[j].backing <= Total[MaxRec]
          /\ Total'[MaxRec] = Total[MaxRec] - mmaps[j].backing + n.backing
      BY <1>0, <1>2, TotalChanges
    <3>2. mmaps[j].backing \in Nat
      BY <1>0 DEF TypeOK, Record
    <3>3. backing = Total[MaxRec]
      BY DEF BInv, BackingExact
    <3> QED  BY <1>2, <3>1, <3>2, <3>3 DEF BackingExact
  <2> QED  BY <1>0, <2>1, <2>2 DEF BInv
<1>3. ASSUME NEW t \in Threads, MmapRecord(t) PROVE BInv'
  <2>1. PICK i \in Recs, r \in Record :
          /\ ~mmaps[i].used /\ mmaps' = [mmaps EXCEPT ![i] = r]
          /\ r.used /\ r.backing = req[t].backing
    BY <1>0, <1>3, RecordIs DEF SInv
  <2>2. mmaps[i].backing = 0
    BY <2>1 DEF BInv, FreeIsEmpty
  <2>3. backing' = backing + r.backing /\ backing \in Nat /\ r.backing \in Nat
    BY <1>0, <1>3, <2>1 DEF MmapRecord, TypeOK, Record
  <2>4. backing' = backing - mmaps[i].backing + r.backing
    BY <2>2, <2>3
  <2> QED  BY <1>2, <2>1, <2>4
<1>4. ASSUME NEW t \in Threads, NEW m \in held,
             NEW start \in Units(m.lo, m.hi), NEW end \in Units(m.lo + 1, m.hi + 1),
             Munmap(t, m, start, end)
      PROVE  BInv'
  <2>1. start \in Nat /\ end \in Nat
    BY <1>0 DEF TypeOK, Units
  <2>2. ASSUME NEW i \in Recs, FirstHit(i, start), MunmapHit(t, i, start, end)
        PROVE  BInv'
    <3>1. PICK s \in Record : s = mmaps[i] /\ s.used /\ Shaped(s)
      BY <1>0, <2>2 DEF SInv, TypeOK, FirstHit, Hit
    <3>2. PICK e \in Nat : e = Clipped(mmaps[i], end)
      BY <2>1, <3>1, TrimmedType
    <3>3. PICK n \in Record : n = Trimmed(s, start, e)
      BY <2>1, <3>1, TrimmedType
    <3>4. mmaps' = [mmaps EXCEPT ![i] = n] /\ backing' = BackingAfter(s, n)
      BY <2>2, <3>1, <3>2, <3>3 DEF MunmapHit
    <3>5. n.used \/ n.backing = 0
      BY <2>1, <3>1, <3>3, TrimmedKeeps DEF NoRec
    <3>6. s.backing <= backing => backing' = backing - s.backing + n.backing
      <4>1. s.backing \in Nat /\ n.backing \in Nat /\ backing \in Nat
        BY <1>0 DEF Record, TypeOK
      <4> QED  BY <3>4, <4>1 DEF BackingAfter
    <3> QED  BY <1>2, <3>1, <3>4, <3>5, <3>6
  <2> QED  BY <1>1, <1>4, <2>2 DEF Munmap
<1>5. \/ UNCHANGED <<mmaps, backing>>
      \/ \E t \in Threads : MmapRecord(t)
      \/ \E t \in Threads, m \in held :
           \E start \in Units(m.lo, m.hi), end \in Units(m.lo + 1, m.hi + 1) :
             start < end /\ Munmap(t, m, start, end)
  BY DEF Next, MmapStep, MunmapStep, vars, MmapTake, MmapNoRun, MmapAlloc, MmapNoMemory,
     MmapFileError, MmapNoRecord, MmapUndo, MunmapFree
<1> QED  BY <1>1, <1>3, <1>4, <1>5

\* g_mmap_backing_bytes is the sum over the records: bionic_munmap never has to stop the
\* count at zero, and no unmap, trim or full table leaves a byte in it.
THEOREM BackingCounted == Spec => []BackingExact
<1>1. Init => FreeIsEmpty /\ BackingExact
  BY BackingInit
<1>2. BInv /\ [Next]_vars => BInv'
  BY BackingStep
<1>3. BInv <=> SInv /\ FreeIsEmpty /\ BackingExact
  BY DEF BInv
<1> QED  BY <1>1, <1>2, <1>3, ShapedAlways, PTL DEF Spec

-----------------------------------------------------------------------------
(***************************************************************************)
(* Without dynamic windows, whose logical range is longer than the memory   *)
(* behind it, every live interval lies in memory that is its record's own:  *)
(* a run of arena slots, or a block of the heap.                            *)
(***************************************************************************)
\* The units of a run of slots, or of a heap block when there is no run.
Memory(s) ==
  IF s.idx >= 0 THEN Units(SlotAddr(s.idx), SlotAddr(s.idx) + s.cnt * R)
                ELSE Units(s.base, s.base + s.backing)

\* The heap blocks that a record, or a call between its critical sections, stands for.
Block(i) == IF mmaps[i].used /\ mmaps[i].idx < 0 THEN Memory(mmaps[i]) ELSE {}
FlyBlock(t) == IF pc[t] \in {"fill", "undo", "free"} /\ req[t].idx < 0 THEN Memory(req[t]) ELSE {}

BlocksApart ==
  /\ \A i, j \in Recs : i # j => Block(i) \cap Block(j) = {}
  /\ \A t, u \in Threads : t # u => FlyBlock(t) \cap FlyBlock(u) = {}
  /\ \A i \in Recs, t \in Threads : Block(i) \cap FlyBlock(t) = {}

BlocksHeld ==
  /\ \A i \in Recs : Block(i) \in heap \cup {{}}
  /\ \A t \in Threads : FlyBlock(t) \in heap \cup {{}}

\* A live interval lies in its record's memory ...
Backed(s) ==
  s.used =>
    /\ s.base <= s.lo /\ Units(s.lo, s.hi) \subseteq Memory(s)
    /\ s.idx >= 0 => s.base = SlotAddr(s.idx)

\* ... and so does the range that a mmap under way is to answer with.
Flying(t) ==
  /\ pc[t] \in {"idle", "free"} => req[t].idx = -1
  /\ pc[t] \in {"alloc", "fill", "undo"} => req[t].kind \in Kinds
  /\ pc[t] \in {"fill", "undo"} =>
       /\ Units(req[t].base, req[t].base + Logical(req[t].kind)) \subseteq Memory(req[t])
       /\ req[t].idx >= 0 => req[t].base = SlotAddr(req[t].idx)

CInv ==
  /\ SInv /\ RecordsMatchGuest
  /\ BlocksApart /\ BlocksHeld
  /\ \A i \in Recs : Backed(mmaps[i])
  /\ \A t \in Threads : Flying(t)

\* A region further up begins further up.
LEMMA Monotone ==
  ASSUME NEW p \in Int, NEW q \in Int, p <= q
  PROVE  p * R <= q * R
<1>1. PICK d \in Nat : q = p + d
  OBVIOUS
<1>2. d * R \in Nat /\ (p + d) * R = p * R + d * R /\ p * R \in Int
  BY ArenaAssumption
<1> QED  BY <1>1, <1>2

\* Runs without a common slot have no common unit.
LEMMA RunsApart ==
  ASSUME NEW a \in Slots, NEW b \in Slots, NEW n \in Nat, NEW m \in Nat,
         Run(a, n) \cap Run(b, m) = {}
  PROVE  Units(SlotAddr(a), SlotAddr(a) + n * R) \cap Units(SlotAddr(b), SlotAddr(b) + m * R) = {}
<1> SUFFICES ASSUME NEW x \in Units(SlotAddr(a), SlotAddr(a) + n * R),
                    x \in Units(SlotAddr(b), SlotAddr(b) + m * R)
             PROVE  FALSE
  OBVIOUS
<1>1. /\ a \in Int /\ b \in Int /\ a * R \in Nat /\ b * R \in Nat /\ ArenaBase \in Nat
      /\ n * R \in Nat /\ m * R \in Nat
  BY SizesNat DEF Slots
<1>2. /\ x \in Int /\ ArenaBase + a * R <= x /\ x < ArenaBase + a * R + n * R
      /\ ArenaBase + b * R <= x /\ x < ArenaBase + b * R + m * R
  BY <1>1 DEF Units, SlotAddr
<1>3. n > 0 /\ m > 0
  <2>1. n * R > 0 /\ m * R > 0
    BY <1>1, <1>2
  <2> QED  BY <2>1, ArenaAssumption
<1>4. a + n <= b \/ b + m <= a
  BY <1>1, <1>3 DEF Run
<1>5. CASE a + n <= b
  <2>1. (a + n) * R <= b * R
    BY <1>1, <1>5, Monotone
  <2>2. (a + n) * R = a * R + n * R
    BY <1>1, ArenaAssumption
  <2> QED  BY <1>1, <1>2, <2>1, <2>2
<1>6. CASE b + m <= a
  <2>1. (b + m) * R <= a * R
    BY <1>1, <1>6, Monotone
  <2>2. (b + m) * R = b * R + m * R
    BY <1>1, ArenaAssumption
  <2> QED  BY <1>1, <1>2, <2>1, <2>2
<1> QED  BY <1>4, <1>5, <1>6

\* Different runs, and different heap blocks, back different units.
LEMMA MemoriesApart ==
  ASSUME NEW s, NEW r, s.idx \in Slots \cup {-1}, r.idx \in Slots \cup {-1},
         s.cnt \in Nat, r.cnt \in Nat,
         s.idx >= 0 /\ r.idx >= 0 => Run(s.idx, s.cnt) \cap Run(r.idx, r.cnt) = {},
         s.idx < 0 /\ r.idx < 0 => Memory(s) \cap Memory(r) = {},
         s.idx < 0 => Memory(s) \subseteq 0 .. HeapUnits - 1,
         r.idx < 0 => Memory(r) \subseteq 0 .. HeapUnits - 1
  PROVE  Memory(s) \cap Memory(r) = {}
<1>1. \A q : q \in Slots => q >= 0
  BY DEF Slots
<1>2. \A q \in Slots, n \in Nat :
        Units(SlotAddr(q), SlotAddr(q) + n * R) \cap (0 .. HeapUnits - 1) = {}
  <2>1. HeapUnits \in Nat /\ ArenaBase >= HeapUnits
    BY SizesNat, ArenaAssumption DEF ArenaBase, HeapUnits
  <2>2. ASSUME NEW q \in Slots
        PROVE  q * R \in Nat /\ SlotAddr(q) \in Nat /\ SlotAddr(q) >= HeapUnits
    BY <2>1, SizesNat DEF SlotAddr
  <2>3. \A n \in Nat : n * R \in Nat
    BY SizesNat
  <2> QED  BY <2>1, <2>2, <2>3 DEF Units
<1>3. CASE s.idx \in Slots /\ r.idx \in Slots
  BY <1>1, <1>3, RunsApart DEF Memory
<1>4. CASE s.idx \in Slots /\ r.idx = -1
  BY <1>1, <1>2, <1>4 DEF Memory
<1>5. CASE s.idx = -1 /\ r.idx \in Slots
  BY <1>1, <1>2, <1>5 DEF Memory
<1>6. CASE s.idx = -1 /\ r.idx = -1
  BY <1>6
<1> QED  BY <1>3, <1>4, <1>5, <1>6

\* No two records, and no record and no mmap under way, have memory in common.
LEMMA OwnMemory ==
  ASSUME CInv, NEW i \in Recs, mmaps[i].used
  PROVE  /\ \A j \in Recs \ {i} :
              mmaps[j].used => Memory(mmaps[i]) \cap Memory(mmaps[j]) = {}
         /\ \A t \in Threads :
              pc[t] \in {"fill", "undo"} => Memory(mmaps[i]) \cap Memory(req[t]) = {}
<1>1. /\ heap \subseteq SUBSET (0 .. HeapUnits - 1) /\ mmaps[i] \in Record
      /\ mmaps[i].idx \in Slots \cup {-1} /\ mmaps[i].cnt \in Nat
  BY DEF CInv, SInv, IInv, TypeOK, Record
<1>2. mmaps[i].idx < 0 =>
        Memory(mmaps[i]) = Block(i) /\ Memory(mmaps[i]) \subseteq 0 .. HeapUnits - 1
  BY <1>1 DEF CInv, BlocksHeld, Block
<1>3. ASSUME NEW j \in Recs \ {i}, mmaps[j].used
      PROVE  Memory(mmaps[i]) \cap Memory(mmaps[j]) = {}
  <2>1. mmaps[j].idx \in Slots \cup {-1} /\ mmaps[j].cnt \in Nat
    BY DEF CInv, SInv, IInv, TypeOK, Record
  <2>2. mmaps[j].idx < 0 =>
          Memory(mmaps[j]) = Block(j) /\ Memory(mmaps[j]) \subseteq 0 .. HeapUnits - 1
    BY <1>1, <1>3 DEF CInv, BlocksHeld, Block
  <2>3. mmaps[i].idx < 0 /\ mmaps[j].idx < 0 => Memory(mmaps[i]) \cap Memory(mmaps[j]) = {}
    BY <1>2, <2>2 DEF CInv, BlocksApart
  <2>4. mmaps[i].idx >= 0 /\ mmaps[j].idx >= 0 =>
          Run(mmaps[i].idx, mmaps[i].cnt) \cap Run(mmaps[j].idx, mmaps[j].cnt) = {}
    BY <1>3 DEF CInv, SInv, IInv, ArenaExact, RunsDisjoint, RecRun
  <2> QED  BY <1>1, <1>2, <2>1, <2>2, <2>3, <2>4, MemoriesApart
<1>4. ASSUME NEW t \in Threads, pc[t] \in {"fill", "undo"}
      PROVE  Memory(mmaps[i]) \cap Memory(req[t]) = {}
  <2>1. req[t].idx \in Slots \cup {-1} /\ req[t].cnt \in Nat
    BY DEF CInv, SInv, IInv, TypeOK
  <2>2. req[t].idx < 0 =>
          Memory(req[t]) = FlyBlock(t) /\ Memory(req[t]) \subseteq 0 .. HeapUnits - 1
    BY <1>1, <1>4 DEF CInv, BlocksHeld, FlyBlock
  <2>3. mmaps[i].idx < 0 /\ req[t].idx < 0 => Memory(mmaps[i]) \cap Memory(req[t]) = {}
    BY <1>2, <2>2 DEF CInv, BlocksApart
  <2>4. mmaps[i].idx >= 0 /\ req[t].idx >= 0 =>
          Run(mmaps[i].idx, mmaps[i].cnt) \cap Run(req[t].idx, req[t].cnt) = {}
    BY <1>4 DEF CInv, SInv, IInv, ArenaExact, RunsDisjoint, RecRun, FlyRun
  <2> QED  BY <1>1, <1>2, <2>1, <2>2, <2>3, <2>4, MemoriesApart
<1> QED  BY <1>3, <1>4

\* With no window among the requests, disjoint memory makes live intervals disjoint.
LEMMA IntervalsApart == CInv => LiveDisjoint
<1> SUFFICES ASSUME CInv, NEW i \in Recs, NEW j \in Recs, i # j, mmaps[i].used, mmaps[j].used
             PROVE  Units(mmaps[i].lo, mmaps[i].hi) \cap Units(mmaps[j].lo, mmaps[j].hi) = {}
  BY DEF LiveDisjoint
<1>1. Memory(mmaps[i]) \cap Memory(mmaps[j]) = {}
  BY OwnMemory
<1> QED  BY <1>1 DEF CInv, Backed

-----------------------------------------------------------------------------
\* A record or a call that a step leaves alone stands for the block it stood for.
LEMMA SameBlock ==
  ASSUME NEW i \in Recs, mmaps'[i] = mmaps[i]
  PROVE  Block(i)' = Block(i) /\ (Backed(mmaps[i])' <=> Backed(mmaps[i]))
BY DEF Block, Backed, Memory, Units, SlotAddr, ArenaBase

\* A thread that does not move keeps the block it has in flight.
LEMMA SameFlight ==
  ASSUME NEW t \in Threads, pc'[t] = pc[t], req'[t] = req[t]
  PROVE  FlyBlock(t)' = FlyBlock(t) /\ (Flying(t)' <=> Flying(t))
BY DEF FlyBlock, Flying, Memory, Units, SlotAddr, ArenaBase

\* The heap gives t a block that nobody has.
LEMMA BlockTaken ==
  ASSUME CInv, NEW t \in Threads, NEW B, \A b \in heap : b \cap B = {},
         heap' = heap \cup {B}, FlyBlock(t) = {}, FlyBlock(t)' = B,
         \A i \in Recs : Block(i)' = Block(i),
         \A u \in Threads \ {t} : FlyBlock(u)' = FlyBlock(u)
  PROVE  BlocksApart' /\ BlocksHeld'
<1>1. /\ \A i \in Recs : Block(i) \cap B = {}
      /\ \A u \in Threads : FlyBlock(u) \cap B = {}
  BY DEF CInv, BlocksHeld
<1>2. BlocksApart'
  BY <1>1 DEF CInv, BlocksApart
<1>3. BlocksHeld'
  BY DEF CInv, BlocksHeld
<1> QED  BY <1>2, <1>3

\* A block passes between a thread and a record, or nothing moves.
LEMMA BlockPassed ==
  ASSUME CInv, NEW t \in Threads, NEW i \in Recs, heap' = heap,
         \/ Block(i) = {} /\ Block(i)' = FlyBlock(t) /\ FlyBlock(t)' = {}
         \/ FlyBlock(t) = {} /\ FlyBlock(t)' = Block(i) /\ Block(i)' = {}
         \/ Block(i)' = Block(i) /\ FlyBlock(t)' = FlyBlock(t),
         \A j \in Recs \ {i} : Block(j)' = Block(j),
         \A u \in Threads \ {t} : FlyBlock(u)' = FlyBlock(u)
  PROVE  BlocksApart' /\ BlocksHeld'
<1>1. BlocksApart'
  BY DEF CInv, BlocksApart
<1>2. BlocksHeld'
  BY DEF CInv, BlocksHeld
<1> QED  BY <1>1, <1>2

\* A thread gives its block back to the heap.
LEMMA BlockDropped ==
  ASSUME CInv, NEW t \in Threads, heap' = heap \ {FlyBlock(t)}, FlyBlock(t)' = {},
         \A i \in Recs : Block(i)' = Block(i),
         \A u \in Threads \ {t} : FlyBlock(u)' = FlyBlock(u)
  PROVE  BlocksApart' /\ BlocksHeld'
<1>1. BlocksApart'
  BY DEF CInv, BlocksApart
<1>2. /\ \A i \in Recs : Block(i) = {} \/ Block(i) # FlyBlock(t)
      /\ \A u \in Threads \ {t} : FlyBlock(u) = {} \/ FlyBlock(u) # FlyBlock(t)
  BY DEF CInv, BlocksApart
<1>3. BlocksHeld'
  BY <1>2 DEF CInv, BlocksHeld
<1> QED  BY <1>1, <1>3

\* A step of t that leaves the records alone.
LEMMA CallStep ==
  ASSUME CInv, NEW t \in Threads, mmaps' = mmaps, BlocksApart', BlocksHeld', Flying(t)',
         \A u \in Threads \ {t} : pc'[u] = pc[u] /\ req'[u] = req[u]
  PROVE  /\ BlocksApart' /\ BlocksHeld'
         /\ \A i \in Recs : Backed(mmaps[i])'
         /\ \A u \in Threads : Flying(u)'
BY SameBlock, SameFlight DEF CInv

\* Where there are no windows, the memory behind a request covers what it asks for.
LEMMA Covers ==
  ASSUME NEW k \in AllKinds, k # "window"
  PROVE  /\ Logical(k) \in Nat \ {0} /\ HeapBacking(k) \in Nat /\ Logical(k) <= HeapBacking(k)
         /\ IsReserve(k) => ArenaCount(k) * R \in Nat /\ Logical(k) <= ArenaCount(k) * R
<1>1. (Keep256 + 1) * R \in Nat /\ 1 * R = R /\ R \in Nat
  BY ArenaAssumption
<1> QED  BY <1>1, GeometryNat DEF AllKinds, Logical, HeapBacking, ArenaCount, KeepCount, IsReserve

\* What munmap leaves of a backed record is backed.
LEMMA TrimmedBacked ==
  ASSUME NEW s \in Record, s.used, Shaped(s), Backed(s), NEW start \in Nat, NEW end \in Nat,
         NEW n, n = Trimmed(s, start, end), n # NoRec
  PROVE  Backed(n) /\ (s.idx < 0 => Memory(n) = Memory(s))
<1>1. /\ n.used /\ n.base = s.base /\ n.idx = s.idx /\ s.lo <= n.lo /\ n.hi <= s.hi
      /\ n \in Record
  BY TrimmedKeeps
<1>2. /\ s.lo \in Nat /\ s.hi \in Nat /\ n.lo \in Nat /\ n.hi \in Nat /\ s.base \in Nat
      /\ s.idx \in Slots \cup {-1}
  BY <1>1 DEF Record
<1>3. Units(n.lo, n.hi) \subseteq Units(s.lo, s.hi) /\ s.base <= n.lo
  BY <1>1, <1>2 DEF Units, Backed
<1>4. CASE TailFreed(s, start, end)
  <2>1. n = [s EXCEPT !.hi = start, !.cnt = s.keep, !.backing = s.keep * R]
    BY <1>4, TrimmedIs DEF TailFreed, TailTrim, WholeUnmap, HeadTrim, Record
  <2>2. n.cnt = s.keep /\ n.hi = start /\ n.idx >= 0 /\ s.idx >= 0
    BY <1>1, <1>4, <2>1 DEF TailFreed, Record
  <2>3. start = s.base + s.keep * R /\ s.base = SlotAddr(s.idx)
    BY <1>4, <2>2 DEF TailFreed, Backed
  <2>4. Units(n.lo, n.hi) \subseteq Memory(n)
    BY <1>1, <1>2, <1>3, <2>2, <2>3 DEF Memory, Units
  <2>5. ~(s.idx < 0) /\ n.base = SlotAddr(n.idx)
    BY <1>1, <1>2, <2>2, <2>3 DEF Slots
  <2> QED  BY <1>3, <1>1, <2>4, <2>5 DEF Backed
<1>5. CASE ~TailFreed(s, start, end)
  <2>1. n.cnt = s.cnt /\ n.backing = s.backing
    <3>1. n = [s EXCEPT !.lo = end] \/ n = [s EXCEPT !.hi = start] \/ n = s
      BY <1>5, TrimmedIs
    <3> QED  BY <3>1 DEF Record
  <2>2. Memory(n) = Memory(s)
    BY <1>1, <2>1 DEF Memory
  <2> QED  BY <1>1, <1>3, <2>2 DEF Backed
<1> QED  BY <1>4, <1>5

\* A mmap that goes on inside the call, or ends without a mapping.
LEMMA CallsOn ==
  ASSUME CInv, "window" \notin Kinds, NEW t \in Threads,
         \/ \E k \in Kinds : MmapTake(t, k) \/ MmapNoRun(t, k)
         \/ MmapAlloc(t) \/ MmapNoMemory(t) \/ MmapFileError(t)
         \/ MmapNoRecord(t) \/ MmapUndo(t) \/ MunmapFree(t)
  PROVE  /\ BlocksApart' /\ BlocksHeld'
         /\ \A i \in Recs : Backed(mmaps[i])'
         /\ \A u \in Threads : Flying(u)'
<1>1. /\ TypeOK /\ HeapRequestsHoldNoRun /\ Flying(t)
      /\ req \in [Threads -> [kind : AllKinds, base : Nat, backing : Nat,
                              idx : Slots \cup {-1}, cnt : Nat]]
      /\ pc \in [Threads -> {"idle", "alloc", "fill", "undo", "free"}]
  BY DEF CInv, SInv, IInv, TypeOK
<1>2. /\ mmaps' = mmaps /\ \A i \in Recs : Block(i)' = Block(i)
      /\ \A u \in Threads \ {t} : pc'[u] = pc[u] /\ req'[u] = req[u]
  <2>1. mmaps' = mmaps
    BY DEF MmapTake, MmapNoRun, MmapAlloc, MmapNoMemory, MmapFileError, MmapNoRecord,
       MmapUndo, MunmapFree
  <2>2. \A u \in Threads \ {t} : pc'[u] = pc[u] /\ req'[u] = req[u]
    BY <1>1 DEF MmapTake, MmapNoRun, MmapAlloc, MmapNoMemory, MmapFileError, MmapNoRecord,
       MmapUndo, MunmapFree
  <2> QED  BY <2>1, <2>2, SameBlock
<1>3. \A u \in Threads \ {t} : FlyBlock(u)' = FlyBlock(u)
  BY <1>2, SameFlight
<1>4. PICK i \in Recs : TRUE
  BY ArenaAssumption DEF Recs
<1> SUFFICES BlocksApart' /\ BlocksHeld' /\ Flying(t)'
  BY <1>2, CallStep
<1>5. ASSUME NEW k \in Kinds, MmapTake(t, k)
      PROVE  BlocksApart' /\ BlocksHeld' /\ Flying(t)'
  <2>1. PICK q \in Slots :
          req' = [req EXCEPT ![t] = [kind |-> k, base |-> SlotAddr(q),
                                     backing |-> ArenaCount(k) * R,
                                     idx |-> q, cnt |-> ArenaCount(k)]]
    BY <1>5 DEF MmapTake
  <2>2. /\ req'[t].kind = k /\ req'[t].base = SlotAddr(q) /\ req'[t].idx = q
        /\ req'[t].cnt = ArenaCount(k) /\ pc[t] = "idle" /\ pc'[t] = "fill"
        /\ q >= 0 /\ heap' = heap /\ k \in AllKinds
    BY <1>1, <1>5, <2>1, ArenaAssumption DEF MmapTake, Slots
  <2>3. FlyBlock(t) = {} /\ FlyBlock(t)' = {}
    BY <2>2 DEF FlyBlock, Slots
  <2>4. Logical(k) \in Nat /\ ArenaCount(k) * R \in Nat /\ Logical(k) <= ArenaCount(k) * R
    BY <1>5, <2>2, Covers DEF MmapTake
  <2>5. Units(SlotAddr(q), SlotAddr(q) + Logical(k)) \subseteq
          Units(SlotAddr(q), SlotAddr(q) + ArenaCount(k) * R)
    BY <2>4, SizesNat DEF Units
  <2>6. Flying(t)'
    BY <2>2, <2>5 DEF Flying, Memory, Units, SlotAddr, ArenaBase
  <2> QED  BY <1>2, <1>3, <1>4, <2>2, <2>3, <2>6, BlockPassed
<1>6. ASSUME NEW k \in Kinds, MmapNoRun(t, k)
      PROVE  BlocksApart' /\ BlocksHeld' /\ Flying(t)'
  <2>1. req'[t].kind = k /\ pc[t] = "idle" /\ pc'[t] = "alloc" /\ heap' = heap
    BY <1>1, <1>6 DEF MmapNoRun, NoReq
  <2>2. FlyBlock(t) = {} /\ FlyBlock(t)' = {} /\ Flying(t)'
    BY <2>1 DEF FlyBlock, Flying
  <2> QED  BY <1>2, <1>3, <1>4, <2>1, <2>2, BlockPassed
<1>7. CASE MmapAlloc(t)
  <2>1. PICK k \in AllKinds : k = req[t].kind
    BY <1>1
  <2>2. PICK p \in 0 .. HeapUnits - 1 :
          /\ HeapFits(p, HeapBacking(k))
          /\ heap' = heap \cup {Units(p, p + HeapBacking(k))}
          /\ req' = [req EXCEPT ![t].base = p, ![t].backing = HeapBacking(k)]
    BY <1>7, <2>1 DEF MmapAlloc
  <2>3. /\ req'[t].kind = k /\ req'[t].base = p /\ req'[t].backing = HeapBacking(k)
        /\ req'[t].idx = -1 /\ pc[t] = "alloc" /\ pc'[t] = "fill" /\ k \in Kinds
    <3>1. req[t].idx = -1 /\ pc[t] = "alloc" /\ pc'[t] = "fill" /\ k \in Kinds
      BY <1>1, <1>7, <2>1 DEF MmapAlloc, HeapRequestsHoldNoRun, Flying
    <3> QED  BY <1>1, <2>1, <2>2, <3>1
  <2>4. Logical(k) \in Nat /\ HeapBacking(k) \in Nat /\ Logical(k) <= HeapBacking(k) /\ p \in Nat
    BY <2>2, <2>3, Covers
  <2>5. Units(p, p + Logical(k)) \subseteq Units(p, p + HeapBacking(k))
    BY <2>4 DEF Units
  <2>6. Memory(req[t])' = Units(p, p + HeapBacking(k))
    BY <2>3 DEF Memory, Units
  <2>7. FlyBlock(t) = {} /\ FlyBlock(t)' = Units(p, p + HeapBacking(k))
    BY <2>3, <2>6 DEF FlyBlock
  <2>8. Flying(t)'
    BY <2>3, <2>5, <2>6 DEF Flying, Units
  <2>9. \A b \in heap : b \cap Units(p, p + HeapBacking(k)) = {}
    BY <2>2 DEF HeapFits
  <2> QED  BY <1>2, <1>3, <2>2, <2>7, <2>8, <2>9, BlockTaken
<1>8. CASE MmapNoMemory(t)
  <2>1. req'[t] = NoReq /\ pc[t] = "alloc" /\ pc'[t] = "idle" /\ heap' = heap
    BY <1>1, <1>8 DEF MmapNoMemory
  <2>2. FlyBlock(t) = {} /\ FlyBlock(t)' = {} /\ Flying(t)'
    BY <2>1 DEF FlyBlock, Flying, NoReq
  <2> QED  BY <1>2, <1>3, <1>4, <2>1, <2>2, BlockPassed
<1>9. CASE MmapFileError(t) \/ MunmapFree(t)
  <2>1. /\ req'[t] = NoReq /\ pc[t] \in {"fill", "free"} /\ pc'[t] = "idle" /\ req[t].idx = -1
        /\ heap' = heap \ {Units(req[t].base, req[t].base + req[t].backing)}
    BY <1>1, <1>9 DEF MmapFileError, MunmapFree, HeapRequestsHoldNoRun, IsReserve, Flying
  <2>2. FlyBlock(t) = Units(req[t].base, req[t].base + req[t].backing)
    BY <2>1 DEF FlyBlock, Memory
  <2>3. FlyBlock(t)' = {} /\ Flying(t)'
    BY <2>1 DEF FlyBlock, Flying, NoReq
  <2> QED  BY <1>2, <1>3, <2>1, <2>2, <2>3, BlockDropped
<1>10. CASE MmapNoRecord(t)
  <2>1. req'[t] = req[t] /\ pc[t] = "fill" /\ pc'[t] = "undo" /\ heap' = heap
    BY <1>1, <1>10 DEF MmapNoRecord
  <2>2. FlyBlock(t)' = FlyBlock(t) /\ Flying(t)'
    BY <1>1, <2>1 DEF FlyBlock, Flying, Memory, Units, SlotAddr, ArenaBase
  <2> QED  BY <1>2, <1>3, <1>4, <2>1, <2>2, BlockPassed
<1>11. CASE MmapUndo(t)
  <2>1. req'[t] = NoReq /\ pc[t] = "undo" /\ pc'[t] = "idle"
    BY <1>1, <1>11 DEF MmapUndo
  <2>2. FlyBlock(t)' = {} /\ Flying(t)'
    BY <2>1 DEF FlyBlock, Flying, NoReq
  <2>3. CASE req[t].idx \in Slots
    <3>1. req[t].idx >= 0 /\ ~(req[t].idx < 0)
      BY <2>3 DEF Slots
    <3>2. FlyBlock(t) = {} /\ heap' = heap
      BY <1>11, <3>1 DEF FlyBlock, MmapUndo
    <3> QED  BY <1>2, <1>3, <1>4, <2>2, <3>2, BlockPassed
  <2>4. CASE req[t].idx = -1
    <3>1. /\ FlyBlock(t) = Units(req[t].base, req[t].base + req[t].backing)
          /\ heap' = heap \ {FlyBlock(t)}
      BY <1>11, <2>1, <2>4 DEF FlyBlock, Memory, MmapUndo
    <3> QED  BY <1>2, <1>3, <2>2, <3>1, BlockDropped
  <2> QED  BY <1>1, <2>3, <2>4
<1> QED  BY <1>5, <1>6, <1>7, <1>8, <1>9, <1>10, <1>11

\* The memory of a mmap under way becomes its record's.
LEMMA CallRecords ==
  ASSUME CInv, NEW t \in Threads, MmapRecord(t)
  PROVE  /\ BlocksApart' /\ BlocksHeld'
         /\ \A i \in Recs : Backed(mmaps[i])'
         /\ \A u \in Threads : Flying(u)'
<1>1. /\ mmaps \in [Recs -> Record] /\ pc[t] = "fill" /\ pc'[t] = "idle" /\ heap' = heap
      /\ req'[t] = NoReq /\ Flying(t) /\ req[t].base \in Nat
      /\ \A u \in Threads \ {t} : pc'[u] = pc[u] /\ req'[u] = req[u]
  BY DEF CInv, SInv, IInv, TypeOK, MmapRecord
<1>2. PICK i \in Recs, r \in Record :
        /\ ~mmaps[i].used /\ mmaps' = [mmaps EXCEPT ![i] = r]
        /\ r.used /\ r.base = req[t].base /\ r.backing = req[t].backing
        /\ r.idx = req[t].idx /\ r.cnt = req[t].cnt
        /\ r.lo = req[t].base /\ r.hi = req[t].base + Logical(req[t].kind)
  BY RecordIs DEF CInv, SInv
<1>3. mmaps'[i] = r /\ \A j \in Recs \ {i} : mmaps'[j] = mmaps[j]
  BY <1>1, <1>2
<1>4. Memory(r) = Memory(req[t])
  BY <1>2 DEF Memory
<1>5. Block(i) = {} /\ Block(i)' = FlyBlock(t) /\ FlyBlock(t)' = {} /\ Flying(t)'
  <2>1. Memory(r)' = Memory(r)
    BY DEF Memory, Units, SlotAddr, ArenaBase
  <2> QED  BY <1>1, <1>2, <1>3, <1>4, <2>1 DEF Block, FlyBlock, Flying, NoReq, Memory, Units,
              SlotAddr, ArenaBase
<1>6. /\ \A j \in Recs \ {i} : Block(j)' = Block(j) /\ Backed(mmaps[j])'
      /\ \A u \in Threads \ {t} : FlyBlock(u)' = FlyBlock(u) /\ Flying(u)'
  BY <1>1, <1>3, SameBlock, SameFlight DEF CInv
<1>7. Backed(r)
  BY <1>1, <1>2, <1>4 DEF Backed, Flying
<1>8. Backed(mmaps[i])'
  BY <1>3, <1>7 DEF Backed, Memory, Units, SlotAddr, ArenaBase
<1>9. BlocksApart' /\ BlocksHeld'
  BY <1>1, <1>5, <1>6, BlockPassed
<1> QED  BY <1>5, <1>6, <1>8, <1>9

\* A whole heap mapping passes to the thread that is to free it; else nobody's memory
\* grows.
LEMMA CallUnmaps ==
  ASSUME CInv, NEW t \in Threads, NEW m \in held,
         NEW start \in Units(m.lo, m.hi), NEW end \in Units(m.lo + 1, m.hi + 1), start < end,
         Munmap(t, m, start, end)
  PROVE  /\ BlocksApart' /\ BlocksHeld'
         /\ \A i \in Recs : Backed(mmaps[i])'
         /\ \A u \in Threads : Flying(u)'
<1>1. /\ mmaps \in [Recs -> Record] /\ pc[t] = "idle" /\ heap' = heap /\ Flying(t)
      /\ pc \in [Threads -> {"idle", "alloc", "fill", "undo", "free"}]
      /\ req \in [Threads -> [kind : AllKinds, base : Nat, backing : Nat,
                              idx : Slots \cup {-1}, cnt : Nat]]
      /\ start \in Nat /\ end \in Nat
  BY DEF CInv, SInv, IInv, TypeOK, Munmap, Units
<1>2. PICK i \in Recs :
        Mirrors(i, m) /\ MunmapHit(t, i, start, end) /\ Clipped(mmaps[i], end) = end
  BY IntervalsApart, UnmapIs DEF CInv
<1>3. PICK s \in Record : s = mmaps[i] /\ s.used /\ Shaped(s) /\ Backed(s)
  BY <1>1, <1>2 DEF CInv, SInv, Mirrors
<1>4. PICK n : n = Trimmed(s, start, end) /\ mmaps' = [mmaps EXCEPT ![i] = n]
  BY <1>2, <1>3 DEF MunmapHit
<1>5. mmaps'[i] = n /\ \A j \in Recs \ {i} : mmaps'[j] = mmaps[j]
  BY <1>1, <1>4
<1>6. \A j \in Recs \ {i} : Block(j)' = Block(j) /\ Backed(mmaps[j])'
  BY <1>5, SameBlock DEF CInv
<1>7. FlyBlock(t) = {} /\ Block(i) = IF s.idx < 0 THEN Memory(s) ELSE {}
  BY <1>1, <1>3 DEF FlyBlock, Block
<1>8. CASE WholeUnmap(s, start, end) /\ s.idx < 0
  <2>1. /\ req' = [req EXCEPT ![t].base = s.base, ![t].backing = s.backing]
        /\ pc' = [pc EXCEPT ![t] = "free"]
    BY <1>2, <1>3, <1>8 DEF MunmapHit
  <2>2. /\ req'[t].base = s.base /\ req'[t].backing = s.backing /\ req'[t].idx = -1
        /\ pc'[t] = "free" /\ \A u \in Threads \ {t} : pc'[u] = pc[u] /\ req'[u] = req[u]
    BY <1>1, <2>1 DEF Flying
  <2>3. FlyBlock(t)' = Block(i) /\ Flying(t)'
    <3>1. ~(s.idx >= 0)
      BY <1>8 DEF Record, Slots
    <3> QED  BY <1>7, <1>8, <2>2, <3>1 DEF FlyBlock, Flying, Memory, Units
  <2>4. n = NoRec
    BY <1>1, <1>3, <1>4, <1>8, TrimmedKeeps
  <2>5. Block(i)' = {} /\ Backed(mmaps[i])'
    BY <1>5, <2>4 DEF Block, Backed, NoRec
  <2>6. \A u \in Threads \ {t} : FlyBlock(u)' = FlyBlock(u) /\ Flying(u)'
    BY <2>2, SameFlight DEF CInv
  <2>7. BlocksApart' /\ BlocksHeld'
    BY <1>1, <1>6, <1>7, <2>3, <2>5, <2>6, BlockPassed
  <2> QED  BY <1>6, <2>3, <2>5, <2>6, <2>7
<1>9. CASE ~(WholeUnmap(s, start, end) /\ s.idx < 0)
  <2>1. UNCHANGED <<pc, req>>
    BY <1>2, <1>3, <1>9 DEF MunmapHit
  <2>2. \A u \in Threads : FlyBlock(u)' = FlyBlock(u) /\ Flying(u)'
    BY <2>1, SameFlight DEF CInv
  <2>3. Block(i)' = Block(i) /\ Backed(mmaps[i])'
    <3>1. CASE n = NoRec
      <4>1. ~(s.idx < 0)
        <5>1. ~n.used
          BY <3>1 DEF NoRec
        <5>2. WholeUnmap(s, start, end)
          BY <1>1, <1>3, <1>4, <5>1, TrimmedKeeps
        <5> QED  BY <1>9, <5>2
      <4> QED  BY <1>5, <1>7, <3>1, <4>1 DEF Block, Backed, NoRec
    <3>2. CASE n # NoRec
      <4>1. /\ Backed(n) /\ (s.idx < 0 => Memory(n) = Memory(s))
            /\ n.used /\ n.idx = s.idx
        BY <1>1, <1>3, <1>4, <3>2, TrimmedBacked, TrimmedKeeps
      <4> QED  BY <1>5, <1>7, <4>1 DEF Block, Backed, Memory, Units, SlotAddr, ArenaBase
    <3> QED  BY <3>1, <3>2
  <2>4. BlocksApart' /\ BlocksHeld'
    BY <1>1, <1>6, <2>2, <2>3, BlockPassed
  <2> QED  BY <1>6, <2>2, <2>3, <2>4
<1> QED  BY <1>8, <1>9

\* With no window, records match the guest's mappings and no two overlap.
LEMMA CoveredStep ==
  ASSUME "window" \notin Kinds, CInv, [Next]_vars
  PROVE  CInv'
<1>1. SInv' /\ RecordsMatchGuest'
  BY ShapedStep, MatchStep, IntervalsApart DEF CInv
<1>2. CASE UNCHANGED vars
  BY <1>1, <1>2, SameBlock, SameFlight DEF vars, CInv, BlocksApart, BlocksHeld
<1>3. CASE Next
  BY <1>1, <1>3, CallsOn, CallRecords, CallUnmaps DEF CInv, Next, MmapStep, MunmapStep
<1> QED  BY <1>2, <1>3

LEMMA CoveredAlways ==
  ASSUME "window" \notin Kinds
  PROVE  Spec => []CInv
<1>1. ASSUME Init PROVE CInv
  <2>1. SInv
    BY <1>1, IInit DEF Init, SInv, Shaped, NoRec
  <2>2. /\ \A i \in Recs : Block(i) = {}
        /\ \A t \in Threads : FlyBlock(t) = {}
    BY <1>1 DEF Init, NoRec, Block, FlyBlock
  <2>3. RecordsMatchGuest /\ BlocksApart /\ BlocksHeld
    BY <1>1, <2>2 DEF Init, NoRec, RecordsMatchGuest, BlocksApart, BlocksHeld
  <2>4. (\A i \in Recs : Backed(mmaps[i])) /\ (\A t \in Threads : Flying(t))
    BY <1>1 DEF Init, NoRec, NoReq, Backed, Flying
  <2> QED  BY <2>1, <2>3, <2>4 DEF CInv
<1>2. CInv /\ [Next]_vars => CInv'
  BY CoveredStep
<1> QED  BY <1>1, <1>2, PTL DEF Spec

\* Where every request's memory covers its logical size, the records that bionic_mmap
\* writes and bionic_munmap trims mirror what the guest holds, whatever it unmaps.
THEOREM RecordsMirror ==
  ASSUME "window" \notin Kinds
  PROVE  Spec => []RecordsMatchGuest
<1>1. CInv => RecordsMatchGuest
  BY DEF CInv
<1> QED  BY <1>1, CoveredAlways, PTL

-----------------------------------------------------------------------------
(***************************************************************************)
(* The refinement of AddressSpace.                                          *)
(***************************************************************************)
Spans == {<<m.lo, m.hi>> : m \in held}
SpaceTop == ArenaBase + (NSlots + 1) * R

\* What the guest holds is a range of the record's memory.
LEMMA HeldIs ==
  ASSUME CInv, NEW m \in held
  PROVE  \E i \in Recs :
           /\ Mirrors(i, m) /\ Units(m.lo, m.hi) \subseteq Memory(mmaps[i])
           /\ m.lo \in Nat /\ m.hi \in Nat /\ m.lo < m.hi
<1>1. PICK i \in Recs : Mirrors(i, m)
  BY DEF CInv, RecordsMatchGuest
<1> QED  BY <1>1 DEF CInv, SInv, IInv, TypeOK, Mirrors, Shaped, Backed

\* All memory is below the top of the address space.
LEMMA MemoryBelow ==
  ASSUME NEW s, s.idx \in Slots \cup {-1}, s.cnt \in Nat,
         s.idx >= 0 => Run(s.idx, s.cnt) \subseteq Slots,
         s.idx < 0 => Memory(s) \subseteq 0 .. HeapUnits - 1
  PROVE  \A x \in Memory(s) : x \in Nat /\ x < SpaceTop
<1>1. /\ HeapUnits \in Nat /\ ArenaBase \in Nat /\ SpaceTop \in Nat
      /\ (NSlots + 1) * R = NSlots * R + R /\ NSlots * R \in Nat
  BY SizesNat, ArenaAssumption DEF SpaceTop
<1>2. ArenaBase >= HeapUnits
  BY <1>1, SizesNat, ArenaAssumption DEF ArenaBase, HeapUnits
<1>3. CASE s.idx = -1
  BY <1>1, <1>2, <1>3, ArenaAssumption DEF SpaceTop
<1>4. CASE s.idx \in Slots
  <2>1. s.idx * R \in Nat /\ s.cnt * R \in Nat /\ s.idx \in Nat
    BY <1>4, SizesNat DEF Slots
  <2>2. (s.idx + s.cnt) * R = s.idx * R + s.cnt * R
    BY <2>1, ArenaAssumption
  <2>3. s.idx + s.cnt <= NSlots
    <3>1. CASE s.cnt = 0
      BY <1>4, <3>1, ArenaAssumption DEF Slots
    <3>2. CASE s.cnt > 0
      <4>1. s.idx + s.cnt - 1 \in Slots
        BY <2>1, <3>2 DEF Run
      <4> QED  BY <2>1, <4>1, ArenaAssumption DEF Slots
    <3> QED  BY <3>1, <3>2
  <2>4. (s.idx + s.cnt) * R <= NSlots * R
    BY <2>1, <2>3, Monotone, ArenaAssumption
  <2>5. Memory(s) = Units(SlotAddr(s.idx), SlotAddr(s.idx) + s.cnt * R)
    BY <2>1 DEF Memory
  <2>6. SpaceTop = ArenaBase + NSlots * R + R /\ R \in Nat /\ R > 0
    BY <1>1, ArenaAssumption DEF SpaceTop
  <2>7. SlotAddr(s.idx) + s.cnt * R <= ArenaBase + NSlots * R /\ SlotAddr(s.idx) \in Nat
    BY <1>1, <2>1, <2>2, <2>4 DEF SlotAddr
  <2>8. PICK lo \in Nat, hi \in Int : lo = SlotAddr(s.idx) /\ hi = SlotAddr(s.idx) + s.cnt * R
    BY <2>1, <2>7
  <2>9. Memory(s) = lo .. hi - 1 /\ hi < SpaceTop
    <3>1. hi <= ArenaBase + NSlots * R /\ ArenaBase + NSlots * R < SpaceTop
      BY <1>1, <2>6, <2>7, <2>8
    <3> QED  BY <1>1, <2>5, <2>8, <3>1 DEF Units
  <2> QED  BY <1>1, <2>8, <2>9
<1> QED  BY <1>3, <1>4

\* What the guest holds lies in the address space.
LEMMA HeldBelow ==
  ASSUME CInv, NEW i \in Recs, mmaps[i].used
  PROVE  \A x \in Memory(mmaps[i]) : x \in Nat /\ x < SpaceTop
<1>1. mmaps[i].idx \in Slots \cup {-1} /\ mmaps[i].cnt \in Nat
  BY DEF CInv, SInv, IInv, TypeOK, Record
<1>2. mmaps[i].idx < 0 => Memory(mmaps[i]) \subseteq 0 .. HeapUnits - 1
  BY DEF CInv, SInv, IInv, TypeOK, BlocksHeld, Block
<1>3. mmaps[i].idx >= 0 => Run(mmaps[i].idx, mmaps[i].cnt) \subseteq Slots
  BY DEF CInv, SInv, IInv, TypeOK, ArenaExact, BitsAccounted, RecRun
<1> QED  BY <1>1, <1>2, <1>3, MemoryBelow

\* A range of units below the top of the space is a block of it.
LEMMA RangeBelow ==
  ASSUME NEW lo \in Nat, NEW hi \in Nat, lo < hi,
         \A x \in Units(lo, hi) : x < SpaceTop
  PROVE  <<lo, hi>> \in AS!Blocks
<1>1. SpaceTop \in Nat
  BY SizesNat, ArenaAssumption DEF SpaceTop
<1>2. hi - 1 < SpaceTop
  BY <1>1 DEF Units
<1> QED  BY <1>1, <1>2 DEF AS!Blocks, SpaceTop

\* A new mapping is a new block.
LEMMA RecordMaps ==
  ASSUME CInv, CInv', NEW t \in Threads, MmapRecord(t)
  PROVE  AS!Map
<1>1. PICK i \in Recs, r \in Record, h \in [base : Nat, lo : Nat, hi : Nat, keep : Nat] :
        /\ ~mmaps[i].used /\ mmaps' = [mmaps EXCEPT ![i] = r] /\ held' = held \cup {h}
        /\ r.used /\ r.base = req[t].base /\ r.backing = req[t].backing
        /\ r.idx = req[t].idx /\ r.cnt = req[t].cnt /\ Shaped(r)
        /\ r.lo = req[t].base /\ r.hi = req[t].base + Logical(req[t].kind)
        /\ h.base = r.base /\ h.lo = r.lo /\ h.hi = r.hi /\ h.keep = r.keep
  BY RecordIs DEF CInv, SInv
<1>2. pc[t] = "fill" /\ Units(h.lo, h.hi) \subseteq Memory(req[t])
  BY <1>1 DEF MmapRecord, CInv, Flying
<1>3. h.lo \in Nat /\ h.hi \in Nat /\ h.lo < h.hi
  BY <1>1 DEF Shaped
<1>4. <<h.lo, h.hi>> \in AS!Blocks
  <2>1. \A x \in Memory(req[t]) : x < SpaceTop
    <3>1. req[t].idx \in Slots \cup {-1} /\ req[t].cnt \in Nat
      BY DEF CInv, SInv, IInv, TypeOK
    <3>2. req[t].idx < 0 => Memory(req[t]) \subseteq 0 .. HeapUnits - 1
      BY <1>2 DEF CInv, SInv, IInv, TypeOK, BlocksHeld, FlyBlock
    <3>3. req[t].idx >= 0 => Run(req[t].idx, req[t].cnt) \subseteq Slots
      BY <1>2 DEF CInv, SInv, IInv, TypeOK, ArenaExact, BitsAccounted, FlyRun
    <3> QED  BY <3>1, <3>2, <3>3, MemoryBelow
  <2> QED  BY <1>2, <1>3, <2>1, RangeBelow
<1>5. ASSUME NEW m \in held PROVE AS!Disjoint(<<h.lo, h.hi>>, <<m.lo, m.hi>>)
  <2>1. PICK j \in Recs :
          /\ Mirrors(j, m) /\ Units(m.lo, m.hi) \subseteq Memory(mmaps[j])
          /\ m.lo \in Nat /\ m.hi \in Nat /\ m.lo < m.hi
    BY HeldIs
  <2>2. Memory(mmaps[j]) \cap Memory(req[t]) = {}
    BY <1>2, <2>1, OwnMemory DEF Mirrors
  <2>3. Units(m.lo, m.hi) \cap Units(h.lo, h.hi) = {}
    BY <1>2, <2>1, <2>2
  <2>4. h.hi <= m.lo \/ m.hi <= h.lo
    BY <1>3, <2>1, <2>3 DEF Units
  <2> QED  BY <2>4 DEF AS!Disjoint
<1>6. Spans' = Spans \cup {<<h.lo, h.hi>>}
  BY <1>1 DEF Spans
<1>7. \A c \in Spans : AS!Disjoint(<<h.lo, h.hi>>, c)
  BY <1>5 DEF Spans
<1> QED  BY <1>4, <1>6, <1>7 DEF AS!Map, Spans

\* What the guest unmaps is taken out of one block.
LEMMA MunmapUnmaps ==
  ASSUME CInv, NEW t \in Threads, NEW m \in held,
         NEW start \in Units(m.lo, m.hi), NEW end \in Units(m.lo + 1, m.hi + 1), start < end,
         Munmap(t, m, start, end)
  PROVE  AS!Unmap
<1>1. PICK i \in Recs :
        /\ Mirrors(i, m) /\ Units(m.lo, m.hi) \subseteq Memory(mmaps[i])
        /\ m.lo \in Nat /\ m.hi \in Nat /\ m.lo < m.hi
  BY HeldIs
<1>2. m \in [base : Nat, lo : Nat, hi : Nat, keep : Nat] /\ start \in Nat /\ end \in Nat
  BY DEF CInv, SInv, IInv, TypeOK, Units
<1>3. m.lo <= start /\ start < m.hi /\ m.lo < end /\ end <= m.hi
  BY <1>1, <1>2 DEF Units
<1>4. ASSUME NEW h \in held \ {m} PROVE <<h.lo, h.hi>> # <<m.lo, m.hi>>
  <2>1. PICK j \in Recs :
          Mirrors(j, h) /\ Units(h.lo, h.hi) \subseteq Memory(mmaps[j])
    BY HeldIs
  <2>2. j # i
    BY <1>1, <2>1 DEF Mirrors, CInv, SInv, IInv, TypeOK
  <2>3. Memory(mmaps[i]) \cap Memory(mmaps[j]) = {}
    BY <1>1, <2>1, <2>2, OwnMemory DEF Mirrors
  <2>4. m.lo \in Units(m.lo, m.hi)
    BY <1>1 DEF Units
  <2>5. h.lo # m.lo \/ h.hi # m.hi
    BY <1>1, <2>1, <2>3, <2>4
  <2> QED  BY <2>5
<1>5. held' = (held \ {m}) \cup Remainder(m, start, end)
  BY DEF Munmap
<1>6. {<<x.lo, x.hi>> : x \in Remainder(m, start, end)} = AS!Rest(<<m.lo, m.hi>>, start, end)
  <2> DEFINE tail == [m EXCEPT !.hi = start]
             head == [m EXCEPT !.lo = end]
  <2>1. tail.lo = m.lo /\ tail.hi = start /\ head.lo = end /\ head.hi = m.hi
    BY <1>2
  <2>2. Remainder(m, start, end) = {x \in {tail, head} : x.lo < x.hi}
    BY DEF Remainder
  <2>3. /\ <<m.lo, start>> \in AS!Blocks <=> m.lo < start
        /\ <<end, m.hi>> \in AS!Blocks <=> end < m.hi
    <3>1. \A x \in Units(m.lo, m.hi) : x < SpaceTop
      BY <1>1, HeldBelow DEF Mirrors
    <3>2. m.lo < start => <<m.lo, start>> \in AS!Blocks
      BY <1>2, <1>3, <3>1, RangeBelow DEF Units
    <3>3. end < m.hi => <<end, m.hi>> \in AS!Blocks
      BY <1>2, <1>3, <3>1, RangeBelow DEF Units
    <3> QED  BY <3>2, <3>3 DEF AS!Blocks
  <2> HIDE DEF tail, head
  <2> QED  BY <2>1, <2>2, <2>3 DEF AS!Rest
<1>7. Spans' = (Spans \ {<<m.lo, m.hi>>}) \cup AS!Rest(<<m.lo, m.hi>>, start, end)
  <2>1. Spans' = {<<x.lo, x.hi>> : x \in held \ {m}}
                   \cup {<<x.lo, x.hi>> : x \in Remainder(m, start, end)}
    BY <1>5 DEF Spans
  <2>2. {<<x.lo, x.hi>> : x \in held \ {m}} = Spans \ {<<m.lo, m.hi>>}
    BY <1>4 DEF Spans
  <2> QED  BY <1>6, <2>1, <2>2
<1>8. <<m.lo, m.hi>> \in Spans /\ start \in m.lo .. m.hi /\ end \in m.lo .. m.hi
  BY <1>1, <1>2, <1>3 DEF Spans
<1>9. <<m.lo, m.hi>>[1] = m.lo /\ <<m.lo, m.hi>>[2] = m.hi
  OBVIOUS
<1> QED  BY <1>7, <1>8, <1>9 DEF AS!Unmap, Spans

\* Without dynamic windows the arena, its record table and the heap behind it implement
\* the address space that mmap and munmap promise: Init and every step map to one there.
THEOREM ArenaImplements ==
  ASSUME "window" \notin Kinds
  PROVE  Spec => ImplementsAddressSpace
<1>1. Init => AS!Init
  BY DEF Init, AS!Init
<1>2. CInv /\ CInv' /\ [Next]_vars => [AS!Next]_Spans
  <2> SUFFICES ASSUME CInv, CInv', [Next]_vars PROVE AS!Next \/ Spans' = Spans
    OBVIOUS
  <2>1. CASE UNCHANGED <<mmaps, held>>
    BY <2>1 DEF Spans
  <2> QED  BY <2>1, TableSteps, RecordMaps, MunmapUnmaps DEF AS!Next
<1>3. Spans = {<<m.lo, m.hi>> : m \in held}
  BY DEF Spans
<1> QED  BY <1>1, <1>2, <1>3, CoveredAlways, PTL DEF Spec, ImplementsAddressSpace, AS!Spec, Spans
=============================================================================
