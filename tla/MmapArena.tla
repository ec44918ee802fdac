------------------------------ MODULE MmapArena ------------------------------
(***************************************************************************)
(* The anonymous/file mmap emulation of source/bionic.c: an arena of        *)
(* 64 MiB slots tracked by a bit mask, a heap fallback through memalign,    *)
(* and a table of mapping records that munmap searches by live interval.    *)
(*                                                                          *)
(* Memory is counted in units (a unit stands for the 4 KiB the code calls   *)
(* a page); a region (one arena slot) is R units.  bionic_mmap takes three  *)
(* separate critical sections of g_mmap_lock (take a run, record the        *)
(* mapping, undo when the record table is full) and bionic_munmap one,      *)
(* followed by free() after the unlock, so each is one action here.         *)
(***************************************************************************)
EXTENDS Integers, FiniteSets

CONSTANTS
  Threads,      \* guest threads that call mmap and munmap
  R,            \* units per region (UNITY_DYNAMIC_REGION_BYTES)
  NSlots,       \* g_unity_arena_slots
  Keep256,      \* UNITY_ALIGNED256_LIVE_SLOTS
  MaxRec,       \* MMAP_SLOTS
  HeapRegions,  \* size of the newlib heap, in regions
  Kinds,        \* the requests the guest makes
  Guest         \* what the guest unmaps: "any" head or tail of a mapping; or
                \* only whole mappings and the tail after the kept regions,
                \* at any time ("tails") or as its very next call ("prompt")

AllKinds == {"window", "direct", "aligned256", "small", "file"}

ASSUME ArenaAssumption ==
  /\ R \in Nat /\ R >= 2
  /\ NSlots \in Nat \ {0}
  /\ Keep256 \in Nat \ {0}
  /\ MaxRec \in Nat \ {0}
  /\ HeapRegions \in Nat
  /\ Kinds \subseteq AllKinds
  /\ Guest \in {"any", "tails", "prompt"}

VARIABLES
  used,     \* g_unity_arena_used, as the set of its bits
  mmaps,    \* g_mmaps
  backing,  \* g_mmap_backing_bytes
  heap,     \* blocks memalign has given out: the sets of units they cover
  pc, req,  \* where each thread is inside mmap/munmap, and its locals there
  held      \* what the guest holds: one [base, lo, hi, keep] per mapping

vars == <<used, mmaps, backing, heap, pc, req, held>>

Slots     == 0 .. NSlots - 1
Recs      == 1 .. MaxRec
HeapUnits == HeapRegions * R
\* The shared-object arena lies between the newlib heap and the mmap arena.
ArenaBase == (HeapRegions + 1) * R
SlotAddr(i) == ArenaBase + i * R

Units(lo, hi)     == lo .. hi - 1
Run(first, count) == first .. first + count - 1

(***************************************************************************)
(* The geometry bionic_mmap derives from a request's size.                  *)
(***************************************************************************)
IsReserve(k) == k \in {"window", "direct", "aligned256"}

Logical(k) ==
  CASE k = "window"     -> 2 * R - 1
    [] k = "direct"     -> R
    [] k = "aligned256" -> (Keep256 + 1) * R - 1
    [] OTHER            -> 1

KeepCount(k) ==
  CASE k \in {"window", "direct"} -> 1
    [] k = "aligned256"           -> Keep256
    [] OTHER                      -> 0

ArenaCount(k) == IF k = "aligned256" THEN Keep256 + 1 ELSE KeepCount(k)

HeapBacking(k) == IF k \in {"window", "direct"} THEN R ELSE Logical(k)
HeapAlign(k)   == IF IsReserve(k) THEN R ELSE 1

NoRec == [used |-> FALSE, base |-> 0, logical |-> 0, backing |-> 0,
          lo |-> 0, hi |-> 0, idx |-> -1, cnt |-> 0, keep |-> 0]

NoReq == [kind |-> "small", base |-> 0, backing |-> 0, idx |-> -1, cnt |-> 0]

Init ==
  /\ used = {}
  /\ mmaps = [i \in Recs |-> NoRec]
  /\ backing = 0
  /\ heap = {}
  /\ pc = [t \in Threads |-> "idle"]
  /\ req = [t \in Threads |-> NoReq]
  /\ held = {}

-----------------------------------------------------------------------------
(***************************************************************************)
(* unity_arena_take_run: every caller passes from_high = 0, so the run is   *)
(* the lowest one whose bits are all clear.                                 *)
(***************************************************************************)
IsFree(i, count) == Run(i, count) \cap used = {}

CanTake(i, count) ==
  /\ i \in 0 .. NSlots - count
  /\ IsFree(i, count)
  /\ \A j \in 0 .. i - 1 : ~IsFree(j, count)

TakeRun(i, count) ==
  /\ CanTake(i, count)
  /\ used' = used \cup Run(i, count)

\* unity_arena_release_run on a set of used bits.
Released(bits, first, count) == bits \ Run(first, count)

\* A prompt guest trims a window before it does anything else.
Untrimmed(m) == Guest = "prompt" /\ m.keep > 0 /\ m.hi > m.base + m.keep * R

\* The first critical section of bionic_mmap for one of the Unity sizes.
MmapTake(t, k) ==
  /\ pc[t] = "idle"
  /\ \A m \in held : ~Untrimmed(m)
  /\ IsReserve(k)
  /\ \E i \in Slots :
       /\ TakeRun(i, ArenaCount(k))
       /\ req' = [req EXCEPT ![t] = [kind |-> k, base |-> SlotAddr(i),
                                     backing |-> ArenaCount(k) * R,
                                     idx |-> i, cnt |-> ArenaCount(k)]]
  /\ pc' = [pc EXCEPT ![t] = "fill"]
  /\ UNCHANGED <<mmaps, backing, heap, held>>

\* A request the arena does not serve goes on to memalign.
MmapNoRun(t, k) ==
  /\ pc[t] = "idle"
  /\ \A m \in held : ~Untrimmed(m)
  /\ IsReserve(k) => \A i \in 0 .. NSlots - ArenaCount(k) : ~IsFree(i, ArenaCount(k))
  /\ req' = [req EXCEPT ![t] = [NoReq EXCEPT !.kind = k, !.cnt = ArenaCount(k)]]
  /\ pc' = [pc EXCEPT ![t] = "alloc"]
  /\ UNCHANGED <<used, mmaps, backing, heap, held>>

HeapFits(p, n) ==
  /\ p + n <= HeapUnits
  /\ \A b \in heap : b \cap Units(p, p + n) = {}

\* memalign succeeds: some aligned free block of the heap.
MmapAlloc(t) ==
  /\ pc[t] = "alloc"
  /\ LET k == req[t].kind
         n == HeapBacking(k)
     IN  \E p \in 0 .. HeapUnits - 1 :
           /\ p % HeapAlign(k) = 0
           /\ HeapFits(p, n)
           /\ heap' = heap \cup {Units(p, p + n)}
           /\ req' = [req EXCEPT ![t].base = p, ![t].backing = n]
  /\ pc' = [pc EXCEPT ![t] = "fill"]
  /\ UNCHANGED <<used, mmaps, backing, held>>

\* memalign fails: ENOMEM, nothing was recorded.
MmapNoMemory(t) ==
  /\ pc[t] = "alloc"
  /\ \A p \in 0 .. HeapUnits - 1 :
       p % HeapAlign(req[t].kind) = 0 => ~HeapFits(p, HeapBacking(req[t].kind))
  /\ pc' = [pc EXCEPT ![t] = "idle"]
  /\ req' = [req EXCEPT ![t] = NoReq]
  /\ UNCHANGED <<used, mmaps, backing, heap, held>>

\* read_mapped_file_range fails: the block is freed before it is recorded.
MmapFileError(t) ==
  /\ pc[t] = "fill"
  /\ req[t].kind = "file"
  /\ heap' = heap \ {Units(req[t].base, req[t].base + req[t].backing)}
  /\ pc' = [pc EXCEPT ![t] = "idle"]
  /\ req' = [req EXCEPT ![t] = NoReq]
  /\ UNCHANGED <<used, mmaps, backing, held>>

FirstFreeRec(i) ==
  /\ ~mmaps[i].used
  /\ \A j \in 1 .. i - 1 : mmaps[j].used

\* The second critical section: write the record; mmap returns the address.
MmapRecord(t) ==
  /\ pc[t] = "fill"
  /\ \E i \in Recs :
       /\ FirstFreeRec(i)
       /\ mmaps' = [mmaps EXCEPT ![i] =
            [used |-> TRUE, base |-> req[t].base, logical |-> Logical(req[t].kind),
             backing |-> req[t].backing, lo |-> req[t].base,
             hi |-> req[t].base + Logical(req[t].kind), idx |-> req[t].idx,
             cnt |-> req[t].cnt, keep |-> KeepCount(req[t].kind)]]
  /\ backing' = backing + req[t].backing
  /\ held' = held \cup {[base |-> req[t].base, lo |-> req[t].base,
                         hi |-> req[t].base + Logical(req[t].kind),
                         keep |-> KeepCount(req[t].kind)]}
  /\ pc' = [pc EXCEPT ![t] = "idle"]
  /\ req' = [req EXCEPT ![t] = NoReq]
  /\ UNCHANGED <<used, heap>>

\* The record table is full ...
MmapNoRecord(t) ==
  /\ pc[t] = "fill"
  /\ \A i \in Recs : mmaps[i].used
  /\ pc' = [pc EXCEPT ![t] = "undo"]
  /\ UNCHANGED <<used, mmaps, backing, heap, req, held>>

\* ... and the third critical section (or free) gives the memory back.
MmapUndo(t) ==
  /\ pc[t] = "undo"
  /\ IF req[t].idx >= 0
       THEN /\ used' = Released(used, req[t].idx, req[t].cnt)
            /\ UNCHANGED heap
       ELSE /\ heap' = heap \ {Units(req[t].base, req[t].base + req[t].backing)}
            /\ UNCHANGED used
  /\ pc' = [pc EXCEPT ![t] = "idle"]
  /\ req' = [req EXCEPT ![t] = NoReq]
  /\ UNCHANGED <<mmaps, backing, held>>

-----------------------------------------------------------------------------
(***************************************************************************)
(* bionic_munmap(start, end - start).  The loop takes the first record      *)
(* whose live interval contains start.                                      *)
(***************************************************************************)
\* Mutant: match the stale logical window instead of the live interval.
HitLogical(i, start) ==
  /\ mmaps[i].used
  /\ mmaps[i].base <= start /\ start < mmaps[i].base + mmaps[i].logical

Hit(i, start) ==
  /\ mmaps[i].used
  /\ mmaps[i].lo <= start /\ start < mmaps[i].hi

FirstHit(i, start) == Hit(i, start) /\ \A j \in 1 .. i - 1 : ~Hit(j, start)

\* What a matched record becomes; end is clipped to the record's limit first.
Clipped(s, end) ==
  IF end > s.base + s.logical THEN s.base + s.logical ELSE end

WholeUnmap(s, start, end) == start <= s.lo /\ end >= s.hi
HeadTrim(s, start, end)   == ~WholeUnmap(s, start, end) /\ start <= s.lo /\ end > s.lo
TailTrim(s, start, end)   == start > s.lo /\ end >= s.hi /\ start < s.hi

\* Mutant: any tail trim gives the last slots back, wherever it starts.
TailFreedAnywhere(s, start, end) ==
  /\ TailTrim(s, start, end)
  /\ s.idx >= 0 /\ s.keep > 0 /\ s.cnt > s.keep
  /\ end >= s.base + s.logical

\* The tail beyond the kept regions goes back to the arena.
TailFreed(s, start, end) ==
  /\ TailTrim(s, start, end)
  /\ s.idx >= 0 /\ s.keep > 0 /\ s.cnt > s.keep
  /\ start = s.base + s.keep * R
  /\ end >= s.base + s.logical

Trimmed(s, start, end) ==
  CASE WholeUnmap(s, start, end) -> NoRec
    [] HeadTrim(s, start, end)   -> [s EXCEPT !.lo = end]
    [] TailFreed(s, start, end)  -> [s EXCEPT !.hi = start, !.cnt = s.keep,
                                              !.backing = s.keep * R]
    [] TailTrim(s, start, end) /\ ~TailFreed(s, start, end)
                                 -> [s EXCEPT !.hi = start]
    [] OTHER                     -> s

\* Mutant: the released tail is counted from the start of the run.
FreedRunHead(s, start, end) ==
  CASE WholeUnmap(s, start, end) /\ s.idx >= 0 -> Run(s.idx, s.cnt)
    [] TailFreed(s, start, end) -> Run(s.idx, s.cnt - s.keep)
    [] OTHER -> {}

\* The arena bits one munmap gives back.
FreedRun(s, start, end) ==
  CASE WholeUnmap(s, start, end) /\ s.idx >= 0 -> Run(s.idx, s.cnt)
    [] TailFreed(s, start, end) -> Run(s.idx + s.keep, s.cnt - s.keep)
    [] OTHER -> {}

\* Mutant: subtract what the record keeps, not what it gave up.
BackingAfterKept(s, n) == IF backing >= n.backing THEN backing - n.backing ELSE 0

\* g_mmap_backing_bytes after record s became n; the code never goes below 0.
BackingAfter(s, n) ==
  IF backing >= s.backing - n.backing THEN backing - (s.backing - n.backing) ELSE 0

\* What the guest believes it still holds of m.
Remainder(m, start, end) ==
  {x \in {[m EXCEPT !.hi = start], [m EXCEPT !.lo = end]} : x.lo < x.hi}

GuestMayUnmap(m, start, end) ==
  \/ start = m.lo /\ end = m.hi /\ \A n \in held : ~Untrimmed(n)
  \/ /\ m.keep > 0 /\ start = m.base + m.keep * R /\ end = m.hi /\ m.lo < start
  \/ Guest = "any" /\ (start = m.lo \/ end = m.hi)

MunmapHit(t, i, start, end) ==
  LET s == mmaps[i]
      e == Clipped(s, end)
      n == Trimmed(s, start, e)
  IN  /\ mmaps' = [mmaps EXCEPT ![i] = n]
      /\ used' = used \ FreedRun(s, start, e)
      /\ backing' = BackingAfter(s, n)
      /\ IF WholeUnmap(s, start, e) /\ s.idx < 0
           THEN /\ req' = [req EXCEPT ![t].base = s.base, ![t].backing = s.backing]
                /\ pc' = [pc EXCEPT ![t] = "free"]
           ELSE UNCHANGED <<pc, req>>

Munmap(t, m, start, end) ==
  /\ pc[t] = "idle"
  /\ GuestMayUnmap(m, start, end)
  /\ held' = (held \ {m}) \cup Remainder(m, start, end)
  /\ \/ \E i \in Recs : FirstHit(i, start) /\ MunmapHit(t, i, start, end)
     \/ /\ \A i \in Recs : ~Hit(i, start)
        /\ UNCHANGED <<mmaps, used, backing, pc, req>>
  /\ UNCHANGED heap

\* free(to_free), after the unlock.
MunmapFree(t) ==
  /\ pc[t] = "free"
  /\ heap' = heap \ {Units(req[t].base, req[t].base + req[t].backing)}
  /\ pc' = [pc EXCEPT ![t] = "idle"]
  /\ req' = [req EXCEPT ![t] = NoReq]
  /\ UNCHANGED <<used, mmaps, backing, held>>

-----------------------------------------------------------------------------
MmapStep(t) ==
  \/ \E k \in Kinds : MmapTake(t, k) \/ MmapNoRun(t, k)
  \/ MmapAlloc(t) \/ MmapNoMemory(t) \/ MmapFileError(t)
  \/ MmapRecord(t) \/ MmapNoRecord(t) \/ MmapUndo(t)

MunmapStep(t) ==
  \/ \E m \in held : \E start \in Units(m.lo, m.hi), end \in Units(m.lo + 1, m.hi + 1) :
       start < end /\ Munmap(t, m, start, end)
  \/ MunmapFree(t)

Next == \E t \in Threads : MmapStep(t) \/ MunmapStep(t)

Spec == Init /\ [][Next]_vars

-----------------------------------------------------------------------------
(***************************************************************************)
(* Properties.                                                              *)
(***************************************************************************)
Record == [used : BOOLEAN, base : Nat, logical : Nat, backing : Nat,
           lo : Nat, hi : Nat, idx : Slots \cup {-1}, cnt : Nat, keep : Nat]

\* The type invariant of the arena, the record table and the calls in flight.
TypeOK ==
  /\ used \subseteq Slots
  /\ mmaps \in [Recs -> Record]
  /\ backing \in Nat
  /\ heap \subseteq SUBSET (0 .. HeapUnits - 1)
  /\ pc \in [Threads -> {"idle", "alloc", "fill", "undo", "free"}]
  /\ req \in [Threads -> [kind : AllKinds, base : Nat, backing : Nat,
                          idx : Slots \cup {-1}, cnt : Nat]]
  /\ held \subseteq [base : Nat, lo : Nat, hi : Nat, keep : Nat]

\* The arena slots a record stands for, and those of a mmap between its
\* critical sections.
RecRun(i) == IF mmaps[i].used /\ mmaps[i].idx >= 0
               THEN Run(mmaps[i].idx, mmaps[i].cnt) ELSE {}
FlyRun(t) == IF pc[t] \in {"fill", "undo"} /\ req[t].idx >= 0
               THEN Run(req[t].idx, req[t].cnt) ELSE {}

\* Every set arena bit is explained by exactly one record or one mmap in
\* flight, and every record's slots are set: no slot is leaked by an error
\* path or a trim, and none is handed out twice, although bionic_mmap drops
\* the lock between taking a run and recording it.
BitsAccounted ==
  used = (UNION {RecRun(i) : i \in Recs}) \cup (UNION {FlyRun(t) : t \in Threads})

RunsDisjoint ==
  /\ \A i, j \in Recs : i # j => RecRun(i) \cap RecRun(j) = {}
  /\ \A t, u \in Threads : t # u => FlyRun(t) \cap FlyRun(u) = {}
  /\ \A i \in Recs, t \in Threads : RecRun(i) \cap FlyRun(t) = {}

ArenaExact == BitsAccounted /\ RunsDisjoint

\* The bytes of the first n records.
Total[n \in 0 .. MaxRec] == IF n = 0 THEN 0 ELSE Total[n - 1] + mmaps[n].backing

\* g_mmap_backing_bytes, which mem_diag reports, is the sum over the records:
\* the saturating subtraction in bionic_munmap never hides a miscount.
BackingExact == backing = Total[MaxRec]

\* The live intervals of two records do not overlap.
LiveDisjoint ==
  \A i, j \in Recs :
    i # j /\ mmaps[i].used /\ mmaps[j].used =>
      Units(mmaps[i].lo, mmaps[i].hi) \cap Units(mmaps[j].lo, mmaps[j].hi) = {}

Mirrors(i, m) ==
  /\ mmaps[i].used
  /\ m.base = mmaps[i].base /\ m.keep = mmaps[i].keep
  /\ m.lo = mmaps[i].lo /\ m.hi = mmaps[i].hi

\* The record table mirrors what the guest holds: no record outlives its
\* mapping (a leak) and no mapping loses its record (a later munmap that does
\* nothing or frees someone else).  It holds for every request whose backing
\* covers its logical size, under any head and tail cuts by any threads.
RecordsMatchGuest ==
  /\ \A i \in Recs : mmaps[i].used => \E m \in held : Mirrors(i, m)
  /\ \A m \in held : \E i \in Recs : Mirrors(i, m)

\* With dynamic windows too: a step from a state whose records mirror the
\* guest and do not overlap keeps them mirroring the guest, so munmap's
\* search loop and its trims are exact whenever the intervals allow it.
UnmapKeepsMatch ==
  [][LiveDisjoint /\ RecordsMatchGuest => RecordsMatchGuest']_vars

\* The comment in bionic_munmap: matching "against the current live interval"
\* keeps "an older record" from stealing "the newer mapping's unmap".  As a
\* step property: the record an unmap changes is the one of the mapping the
\* guest named.
UnmapHitsOwner ==
  [][\A i \in Recs : mmaps[i].used /\ mmaps'[i] # mmaps[i] =>
       \E m \in held \ held' : m.base = mmaps[i].base]_vars

\* The arena implements the address space it stands for: mmap hands out
\* units no live mapping holds, munmap takes away what the guest named.
AS == INSTANCE AddressSpace WITH
        Top <- ArenaBase + (NSlots + 1) * R,
        blocks <- {<<m.lo, m.hi>> : m \in held}

ImplementsAddressSpace == AS!Spec
=============================================================================
