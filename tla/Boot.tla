-------------------------------- MODULE Boot --------------------------------
(***************************************************************************)
(* The start of the program: __libnx_initheap and runtime_load_modules of   *)
(* source/runtime.c, the loader of source/so_util.c, unity_patches_install  *)
(* of source/unity_patches.c, and main and the frame of unity_session in    *)
(* source/main.c.  One thread, but every step can fail, each failure ends   *)
(* the process, and nothing may run before what it needs is complete.       *)
(*                                                                           *)
(* What a file holds is chosen when the loader first looks at it: the build *)
(* id, the types of its relocations, one undefined symbol, and the words to *)
(* be patched.  Memory is counted in units of 32 MiB, and addresses wrap     *)
(* around at AddrSpan units, as unsigned numbers do.                        *)
(***************************************************************************)
EXTENDS Integers, Sequences

CONSTANTS
  HeapStarts, HeapSizes,   \* the heap the process is given
  Slot, ArenaMax,          \* UNITY_MMAP_SLOT_BYTES, UNITY_MMAP_ARENA_BYTES
  SoArena, MinNewlib,      \* SO_ARENA_BYTES, MIN_NEWLIB_HEAP_BYTES
  BootHeap,                \* the heap main insists on
  AddrSpan,                \* one more than the largest address
  Libs                     \* libmain, libunity and libil2cpp in load order

ASSUME BootAssumption ==
  /\ HeapStarts \subseteq Nat /\ HeapSizes \subseteq Nat
  /\ Slot \in Nat \ {0} /\ ArenaMax \in Nat /\ ArenaMax % Slot = 0
  /\ SoArena \in Nat /\ MinNewlib \in Nat
  \* The heap and what is looked for in it lie far from the end of the addresses.
  /\ AddrSpan \in Nat \ {0}
  /\ \A lo \in HeapStarts : /\ lo + ArenaMax + SoArena + MinNewlib < AddrSpan
                           /\ \A size \in HeapSizes : lo + size < AddrSpan
  /\ Len(Libs) \in Nat \ {0}

VARIABLES
  stage,      \* where main is; "fatal" after fatal_error
  step,       \* the library or patch group a loop is at
  heap,       \* start and end of the heap, and of its three parts
  lib,        \* each library: what it is, and what was made of it
  word,       \* the patched words of libunity
  cores,      \* svcGetInfo reports the process's cores
  tls         \* the main thread has a guest thread pointer

bootVars == <<stage, step, heap, lib, word, cores, tls>>

LibSet == {Libs[i] : i \in 1..Len(Libs)}

\* Where the one undefined symbol can be found.
Imports == {"host", "module", "weak", "missing"}
NotLoaded == [state |-> "absent", expected |-> FALSE, bound |-> "nothing", begun |-> FALSE]

\* The groups of words unity_patches_install handles one after the other, and
\* the word each is accepted with: as shipped ("from") or as patched ("to").
Groups == <<{"cpu"}, {"fmod"}, {"h1", "h2", "align"}, {"g1", "g2"}, {"choreo"}, {"time"}>>
Sites == UNION {Groups[g] : g \in 1..Len(Groups)}
Accepted(site) == IF site \in {"choreo", "time"} THEN {"from"} ELSE {"from", "to"}

NoHeap == [lo |-> 0, so |-> 0, mmap |-> 0, top |-> 0, hi |-> 0]
BootInit ==
  /\ stage = "heap" /\ step = 1 /\ heap = NoHeap
  /\ lib = [m \in LibSet |-> NotLoaded]
  /\ word = [s \in Sites |-> "unread"] /\ cores \in BOOLEAN /\ tls = FALSE

BootGoto(next) == stage' = next /\ step' = 1
Fatal == stage' = "fatal" /\ step' = 1
\* The body of a loop over the libraries; the last one goes on.
LoopTo(next) == IF step < Len(Libs) THEN step' = step + 1 /\ UNCHANGED stage ELSE BootGoto(next)

-----------------------------------------------------------------------------
(***************************************************************************)
(* __libnx_initheap: newlib's heap, the libraries, the mmap arena.          *)
(***************************************************************************)
AlignDown(n) == (n \div Slot) * Slot
\* Sums and differences of uintptr_t.
AddrPlus(m, n) == (m + n) % AddrSpan
AddrMinus(m, n) == (m - n) % AddrSpan

\* Does an arena of this size leave room below it?  The first test is what keeps
\* the difference of the second from wrapping around.
\* Mutant: the difference alone is tested.
FitsWrapped(lo, top, arena) == AddrMinus(top, arena + SoArena) >= AddrPlus(lo, MinNewlib)
Fits(lo, top, arena) ==
  /\ top >= AddrPlus(lo, arena + SoArena)
  /\ AddrMinus(top, arena + SoArena) >= AddrPlus(lo, MinNewlib)
ArenaSizes(lo, top) ==
  {a \in Slot..ArenaMax : (ArenaMax - a) % Slot = 0 /\ Fits(lo, top, a)}

InitHeap(lo, size) ==
  LET hi == AddrPlus(lo, size)
      top == AlignDown(hi)
      fit == ArenaSizes(lo, top)
      arena == CHOOSE a \in fit : \A b \in fit : b <= a
  IN /\ stage = "heap"
     /\ IF fit = {} THEN Fatal /\ UNCHANGED heap
        ELSE /\ BootGoto("prepare")
             /\ heap' = [lo |-> lo, so |-> AddrMinus(top, arena + SoArena),
                         mmap |-> AddrMinus(top, arena), top |-> top, hi |-> hi]
     /\ UNCHANGED <<lib, word, cores, tls>>

\* Required system calls, the installer, the runtime directory.
PrepareFiles ==
  /\ stage = "prepare"
  /\ \/ Fatal
     \/ heap.hi - heap.lo >= BootHeap /\ BootGoto("load")
  /\ UNCHANGED <<heap, lib, word, cores, tls>>

-----------------------------------------------------------------------------
(***************************************************************************)
(* runtime_load_modules.                                                    *)
(***************************************************************************)
This == Libs[step]
Become(m, state) == lib' = [lib EXCEPT ![m].state = state]

\* so_load: ten ways to fail.
Load ==
  /\ stage = "load"
  /\ \/ Become(This, "loaded") /\ LoopTo("buildid")
     \/ Fatal /\ UNCHANGED lib
  /\ UNCHANGED <<heap, word, cores, tls>>

CheckBuildId ==
  /\ stage = "buildid"
  /\ \E expected \in [LibSet -> BOOLEAN] :
       /\ lib' = [m \in LibSet |-> [lib[m] EXCEPT !.expected = expected[m]]]
       /\ IF \A m \in LibSet : expected[m] THEN BootGoto("relocate") ELSE Fatal
  /\ UNCHANGED <<heap, word, cores, tls>>

\* so_relocate stops at a relocation of a type it does not know; the cell of
\* an undefined symbol holds the addend.
Relocate ==
  /\ stage = "relocate"
  /\ \/ /\ lib' = [lib EXCEPT ![This].state = "relocated", ![This].bound = "addend"]
        /\ LoopTo("resolve")
     \/ Fatal /\ UNCHANGED lib
  /\ UNCHANGED <<heap, word, cores, tls>>

\* so_resolve: the host's table first, then the other libraries, then the
\* other host names; a weak symbol may stay null, another gets the fallback.
Bound(import) == CASE import \in {"host", "module"} -> "function"
                   [] import = "weak"               -> "null"
                   [] import = "missing"            -> "fallback"
Resolve ==
  /\ stage = "resolve"
  /\ \E import \in Imports : lib' = [lib EXCEPT ![This].bound = Bound(import)]
  /\ LoopTo("unresolved")
  /\ UNCHANGED <<heap, word, cores, tls>>
CheckUnresolved ==
  /\ stage = "unresolved"
  /\ IF \E m \in LibSet : lib[m].bound = "fallback" THEN Fatal ELSE BootGoto("finalize")
  /\ UNCHANGED <<heap, lib, word, cores, tls>>

\* so_finalize maps the code; the kernel may refuse.
Finalize ==
  /\ stage = "finalize"
  /\ \/ Become(This, "executable") /\ LoopTo("tls")
     \/ Fatal /\ UNCHANGED lib
  /\ UNCHANGED <<heap, word, cores, tls>>
InstallTls ==
  /\ stage = "tls" /\ tls' = TRUE /\ BootGoto("initarrays")
  /\ UNCHANGED <<heap, lib, word, cores>>

\* so_execute_init_array: the first guest code.
InitArray ==
  /\ stage = "initarrays" /\ lib' = [lib EXCEPT ![This].begun = TRUE]
  /\ LoopTo("verify")
  /\ UNCHANGED <<heap, word, cores, tls>>

-----------------------------------------------------------------------------
(***************************************************************************)
(* unity_patches_install: every word of a group is checked before the       *)
(* first of them is written.                                                *)
(***************************************************************************)
Group == Groups[step]
\* Without the core mask the CPU count is left as it is.
Skipped == Group = {"cpu"} /\ ~cores
NextGroup == IF step < Len(Groups) THEN stage' = "verify" /\ step' = step + 1
                                   ELSE BootGoto("stack")

\* Mutant: one acceptable word speaks for its group.
AnyMatches(found) == \E s \in Group : found[s] \in Accepted(s)
AllMatch(found) == \A s \in Group : found[s] \in Accepted(s)
Verify ==
  /\ stage = "verify" /\ ~Skipped
  /\ \E found \in [Group -> {"from", "to", "other"}] :
       /\ word' = [s \in Sites |-> IF s \in Group THEN found[s] ELSE word[s]]
       /\ IF AllMatch(found) THEN stage' = "write" /\ UNCHANGED step ELSE Fatal
  /\ UNCHANGED <<heap, lib, cores, tls>>
Skip ==
  /\ stage = "verify" /\ Skipped /\ NextGroup
  /\ UNCHANGED <<heap, lib, word, cores, tls>>

\* so_patch_code writes through an alias of the page, and may not get one.
Write ==
  /\ stage = "write"
  /\ \/ /\ \E s \in Group : word[s] = "from" /\ word' = [word EXCEPT ![s] = "to"]
        /\ UNCHANGED <<stage, step>>
     \/ (\E s \in Group : word[s] = "from") /\ Fatal /\ UNCHANGED word
     \/ (\A s \in Group : word[s] # "from") /\ NextGroup /\ UNCHANGED word
  /\ UNCHANGED <<heap, lib, cores, tls>>

-----------------------------------------------------------------------------
(***************************************************************************)
(* The session on its own stack.                                            *)
(***************************************************************************)
GuestStack ==
  /\ stage = "stack" /\ (Fatal \/ BootGoto("onload"))
  /\ UNCHANGED <<heap, lib, word, cores, tls>>

\* Every library's JNI_OnLoad answers the version it was asked for.
OnLoad ==
  /\ stage = "onload" /\ (Fatal \/ LoopTo("surface"))
  /\ UNCHANGED <<heap, lib, word, cores, tls>>

\* The surface is up; the helper thread may not start.
StartSession ==
  /\ stage = "surface" /\ (Fatal \/ BootGoto("session"))
  /\ UNCHANGED <<heap, lib, word, cores, tls>>
EndSession ==
  /\ stage = "session" /\ BootGoto("ended")
  /\ UNCHANGED <<heap, lib, word, cores, tls>>

BootNext ==
  \/ \E lo \in HeapStarts, size \in HeapSizes : InitHeap(lo, size)
  \/ PrepareFiles \/ Load \/ CheckBuildId \/ Relocate \/ Resolve \/ CheckUnresolved
  \/ Finalize \/ InstallTls \/ InitArray \/ Verify \/ Skip \/ Write
  \/ GuestStack \/ OnLoad \/ StartSession \/ EndSession

BootSpec == BootInit /\ [][BootNext]_bootVars

-----------------------------------------------------------------------------
(***************************************************************************)
(* Nothing runs half made.  Guest code runs only when all three libraries   *)
(* are of the expected build, mapped, and bound to functions that exist,    *)
(* and the session only with every group of patches complete: a group of    *)
(* which some words were foreign, or some writes failed, ends the process.  *)
(* And a group is never written in part because a later word is foreign.    *)
(***************************************************************************)
GuestRuns == \E m \in LibSet : lib[m].begun
SessionStages == {"stack", "onload", "surface", "session", "ended"}
GroupComplete(g) == \A s \in Groups[g] : word[s] = "to"
WholeOrNothing ==
  /\ GuestRuns => tls /\ \A m \in LibSet : /\ lib[m].state = "executable" /\ lib[m].expected
                                           /\ lib[m].bound \in {"function", "null"}
  /\ stage \in SessionStages =>
       \A g \in 1..Len(Groups) : GroupComplete(g) \/ (Groups[g] = {"cpu"} /\ ~cores)
  /\ stage = "write" => \A s \in Group : word[s] # "other"

(***************************************************************************)
(* The heap's parts do not overlap: newlib's keeps its minimum, the         *)
(* libraries and the mmap arena follow, and the arena is made of whole      *)
(* aligned slots inside the heap.                                           *)
(***************************************************************************)
ArenasFit ==
  stage \notin {"heap", "fatal"} =>
    /\ heap.so - heap.lo >= MinNewlib /\ heap.mmap - heap.so = SoArena
    /\ heap.mmap < heap.top /\ heap.top - heap.mmap <= ArenaMax /\ heap.top <= heap.hi
    /\ heap.mmap % Slot = 0 /\ heap.top % Slot = 0
=============================================================================
