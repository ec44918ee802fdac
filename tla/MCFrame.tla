------------------------------- MODULE MCFrame -------------------------------
(***************************************************************************)
(* Five parts that share no state, checked side by side: a behaviour is a   *)
(* behaviour of its subject, and the other four rest in an initial state.   *)
(***************************************************************************)
EXTENDS GfxReclaim, FrameClock, PointerInput, Waiting, Boot, TLC

\* The heap's sizes just below and above what the parts need, in units of 32 MiB.
MCHeapSizes == {16} \cup 27..33 \cup {40, 100, 128}
MCLibs == <<"main", "unity", "il2cpp">>

VARIABLE subject

Subjects == {"gfx", "waiting", "clock", "pointer", "boot"}
vars == <<subject, gfxVars, waitVars, sessionVars, pointerVars, bootVars>>

Init ==
  /\ subject \in Subjects
  /\ GfxInit /\ WaitInit /\ SessionInit /\ PointerInit /\ BootInit
  /\ subject # "waiting" => pollers = {}
  /\ subject # "boot" => ~cores

\* The steps of one subject leave the others and the choice alone.
Only(s) ==
  /\ subject = s /\ UNCHANGED subject
  /\ s # "gfx" => UNCHANGED gfxVars
  /\ s # "waiting" => UNCHANGED waitVars
  /\ s # "clock" => UNCHANGED sessionVars
  /\ s # "pointer" => UNCHANGED pointerVars
  /\ s # "boot" => UNCHANGED bootVars

Next ==
  \/ Only("gfx") /\ GfxNext
  \/ Only("waiting") /\ WaitNext
  \/ Only("clock") /\ SessionNext
  \/ Only("pointer") /\ PointerNext
  \/ Only("boot") /\ BootNext

Spec == Init /\ [][Next]_vars

Symmetry ==
  Permutations(GlThreads) \cup Permutations(Threads) \cup Permutations(Callbacks)
=============================================================================
