----------------------------- MODULE FrameClock -----------------------------
(***************************************************************************)
(* The Unity session of source/main.c with the helper thread of             *)
(* source/unity_patches.c and the choreographer of source/android_ndk.c.    *)
(*                                                                           *)
(* The main thread renders frames; once a frame the patched game calls      *)
(* time_update_hook, which moves the game's clock.  The helper posts the    *)
(* vsync, runs the frame callbacks, and moves the clock itself when it      *)
(* finds that the main thread has not done so for a while.  Clock readings  *)
(* are one number that only grows; a step reads or writes one shared        *)
(* variable, or runs under a host mutex.                                    *)
(***************************************************************************)
EXTENDS Integers, FiniteSets

CONSTANTS
  Callbacks, NoCallback,
  NSlots,       \* g_callbacks: 32
  Stall,        \* the helper moves the clock after this long: 100 ms
  Frame,        \* between two choreographer ticks: 16 ms
  MaxNow        \* bound: the last clock reading

VARIABLES
  now,          \* CLOCK_MONOTONIC
  main, stamp,  \* the main thread, and its local clock reading
  helper, seen, \* the helper, and its clock reading `now'
  lastChoreo,   \* the helper's last_choreo
  lastMain,     \* g_last_main_tick_ns, 0 before the first frame
  manager,      \* g_time_manager is set
  paused,       \* the pause flag of the game's time manager
  clockLock,    \* g_clock_lock: "free", "main" or "helper"
  told,         \* the last time given to g_update_body
  slots,        \* g_callbacks
  batch,        \* local, the callbacks the helper has taken
  owed,         \* how often an accepted callback has still to run
  stop, quit    \* g_stop, jni_quit_requested

sessionVars == <<now, main, stamp, helper, seen, lastChoreo, lastMain, manager, paused,
          clockLock, told, slots, batch, owed, stop, quit>>
clockVars == <<lastMain, manager, clockLock, told>>
postVars == <<slots, batch, owed>>
endVars == <<stop, quit>>

NoSlots == [i \in 1..NSlots |-> NoCallback]

SessionInit ==
  /\ now = 1 /\ main = "starting" /\ stamp = 0
  /\ helper = "none" /\ seen = 0 /\ lastChoreo = 0
  /\ lastMain = 0 /\ manager = FALSE /\ paused = FALSE /\ clockLock = "free"
  /\ told = 0 /\ slots = NoSlots /\ batch = NoSlots
  /\ owed = [c \in Callbacks |-> 0] /\ stop = FALSE /\ quit = FALSE

\* Only these change besides the named ones.
Main(from, to) == main = from /\ main' = to
Helper(from, to) == helper = from /\ helper' = to

TimePasses == /\ now < MaxNow /\ now' = now + 1
              /\ UNCHANGED <<main, stamp, helper, seen, lastChoreo, paused,
                             clockVars, postVars, endVars>>

\* clock_tick: the clock is read where the caller holds the lock.
ClockTick == told' = now

-----------------------------------------------------------------------------
(***************************************************************************)
(* The main thread.                                                         *)
(***************************************************************************)
mainSame == UNCHANGED <<now, helper, seen, lastChoreo, postVars>>

\* unity_patches_start; a failure ends the process.
Start ==
  /\ Main("starting", "loop") /\ stop' = FALSE /\ helper' = "running"
  /\ UNCHANGED <<now, stamp, seen, lastChoreo, paused, clockVars, postVars, quit>>

\* appletMainLoop may end the session at any frame.
LoopTest ==
  /\ \/ ~quit /\ Main("loop", "rendering")
     \/ Main("loop", "leaving")
  /\ mainSame /\ UNCHANGED <<stamp, paused, clockVars, endVars>>

\* The game pauses and resumes its time manager between two frames.
TogglePause ==
  /\ main = "rendering" /\ paused' = ~paused
  /\ mainSame /\ UNCHANGED <<main, stamp, clockVars, endVars>>

\* time_update_hook, one step for each shared variable.
HookManager ==
  /\ Main("rendering", "read") /\ manager' = TRUE
  /\ mainSame /\ UNCHANGED <<stamp, paused, lastMain, clockLock, told, endVars>>
HookRead ==
  /\ Main("read", "stamp") /\ stamp' = now
  /\ mainSame /\ UNCHANGED <<paused, clockVars, endVars>>
HookStamp ==
  /\ Main("stamp", IF paused THEN "rendered" ELSE "lock") /\ lastMain' = stamp
  /\ mainSame /\ UNCHANGED <<stamp, paused, manager, clockLock, told, endVars>>
HookLock ==
  /\ Main("lock", "tick") /\ clockLock = "free" /\ clockLock' = "main"
  /\ mainSame /\ UNCHANGED <<stamp, paused, lastMain, manager, told, endVars>>
\* Mutant: the time is the one read before the lock was taken.
HookTickStamped ==
  /\ Main("tick", "rendered") /\ told' = stamp /\ clockLock' = "free"
  /\ mainSame /\ UNCHANGED <<stamp, paused, lastMain, manager, endVars>>
HookTick ==
  /\ Main("tick", "rendered") /\ ClockTick /\ clockLock' = "free"
  /\ mainSame /\ UNCHANGED <<stamp, paused, lastMain, manager, endVars>>

\* render returns, with or without having updated the time.
Rendered ==
  /\ \/ main \in {"rendering", "rendered"} /\ main' = "loop"
     \/ Main("rendered", "leaving")                  \* keep_running is 0
  /\ stamp' = 0
  /\ mainSame /\ UNCHANGED <<paused, clockVars, endVars>>

\* unity_patches_stop, the unload calls, and the session's return.
Stop ==
  /\ Main("leaving", "joining") /\ stop' = TRUE
  /\ mainSame /\ UNCHANGED <<stamp, paused, clockVars, quit>>
Join ==
  /\ Main("joining", "unloading") /\ helper = "ended"
  /\ mainSame /\ UNCHANGED <<stamp, paused, clockVars, endVars>>
Unload ==
  /\ Main("unloading", "ended")
  /\ mainSame /\ UNCHANGED <<stamp, paused, clockVars, endVars>>

-----------------------------------------------------------------------------
(***************************************************************************)
(* The helper, clock_thread_main.                                           *)
(***************************************************************************)
helperSame == UNCHANGED <<now, main, stamp, paused, endVars>>

Wake ==
  /\ Helper("running", "woken") /\ ~stop /\ ~quit
  /\ helperSame /\ UNCHANGED <<seen, lastChoreo, clockVars, postVars>>
HelperEnds ==
  /\ Helper("running", "ended") /\ (stop \/ quit)
  /\ helperSame /\ UNCHANGED <<seen, lastChoreo, clockVars, postVars>>

HelperReads ==
  /\ Helper("woken", IF now - lastChoreo >= Frame THEN "tick" ELSE "clock")
  /\ seen' = now
  /\ lastChoreo' = IF now - lastChoreo >= Frame THEN now ELSE lastChoreo
  /\ helperSame /\ UNCHANGED <<clockVars, postVars>>

\* choreographer_tick: all pending callbacks are taken under the lock.
TakeCallbacks ==
  /\ Helper("tick", "calling") /\ batch' = slots /\ slots' = NoSlots
  /\ helperSame /\ UNCHANGED <<seen, lastChoreo, clockVars, owed>>

\* The callbacks taken are run in the order of the table.
IsFirst(i, S) == i \in S /\ \A j \in S : i <= j
Taken == {i \in 1..NSlots : batch[i] # NoCallback}
RunCallback(i) ==
  /\ helper = "calling" /\ IsFirst(i, Taken)
  /\ batch' = [batch EXCEPT ![i] = NoCallback]
  /\ owed' = [owed EXCEPT ![batch[i]] = @ - 1]
  /\ helperSame /\ UNCHANGED <<helper, seen, lastChoreo, slots, clockVars>>
\* Mutant: the table is cleared after the callbacks have run.
CallbacksDoneClears ==
  /\ Helper("calling", "clock") /\ batch = NoSlots /\ slots' = NoSlots
  /\ helperSame /\ UNCHANGED <<seen, lastChoreo, clockVars, batch, owed>>
CallbacksDone ==
  /\ Helper("calling", "clock") /\ batch = NoSlots
  /\ helperSame /\ UNCHANGED <<seen, lastChoreo, clockVars, postVars>>

\* now - g_last_main_tick_ns > 100 ms, in unsigned 64-bit arithmetic: a stamp
\* later than the reading makes the difference wrap.
LongAgo == seen < lastMain \/ seen - lastMain > Stall
Overdue == manager /\ lastMain # 0 /\ LongAgo

HelperLooks ==
  /\ Helper("clock", IF Overdue THEN "trying" ELSE "running")
  /\ helperSame /\ UNCHANGED <<seen, lastChoreo, clockVars, postVars>>
HelperTakesOver ==
  /\ Helper("trying", "ticking") /\ clockLock = "free" /\ clockLock' = "helper"
  /\ helperSame /\ UNCHANGED <<seen, lastChoreo, lastMain, manager, told, postVars>>
HelperGivesUp ==
  /\ Helper("trying", "running") /\ clockLock # "free"
  /\ helperSame /\ UNCHANGED <<seen, lastChoreo, clockVars, postVars>>
HelperTick ==
  /\ Helper("ticking", "running") /\ ClockTick /\ clockLock' = "free"
  /\ helperSame /\ UNCHANGED <<seen, lastChoreo, lastMain, manager, postVars>>

-----------------------------------------------------------------------------
(***************************************************************************)
(* The other threads of the game.                                           *)
(***************************************************************************)
\* AChoreographer_postFrameCallback takes the first free slot; with none free it
\* changes nothing and says nothing.
FreeSlots == {i \in 1..NSlots : slots[i] = NoCallback}
Post(c, i) ==
  /\ main \notin {"starting", "ended"}
  /\ IsFirst(i, FreeSlots)
  /\ slots' = [slots EXCEPT ![i] = c]
  /\ owed' = [owed EXCEPT ![c] = @ + 1]
  /\ UNCHANGED <<now, main, stamp, helper, seen, lastChoreo, paused, clockVars,
                 batch, endVars>>

\* jni_request_quit: the activity's finish, from any thread.
Quit ==
  /\ ~quit /\ quit' = TRUE
  /\ UNCHANGED <<now, main, stamp, helper, seen, lastChoreo, paused, clockVars,
                 postVars, stop>>

MainStep == Start \/ LoopTest \/ HookManager \/ HookRead \/ HookStamp \/ HookLock
              \/ HookTick \/ Rendered \/ Stop \/ Join \/ Unload
HelperStep == Wake \/ HelperEnds \/ HelperReads \/ TakeCallbacks
                \/ (\E i \in 1..NSlots : RunCallback(i)) \/ CallbacksDone \/ HelperLooks \/ HelperTakesOver
                \/ HelperGivesUp \/ HelperTick
SessionNext == TimePasses \/ MainStep \/ TogglePause \/ HelperStep
          \/ (\E c \in Callbacks, i \in 1..NSlots : Post(c, i)) \/ Quit

SessionSpec == SessionInit /\ [][SessionNext]_sessionVars

-----------------------------------------------------------------------------
(***************************************************************************)
(* The game's time never runs backwards, although two threads move it: each *)
(* reads the clock only once it holds g_clock_lock.                         *)
(***************************************************************************)
ClockForward == [][told' >= told]_sessionVars

(***************************************************************************)
(* A frame callback that was accepted runs exactly once: it waits in one    *)
(* slot or in the helper's batch until then, also when another thread or    *)
(* the callback itself posts again meanwhile, and none is left half way     *)
(* when the library is unloaded.                                            *)
(***************************************************************************)
Holding(table, c) == {i \in 1..NSlots : table[i] = c}
Pending(c) == Cardinality(Holding(slots, c)) + Cardinality(Holding(batch, c))
PostedRunsOnce ==
  /\ \A c \in Callbacks : owed[c] = Pending(c)
  /\ main \in {"unloading", "ended"} => batch = NoSlots /\ clockLock = "free"
=============================================================================
