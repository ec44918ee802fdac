------------------------------ MODULE SyncSlots ------------------------------
(***************************************************************************)
(* The table of synchronisation slots of source/bionic.c.  Guest mutexes,   *)
(* condition variables and semaphores are only addresses; the host objects  *)
(* live in a slot found by address and kind, made on first use.             *)
(*                                                                          *)
(* An object below stands for an address with its kind.  The lookup and the *)
(* release are critical sections of g_slots_lock; callers use the slot      *)
(* after the unlock.                                                        *)
(***************************************************************************)
EXTENDS Naturals

CONSTANTS
  Threads,    \* guest threads
  NoThread,   \* nobody
  Objects,    \* guest synchronisation objects
  NoObject,   \* the key of an unused slot
  NSlots      \* SYNC_SLOTS

ASSUME SlotsAssumption ==
  NSlots \in Nat \ {0} /\ NoThread \notin Threads /\ NoObject \notin Objects

VARIABLE slots   \* g_slots

Indices == 1..NSlots

\* A slot after memset, mutexInit and condvarInit.  m is the holder of the host
\* mutex, cv the threads asleep on the host condition variable.
Fresh(o) ==
  [key |-> o, m |-> NoThread, cv |-> {}, count |-> 0,
   type |-> "normal", known |-> FALSE, owner |-> NoThread, depth |-> 0]

SlotsInit == slots = [i \in Indices |-> Fresh(NoObject)]

Unused == {i \in Indices : slots[i].key = NoObject}
Present(o) == \E i \in Indices : slots[i].key = o
SlotOf(o) == CHOOSE i \in Indices : slots[i].key = o
FirstUnused == CHOOSE i \in Unused : \A j \in Unused : i <= j

\* Mutant: an unused slot is taken before the search is over.
GetFirstSlot(o, i) ==
  \/ /\ Unused = {} /\ Present(o) /\ i = SlotOf(o)
     /\ UNCHANGED slots
  \/ /\ Unused # {} /\ i = FirstUnused
     /\ slots' = [slots EXCEPT ![i] = Fresh(o)]

\* slot_get with create set returns slot i.
GetSlot(o, i) ==
  \/ /\ Present(o) /\ i = SlotOf(o)
     /\ UNCHANGED slots
  \/ /\ ~Present(o) /\ Unused # {} /\ i = FirstUnused
     /\ slots' = [slots EXCEPT ![i] = Fresh(o)]

\* slot_get with create set finds neither the object nor room for it.
NoSlotLeft(o) == ~Present(o) /\ Unused = {}

\* slot_release: the rest of the slot stays as it is until it is used again.
ReleaseSlot(o) ==
  slots' = IF Present(o) THEN [slots EXCEPT ![SlotOf(o)].key = NoObject] ELSE slots
=============================================================================
