----------------------------- MODULE MCGuestSync -----------------------------
(***************************************************************************)
(* What guest threads synchronise with, checked side by side: mutexes with  *)
(* a condition variable, futexes, and the guest threads themselves.  The    *)
(* three share no state here; a behaviour is a behaviour of its subject,    *)
(* and the others rest in an initial state.                                 *)
(***************************************************************************)
EXTENDS SyncMutex, Futex, GuestThreads, TLC

CONSTANTS k1, k2, c1, w1, w2, w3

\* Two mutexes of any type, one condition variable and room for two slots: one object
\* always finds the table full.
MCMutexOf == c1 :> k1

\* Two of three words begin the search at the same slot, the third at the other.
MCHash == w1 :> 1 @@ w2 :> 1 @@ w3 :> 0

VARIABLE subject

\* What the parts assume of their constants, where they do not say so themselves.
ASSUME SyncAssumption == FutexAssumption /\ GuestThreadsAssumption

SyncInit ==
  /\ subject \in {"mutexes", "futexes", "threads"}
  /\ Init /\ FutexInit /\ ThreadsInit
  /\ subject # "mutexes" => \A k \in Mutexes : typeOf[k] = "normal"
  /\ subject # "futexes" => word = [w \in Words |-> 0]

\* The steps of one subject leave the others and the choice alone.
Only(s) ==
  /\ subject = s /\ UNCHANGED subject
  /\ s # "mutexes" => UNCHANGED vars
  /\ s # "futexes" => UNCHANGED futexVars
  /\ s # "threads" => UNCHANGED threadVars

SyncNext ==
  \/ Only("mutexes") /\ Next
  \/ Only("futexes") /\ FutexNext
  \/ Only("threads") /\ ThreadsNext

SyncSpec == SyncInit /\ [][SyncNext]_<<subject, vars, futexVars, threadVars>>

Symmetry == Permutations(Threads) \cup Permutations(FutexThreads)
=============================================================================
