------------------------------ MODULE MCFakeFd ------------------------------
(***************************************************************************)
(* TLC instances of FakeFd.  The view forgets what no later step looks at:  *)
(* the result of the step that led here, and the bytes of a ring that are   *)
(* not in it any more.  No run but the one on liveness tells threads apart. *)
(***************************************************************************)
EXTENDS FakeFd, TLC

InRing(p, i) == (i - p.head) % Cap < p.length
Visible(p) == [p EXCEPT !.data = [i \in 0 .. Cap - 1 |-> IF InRing(p, i) THEN p.data[i] ELSE 0]]

View == <<fds, [a \in Addrs |-> Visible(pipes[a])], pc, call>>

Symmetry == Permutations(Threads)
=============================================================================
