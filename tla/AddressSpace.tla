---------------------------- MODULE AddressSpace ----------------------------
(***************************************************************************)
(* What mmap and munmap promise their caller, whatever backs the memory:    *)
(* the caller holds a set of disjoint blocks <<lo, hi>> of addresses, a new *)
(* block never overlaps a held one, and unmapping takes a range out of one  *)
(* held block and leaves every other block alone.                           *)
(***************************************************************************)
EXTENDS Integers

CONSTANT Top      \* addresses are 0 .. Top
VARIABLE blocks

Blocks == {b \in (0 .. Top) \X (0 .. Top) : b[1] < b[2]}

Disjoint(b, c) == b[2] <= c[1] \/ c[2] <= b[1]

Init == blocks = {}

Map ==
  \E b \in Blocks :
    /\ \A c \in blocks : Disjoint(b, c)
    /\ blocks' = blocks \cup {b}

\* What is left of b after lo .. hi - 1 is unmapped.
Rest(b, lo, hi) == {<<b[1], lo>>, <<hi, b[2]>>} \cap Blocks

Unmap ==
  \E b \in blocks : \E lo, hi \in b[1] .. b[2] :
    /\ lo < hi
    /\ blocks' = (blocks \ {b}) \cup Rest(b, lo, hi)

Next == Map \/ Unmap
Spec == Init /\ [][Next]_blocks
=============================================================================
