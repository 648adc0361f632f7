----------------------------- MODULE MCVpcNetwork -----------------------------
(* Small instances of VpcNetwork for TLC, in a space of 16 addresses. *)
EXTENDS VpcNetwork

Block(addr, size) == [addr |-> addr, size |-> size]

\* The lower half, the same half written with host bits, a block inside it that
\* has neither of its ends, and the upper half.
Blocks == {Block(0, 8), Block(5, 8), Block(4, 2), Block(8, 8)}
=============================================================================
