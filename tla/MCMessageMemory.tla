--------------------------- MODULE MCMessageMemory ---------------------------
(* A small instance of MessageMemory; objects of a class, and addresses,   *)
(* are interchangeable.                                                    *)
EXTENDS MessageMemory, TLC

Symmetry ==
    Permutations(Messages) \union Permutations(Readers) \union
    Permutations(Builders) \union Permutations(Buffers)

=============================================================================
