---------------------------- MODULE MCLazyContainer ----------------------------
(* The local profile keeps both records to each adapter by default; the    *)
(* managed profile and the local one with its paths set share them.        *)
EXTENDS LazyContainer, TLC

DefaultPrivate == Ports

Symmetry == Permutations(Requests)
===============================================================================
