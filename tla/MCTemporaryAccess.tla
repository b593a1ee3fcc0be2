-------------------------- MODULE MCTemporaryAccess --------------------------
(* Two handlers at once, exceptions and pauses, one policy, one client and a *)
(* forwarded address.                                                        *)
EXTENDS TemporaryAccess, TLC
Symmetry == Permutations(Threads)
==============================================================================
