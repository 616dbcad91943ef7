------------------------ MODULE MCBootAuthorization ------------------------
(* TLC instance of the ESXi boot authorizations: the request threads are   *)
(* interchangeable.                                                        *)
EXTENDS BootAuthorization, TLC

Symmetry == Permutations(Threads)
=============================================================================
