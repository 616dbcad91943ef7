------------------------------ MODULE MCVcfDepot ------------------------------
(* The depot with one profile.                                            *)
EXTENDS VcfDepot
=============================================================================
