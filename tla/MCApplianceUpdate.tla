-------------------------- MODULE MCApplianceUpdate --------------------------
(* TLC instance of an installation: the current order, the historical one, *)
(* tasks without a release, and a single stream, which either updater may  *)
(* have queued.                                                            *)
EXTENDS ApplianceUpdate

SomeOrders == {<<"photon", "powershell", "release">>, <<"release", "powershell", "photon">>,
               <<"photon", "powershell">>, <<"release", "photon">>, <<"release">>}
=============================================================================
