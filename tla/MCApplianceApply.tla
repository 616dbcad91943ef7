-------------------------- MODULE MCApplianceApply --------------------------
(* TLC instance of the appliance apply: plans that put each protected part *)
(* before or after an ordinary component, and such a component alone.      *)
EXTENDS ApplianceApply

MCPlans == {<<"handoff", "unit">>, <<"unit", "pair">>, <<"unit">>}
=============================================================================
