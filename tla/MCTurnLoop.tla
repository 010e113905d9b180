----------------------------- MODULE MCTurnLoop -----------------------------
(* Limits for model checking: small enough that each one is reached.  The   *)
(* calls differ in nothing but their names, so one of them comes first.     *)
EXTENDS TurnLoop

TwoPolicies == {"normal", "always"}
OnePolicy   == {"normal"}
FirstOnly   == {1}

=============================================================================
