------------------------- MODULE MCSessionRecovery -------------------------
(* Values of the constants of SessionRecovery for model checking. *)
EXTENDS SessionRecovery

OneOrTwoCalls == {<<"a">>, <<"a", "b">>}
=============================================================================
