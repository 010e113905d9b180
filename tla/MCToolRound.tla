----------------------------- MODULE MCToolRound -----------------------------
(* Rounds for model checking: messages of two and three calls. *)
EXTENDS ToolRound

Asked(lists) == [modes : lists, durable : BOOLEAN, policy : {"ask"}]

\* A group larger than the pool, one behind a mutation and one before another call,
\* which no policy concerns; every other mode alone and next to another, under every
\* policy; one command asked for three times in a durable session.
RoundsMixed ==
    Asked({<<"parallel", "parallel", "plain">>, <<"plain", "state">>})
    \cup [modes : {<<"mutation", "parallel">>, <<"action", "action", "action">>},
          durable : {TRUE}, policy : {"ask"}]
    \cup [modes : {<<"parallel", "parallel", "parallel">>}, durable : {FALSE}, policy : {"ask"}]
    \cup [modes : {<<"state", "action">>, <<"exit", "mutation">>, <<"mutation", "action">>},
          durable : BOOLEAN, policy : Policies]

=============================================================================
