------------------------------ MODULE MCBroker ------------------------------
(* Instances of Broker for TLC.                                            *)
EXTENDS Broker, TLC

\* How often each event may happen; those not named, never.
May(often) == [e \in Events |-> IF e \in DOMAIN often THEN often[e] ELSE 0]

Unlimited == [max |-> 0, dropHead |-> FALSE, dlx |-> NoEx, dlkey |-> <<>>]
LastOne(dlx, key) == [max |-> 1, dropHead |-> TRUE, dlx |-> dlx, dlkey |-> key]
a == <<"a">>

\* Both queues are bound, and come and go while two threads publish.
Churn ==
    [type |-> "x" :> "direct" @@ "y" :> "fanout",
     policy |-> "p" :> Unlimited @@ "q" :> Unlimited,
     queues |-> <<"p">>, bound |-> "x" :> <<<<a, "p">>>> @@ "y" :> <<>>,
     patterns |-> {a, <<"b">>}, keys |-> {a},
     may |-> May([publish |-> 2, declare |-> 2, delete |-> 2, bind |-> 2])]

\* The queues evict into each other, and q into itself.
Circles ==
    [type |-> "x" :> "fanout" @@ "y" :> "direct",
     policy |-> "p" :> LastOne("x", <<>>) @@ "q" :> LastOne("x", a),
     queues |-> <<"p", "q">>, bound |-> "x" :> <<<<a, "p">>, <<a, "q">>>> @@ "y" :> <<<<a, "q">>>>,
     patterns |-> {}, keys |-> {a},
     may |-> May([publish |-> 2, take |-> 1])]

\* q evicts into p, which takes everything.
Shelter ==
    [type |-> "x" :> "direct" @@ "y" :> "fanout",
     policy |-> "p" :> Unlimited @@ "q" :> LastOne("y", <<"d">>),
     queues |-> <<"p", "q">>, bound |-> "x" :> <<<<a, "q">>>> @@ "y" :> <<<<a, "p">>>>,
     patterns |-> {}, keys |-> {a, <<"q">>},
     may |-> May([publish |-> 2, take |-> 2])]

\* A full queue refuses.
Refusing ==
    [Shelter EXCEPT !.policy = "p" :> Unlimited @@ "q" :> [Unlimited EXCEPT !.max = 1],
                    !.bound = "x" :> <<<<a, "q">>, <<a, "p">>>> @@ "y" :> <<>>,
                    !.may = May([publish |-> 2, take |-> 1])]

\* Topic patterns.
Topics ==
    [type |-> "x" :> "topic" @@ "y" :> "fanout",
     policy |-> "p" :> Unlimited @@ "q" :> Unlimited,
     queues |-> <<"p", "q">>, bound |-> "x" :> <<<<<<"*", "b">>, "p">>>> @@ "y" :> <<>>,
     patterns |-> {<<"*", "b">>, <<"#">>, <<"a", "#">>, <<"#", "b">>, <<"a", "*">>, <<"#", "a", "#">>,
                   <<"*", "#", "b">>, <<"">>, <<"#", "#">>},
     keys |-> {<<"">>, a, <<"a", "b">>, <<"b", "a", "b">>, <<"a", "a", "b">>, <<"b", "b">>},
     may |-> May([publish |-> 1, bind |-> 2])]

MCScenarios == {Churn, Circles, Shelter, Refusing, Topics}

=============================================================================
