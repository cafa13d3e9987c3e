--------------------------- MODULE MCSessionTurn ---------------------------
(***************************************************************************)
(* What the clients post and what the model replies in the runs of         *)
(* SessionTurn.                                                            *)
(***************************************************************************)
EXTENDS SessionTurn, TLC

CONSTANTS r1, r2, r3

MCThreads == {"main", "sub"}

Main(kind) == [kind |-> kind, thread |-> "main"]
Sub(kind) == [kind |-> kind, thread |-> "sub"]
Posts(a, b, c) == r1 :> a @@ r2 :> b @@ r3 :> c

\* Messages to two threads, a request cut short by a malformed event, a user who
\* decides about a tool twice, and one who allows a tool and then interrupts.
CalmScenarios ==
  {Posts(<<Main("message"), Sub("message")>>, <<Main("message")>>, << >>),
   Posts(<<Main("message"), Main("malformed")>>, <<Main("message")>>, << >>),
   Posts(<<Main("message")>>, <<Main("allow")>>, <<Main("allow")>>),
   Posts(<<Main("message")>>, <<Main("deny")>>, <<Main("allow")>>),
   Posts(<<Main("message")>>, <<Main("allow")>>, <<Main("interrupt"), Main("allow")>>)}
CalmReplies == {<< >>, <<"auto", "ask">>, <<"guarded">>, <<"custom">>}

\* Interrupts while a turn works, queues or waits for its user, and two troubles.
RoughScenarios ==
  {r1 :> <<Main("message")>> @@ r2 :> <<Main("interrupt")>>,
   r1 :> <<Main("message"), Main("interrupt")>> @@ r2 :> <<Main("message")>>,
   r1 :> <<Main("message")>> @@ r2 :> <<Main("allow")>>}
RoughReplies == {<< >>, <<"ask">>}
=============================================================================
