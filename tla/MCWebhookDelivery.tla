------------------------- MODULE MCWebhookDelivery -------------------------
(***************************************************************************)
(* WebhookDelivery for TLC: two events for one endpoint, or one event for  *)
(* two endpoints.                                                          *)
(***************************************************************************)
EXTENDS WebhookDelivery

Histories == {[gone |-> {"whk2"}, past |-> {}], [gone |-> {}, past |-> {"running"}]}

MCSpec == (\E h \in Histories : InitAfter(h.gone, h.past)) /\ [][Next]_vars /\ Fairness
=============================================================================
