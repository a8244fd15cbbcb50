------------------------------ MODULE MCTopic -------------------------------
(***************************************************************************)
(* A topic with two publishers, one of which publishes twice, and two      *)
(* subscriptions.                                                          *)
(***************************************************************************)
EXTENDS Topic, TLC

MCMaxSent == "chain" :> 2 @@ "peer" :> 1

=============================================================================
