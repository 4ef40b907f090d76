--------------------------- MODULE AgentServices ---------------------------
(***************************************************************************)
(* What surrounds the event feed: the publisher in front of the outbox,    *)
(* and behind the inbox the webhook processor and the replays, from the    *)
(* recorder to the share station.  Delivery lies between them; they share  *)
(* no state, so their behaviours are checked side by side: Init picks the  *)
(* one that runs and the others stand still.                               *)
(***************************************************************************)
EXTENDS Webhook, Publisher, Replay

VARIABLE running

agentVars == <<running, whVars, pubVars, rpVars>>

AgentInit ==
  /\ running \in {"webhook", "publisher", "replay"}
  /\ WhInit /\ (running # "webhook" => inbox = CHOOSE events0 \in WhInboxes : TRUE)
  /\ PubInit /\ ReplayInit

AgentNext ==
  /\ UNCHANGED running
  /\ \/ running = "webhook" /\ WhNext /\ UNCHANGED <<pubVars, rpVars>>
     \/ running = "publisher" /\ PubNext /\ UNCHANGED <<whVars, rpVars>>
     \/ running = "replay" /\ ReplayNext /\ UNCHANGED <<whVars, pubVars>>

\* In their initial states the publisher and the replays have nothing that
\* fairness would require, so that neither binds the others' behaviours.
AgentSpec == AgentInit /\ [][AgentNext]_agentVars /\ PubFairness /\ ReplayFairness

\* The inboxes of the run: a round with its scores and its end; scores whose
\* start was missed, and a room disbanded; a round without results.
E(k, n) == [kind |-> k, rank |-> n]
MCInboxes == {<<E("start", 0), E("score", 1), E("score", 2), E("end", 2)>>,
              <<E("score", 1), E("end", 2), E("disband", 0), E("replay", 0)>>,
              <<E("score", 0), E("end", 0)>>}
=============================================================================
