---------------------------- MODULE QueryBroker ----------------------------
(***************************************************************************)
(* Queries of the HTTP API to the agent (agent/ipc queries and the agent's *)
(* pollQueries).  A handler submits a query and waits; the agent claims    *)
(* the oldest query that is unclaimed or was claimed more than ten seconds *)
(* ago, answers it, and asks again.  Any request of the agent may fail: it *)
(* ends the poller until the agent connects again.  Queries are numbered   *)
(* in the order of their arrival; the code draws random ids.               *)
(***************************************************************************)
EXTENDS Naturals, Sequences, FiniteSets, SequencesExt, Selection

CONSTANTS MaxQueries,   \* bound on the queries
          QMax          \* queryBroker.max

ASSUME QAssumption == MaxQueries \in Nat /\ QMax \in Nat \ {0}

Queries == 1 .. MaxQueries
NoQuery == 0

VARIABLES qpending,   \* queryBroker.pending: id -> claim: none, fresh, old
          qorder,     \* queryBroker.order
          qslot,      \* ids whose response channel is filled
          qcall,      \* the submit calls: idle, waits, answered, gone
          qagent,     \* the agent's poller: the query it works on or NoQuery
          qalive,     \* the poller runs
          qonline     \* Status().Online

qVars == <<qpending, qorder, qslot, qcall, qagent, qalive, qonline>>

QInit ==
  /\ qpending = <<>> /\ qorder = <<>> /\ qslot = {}
  /\ qcall = [q \in Queries |-> "idle"]
  /\ qagent = NoQuery /\ qalive = FALSE /\ qonline = FALSE

\* Query and submit.
Submit(q) ==
  /\ qcall[q] = "idle" /\ \A i \in 1 .. (q - 1) : qcall[i] # "idle"
  /\ IF qonline /\ Cardinality(DOMAIN qpending) < QMax
     THEN /\ qpending' = [i \in DOMAIN qpending \cup {q} |-> IF i = q THEN "none" ELSE qpending[i]]
          /\ qorder' = Append(qorder, q)
          /\ qcall' = [qcall EXCEPT ![q] = "waits"]
     ELSE qcall' = [qcall EXCEPT ![q] = "gone"] /\ UNCHANGED <<qpending, qorder>>
  /\ UNCHANGED <<qslot, qagent, qalive, qonline>>

QDelete(q) == qpending' = [i \in DOMAIN qpending \ {q} |-> qpending[i]]

QRemove_Oldest(q) ==
  /\ QDelete(q)
  /\ qorder' = IF Len(qorder) > QMax * 2 THEN SubSeq(qorder, 1, QMax * 2) ELSE qorder

\* remove: order is compacted only when it has grown.
QRemove(q) ==
  /\ QDelete(q)
  /\ qorder' = IF Len(qorder) > QMax * 2
               THEN Selected(qorder, {i \in DOMAIN qorder : qorder[i] \in DOMAIN qpending \ {q}})
               ELSE qorder

\* submit returns with the response ...
Receive(q) ==
  /\ qcall[q] = "waits" /\ q \in qslot
  /\ QRemove(q) /\ qcall' = [qcall EXCEPT ![q] = "answered"]
  /\ UNCHANGED <<qslot, qagent, qalive, qonline>>

\* ... or because its context is done.
GiveUp(q) ==
  /\ qcall[q] = "waits"
  /\ QRemove(q) /\ qcall' = [qcall EXCEPT ![q] = "gone"]
  /\ UNCHANGED <<qslot, qagent, qalive, qonline>>

Claimable(i) == i \in DOMAIN qpending /\ qpending[i] # "fresh"

\* handleNextQuery and claim, which takes the first it can; the answer may be
\* lost on its way.
Claim(arrives) ==
  /\ qalive /\ qonline /\ qagent = NoQuery
  /\ \E k \in DOMAIN qorder :
       /\ Claimable(qorder[k]) /\ \A j \in 1 .. (k - 1) : ~Claimable(qorder[j])
       /\ qpending' = [qpending EXCEPT ![qorder[k]] = "fresh"]
       /\ qagent' = IF arrives THEN qorder[k] ELSE NoQuery
  /\ qalive' = arrives
  /\ UNCHANGED <<qorder, qslot, qcall, qonline>>

\* handleQueryResult and complete: a late answer is accepted and ignored, a
\* second one finds the channel full.
QueryResult(arrives) ==
  /\ qagent # NoQuery
  /\ qslot' = IF arrives /\ qagent \in DOMAIN qpending THEN qslot \cup {qagent} ELSE qslot
  /\ qagent' = NoQuery /\ qalive' = arrives
  /\ UNCHANGED <<qpending, qorder, qcall, qonline>>

\* Ten seconds after the claim.
ClaimAges(q) ==
  /\ q \in DOMAIN qpending /\ qpending[q] = "fresh"
  /\ qpending' = [qpending EXCEPT ![q] = "old"]
  /\ UNCHANGED <<qorder, qslot, qcall, qagent, qalive, qonline>>

\* The agent connects; the consumer goes stale when nothing is heard of it.
AgentConnects ==
  /\ ~qalive /\ qalive' = TRUE /\ qonline' = TRUE
  /\ UNCHANGED <<qpending, qorder, qslot, qcall, qagent>>

AgentStale ==
  /\ qonline /\ ~qalive /\ qonline' = FALSE
  /\ UNCHANGED <<qpending, qorder, qslot, qcall, qagent, qalive>>

QNext ==
  \/ \E q \in Queries : Submit(q) \/ Receive(q) \/ GiveUp(q) \/ ClaimAges(q)
  \/ \E b \in BOOLEAN : Claim(b) \/ QueryResult(b)
  \/ AgentConnects \/ AgentStale

QSpec == QInit /\ [][QNext]_qVars

-----------------------------------------------------------------------------
\* A query somebody waits for can be found by claim, and the list that claim
\* walks does not grow without bound (submit, remove).
WaitingIsClaimable ==
  /\ \A q \in Queries : qcall[q] = "waits" => q \in ToSet(qorder)
  /\ Len(qorder) <= 3 * QMax
=============================================================================
