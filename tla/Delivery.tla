------------------------------ MODULE Delivery ------------------------------
(***************************************************************************)
(* The feed from the server's outbox to the agent's database: the IPC      *)
(* service (internal/agent/ipc/server.go) and the agent's connection loop  *)
(* (cmd/agent/main.go: run, poll) around Outbox and Inbox.                 *)
(*                                                                         *)
(* Requests and answers are lost, requests are carried out after the agent *)
(* gave them up, sessions expire, files fail, and both processes stop and  *)
(* start.  Each of these costs a unit of MaxFaults; a directory is lost    *)
(* between a stop and a start, at no further cost.                         *)
(***************************************************************************)
EXTENDS Outbox, Inbox

CONSTANTS BatchLimit,   \* events the agent asks for at a time (100)
          BodyMax,      \* events in an answer of 64 KiB, all the client reads
          MaxEvents,    \* bound: events created in a behaviour
          MaxFaults     \* bound: faults in a behaviour

ASSUME DeliveryAssumption ==
  /\ BatchLimit \in Nat \ {0} /\ BodyMax \in Nat \ {0}
  /\ MaxEvents \in Nat /\ MaxFaults \in Nat

VARIABLES consumer,    \* Service: the agent's session is valid
          delivered,   \* Service.lastDelivered
          slow,        \* values that delayed handlers will assign to it
          late,        \* acknowledgements the agent no longer waits for
          st,          \* where run and poll are
          seen,        \* poll's acked
          batch,       \* events of the answer, not accepted yet
          target,      \* the number of its last event, 0 if it had none
          faults       \* faults so far

ipcVars == <<consumer, delivered, slow, late>>
agentVars == <<st, seen, batch, target>>
vars == <<outVars, inVars, ipcVars, agentVars, faults>>

\* "off": not connected; the other steps are those of poll's loop.
Steps == {"off", "poll", "accept", "process", "cursor", "ack"}

TypeOK ==
  /\ OutTypeOK /\ InTypeOK
  /\ consumer \in BOOLEAN /\ delivered \in Nat /\ slow \subseteq Nat
  /\ late \subseteq [seq : Nat, checked : BOOLEAN]
  /\ st \in Steps /\ seen \in Nat /\ batch \in Seq(Envelope)
  /\ target \in Nat /\ faults \in 0 .. MaxFaults

Init ==
  /\ OutInit /\ InInit
  /\ consumer = FALSE /\ delivered = 0 /\ slow = {} /\ late = {}
  /\ st = "off" /\ seen = 0 /\ batch = <<>> /\ target = 0
  /\ faults = 0

\* Something goes wrong.
Fault == faults < MaxFaults /\ faults' = faults + 1

\* poll returned; run waits and connects again.
BackOff ==
  /\ st' = "off" /\ seen' = 0 /\ batch' = <<>> /\ target' = 0

Goto(step) == st' = step /\ UNCHANGED <<seen, batch, target>>

-----------------------------------------------------------------------------
(* The server records events *)

Publish(priority) ==
  /\ born < MaxEvents
  /\ AppendEvent(priority)
  /\ UNCHANGED <<inVars, ipcVars, agentVars, faults>>

PublishFails(left) ==
  /\ born < MaxEvents
  /\ AppendFails(left) /\ Fault
  /\ UNCHANGED <<inVars, ipcVars, agentVars>>

-----------------------------------------------------------------------------
(* Connecting *)

\* The inbox ends before the server's acknowledgement and is not empty.
Behind == last < acked /\ ~InboxEmpty

\* An empty inbox takes the acknowledgement over.
Resume == IF last >= acked THEN UNCHANGED inVars ELSE SetBaseline(acked)

Handshake ==
  /\ running /\ st = "off" /\ serving /\ ~Behind
  /\ consumer' = TRUE /\ delivered' = acked
  /\ Resume
  /\ st' = "poll" /\ seen' = acked
  /\ UNCHANGED <<outVars, slow, late, batch, target, faults>>

\* run returns the error of SetBaseline, and the agent ends.
RunFails ==
  /\ running /\ st = "off" /\ serving /\ Behind
  /\ consumer' = TRUE /\ delivered' = acked
  /\ StopInbox
  /\ UNCHANGED <<outVars, slow, late, agentVars, faults>>

\* The answer does not arrive.
HandshakeLost ==
  /\ running /\ st = "off" /\ serving /\ Fault
  /\ consumer' = TRUE /\ delivered' = acked
  /\ UNCHANGED <<outVars, inVars, slow, late, agentVars>>

\* Nothing was heard of the agent for consumerTTL.
SessionExpires ==
  /\ consumer /\ Fault
  /\ consumer' = FALSE
  /\ UNCHANGED <<outVars, inVars, delivered, slow, late, agentVars>>

-----------------------------------------------------------------------------
(* poll: fetch *)

Accepted == serving /\ consumer

LastOf(es) == IF es = <<>> THEN acked ELSE es[Len(es)].seq

\* handleEvents answers a request from seen on.
CanFetch == Accepted /\ seen = acked

\* The client's reader reaches the end of the answer.
Decodes == Len(BatchOf(BatchLimit)) <= BodyMax

Fetch ==
  /\ running /\ st = "poll" /\ CanFetch /\ Decodes
  /\ batch' = BatchOf(BatchLimit)
  /\ delivered' = LastOf(batch')
  /\ target' = IF batch' = <<>> THEN 0 ELSE delivered'
  /\ st' = "accept"
  /\ UNCHANGED <<outVars, inVars, consumer, slow, late, seen, faults>>

\* The server refuses, or it answers and the client cannot decode it all.
FetchError ==
  /\ running /\ st = "poll" /\ ~(CanFetch /\ Decodes)
  /\ delivered' = IF CanFetch THEN LastOf(BatchOf(BatchLimit)) ELSE delivered
  /\ BackOff
  /\ UNCHANGED <<outVars, inVars, consumer, slow, late, faults>>

\* The agent stops waiting; the handler has read the outbox and goes on.
FetchTimesOut ==
  /\ running /\ st = "poll" /\ CanFetch /\ Fault
  /\ slow' = slow \cup {LastOf(BatchOf(BatchLimit))}
  /\ BackOff
  /\ UNCHANGED <<outVars, inVars, consumer, delivered, late>>

LateFetch(n) ==
  /\ n \in slow
  /\ slow' = slow \ {n} /\ delivered' = n
  /\ UNCHANGED <<outVars, inVars, consumer, late, agentVars, faults>>

-----------------------------------------------------------------------------
(* poll: accept the batch, then run the processor until nothing is left *)

CanTake(e) == ~infailed /\ (Repeated(e) \/ Fits(e))

Accept ==
  /\ running /\ st = "accept" /\ batch # <<>> /\ CanTake(Head(batch))
  /\ IF Repeated(Head(batch)) THEN UNCHANGED inVars ELSE AcceptNew(Head(batch))
  /\ batch' = Tail(batch)
  /\ UNCHANGED <<outVars, ipcVars, st, seen, target, faults>>

AcceptRefused ==
  /\ running /\ st = "accept" /\ batch # <<>> /\ ~CanTake(Head(batch))
  /\ BackOff
  /\ UNCHANGED <<outVars, inVars, ipcVars, faults>>

AcceptError(left) ==
  /\ running /\ st = "accept" /\ batch # <<>> /\ ~infailed
  /\ AcceptFails(Head(batch), left) /\ Fault /\ BackOff
  /\ UNCHANGED <<outVars, ipcVars>>

AcceptEnds ==
  /\ running /\ st = "accept" /\ batch = <<>>
  /\ Goto("process")
  /\ UNCHANGED <<outVars, inVars, ipcVars, faults>>

ProcessEvent ==
  /\ running /\ st = "process" /\ Readable /\ Unprocessed # {}
  /\ ApplyNext
  /\ Goto("cursor")
  /\ UNCHANGED <<outVars, ipcVars, faults>>

\* The inbox cannot be read, or the transaction fails.
ProcessError ==
  /\ running /\ st = "process"
  /\ \/ ~Readable /\ UNCHANGED faults
     \/ Readable /\ Unprocessed # {} /\ Fault
  /\ BackOff
  /\ UNCHANGED <<outVars, inVars, ipcVars>>

SaveCursor ==
  /\ running /\ st = "cursor"
  /\ WriteCursor
  /\ Goto("process")
  /\ UNCHANGED <<outVars, ipcVars, faults>>

SaveCursorFails ==
  /\ running /\ st = "cursor" /\ Fault
  /\ (WriteCursorFails \/ UNCHANGED inVars)
  /\ BackOff
  /\ UNCHANGED <<outVars, ipcVars>>

\* Mutant: the batch is acknowledged as soon as the inbox has it.
ProcessEnds_AckFirst ==
  /\ running /\ st = "process"
  /\ Goto(IF target = 0 THEN "poll" ELSE "ack")
  /\ UNCHANGED <<outVars, inVars, ipcVars, faults>>

\* Nothing is left to process: a batch is acknowledged if the processor's
\* cursor reached its end.
ProcessEnds ==
  /\ running /\ st = "process" /\ Readable /\ Unprocessed = {}
  /\ IF target > cursor THEN BackOff
     ELSE Goto(IF target = 0 THEN "poll" ELSE "ack")
  /\ UNCHANGED <<outVars, inVars, ipcVars, faults>>

-----------------------------------------------------------------------------
(* poll: acknowledge *)

\* The server carries out an acknowledgement; one that is not new does nothing.
Carry(n, how) == IF n <= acked THEN how = "done" /\ UNCHANGED outVars ELSE Ack(n, how)

CanConfirm == Accepted /\ target <= delivered

Confirm ==
  /\ running /\ st = "ack" /\ CanConfirm
  /\ Carry(target, "done")
  /\ st' = "poll" /\ seen' = target /\ target' = 0
  /\ UNCHANGED <<inVars, ipcVars, batch, faults>>

\* The server fails in the middle, or the agent does not get the answer.
ConfirmFails(how) ==
  /\ running /\ st = "ack" /\ CanConfirm /\ Fault
  /\ Carry(target, how)
  /\ BackOff
  /\ UNCHANGED <<inVars, ipcVars>>

ConfirmRefused ==
  /\ running /\ st = "ack" /\ ~CanConfirm
  /\ BackOff
  /\ UNCHANGED <<outVars, inVars, ipcVars, faults>>

\* The agent stops waiting; the request is still to be handled.
ConfirmTimesOut ==
  /\ running /\ st = "ack" /\ serving /\ Fault
  /\ late' = late \cup {[seq |-> target, checked |-> FALSE]}
  /\ BackOff
  /\ UNCHANGED <<outVars, inVars, consumer, delivered, slow>>

\* handleAck compares with lastDelivered and lets the lock go ...
LateCheck(r) ==
  /\ r \in late /\ ~r.checked
  /\ late' = (late \ {r}) \cup
             {c \in {[r EXCEPT !.checked = TRUE]} : consumer /\ r.seq <= delivered}
  /\ UNCHANGED <<outVars, inVars, consumer, delivered, slow, agentVars, faults>>

\* ... and acknowledges, whatever happened in between.
LateAck(r) ==
  /\ r \in late /\ r.checked
  /\ late' = late \ {r}
  /\ IF r.seq <= acked \/ CanAck(r.seq) THEN Carry(r.seq, "done")
     ELSE UNCHANGED outVars
  /\ UNCHANGED <<inVars, consumer, delivered, slow, agentVars, faults>>

-----------------------------------------------------------------------------
(* Processes stop and start *)

StopServer ==
  /\ StopOutbox /\ Fault
  /\ consumer' = FALSE /\ delivered' = 0 /\ slow' = {} /\ late' = {}
  /\ UNCHANGED <<inVars, agentVars>>

StartServer ==
  /\ OpenOutbox
  /\ UNCHANGED <<inVars, ipcVars, agentVars, faults>>

StopAgent ==
  /\ StopInbox /\ Fault /\ BackOff
  /\ UNCHANGED <<outVars, ipcVars>>

StartAgent ==
  /\ OpenInbox
  /\ UNCHANGED <<outVars, ipcVars, agentVars, faults>>

\* The directory of an agent that stopped is lost, the database is not.  That
\* takes longer than the server takes to handle a request that is under way.
LoseDirectory ==
  /\ late = {} /\ slow = {}
  /\ LoseInbox
  /\ UNCHANGED <<outVars, ipcVars, agentVars, faults>>

-----------------------------------------------------------------------------
Left == {"none", "part", "whole"}

ServerNext ==
  \/ \E p \in {"normal", "critical"} : Publish(p)
  \/ \E l \in Left : PublishFails(l)
  \/ SessionExpires
  \/ \E n \in slow : LateFetch(n)
  \/ \E r \in late : LateCheck(r) \/ LateAck(r)
  \/ StopServer \/ StartServer

AgentNext ==
  \/ Handshake \/ HandshakeLost \/ RunFails
  \/ Fetch \/ FetchError \/ FetchTimesOut
  \/ Accept \/ AcceptRefused \/ AcceptEnds \/ \E l \in Left : AcceptError(l)
  \/ ProcessEvent \/ ProcessError \/ SaveCursor \/ SaveCursorFails
  \/ ProcessEnds
  \/ Confirm \/ ConfirmRefused \/ ConfirmTimesOut
  \/ \E how \in AckSteps : ConfirmFails(how)
  \/ StopAgent \/ StartAgent \/ LoseDirectory

Next == ServerNext \/ AgentNext

\* The loops of run and poll go on, and a process that stopped is started
\* again by its supervisor (docs/agent.md: Restart=on-failure).
Fairness ==
  /\ WF_vars(StartServer) /\ WF_vars(StartAgent)
  /\ WF_vars(Handshake \/ RunFails)
  /\ WF_vars(Fetch \/ FetchError)
  /\ WF_vars(Accept \/ AcceptRefused \/ AcceptEnds)
  /\ WF_vars(ProcessEvent \/ (ProcessError /\ faults' = faults) \/ SaveCursor \/ ProcessEnds)
  /\ WF_vars(Confirm \/ ConfirmRefused)

Spec == Init /\ [][Next]_vars

FairSpec == Spec /\ Fairness

-----------------------------------------------------------------------------
(* Properties *)

\* The database holds whatever the checkpoint releases: poll acknowledges
\* after the processors' cursors reached the batch, so an event that Ack
\* removes from the log was applied, under every order of late requests,
\* failures and restarts (TestPollDurablyStagesBeforeAck).
AckedIsApplied ==
  \A n \in 1 .. ckpt : \E i \in DOMAIN applied : applied[i] = sent[n]

\* A number belongs to one event: what the inbox holds under a number is what
\* the server recorded under it (inbox Accept: the identity must not change).
SameEvents ==
  \A i \in DOMAIN inlog :
    inlog[i].seq <= Len(sent) /\ inlog[i].id = sent[inlog[i].seq]

\* The agent's files let it start and go on: its cursor is one of its inbox,
\* whatever a restart makes of the inbox file (OpenProcessor), and as long as
\* the cursor file covers the server's checkpoint (it does until the directory
\* is lost) the inbox reaches what a handshake answers (run, SetBaseline).
AgentCanResume ==
  /\ FirstCursor \in base .. base + Len(InRecovered)
  /\ running /\ serving /\ ckpt <= cur => last >= acked

\* Events are applied in the order of their numbers, each once, although they
\* are delivered and processed again after failures.
Feed == INSTANCE EventFeed WITH Event <- 1 .. MaxEvents
AppliedInOrder == Feed!Spec

\* The agent cannot go on by itself: a write to the inbox failed, the baseline
\* was set after the processor read its cursor, or its inbox is behind.
NeedsRestart == running /\ (infailed \/ cursor < base \/ (serving /\ Behind))

\* An event that was recorded is applied in the end, or the agent waits for
\* somebody to start it again or, if its directory was lost, to empty it.
EventsAreApplied ==
  \A n \in 1 .. MaxEvents :
    (n <= Len(sent)) ~> (n <= Len(applied) \/ NeedsRestart)
=============================================================================
