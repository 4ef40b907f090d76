----------------------------- MODULE Publisher -----------------------------
(***************************************************************************)
(* The publisher between the server's hooks and the outbox (agent/bridge). *)
(* Emit is called by command handlers, often under state.Mu, and must not  *)
(* wait; PublishCritical is called by goroutines and waits until its event *)
(* is in the outbox.  Both put events into one bounded queue under p.mu;   *)
(* one worker moves the queue to the outbox (see Outbox).                  *)
(***************************************************************************)
EXTENDS Naturals, Sequences, FiniteSets

CONSTANTS Emitters, Criticals,   \* the calling threads
          NoThread, QueueSize,
          EmitsEach              \* bound: events an emitter publishes

ASSUME PubAssumption == QueueSize \in Nat \ {0} /\ EmitsEach \in Nat /\ NoThread \notin Emitters \cup Criticals

VARIABLES pq,          \* Publisher.queue: the threads that published
          mu,          \* the thread that holds p.mu
          pc,          \* of the callers: idle, lock (wants p.mu), send (wants room
                       \* in the queue, holds p.mu), wait (for done), over
          emitted, dropped,
          pubClosed,   \* Publisher.closed
          worker,      \* run: loop, drain, done
          closer       \* Close: no, waits, over

pubVars == <<pq, mu, pc, emitted, dropped, pubClosed, worker, closer>>
Callers == Emitters \cup Criticals

PubInit ==
  /\ pq = <<>> /\ mu = NoThread /\ pc = [t \in Callers |-> "idle"]
  /\ emitted = [t \in Emitters |-> 0] /\ dropped = 0
  /\ pubClosed = FALSE /\ worker = "loop" /\ closer = "no"

\* Emit and PublishCritical ask for p.mu (mapServerEvent, which rejects
\* events the agent does not know, comes first).
PubCall(t) ==
  /\ pc[t] = "idle"
  /\ IF t \in Emitters THEN emitted[t] < EmitsEach /\ emitted' = [emitted EXCEPT ![t] = @ + 1]
     ELSE UNCHANGED emitted
  /\ pc' = [pc EXCEPT ![t] = "lock"]
  /\ UNCHANGED <<pq, mu, dropped, pubClosed, worker, closer>>

\* Emit, under p.mu from beginning to end: queue the event or drop it.
Emit(t) ==
  /\ t \in Emitters /\ pc[t] = "lock" /\ mu = NoThread
  /\ pc' = [pc EXCEPT ![t] = "idle"]
  /\ IF pubClosed THEN UNCHANGED <<pq, dropped>>
     ELSE IF Len(pq) < QueueSize THEN pq' = Append(pq, t) /\ UNCHANGED dropped
     ELSE dropped' = dropped + 1 /\ UNCHANGED pq
  /\ UNCHANGED <<mu, emitted, pubClosed, worker, closer>>

CriticalLock_Open(t) ==
  /\ t \in Criticals /\ pc[t] = "lock" /\ mu = NoThread
  /\ mu' = t /\ pc' = [pc EXCEPT ![t] = "send"]
  /\ UNCHANGED <<pq, emitted, dropped, pubClosed, worker, closer>>

\* PublishCritical takes p.mu; a closed publisher returns an error.
CriticalLock(t) ==
  /\ t \in Criticals /\ pc[t] = "lock" /\ mu = NoThread
  /\ IF pubClosed THEN pc' = [pc EXCEPT ![t] = "over"] /\ mu' = mu
     ELSE mu' = t /\ pc' = [pc EXCEPT ![t] = "send"]
  /\ UNCHANGED <<pq, emitted, dropped, pubClosed, worker, closer>>

\* The blocking send, still under p.mu, and the unlock.
CriticalSend(t) ==
  /\ t \in Criticals /\ pc[t] = "send" /\ Len(pq) < QueueSize
  /\ pq' = Append(pq, t) /\ mu' = NoThread
  /\ pc' = [pc EXCEPT ![t] = "wait"]
  /\ UNCHANGED <<emitted, dropped, pubClosed, worker, closer>>

\* The worker's append: the outbox takes or refuses the event, and a caller
\* that waits hears of it.
WorkerAppend ==
  /\ worker # "done" /\ pq # <<>>
  /\ pq' = Tail(pq)
  /\ pc' = IF Head(pq) \in Criticals THEN [pc EXCEPT ![Head(pq)] = "over"] ELSE pc
  /\ UNCHANGED <<mu, emitted, dropped, pubClosed, worker, closer>>

\* The worker sees stop: at any time after Close, for select has no order.
WorkerStop ==
  /\ worker = "loop" /\ pubClosed /\ worker' = "drain"
  /\ UNCHANGED <<pq, mu, pc, emitted, dropped, pubClosed, closer>>

\* The drain ends when the queue is empty.
WorkerDone ==
  /\ worker = "drain" /\ pq = <<>> /\ worker' = "done"
  /\ UNCHANGED <<pq, mu, pc, emitted, dropped, pubClosed, closer>>

\* Close: the flag under p.mu, then the wait for the worker.
PubClose ==
  /\ closer = "no" /\ mu = NoThread
  /\ pubClosed' = TRUE /\ closer' = "waits"
  /\ UNCHANGED <<pq, mu, pc, emitted, dropped, worker>>

PubCloseEnds ==
  /\ closer = "waits" /\ worker = "done" /\ closer' = "over"
  /\ UNCHANGED <<pq, mu, pc, emitted, dropped, pubClosed, worker>>

PubNext ==
  \/ \E t \in Callers : PubCall(t) \/ Emit(t) \/ CriticalLock(t) \/ CriticalSend(t)
  \/ WorkerAppend \/ WorkerStop \/ WorkerDone \/ PubClose \/ PubCloseEnds

\* The threads inside the publisher go on as long as they can; nobody has to
\* call it, or to close it.
PubFairness ==
  /\ \A t \in Callers : WF_pubVars(Emit(t) \/ CriticalLock(t) \/ CriticalSend(t))
  /\ WF_pubVars(WorkerAppend \/ WorkerStop \/ WorkerDone)

PubSpec == PubInit /\ [][PubNext]_pubVars /\ PubFairness

-----------------------------------------------------------------------------
\* Every PublishCritical returns, also when the queue is full, and when the
\* publisher is closed at the same time (PublishCritical, run, Close).
CriticalReturns == \A t \in Criticals : pc[t] # "idle" ~> pc[t] = "over"
=============================================================================
