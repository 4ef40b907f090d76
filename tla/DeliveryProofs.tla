--------------------------- MODULE DeliveryProofs ---------------------------
(***************************************************************************)
(* The safety of the event feed, for any number of events and faults and   *)
(* every size of the files and batches.  The inductive invariant follows a *)
(* number through the system: what is applied is a first part of what was  *)
(* recorded; checkpoint, cursors, baseline and acknowledgements that are   *)
(* under way do not pass it; inbox and batch hold recorded events under    *)
(* their numbers; and an agent whose inbox failed reads nothing any more.  *)
(***************************************************************************)
EXTENDS Delivery, OutboxProofs

\* The database holds the first events, in order.
Database ==
  /\ Len(applied) <= Len(sent)
  /\ \A i \in 1 .. Len(applied) : applied[i] = sent[i]

\* Whatever claims that events were processed, claims it of applied ones.
Processed ==
  /\ ckpt <= Len(applied) /\ base <= Len(applied)
  /\ cur <= Len(applied) /\ cursor <= Len(applied)
  /\ \A r \in late : r.seq <= Len(applied)

\* Recorded events, under their numbers.
Genuine(es) ==
  \A i \in 1 .. Len(es) : es[i].seq \in 1 .. Len(sent) /\ es[i].id = sent[es[i].seq]

\* The inbox file goes on from the baseline; or the baseline was set although
\* the file holds the record of a write that failed.
Follows == \A i \in 1 .. Len(inlog) : inlog[i].seq = base + i

Skipped ==
  /\ Len(inlog) <= 1 /\ cur = 0
  /\ \A i \in 1 .. Len(inlog) : inlog[i].seq <= base

InboxFile ==
  /\ Follows \/ Skipped
  /\ cur # 0 => Follows /\ cur \in base + 1 .. base + Len(inlog)

InboxMemory ==
  running =>
    /\ cursor <= last /\ cur <= last
    /\ ~infailed => Follows /\ ~intorn /\ last = base + Len(inlog)
    /\ infailed => \/ /\ Follows /\ last >= base
                      /\ base + Len(inlog) \in {last, last + 1}
                   \/ Skipped /\ last = base /\ cursor < base

\* Where run and poll are.  After a failed write the inbox is read no more:
\* there is something to accept, and that is refused.
AgentSteps ==
  /\ ~running => st = "off" /\ ~infailed
  /\ st = "cursor" => ~infailed /\ cursor \in base .. last - 1 /\ cursor < Len(applied)
  /\ st = "ack" => target <= cursor
  /\ infailed /\ cursor >= base =>
       /\ last < Len(sent) /\ st \in {"off", "poll", "accept"}
       /\ st = "poll" => seen <= last
       /\ st = "accept" => batch # <<>>

AInv ==
  /\ Database /\ Processed /\ Genuine(inlog) /\ Genuine(batch)
  /\ InboxFile /\ InboxMemory /\ AgentSteps

DInv == OutInv /\ TypeOK /\ born <= MaxEvents /\ AInv

\* The recorded events stay, others may follow.
Grows == Len(sent') >= Len(sent) /\ \A n \in 1 .. Len(sent) : sent'[n] = sent[n]
-----------------------------------------------------------------------------
(* Facts that the steps use *)

\* The types, as the steps below use them.
LEMMA DTypes ==
  ASSUME DInv
  PROVE  /\ Len(sent) \in Nat /\ ckpt \in Nat /\ acked \in Nat /\ born \in Nat
         /\ inlog \in Seq(Envelope) /\ Len(inlog) \in Nat /\ base \in Nat /\ cur \in Nat
         /\ applied \in Seq(Nat) /\ Len(applied) \in Nat /\ last \in Nat /\ cursor \in Nat
         /\ seen \in Nat /\ target \in Nat /\ batch \in Seq(Envelope) /\ Len(batch) \in Nat
<1>1. /\ sent \in Seq(Nat) /\ ckpt \in Nat /\ acked \in Nat /\ born \in Nat
  BY DEF DInv, AInv, TypeOK, OutTypeOK
<1>2. /\ inlog \in Seq(Envelope) /\ base \in Nat /\ cur \in Nat
      /\ applied \in Seq(Nat) /\ last \in Nat /\ cursor \in Nat
  BY DEF DInv, AInv, TypeOK, InTypeOK, Envelope
<1>3. seen \in Nat /\ target \in Nat /\ batch \in Seq(Envelope)
  BY DEF DInv, AInv, TypeOK
<1> QED
  BY <1>1, <1>2, <1>3

\* Genuine events stay genuine when others are recorded.
LEMMA GenuineStays ==
  ASSUME DInv, Grows, NEW es, Genuine(es), Len(sent') \in Nat
  PROVE  \A i \in 1 .. Len(es) : es[i].seq \in 1 .. Len(sent') /\ es[i].id = sent'[es[i].seq]
<1>t. /\ Len(sent) \in Nat /\ ckpt \in Nat /\ acked \in Nat /\ born \in Nat
      /\ inlog \in Seq(Envelope) /\ Len(inlog) \in Nat /\ base \in Nat /\ cur \in Nat
      /\ applied \in Seq(Nat) /\ Len(applied) \in Nat /\ last \in Nat /\ cursor \in Nat
      /\ seen \in Nat /\ target \in Nat /\ batch \in Seq(Envelope) /\ Len(batch) \in Nat
  BY DTypes
<1> SUFFICES ASSUME NEW i \in 1 .. Len(es)
             PROVE  es[i].seq \in 1 .. Len(sent') /\ es[i].id = sent'[es[i].seq]
  OBVIOUS
<1>1. es[i].seq \in 1 .. Len(sent) /\ es[i].id = sent[es[i].seq]
  BY DEF Genuine
<1>2. 1 .. Len(sent) \subseteq 1 .. Len(sent')
  BY <1>t DEF Grows
<1> QED
  BY <1>1, <1>2 DEF Grows

\* A step that leaves the agent's files and memory alone.
LEMMA Frame ==
  ASSUME DInv, OutInv', Grows, UNCHANGED inVars, ckpt' <= Len(applied),
         \A r \in late' : r.seq <= Len(applied), Genuine(batch)', AgentSteps'
  PROVE  AInv'
<1>t. /\ Len(sent) \in Nat /\ ckpt \in Nat /\ acked \in Nat /\ born \in Nat
      /\ inlog \in Seq(Envelope) /\ Len(inlog) \in Nat /\ base \in Nat /\ cur \in Nat
      /\ applied \in Seq(Nat) /\ Len(applied) \in Nat /\ last \in Nat /\ cursor \in Nat
      /\ seen \in Nat /\ target \in Nat /\ batch \in Seq(Envelope) /\ Len(batch) \in Nat
  BY DTypes
<1>0. Len(sent') \in Nat
  BY DEF OutInv, OutTypeOK
<1>1. Database'
  <2>1. applied' = applied
    BY DEF inVars
  <2>2. Len(applied) <= Len(sent) /\ \A i \in 1 .. Len(applied) : applied[i] = sent[i]
    BY DEF DInv, AInv, Database
  <2>3. \A i \in 1 .. Len(applied) : i \in 1 .. Len(sent)
    BY <1>t, <2>2
  <2> QED
    BY <1>t, <1>0, <2>1, <2>2, <2>3 DEF Database, Grows
<1>2. Processed'
  BY DEF DInv, AInv, Processed, inVars
<1>3. Genuine(inlog)'
  <2>1. inlog' = inlog
    BY DEF inVars
  <2>2. Genuine(inlog)
    BY DEF DInv, AInv
  <2> QED
    BY <1>0, <2>1, <2>2, GenuineStays DEF Genuine
<1>4. InboxFile' /\ InboxMemory'
  BY DEF DInv, AInv, InboxFile, InboxMemory, Follows, Skipped, inVars
<1> QED
  BY <1>1, <1>2, <1>3, <1>4 DEF AInv

\* ... and poll where it is, or sends run to connect again.
LEMMA FrameOrBackOff ==
  ASSUME DInv, OutInv', Grows, UNCHANGED inVars, ckpt' <= Len(applied),
         \A r \in late' : r.seq <= Len(applied), UNCHANGED agentVars \/ BackOff
  PROVE  AInv'
<1>t. /\ Len(sent) \in Nat /\ ckpt \in Nat /\ acked \in Nat /\ born \in Nat
      /\ inlog \in Seq(Envelope) /\ Len(inlog) \in Nat /\ base \in Nat /\ cur \in Nat
      /\ applied \in Seq(Nat) /\ Len(applied) \in Nat /\ last \in Nat /\ cursor \in Nat
      /\ seen \in Nat /\ target \in Nat /\ batch \in Seq(Envelope) /\ Len(batch) \in Nat
  BY DTypes
<1>0. Len(sent') \in Nat
  BY DEF OutInv, OutTypeOK
<1>1. Genuine(batch)'
  <2>1. CASE batch' = batch
    BY <1>0, <2>1, GenuineStays DEF DInv, AInv, Genuine
  <2>2. CASE batch' = <<>>
    BY <2>2 DEF Genuine
  <2> QED
    BY <2>1, <2>2 DEF agentVars, BackOff
<1>2. AgentSteps'
  <2>1. /\ UNCHANGED <<running, infailed, cursor, base, last, applied>>
        /\ Len(sent) <= Len(sent')
    BY DEF inVars, Grows
  <2>2. AgentSteps
    BY DEF DInv, AInv
  <2>3. infailed' /\ cursor' >= base' => last' < Len(sent')
    BY <1>t, <1>0, <2>1, <2>2 DEF AgentSteps
  <2>4. CASE UNCHANGED agentVars
    BY <2>1, <2>2, <2>3, <2>4 DEF AgentSteps, agentVars
  <2>5. CASE BackOff
    BY <2>1, <2>2, <2>3, <2>5 DEF AgentSteps, BackOff
  <2> QED
    BY <2>4, <2>5
<1> QED
  BY <1>1, <1>2, Frame

\* The record that ReadAfter returns first, while the inbox works.
LEMMA NextRecord ==
  ASSUME DInv, running, ~infailed, cursor \in base .. last - 1
  PROVE  /\ Unprocessed # {} /\ Min(Unprocessed) = cursor + 1
         /\ IdAt(cursor + 1) = sent[cursor + 1] /\ cursor + 1 \in 1 .. Len(sent)
<1>t. /\ Len(sent) \in Nat /\ ckpt \in Nat /\ acked \in Nat /\ born \in Nat
      /\ inlog \in Seq(Envelope) /\ Len(inlog) \in Nat /\ base \in Nat /\ cur \in Nat
      /\ applied \in Seq(Nat) /\ Len(applied) \in Nat /\ last \in Nat /\ cursor \in Nat
      /\ seen \in Nat /\ target \in Nat /\ batch \in Seq(Envelope) /\ Len(batch) \in Nat
  BY DTypes
<1>1. last = base + Len(inlog) /\ \A i \in 1 .. Len(inlog) : inlog[i].seq = base + i
  BY DEF DInv, AInv, InboxMemory, Follows
<1> DEFINE k == cursor + 1 - base
<1>2. k \in 1 .. Len(inlog) /\ base + k = cursor + 1
  BY <1>t, <1>1
<1>3. inlog[k].seq = cursor + 1 /\ k \in DOMAIN inlog
  BY <1>t, <1>1, <1>2
<1> HIDE DEF k
<1>4. cursor + 1 \in Unprocessed
  BY <1>t, <1>3 DEF Unprocessed
<1>5. \A x \in Unprocessed : x \in Nat /\ x > cursor
  <2> SUFFICES ASSUME NEW x \in Unprocessed PROVE x \in Nat /\ x > cursor
    OBVIOUS
  <2>1. PICK i \in DOMAIN inlog : x = inlog[i].seq
    BY DEF Unprocessed
  <2>2. i \in 1 .. Len(inlog)
    BY <1>t, <2>1
  <2>3. x = base + i
    BY <1>1, <2>1, <2>2
  <2>4. x \notin 0 .. cursor
    BY DEF Unprocessed
  <2> QED
    BY <1>t, <2>2, <2>3, <2>4
<1>6. Min(Unprocessed) = cursor + 1
  <2>1. Unprocessed \subseteq Int /\ \A x \in Unprocessed : cursor + 1 <= x
    BY <1>t, <1>5
  <2> QED
    BY <1>4, <2>1, MinIs
<1>7. inlog[k].id = sent[cursor + 1] /\ cursor + 1 \in 1 .. Len(sent)
  BY <1>2, <1>3 DEF DInv, AInv, Genuine
<1>8. \A i \in DOMAIN inlog : inlog[i].seq = cursor + 1 => i = k
  <2> SUFFICES ASSUME NEW i \in DOMAIN inlog, inlog[i].seq = cursor + 1 PROVE i = k
    OBVIOUS
  <2>1. i \in 1 .. Len(inlog)
    BY <1>t
  <2>2. base + i = cursor + 1
    BY <1>1, <2>1
  <2> QED
    BY <1>t, <1>2, <2>1, <2>2
<1>9. IdAt(cursor + 1) = inlog[k].id
  BY <1>3, <1>8, Zenon DEF IdAt
<1> QED
  BY <1>4, <1>6, <1>7, <1>9
-----------------------------------------------------------------------------
(* The server's side of every step *)

\* A step that leaves the outbox alone.
LEMMA OutSame ==
  ASSUME OutInv, UNCHANGED outVars
  PROVE  OutInv' /\ sent' = sent /\ ckpt' = ckpt /\ born' = born
<1>1. /\ log' = log /\ torn' = torn /\ ckpt' = ckpt /\ serving' = serving
      /\ events' = events /\ acked' = acked /\ latest' = latest /\ bytes' = bytes
      /\ failed' = failed /\ sent' = sent /\ born' = born
  BY DEF outVars
<1>2. OutTypeOK'
  BY <1>1, Zenon DEF OutInv, OutTypeOK
<1>3. Identities' /\ Memory'
  BY <1>1 DEF OutInv, Identities, Memory
<1>4. File'
  BY <1>1 DEF OutInv, File, FileFrom, Unconfirmed
<1> QED
  BY <1>1, <1>2, <1>3, <1>4 DEF OutInv

\* An acknowledgement of applied events.
LEMMA CarryKeeps ==
  ASSUME DInv, NEW n \in Nat, n <= Len(applied), NEW how \in AckSteps, Carry(n, how)
  PROVE  OutInv' /\ sent' = sent /\ ckpt' <= Len(applied) /\ born' = born
<1>1. CASE n <= acked
  BY <1>1, OutSame DEF Carry, DInv, AInv, Processed
<1>2. CASE ~(n <= acked)
  <2>1. Ack(n, how)
    BY <1>2 DEF Carry
  <2>2. OutInv' /\ ckpt' \in {ckpt, n}
    BY <2>1, AckKeeps DEF DInv
  <2> QED
    BY <2>1, <2>2 DEF Ack, DInv, AInv, Processed
<1> QED
  BY <1>1, <1>2

\* How the recorded events change.
Recording == \/ sent' = sent
             \/ \E e \in 1 .. MaxEvents : /\ sent' = Append(sent, e)
                                          /\ \A n \in 1 .. Len(sent) : sent[n] # e

\* A step records nothing or one event behind the others.
LEMMA RecordingGrows ==
  ASSUME DInv, Recording
  PROVE  Grows
<1>1. sent \in Seq(Nat) /\ Len(sent) \in Nat
  BY DEF DInv, TypeOK, OutTypeOK
<1>2. CASE sent' = sent
  BY <1>1, <1>2 DEF Grows
<1>3. ASSUME NEW e \in 1 .. MaxEvents, sent' = Append(sent, e) PROVE Grows
  <2>1. e \in Nat
    BY DeliveryAssumption
  <2>2. Len(sent') = Len(sent) + 1 /\ \A n \in 1 .. Len(sent) : sent'[n] = sent[n]
    BY <1>1, <1>3, <2>1, Appended
  <2> QED
    BY <1>1, <2>2 DEF Grows
<1> QED
  BY <1>2, <1>3 DEF Recording

\* The steps that may touch the outbox.
Busy == \/ \E p \in {"normal", "critical"} : Publish(p)
        \/ \E l \in Left : PublishFails(l)
        \/ StopServer \/ StartServer
        \/ Confirm \/ \E how \in AckSteps : ConfirmFails(how)
        \/ \E r \in late : LateAck(r)

\* The other steps leave the outbox alone.
LEMMA QuietSteps == Next => Busy \/ UNCHANGED outVars
<1>1. ServerNext => Busy \/ UNCHANGED outVars
  BY Zenon DEF ServerNext, Busy, SessionExpires, LateFetch, LateCheck
<1>2. AgentNext => Busy \/ UNCHANGED outVars
  BY Zenon DEF AgentNext, Busy, Handshake, HandshakeLost, RunFails, Fetch, FetchError,
     FetchTimesOut, Accept, AcceptRefused, AcceptEnds, AcceptError, ProcessEvent, ProcessError,
     SaveCursor, SaveCursorFails, ProcessEnds, ConfirmRefused, ConfirmTimesOut,
     StopAgent, StartAgent, LoseDirectory
<1> QED
  BY <1>1, <1>2 DEF Next

\* What every step does to the server's side.
LEMMA ServerSide ==
  ASSUME DInv, Next
  PROVE  OutInv' /\ Recording /\ ckpt' <= Len(applied) /\ born' <= MaxEvents
<1>0. OutInv /\ ckpt <= Len(applied) /\ born <= MaxEvents /\ born \in Nat /\ MaxEvents \in Nat
  BY DTypes, DeliveryAssumption DEF DInv, AInv, Processed
<1>i. \A n \in 1 .. Len(sent) : sent[n] \in 1 .. born
  BY DEF DInv, OutInv, Identities
<1>1. ASSUME NEW p, Publish(p)
      PROVE  OutInv' /\ Recording /\ ckpt' <= Len(applied) /\ born' <= MaxEvents
  <2>1. AppendEvent(p) /\ born < MaxEvents
    BY <1>1 DEF Publish
  <2>2. sent' = Append(sent, born + 1) /\ ckpt' = ckpt /\ born' = born + 1
    BY <2>1 DEF AppendEvent
  <2>3. born + 1 \in 1 .. MaxEvents /\ \A n \in 1 .. Len(sent) : sent[n] # born + 1
    BY <1>0, <1>i, <2>1
  <2> QED
    BY <1>0, <2>1, <2>2, <2>3, AppendKeeps DEF Recording
<1>2. ASSUME NEW l, PublishFails(l)
      PROVE  OutInv' /\ Recording /\ ckpt' <= Len(applied) /\ born' <= MaxEvents
  <2>1. AppendFails(l) /\ born < MaxEvents
    BY <1>2 DEF PublishFails
  <2>2. sent' = sent /\ ckpt' = ckpt /\ born' = born + 1
    BY <2>1 DEF AppendFails
  <2> QED
    BY <1>0, <2>1, <2>2, AppendFailsKeeps DEF Recording
<1>3. ASSUME StopServer
      PROVE  OutInv' /\ Recording /\ ckpt' <= Len(applied) /\ born' <= MaxEvents
  <2>1. StopOutbox
    BY <1>3 DEF StopServer
  <2> QED
    BY <1>0, <2>1, StopKeeps DEF Recording, StopOutbox
<1>4. ASSUME StartServer
      PROVE  OutInv' /\ Recording /\ ckpt' <= Len(applied) /\ born' <= MaxEvents
  <2>1. OpenOutbox
    BY <1>4 DEF StartServer
  <2>2. 1 .. born \subseteq 1 .. MaxEvents
    BY <1>0
  <2> QED
    BY <1>0, <2>1, <2>2, OpenKeeps DEF Recording
<1>5. ASSUME Confirm \/ \E how \in AckSteps : ConfirmFails(how)
      PROVE  OutInv' /\ Recording /\ ckpt' <= Len(applied) /\ born' <= MaxEvents
  <2>1. PICK how \in AckSteps : Carry(target, how)
    BY <1>5 DEF Confirm, ConfirmFails, AckSteps
  <2>2. target \in Nat /\ target <= Len(applied)
    <3>1. st = "ack"
      BY <1>5 DEF Confirm, ConfirmFails
    <3>2. target <= cursor /\ cursor <= Len(applied)
      BY <3>1 DEF DInv, AInv, AgentSteps, Processed
    <3>3. target \in Nat /\ cursor \in Nat /\ Len(applied) \in Nat
      BY DTypes
    <3> QED
      BY <3>2, <3>3
  <2> QED
    BY <1>0, <2>1, <2>2, CarryKeeps DEF Recording
<1>6. ASSUME NEW r \in late, LateAck(r)
      PROVE  OutInv' /\ Recording /\ ckpt' <= Len(applied) /\ born' <= MaxEvents
  <2>1. r.seq \in Nat /\ r.seq <= Len(applied)
    BY DEF DInv, AInv, TypeOK, Processed
  <2>2. Carry(r.seq, "done") \/ UNCHANGED outVars
    BY <1>6 DEF LateAck
  <2>3. "done" \in AckSteps
    BY DEF AckSteps
  <2> QED
    BY <1>0, <2>1, <2>2, <2>3, CarryKeeps, OutSame DEF Recording
<1>7. ASSUME UNCHANGED outVars
      PROVE  OutInv' /\ Recording /\ ckpt' <= Len(applied) /\ born' <= MaxEvents
  BY <1>0, <1>7, OutSame DEF Recording
<1> QED
  BY <1>1, <1>2, <1>3, <1>4, <1>5, <1>6, <1>7, QuietSteps DEF Busy

\* An acknowledgement that the agent gives up is one of applied events.
LEMMA LateStep ==
  ASSUME DInv, Next
  PROVE  late' \subseteq [seq : Nat, checked : BOOLEAN] /\ \A r \in late' : r.seq <= Len(applied)
<1>0. late \subseteq [seq : Nat, checked : BOOLEAN] /\ \A r \in late : r.seq <= Len(applied)
  BY DEF DInv, AInv, TypeOK, Processed
<1>1. ASSUME late' \subseteq late
      PROVE  late' \subseteq [seq : Nat, checked : BOOLEAN] /\ \A r \in late' : r.seq <= Len(applied)
  BY <1>0, <1>1
<1>2. ASSUME NEW r \in late, LateCheck(r)
      PROVE  late' \subseteq [seq : Nat, checked : BOOLEAN] /\ \A q \in late' : q.seq <= Len(applied)
  <2>1. [r EXCEPT !.checked = TRUE] \in [seq : Nat, checked : BOOLEAN]
        /\ [r EXCEPT !.checked = TRUE].seq = r.seq
    BY <1>0
  <2>2. late' \subseteq late \cup {[r EXCEPT !.checked = TRUE]}
    BY <1>2 DEF LateCheck
  <2> QED
    BY <1>0, <2>1, <2>2
<1>3. ASSUME ConfirmTimesOut
      PROVE  late' \subseteq [seq : Nat, checked : BOOLEAN] /\ \A q \in late' : q.seq <= Len(applied)
  <2>1. target <= cursor /\ cursor <= Len(applied)
    BY <1>3 DEF ConfirmTimesOut, DInv, AInv, AgentSteps, Processed
  <2>2. target \in Nat /\ cursor \in Nat /\ Len(applied) \in Nat
    BY DTypes
  <2>3. late' = late \cup {[seq |-> target, checked |-> FALSE]}
    BY <1>3 DEF ConfirmTimesOut
  <2> DEFINE q == [seq |-> target, checked |-> FALSE]
  <2>4. q \in [seq : Nat, checked : BOOLEAN]
    BY <2>2
  <2>5. q.seq <= Len(applied)
    BY <2>1, <2>2
  <2> HIDE DEF q
  <2>6. late' = late \cup {q}
    BY <2>3 DEF q
  <2> QED
    BY <1>0, <2>4, <2>5, <2>6
<1>4. ServerNext => late' \subseteq late \/ \E r \in late : LateCheck(r)
  BY Zenon DEF ServerNext, Publish, PublishFails, SessionExpires, LateFetch, LateAck,
     StopServer, StartServer, ipcVars
<1>5. AgentNext => late' = late \/ ConfirmTimesOut
  BY Zenon DEF AgentNext, Handshake, HandshakeLost, RunFails, Fetch, FetchError,
     FetchTimesOut, Accept, AcceptRefused, AcceptEnds, AcceptError, ProcessEvent, ProcessError,
     SaveCursor, SaveCursorFails, ProcessEnds, Confirm, ConfirmRefused, ConfirmFails,
     StopAgent, StartAgent, LoseDirectory, ipcVars
<1> QED
  BY <1>1, <1>2, <1>3, <1>4, <1>5 DEF Next
-----------------------------------------------------------------------------
(* The agent's side, step by step *)

\* What is known of the other side whenever the agent's side changes.
Shared ==
  /\ OutInv' /\ Grows /\ ckpt' <= Len(applied)
  /\ \A r \in late' : r.seq <= Len(applied)

\* What every step guarantees to the part of the agent.
LEMMA SharedHolds ==
  ASSUME DInv, Next
  PROVE  Shared
BY ServerSide, RecordingGrows, LateStep DEF Shared

\* The steps of the server, and those that send run to connect again.
LEMMA ServerSteps ==
  ASSUME DInv, Next, ServerNext \/ HandshakeLost
  PROVE  AInv'
<1>1. UNCHANGED <<inVars, agentVars>>
  BY Zenon DEF ServerNext, Publish, PublishFails, SessionExpires, LateFetch, LateCheck, LateAck,
     StopServer, StartServer, HandshakeLost
<1> QED
  BY <1>1, SharedHolds, FrameOrBackOff DEF Shared

\* A failed request sends the agent back to the handshake.
LEMMA BackOffSteps ==
  ASSUME DInv, Next, UNCHANGED inVars, BackOff
  PROVE  AInv'
BY SharedHolds, FrameOrBackOff DEF Shared

\* A handshake, with an empty inbox taking the acknowledgement over.
LEMMA HandshakeStep ==
  ASSUME DInv, Next, Handshake
  PROVE  AInv'
<1>t. /\ Len(sent) \in Nat /\ ckpt \in Nat /\ acked \in Nat /\ born \in Nat
      /\ inlog \in Seq(Envelope) /\ Len(inlog) \in Nat /\ base \in Nat /\ cur \in Nat
      /\ applied \in Seq(Nat) /\ Len(applied) \in Nat /\ last \in Nat /\ cursor \in Nat
      /\ seen \in Nat /\ target \in Nat /\ batch \in Seq(Envelope) /\ Len(batch) \in Nat
  BY DTypes
<1>0. Shared /\ Len(sent') = Len(sent) /\ sent' = sent /\ ckpt' = ckpt
  BY SharedHolds DEF Handshake, outVars
<1>1. /\ running /\ serving /\ st = "off" /\ st' = "poll" /\ seen' = acked /\ batch' = batch
      /\ target' = target
  BY DEF Handshake
<1>2. acked <= ckpt /\ ckpt <= Len(applied)
  BY <1>1, Zenon DEF DInv, AInv, OutInv, Memory, Processed
<1>3. CASE last >= acked
  <2>1. UNCHANGED inVars
    BY <1>3 DEF Handshake, Resume
  <2>2. AgentSteps'
    BY <1>0, <1>1, <1>3, <2>1 DEF DInv, AInv, AgentSteps, inVars
  <2>3. Genuine(batch)'
    BY <1>0, <1>1 DEF DInv, AInv, Genuine
  <2> QED
    BY <1>0, <2>1, <2>2, <2>3, Frame DEF Shared
<1>4. CASE ~(last >= acked)
  <2>1. /\ last = base /\ base' = acked /\ last' = acked
        /\ UNCHANGED <<inlog, intorn, cur, applied, running, infailed, cursor>>
    <3>1. last < acked
      BY <1>t, <1>4
    <3>2. InboxEmpty /\ SetBaseline(acked)
      BY <1>4, <3>1, Zenon DEF Handshake, Resume, Behind
    <3> QED
      BY <3>2 DEF InboxEmpty, SetBaseline
  <2>2. cursor <= last /\ cur <= last /\ last < acked
    BY <1>t, <1>1, <1>4 DEF DInv, AInv, InboxMemory
  <2>3. cur = 0
    <3>1. cur # 0 => cur \in base + 1 .. base + Len(inlog)
      BY DEF DInv, AInv, InboxFile
    <3> QED
      BY <1>t, <2>1, <2>2, <3>1
  <2>4. cursor' < base' /\ base' <= Len(applied)
    BY <1>t, <1>2, <2>1, <2>2
  <2>5. AgentSteps'
    BY <1>t, <1>1, <2>1, <2>4 DEF DInv, AInv, AgentSteps
  <2>6. Database' /\ Genuine(inlog)' /\ Genuine(batch)'
    BY <1>0, <1>1, <2>1 DEF DInv, AInv, Database, Genuine
  <2>7. Processed'
    BY <1>0, <2>1, <2>4 DEF DInv, AInv, Processed, Shared
  <2>8. \/ ~infailed /\ ~intorn /\ Len(inlog) = 0
        \/ infailed /\ Skipped'
    <3>1. CASE ~infailed
      BY <1>t, <1>1, <2>1, <3>1 DEF DInv, AInv, InboxMemory
    <3>2. CASE infailed /\ Skipped
      <4>1. Len(inlog) <= 1 /\ \A i \in 1 .. Len(inlog) : inlog[i].seq <= base
        BY <3>2 DEF Skipped
      <4>2. ASSUME NEW i \in 1 .. Len(inlog) PROVE inlog[i].seq <= acked
        <5>1. inlog[i] \in Envelope
          BY <1>t
        <5>2. inlog[i].seq \in Nat /\ inlog[i].seq <= base
          BY <4>1, <5>1 DEF Envelope
        <5> QED
          BY <1>t, <2>1, <2>2, <5>2
      <4> QED
        BY <2>1, <2>3, <3>2, <4>1, <4>2 DEF Skipped
    <3>3. CASE infailed /\ ~Skipped
      <4>1. base + Len(inlog) <= base + 1 /\ \A i \in 1 .. Len(inlog) : inlog[i].seq = base + i
        BY <1>t, <1>1, <2>1, <3>3 DEF DInv, AInv, InboxMemory, Follows
      <4>2. Len(inlog) <= 1 /\ base + 1 <= acked
        BY <1>t, <2>1, <2>2, <4>1
      <4>3. ASSUME NEW i \in 1 .. Len(inlog) PROVE inlog[i].seq <= acked
        <5>1. i = 1 /\ inlog[i].seq = base + i
          BY <1>t, <4>1, <4>2
        <5> QED
          BY <4>2, <5>1
      <4> QED
        BY <2>1, <2>3, <3>3, <4>2, <4>3 DEF Skipped
    <3> QED
      BY <3>1, <3>2, <3>3
  <2>9. InboxFile'
    BY <1>t, <2>1, <2>3, <2>8 DEF InboxFile, Follows
  <2>10. InboxMemory'
    <3>1. cursor' <= last' /\ cur' <= last'
      BY <1>t, <2>1, <2>2
    <3>2. CASE ~infailed
      BY <1>t, <2>1, <2>8, <3>1, <3>2 DEF InboxMemory, Follows
    <3>3. CASE infailed
      BY <1>t, <2>1, <2>4, <2>8, <3>1, <3>3 DEF InboxMemory
    <3> QED
      BY <3>2, <3>3
  <2> QED
    BY <2>5, <2>6, <2>7, <2>9, <2>10 DEF AInv
<1> QED
  BY <1>3, <1>4

\* A batch arrives: it is a run of the recorded events.
LEMMA FetchStep ==
  ASSUME DInv, Next, Fetch
  PROVE  AInv'
<1>t. /\ Len(sent) \in Nat /\ ckpt \in Nat /\ acked \in Nat /\ born \in Nat
      /\ inlog \in Seq(Envelope) /\ Len(inlog) \in Nat /\ base \in Nat /\ cur \in Nat
      /\ applied \in Seq(Nat) /\ Len(applied) \in Nat /\ last \in Nat /\ cursor \in Nat
      /\ seen \in Nat /\ target \in Nat /\ batch \in Seq(Envelope) /\ Len(batch) \in Nat
  BY DTypes
<1> DEFINE m == IF BatchLimit < Len(events) THEN BatchLimit ELSE Len(events)
<1>0. Shared /\ sent' = sent
  BY SharedHolds DEF Fetch, outVars
<1>1. /\ running /\ st = "poll" /\ st' = "accept" /\ serving /\ seen = acked
      /\ batch' = SubSeq(events, 1, m) /\ seen' = seen /\ UNCHANGED inVars
  BY Zenon DEF Fetch, CanFetch, Accepted, BatchOf
<1>2. /\ events \in Seq(Envelope) /\ Len(events) \in Nat /\ Len(events) = Len(sent) - acked
      /\ \A i \in 1 .. Len(events) :
           events[i].seq = acked + i /\ events[i].id = sent[acked + i]
  <2>1. events \in Seq(Envelope)
    BY DEF DInv, OutInv, OutTypeOK
  <2>2. OutInv
    BY DEF DInv
  <2>3. /\ Len(events) = Len(sent) - acked
        /\ \A i \in 1 .. Len(events) :
             events[i].seq = acked + i /\ events[i].id = sent[acked + i]
    BY <1>1, <2>2, Zenon DEF OutInv, Memory
  <2> QED
    BY <2>1, <2>3
<1>3. m \in 0 .. Len(events) /\ (Len(events) > 0 => m > 0)
  BY <1>2, DeliveryAssumption
<1> HIDE DEF m
<1>4. Len(batch') = m /\ \A i \in 1 .. m : batch'[i] = events[i]
  BY <1>1, <1>2, <1>3
<1>5. Genuine(batch)'
  <2> SUFFICES ASSUME NEW i \in 1 .. m
               PROVE  batch'[i].seq \in 1 .. Len(sent') /\ batch'[i].id = sent'[batch'[i].seq]
    BY <1>4 DEF Genuine
  <2>1. i \in 1 .. Len(events) /\ batch'[i] = events[i]
    BY <1>2, <1>3, <1>4
  <2>2. acked + i \in 1 .. Len(sent)
    BY <1>t, <1>2, <2>1
  <2> QED
    BY <1>0, <1>2, <2>1, <2>2
<1>6. AgentSteps'
  <2>1. AgentSteps
    BY DEF DInv, AInv
  <2>2. infailed /\ cursor >= base => last < Len(sent) /\ seen <= last
    BY <1>1, <2>1 DEF AgentSteps
  <2>3. infailed /\ cursor >= base => batch' # <<>>
    <3> SUFFICES ASSUME infailed, cursor >= base PROVE batch' # <<>>
      OBVIOUS
    <3>1. Len(events) > 0
      BY <1>t, <1>1, <1>2, <2>2
    <3>2. Len(batch') > 0
      BY <1>2, <1>3, <1>4, <3>1
    <3> QED
      BY <3>2
  <2> QED
    BY <1>0, <1>1, <2>1, <2>2, <2>3 DEF AgentSteps, inVars
<1> QED
  BY <1>0, <1>1, <1>5, <1>6, Frame DEF Shared

\* The head of a batch is a recorded event, and so is the rest.
LEMMA HeadOfBatch ==
  ASSUME DInv, batch # <<>>
  PROVE  /\ Head(batch) \in Envelope /\ Head(batch).seq \in 1 .. Len(sent)
         /\ Head(batch).id = sent[Head(batch).seq]
         /\ Tail(batch) \in Seq(Envelope) /\ Genuine(Tail(batch))
<1>t. /\ Len(sent) \in Nat /\ ckpt \in Nat /\ acked \in Nat /\ born \in Nat
      /\ inlog \in Seq(Envelope) /\ Len(inlog) \in Nat /\ base \in Nat /\ cur \in Nat
      /\ applied \in Seq(Nat) /\ Len(applied) \in Nat /\ last \in Nat /\ cursor \in Nat
      /\ seen \in Nat /\ target \in Nat /\ batch \in Seq(Envelope) /\ Len(batch) \in Nat
  BY DTypes
<1>1. Genuine(batch)
  BY DEF DInv, AInv
<1>2. Len(batch) >= 1 /\ Head(batch) = batch[1] /\ Tail(batch) \in Seq(Envelope)
      /\ Len(Tail(batch)) = Len(batch) - 1
      /\ \A i \in 1 .. Len(batch) - 1 : Tail(batch)[i] = batch[i + 1]
  BY <1>t
<1>3. 1 \in 1 .. Len(batch) /\ batch[1] \in Envelope
  BY <1>t, <1>2
<1>4. Genuine(Tail(batch))
  <2> SUFFICES ASSUME NEW i \in 1 .. Len(batch) - 1
               PROVE  /\ Tail(batch)[i].seq \in 1 .. Len(sent)
                      /\ Tail(batch)[i].id = sent[Tail(batch)[i].seq]
    BY <1>2 DEF Genuine
  <2>1. i + 1 \in 1 .. Len(batch)
    BY <1>t
  <2> QED
    BY <1>1, <1>2, <2>1 DEF Genuine
<1> QED
  BY <1>1, <1>2, <1>3, <1>4 DEF Genuine

\* A record that follows the inbox is written, successfully or not.
LEMMA InboxGrows ==
  ASSUME DInv, NEW e \in Envelope, Genuine(<<e>>), ~infailed, running, e.seq = last + 1,
         inlog' = Append(inlog, e), sent' = sent,
         UNCHANGED <<base, cur, applied>>
  PROVE  /\ Genuine(inlog)' /\ InboxFile' /\ Follows' /\ Len(inlog') = Len(inlog) + 1
         /\ base' + Len(inlog') = last + 1
<1>t. /\ Len(sent) \in Nat /\ ckpt \in Nat /\ acked \in Nat /\ born \in Nat
      /\ inlog \in Seq(Envelope) /\ Len(inlog) \in Nat /\ base \in Nat /\ cur \in Nat
      /\ applied \in Seq(Nat) /\ Len(applied) \in Nat /\ last \in Nat /\ cursor \in Nat
      /\ seen \in Nat /\ target \in Nat /\ batch \in Seq(Envelope) /\ Len(batch) \in Nat
  BY DTypes
<1>1. Follows /\ last = base + Len(inlog)
  BY DEF DInv, AInv, InboxMemory
<1>2. /\ Len(inlog') = Len(inlog) + 1 /\ inlog'[Len(inlog) + 1] = e
      /\ \A i \in 1 .. Len(inlog) : inlog'[i] = inlog[i]
  BY <1>t, Appended
<1>3. \A i \in 1 .. Len(inlog') : i \in 1 .. Len(inlog) \/ i = Len(inlog) + 1
  BY <1>t, <1>2
<1>4. e.seq \in 1 .. Len(sent) /\ e.id = sent[e.seq]
  BY DEF Genuine
<1>5. Genuine(inlog)'
  <2>1. Genuine(inlog)
    BY DEF DInv, AInv
  <2> QED
    BY <1>2, <1>3, <1>4, <2>1 DEF Genuine
<1>6. Follows'
  <2> SUFFICES ASSUME NEW i \in 1 .. Len(inlog') PROVE inlog'[i].seq = base + i
    BY DEF Follows
  <2>1. CASE i \in 1 .. Len(inlog)
    BY <1>1, <1>2, <2>1 DEF Follows
  <2>2. CASE i = Len(inlog) + 1
    BY <1>t, <1>1, <1>2, <2>2
  <2> QED
    BY <1>3, <2>1, <2>2
<1>7. InboxFile'
  <2>1. cur # 0 => cur \in base + 1 .. base + Len(inlog)
    BY DEF DInv, AInv, InboxFile
  <2>2. cur # 0 => cur \in base + 1 .. base + Len(inlog')
    BY <1>t, <1>2, <2>1
  <2> QED
    BY <1>6, <2>2 DEF InboxFile
<1> QED
  BY <1>t, <1>1, <1>2, <1>5, <1>6, <1>7

\* An event enters the inbox.
LEMMA AcceptStep ==
  ASSUME DInv, Next, Accept
  PROVE  AInv'
<1>t. /\ Len(sent) \in Nat /\ ckpt \in Nat /\ acked \in Nat /\ born \in Nat
      /\ inlog \in Seq(Envelope) /\ Len(inlog) \in Nat /\ base \in Nat /\ cur \in Nat
      /\ applied \in Seq(Nat) /\ Len(applied) \in Nat /\ last \in Nat /\ cursor \in Nat
      /\ seen \in Nat /\ target \in Nat /\ batch \in Seq(Envelope) /\ Len(batch) \in Nat
  BY DTypes
<1> DEFINE e == Head(batch)
<1>0. Shared /\ sent' = sent /\ ckpt' = ckpt
  BY SharedHolds DEF Accept, outVars
<1>1. /\ running /\ st = "accept" /\ batch # <<>> /\ ~infailed /\ batch' = Tail(batch)
      /\ UNCHANGED <<st, seen, target>>
      /\ UNCHANGED inVars \/ (Fits(e) /\ AcceptNew(e))
  BY DEF Accept, CanTake
<1>2. e \in Envelope /\ Genuine(<<e>>) /\ Genuine(Tail(batch))
  <2>1. e \in Envelope /\ e.seq \in 1 .. Len(sent) /\ e.id = sent[e.seq] /\ Genuine(Tail(batch))
    BY <1>1, HeadOfBatch
  <2> HIDE DEF e
  <2> QED
    BY <2>1 DEF Genuine
<1> HIDE DEF e
<1>3. Genuine(batch)'
  BY <1>0, <1>1, <1>2 DEF Genuine
<1>4. CASE UNCHANGED inVars
  <2>1. AgentSteps'
    BY <1>1, <1>4 DEF DInv, AInv, AgentSteps, inVars
  <2> QED
    BY <1>0, <1>3, <1>4, <2>1, Frame DEF Shared
<1>5. CASE Fits(e) /\ AcceptNew(e)
  <2>1. /\ e.seq = last + 1 /\ inlog' = Append(inlog, e) /\ last' = e.seq
        /\ UNCHANGED <<intorn, base, cur, applied, running, infailed, cursor>>
    BY <1>5 DEF Fits, AcceptNew
  <2>2. /\ Genuine(inlog)' /\ InboxFile' /\ Follows' /\ base' + Len(inlog') = last + 1
    BY <1>0, <1>1, <1>2, <2>1, InboxGrows
  <2>3. InboxMemory'
    <3>1. cursor <= last /\ cur <= last /\ ~intorn
      BY <1>1 DEF DInv, AInv, InboxMemory
    <3>2. cursor' <= last' /\ cur' <= last' /\ ~intorn' /\ ~infailed' /\ last' = base' + Len(inlog')
      BY <1>t, <1>1, <2>1, <2>2, <3>1
    <3> QED
      BY <2>2, <3>2 DEF InboxMemory
  <2>4. AgentSteps'
    BY <1>1, <2>1 DEF DInv, AInv, AgentSteps
  <2>5. Database' /\ Processed'
    BY <1>0, <2>1 DEF DInv, AInv, Database, Processed, Shared
  <2> QED
    BY <1>3, <2>2, <2>3, <2>4, <2>5 DEF AInv
<1> QED
  BY <1>1, <1>4, <1>5

\* A write to the inbox fails, with any part of the record in the file.
LEMMA AcceptErrorStep ==
  ASSUME DInv, Next, NEW left, AcceptError(left)
  PROVE  AInv'
<1>t. /\ Len(sent) \in Nat /\ ckpt \in Nat /\ acked \in Nat /\ born \in Nat
      /\ inlog \in Seq(Envelope) /\ Len(inlog) \in Nat /\ base \in Nat /\ cur \in Nat
      /\ applied \in Seq(Nat) /\ Len(applied) \in Nat /\ last \in Nat /\ cursor \in Nat
      /\ seen \in Nat /\ target \in Nat /\ batch \in Seq(Envelope) /\ Len(batch) \in Nat
  BY DTypes
<1> DEFINE e == Head(batch)
<1>0. Shared /\ sent' = sent /\ ckpt' = ckpt
  BY SharedHolds DEF AcceptError, outVars
<1>1. /\ running /\ batch # <<>> /\ ~infailed /\ e.seq = last + 1
      /\ infailed' /\ UNCHANGED <<base, cur, applied, running, last, cursor>>
      /\ inlog' = inlog \/ inlog' = Append(inlog, e)
      /\ st' = "off" /\ batch' = <<>>
  BY DEF AcceptError, AcceptFails, Fits, BackOff
<1>2. e \in Envelope /\ Genuine(<<e>>) /\ e.seq <= Len(sent)
  <2>1. e \in Envelope /\ e.seq \in 1 .. Len(sent) /\ e.id = sent[e.seq]
    BY <1>1, HeadOfBatch
  <2> HIDE DEF e
  <2> QED
    BY <2>1 DEF Genuine
<1> HIDE DEF e
<1>3. Follows /\ last = base + Len(inlog) /\ cursor <= last /\ cur <= last
  BY <1>1 DEF DInv, AInv, InboxMemory
<1>4. /\ Genuine(inlog)' /\ InboxFile' /\ Follows'
      /\ base' + Len(inlog') \in {last, last + 1}
  <2>1. CASE inlog' = inlog
    BY <1>0, <1>1, <1>3, <2>1 DEF DInv, AInv, Genuine, InboxFile, Follows, Skipped
  <2>2. CASE inlog' = Append(inlog, e)
    BY <1>0, <1>1, <1>2, <2>2, InboxGrows
  <2> QED
    BY <1>1, <2>1, <2>2
<1>5. InboxMemory'
  BY <1>t, <1>1, <1>3, <1>4 DEF InboxMemory
<1>6. AgentSteps'
  <2>1. last < Len(sent)
    BY <1>t, <1>1, <1>2
  <2> QED
    BY <1>0, <1>1, <2>1 DEF AgentSteps
<1>7. Database' /\ Processed'
  BY <1>0, <1>1 DEF DInv, AInv, Database, Processed, Shared
<1>8. Genuine(batch)'
  BY <1>1 DEF Genuine
<1> QED
  BY <1>4, <1>5, <1>6, <1>7, <1>8 DEF AInv

\* The inbox that is processed works, and its records follow the cursor.
LEMMA Working ==
  ASSUME DInv, running, st = "process", Readable
  PROVE  ~infailed /\ (Unprocessed # {} => cursor \in base .. last - 1)
<1>t. /\ Len(sent) \in Nat /\ ckpt \in Nat /\ acked \in Nat /\ born \in Nat
      /\ inlog \in Seq(Envelope) /\ Len(inlog) \in Nat /\ base \in Nat /\ cur \in Nat
      /\ applied \in Seq(Nat) /\ Len(applied) \in Nat /\ last \in Nat /\ cursor \in Nat
      /\ seen \in Nat /\ target \in Nat /\ batch \in Seq(Envelope) /\ Len(batch) \in Nat
  BY DTypes
<1>1. cursor \in base .. last
  BY DEF Readable
<1>2. ~infailed
  BY <1>t, <1>1 DEF DInv, AInv, AgentSteps
<1>3. last = base + Len(inlog) /\ \A i \in 1 .. Len(inlog) : inlog[i].seq = base + i
  BY <1>2 DEF DInv, AInv, InboxMemory, Follows
<1>4. ASSUME NEW x \in Unprocessed PROVE cursor \in base .. last - 1
  <2>1. PICK i \in DOMAIN inlog : x = inlog[i].seq
    BY DEF Unprocessed
  <2>2. i \in 1 .. Len(inlog)
    BY <1>t, <2>1
  <2>3. x = base + i
    BY <1>3, <2>1, <2>2
  <2>4. x \notin 0 .. cursor
    BY DEF Unprocessed
  <2> QED
    BY <1>t, <1>1, <1>3, <2>2, <2>3, <2>4
<1> QED
  BY <1>2, <1>4

\* An event is applied to the database.
LEMMA ProcessEventStep ==
  ASSUME DInv, Next, ProcessEvent
  PROVE  /\ AInv'
         /\ \/ applied' = applied
            \/ Len(applied) < Len(sent) /\ applied' = Append(applied, sent[Len(applied) + 1])
<1>t. /\ Len(sent) \in Nat /\ ckpt \in Nat /\ acked \in Nat /\ born \in Nat
      /\ inlog \in Seq(Envelope) /\ Len(inlog) \in Nat /\ base \in Nat /\ cur \in Nat
      /\ applied \in Seq(Nat) /\ Len(applied) \in Nat /\ last \in Nat /\ cursor \in Nat
      /\ seen \in Nat /\ target \in Nat /\ batch \in Seq(Envelope) /\ Len(batch) \in Nat
  BY DTypes
<1>0. Shared /\ sent' = sent /\ ckpt' = ckpt /\ late' = late
  BY SharedHolds DEF ProcessEvent, outVars, ipcVars
<1>1. /\ running /\ st = "process" /\ Readable /\ Unprocessed # {} /\ st' = "cursor"
      /\ applied' = Recorded(applied, IdAt(Min(Unprocessed)))
      /\ UNCHANGED <<inlog, intorn, base, cur, running, last, infailed, cursor>>
      /\ UNCHANGED <<seen, batch, target>>
  BY DEF ProcessEvent, ApplyNext, Goto
<1>2. ~infailed /\ cursor \in base .. last - 1
  BY <1>1, Working
<1> DEFINE id == sent[cursor + 1]
<1>3. cursor + 1 \in 1 .. Len(sent) /\ applied' = Recorded(applied, id) /\ id \in Nat
  <2>1. Min(Unprocessed) = cursor + 1 /\ IdAt(cursor + 1) = id /\ cursor + 1 \in 1 .. Len(sent)
    BY <1>1, <1>2, NextRecord
  <2>2. id \in Nat
    BY <2>1 DEF DInv, TypeOK, OutTypeOK
  <2> QED
    BY <1>1, <2>1, <2>2
<1>4. /\ Len(applied) <= Len(sent) /\ \A i \in 1 .. Len(applied) : applied[i] = sent[i]
      /\ cursor <= Len(applied)
  BY DEF DInv, AInv, Database, Processed
<1>5. CASE cursor + 1 <= Len(applied)
  <2>1. cursor + 1 \in DOMAIN applied /\ applied[cursor + 1] = id
    BY <1>t, <1>4, <1>5
  <2>2. applied' = applied
    BY <1>3, <2>1 DEF Recorded
  <2>3. UNCHANGED inVars /\ Genuine(batch)'
    BY <1>0, <1>1, <2>2 DEF inVars, DInv, AInv, Genuine
  <2>4. AgentSteps'
    BY <1>t, <1>1, <1>2, <1>5, <2>2 DEF DInv, AInv, AgentSteps
  <2> QED
    BY <1>0, <2>2, <2>3, <2>4, Frame DEF Shared
<1>6. CASE ~(cursor + 1 <= Len(applied))
  <2>1. Len(applied) = cursor /\ Len(applied) < Len(sent)
    BY <1>t, <1>3, <1>4, <1>6
  <2>2. \A i \in DOMAIN applied : applied[i] # id
    <3> SUFFICES ASSUME NEW i \in DOMAIN applied, applied[i] = id PROVE FALSE
      OBVIOUS
    <3>1. i \in 1 .. Len(applied)
      BY <1>t
    <3>2. sent[i] = sent[cursor + 1] /\ i \in 1 .. Len(sent) /\ i # cursor + 1
      BY <1>t, <1>4, <2>1, <3>1
    <3> QED
      BY <1>3, <3>2 DEF DInv, OutInv, Identities
  <2>3. applied' = Append(applied, id)
    BY <1>3, <2>2 DEF Recorded
  <2>4. /\ Len(applied') = Len(applied) + 1 /\ applied'[Len(applied) + 1] = id
        /\ \A i \in 1 .. Len(applied) : applied'[i] = applied[i]
    BY <1>t, <1>3, <2>3, Appended
  <2> HIDE DEF id
  <2>5. Database'
    <3>1. \A i \in 1 .. Len(applied') : i \in 1 .. Len(applied) \/ i = Len(applied) + 1
      BY <1>t, <2>4
    <3>2. \A i \in 1 .. Len(applied') : applied'[i] = sent[i]
      BY <1>4, <2>1, <2>4, <3>1 DEF id
    <3>3. Len(applied') <= Len(sent)
      BY <1>t, <2>1, <2>4
    <3> QED
      BY <1>0, <3>2, <3>3 DEF Database
  <2>6. Processed'
    <3>1. /\ ckpt <= Len(applied) /\ base <= Len(applied) /\ cur <= Len(applied)
          /\ \A r \in late : r.seq \in Nat /\ r.seq <= Len(applied)
      BY DEF DInv, AInv, Processed, TypeOK
    <3>2. \A r \in late : r.seq <= Len(applied')
      BY <1>t, <2>4, <3>1
    <3>3. ckpt <= Len(applied') /\ base <= Len(applied') /\ cur <= Len(applied') /\ cursor <= Len(applied')
      BY <1>t, <1>4, <2>4, <3>1
    <3> QED
      BY <1>0, <1>1, <3>2, <3>3 DEF Processed
  <2>7. Genuine(inlog)' /\ Genuine(batch)' /\ InboxFile' /\ InboxMemory'
    BY <1>0, <1>1 DEF DInv, AInv, Genuine, InboxFile, InboxMemory, Follows, Skipped
  <2>8. AgentSteps'
    <3>1. cursor < Len(applied')
      BY <1>t, <2>1, <2>4
    <3> QED
      BY <1>1, <1>2, <3>1 DEF DInv, AInv, AgentSteps
  <2> QED
    BY <2>1, <2>3, <2>5, <2>6, <2>7, <2>8 DEF AInv, id
<1> QED
  BY <1>5, <1>6

\* The cursor file, written with the processor's cursor or before it.
LEMMA CursorStep ==
  ASSUME DInv, Next, SaveCursor \/ SaveCursorFails, ~UNCHANGED inVars
  PROVE  AInv'
<1>t. /\ Len(sent) \in Nat /\ ckpt \in Nat /\ acked \in Nat /\ born \in Nat
      /\ inlog \in Seq(Envelope) /\ Len(inlog) \in Nat /\ base \in Nat /\ cur \in Nat
      /\ applied \in Seq(Nat) /\ Len(applied) \in Nat /\ last \in Nat /\ cursor \in Nat
      /\ seen \in Nat /\ target \in Nat /\ batch \in Seq(Envelope) /\ Len(batch) \in Nat
  BY DTypes
<1>0. Shared /\ sent' = sent /\ ckpt' = ckpt
  BY SharedHolds DEF SaveCursor, SaveCursorFails, outVars
<1>1. /\ running /\ st = "cursor" /\ cur' = Min(Unprocessed) /\ cursor' \in {cursor, Min(Unprocessed)}
      /\ UNCHANGED <<inlog, intorn, base, applied, running, last, infailed>>
      /\ st' \in {"process", "off"} /\ (batch' = batch \/ batch' = <<>>)
  BY Zenon DEF SaveCursor, SaveCursorFails, WriteCursor, WriteCursorFails, Goto, BackOff
<1>2. ~infailed /\ cursor \in base .. last - 1 /\ cursor < Len(applied)
  BY <1>1 DEF DInv, AInv, AgentSteps
<1>3. Min(Unprocessed) = cursor + 1
  BY <1>1, <1>2, NextRecord
<1>4. Follows /\ ~intorn /\ last = base + Len(inlog)
  BY <1>1, <1>2 DEF DInv, AInv, InboxMemory
<1>5. /\ cur' \in base + 1 .. base + Len(inlog) /\ cur' <= last /\ cur' <= Len(applied)
      /\ cursor' <= last /\ cursor' <= Len(applied)
  BY <1>t, <1>1, <1>2, <1>3, <1>4
<1>6. Database' /\ Processed'
  BY <1>0, <1>1, <1>5 DEF DInv, AInv, Database, Processed, Shared
<1>7. Genuine(inlog)' /\ Genuine(batch)'
  <2>1. CASE batch' = batch
    BY <1>0, <1>1, <2>1 DEF DInv, AInv, Genuine
  <2>2. CASE batch' = <<>>
    BY <1>0, <1>1, <2>2 DEF DInv, AInv, Genuine
  <2> QED
    BY <1>1, <2>1, <2>2
<1>8. Follows'
  BY <1>1, <1>4 DEF Follows
<1>9. InboxFile' /\ InboxMemory'
  BY <1>1, <1>2, <1>4, <1>5, <1>8 DEF InboxFile, InboxMemory
<1>10. AgentSteps'
  BY <1>1, <1>2 DEF AgentSteps
<1> QED
  BY <1>6, <1>7, <1>9, <1>10 DEF AInv

\* Steps of poll that touch no file of the agent.
LEMMA PollStep ==
  ASSUME DInv, Next, AcceptEnds \/ ProcessEnds \/ Confirm
  PROVE  AInv'
<1>t. /\ Len(sent) \in Nat /\ ckpt \in Nat /\ acked \in Nat /\ born \in Nat
      /\ inlog \in Seq(Envelope) /\ Len(inlog) \in Nat /\ base \in Nat /\ cur \in Nat
      /\ applied \in Seq(Nat) /\ Len(applied) \in Nat /\ last \in Nat /\ cursor \in Nat
      /\ seen \in Nat /\ target \in Nat /\ batch \in Seq(Envelope) /\ Len(batch) \in Nat
  BY DTypes
<1>0. Shared /\ sent' = sent
  <2>1. CASE AcceptEnds \/ ProcessEnds
    BY <2>1, SharedHolds DEF AcceptEnds, ProcessEnds, outVars
  <2>2. CASE Confirm
    <3>1. Carry(target, "done")
      BY <2>2 DEF Confirm
    <3>2. sent' = sent
      BY <3>1 DEF Carry, Ack, outVars
    <3> QED
      BY <3>2, SharedHolds
  <2> QED
    BY <2>1, <2>2
<1>1. running /\ UNCHANGED inVars
  BY DEF AcceptEnds, ProcessEnds, Confirm
<1>2. CASE AcceptEnds
  <2>1. st = "accept" /\ batch = <<>> /\ st' = "process" /\ batch' = batch /\ target' = target
    BY <1>2 DEF AcceptEnds, Goto
  <2>2. AgentSteps' /\ Genuine(batch)'
    BY <1>0, <1>1, <2>1 DEF DInv, AInv, AgentSteps, Genuine, inVars
  <2> QED
    BY <1>0, <1>1, <2>2, Frame DEF Shared
<1>3. CASE ProcessEnds
  <2>1. CASE BackOff
    BY <1>1, <2>1, BackOffSteps
  <2>2. CASE ~BackOff
    <3>1. /\ st = "process" /\ Readable /\ st' \in {"poll", "ack"} /\ ~(target > cursor)
          /\ batch' = batch /\ target' = target
      BY <1>3, <2>2 DEF ProcessEnds, Goto
    <3>2. ~infailed /\ target <= cursor
      BY <1>t, <1>1, <3>1, Working
    <3>3. AgentSteps' /\ Genuine(batch)'
      BY <1>0, <1>1, <3>1, <3>2 DEF DInv, AInv, AgentSteps, Genuine, inVars
    <3> QED
      BY <1>0, <1>1, <3>3, Frame DEF Shared
  <2> QED
    BY <2>1, <2>2
<1>4. CASE Confirm
  <2>1. st = "ack" /\ st' = "poll" /\ batch' = batch
    BY <1>4 DEF Confirm
  <2>2. ~(infailed /\ cursor >= base)
    BY <2>1 DEF DInv, AInv, AgentSteps
  <2>3. AgentSteps' /\ Genuine(batch)'
    BY <1>0, <1>1, <2>1, <2>2 DEF DInv, AInv, AgentSteps, Genuine, inVars
  <2> QED
    BY <1>0, <1>1, <2>3, Frame DEF Shared
<1> QED
  BY <1>2, <1>3, <1>4

\* The agent ends, is killed, or loses its directory.
LEMMA StopAgentStep ==
  ASSUME DInv, Next, StopAgent \/ RunFails \/ LoseDirectory
  PROVE  AInv'
<1>t. /\ Len(sent) \in Nat /\ ckpt \in Nat /\ acked \in Nat /\ born \in Nat
      /\ inlog \in Seq(Envelope) /\ Len(inlog) \in Nat /\ base \in Nat /\ cur \in Nat
      /\ applied \in Seq(Nat) /\ Len(applied) \in Nat /\ last \in Nat /\ cursor \in Nat
      /\ seen \in Nat /\ target \in Nat /\ batch \in Seq(Envelope) /\ Len(batch) \in Nat
  BY DTypes
<1>0. Shared /\ sent' = sent /\ ckpt' = ckpt
  BY SharedHolds DEF StopAgent, RunFails, LoseDirectory, outVars
<1>1. /\ ~running' /\ ~infailed' /\ st' = "off" /\ applied' = applied
      /\ cursor' \in {0, cursor} /\ (batch' = batch \/ batch' = <<>>)
      /\ \/ UNCHANGED <<inlog, base, cur>>
         \/ inlog' = <<>> /\ base' = 0 /\ cur' = 0
  <2>1. CASE StopAgent \/ RunFails
    BY <2>1 DEF StopAgent, RunFails, StopInbox, BackOff, agentVars
  <2>2. CASE LoseDirectory
    <3>1. ~running /\ st = "off" /\ ~infailed
      BY <2>2 DEF LoseDirectory, LoseInbox, DInv, AInv, AgentSteps
    <3> QED
      BY <2>2, <3>1 DEF LoseDirectory, LoseInbox, agentVars
  <2> QED
    BY <2>1, <2>2
<1>2. Database' /\ Processed'
  BY <1>t, <1>0, <1>1 DEF DInv, AInv, Database, Processed, Shared
<1>3. Genuine(inlog)' /\ Genuine(batch)'
  BY <1>0, <1>1 DEF DInv, AInv, Genuine
<1>4. InboxFile'
  BY <1>1 DEF DInv, AInv, InboxFile, Follows, Skipped
<1>5. InboxMemory' /\ AgentSteps'
  BY <1>1 DEF InboxMemory, AgentSteps
<1> QED
  BY <1>2, <1>3, <1>4, <1>5 DEF AInv

\* What recover keeps of the inbox file: all of it, or nothing when the
\* baseline was set over the record of a failed write.
LEMMA InboxRecovers ==
  ASSUME DInv
  PROVE  /\ Follows => InRecovered = inlog
         /\ ~Follows => InRecovered = <<>>
<1>t. /\ Len(sent) \in Nat /\ ckpt \in Nat /\ acked \in Nat /\ born \in Nat
      /\ inlog \in Seq(Envelope) /\ Len(inlog) \in Nat /\ base \in Nat /\ cur \in Nat
      /\ applied \in Seq(Nat) /\ Len(applied) \in Nat /\ last \in Nat /\ cursor \in Nat
      /\ seen \in Nat /\ target \in Nat /\ batch \in Seq(Envelope) /\ Len(batch) \in Nat
  BY DTypes
<1> DEFINE S == {n \in 0 .. Len(inlog) : \A i \in 1 .. n : inlog[i].seq = base + i}
<1>1. S \subseteq Int /\ 0 \in S /\ \A x \in S : x <= Len(inlog)
  BY <1>t
<1>2. ASSUME Follows PROVE InRecovered = inlog
  <2>1. Len(inlog) \in S
    BY <1>t, <1>2 DEF Follows
  <2> HIDE DEF S
  <2>2. Max(S) = Len(inlog)
    BY <1>1, <2>1, MaxIs
  <2>3. InRecovered = SubSeq(inlog, 1, Len(inlog))
    BY <2>2 DEF InRecovered, S
  <2> QED
    BY <1>t, <2>3
<1>3. ASSUME ~Follows PROVE InRecovered = <<>>
  <2>1. Len(inlog) <= 1 /\ \A i \in 1 .. Len(inlog) : inlog[i].seq <= base
    BY <1>3 DEF DInv, AInv, InboxFile, Skipped
  <2>2. ASSUME NEW x \in S PROVE x <= 0
    <3> SUFFICES ASSUME x # 0 PROVE FALSE
      BY <1>1
    <3>1. x = 1 /\ Len(inlog) = 1
      BY <1>t, <2>1
    <3>2. inlog[1].seq = base + 1 /\ inlog[1].seq <= base
      BY <2>1, <3>1
    <3> QED
      BY <1>t, <3>2
  <2> HIDE DEF S
  <2>3. Max(S) = 0
    BY <1>1, <2>2, MaxIs
  <2>4. InRecovered = SubSeq(inlog, 1, 0)
    BY <2>3 DEF InRecovered, S
  <2> QED
    BY <1>t, <2>4
<1> QED
  BY <1>2, <1>3

\* The agent reads its files again.
LEMMA StartAgentStep ==
  ASSUME DInv, Next, StartAgent
  PROVE  AInv'
<1>t. /\ Len(sent) \in Nat /\ ckpt \in Nat /\ acked \in Nat /\ born \in Nat
      /\ inlog \in Seq(Envelope) /\ Len(inlog) \in Nat /\ base \in Nat /\ cur \in Nat
      /\ applied \in Seq(Nat) /\ Len(applied) \in Nat /\ last \in Nat /\ cursor \in Nat
      /\ seen \in Nat /\ target \in Nat /\ batch \in Seq(Envelope) /\ Len(batch) \in Nat
  BY DTypes
<1>0. Shared /\ sent' = sent /\ ckpt' = ckpt
  BY SharedHolds DEF StartAgent, outVars
<1>1. /\ ~running /\ running' /\ ~infailed' /\ ~intorn' /\ inlog' = InRecovered
      /\ last' = base + Len(InRecovered) /\ cursor' = FirstCursor
      /\ FirstCursor \in base .. base + Len(InRecovered)
      /\ UNCHANGED <<base, cur, applied>> /\ UNCHANGED <<st, seen, batch, target>>
  BY DEF StartAgent, OpenInbox, agentVars
<1>2. /\ inlog' = inlog \/ (inlog' = <<>> /\ cur = 0)
      /\ Follows' /\ Len(inlog') \in Nat
  <2>1. CASE Follows
    <3>1. inlog' = inlog
      BY <1>1, <2>1, InboxRecovers
    <3> QED
      BY <1>t, <1>1, <2>1, <3>1 DEF Follows
  <2>2. CASE ~Follows
    <3>1. inlog' = <<>> /\ cur = 0
      BY <1>1, <2>2, InboxRecovers DEF DInv, AInv, InboxFile, Skipped
    <3> QED
      BY <1>1, <3>1 DEF Follows
  <2> QED
    BY <2>1, <2>2
<1>3. cur # 0 => cur \in base + 1 .. base + Len(inlog')
  BY <1>2 DEF DInv, AInv, InboxFile
<1>4. /\ last' = base + Len(inlog') /\ cursor' \in {base, cur} /\ cursor' <= last' /\ cur <= last'
  BY <1>t, <1>1, <1>2, <1>3 DEF FirstCursor
<1>5. Database' /\ Processed'
  BY <1>0, <1>1, <1>4 DEF DInv, AInv, Database, Processed, Shared
<1>6. Genuine(inlog)' /\ Genuine(batch)'
  <2>1. Genuine(inlog) /\ Genuine(batch)
    BY DEF DInv, AInv
  <2> QED
    BY <1>0, <1>1, <1>2, <2>1 DEF Genuine
<1>7. InboxFile'
  BY <1>1, <1>2, <1>3 DEF InboxFile
<1>8. InboxMemory'
  BY <1>1, <1>2, <1>4 DEF InboxMemory
<1>9. AgentSteps'
  <2>1. st = "off"
    BY <1>1 DEF DInv, AInv, AgentSteps
  <2> QED
    BY <1>1, <2>1 DEF AgentSteps
<1> QED
  BY <1>5, <1>6, <1>7, <1>8, <1>9 DEF AInv
-----------------------------------------------------------------------------
(* Types *)

\* The bound on faults.
LEMMA FaultsCounted ==
  ASSUME DInv, Next
  PROVE  faults' \in 0 .. MaxFaults
<1>1. Fault \/ faults' = faults
  <2>1. ServerNext => Fault \/ faults' = faults
    BY Zenon DEF ServerNext, Publish, PublishFails, SessionExpires, LateFetch, LateCheck, LateAck,
       StopServer, StartServer
  <2>2. AgentNext => Fault \/ faults' = faults
    BY Zenon DEF AgentNext, Handshake, HandshakeLost, RunFails, Fetch, FetchError,
       FetchTimesOut, Accept, AcceptRefused, AcceptEnds, AcceptError, ProcessEvent, ProcessError,
       SaveCursor, SaveCursorFails, ProcessEnds, Confirm, ConfirmRefused, ConfirmFails,
       ConfirmTimesOut, StopAgent, StartAgent, LoseDirectory
  <2> QED
    BY <2>1, <2>2 DEF Next
<1> QED
  BY <1>1, DeliveryAssumption DEF Fault, DInv, TypeOK

\* The answer to a fetch.
LEMMA BatchType ==
  ASSUME DInv
  PROVE  BatchOf(BatchLimit) \in Seq(Envelope) /\ LastOf(BatchOf(BatchLimit)) \in Nat
<1>1. events \in Seq(Envelope) /\ acked \in Nat /\ BatchLimit \in Nat /\ Len(events) \in Nat
  BY DeliveryAssumption DEF DInv, TypeOK, OutTypeOK
<1> DEFINE m == IF BatchLimit < Len(events) THEN BatchLimit ELSE Len(events)
           es == SubSeq(events, 1, m)
<1>2. m \in 0 .. Len(events)
  BY <1>1
<1> HIDE DEF m
<1>3. es \in Seq(Envelope)
  BY <1>1, <1>2
<1> HIDE DEF es
<1>4. es # <<>> => es[Len(es)] \in Envelope
  BY <1>3
<1>5. LastOf(es) \in Nat
  BY <1>1, <1>4 DEF LastOf, Envelope
<1>6. BatchOf(BatchLimit) = es
  BY DEF BatchOf, es, m
<1> QED
  BY <1>3, <1>5, <1>6

\* The types of the IPC service.
LEMMA IpcType ==
  ASSUME DInv, Next
  PROVE  consumer' \in BOOLEAN /\ delivered' \in Nat /\ slow' \subseteq Nat
<1> DEFINE n == LastOf(BatchOf(BatchLimit))
           Ok == consumer' \in BOOLEAN /\ delivered' \in Nat /\ slow' \subseteq Nat
<1>0. /\ consumer \in BOOLEAN /\ delivered \in Nat /\ slow \subseteq Nat /\ acked \in Nat
      /\ n \in Nat /\ 0 \in Nat
  BY BatchType DEF DInv, TypeOK, OutTypeOK
<1> HIDE DEF n
<1>1. ASSUME consumer' \in {consumer, TRUE, FALSE}, delivered' \in {delivered, acked, 0, n} \cup slow,
             slow' \subseteq slow \cup {n}
      PROVE  Ok
  BY <1>0, <1>1, Zenon
<1>2. ServerNext => Ok
  <2>1. ServerNext => /\ consumer' \in {consumer, TRUE, FALSE}
                      /\ delivered' \in {delivered, acked, 0, n} \cup slow
                      /\ slow' \subseteq slow \cup {n}
    BY Zenon DEF ServerNext, Publish, PublishFails, SessionExpires, LateFetch, LateCheck, LateAck,
       StopServer, StartServer, ipcVars
  <2> QED
    BY <1>1, <2>1
<1>3. ASSUME Fetch PROVE Ok
  <2>1. delivered' = n /\ consumer' = consumer /\ slow' = slow
    BY <1>3 DEF Fetch, n
  <2> QED
    BY <1>1, <2>1
<1>4. ASSUME FetchError \/ FetchTimesOut PROVE Ok
  <2>1. delivered' \in {delivered, n} /\ consumer' = consumer /\ slow' \subseteq slow \cup {n}
    BY <1>4 DEF FetchError, FetchTimesOut, n
  <2> QED
    BY <1>1, <2>1
<1>5. AgentNext => \/ Fetch \/ FetchError \/ FetchTimesOut
                   \/ /\ consumer' \in {consumer, TRUE, FALSE}
                      /\ delivered' \in {delivered, acked, 0, n} \cup slow
                      /\ slow' \subseteq slow \cup {n}
  BY Zenon DEF AgentNext, Handshake, HandshakeLost, RunFails,
     Accept, AcceptRefused, AcceptEnds, AcceptError, ProcessEvent, ProcessError,
     SaveCursor, SaveCursorFails, ProcessEnds, Confirm, ConfirmRefused, ConfirmFails,
     ConfirmTimesOut, StopAgent, StartAgent, LoseDirectory, ipcVars
<1> QED
  BY <1>1, <1>2, <1>3, <1>4, <1>5 DEF Next

\* The types of the loop of the agent.
LEMMA AgentType ==
  ASSUME DInv, Next
  PROVE  st' \in Steps /\ seen' \in Nat /\ batch' \in Seq(Envelope) /\ target' \in Nat
<1> DEFINE Ok == st' \in Steps /\ seen' \in Nat /\ batch' \in Seq(Envelope) /\ target' \in Nat
<1>0. /\ st \in Steps /\ seen \in Nat /\ batch \in Seq(Envelope) /\ target \in Nat /\ acked \in Nat
      /\ 0 \in Nat /\ <<>> \in Seq(Envelope) /\ "poll" \in Steps
  BY DEF DInv, TypeOK, OutTypeOK, Steps
<1>1. ASSUME UNCHANGED agentVars \/ BackOff PROVE Ok
  BY <1>0, <1>1 DEF agentVars, BackOff, Steps
<1>2. ASSUME NEW s \in Steps, Goto(s) PROVE Ok
  BY <1>0, <1>2 DEF Goto
<1>3. ASSUME Handshake \/ Confirm PROVE Ok
  BY <1>0, <1>3, Zenon DEF Handshake, Confirm
<1>4. ASSUME Fetch PROVE Ok
  <2> DEFINE es == BatchOf(BatchLimit)
  <2>1. es \in Seq(Envelope) /\ LastOf(es) \in Nat
    BY BatchType
  <2> HIDE DEF es
  <2>2. batch' = es /\ (target' = 0 \/ target' = LastOf(es)) /\ seen' = seen /\ st' = "accept"
    BY <1>4 DEF Fetch, es
  <2> QED
    BY <1>0, <2>1, <2>2 DEF Steps
<1>5. ASSUME Accept PROVE Ok
  <2>1. batch' = Tail(batch) /\ UNCHANGED <<st, seen, target>> /\ Tail(batch) \in Seq(Envelope)
    BY <1>5, HeadOfBatch DEF Accept
  <2> QED
    BY <1>0, <2>1
<1>6. ASSUME ProcessEnds PROVE Ok
  <2>1. BackOff \/ Goto("poll") \/ Goto("ack")
    BY <1>6 DEF ProcessEnds
  <2> QED
    BY <1>1, <1>2, <2>1 DEF Steps
<1>7. ASSUME AcceptEnds \/ ProcessEvent \/ SaveCursor PROVE Ok
  BY <1>2, <1>7 DEF AcceptEnds, ProcessEvent, SaveCursor, Steps
<1>8. ServerNext => UNCHANGED agentVars
  BY Zenon DEF ServerNext, Publish, PublishFails, SessionExpires, LateFetch, LateCheck, LateAck,
     StopServer, StartServer
<1>9. AgentNext => \/ Handshake \/ Confirm \/ Fetch \/ Accept \/ ProcessEnds
                   \/ AcceptEnds \/ ProcessEvent \/ SaveCursor
                   \/ UNCHANGED agentVars \/ BackOff
  BY Zenon DEF AgentNext, HandshakeLost, RunFails, FetchError, FetchTimesOut,
     AcceptRefused, AcceptError, ProcessError, SaveCursorFails, ConfirmRefused, ConfirmFails,
     ConfirmTimesOut, StopAgent, StartAgent, LoseDirectory
<1> QED
  BY <1>1, <1>3, <1>4, <1>5, <1>6, <1>7, <1>8, <1>9 DEF Next

\* The types of the inbox.
LEMMA InType ==
  ASSUME DInv, Next
  PROVE  InTypeOK'
<1>t. /\ Len(sent) \in Nat /\ ckpt \in Nat /\ acked \in Nat /\ born \in Nat
      /\ inlog \in Seq(Envelope) /\ Len(inlog) \in Nat /\ base \in Nat /\ cur \in Nat
      /\ applied \in Seq(Nat) /\ Len(applied) \in Nat /\ last \in Nat /\ cursor \in Nat
      /\ seen \in Nat /\ target \in Nat /\ batch \in Seq(Envelope) /\ Len(batch) \in Nat
  BY DTypes
<1>0. InTypeOK /\ 0 \in Nat /\ <<>> \in Seq(Envelope)
      /\ Envelope = [seq : Nat, id : Nat]
  BY DEF DInv, TypeOK, Envelope
<1>1. ASSUME UNCHANGED inVars PROVE InTypeOK'
  BY <1>0, <1>1, Zenon DEF InTypeOK, inVars
<1>2. ASSUME Handshake PROVE InTypeOK'
  <2>1. UNCHANGED inVars \/ SetBaseline(acked)
    BY <1>2, Zenon DEF Handshake, Resume
  <2> QED
    BY <1>t, <1>0, <1>1, <2>1, Zenon DEF InTypeOK, SetBaseline
<1>3. ASSUME Accept PROVE InTypeOK'
  <2>1. Head(batch) \in Envelope
    BY <1>3, HeadOfBatch DEF Accept
  <2>2. Head(batch).seq \in Nat /\ Append(inlog, Head(batch)) \in Seq(Envelope)
    BY <1>t, <2>1, Appended DEF Envelope
  <2>3. UNCHANGED inVars \/ AcceptNew(Head(batch))
    BY <1>3, Zenon DEF Accept
  <2> QED
    BY <1>0, <1>1, <2>2, <2>3, Zenon DEF InTypeOK, AcceptNew
<1>4. ASSUME NEW left, AcceptError(left) PROVE InTypeOK'
  <2>1. Head(batch) \in Envelope
    BY <1>4, HeadOfBatch DEF AcceptError
  <2>2. Append(inlog, Head(batch)) \in Seq(Envelope)
    BY <1>t, <2>1, Appended
  <2>3. AcceptFails(Head(batch), left)
    BY <1>4, Zenon DEF AcceptError
  <2> QED
    BY <1>0, <2>2, <2>3, Zenon DEF InTypeOK, AcceptFails
<1>5. ASSUME ProcessEvent PROVE InTypeOK'
  <2>1. applied' = applied
        \/ (Len(applied) < Len(sent) /\ applied' = Append(applied, sent[Len(applied) + 1]))
    BY <1>5, ProcessEventStep
  <2>2. Len(applied) < Len(sent) => sent[Len(applied) + 1] \in Nat
    <3>1. sent \in Seq(Nat)
      BY DEF DInv, TypeOK, OutTypeOK
    <3> QED
      BY <1>t, <3>1
  <2>3. applied' \in Seq(Nat)
    <3>1. Len(applied) < Len(sent) => Append(applied, sent[Len(applied) + 1]) \in Seq(Nat)
      BY <1>t, <2>2, Appended
    <3> QED
      BY <1>t, <2>1, <3>1
  <2>4. UNCHANGED <<inlog, intorn, base, cur, running, last, infailed, cursor>>
    BY <1>5 DEF ProcessEvent, ApplyNext
  <2> QED
    BY <1>0, <2>3, <2>4, Zenon DEF InTypeOK
<1>6. ASSUME SaveCursor \/ SaveCursorFails PROVE InTypeOK'
  <2>1. UNCHANGED inVars \/ WriteCursor \/ WriteCursorFails
    BY <1>6, Zenon DEF SaveCursor, SaveCursorFails
  <2>2. Min(Unprocessed) \in Nat
    <3>1. running /\ st = "cursor"
      BY <1>6 DEF SaveCursor, SaveCursorFails
    <3>2. ~infailed /\ cursor \in base .. last - 1
      BY <3>1 DEF DInv, AInv, AgentSteps
    <3>3. Min(Unprocessed) = cursor + 1
      BY <3>1, <3>2, NextRecord
    <3> QED
      BY <1>t, <3>3
  <2> QED
    BY <1>0, <1>1, <2>1, <2>2, Zenon DEF InTypeOK, WriteCursor, WriteCursorFails
<1>7. ASSUME StopInbox \/ LoseInbox PROVE InTypeOK'
  BY <1>0, <1>7, Zenon DEF InTypeOK, StopInbox, LoseInbox
<1>8. ASSUME StartAgent PROVE InTypeOK'
  <2>1. InRecovered = inlog \/ InRecovered = <<>>
    BY InboxRecovers
  <2>2. InRecovered \in Seq(Envelope) /\ base + Len(InRecovered) \in Nat /\ FirstCursor \in Nat
    <3>1. InRecovered \in Seq(Envelope) /\ Len(InRecovered) \in Nat
      <4>1. InRecovered \in Seq(Envelope)
        BY <1>t, <1>0, <2>1, Zenon
      <4> HIDE DEF InRecovered
      <4> QED
        BY <4>1
    <3> QED
      BY <1>t, <3>1 DEF FirstCursor
  <2>3. OpenInbox
    BY <1>8 DEF StartAgent
  <2> QED
    BY <1>0, <2>2, <2>3, Zenon DEF InTypeOK, OpenInbox
<1>9. ServerNext => UNCHANGED inVars
  BY Zenon DEF ServerNext, Publish, PublishFails, SessionExpires, LateFetch, LateCheck, LateAck,
     StopServer, StartServer
<1>10. AgentNext => \/ Handshake \/ Accept \/ (\E l \in Left : AcceptError(l)) \/ ProcessEvent
                    \/ SaveCursor \/ SaveCursorFails \/ StopInbox \/ LoseInbox \/ StartAgent
                    \/ UNCHANGED inVars
  BY Zenon DEF AgentNext, HandshakeLost, RunFails, Fetch, FetchError, FetchTimesOut,
     AcceptRefused, AcceptEnds, ProcessError, ProcessEnds, Confirm, ConfirmRefused, ConfirmFails,
     ConfirmTimesOut, StopAgent, LoseDirectory
<1> QED
  BY <1>1, <1>2, <1>3, <1>4, <1>5, <1>6, <1>7, <1>8, <1>9, <1>10 DEF Next
-----------------------------------------------------------------------------
(* The invariant *)

\* The invariant holds at the start.
LEMMA DInvInit == Init => DInv
<1> SUFFICES ASSUME Init PROVE DInv
  OBVIOUS
<1>1. OutInv
  BY OutInitInv DEF Init
<1>2. TypeOK
  <2>1. 0 \in Nat /\ <<>> \in Seq(Envelope) /\ <<>> \in Seq(Nat) /\ <<>> \in Seq([seq : Nat, id : Nat])
        /\ 0 \in 0 .. MaxFaults /\ "off" \in Steps
    BY DeliveryAssumption DEF Steps
  <2>2. InTypeOK
    BY <2>1, Zenon DEF Init, InInit, InTypeOK
  <2> QED
    BY <1>1, <2>1, <2>2, Zenon DEF Init, TypeOK, OutInv
<1>3. born <= MaxEvents
  BY DeliveryAssumption DEF Init, OutInit
<1>4. AInv
  <2>1. /\ inlog = <<>> /\ applied = <<>> /\ base = 0 /\ cur = 0 /\ cursor = 0 /\ last = 0
        /\ ~running /\ ~infailed /\ st = "off" /\ batch = <<>> /\ late = {} /\ ckpt = 0 /\ sent = <<>>
    BY DEF Init, InInit, OutInit
  <2> QED
    BY <2>1 DEF AInv, Database, Processed, Genuine, InboxFile, Follows, InboxMemory, AgentSteps
<1> QED
  BY <1>1, <1>2, <1>3, <1>4 DEF DInv

\* Every action keeps it.
LEMMA DInvNext ==
  ASSUME DInv, Next
  PROVE  DInv'
<1>1. OutInv' /\ born' <= MaxEvents
  BY ServerSide
<1>2. TypeOK'
  <2>1. OutTypeOK'
    BY <1>1 DEF OutInv
  <2> QED
    BY <2>1, LateStep, FaultsCounted, IpcType, AgentType, InType, Zenon DEF TypeOK
<1>3. AInv'
  <2>1. CASE ServerNext \/ HandshakeLost
    BY <2>1, ServerSteps
  <2>2. CASE UNCHANGED inVars /\ BackOff
    BY <2>2, BackOffSteps
  <2>3. AgentNext => \/ Handshake \/ HandshakeLost \/ Fetch \/ Accept
                     \/ (\E l \in Left : AcceptError(l)) \/ ProcessEvent
                     \/ ((SaveCursor \/ SaveCursorFails) /\ ~UNCHANGED inVars)
                     \/ SaveCursor \/ AcceptEnds \/ ProcessEnds \/ Confirm
                     \/ StopAgent \/ RunFails \/ LoseDirectory \/ StartAgent
                     \/ (UNCHANGED inVars /\ BackOff)
    BY Zenon DEF AgentNext, FetchError, FetchTimesOut, AcceptRefused, ProcessError,
       SaveCursorFails, ConfirmRefused, ConfirmFails, ConfirmTimesOut
  <2>4. CASE SaveCursor /\ UNCHANGED inVars
    <3>1. running /\ st = "cursor" /\ cursor' = Min(Unprocessed) /\ cursor' = cursor
      BY <2>4 DEF SaveCursor, WriteCursor, inVars
    <3>2. ~infailed /\ cursor \in base .. last - 1
      BY <3>1 DEF DInv, AInv, AgentSteps
    <3>3. cursor = cursor + 1 /\ cursor \in Nat
      BY <3>1, <3>2, NextRecord, DTypes
    <3> QED
      BY <3>3
  <2> QED
    BY <2>1, <2>2, <2>3, <2>4, HandshakeStep, FetchStep, AcceptStep, AcceptErrorStep,
       ProcessEventStep, CursorStep, PollStep, StopAgentStep, StartAgentStep DEF Next
<1> QED
  BY <1>1, <1>2, <1>3 DEF DInv

\* So does every step.
LEMMA DInvStep == DInv /\ [Next]_vars => DInv'
<1> SUFFICES ASSUME DInv, [Next]_vars PROVE DInv'
  OBVIOUS
<1>1. CASE Next
  BY <1>1, DInvNext
<1>2. CASE UNCHANGED vars
  <2>1. UNCHANGED outVars /\ UNCHANGED inVars /\ UNCHANGED agentVars /\ late' = late
        /\ faults' = faults /\ consumer' = consumer /\ delivered' = delivered /\ slow' = slow
    BY <1>2 DEF vars, ipcVars
  <2>2. OutInv' /\ sent' = sent /\ ckpt' = ckpt /\ born' = born
    BY <2>1, OutSame DEF DInv
  <2>3. TypeOK'
    <3>1. OutTypeOK'
      BY <2>2 DEF OutInv
    <3>2. InTypeOK'
      BY <2>1, Zenon DEF DInv, TypeOK, InTypeOK, inVars
    <3>3. UNCHANGED <<st, seen, batch, target>>
      BY <2>1 DEF agentVars
    <3> QED
      BY <2>1, <3>1, <3>2, <3>3, Zenon DEF DInv, TypeOK
  <2>4. AInv'
    <3>1. Grows /\ ckpt' <= Len(applied) /\ \A r \in late' : r.seq <= Len(applied)
      BY <2>1, <2>2, DTypes DEF Grows, DInv, AInv, Processed
    <3> QED
      BY <2>1, <2>2, <3>1, FrameOrBackOff
  <2> QED
    BY <2>2, <2>3, <2>4 DEF DInv
<1> QED
  BY <1>1, <1>2

\* It always holds.
LEMMA FeedInv == Spec => []DInv
<1> QED
  BY DInvInit, DInvStep, PTL DEF Spec
-----------------------------------------------------------------------------
(* The theorems *)

\* An event that Append confirmed and no checkpoint covers can be recovered
\* from the log, after every failure of Append, Ack and recoverLog.
THEOREM NothingIsLost == Spec => []NothingLost
<1>1. DInv => NothingLost
  BY FileHoldsAll DEF DInv
<1> QED
  BY <1>1, FeedInv, PTL

\* The inbox holds under a number what the server recorded under it, however
\* often servers and agents are restarted and events are sent again.
THEOREM EventsAreTheSame == Spec => []SameEvents
<1>1. DInv => SameEvents
  <2> SUFFICES ASSUME DInv, NEW i \in DOMAIN inlog
               PROVE  inlog[i].seq <= Len(sent) /\ inlog[i].id = sent[inlog[i].seq]
    BY DEF SameEvents
  <2>1. inlog \in Seq(Envelope) /\ Len(sent) \in Nat
    BY DTypes
  <2>2. i \in 1 .. Len(inlog)
    BY <2>1
  <2>3. inlog[i].seq \in 1 .. Len(sent) /\ inlog[i].id = sent[inlog[i].seq]
    BY <2>2 DEF DInv, AInv, Genuine
  <2> QED
    BY <2>1, <2>3
<1> QED
  BY <1>1, FeedInv, PTL

\* What a checkpoint releases is in the database.
THEOREM AcknowledgedIsApplied == Spec => []AckedIsApplied
<1>1. DInv => AckedIsApplied
  <2> SUFFICES ASSUME DInv, NEW n \in 1 .. ckpt
               PROVE  \E i \in DOMAIN applied : applied[i] = sent[n]
    BY DEF AckedIsApplied
  <2>1. applied \in Seq(Nat) /\ Len(applied) \in Nat /\ ckpt \in Nat
    BY DTypes
  <2>2. ckpt <= Len(applied) /\ \A i \in 1 .. Len(applied) : applied[i] = sent[i]
    BY DEF DInv, AInv, Processed, Database
  <2>3. n \in 1 .. Len(applied) /\ n \in DOMAIN applied
    BY <2>1, <2>2
  <2> QED
    BY <2>2, <2>3
<1> QED
  BY <1>1, FeedInv, PTL

\* The agent finds a cursor in its inbox when it starts, and an inbox that
\* the server's answer does not pass when it connects.
THEOREM AgentResumes == Spec => []AgentCanResume
<1>1. DInv => AgentCanResume
  <2> SUFFICES ASSUME DInv PROVE AgentCanResume
    OBVIOUS
  <2>t. /\ inlog \in Seq(Envelope) /\ Len(inlog) \in Nat /\ base \in Nat /\ cur \in Nat
        /\ last \in Nat /\ acked \in Nat /\ ckpt \in Nat
    BY DTypes
  <2>1. FirstCursor \in base .. base + Len(InRecovered)
    <3>1. CASE cur = 0
      <4>1. InRecovered = inlog \/ InRecovered = <<>>
        BY InboxRecovers
      <4>2. Len(InRecovered) \in Nat
        BY <2>t, <4>1
      <4> QED
        BY <2>t, <3>1, <4>2 DEF FirstCursor
    <3>2. CASE cur # 0
      <4>1. Follows /\ cur \in base + 1 .. base + Len(inlog)
        BY <3>2 DEF DInv, AInv, InboxFile
      <4>2. InRecovered = inlog
        BY <4>1, InboxRecovers
      <4> QED
        BY <2>t, <3>2, <4>1, <4>2 DEF FirstCursor
    <3> QED
      BY <3>1, <3>2
  <2>2. ASSUME running, serving, ckpt <= cur PROVE last >= acked
    <3>1. acked <= ckpt
      BY <2>2, Zenon DEF DInv, OutInv, Memory
    <3>2. cur <= last
      BY <2>2 DEF DInv, AInv, InboxMemory
    <3> QED
      BY <2>t, <2>2, <3>1, <3>2
  <2> QED
    BY <2>1, <2>2 DEF AgentCanResume
<1> QED
  BY <1>1, FeedInv, PTL

\* Outbox, inbox and agent implement EventFeed: an event is recorded once,
\* and the events are applied in their order, each once.
THEOREM FeedIsImplemented == Spec => AppliedInOrder
<1>1. Init => Feed!Init
  BY DEF Init, OutInit, InInit, Feed!Init
<1>2. DInv /\ [Next]_vars => [Feed!Next]_<<sent, applied>>
  <2> SUFFICES ASSUME DInv, [Next]_vars, ~UNCHANGED <<sent, applied>> PROVE Feed!Next
    OBVIOUS
  <2>1. Next
    BY DEF vars, outVars, inVars
  <2>2. Recording
    BY <2>1, ServerSide
  <2>3. CASE ProcessEvent
    <3>1. sent' = sent
      BY <2>3 DEF ProcessEvent, outVars
    <3>2. Len(applied) < Len(sent) /\ applied' = Append(applied, sent[Len(applied) + 1])
      BY <2>1, <2>3, <3>1, ProcessEventStep
    <3> QED
      BY <3>1, <3>2 DEF Feed!Next, Feed!Apply
  <2>4. CASE ~ProcessEvent
    <3>1. applied' = applied
      <4>1. ServerNext => applied' = applied
        BY Zenon DEF ServerNext, Publish, PublishFails, SessionExpires, LateFetch, LateCheck,
           LateAck, StopServer, StartServer, inVars
      <4>2. AgentNext => ProcessEvent \/ applied' = applied
        BY Zenon DEF AgentNext, Handshake, Resume, SetBaseline, HandshakeLost, RunFails, StopInbox,
           Fetch, FetchError, FetchTimesOut, Accept, AcceptNew, AcceptRefused, AcceptEnds,
           AcceptError, AcceptFails, ProcessError, SaveCursor, WriteCursor, SaveCursorFails,
           WriteCursorFails, ProcessEnds, Confirm, ConfirmRefused, ConfirmFails, ConfirmTimesOut,
           StopAgent, StartAgent, OpenInbox, LoseDirectory, LoseInbox, inVars
      <4> QED
        BY <2>1, <2>4, <4>1, <4>2 DEF Next
    <3>2. PICK e \in 1 .. MaxEvents : sent' = Append(sent, e) /\ \A n \in 1 .. Len(sent) : sent[n] # e
      BY <2>2, <3>1 DEF Recording
    <3>3. \A i \in DOMAIN sent : sent[i] # e
      <4>1. sent \in Seq(Nat)
        BY DEF DInv, TypeOK, OutTypeOK
      <4>2. DOMAIN sent = 1 .. Len(sent)
        BY <4>1
      <4> QED
        BY <3>2, <4>2
    <3> QED
      BY <3>1, <3>2, <3>3 DEF Feed!Next, Feed!Record
  <2> QED
    BY <2>3, <2>4
<1> QED
  BY <1>1, <1>2, FeedInv, PTL DEF Spec, AppliedInOrder, Feed!Spec
=============================================================================
