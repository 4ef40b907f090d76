------------------------------- MODULE Outbox -------------------------------
(***************************************************************************)
(* The server's durable event log for the agent                            *)
(* (internal/agent/outbox/store.go): events.log, checkpoint.json and the   *)
(* Store in memory.  A record is a sequence number with the identity       *)
(* (uuid) of its event and takes one unit of space.                        *)
(*                                                                         *)
(* Every file operation may fail and the process may stop between any two  *)
(* of them.  What a failed operation leaves on the disk is its parameter;  *)
(* a crash in the middle of an operation is the failed operation followed  *)
(* by the crash.                                                           *)
(***************************************************************************)
EXTENDS Naturals, Sequences, FiniteSetsExt

CONSTANT MaxBytes      \* OUTBOX_MAX_MB, in records

ASSUME MaxBytesAssumption == MaxBytes \in Nat \ {0}

VARIABLES log,      \* the records of events.log
          torn,     \* bytes of an incomplete record follow them
          ckpt,     \* checkpoint.json
          serving,  \* the process runs
          events,   \* Store.events: not acknowledged yet
          acked, latest, bytes, failed,   \* the other fields of Store
          sent,     \* history: the identities of all events, in order
          born      \* history: identities drawn so far

outDisk == <<log, torn, ckpt>>
outMem == <<serving, events, acked, latest, bytes, failed>>
outVars == <<log, torn, ckpt, serving, events, acked, latest, bytes, failed,
             sent, born>>

Envelope == [seq : Nat, id : Nat]

OutTypeOK ==
  /\ log \in Seq(Envelope) /\ Len(log) <= MaxBytes
  /\ torn \in BOOLEAN /\ ckpt \in Nat
  /\ serving \in BOOLEAN /\ events \in Seq(Envelope)
  /\ acked \in Nat /\ latest \in Nat /\ bytes \in 0 .. MaxBytes /\ failed \in BOOLEAN
  /\ sent \in Seq(Nat) /\ born \in Nat

OutInit ==
  /\ log = <<>> /\ torn = FALSE /\ ckpt = 0
  /\ serving = TRUE /\ events = <<>>
  /\ acked = 0 /\ latest = 0 /\ bytes = 0 /\ failed = FALSE
  /\ sent = <<>> /\ born = 0

-----------------------------------------------------------------------------
(* Append *)

\* The last quarter is kept for critical events.
Limit(priority) ==
  IF priority = "normal" THEN MaxBytes - MaxBytes \div 4 ELSE MaxBytes

MayAppend(priority) == serving /\ ~failed /\ bytes + 1 <= Limit(priority)

NextEnvelope == [seq |-> latest + 1, id |-> born + 1]

\* The file with another record: behind torn bytes nobody finds it again.
Written(l) == IF torn THEN l ELSE Append(l, NextEnvelope)

AppendEvent(priority) ==
  /\ MayAppend(priority)
  /\ log' = Written(log)
  /\ events' = Append(events, NextEnvelope)
  /\ latest' = latest + 1
  /\ bytes' = bytes + 1
  /\ sent' = Append(sent, born + 1)
  /\ born' = born + 1
  /\ UNCHANGED <<torn, ckpt, serving, acked, failed>>

\* Write or Sync failed: nothing, a part or all of the record is there.
AppendFails(left) ==
  /\ MayAppend("critical")
  /\ failed' = TRUE
  /\ log' = IF left = "whole" THEN Written(log) ELSE log
  /\ torn' = (torn \/ left = "part")
  /\ born' = born + 1
  /\ UNCHANGED <<ckpt, serving, events, acked, latest, bytes, sent>>

-----------------------------------------------------------------------------
(* Ack: the checkpoint, then the list in memory, then the compacted log *)

AckSteps == {"nothing", "checkpoint", "memory", "replaced", "done"}

\* The steps of Ack up to and including the named one were carried out.
Reached(how, step) ==
  LET n == [nothing |-> 0, checkpoint |-> 1, memory |-> 2, replaced |-> 3,
            done |-> 4]
  IN  n[how] >= n[step]

\* The events after number n, of a list in the order of the numbers.
Unacked(es, n) ==
  SubSeq(es, Min({i \in 1 .. Len(es) + 1 : \A j \in i .. Len(es) : es[j].seq > n}),
         Len(es))

\* Mutant: the log is compacted although the checkpoint was not written.
Compacts_Early(how) == TRUE

\* The log is replaced by the pending events.
Compacts(how) == Reached(how, "replaced")

CanAck(n) == n > acked /\ n <= latest /\ \E i \in DOMAIN events : events[i].seq = n

\* Ack(n) for an acknowledgement that is new; how tells how far it came.
Ack(n, how) ==
  /\ serving /\ CanAck(n)
  /\ ckpt' = IF Reached(how, "checkpoint") THEN n ELSE ckpt
  /\ acked' = IF Reached(how, "memory") THEN n ELSE acked
  /\ events' = IF Reached(how, "memory") THEN Unacked(events, n) ELSE events
  /\ log' = IF Compacts(how) THEN Unacked(events, n) ELSE log
  /\ torn' = (torn /\ ~Compacts(how))
  /\ bytes' = IF Reached(how, "done") THEN Len(events') ELSE bytes
  /\ UNCHANGED <<serving, latest, failed, sent, born>>

-----------------------------------------------------------------------------
(* Stop and recovery *)

StopOutbox ==
  /\ serving
  /\ serving' = FALSE /\ events' = <<>> /\ acked' = 0 /\ latest' = 0
  /\ bytes' = 0 /\ failed' = FALSE
  /\ UNCHANGED <<log, torn, ckpt, sent, born>>

\* The records recoverLog keeps: numbered without a gap, from a number that
\* the checkpoint reaches.
Recovered(l, a) ==
  SubSeq(l, 1, Max({n \in 0 .. Len(l) :
                      /\ n > 0 => l[1].seq <= a + 1
                      /\ \A i \in 2 .. n : l[i].seq = l[i - 1].seq + 1}))

\* Mutant: numbering goes on from the checkpoint.
LatestOf_Checkpoint(l, a) == a

LatestOf(l, a) == IF l # <<>> /\ l[Len(l)].seq > a THEN l[Len(l)].seq ELSE a

\* Open: a record that was written but never confirmed is an event now.
OpenOutbox ==
  /\ ~serving
  /\ serving' = TRUE
  /\ log' = Recovered(log, ckpt) /\ torn' = FALSE
  /\ acked' = ckpt
  /\ latest' = LatestOf(log', ckpt)
  /\ events' = Unacked(log', ckpt)
  /\ bytes' = Len(log')
  /\ sent' = IF latest' > Len(sent) THEN Append(sent, log'[Len(log')].id)
             ELSE sent
  /\ UNCHANGED <<ckpt, failed, born>>

\* Events(after, limit): the batch an agent gets that asks from acked on.
BatchOf(limit) ==
  SubSeq(events, 1, IF limit < Len(events) THEN limit ELSE Len(events))

-----------------------------------------------------------------------------
\* Whatever was confirmed and not yet checkpointed can be recovered: it is in
\* the log, under its number and identity, where recoverLog finds it (Append
\* syncs before it confirms, Ack writes the checkpoint before it compacts).
NothingLost ==
  \A n \in ckpt + 1 .. Len(sent) :
    \E i \in DOMAIN Recovered(log, ckpt) :
      Recovered(log, ckpt)[i] = [seq |-> n, id |-> sent[n]]
=============================================================================
