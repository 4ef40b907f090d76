----------------------------- MODULE EventFeed -----------------------------
(***************************************************************************)
(* What the event log promises to the statistics: the server's events are  *)
(* applied one by one, in the order in which they were recorded, each of   *)
(* them once.  Nothing is said about logs, numbers, sessions or restarts.  *)
(***************************************************************************)
EXTENDS Naturals, Sequences

CONSTANT Event

VARIABLES sent,     \* the recorded events
          applied   \* the events whose effects are in the database

Init == sent = <<>> /\ applied = <<>>

\* A new event is recorded.
Record(e) ==
  /\ \A i \in DOMAIN sent : sent[i] # e
  /\ sent' = Append(sent, e)
  /\ UNCHANGED applied

\* The next event takes effect.
Apply ==
  /\ Len(applied) < Len(sent)
  /\ applied' = Append(applied, sent[Len(applied) + 1])
  /\ UNCHANGED sent

Next == Apply \/ \E e \in Event : Record(e)

Spec == Init /\ [][Next]_<<sent, applied>>
=============================================================================
