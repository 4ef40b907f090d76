-------------------------------- MODULE Inbox --------------------------------
(***************************************************************************)
(* The agent's side of the event feed: the durable inbox                   *)
(* (internal/agent/inbox/store.go) and a processor with its cursor file    *)
(* (internal/agent/stats_processor), which applies each event to a         *)
(* database in a transaction that remembers the event's identity.          *)
(***************************************************************************)
EXTENDS Naturals, Sequences, FiniteSetsExt

CONSTANT InboxMax      \* -inbox-max-mb, in records

ASSUME InboxMaxAssumption == InboxMax \in Nat \ {0}

VARIABLES inlog, intorn,   \* the inbox file
          base,            \* its .baseline file, 0 if there is none
          cur,             \* the cursor file, 0 if there is none
          applied,         \* the database: identities, as applied
          running,         \* the agent runs
          last, infailed,  \* Store.last, Store.failed
          cursor           \* Processor.cursor

inVars == <<inlog, intorn, base, cur, applied, running, last, infailed, cursor>>

InTypeOK ==
  /\ inlog \in Seq([seq : Nat, id : Nat]) /\ intorn \in BOOLEAN
  /\ base \in Nat /\ cur \in Nat /\ applied \in Seq(Nat)
  /\ running \in BOOLEAN /\ last \in Nat /\ infailed \in BOOLEAN
  /\ cursor \in Nat

InInit ==
  /\ inlog = <<>> /\ intorn = FALSE /\ base = 0 /\ cur = 0 /\ applied = <<>>
  /\ running = FALSE /\ last = 0 /\ infailed = FALSE /\ cursor = 0

\* Store.ids[n]; 0 for a number the inbox has no record of.
IdAt(n) ==
  IF \E i \in DOMAIN inlog : inlog[i].seq = n
  THEN inlog[CHOOSE i \in DOMAIN inlog : inlog[i].seq = n].id ELSE 0

-----------------------------------------------------------------------------
\* Mutant: numbering is expected to start at 1.
InRecovered_FromOne ==
  SubSeq(inlog, 1, Max({n \in 0 .. Len(inlog) :
                          \A i \in 1 .. n : inlog[i].seq = i}))

\* recover: the records that follow the baseline one by one.
InRecovered ==
  SubSeq(inlog, 1, Max({n \in 0 .. Len(inlog) :
                          \A i \in 1 .. n : inlog[i].seq = base + i}))

FirstCursor == IF cur = 0 THEN base ELSE cur

\* Open and OpenProcessor; the agent does not start with a cursor outside of
\* the inbox.
OpenInbox ==
  /\ ~running
  /\ FirstCursor \in base .. base + Len(InRecovered)
  /\ running' = TRUE /\ infailed' = FALSE
  /\ inlog' = InRecovered /\ intorn' = FALSE
  /\ last' = base + Len(InRecovered)
  /\ cursor' = FirstCursor
  /\ UNCHANGED <<base, cur, applied>>

StopInbox ==
  /\ running
  /\ running' = FALSE /\ last' = 0 /\ infailed' = FALSE /\ cursor' = 0
  /\ UNCHANGED <<inlog, intorn, base, cur, applied>>

\* The operator starts over with an empty directory and the old database.
LoseInbox ==
  /\ ~running
  /\ inlog' = <<>> /\ intorn' = FALSE /\ base' = 0 /\ cur' = 0
  /\ UNCHANGED <<applied, running, last, infailed, cursor>>

\* SetBaseline on an inbox that holds nothing (ids and bytes count only the
\* records whose write succeeded).
InboxEmpty == last = base

SetBaseline(n) ==
  /\ base' = n /\ last' = n
  /\ UNCHANGED <<inlog, intorn, cur, applied, running, infailed, cursor>>

-----------------------------------------------------------------------------
(* Accept, one event of the batch at a time *)

\* A repeated event is skipped if it is the one the inbox knows.
Repeated(e) == e.seq <= last /\ IdAt(e.seq) = e.id

\* Mutant: the last record that fits is refused.
Fits_Strict(e) == e.seq = last + 1 /\ Len(inlog) + 1 < InboxMax

\* A new one is written and synced.
Fits(e) == e.seq = last + 1 /\ Len(inlog) < InboxMax

AcceptNew(e) ==
  /\ inlog' = Append(inlog, e)
  /\ last' = e.seq
  /\ UNCHANGED <<intorn, base, cur, applied, running, infailed, cursor>>

AcceptFails(e, left) ==
  /\ Fits(e)
  /\ infailed' = TRUE
  /\ inlog' = IF left = "whole" THEN Append(inlog, e) ELSE inlog
  /\ intorn' = (left = "part")
  /\ UNCHANGED <<base, cur, applied, running, last, cursor>>

-----------------------------------------------------------------------------
(* Process: ReadAfter, the transaction, the cursor file *)

\* ReadAfter answers: the cursor is in range and the file reads to its end.
Readable == cursor \in base .. last /\ ~intorn

\* What it returns, as numbers.
Unprocessed == {inlog[i].seq : i \in DOMAIN inlog} \ 0 .. cursor

\* Mutant: the transaction does not look the event up.
Recorded_Blind(es, id) == Append(es, id)

\* RecordMatchEvent: an event the database knows changes nothing.
Recorded(es, id) ==
  IF \E i \in DOMAIN es : es[i] = id THEN es ELSE Append(es, id)

ApplyNext ==
  /\ applied' = Recorded(applied, IdAt(Min(Unprocessed)))
  /\ UNCHANGED <<inlog, intorn, base, cur, running, last, infailed, cursor>>

WriteCursor ==
  /\ cur' = Min(Unprocessed)
  /\ cursor' = Min(Unprocessed)
  /\ UNCHANGED <<inlog, intorn, base, applied, running, last, infailed>>

\* The file was replaced and the directory could not be synced: an error.
WriteCursorFails ==
  /\ cur' = Min(Unprocessed)
  /\ UNCHANGED <<inlog, intorn, base, applied, running, last, infailed, cursor>>
=============================================================================
