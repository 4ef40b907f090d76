--------------------------- MODULE ServerServices ---------------------------
(***************************************************************************)
(* The sessions of an account and the small services of the server, in one *)
(* run.  They share no state with each other that a property speaks of, so *)
(* a behaviour runs one of them and leaves the others at rest.             *)
(***************************************************************************)
EXTENDS Session, QueryBroker, Cache, AdminAccess, LiveFeed, Limits, MonitorBuffer, Settings, MCWire

VARIABLE running

SvInit ==
  /\ running \in {"sessions", "queries", "cache", "access", "feed", "limits", "monitor", "settings", "wire", "half"}
  /\ SessionInit /\ QInit /\ CInit /\ AInit /\ FInit
  /\ LInit /\ (running # "limits" => limiter = "session" /\ lmax = MaxMax)
  /\ MonInit /\ (running # "monitor" => watched)
  /\ SetInit
  /\ IF running = "wire" THEN WireInit
     ELSE /\ wire = [kind |-> "Client", todo |-> <<>>, legal |-> TRUE, sent |-> <<>>, bytes |-> <<>>]
          /\ inbuf = <<>> /\ received = <<>> /\ refused = FALSE
  /\ IF running = "half" THEN HalfInit ELSE position = Float(FALSE, 0) /\ packed = -1

\* Connections are numbered in the order in which they are accepted.
InOrder == \A s, t \in Sessions : s < t /\ pc'[s] = "idle" => pc'[t] = "idle"

SvNext ==
  /\ UNCHANGED running
  /\ \/ running = "sessions" /\ SessionNext /\ InOrder /\ UNCHANGED <<qVars, cVars, aVars, fVars, lVars, monVars, setVars, wireVars, halfVars>>
     \/ running = "queries" /\ QNext /\ UNCHANGED <<sVars, cVars, aVars, fVars, lVars, monVars, setVars, wireVars, halfVars>>
     \/ running = "cache" /\ CNext /\ UNCHANGED <<sVars, qVars, aVars, fVars, lVars, monVars, setVars, wireVars, halfVars>>
     \/ running = "access" /\ ANext /\ UNCHANGED <<sVars, qVars, cVars, fVars, lVars, monVars, setVars, wireVars, halfVars>>
     \/ running = "feed" /\ FNext /\ UNCHANGED <<sVars, qVars, cVars, aVars, lVars, monVars, setVars, wireVars, halfVars>>
     \/ running = "limits" /\ LNext /\ UNCHANGED <<sVars, qVars, cVars, aVars, fVars, monVars, setVars, wireVars, halfVars>>
     \/ running = "monitor" /\ MonNext /\ UNCHANGED <<sVars, qVars, cVars, aVars, fVars, lVars, setVars, wireVars, halfVars>>
     \/ running = "settings" /\ SetNext /\ UNCHANGED <<sVars, qVars, cVars, aVars, fVars, lVars, monVars, wireVars, halfVars>>
     \/ running = "wire" /\ WireNext /\ UNCHANGED <<sVars, qVars, cVars, aVars, fVars, lVars, monVars, setVars, halfVars>>
     \/ running = "half" /\ HalfNext /\ UNCHANGED <<sVars, qVars, cVars, aVars, fVars, lVars, monVars, setVars, wireVars>>

SvSpec == SvInit /\ [][SvNext]_<<running, sVars, qVars, cVars, aVars, fVars, lVars, monVars, setVars, wireVars, halfVars>>
=============================================================================
