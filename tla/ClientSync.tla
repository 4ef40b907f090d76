----------------------------- MODULE ClientSync -----------------------------
(***************************************************************************)
(* What a client that comes back believes of its room (session_auth.go,    *)
(* core/server/protocol_hack.go).  A client that was told of a waiting     *)
(* room never learns the chart, so it is told "select chart" first and the *)
(* real state two timers later.  The locks are let go before the first     *)
(* message is sent, and the timers take none: here each of these is a step *)
(* of its own.                                                             *)
(*                                                                         *)
(* Messages to one session keep their order, so the client's belief is the *)
(* state named by the last message queued.                                 *)
(***************************************************************************)
EXTENDS Integers, FiniteSets

CONSTANTS MaxChanges, MaxReconnects

VARIABLES phase,       \* the room's state
          belief,      \* what the client was last told
          hello,       \* the answer to its login: [told, fix, due]
          mend,        \* the last login found the room waiting
          fixes,       \* fixClientRoomState in progress: [step, told, n]
          changes,     \* how often the room's state has changed
          reconnects
syncVars == <<phase, belief, hello, mend, fixes, changes, reconnects>>

Phases == {"select", "wait", "play"}
NoHello == [told |-> "select", fix |-> FALSE, due |-> FALSE]

SyncInit ==
  /\ phase = "select" /\ belief = "select" /\ hello = NoHello /\ mend = FALSE /\ fixes = {}
  /\ changes = 0 /\ reconnects = 0

\* Under the locks: the new state is broadcast to the user's session.
ChangePhase ==
  /\ changes < MaxChanges /\ changes' = changes + 1
  /\ \E next \in (CASE phase = "select" -> {"wait"} [] phase = "wait" -> {"select", "play"} [] phase = "play" -> {"select"}) :
       phase' = next /\ belief' = next
  /\ UNCHANGED <<hello, mend, fixes, reconnects>>

\* The locked part of a reconnect: the session is bound and the answer made;
\* a waiting room is disguised (ClientRoomStateForJoin).
BindSession ==
  /\ ~hello.due /\ reconnects < MaxReconnects /\ reconnects' = reconnects + 1
  /\ hello' = [told |-> IF phase = "wait" THEN "select" ELSE phase, fix |-> phase = "wait", due |-> TRUE]
  /\ UNCHANGED <<phase, belief, mend, fixes, changes>>

\* TrySend(SrvAuthenticate) and FixClientRoomState, which looks again.
SendHello ==
  /\ hello.due /\ hello' = NoHello
  /\ belief' = hello.told /\ mend' = hello.fix
  /\ LET fix == [step |-> "disguise", told |-> "select", n |-> reconnects]
     IN  fixes' = IF hello.fix /\ phase # "select" THEN fixes \cup {fix} ELSE fixes
  /\ UNCHANGED <<phase, changes, reconnects>>

\* fixClientRoomState0: the disguise again, and a second timer.
FixDisguise(f) ==
  /\ f.step = "disguise" /\ belief' = "select"
  /\ fixes' = (fixes \ {f}) \cup {[f EXCEPT !.step = "read"]}
  /\ UNCHANGED <<phase, hello, mend, changes, reconnects>>

\* The second timer reads room.ClientRoomState() without a lock ...
FixRead(f) ==
  /\ f.step = "read"
  /\ fixes' = (fixes \ {f}) \cup {[f EXCEPT !.step = "send", !.told = phase]}
  /\ UNCHANGED <<phase, belief, hello, mend, changes, reconnects>>

\* ... and queues it.
FixSend(f) ==
  /\ f.step = "send" /\ belief' = f.told /\ fixes' = fixes \ {f}
  /\ UNCHANGED <<phase, hello, mend, changes, reconnects>>

SyncNext ==
  \/ ChangePhase \/ BindSession \/ SendHello
  \/ \E f \in fixes : FixDisguise(f) \/ FixRead(f) \/ FixSend(f)

SyncSpec == SyncInit /\ [][SyncNext]_syncVars

\* session_auth.go:100: after a reconnect into a waiting room the client's state
\* is brought back: once the answer and both timers are through, it believes
\* what the room is.
ClientIsRestored == (mend /\ fixes = {} /\ ~hello.due) => belief = phase
=============================================================================
