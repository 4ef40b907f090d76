------------------------------- MODULE Session -------------------------------
(***************************************************************************)
(* Connections and their binding to a user (network/server.go, session*.go *)
(* and the session part of core/server/model_user.go), followed for one    *)
(* account: accounts meet only in state.Mu and in the connection count.    *)
(*                                                                         *)
(* A session has three threads of control: the accept loop that admits it, *)
(* its read loop (pc: admission, authentication, commands) and whoever     *)
(* runs its Close (closer).  Authentication holds state.Mu twice and lets  *)
(* it go in between; the takeover of the second phase and the arming of    *)
(* the grace timer run outside it.  lock is the session whose cleanup      *)
(* holds state.Mu between detaching the user and deciding its fate: only   *)
(* those who do not take the lock can step in there.                       *)
(*                                                                         *)
(* A session creates at most one User object and disconnects at most once, *)
(* so a user object, a dangle token and a grace timer are named by the     *)
(* session that made them.  Rooms, bans and maintenance are Hub's matter;  *)
(* here a login may fail and a disconnected user may get no grace at any   *)
(* time, for whichever of these reasons.                                   *)
(***************************************************************************)
EXTENDS Naturals, FiniteSets

CONSTANTS Sessions, NoOne,
          MaxConnections    \* MAX_CONNECTIONS, 0 for no limit

ASSUME SessionsAssumption == NoOne \notin Sessions
ASSUME LimitAssumption == MaxConnections \in Nat

VARIABLES pc,         \* the read loop: idle, accepted (counted, not yet judged),
                      \* open (reading, no user), fetching (asking Phira),
                      \* register (first phase found nobody), takeover (second
                      \* phase found somebody), kick (bound, stale session to
                      \* be closed), ready, ended
          closer,     \* none; closing: done is closed; keeping: likewise, for
                      \* AdminDisconnect(true); cleaning: in cleanup's critical
                      \* section; arming: behind it; closed
          closing,    \* sessions told to close by the shutdown
          sUser,      \* Session.user
          stale,      \* the session an authentication is about to close
          found,      \* the object the second phase found registered
          uSession,   \* User.session
          uToken,     \* User.dangleToken
          uTimer,     \* User.dangleTimer
          timer,      \* none, armed, fired (waiting for state.Mu), over
          users,      \* ServerState.Users at the account's id
          lock,       \* whose cleanup holds state.Mu
          active,     \* Server.activeConns
          rank,       \* what AddInt32 returned to the accept loop
          down,       \* Server.Close has begun
          contested   \* objects bound by the second phase (history)

connVars == <<active, rank>>
userVars == <<uSession, uToken, uTimer, timer>>
sessVars == <<pc, closer, closing, sUser, stale, found>>
sVars == <<sessVars, userVars, connVars, users, lock, down, contested>>

SessionTypeOK ==
  /\ pc \in [Sessions -> {"idle", "accepted", "open", "fetching", "register",
                          "takeover", "kick", "ready", "ended"}]
  /\ closer \in [Sessions -> {"none", "closing", "keeping", "cleaning", "arming", "closed"}]
  /\ closing \subseteq Sessions
  /\ \A f \in {sUser, stale, found, uSession, uToken, uTimer} : f \in [Sessions -> Sessions \cup {NoOne}]
  /\ timer \in [Sessions -> {"none", "armed", "fired", "over"}]
  /\ users \in Sessions \cup {NoOne} /\ lock \in Sessions \cup {NoOne}
  /\ active \in Nat /\ rank \in [Sessions -> Nat]
  /\ down \in BOOLEAN
  /\ contested \subseteq Sessions

Nobody == [s \in Sessions |-> NoOne]

SessionInit ==
  /\ pc = [s \in Sessions |-> "idle"] /\ closer = [s \in Sessions |-> "none"]
  /\ closing = {} /\ sUser = Nobody /\ stale = Nobody /\ found = Nobody
  /\ uSession = Nobody /\ uToken = Nobody /\ uTimer = Nobody
  /\ timer = [s \in Sessions |-> "none"]
  /\ users = NoOne /\ lock = NoOne
  /\ active = 0 /\ rank = [s \in Sessions |-> 0]
  /\ down = FALSE /\ contested = {}

MuFree == lock = NoOne

-----------------------------------------------------------------------------
(* User: the session pointer and the grace state                           *)

\* The timers after Stop on the timer that user o refers to: one that has
\* fired already is not stopped.
Stopped(o) ==
  [t \in Sessions |-> IF t = uTimer[o] /\ timer[t] = "armed" THEN "over" ELSE timer[t]]

SetSession(o, s) ==
  /\ uSession' = [uSession EXCEPT ![o] = s]
  /\ timer' = Stopped(o) /\ uTimer' = [uTimer EXCEPT ![o] = NoOne]
  /\ uToken' = [uToken EXCEPT ![o] = NoOne]

\* IsStillDangling compares pointers to DangleToken, a struct of size zero: the
\* compiled program gives all of them one address, so any token is the same.
IsStillDangling(o, s) == uToken[o] # NoOne

\* removeUser: leaving the room is Hub's LeaveRoom.  The entry is deleted by id.
RemoveUser(o) ==
  /\ users' = NoOne
  /\ timer' = Stopped(o) /\ uTimer' = [uTimer EXCEPT ![o] = NoOne]
  /\ uToken' = [uToken EXCEPT ![o] = NoOne]
  /\ UNCHANGED uSession

-----------------------------------------------------------------------------
(* Admission: two accept loops                                             *)

AcceptLoops == 2

\* admit counts the connection before it judges it.
Count(s) ==
  /\ pc[s] = "idle" /\ ~down
  /\ Cardinality({t \in Sessions : pc[t] = "accepted"}) < AcceptLoops
  /\ pc' = [pc EXCEPT ![s] = "accepted"]
  /\ active' = active + 1 /\ rank' = [rank EXCEPT ![s] = active + 1]
  /\ UNCHANGED <<closer, closing, sUser, stale, found, userVars, users, lock, down, contested>>

TooMany(s) == MaxConnections >= 1 /\ rank[s] > MaxConnections

Judge_Leaks(s, limited) ==
  /\ pc[s] = "accepted"
  /\ LET refused == TooMany(s) \/ limited
     IN /\ pc' = [pc EXCEPT ![s] = IF refused THEN "ended" ELSE "open"]
        /\ active' = IF TooMany(s) THEN active - 1 ELSE active
  /\ rank' = [rank EXCEPT ![s] = 0]
  /\ UNCHANGED <<closer, closing, sUser, stale, found, userVars, users, lock, down, contested>>

\* limited: the rate limiter of the peer's address refuses (module Limits; a
\* loopback peer is never asked).
Judge(s, limited) ==
  /\ pc[s] = "accepted"
  /\ LET refused == TooMany(s) \/ limited
     IN /\ pc' = [pc EXCEPT ![s] = IF refused THEN "ended" ELSE "open"]
        /\ active' = IF refused THEN active - 1 ELSE active
  /\ rank' = [rank EXCEPT ![s] = 0]
  /\ UNCHANGED <<closer, closing, sUser, stale, found, userVars, users, lock, down, contested>>

\* The read loop returns: its deferred Close waits for a Close that is under
\* way, then the session is forgotten and its place given back.
End(s) ==
  /\ pc[s] \in {"open", "ready"} /\ closer[s] = "closed"
  /\ pc' = [pc EXCEPT ![s] = "ended"] /\ active' = active - 1
  /\ UNCHANGED <<closer, closing, sUser, stale, found, userVars, rank, users, lock, down, contested>>

-----------------------------------------------------------------------------
(* Close                                                                   *)

\* closeOnce: whoever comes first closes done and the socket.
Closed(s) == [closer EXCEPT ![s] = IF @ = "none" THEN "closing" ELSE @]

Admitted(s) == pc[s] \notin {"idle", "accepted", "ended"}

\* The read loop fails (end of stream, bad frame, heartbeat), the write loop
\* fails, a full send buffer, or a kick that does not keep the room.  The write
\* loop runs beside an authentication, so it can happen at any time.
ConnectionLost(s) ==
  /\ Admitted(s) /\ closer[s] = "none"
  /\ closer' = Closed(s)
  /\ UNCHANGED <<pc, closing, sUser, stale, found, userVars, connVars, users, lock, down, contested>>

\* AdminDisconnect(true), through the session the user has now.
AdminKeep(s) ==
  /\ users # NoOne /\ uSession[users] = s /\ Admitted(s) /\ closer[s] = "none"
  /\ closer' = [closer EXCEPT ![s] = "keeping"]
  /\ UNCHANGED <<pc, closing, sUser, stale, found, userVars, connVars, users, lock, down, contested>>

Bound(s) == sUser[s] # NoOne /\ uSession[sUser[s]] = s

DetachKeepRoom(s) ==
  /\ closer[s] = "keeping" /\ MuFree
  /\ closer' = [closer EXCEPT ![s] = "closed"]
  /\ IF Bound(s) THEN SetSession(sUser[s], NoOne) ELSE UNCHANGED userVars
  /\ UNCHANGED <<pc, closing, sUser, stale, found, connVars, users, lock, down, contested>>

\* cleanup up to SetSession(nil); a session that was replaced or never
\* authenticated has nothing to clean up.
Cleanup(s) ==
  /\ closer[s] = "closing" /\ MuFree
  /\ IF Bound(s)
     THEN /\ closer' = [closer EXCEPT ![s] = "cleaning"] /\ lock' = s
          /\ SetSession(sUser[s], NoOne)
     ELSE closer' = [closer EXCEPT ![s] = "closed"] /\ UNCHANGED <<lock, userVars>>
  /\ UNCHANGED <<pc, closing, sUser, stale, found, connVars, users, down, contested>>

\* Banned, no grace, or the server closes: the user goes at once.
CleanupRemove(s) ==
  /\ closer[s] = "cleaning"
  /\ RemoveUser(sUser[s])
  /\ closer' = [closer EXCEPT ![s] = "closed"] /\ lock' = NoOne
  /\ UNCHANGED <<pc, closing, sUser, stale, found, connVars, down, contested>>

CleanupDangle_NoTimer(s) ==
  /\ closer[s] = "cleaning" /\ s \notin closing
  /\ uToken' = [uToken EXCEPT ![sUser[s]] = s]
  /\ closer' = [closer EXCEPT ![s] = "closed"] /\ lock' = NoOne
  /\ UNCHANGED <<pc, closing, sUser, stale, found, uSession, uTimer, timer, connVars,
                 users, down, contested>>

\* Otherwise it dangles: MarkDangle under the lock.
CleanupDangle(s) ==
  /\ closer[s] = "cleaning" /\ s \notin closing
  /\ uToken' = [uToken EXCEPT ![sUser[s]] = s]
  /\ closer' = [closer EXCEPT ![s] = "arming"] /\ lock' = NoOne
  /\ UNCHANGED <<pc, closing, sUser, stale, found, uSession, uTimer, timer, connVars,
                 users, down, contested>>

\* AfterFunc and SetDangleTimer follow outside the lock.
Arm(s) ==
  /\ closer[s] = "arming"
  /\ closer' = [closer EXCEPT ![s] = "closed"]
  /\ timer' = [timer EXCEPT ![s] = "armed"] /\ uTimer' = [uTimer EXCEPT ![sUser[s]] = s]
  /\ UNCHANGED <<pc, closing, sUser, stale, found, uSession, uToken, connVars, users,
                 lock, down, contested>>

Fire(s) ==
  /\ timer[s] = "armed" /\ timer' = [timer EXCEPT ![s] = "fired"]
  /\ UNCHANGED <<sessVars, uSession, uToken, uTimer, connVars, users, lock, down, contested>>

\* processDangle: the user is removed if somebody is registered under its id
\* and it still dangles.
ProcessDangle(s) ==
  /\ timer[s] = "fired" /\ MuFree
  /\ IF users # NoOne /\ IsStillDangling(sUser[s], s)
     THEN /\ users' = NoOne
          /\ timer' = [Stopped(sUser[s]) EXCEPT ![s] = "over"]
          /\ uTimer' = [uTimer EXCEPT ![sUser[s]] = NoOne]
          /\ uToken' = [uToken EXCEPT ![sUser[s]] = NoOne]
     ELSE timer' = [timer EXCEPT ![s] = "over"] /\ UNCHANGED <<users, uTimer, uToken>>
  /\ UNCHANGED <<sessVars, uSession, connVars, lock, down, contested>>

-----------------------------------------------------------------------------
(* Authentication                                                          *)

\* onCommand gives an Authenticate to a session without a user; frames already
\* read are handled although the session has been closed in the meantime.
Authenticate(s) ==
  /\ pc[s] = "open" /\ sUser[s] = NoOne
  /\ pc' = [pc EXCEPT ![s] = "fetching"]
  /\ UNCHANGED <<closer, closing, sUser, stale, found, userVars, connVars, users,
                 lock, down, contested>>

\* A token of more than 32 bytes, a failed fetch, or maintenance for somebody
\* who is not online.
FailAuth(s) ==
  /\ pc[s] = "fetching"
  /\ pc' = [pc EXCEPT ![s] = "open"] /\ closer' = Closed(s)
  /\ UNCHANGED <<closing, sUser, stale, found, userVars, connVars, users, lock, down, contested>>

Others(o, s) == IF uSession[o] = s THEN NoOne ELSE uSession[o]

Reconnect_NoKick(s) ==
  /\ pc[s] = "fetching" /\ MuFree /\ users # NoOne
  /\ stale' = stale
  /\ SetSession(users, s) /\ sUser' = [sUser EXCEPT ![s] = users]
  /\ pc' = [pc EXCEPT ![s] = "kick"]
  /\ UNCHANGED <<closer, closing, found, connVars, users, lock, down, contested>>

\* First phase, the account is online or dangling: bind under the lock.
Reconnect(s) ==
  /\ pc[s] = "fetching" /\ MuFree /\ users # NoOne
  /\ stale' = [stale EXCEPT ![s] = Others(users, s)]
  /\ SetSession(users, s) /\ sUser' = [sUser EXCEPT ![s] = users]
  /\ pc' = [pc EXCEPT ![s] = "kick"]
  /\ UNCHANGED <<closer, closing, found, connVars, users, lock, down, contested>>

\* First phase, nobody is registered: a new User, outside the lock.
NewUser(s) ==
  /\ pc[s] = "fetching" /\ MuFree /\ users = NoOne
  /\ SetSession(s, s)
  /\ pc' = [pc EXCEPT ![s] = "register"]
  /\ UNCHANGED <<closer, closing, sUser, stale, found, connVars, users, lock, down, contested>>

Register_NoRecheck(s) ==
  /\ pc[s] = "register" /\ MuFree
  /\ users' = s /\ sUser' = [sUser EXCEPT ![s] = s]
  /\ pc' = [pc EXCEPT ![s] = "ready"]
  /\ UNCHANGED <<closer, closing, stale, found, userVars, connVars, lock, down, contested>>

\* Second phase: register, unless somebody did so since.
Register(s) ==
  /\ pc[s] = "register" /\ MuFree
  /\ IF users = NoOne
     THEN /\ users' = s /\ sUser' = [sUser EXCEPT ![s] = s]
          /\ pc' = [pc EXCEPT ![s] = "ready"] /\ UNCHANGED <<stale, found>>
     ELSE /\ stale' = [stale EXCEPT ![s] = Others(users, s)]
          /\ found' = [found EXCEPT ![s] = users]
          /\ pc' = [pc EXCEPT ![s] = "takeover"] /\ UNCHANGED <<users, sUser>>
  /\ UNCHANGED <<closer, closing, userVars, connVars, lock, down, contested>>

\* The lock has been let go by the time the found user is bound; the user made
\* in the first phase is dropped.
Takeover(s) ==
  /\ pc[s] = "takeover"
  /\ uSession' = [uSession EXCEPT ![s] = NoOne, ![found[s]] = s]
  /\ timer' = Stopped(found[s]) /\ uTimer' = [uTimer EXCEPT ![found[s]] = NoOne]
  /\ uToken' = [uToken EXCEPT ![found[s]] = NoOne]
  /\ sUser' = [sUser EXCEPT ![s] = found[s]]
  /\ found' = [found EXCEPT ![s] = NoOne]
  /\ pc' = [pc EXCEPT ![s] = "kick"] /\ contested' = contested \cup {found[s]}
  /\ UNCHANGED <<closer, closing, stale, connVars, users, lock, down>>

\* Close the session that was replaced and wait for it, then answer.
Kick(s) ==
  /\ pc[s] = "kick"
  /\ IF stale[s] = NoOne \/ closer[stale[s]] = "closed"
     THEN pc' = [pc EXCEPT ![s] = "ready"] /\ stale' = [stale EXCEPT ![s] = NoOne] /\ UNCHANGED closer
     ELSE closer[stale[s]] = "none" /\ closer' = Closed(stale[s]) /\ UNCHANGED <<pc, stale>>
  /\ UNCHANGED <<closing, sUser, found, userVars, connVars, users, lock, down, contested>>

-----------------------------------------------------------------------------
(* Shutdown                                                                *)

\* Server.Close: no more connections from now on.
Shutdown ==
  /\ ~down /\ down' = TRUE
  /\ UNCHANGED <<sessVars, userVars, connVars, users, lock, contested>>

\* closeForShutdown, for each session the registry holds.
CloseForShutdown(s) ==
  /\ down /\ MuFree /\ Admitted(s) /\ s \notin closing
  /\ closing' = closing \cup {s}
  /\ IF sUser[s] = NoOne THEN UNCHANGED <<timer, uTimer>>
     ELSE timer' = Stopped(sUser[s]) /\ uTimer' = [uTimer EXCEPT ![sUser[s]] = NoOne]
  /\ closer' = Closed(s)
  /\ UNCHANGED <<pc, sUser, stale, found, uSession, uToken, connVars, users, lock, down, contested>>

Admission(s) == Count(s) \/ End(s) \/ \E limited \in BOOLEAN : Judge(s, limited)
Closing(s) ==
  \/ ConnectionLost(s) \/ AdminKeep(s) \/ DetachKeepRoom(s) \/ Cleanup(s)
  \/ CleanupDangle(s) \/ CleanupRemove(s)
Grace(s) == Arm(s) \/ Fire(s) \/ ProcessDangle(s)
Authentication(s) ==
  \/ Authenticate(s) \/ FailAuth(s) \/ Reconnect(s) \/ NewUser(s) \/ Register(s)
  \/ Takeover(s) \/ Kick(s)

SessionNext ==
  \/ \E s \in Sessions :
       Admission(s) \/ Closing(s) \/ Grace(s) \/ Authentication(s) \/ CloseForShutdown(s)
  \/ Shutdown

\* Goroutines go on and timers fire; a mutex is handed to a starving waiter.
SessionFairness ==
  \A s \in Sessions :
    /\ WF_sVars(Arm(s)) /\ WF_sVars(Fire(s)) /\ SF_sVars(ProcessDangle(s))
    /\ WF_sVars(CleanupDangle(s) \/ CleanupRemove(s))

SessionSpec == SessionInit /\ [][SessionNext]_sVars /\ SessionFairness
-----------------------------------------------------------------------------
(* Properties.  The first two exempt objects bound by Takeover, outside    *)
(* the lock: such an object may be unregistered while it is being bound.   *)

\* A session whose user has moved to another session is being closed, or the
\* session that took its place is about to close it: no two sessions go on
\* speaking for one user (handleAuthenticate, Close).
OldSessionIsKicked ==
  \A s \in Sessions :
    sUser[s] # NoOne /\ sUser[s] \notin contested /\ ~Bound(s) /\ closer[s] = "none" =>
      \E k \in Sessions : pc[k] = "kick" /\ stale[k] = s

Registered(s) == users = sUser[s]

\* The user of a bound session is the one registered under its id: neither a
\* late timer nor the cleanup of an older session unregisters a user who is
\* connected (removeUser deletes by id).
ConnectedIsRegistered ==
  contested = {} => \A s \in Sessions : Bound(s) => Registered(s)

\* Places are counted exactly, through refusals of either kind and sessions that
\* end in any order, and the limit holds although both accept loops count first
\* and judge later (admit, acceptLoop).
PlacesCounted ==
  /\ active = Cardinality({s \in Sessions : pc[s] \notin {"idle", "ended"}})
  /\ MaxConnections >= 1 => Cardinality({s \in Sessions : Admitted(s)}) <= MaxConnections

\* A registered user with a dangle token has a grace timer that will remove it: the
\* timer is not lost in the gap between MarkDangle and SetDangleTimer, nor when a
\* late SetDangleTimer overwrites a newer timer.  A shutdown stops the timers on
\* purpose (cleanup); detachKeepRoom leaves a registered user without a token.
DanglerHasTimer ==
  users # NoOne /\ uToken[users] # NoOne /\ ~down =>
    \E s \in Sessions :
      sUser[s] = users /\ (closer[s] = "arming" \/ timer[s] \in {"armed", "fired"})
=============================================================================
