--------------------------- MODULE SessionProofs ---------------------------
(***************************************************************************)
(* The properties of Session, for any number of connections.  The          *)
(* inductive invariant says who can refer to which User object: an object  *)
(* belongs to nobody before its session has registered it, the lock        *)
(* belongs to the cleanup that detached a user, and a grace timer that an  *)
(* object refers to was started for that object.                           *)
(***************************************************************************)
EXTENDS Session, FiniteSetTheorems, TLAPS

\* A session that has not been bound yet: no user, and its own object, if it
\* has made one, is known to nobody.
Unbound == {"idle", "accepted", "open", "fetching", "register", "takeover"}

Identity ==
  \A s \in Sessions :
    /\ pc[s] \in Unbound =>
         /\ sUser[s] = NoOne /\ users # s /\ uToken[s] = NoOne
         /\ \A t \in Sessions : sUser[t] # s /\ found[t] # s
    /\ pc[s] = "register" => uSession[s] = s
    /\ pc[s] = "takeover" => found[s] # NoOne
    /\ closer[s] \in {"cleaning", "arming"} => sUser[s] # NoOne
    /\ timer[s] # "none" => sUser[s] # NoOne

\* state.Mu is held between detaching a user and deciding its fate.
LockHeld == \A s \in Sessions : closer[s] = "cleaning" <=> lock = s

\* An object refers to a timer that was started for it.
OwnTimers == \A o \in Sessions : uTimer[o] # NoOne => sUser[uTimer[o]] = o

\* As long as no object was bound outside the lock, who dangles, who is being
\* cleaned up and who is connected is the registered user, one of them at a time.
OneUser ==
  contested = {} =>
    /\ \A s \in Sessions : Bound(s) => Registered(s)
    /\ \A o \in Sessions : uToken[o] # NoOne => users = o /\ uSession[o] = NoOne
    /\ \A s \in Sessions : closer[s] = "cleaning" => Registered(s) /\ uSession[sUser[s]] = NoOne

\* Who was counted among the first MaxConnections, judged or not.
Counted == {s \in Sessions : pc[s] \notin {"idle", "ended"}}
Granted == {s \in Sessions : Admitted(s) \/ (pc[s] = "accepted" /\ rank[s] <= MaxConnections)}

Places ==
  /\ IsFiniteSet(Counted) /\ active = Cardinality(Counted)
  /\ MaxConnections >= 1 => Cardinality(Granted) <= MaxConnections

SInv == SessionTypeOK /\ Identity /\ LockHeld /\ OwnTimers
-----------------------------------------------------------------------------
(* Places *)

\* Whoever is counted is in a finite set, and so is whoever holds a place.
LEMMA PlacesInit == SessionInit => Places
<1> SUFFICES ASSUME SessionInit PROVE Places
  OBVIOUS
<1>1. Counted = {} /\ Granted = {}
  BY DEF SessionInit, Counted, Granted, Admitted
<1> QED
  BY <1>1, FS_EmptySet, LimitAssumption DEF Places, SessionInit

\* A connection is counted, let in or sent away, and ends: the count follows,
\* and a place that was judged free when the connection was counted stays its.
LEMMA PlacesStep ==
  ASSUME pc \in [Sessions -> {"idle", "accepted", "open", "fetching", "register",
                              "takeover", "kick", "ready", "ended"}],
         rank \in [Sessions -> Nat],
         Places, SessionNext
  PROVE  Places' /\ active' \in Nat
<1>1. /\ active \in Nat
      /\ Granted \subseteq Counted
      /\ IsFiniteSet(Granted) /\ Cardinality(Granted) \in Nat
  <2>1. Granted \subseteq Counted
    BY DEF Granted, Counted, Admitted
  <2> QED
    BY <2>1, FS_CardinalityType, FS_Subset DEF Places
<1>2. ASSUME Counted' = Counted, Granted' \subseteq Granted, active' = active
      PROVE  Places' /\ active' \in Nat
  BY <1>1, <1>2, FS_Subset, FS_CardinalityType, LimitAssumption DEF Places
<1>3. ASSUME NEW s \in Counted, Counted' = Counted \ {s}, Granted' \subseteq Granted,
             active' = active - 1
      PROVE  Places' /\ active' \in Nat
  <2>1. IsFiniteSet(Counted') /\ Cardinality(Counted') = Cardinality(Counted) - 1
    BY <1>3, FS_RemoveElement DEF Places
  <2>2. Cardinality(Counted') \in Nat
    BY <2>1, FS_CardinalityType
  <2>3. Cardinality(Granted') <= Cardinality(Granted) /\ Cardinality(Granted') \in Nat
    BY <1>1, <1>3, FS_Subset, FS_CardinalityType
  <2> QED
    BY <1>1, <1>3, <2>1, <2>2, <2>3, LimitAssumption DEF Places
<1>4. ASSUME NEW s \in Sessions, Count(s)
      PROVE  Places' /\ active' \in Nat
  <2>1. s \notin Counted /\ Counted' = Counted \cup {s}
    BY <1>4 DEF Count, Counted
  <2>2. IsFiniteSet(Counted') /\ Cardinality(Counted') = Cardinality(Counted) + 1
    BY <2>1, FS_AddElement DEF Places
  <2>3. active' = Cardinality(Counted') /\ active' \in Nat
    BY <1>1, <1>4, <2>2 DEF Places, Count
  <2>4. ASSUME MaxConnections >= 1 PROVE Cardinality(Granted') <= MaxConnections
    <3>1. CASE active + 1 <= MaxConnections
      <4>1. Granted' \subseteq Counted'
        BY DEF Granted, Counted, Admitted
      <4> QED
        BY <1>1, <2>2, <2>3, <3>1, <4>1, FS_Subset, FS_CardinalityType, LimitAssumption, <1>4 DEF Count
    <3>2. CASE ~(active + 1 <= MaxConnections)
      <4>1. Granted' = Granted
        BY <1>1, <1>4, <3>2, LimitAssumption DEF Count, Granted, Admitted
      <4> QED
        BY <2>4, <4>1 DEF Places
    <3> QED
      BY <3>1, <3>2
  <2> QED
    BY <2>2, <2>3, <2>4 DEF Places
<1>5. ASSUME NEW s \in Sessions, NEW limited \in BOOLEAN, Judge(s, limited)
      PROVE  Places' /\ active' \in Nat
  <2>1. s \in Counted
    BY <1>5 DEF Judge, Counted
  <2>2. CASE TooMany(s) \/ limited
    BY <1>3, <1>5, <2>1, <2>2 DEF Judge, Counted, Granted, Admitted
  <2>3. CASE ~(TooMany(s) \/ limited)
    <3>1. Counted' = Counted /\ active' = active
      BY <1>5, <2>3 DEF Judge, Counted
    <3>2. ASSUME MaxConnections >= 1 PROVE Granted' = Granted
      BY <1>5, <2>3, <3>2, LimitAssumption DEF Judge, Granted, Admitted, TooMany
    <3> QED
      BY <1>1, <3>1, <3>2 DEF Places
  <2> QED
    BY <2>2, <2>3
<1>6. ASSUME NEW s \in Sessions, End(s)
      PROVE  Places' /\ active' \in Nat
  BY <1>3, <1>6 DEF End, Counted, Granted, Admitted
<1>7. ASSUME NEW s \in Sessions, Closing(s) \/ Grace(s) \/ CloseForShutdown(s)
      PROVE  Places' /\ active' \in Nat
  <2>1. UNCHANGED <<pc, active, rank>>
    BY <1>7 DEF Closing, Grace, CloseForShutdown, ConnectionLost, AdminKeep, DetachKeepRoom,
       Cleanup, CleanupDangle, CleanupRemove, Arm, Fire, ProcessDangle, connVars, sessVars
  <2> QED
    BY <1>2, <2>1 DEF Counted, Granted, Admitted
<1>8. ASSUME NEW s \in Sessions, Authentication(s)
      PROVE  Places' /\ active' \in Nat
  <2>1. /\ UNCHANGED <<active, rank>>
        /\ \E q \in {"open", "fetching", "register", "takeover", "kick", "ready"} :
             pc' = [pc EXCEPT ![s] = q]
        /\ pc[s] \notin {"idle", "accepted", "ended"}
    BY <1>8 DEF Authentication, Authenticate, FailAuth, Reconnect, NewUser, Register, Takeover,
       Kick, connVars
  <2> QED
    BY <1>2, <2>1 DEF Counted, Granted, Admitted
<1>9. CASE Shutdown
  BY <1>2, <1>9 DEF Shutdown, connVars, sessVars, Counted, Granted, Admitted
<1> QED
  BY <1>4, <1>5, <1>6, <1>7, <1>8, <1>9 DEF SessionNext, Admission

-----------------------------------------------------------------------------
(* Who knows whom *)

\* The invariant holds at the start.
LEMMA SInvInit == SessionInit => SInv
<1> SUFFICES ASSUME SessionInit PROVE SInv
  OBVIOUS
<1>1. Nobody \in [Sessions -> Sessions \cup {NoOne}] /\ \A s \in Sessions : Nobody[s] = NoOne
  BY DEF Nobody
<1>2. SessionTypeOK
  BY <1>1 DEF SessionInit, SessionTypeOK
<1>3. Identity /\ LockHeld /\ OwnTimers
  BY <1>1, SessionsAssumption DEF SessionInit, Identity, LockHeld, OwnTimers, Unbound
<1> QED
  BY <1>2, <1>3 DEF SInv

\* Every step keeps it.
LEMMA SInvStep ==
  ASSUME SInv, SessionNext, active' \in Nat
  PROVE  SInv'
<1> USE SessionsAssumption DEF SInv, SessionTypeOK, Identity, LockHeld, OwnTimers, Unbound, userVars, connVars, sessVars, MuFree
<1>1. ASSUME NEW s \in Sessions, Count(s) PROVE SInv'
  BY <1>1 DEF Count
<1>2. ASSUME NEW s \in Sessions, NEW b \in BOOLEAN, Judge(s, b) PROVE SInv'
  BY <1>2 DEF Judge, TooMany
<1>3. ASSUME NEW s \in Sessions, End(s) PROVE SInv'
  BY <1>3 DEF End
<1>4. ASSUME NEW s \in Sessions, ConnectionLost(s) PROVE SInv'
  BY <1>4 DEF ConnectionLost, Closed, Admitted
<1>5. ASSUME NEW s \in Sessions, AdminKeep(s) PROVE SInv'
  BY <1>5 DEF AdminKeep, Admitted
<1>6. ASSUME NEW s \in Sessions, DetachKeepRoom(s) PROVE SInv'
  BY <1>6 DEF DetachKeepRoom, Bound, SetSession, Stopped
<1>7. ASSUME NEW s \in Sessions, Cleanup(s) PROVE SInv'
  BY <1>7 DEF Cleanup, Bound, SetSession, Stopped
<1>8. ASSUME NEW s \in Sessions, CleanupDangle(s) PROVE SInv'
  BY <1>8 DEF CleanupDangle
<1>9. ASSUME NEW s \in Sessions, CleanupRemove(s) PROVE SInv'
  BY <1>9 DEF CleanupRemove, RemoveUser, Stopped
<1>10. ASSUME NEW s \in Sessions, Arm(s) PROVE SInv'
  BY <1>10 DEF Arm
<1>11. ASSUME NEW s \in Sessions, Fire(s) PROVE SInv'
  BY <1>11 DEF Fire
<1>12. ASSUME NEW s \in Sessions, ProcessDangle(s) PROVE SInv'
  <2>1. CASE users # NoOne /\ IsStillDangling(sUser[s], s)
    <3>1. sUser[s] \in Sessions
      BY <1>12 DEF ProcessDangle
    <3>2. /\ timer' \in [Sessions -> {"none", "armed", "fired", "over"}]
          /\ \A t \in Sessions : timer'[t] # "none" => timer[t] # "none"
      <4>1. Stopped(sUser[s]) \in [Sessions -> {"none", "armed", "fired", "over"}]
        BY DEF Stopped
      <4>2. \A t \in Sessions : Stopped(sUser[s])[t] # "none" => timer[t] # "none"
        BY DEF Stopped
      <4>3. timer[s] = "fired" /\ timer' = [Stopped(sUser[s]) EXCEPT ![s] = "over"]
        BY <1>12, <2>1 DEF ProcessDangle
      <4> QED
        BY <4>1, <4>2, <4>3
    <3>3. /\ users' = NoOne /\ UNCHANGED <<sessVars, uSession, connVars, lock, down, contested>>
          /\ uTimer' = [uTimer EXCEPT ![sUser[s]] = NoOne]
          /\ uToken' = [uToken EXCEPT ![sUser[s]] = NoOne]
      BY <1>12, <2>1 DEF ProcessDangle
    <3> QED
      BY <3>1, <3>2, <3>3
  <2>2. CASE ~(users # NoOne /\ IsStillDangling(sUser[s], s))
    BY <1>12, <2>2 DEF ProcessDangle
  <2> QED
    BY <2>1, <2>2
<1>13. ASSUME NEW s \in Sessions, Authenticate(s) PROVE SInv'
  BY <1>13 DEF Authenticate
<1>14. ASSUME NEW s \in Sessions, FailAuth(s) PROVE SInv'
  BY <1>14 DEF FailAuth, Closed
<1>15. ASSUME NEW s \in Sessions, Reconnect(s) PROVE SInv'
  BY <1>15 DEF Reconnect, SetSession, Stopped, Others
<1>16. ASSUME NEW s \in Sessions, NewUser(s) PROVE SInv'
  BY <1>16 DEF NewUser, SetSession, Stopped
<1>17. ASSUME NEW s \in Sessions, Register(s) PROVE SInv'
  BY <1>17 DEF Register, Others
<1>18. ASSUME NEW s \in Sessions, Takeover(s) PROVE SInv'
  BY <1>18 DEF Takeover, Stopped
<1>19. ASSUME NEW s \in Sessions, Kick(s) PROVE SInv'
  BY <1>19 DEF Kick, Closed
<1>20. ASSUME NEW s \in Sessions, CloseForShutdown(s) PROVE SInv'
  BY <1>20 DEF CloseForShutdown, Closed, Stopped, Admitted
<1>21. CASE Shutdown
  BY <1>21 DEF Shutdown
<1> QED
  BY <1>1, <1>2, <1>3, <1>4, <1>5, <1>6, <1>7, <1>8, <1>9, <1>10, <1>11, <1>12, <1>13, <1>14, <1>15, <1>16, <1>17, <1>18, <1>19, <1>20, <1>21 DEF SessionNext, Admission, Closing, Grace, Authentication

-----------------------------------------------------------------------------
(* The three properties of a user and its sessions *)

\* Under the lock, the one user of the account is connected, or being cleaned
\* up, or dangles; whoever unregisters it finds it in one of the last two.
LEMMA OneUserStep ==
  ASSUME SInv, OneUser, SessionNext
  PROVE  OneUser'
<1> USE SessionsAssumption DEF SInv, SessionTypeOK, Identity, LockHeld, OwnTimers, Unbound, userVars,
        connVars, sessVars, MuFree, OneUser, Bound, Registered
<1>1. ASSUME NEW s \in Sessions, Count(s) PROVE OneUser'
  BY <1>1 DEF Count
<1>2. ASSUME NEW s \in Sessions, NEW limited \in BOOLEAN, Judge(s, limited) PROVE OneUser'
  BY <1>2 DEF Judge, TooMany
<1>3. ASSUME NEW s \in Sessions, End(s) PROVE OneUser'
  BY <1>3 DEF End
<1>4. ASSUME NEW s \in Sessions, ConnectionLost(s) PROVE OneUser'
  BY <1>4 DEF ConnectionLost, Closed, Admitted
<1>5. ASSUME NEW s \in Sessions, AdminKeep(s) PROVE OneUser'
  BY <1>5 DEF AdminKeep, Admitted
<1>6. ASSUME NEW s \in Sessions, DetachKeepRoom(s) PROVE OneUser'
  BY <1>6 DEF DetachKeepRoom, SetSession, Stopped
<1>7. ASSUME NEW s \in Sessions, Cleanup(s) PROVE OneUser'
  BY <1>7 DEF Cleanup, SetSession, Stopped
<1>8. ASSUME NEW s \in Sessions, CleanupDangle(s) PROVE OneUser'
  BY <1>8 DEF CleanupDangle
<1>9. ASSUME NEW s \in Sessions, CleanupRemove(s) PROVE OneUser'
  BY <1>9 DEF CleanupRemove, RemoveUser, Stopped
<1>10. ASSUME NEW s \in Sessions, Arm(s) PROVE OneUser'
  BY <1>10 DEF Arm
<1>11. ASSUME NEW s \in Sessions, Fire(s) PROVE OneUser'
  BY <1>11 DEF Fire
<1>12. ASSUME NEW s \in Sessions, ProcessDangle(s) PROVE OneUser'
  BY <1>12 DEF ProcessDangle, IsStillDangling, Stopped
<1>13. ASSUME NEW s \in Sessions, Authenticate(s) PROVE OneUser'
  BY <1>13 DEF Authenticate
<1>14. ASSUME NEW s \in Sessions, FailAuth(s) PROVE OneUser'
  BY <1>14 DEF FailAuth, Closed
<1>15. ASSUME NEW s \in Sessions, Reconnect(s) PROVE OneUser'
  BY <1>15 DEF Reconnect, SetSession, Stopped, Others
<1>16. ASSUME NEW s \in Sessions, NewUser(s) PROVE OneUser'
  BY <1>16 DEF NewUser, SetSession, Stopped
<1>17. ASSUME NEW s \in Sessions, Register(s) PROVE OneUser'
  BY <1>17 DEF Register, Others
<1>18. ASSUME NEW s \in Sessions, Takeover(s) PROVE OneUser'
  BY <1>18 DEF Takeover, Stopped
<1>19. ASSUME NEW s \in Sessions, Kick(s) PROVE OneUser'
  BY <1>19 DEF Kick, Closed
<1>20. ASSUME NEW s \in Sessions, CloseForShutdown(s) PROVE OneUser'
  BY <1>20 DEF CloseForShutdown, Closed, Stopped, Admitted
<1>21. CASE Shutdown
  BY <1>21 DEF Shutdown
<1> QED
  BY <1>1, <1>2, <1>3, <1>4, <1>5, <1>6, <1>7, <1>8, <1>9, <1>10, <1>11,
     <1>12, <1>13, <1>14, <1>15, <1>16, <1>17, <1>18, <1>19, <1>20, <1>21 DEF SessionNext, Admission, Closing, Grace, Authentication

\* Whoever binds a user to itself remembers the session it replaced until that
\* one is closed.
LEMMA KickedStep ==
  ASSUME SInv, OldSessionIsKicked, SessionNext
  PROVE  OldSessionIsKicked'
<1> USE SessionsAssumption DEF SInv, SessionTypeOK, Identity, LockHeld, OwnTimers, Unbound, userVars,
        connVars, sessVars, MuFree, OldSessionIsKicked, Bound
<1>1. ASSUME NEW s \in Sessions, Count(s) PROVE OldSessionIsKicked'
  BY <1>1 DEF Count
<1>2. ASSUME NEW s \in Sessions, NEW limited \in BOOLEAN, Judge(s, limited) PROVE OldSessionIsKicked'
  BY <1>2 DEF Judge, TooMany
<1>3. ASSUME NEW s \in Sessions, End(s) PROVE OldSessionIsKicked'
  BY <1>3 DEF End
<1>4. ASSUME NEW s \in Sessions, ConnectionLost(s) PROVE OldSessionIsKicked'
  BY <1>4 DEF ConnectionLost, Closed, Admitted
<1>5. ASSUME NEW s \in Sessions, AdminKeep(s) PROVE OldSessionIsKicked'
  BY <1>5 DEF AdminKeep, Admitted
<1>6. ASSUME NEW s \in Sessions, DetachKeepRoom(s) PROVE OldSessionIsKicked'
  BY <1>6 DEF DetachKeepRoom, SetSession, Stopped
<1>7. ASSUME NEW s \in Sessions, Cleanup(s) PROVE OldSessionIsKicked'
  BY <1>7 DEF Cleanup, SetSession, Stopped
<1>8. ASSUME NEW s \in Sessions, CleanupDangle(s) PROVE OldSessionIsKicked'
  BY <1>8 DEF CleanupDangle
<1>9. ASSUME NEW s \in Sessions, CleanupRemove(s) PROVE OldSessionIsKicked'
  BY <1>9 DEF CleanupRemove, RemoveUser, Stopped
<1>10. ASSUME NEW s \in Sessions, Arm(s) PROVE OldSessionIsKicked'
  BY <1>10 DEF Arm
<1>11. ASSUME NEW s \in Sessions, Fire(s) PROVE OldSessionIsKicked'
  BY <1>11 DEF Fire
<1>12. ASSUME NEW s \in Sessions, ProcessDangle(s) PROVE OldSessionIsKicked'
  BY <1>12 DEF ProcessDangle, IsStillDangling, Stopped
<1>13. ASSUME NEW s \in Sessions, Authenticate(s) PROVE OldSessionIsKicked'
  BY <1>13 DEF Authenticate
<1>14. ASSUME NEW s \in Sessions, FailAuth(s) PROVE OldSessionIsKicked'
  BY <1>14 DEF FailAuth, Closed
<1>15. ASSUME NEW s \in Sessions, Reconnect(s) PROVE OldSessionIsKicked'
  BY <1>15 DEF Reconnect, SetSession, Stopped, Others
<1>16. ASSUME NEW s \in Sessions, NewUser(s) PROVE OldSessionIsKicked'
  BY <1>16 DEF NewUser, SetSession, Stopped
<1>17. ASSUME NEW s \in Sessions, Register(s) PROVE OldSessionIsKicked'
  BY <1>17 DEF Register, Others
<1>18. ASSUME NEW s \in Sessions, Takeover(s) PROVE OldSessionIsKicked'
  BY <1>18 DEF Takeover, Stopped
<1>19. ASSUME NEW s \in Sessions, Kick(s) PROVE OldSessionIsKicked'
  BY <1>19 DEF Kick, Closed
<1>20. ASSUME NEW s \in Sessions, CloseForShutdown(s) PROVE OldSessionIsKicked'
  BY <1>20 DEF CloseForShutdown, Closed, Stopped, Admitted
<1>21. CASE Shutdown
  BY <1>21 DEF Shutdown
<1> QED
  BY <1>1, <1>2, <1>3, <1>4, <1>5, <1>6, <1>7, <1>8, <1>9, <1>10, <1>11,
     <1>12, <1>13, <1>14, <1>15, <1>16, <1>17, <1>18, <1>19, <1>20, <1>21 DEF SessionNext, Admission, Closing, Grace, Authentication

\* A timer is stopped together with the token it stands for, and a callback that
\* finds a token removes the user.
LEMMA DanglerStep ==
  ASSUME SInv, DanglerHasTimer, SessionNext
  PROVE  DanglerHasTimer'
<1> USE SessionsAssumption DEF SInv, SessionTypeOK, Identity, LockHeld, OwnTimers, Unbound, userVars,
        connVars, sessVars, MuFree, DanglerHasTimer
<1>1. ASSUME NEW s \in Sessions, Count(s) PROVE DanglerHasTimer'
  BY <1>1 DEF Count
<1>2. ASSUME NEW s \in Sessions, NEW limited \in BOOLEAN, Judge(s, limited) PROVE DanglerHasTimer'
  BY <1>2 DEF Judge, TooMany
<1>3. ASSUME NEW s \in Sessions, End(s) PROVE DanglerHasTimer'
  BY <1>3 DEF End
<1>4. ASSUME NEW s \in Sessions, ConnectionLost(s) PROVE DanglerHasTimer'
  BY <1>4 DEF ConnectionLost, Closed, Admitted
<1>5. ASSUME NEW s \in Sessions, AdminKeep(s) PROVE DanglerHasTimer'
  BY <1>5 DEF AdminKeep, Admitted
<1>6. ASSUME NEW s \in Sessions, DetachKeepRoom(s) PROVE DanglerHasTimer'
  BY <1>6 DEF DetachKeepRoom, Bound, SetSession, Stopped
<1>7. ASSUME NEW s \in Sessions, Cleanup(s) PROVE DanglerHasTimer'
  BY <1>7 DEF Cleanup, Bound, SetSession, Stopped
<1>8. ASSUME NEW s \in Sessions, CleanupDangle(s) PROVE DanglerHasTimer'
  BY <1>8 DEF CleanupDangle
<1>9. ASSUME NEW s \in Sessions, CleanupRemove(s) PROVE DanglerHasTimer'
  BY <1>9 DEF CleanupRemove, RemoveUser, Stopped
<1>10. ASSUME NEW s \in Sessions, Arm(s) PROVE DanglerHasTimer'
  BY <1>10 DEF Arm
<1>11. ASSUME NEW s \in Sessions, Fire(s) PROVE DanglerHasTimer'
  BY <1>11 DEF Fire
<1>12. ASSUME NEW s \in Sessions, ProcessDangle(s) PROVE DanglerHasTimer'
  BY <1>12 DEF ProcessDangle, IsStillDangling, Stopped
<1>13. ASSUME NEW s \in Sessions, Authenticate(s) PROVE DanglerHasTimer'
  BY <1>13 DEF Authenticate
<1>14. ASSUME NEW s \in Sessions, FailAuth(s) PROVE DanglerHasTimer'
  BY <1>14 DEF FailAuth, Closed
<1>15. ASSUME NEW s \in Sessions, Reconnect(s) PROVE DanglerHasTimer'
  BY <1>15 DEF Reconnect, SetSession, Stopped, Others
<1>16. ASSUME NEW s \in Sessions, NewUser(s) PROVE DanglerHasTimer'
  BY <1>16 DEF NewUser, SetSession, Stopped
<1>17. ASSUME NEW s \in Sessions, Register(s) PROVE DanglerHasTimer'
  BY <1>17 DEF Register, Others
<1>18. ASSUME NEW s \in Sessions, Takeover(s) PROVE DanglerHasTimer'
  BY <1>18 DEF Takeover, Stopped
<1>19. ASSUME NEW s \in Sessions, Kick(s) PROVE DanglerHasTimer'
  BY <1>19 DEF Kick, Closed
<1>20. ASSUME NEW s \in Sessions, CloseForShutdown(s) PROVE DanglerHasTimer'
  BY <1>20 DEF CloseForShutdown, Closed, Stopped, Admitted
<1>21. CASE Shutdown
  BY <1>21 DEF Shutdown
<1> QED
  BY <1>1, <1>2, <1>3, <1>4, <1>5, <1>6, <1>7, <1>8, <1>9, <1>10, <1>11,
     <1>12, <1>13, <1>14, <1>15, <1>16, <1>17, <1>18, <1>19, <1>20, <1>21 DEF SessionNext, Admission, Closing, Grace, Authentication
-----------------------------------------------------------------------------
(* Theorems *)

\* The common part: the invariant and the places, which give active its type.
LEMMA Safe == SessionSpec => [](SInv /\ Places)
<1>1. SessionInit => SInv /\ Places
  BY SInvInit, PlacesInit
<1>2. SInv /\ Places /\ [SessionNext]_sVars => SInv' /\ Places'
  <2> SUFFICES ASSUME SInv, Places, [SessionNext]_sVars PROVE SInv' /\ Places'
    OBVIOUS
  <2>1. CASE SessionNext
    BY <2>1, PlacesStep, SInvStep DEF SInv, SessionTypeOK
  <2>2. CASE UNCHANGED sVars
    BY <2>2 DEF sVars, sessVars, userVars, connVars, SInv, SessionTypeOK, Identity, LockHeld,
       OwnTimers, Places, Counted, Granted, Admitted
  <2> QED
    BY <2>1, <2>2
<1> QED
  BY <1>1, <1>2, PTL DEF SessionSpec

\* activeConns is the number of connections that were counted and have not
\* ended, and MAX_CONNECTIONS holds for those that were let in (admit, acceptLoop).
THEOREM PlacesAreCounted == SessionSpec => []PlacesCounted
<1>1. SInv /\ Places => PlacesCounted
  <2> SUFFICES ASSUME Places PROVE PlacesCounted
    OBVIOUS
  <2>1. Counted \in SUBSET Sessions /\ Granted \in SUBSET Counted
    BY DEF Granted, Counted, Admitted
  <2>2. {s \in Sessions : Admitted(s)} \in SUBSET Granted
    BY DEF Granted
  <2>3. IsFiniteSet(Granted) /\ IsFiniteSet({s \in Sessions : Admitted(s)})
    BY <2>1, <2>2, FS_Subset DEF Places
  <2>4. /\ Cardinality(Granted) \in Nat /\ Cardinality({s \in Sessions : Admitted(s)}) \in Nat
        /\ Cardinality({s \in Sessions : Admitted(s)}) <= Cardinality(Granted)
    BY <2>2, <2>3, FS_Subset, FS_CardinalityType
  <2> QED
    BY <2>4, LimitAssumption DEF Places, PlacesCounted, Counted
<1> QED
  BY <1>1, Safe, PTL

\* A session that lost its user to another one is closed or about to be
\* (handleAuthenticate, Close).
THEOREM ReplacedIsKicked == SessionSpec => []OldSessionIsKicked
<1>1. SessionInit => OldSessionIsKicked
  BY DEF SessionInit, Nobody, OldSessionIsKicked
<1>2. SInv /\ OldSessionIsKicked /\ [SessionNext]_sVars => OldSessionIsKicked'
  <2>1. ASSUME OldSessionIsKicked, UNCHANGED sVars PROVE OldSessionIsKicked'
    BY <2>1 DEF sVars, sessVars, userVars, OldSessionIsKicked, Bound
  <2> QED
    BY <2>1, KickedStep
<1> QED
  BY <1>1, <1>2, Safe, PTL DEF SessionSpec

\* A connected user is registered, as long as no second phase of a login bound
\* a user outside the lock (cleanup, processDangle, removeUser).
THEOREM ConnectedStaysRegistered == SessionSpec => []ConnectedIsRegistered
<1>1. SessionInit => OneUser
  BY DEF SessionInit, Nobody, OneUser, Bound
<1>2. SInv /\ OneUser /\ [SessionNext]_sVars => OneUser'
  <2>1. ASSUME OneUser, UNCHANGED sVars PROVE OneUser'
    BY <2>1 DEF sVars, sessVars, userVars, OneUser, Bound, Registered
  <2> QED
    BY <2>1, OneUserStep
<1>3. OneUser => ConnectedIsRegistered
  BY DEF OneUser, ConnectedIsRegistered
<1> QED
  BY <1>1, <1>2, <1>3, Safe, PTL DEF SessionSpec

\* A registered user who holds a dangle token has a grace timer set, fired or about to
\* be set, until the server shuts down (cleanup, SetDangleTimer).  It says nothing of a
\* user whom detachKeepRoom leaves registered with neither token nor session.
THEOREM DanglersAreTimed == SessionSpec => []DanglerHasTimer
<1>1. SessionInit => DanglerHasTimer
  BY DEF SessionInit, Nobody, DanglerHasTimer
<1>2. SInv /\ DanglerHasTimer /\ [SessionNext]_sVars => DanglerHasTimer'
  <2>1. ASSUME DanglerHasTimer, UNCHANGED sVars PROVE DanglerHasTimer'
    BY <2>1 DEF sVars, sessVars, userVars, DanglerHasTimer
  <2> QED
    BY <2>1, DanglerStep
<1> QED
  BY <1>1, <1>2, Safe, PTL DEF SessionSpec
=============================================================================
