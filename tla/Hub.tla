--------------------------------- MODULE Hub ---------------------------------
(***************************************************************************)
(* The room server: ServerState.Rooms, the room objects, the users and     *)
(* their room, and every operation on them, from the client commands       *)
(* (dispatch_*.go, hub_room_ops.go), the connection life cycle             *)
(* (session_auth.go, session_dangle.go), the two room timers               *)
(* (timer_*.go) and the administrator's console and HTTP routes.           *)
(*                                                                         *)
(* Locks.  A command holds state.Mu, except Played (and Touches, Judges),  *)
(* which holds only its room's Mu - also while it fetches the record from  *)
(* the Phira API.  So a Played is two steps, inflight says who is between  *)
(* them, and what needs that room's Mu waits (RoomFree) while commands     *)
(* that hold only state.Mu go on.  DisbandRoom is a loop under both locks: *)
(* disbanding names the room until it is through, and everything that      *)
(* needs state.Mu waits (StateFree).                                       *)
(*                                                                         *)
(* A room object is distinct from its id: ids are reused, and a user, a    *)
(* timer or a goroutine may keep the pointer of a room that is no longer   *)
(* registered.  An object is allocated afresh when nothing points to it.   *)
(***************************************************************************)
EXTENDS Room

CONSTANTS Ptr,          \* addresses of room objects
          Monitors,     \* MONITORS: who may join as a monitor
          MaxRooms,     \* MAX_ROOMS, 0 for no limit
          PlayingGrace  \* PLAYING_RECONNECT_GRACE > 0

ASSUME PtrAssumption == None \notin Ptr
ASSUME ConfigAssumption ==
  Monitors \subseteq User /\ MaxRooms \in Nat /\ PlayingGrace \in BOOLEAN

VARIABLES rooms,       \* ServerState.Rooms
          obj,         \* the room objects
          uroom,       \* User.Room
          umon,        \* User.Monitor
          conn,        \* absent: not in ServerState.Users; online; dangling:
                       \* disconnected, grace timer running; kept: kicked by
                       \* an administrator who preserves the room
          inflight,    \* the room whose Mu the user's Played holds
          disbanding,  \* the room DisbandRoom is working on
          policy       \* the administrators' switches and bans

vars == <<rooms, obj, uroom, umon, conn, inflight, disbanding, policy>>

TypeOK ==
  /\ rooms \in [RoomId -> Ptr \cup {None}]
  /\ obj \in [Ptr -> RoomType]
  /\ uroom \in [User -> Ptr \cup {None}]
  /\ umon \in [User -> BOOLEAN]
  /\ conn \in [User -> {"absent", "online", "dangling", "kept"}]
  /\ inflight \in [User -> Ptr \cup {None}]
  /\ disbanding \in Ptr \cup {None}
  /\ policy \in [maintenance : BOOLEAN, creation : BOOLEAN, replay : BOOLEAN,
                 banned : SUBSET User, roomBanned : [RoomId -> SUBSET User]]

\* The switches of a server that has just been started with the defaults.
Policy0 ==
  [maintenance |-> FALSE, creation |-> TRUE, replay |-> FALSE,
   banned |-> {}, roomBanned |-> [i \in RoomId |-> {}]]

Init ==
  /\ rooms = [i \in RoomId |-> None]
  /\ obj = [p \in Ptr |-> Unused]
  /\ uroom = [u \in User |-> None]
  /\ umon = [u \in User |-> FALSE]
  /\ conn = [u \in User |-> "absent"]
  /\ inflight = [u \in User |-> None]
  /\ disbanding = None
  /\ policy = Policy0

Registered(p) == \E i \in RoomId : rooms[i] = p

StateFree == disbanding = None

RoomFree(p) == disbanding # p /\ \A u \in User : inflight[u] # p

\* Nothing refers to the object: its memory can be used for a new room.
Unreachable(p) ==
  /\ ~Registered(p) /\ disbanding # p
  /\ \A u \in User : uroom[u] # p /\ inflight[u] # p
  /\ ~obj[p].readyArmed /\ obj[p].readyLate = "none"
  /\ ~obj[p].playArmed /\ obj[p].playLate = "none"
  /\ obj[p].pending = {}

\* A session reads a command when the one before has been answered.
Acts(u) == conn[u] = "online" /\ inflight[u] = None

\* A command of u that holds state.Mu and finds u in a room (RequireRoom).
InRoom(u) == StateFree /\ Acts(u) /\ uroom[u] # None

\* DisbandRoom up to its loop: both timers are cancelled.
BeginDisband(r) == CancelPlayDeadline(CancelReadyCountdown(r))

\* The room changes to r; if that ended a contest round, it is disbanded.
Advance(p, r, disband) ==
  /\ obj' = [obj EXCEPT ![p] = IF disband THEN BeginDisband(r) ELSE r]
  /\ disbanding' = IF disband THEN p ELSE disbanding

Playing(u) == uroom[u] # None /\ obj[uroom[u]].phase = "play"

-----------------------------------------------------------------------------
(* Connections *)

\* handleAuthenticate for a user who is not registered.
Connect(u) ==
  /\ StateFree /\ conn[u] = "absent" /\ ~policy.maintenance
  /\ conn' = [conn EXCEPT ![u] = "online"]
  /\ UNCHANGED <<rooms, obj, uroom, umon, inflight, disbanding, policy>>

\* handleAuthenticate for a registered user: the room is kept.
Reconnect(u) ==
  /\ StateFree /\ conn[u] \in {"dangling", "kept"}
  /\ uroom[u] # None => RoomFree(uroom[u])
  /\ conn' = [conn EXCEPT ![u] = "online"]
  /\ UNCHANGED <<rooms, obj, uroom, umon, inflight, disbanding, policy>>

\* What OnUserLeave does to the tables, for whoever calls it for u.
LeavesRoom(u, refresh) ==
  LET p == uroom[u]
      r == obj[p]
      s == OnUserLeave(r, u, umon[u])
      drop == ShouldDrop(r, u, umon[u])
  IN  /\ Advance(p, IF refresh /\ ~drop THEN RefreshLive(s, policy.replay)
                    ELSE s,
                 LeaveDisbands(r, u, umon[u]))
      /\ rooms' = IF drop THEN [rooms EXCEPT ![r.id] = None] ELSE rooms
      /\ uroom' = [uroom EXCEPT ![u] = None]

\* removeUser: out of the room and out of ServerState.Users; a later login
\* makes a new User, which is no monitor.
RemoveUser(u) ==
  /\ IF uroom[u] = None
     THEN UNCHANGED <<rooms, obj, uroom, disbanding>>
     ELSE RoomFree(uroom[u]) /\ LeavesRoom(u, FALSE)
  /\ conn' = [conn EXCEPT ![u] = "absent"]
  /\ umon' = [umon EXCEPT ![u] = FALSE]
  /\ UNCHANGED <<inflight, policy>>

\* cleanup of a closed session, without and with the grace period.
NoGrace(u) == u \in policy.banned \/ (Playing(u) /\ ~PlayingGrace)

Disconnect(u) ==
  /\ StateFree /\ conn[u] = "online" /\ NoGrace(u)
  /\ RemoveUser(u)

Dangle(u) ==
  /\ StateFree /\ conn[u] = "online" /\ ~NoGrace(u)
  /\ uroom[u] # None => RoomFree(uroom[u])
  /\ conn' = [conn EXCEPT ![u] = "dangling"]
  /\ UNCHANGED <<rooms, obj, uroom, umon, inflight, disbanding, policy>>

\* processDangle when the grace period is over.
ProcessDangle(u) ==
  /\ StateFree /\ conn[u] = "dangling"
  /\ RemoveUser(u)

-----------------------------------------------------------------------------
(* Client commands *)

RoomLimitReached ==
  MaxRooms >= 1 /\ Cardinality({j \in RoomId : rooms[j] # None}) >= MaxRooms

CreateRoom(u, i, p) ==
  /\ StateFree /\ Acts(u)
  /\ u \notin policy.banned /\ ~policy.maintenance /\ policy.creation
  /\ uroom[u] = None /\ rooms[i] = None
  /\ ~RoomLimitReached
  /\ Unreachable(p)
  /\ obj' = [obj EXCEPT ![p] = NewRoom(i, u, policy.replay)]
  /\ rooms' = [rooms EXCEPT ![i] = p]
  /\ uroom' = [uroom EXCEPT ![u] = p]
  /\ UNCHANGED <<umon, conn, inflight, disbanding, policy>>

JoinRoom(u, i, mon) ==
  /\ StateFree /\ Acts(u)
  /\ u \notin policy.banned /\ ~policy.maintenance
  /\ uroom[u] = None /\ u \notin policy.roomBanned[i] /\ rooms[i] # None
  /\ LET p == rooms[i]
         r == obj[p]
     IN  /\ RoomFree(p)
         /\ ValidateJoin(r, u, mon, u \in Monitors) /\ CanAdd(r, u, mon)
         /\ obj' = [obj EXCEPT ![p] =
                      RefreshLive(HandleJoin(AddUser(r, u, mon), u, mon),
                                  policy.replay)]
         /\ uroom' = [uroom EXCEPT ![u] = p]
         /\ umon' = [umon EXCEPT ![u] = mon]
  /\ UNCHANGED <<rooms, conn, inflight, disbanding, policy>>

LeaveRoom(u) ==
  /\ InRoom(u) /\ RoomFree(uroom[u])
  /\ LeavesRoom(u, TRUE)
  /\ UNCHANGED <<umon, conn, inflight, policy>>

LockRoom(u, b) ==
  /\ InRoom(u) /\ obj[uroom[u]].host = u
  /\ obj' = [obj EXCEPT ![uroom[u]].locked = b]
  /\ UNCHANGED <<rooms, uroom, umon, conn, inflight, disbanding, policy>>

CycleRoom(u, b) ==
  /\ InRoom(u) /\ obj[uroom[u]].host = u
  /\ obj' = [obj EXCEPT ![uroom[u]].cycle = b]
  /\ UNCHANGED <<rooms, uroom, umon, conn, inflight, disbanding, policy>>

\* handleSelectChart fetches the chart while it holds state.Mu.
SelectChart(u) ==
  /\ InRoom(u)
  /\ obj[uroom[u]].host = u /\ obj[uroom[u]].phase = "select"
  /\ obj' = [obj EXCEPT ![uroom[u]].chart = TRUE]
  /\ UNCHANGED <<rooms, uroom, umon, conn, inflight, disbanding, policy>>

\* handleRequestStart, handleReady, handleCancelReady: none of the states
\* they leave can end a contest round.
Waits(u) ==
  /\ InRoom(u)
  /\ LET r == obj[uroom[u]]
     IN  \/ /\ CanRequestStart(r, u)
            /\ obj' = [obj EXCEPT ![uroom[u]] = RequestStart(r, u)]
         \/ /\ CanReady(r, u)
            /\ obj' = [obj EXCEPT ![uroom[u]] = Ready(r, u)]
         \/ /\ CanCancelReady(r, u)
            /\ obj' = [obj EXCEPT ![uroom[u]] = CancelReady(r, u)]
  /\ UNCHANGED <<rooms, uroom, umon, conn, inflight, disbanding, policy>>

\* handleAbort holds state.Mu and not the room's.
AbortRound(u) ==
  /\ InRoom(u)
  /\ LET p == uroom[u]
         r == obj[p]
     IN  /\ Unfinished(r, u)
         /\ Advance(p, Abort(r, u), Disbands(Aborted(r, u)))
  /\ UNCHANGED <<rooms, uroom, umon, conn, inflight, policy>>

\* handlePlayed up to FetchRecord: who is done is answered at once.
PlayedFetch(u) ==
  /\ Acts(u) /\ uroom[u] # None /\ RoomFree(uroom[u])
  /\ obj[uroom[u]].phase = "play" => Unfinished(obj[uroom[u]], u)
  /\ inflight' = [inflight EXCEPT ![u] = uroom[u]]
  /\ UNCHANGED <<rooms, obj, uroom, umon, conn, disbanding, policy>>

\* handlePlayed after FetchRecord; ok is FALSE for a failed fetch, another
\* player's record or another chart's.
PlayedStore(u, ok) ==
  /\ inflight[u] # None
  /\ LET p == inflight[u]
     IN  obj' = IF ok /\ obj[p].phase = "play"
                THEN [obj EXCEPT ![p] = StoreResult(obj[p], u)] ELSE obj
  /\ inflight' = [inflight EXCEPT ![u] = None]
  /\ UNCHANGED <<rooms, uroom, umon, conn, disbanding, policy>>

-----------------------------------------------------------------------------
(* Timers: the callback checks its context without a lock, then waits for
   state.Mu and the room's, and does not check again.  One late callback
   per timer is kept. *)

ReadyFires(p) ==
  /\ obj[p].readyArmed /\ obj[p].readyLate = "none"
  /\ obj' = [obj EXCEPT ![p].readyArmed = FALSE, ![p].readyLate = "current"]
  /\ UNCHANGED <<rooms, uroom, umon, conn, inflight, disbanding, policy>>

\* Mutant: there is a room under the id, whichever.
StillMapped_Any(p) == obj[p].id \in RoomId /\ rooms[obj[p].id] # None

\* Whether who kept the pointer p finds that room under its id.
StillMapped(p) == obj[p].id \in RoomId /\ rooms[obj[p].id] = p

ReadyExpires(p) ==
  /\ StateFree /\ obj[p].readyLate # "none"
  /\ StillMapped(p) => RoomFree(p)
  /\ LET r == [obj[p] EXCEPT !.readyLate = "none"]
     IN  obj' = [obj EXCEPT ![p] =
                   IF StillMapped(p) /\ r.phase = "wait"
                   THEN ForceStart(r) ELSE r]
  /\ UNCHANGED <<rooms, uroom, umon, conn, inflight, disbanding, policy>>

DeadlineFires(p) ==
  /\ obj[p].playArmed /\ obj[p].playLate = "none"
  /\ obj' = [obj EXCEPT ![p].playArmed = FALSE, ![p].playLate = "current"]
  /\ UNCHANGED <<rooms, uroom, umon, conn, inflight, disbanding, policy>>

DeadlineExpires(p) ==
  /\ StateFree /\ obj[p].playLate # "none"
  /\ StillMapped(p) => RoomFree(p)
  /\ LET r == [obj[p] EXCEPT !.playLate = "none"]
         s == ExpirePlay(r)
     IN  IF StillMapped(p) /\ r.phase = "play"
         THEN Advance(p, CheckAllReady(s), Disbands(s))
         ELSE Advance(p, r, FALSE)
  /\ UNCHANGED <<rooms, uroom, umon, conn, inflight, policy>>

-----------------------------------------------------------------------------
(* DisbandRoom *)

\* The members the loop still has to send away: the test compares room ids.
ToLeave(p) ==
  {u \in Participants(obj[p]) :
     uroom[u] # None /\ obj[uroom[u]].id = obj[p].id}

DisbandLeave(u) ==
  /\ disbanding # None
  /\ LET p == disbanding
     IN  /\ \A v \in User : inflight[v] # p
         /\ u \in ToLeave(p)
         /\ obj' = [obj EXCEPT ![p] = OnUserLeave(obj[p], u, umon[u])]
  /\ uroom' = [uroom EXCEPT ![u] = None]
  /\ UNCHANGED <<rooms, umon, conn, inflight, disbanding, policy>>

\* delete(state.Rooms, room.ID), whichever room has that id.
DisbandEnd ==
  /\ disbanding # None
  /\ \A v \in User : inflight[v] # disbanding
  /\ ToLeave(disbanding) = {}
  /\ rooms' = [rooms EXCEPT ![obj[disbanding].id] = None]
  /\ disbanding' = None
  /\ UNCHANGED <<obj, uroom, umon, conn, inflight, policy>>

\* The goroutine of handlePlayed compares pointers; the tail of
\* abortPlayingAndCheck does not.
DisbandPending(p, how) ==
  /\ StateFree /\ how \in obj[p].pending
  /\ LET r == [obj[p] EXCEPT !.pending = @ \ {how}]
     IN  Advance(p, r, how = "unchecked" \/ StillMapped(p))
  /\ UNCHANGED <<rooms, uroom, umon, conn, inflight, policy>>

-----------------------------------------------------------------------------
(* Administrator operations *)

\* An operation on a registered room that holds its Mu.
OnRoom(i) == rooms[i] # None /\ RoomFree(rooms[i])

AdminDisband(i) ==
  /\ StateFree /\ rooms[i] # None
  /\ Advance(rooms[i], obj[rooms[i]], TRUE)
  /\ UNCHANGED <<rooms, uroom, umon, conn, inflight, policy>>

SetRoomLocked(i, b) ==
  /\ OnRoom(i)
  /\ obj' = [obj EXCEPT ![rooms[i]].locked = b]
  /\ UNCHANGED <<rooms, uroom, umon, conn, inflight, disbanding, policy>>

SetRoomCycle(i, b) ==
  /\ OnRoom(i)
  /\ obj' = [obj EXCEPT ![rooms[i]].cycle = b]
  /\ UNCHANGED <<rooms, uroom, umon, conn, inflight, disbanding, policy>>

SetMaxUsers(i, n) ==
  /\ OnRoom(i)
  /\ obj' = [obj EXCEPT ![rooms[i]].max = n]
  /\ UNCHANGED <<rooms, uroom, umon, conn, inflight, disbanding, policy>>

TransferHost(i, u) ==
  /\ OnRoom(i)
  /\ u \in obj[rooms[i]].users /\ obj[rooms[i]].host # u
  /\ obj' = [obj EXCEPT ![rooms[i]].host = u, ![rooms[i]].nextHost = None]
  /\ UNCHANGED <<rooms, uroom, umon, conn, inflight, disbanding, policy>>

\* cmdNextHost: only a cycling room has a next host.
SetNextHost(i, u) ==
  /\ OnRoom(i) /\ obj[rooms[i]].cycle /\ u \in obj[rooms[i]].users
  /\ obj' = [obj EXCEPT ![rooms[i]].nextHost = u]
  /\ UNCHANGED <<rooms, uroom, umon, conn, inflight, disbanding, policy>>

EnableContest(i, ids) ==
  /\ StateFree /\ OnRoom(i)
  /\ LET r == obj[rooms[i]]
     IN  obj' = [obj EXCEPT ![rooms[i]] =
                   [r EXCEPT !.contest = TRUE,
                             !.whitelist = ContestWhitelist(r, ids)]]
  /\ UNCHANGED <<rooms, uroom, umon, conn, inflight, disbanding, policy>>

DisableContest(i) ==
  /\ StateFree /\ OnRoom(i)
  /\ obj' = [obj EXCEPT ![rooms[i]].contest = FALSE,
                        ![rooms[i]].whitelist = {}]
  /\ UNCHANGED <<rooms, uroom, umon, conn, inflight, disbanding, policy>>

SetContestWhitelist(i, ids) ==
  /\ StateFree /\ OnRoom(i) /\ obj[rooms[i]].contest
  /\ obj' = [obj EXCEPT ![rooms[i]].whitelist =
                           ContestWhitelist(obj[rooms[i]], ids)]
  /\ UNCHANGED <<rooms, uroom, umon, conn, inflight, disbanding, policy>>

StartContest(i, force) ==
  /\ StateFree /\ OnRoom(i) /\ CanStartContest(obj[rooms[i]], force)
  /\ obj' = [obj EXCEPT ![rooms[i]] = StartPlaying(obj[rooms[i]])]
  /\ UNCHANGED <<rooms, uroom, umon, conn, inflight, disbanding, policy>>

\* cmdKick with preserve, in its two critical sections.
KickAbort(u) ==
  /\ conn[u] = "online" /\ uroom[u] # None /\ RoomFree(uroom[u])
  /\ LET p == uroom[u]
         r == obj[p]
         s == Abort(r, u)
     IN  /\ Unfinished(r, u)
         /\ obj' = [obj EXCEPT ![p] =
                      IF Disbands(Aborted(r, u))
                      THEN [s EXCEPT !.pending = @ \cup {"unchecked"}]
                      ELSE s]
  /\ UNCHANGED <<rooms, uroom, umon, conn, inflight, disbanding, policy>>

\* The step is a kick that ends a contest round: it leaves a disband to be done.
KickEndsContest == \E p \in Ptr : "unchecked" \in obj'[p].pending

KickDetach(u) ==
  /\ StateFree /\ conn[u] = "online"
  /\ conn' = [conn EXCEPT ![u] = "kept"]
  /\ UNCHANGED <<rooms, obj, uroom, umon, inflight, disbanding, policy>>

\* MoveUser: into the target, out of the source, then the user's fields.
MoveUser(u, i, mon) ==
  /\ StateFree /\ conn[u] \in {"dangling", "kept"}
  /\ uroom[u] # None /\ rooms[i] # None /\ RoomFree(uroom[u])
  /\ LET p == uroom[u]
         q == rooms[i]
         o == [obj EXCEPT ![q] = AddUser(obj[q], u, mon)]
     IN  /\ obj[p].phase = "select" /\ obj[q].phase = "select"
         /\ ValidateJoin(obj[q], u, mon, u \in Monitors)
         /\ CanAdd(obj[q], u, mon)
         /\ obj' = [o EXCEPT ![p] = OnUserLeave(o[p], u, umon[u])]
         /\ rooms' = IF ShouldDrop(o[p], u, umon[u])
                     THEN [rooms EXCEPT ![o[p].id] = None] ELSE rooms
         /\ uroom' = [uroom EXCEPT ![u] = q]
         /\ umon' = [umon EXCEPT ![u] = mon]
  /\ UNCHANGED <<conn, inflight, disbanding, policy>>

\* Bans, maintenance, room creation and the replay switch (ReloadConfig).
SetPolicy(new) ==
  /\ StateFree
  /\ policy' = new
  /\ obj' = [p \in Ptr |->
               IF new.replay # policy.replay /\ Registered(p)
               THEN RefreshLive(obj[p], new.replay) ELSE obj[p]]
  /\ UNCHANGED <<rooms, uroom, umon, conn, inflight, disbanding>>

Administer ==
  \/ \E b \in BOOLEAN :
       \/ SetPolicy([policy EXCEPT !.maintenance = b])
       \/ SetPolicy([policy EXCEPT !.creation = b])
       \/ SetPolicy([policy EXCEPT !.replay = b])
  \/ \E u \in User :
       \/ SetPolicy([policy EXCEPT !.banned = @ \cup {u}])
       \/ SetPolicy([policy EXCEPT !.banned = @ \ {u}])
  \/ \E u \in User, i \in RoomId :
       \/ SetPolicy([policy EXCEPT !.roomBanned[i] = @ \cup {u}])
       \/ SetPolicy([policy EXCEPT !.roomBanned[i] = @ \ {u}])

-----------------------------------------------------------------------------
ConnectionNext ==
  \E u \in User :
    Connect(u) \/ Reconnect(u) \/ Disconnect(u) \/ Dangle(u)
      \/ ProcessDangle(u)

MembershipNext ==
  \E u \in User :
    \/ LeaveRoom(u)
    \/ \E i \in RoomId :
         \/ \E p \in Ptr : CreateRoom(u, i, p)
         \/ \E mon \in BOOLEAN : JoinRoom(u, i, mon)

RoundNext ==
  \E u \in User :
    \/ SelectChart(u) \/ Waits(u) \/ AbortRound(u) \/ PlayedFetch(u)
    \/ \E ok \in BOOLEAN : PlayedStore(u, ok)

SwitchNext == \E u \in User, b \in BOOLEAN : LockRoom(u, b) \/ CycleRoom(u, b)

TimerNext ==
  \E p \in Ptr :
    ReadyFires(p) \/ ReadyExpires(p) \/ DeadlineFires(p) \/ DeadlineExpires(p)

DisbandNext ==
  \/ \E u \in User : DisbandLeave(u)
  \/ DisbandEnd
  \/ \E p \in Ptr, how \in {"checked", "unchecked"} : DisbandPending(p, how)

\* What players and the clock do.
ClientNext ==
  ConnectionNext \/ MembershipNext \/ RoundNext \/ SwitchNext \/ TimerNext

ContestNext ==
  \E i \in RoomId :
    \/ DisableContest(i)
    \/ \E ids \in SUBSET User : EnableContest(i, ids)
                                  \/ SetContestWhitelist(i, ids)
    \/ \E force \in BOOLEAN : StartContest(i, force)

\* Console commands and HTTP routes on a room, and on a user in a room.
RoomAdminNext ==
  \E i \in RoomId :
    \/ AdminDisband(i)
    \/ \E b \in BOOLEAN : SetRoomLocked(i, b) \/ SetRoomCycle(i, b)
    \/ \E n \in 1 .. Cardinality(User) : SetMaxUsers(i, n)
    \/ \E u \in User : TransferHost(i, u) \/ SetNextHost(i, u)

UserAdminNext ==
  \E u \in User :
    \/ KickAbort(u) \/ KickDetach(u)
    \/ \E i \in RoomId, mon \in BOOLEAN : MoveUser(u, i, mon)

AdminNext == RoomAdminNext \/ UserAdminNext \/ Administer

Next == ClientNext \/ DisbandNext \/ ContestNext \/ AdminNext

Spec == Init /\ [][Next]_vars

ClientSpec == Init /\ [][ClientNext]_vars

-----------------------------------------------------------------------------
(* Safety *)

\* A registered room that is not being disbanded.
Open(p) == Registered(p) /\ disbanding # p

\* Every registered room is found under its own id and is hosted by one of
\* its players, whatever sequence of leaves, expired grace periods, cycle
\* rotations, transfers and moves led there (OnUserLeave, rotateCycleHost,
\* TransferHost): without it nobody could start a round.
RegisteredHost ==
  \A i \in RoomId :
    rooms[i] # None =>
      /\ obj[rooms[i]].id = i
      /\ disbanding # rooms[i] => obj[rooms[i]].host \in obj[rooms[i]].users

\* A score that was handed in is settled: no open room stays in a round that
\* all its players have finished while it holds a result (checkPlaying is
\* called by every handler that finishes or removes a player).
ResultsSettled ==
  \A p \in Ptr :
    (Open(p) /\ obj[p].phase = "play" /\ AllFinished(obj[p]))
      => obj[p].results = {}

\* Outside contest mode, a room that waits for its players has a countdown
\* that will end the wait, across leaves, host changes and reconnects
\* (startReadyCountdown).
WaitHasCountdown ==
  \A p \in Ptr :
    (Open(p) /\ obj[p].phase = "wait")
      => obj[p].readyArmed \/ obj[p].readyLate = "current"

\* Outside contest mode, a round with a result has a deadline that will end
\* it (startPlayDeadline on the first result).
ResultHasDeadline ==
  \A p \in Ptr :
    (Open(p) /\ obj[p].phase = "play" /\ obj[p].results # {})
      => obj[p].playArmed \/ obj[p].playLate = "current"

\* The two directions of membership agree: a room's player list and the
\* users' own Room field (the pointers a leave, a kick or a disband follows).
MembershipAgrees ==
  /\ \A p \in Ptr : Registered(p) =>
       /\ \A u \in obj[p].users : uroom[u] = p /\ ~umon[u]
       /\ \A u \in obj[p].monitors : uroom[u] = p /\ umon[u]
  /\ \A u \in User : uroom[u] # None => Registered(uroom[u])

\* Nobody is on the player list of two rooms, or of a room that is not the
\* user's own: whatever moves, leaves and disbands led there, a list entry is
\* always the user's current room (AddUser and user.Room are set together,
\* OnUserLeave resets both).
MembersPointBack ==
  \A p \in Ptr : \A u \in obj[p].users : uroom[u] = p

\* A room leaves the table only when nobody is in it, neither on its list of
\* players nor by his own Room field: rooms are dropped and disbanded by id,
\* also late, by a goroutine or after a kick, when the id may already be
\* another room's (DisbandRoom, dispatchLeaveRoom, the goroutine of
\* handlePlayed, abortPlayingAndCheck).
NobodyIsStranded ==
  [][\A p \in Ptr :
       (Registered(p) /\ ~Registered(p)')
         => obj'[p].users = {} /\ \A u \in User : uroom'[u] # p
    ]_vars

\* A round is over only when its remaining players are done: a step that
\* settles it finds at most one of them (the one who acts) unfinished, unless
\* the deadline callback ran out.
RoundEndsWhenDone ==
  [][\A p \in Ptr :
       (Open(p) /\ obj[p].phase = "play" /\ obj'[p].phase = "select")
         => \/ obj[p].playLate # "none"
            \/ \E v \in User :
                 obj'[p].users \ {v} \subseteq obj[p].results \cup obj[p].aborted
    ]_vars

\* Whoever watches gets what he watches, and what is to be recorded is: a
\* room with a monitor, or with a recording to be made, has its live flag set,
\* so that its players send their touches - through joins, leaves, grace
\* periods and disbands of other members and changes of the replay switch
\* (RefreshLive and its callers).
WatchedIsLive ==
  \A p \in Ptr :
    Registered(p) /\ (obj[p].monitors # {} \/ (policy.replay /\ obj[p].eligible))
      => obj[p].live

-----------------------------------------------------------------------------
(* Liveness.  The Go runtime fires an armed timer; a callback or handler that
   waits for a sync.Mutex gets it although others keep taking it (starvation
   mode), hence strong fairness; a record fetch ends by its 20 s timeout.
   Nothing is assumed of the players. *)

Fairness ==
  /\ \A p \in Ptr :
       /\ WF_vars(ReadyFires(p)) /\ SF_vars(ReadyExpires(p))
       /\ WF_vars(DeadlineFires(p)) /\ SF_vars(DeadlineExpires(p))
  /\ \A u \in User : WF_vars(\E ok \in BOOLEAN : PlayedStore(u, ok))

FairClientSpec == ClientSpec /\ Fairness

\* The wait for ready players always ends, even if the host or everybody who
\* was asked goes silent (forced start after readyCountdownDuration).
WaitEnds ==
  \A p \in Ptr :
    (Open(p) /\ obj[p].phase = "wait")
      ~> ~(Open(p) /\ obj[p].phase = "wait")

\* A round somebody finished always ends: a player who stays silent or away
\* is given up after playDeadlineDuration.
ScoredRoundEnds ==
  \A p \in Ptr :
    (Open(p) /\ obj[p].phase = "play" /\ obj[p].results # {})
      ~> ~(Open(p) /\ obj[p].phase = "play")
=============================================================================
