------------------------------ MODULE HubProofs ------------------------------
(***************************************************************************)
(* Theorems about Hub for every set of users, rooms, ids and limits.       *)
(***************************************************************************)
EXTENDS Hub, RoomProofs

\* RegisteredHost of a table, a heap and the room being disbanded.
HostedRooms(rs, ob, d) ==
  \A i \in RoomId :
    rs[i] # None =>
      /\ ob[rs[i]].id = i
      /\ d # rs[i] => Hosted(ob[rs[i]])

\* HostedRooms is RegisteredHost with the variables as parameters.
LEMMA RegisteredHostIs == RegisteredHost <=> HostedRooms(rooms, obj, disbanding)
  BY DEF RegisteredHost, HostedRooms, Hosted

\* An object changes and keeps its id and a host.
LEMMA HostedUpdate ==
  ASSUME NEW rs \in [RoomId -> Ptr \cup {None}], NEW ob \in [Ptr -> RoomType],
         NEW d, HostedRooms(rs, ob, d), NEW p \in Ptr, NEW s \in RoomType,
         s.id = ob[p].id, Hosted(ob[p]) => Hosted(s),
         NEW e, e = d \/ (d = None /\ e = p)
  PROVE  /\ [ob EXCEPT ![p] = s] \in [Ptr -> RoomType]
         /\ HostedRooms(rs, [ob EXCEPT ![p] = s], e)
<1>1. [ob EXCEPT ![p] = s] \in [Ptr -> RoomType]
  OBVIOUS
<1>2. ASSUME NEW i \in RoomId, rs[i] # None
      PROVE  /\ [ob EXCEPT ![p] = s][rs[i]].id = i
             /\ e # rs[i] => Hosted([ob EXCEPT ![p] = s][rs[i]])
  <2>1. rs[i] \in Ptr
    BY <1>2
  <2>2. CASE rs[i] = p
    BY <1>2, <2>1, <2>2, PtrAssumption DEF HostedRooms
  <2>3. CASE rs[i] # p
    BY <1>2, <2>1, <2>3, PtrAssumption DEF HostedRooms
  <2> QED
    BY <2>2, <2>3
<1> QED
  BY <1>1, <1>2 DEF HostedRooms

\* An object changes and its id is taken off the table.
LEMMA HostedDrop ==
  ASSUME NEW rs \in [RoomId -> Ptr \cup {None}], NEW ob \in [Ptr -> RoomType],
         NEW d, HostedRooms(rs, ob, d), NEW p \in Ptr, NEW s \in RoomType,
         s.id = ob[p].id, NEW e, e = d \/ (d = None /\ e = p)
  PROVE  /\ [ob EXCEPT ![p] = s] \in [Ptr -> RoomType]
         /\ [rs EXCEPT ![ob[p].id] = None] \in [RoomId -> Ptr \cup {None}]
         /\ HostedRooms([rs EXCEPT ![ob[p].id] = None],
                        [ob EXCEPT ![p] = s], e)
<1>1. [ob EXCEPT ![p] = s] \in [Ptr -> RoomType]
  OBVIOUS
<1>2. [rs EXCEPT ![ob[p].id] = None] \in [RoomId -> Ptr \cup {None}]
  OBVIOUS
<1> DEFINE rn == [rs EXCEPT ![ob[p].id] = None]
<1>3. ASSUME NEW i \in RoomId, rn[i] # None
      PROVE  /\ [ob EXCEPT ![p] = s][rn[i]].id = i
             /\ e # rn[i] => Hosted([ob EXCEPT ![p] = s][rn[i]])
  <2>1. i # ob[p].id /\ rn[i] = rs[i] /\ rs[i] \in Ptr
    BY <1>3
  <2>2. rs[i] # p
    BY <2>1, PtrAssumption DEF HostedRooms
  <2> QED
    BY <2>1, <2>2, PtrAssumption DEF HostedRooms
<1> QED
  BY <1>1, <1>2, <1>3 DEF HostedRooms

-----------------------------------------------------------------------------
(* One step of the inductive argument per way of writing the tables. *)

\* A step that writes one object keeps the heap and the hosts in order.
LEMMA RoomWrite ==
  ASSUME TypeOK, RegisteredHost, NEW p \in Ptr, NEW s \in RoomType,
         s.id = obj[p].id, Hosted(obj[p]) => Hosted(s),
         obj' = [obj EXCEPT ![p] = s], rooms' = rooms,
         disbanding' = disbanding \/ (disbanding = None /\ disbanding' = p)
  PROVE  obj' \in [Ptr -> RoomType] /\ RegisteredHost'
<1>1. HostedRooms(rooms, obj, disbanding)
  BY RegisteredHostIs
<1>2. obj' \in [Ptr -> RoomType] /\ HostedRooms(rooms', obj', disbanding')
  BY <1>1, HostedUpdate DEF TypeOK
<1> QED
  BY <1>2 DEF RegisteredHost, HostedRooms, Hosted

\* A step that writes one object and takes its id off the table.
LEMMA RoomDrop ==
  ASSUME TypeOK, RegisteredHost, NEW p \in Ptr, NEW s \in RoomType,
         s.id = obj[p].id, obj' = [obj EXCEPT ![p] = s],
         rooms' = [rooms EXCEPT ![obj[p].id] = None],
         disbanding' = disbanding \/ (disbanding = None /\ disbanding' = p)
  PROVE  /\ obj' \in [Ptr -> RoomType] /\ RegisteredHost'
         /\ rooms' \in [RoomId -> Ptr \cup {None}]
<1>1. HostedRooms(rooms, obj, disbanding)
  BY RegisteredHostIs
<1>2. /\ obj' \in [Ptr -> RoomType] /\ HostedRooms(rooms', obj', disbanding')
      /\ rooms' \in [RoomId -> Ptr \cup {None}]
  BY <1>1, HostedDrop DEF TypeOK
<1> QED
  BY <1>2 DEF RegisteredHost, HostedRooms, Hosted

\* Advance writes one object and may begin to disband it.
LEMMA AdvanceWrites ==
  ASSUME TypeOK, RegisteredHost, StateFree, NEW p \in Ptr, NEW r \in RoomType,
         r.id = obj[p].id, Hosted(obj[p]) => Hosted(r), NEW b \in BOOLEAN,
         Advance(p, r, b), rooms' = rooms
  PROVE  /\ obj' \in [Ptr -> RoomType] /\ RegisteredHost'
         /\ disbanding' \in Ptr \cup {None}
<1>1. SameRound(r, BeginDisband(r))
  BY TimerFacts DEF BeginDisband, SameRound, Framed
<1> DEFINE s == IF b THEN BeginDisband(r) ELSE r
<1>2. s \in RoomType /\ s.id = obj[p].id /\ (Hosted(obj[p]) => Hosted(s))
  BY <1>1 DEF SameRound, Framed, Hosted
<1>3. obj' = [obj EXCEPT ![p] = s]
  BY DEF Advance
<1>4. disbanding' = disbanding \/ (disbanding = None /\ disbanding' = p)
  BY DEF Advance, StateFree
<1> HIDE DEF s
<1> QED
  BY <1>2, <1>3, <1>4, RoomWrite DEF TypeOK

\* OnUserLeave with what its callers do to the tables.
LEMMA LeavesRoomWrites ==
  ASSUME TypeOK, RegisteredHost, StateFree, NEW u \in User, uroom[u] # None,
         NEW refresh \in BOOLEAN, LeavesRoom(u, refresh)
  PROVE  /\ obj' \in [Ptr -> RoomType] /\ RegisteredHost'
         /\ rooms' \in [RoomId -> Ptr \cup {None}]
         /\ uroom' \in [User -> Ptr \cup {None}]
         /\ disbanding' \in Ptr \cup {None}
<1> DEFINE p == uroom[u]
           r == obj[p]
           l == OnUserLeave(r, u, umon[u])
           drop == ShouldDrop(r, u, umon[u])
           b == LeaveDisbands(r, u, umon[u])
           v == IF refresh /\ ~drop THEN RefreshLive(l, policy.replay) ELSE l
           s == IF b THEN BeginDisband(v) ELSE v
<1>1. p \in Ptr /\ r \in RoomType /\ umon[u] \in BOOLEAN
      /\ policy.replay \in BOOLEAN
  BY DEF TypeOK
<1>2. /\ obj' = [obj EXCEPT ![p] = s]
      /\ disbanding' = IF b THEN p ELSE disbanding
      /\ rooms' = IF drop THEN [rooms EXCEPT ![r.id] = None] ELSE rooms
      /\ uroom' = [uroom EXCEPT ![u] = None]
  BY DEF LeavesRoom, Advance
<1>3. /\ l \in RoomType /\ l.id = r.id
      /\ ~HostLeftAlone(r, u, umon[u]) => (Hosted(r) => Hosted(l))
  <2>1. Departed(r, u, umon[u], l)
    BY <1>1, OnUserLeaveFacts
  <2> HIDE DEF l
  <2> QED
    BY <2>1 DEF Departed
<1>4. ~drop => ~HostLeftAlone(r, u, umon[u])
  BY DEF ShouldDrop
<1> HIDE DEF l, drop
<1>5. SameRound(l, v)
  BY <1>1, <1>3, RefreshLiveFacts DEF SameRound, Framed
<1> HIDE DEF v
<1>6. SameRound(v, s)
  BY <1>5, TimerFacts DEF SameRound, Framed, BeginDisband
<1> HIDE DEF s
<1>7. /\ s \in RoomType /\ s.id = r.id
      /\ ~drop => (Hosted(r) => Hosted(s))
  BY <1>3, <1>4, <1>5, <1>6 DEF SameRound, Framed, Hosted
<1>8. disbanding' = disbanding \/ (disbanding = None /\ disbanding' = p)
  BY <1>2 DEF StateFree
<1> HIDE DEF b
<1>9. uroom' \in [User -> Ptr \cup {None}] /\ disbanding' \in Ptr \cup {None}
  BY <1>1, <1>2 DEF TypeOK
<1> HIDE DEF p
<1>10. CASE drop
  BY <1>1, <1>2, <1>7, <1>8, <1>9, <1>10, RoomDrop
<1>11. CASE ~drop
  BY <1>1, <1>2, <1>7, <1>8, <1>9, <1>11, RoomWrite DEF TypeOK
<1> QED
  BY <1>10, <1>11

-----------------------------------------------------------------------------
(* Every room keeps a host. *)

\* A field of one object that is not its id, host or players changes.
LEMMA FieldWrite ==
  ASSUME TypeOK, RegisteredHost, NEW p \in Ptr, NEW s, Framed(obj[p], s),
         s.host = obj[p].host, obj' = [obj EXCEPT ![p] = s],
         UNCHANGED <<rooms, uroom, umon, conn, inflight, disbanding, policy>>
  PROVE  TypeOK' /\ RegisteredHost'
<1>1. s \in RoomType /\ s.id = obj[p].id /\ (Hosted(obj[p]) => Hosted(s))
  BY DEF Framed, Hosted
<1>2. obj' \in [Ptr -> RoomType] /\ RegisteredHost'
  BY <1>1, RoomWrite
<1> QED
  BY <1>2 DEF TypeOK

\* A step that leaves the rooms alone.
LEMMA NoRoomWrite ==
  ASSUME RegisteredHost, UNCHANGED <<rooms, obj, disbanding>>
  PROVE  RegisteredHost'
  BY DEF RegisteredHost

\* removeUser, whoever calls it.
LEMMA RemoveUserSafe ==
  ASSUME TypeOK, RegisteredHost, StateFree, NEW u \in User, RemoveUser(u)
  PROVE  TypeOK' /\ RegisteredHost'
<1>1. conn' \in [User -> {"absent", "online", "dangling", "kept"}]
      /\ umon' \in [User -> BOOLEAN]
  BY DEF RemoveUser, TypeOK
<1>2. CASE uroom[u] = None
  <2>1. UNCHANGED <<rooms, obj, uroom, disbanding>>
    BY <1>2 DEF RemoveUser
  <2> QED
    BY <1>1, <2>1, NoRoomWrite DEF RemoveUser, TypeOK
<1>3. CASE uroom[u] # None
  <2>1. LeavesRoom(u, FALSE)
    BY <1>3 DEF RemoveUser
  <2> QED
    BY <1>1, <1>3, <2>1, LeavesRoomWrites DEF RemoveUser, TypeOK
<1> QED
  BY <1>2, <1>3

\* Logins, disconnects and expired grace periods keep the invariant.
LEMMA ConnectionSafe ==
  ASSUME TypeOK, RegisteredHost, ConnectionNext
  PROVE  TypeOK' /\ RegisteredHost'
<1>1. PICK u \in User : Connect(u) \/ Reconnect(u) \/ Disconnect(u)
                          \/ Dangle(u) \/ ProcessDangle(u)
  BY DEF ConnectionNext
<1>2. CASE Connect(u)
  BY <1>2, NoRoomWrite DEF Connect, TypeOK
<1>3. CASE Reconnect(u)
  BY <1>3, NoRoomWrite DEF Reconnect, TypeOK
<1>4. CASE Disconnect(u)
  BY <1>4, RemoveUserSafe DEF Disconnect
<1>5. CASE Dangle(u)
  BY <1>5, NoRoomWrite DEF Dangle, TypeOK
<1>6. CASE ProcessDangle(u)
  BY <1>6, RemoveUserSafe DEF ProcessDangle
<1> QED
  BY <1>1, <1>2, <1>3, <1>4, <1>5, <1>6

\* CreateRoom puts a fresh object under a free id.
LEMMA CreateRoomSafe ==
  ASSUME TypeOK, RegisteredHost, NEW u \in User, NEW i \in RoomId,
         NEW p \in Ptr, CreateRoom(u, i, p)
  PROVE  TypeOK' /\ RegisteredHost'
<1> DEFINE n == NewRoom(i, u, policy.replay)
<1>1. policy.replay \in BOOLEAN
  BY DEF TypeOK
<1>2. n \in RoomType /\ n.id = i /\ Hosted(n)
  BY <1>1, NewRoomFacts DEF Hosted
<1>3. /\ obj' = [obj EXCEPT ![p] = n] /\ rooms' = [rooms EXCEPT ![i] = p]
      /\ uroom' = [uroom EXCEPT ![u] = p]
      /\ UNCHANGED <<umon, conn, inflight, disbanding, policy>>
      /\ \A j \in RoomId : rooms[j] # p
  BY DEF CreateRoom, Unreachable, Registered
<1> HIDE DEF n
<1>4. TypeOK'
  BY <1>2, <1>3 DEF TypeOK
<1>5. ASSUME NEW j \in RoomId, rooms'[j] # None
      PROVE  /\ obj'[rooms'[j]].id = j
             /\ disbanding' # rooms'[j] => Hosted(obj'[rooms'[j]])
  <2>1. CASE j = i
    BY <1>2, <1>3, <2>1 DEF TypeOK
  <2>2. CASE j # i
    <3>1. rooms'[j] = rooms[j] /\ rooms[j] \in Ptr /\ rooms[j] # p
      BY <1>3, <1>5, <2>2 DEF TypeOK
    <3>2. obj'[rooms[j]] = obj[rooms[j]]
      BY <1>3, <3>1 DEF TypeOK
    <3> QED
      BY <1>3, <1>5, <3>1, <3>2 DEF RegisteredHost, Hosted
  <2> QED
    BY <2>1, <2>2
<1> QED
  BY <1>4, <1>5 DEF RegisteredHost, Hosted

\* ProcessJoinRoom keeps the invariant.
LEMMA JoinRoomSafe ==
  ASSUME TypeOK, RegisteredHost, NEW u \in User, NEW i \in RoomId,
         NEW mon \in BOOLEAN, JoinRoom(u, i, mon)
  PROVE  TypeOK' /\ RegisteredHost'
<1> DEFINE p == rooms[i]
           r == obj[p]
           replay == policy.replay
           s == Joined(r, u, mon, replay)
<1>1. p \in Ptr /\ r \in RoomType /\ replay \in BOOLEAN
  BY DEF TypeOK, JoinRoom
<1>2. s \in RoomType /\ s.id = r.id /\ (Hosted(r) => Hosted(s))
  BY <1>1, JoinFacts
<1>3. /\ obj' = [obj EXCEPT ![p] = s]
      /\ uroom' = [uroom EXCEPT ![u] = p] /\ umon' = [umon EXCEPT ![u] = mon]
      /\ UNCHANGED <<rooms, conn, inflight, disbanding, policy>>
  BY DEF JoinRoom, Joined
<1> HIDE DEF s, p
<1>4. obj' \in [Ptr -> RoomType] /\ RegisteredHost'
  BY <1>1, <1>2, <1>3, RoomWrite
<1> QED
  BY <1>1, <1>3, <1>4 DEF TypeOK

\* Creating, joining and leaving keep the invariant.
LEMMA MembershipSafe ==
  ASSUME TypeOK, RegisteredHost, MembershipNext
  PROVE  TypeOK' /\ RegisteredHost'
<1>1. PICK u \in User :
        \/ LeaveRoom(u)
        \/ \E i \in RoomId : \/ \E p \in Ptr : CreateRoom(u, i, p)
                             \/ \E mon \in BOOLEAN : JoinRoom(u, i, mon)
  BY DEF MembershipNext
<1>2. CASE LeaveRoom(u)
  <2>1. StateFree /\ uroom[u] # None /\ LeavesRoom(u, TRUE)
    BY <1>2 DEF LeaveRoom, InRoom
  <2> QED
    BY <1>2, <2>1, LeavesRoomWrites DEF LeaveRoom, TypeOK
<1>3. CASE \E i \in RoomId, p \in Ptr : CreateRoom(u, i, p)
  BY <1>3, CreateRoomSafe
<1>4. CASE \E i \in RoomId, mon \in BOOLEAN : JoinRoom(u, i, mon)
  BY <1>4, JoinRoomSafe
<1> QED
  BY <1>1, <1>2, <1>3, <1>4

\* The writes of a single field by the clients' switches.
LEMMA SwitchSafe ==
  ASSUME TypeOK, RegisteredHost, SwitchNext
  PROVE  TypeOK' /\ RegisteredHost'
<1>1. PICK u \in User, b \in BOOLEAN : LockRoom(u, b) \/ CycleRoom(u, b)
  BY DEF SwitchNext
<1> DEFINE p == uroom[u]
           r == obj[p]
<1>2. p \in Ptr /\ r \in RoomType
  BY <1>1 DEF LockRoom, CycleRoom, InRoom, TypeOK
<1>3. CASE LockRoom(u, b)
  <2> DEFINE s == [r EXCEPT !.locked = b]
  <2>1. obj' = [obj EXCEPT ![p] = s]
    BY <1>3 DEF LockRoom
  <2>2. s \in RoomType
    BY <1>2, UpdateType
  <2>3. Framed(r, s) /\ s.host = r.host
    BY <1>2, <2>2 DEF Framed, RoomType
  <2> QED
    BY <1>2, <1>3, <2>1, <2>3, FieldWrite DEF LockRoom
<1>4. CASE CycleRoom(u, b)
  <2> DEFINE s == [r EXCEPT !.cycle = b]
  <2>1. obj' = [obj EXCEPT ![p] = s]
    BY <1>4 DEF CycleRoom
  <2>2. s \in RoomType
    BY <1>2, UpdateType
  <2>3. Framed(r, s) /\ s.host = r.host
    BY <1>2, <2>2 DEF Framed, RoomType
  <2> QED
    BY <1>2, <1>4, <2>1, <2>3, FieldWrite DEF CycleRoom
<1> QED
  BY <1>1, <1>3, <1>4

\* A command of the round: the object is written by a function that keeps it.
LEMMA KeptWrite ==
  ASSUME TypeOK, RegisteredHost, NEW p \in Ptr, NEW s, Kept(obj[p], s),
         obj' = [obj EXCEPT ![p] = s],
         UNCHANGED <<rooms, uroom, umon, conn, disbanding, policy>>,
         inflight' \in [User -> Ptr \cup {None}]
  PROVE  TypeOK' /\ RegisteredHost'
<1>1. s \in RoomType /\ s.id = obj[p].id /\ (Hosted(obj[p]) => Hosted(s))
  BY DEF Kept, Framed
<1>2. obj' \in [Ptr -> RoomType] /\ RegisteredHost'
  BY <1>1, RoomWrite
<1> QED
  BY <1>2 DEF TypeOK

\* RequestStart, Ready and CancelReady keep the invariant.
LEMMA WaitsSafe ==
  ASSUME TypeOK, RegisteredHost, NEW u \in User, Waits(u)
  PROVE  TypeOK' /\ RegisteredHost'
<1> DEFINE p == uroom[u]
           r == obj[p]
<1>1. p \in Ptr /\ r \in RoomType
  BY DEF Waits, InRoom, TypeOK
<1>2. \E s : Kept(r, s) /\ obj' = [obj EXCEPT ![p] = s]
  <2>1. CASE obj' = [obj EXCEPT ![p] = RequestStart(r, u)]
    BY <1>1, <2>1, RequestStartFacts
  <2>2. CASE obj' = [obj EXCEPT ![p] = Ready(r, u)]
    BY <1>1, <2>2, ReadyFacts
  <2>3. CASE CanCancelReady(r, u) /\ obj' = [obj EXCEPT ![p] = CancelReady(r, u)]
    BY <1>1, <2>3, CancelReadyFacts
  <2> QED
    BY <2>1, <2>2, <2>3 DEF Waits
<1>3. UNCHANGED <<rooms, uroom, umon, conn, inflight, disbanding, policy>>
  BY DEF Waits
<1>4. inflight' \in [User -> Ptr \cup {None}]
  BY <1>3 DEF TypeOK
<1> HIDE DEF p
<1> QED
  BY <1>1, <1>2, <1>3, <1>4, KeptWrite

\* The commands of a round, both halves of Played included, keep it.
LEMMA RoundSafe ==
  ASSUME TypeOK, RegisteredHost, RoundNext
  PROVE  TypeOK' /\ RegisteredHost'
<1>1. PICK u \in User : SelectChart(u) \/ Waits(u) \/ AbortRound(u)
        \/ PlayedFetch(u) \/ \E ok \in BOOLEAN : PlayedStore(u, ok)
  BY DEF RoundNext
<1>2. CASE SelectChart(u)
  <2> DEFINE p == uroom[u]
             s == [obj[p] EXCEPT !.chart = TRUE]
  <2>1. p \in Ptr /\ obj[p] \in RoomType /\ obj' = [obj EXCEPT ![p] = s]
    BY <1>2 DEF SelectChart, InRoom, TypeOK
  <2>2. s \in RoomType
    BY <2>1, UpdateType
  <2>3. Framed(obj[p], s) /\ s.host = obj[p].host
    BY <2>1, <2>2 DEF Framed, RoomType
  <2> QED
    BY <1>2, <2>1, <2>3, FieldWrite DEF SelectChart
<1>3. CASE Waits(u)
  BY <1>3, WaitsSafe
<1>4. CASE AbortRound(u)
  <2> DEFINE p == uroom[u]
             r == obj[p]
  <2>1. p \in Ptr /\ r \in RoomType /\ StateFree
    BY <1>4 DEF AbortRound, InRoom, TypeOK
  <2>2. Kept(r, Abort(r, u))
    BY <2>1, AbortFacts
  <2>3. Advance(p, Abort(r, u), Disbands(Aborted(r, u)))
        /\ UNCHANGED <<rooms, uroom, umon, conn, inflight, policy>>
    BY <1>4 DEF AbortRound
  <2>4. Disbands(Aborted(r, u)) \in BOOLEAN
    BY DEF Disbands, AllFinished, Aborted
  <2> HIDE DEF p
  <2>5. /\ obj' \in [Ptr -> RoomType] /\ RegisteredHost'
        /\ disbanding' \in Ptr \cup {None}
    BY <2>1, <2>2, <2>3, <2>4, AdvanceWrites DEF Kept, Framed
  <2> QED
    BY <2>3, <2>5 DEF TypeOK
<1>5. CASE PlayedFetch(u)
  BY <1>5, NoRoomWrite DEF PlayedFetch, TypeOK
<1>6. CASE \E ok \in BOOLEAN : PlayedStore(u, ok)
  <2> DEFINE p == inflight[u]
  <2>1. /\ p \in Ptr /\ obj[p] \in RoomType
        /\ obj' = obj \/ obj' = [obj EXCEPT ![p] = StoreResult(obj[p], u)]
        /\ UNCHANGED <<rooms, uroom, umon, conn, disbanding, policy>>
        /\ inflight' \in [User -> Ptr \cup {None}]
    BY <1>6 DEF PlayedStore, TypeOK
  <2>2. CASE obj' = obj
    BY <2>1, <2>2, NoRoomWrite DEF TypeOK
  <2>3. CASE obj' = [obj EXCEPT ![p] = StoreResult(obj[p], u)]
    BY <2>1, <2>3, StoreResultFacts, KeptWrite
  <2> QED
    BY <2>1, <2>2, <2>3
<1> QED
  BY <1>1, <1>2, <1>3, <1>4, <1>5, <1>6

\* The callbacks of the two timers keep the invariant, late or stale.
LEMMA TimerSafe ==
  ASSUME TypeOK, RegisteredHost, TimerNext
  PROVE  TypeOK' /\ RegisteredHost'
<1>1. PICK p \in Ptr : ReadyFires(p) \/ ReadyExpires(p) \/ DeadlineFires(p)
                         \/ DeadlineExpires(p)
  BY DEF TimerNext
<1>2. obj[p] \in RoomType /\ "none" \in Late /\ "current" \in Late
  BY DEF TypeOK, Late
<1>3. CASE ReadyFires(p)
  <2> DEFINE d == [obj[p] EXCEPT !.readyArmed = FALSE]
             s == [d EXCEPT !.readyLate = "current"]
  <2>1. obj' = [obj EXCEPT ![p] = s]
    BY <1>3 DEF ReadyFires, TypeOK
  <2>2. d \in RoomType
    BY <1>2, UpdateType
  <2>3. s \in RoomType
    BY <1>2, <2>2, UpdateType
  <2>4. Framed(obj[p], s) /\ s.host = obj[p].host
    BY <1>2, <2>3 DEF Framed, RoomType
  <2> QED
    BY <1>3, <2>1, <2>4, FieldWrite DEF ReadyFires
<1>4. CASE ReadyExpires(p)
  <2> DEFINE r == [obj[p] EXCEPT !.readyLate = "none"]
  <2>1. obj' = [obj EXCEPT ![p] = r] \/ obj' = [obj EXCEPT ![p] = ForceStart(r)]
    BY <1>4 DEF ReadyExpires
  <2>2. r \in RoomType
    BY <1>2, UpdateType
  <2>3. Framed(obj[p], r) /\ r.host = obj[p].host
    BY <1>2, <2>2 DEF Framed, RoomType
  <2>4. CASE obj' = [obj EXCEPT ![p] = r]
    BY <1>4, <2>3, <2>4, FieldWrite DEF ReadyExpires
  <2>5. CASE obj' = [obj EXCEPT ![p] = ForceStart(r)]
    <3> HIDE DEF r
    <3>1. Kept(r, ForceStart(r))
      BY <2>2, ForceStartFacts
    <3>2. Kept(obj[p], ForceStart(r))
      BY <2>3, <3>1 DEF Kept, Framed, Hosted
    <3> QED
      BY <1>4, <2>5, <3>2, KeptWrite DEF ReadyExpires, TypeOK
  <2> QED
    BY <2>1, <2>4, <2>5
<1>5. CASE DeadlineFires(p)
  <2> DEFINE d == [obj[p] EXCEPT !.playArmed = FALSE]
             s == [d EXCEPT !.playLate = "current"]
  <2>1. obj' = [obj EXCEPT ![p] = s]
    BY <1>5 DEF DeadlineFires, TypeOK
  <2>2. d \in RoomType
    BY <1>2, UpdateType
  <2>3. s \in RoomType
    BY <1>2, <2>2, UpdateType
  <2>4. Framed(obj[p], s) /\ s.host = obj[p].host
    BY <1>2, <2>3 DEF Framed, RoomType
  <2> QED
    BY <1>5, <2>1, <2>4, FieldWrite DEF DeadlineFires
<1>6. CASE DeadlineExpires(p)
  <2> DEFINE r == [obj[p] EXCEPT !.playLate = "none"]
             s == ExpirePlay(r)
  <2>1. r \in RoomType
    BY <1>2, UpdateType
  <2>2. Framed(obj[p], r) /\ r.host = obj[p].host
    BY <1>2, <2>1 DEF Framed, RoomType
  <2>3. \/ Advance(p, CheckAllReady(s), Disbands(s))
        \/ Advance(p, r, FALSE)
    BY <1>6 DEF DeadlineExpires
  <2>4. StateFree /\ UNCHANGED <<rooms, uroom, umon, conn, inflight, policy>>
    BY <1>6 DEF DeadlineExpires
  <2>5. Disbands(s) \in BOOLEAN
    BY DEF Disbands, AllFinished
  <2> HIDE DEF r
  <2>6. Kept(r, CheckAllReady(s))
    BY <2>1, ExpirePlayFacts
  <2> HIDE DEF s
  <2>7. CASE Advance(p, CheckAllReady(s), Disbands(s))
    <3>1. /\ CheckAllReady(s) \in RoomType
          /\ CheckAllReady(s).id = obj[p].id
          /\ Hosted(obj[p]) => Hosted(CheckAllReady(s))
      BY <2>2, <2>6 DEF Kept, Framed, Hosted
    <3> QED
      BY <2>4, <2>5, <2>7, <3>1, AdvanceWrites DEF TypeOK
  <2>8. CASE Advance(p, r, FALSE)
    BY <2>1, <2>2, <2>4, <2>8, AdvanceWrites DEF TypeOK, Framed, Hosted
  <2> QED
    BY <2>3, <2>7, <2>8
<1> QED
  BY <1>1, <1>3, <1>4, <1>5, <1>6

\* While a room is disbanded it may lose its host, and then its entry.
LEMMA DisbandSafe ==
  ASSUME TypeOK, RegisteredHost, DisbandNext
  PROVE  TypeOK' /\ RegisteredHost'
<1>1. CASE \E u \in User : DisbandLeave(u)
  <2>1. PICK u \in User : DisbandLeave(u)
    BY <1>1
  <2> DEFINE p == disbanding
             s == OnUserLeave(obj[p], u, umon[u])
  <2>2. /\ p \in Ptr /\ obj[p] \in RoomType /\ umon[u] \in BOOLEAN
        /\ obj' = [obj EXCEPT ![p] = s] /\ uroom' = [uroom EXCEPT ![u] = None]
        /\ UNCHANGED <<rooms, umon, conn, inflight, disbanding, policy>>
    BY <2>1 DEF DisbandLeave, TypeOK
  <2>l. Departed(obj[p], u, umon[u], s)
    BY <2>2, OnUserLeaveFacts
  <2> HIDE DEF s
  <2>3. s \in RoomType /\ s.id = obj[p].id
    BY <2>l DEF Departed
  <2>4. TypeOK'
    BY <2>2, <2>3 DEF TypeOK
  <2>5. ASSUME NEW i \in RoomId, rooms'[i] # None
        PROVE  /\ obj'[rooms'[i]].id = i
               /\ disbanding' # rooms'[i] =>
                    obj'[rooms'[i]].host \in obj'[rooms'[i]].users
    <3>1. rooms[i] \in Ptr /\ rooms[i] # None /\ rooms' = rooms
      BY <2>2, <2>5 DEF TypeOK
    <3>2. CASE rooms[i] = p
      BY <2>2, <2>3, <3>1, <3>2 DEF TypeOK, RegisteredHost
    <3>3. CASE rooms[i] # p
      <4>1. obj'[rooms[i]] = obj[rooms[i]]
        BY <2>2, <3>1, <3>3 DEF TypeOK
      <4> QED
        BY <2>2, <3>1, <4>1 DEF RegisteredHost
    <3> QED
      BY <3>2, <3>3
  <2> QED
    BY <2>4, <2>5 DEF RegisteredHost
<1>2. CASE DisbandEnd
  <2> DEFINE p == disbanding
  <2>1. /\ p \in Ptr /\ rooms' = [rooms EXCEPT ![obj[p].id] = None]
        /\ disbanding' = None
        /\ UNCHANGED <<obj, uroom, umon, conn, inflight, policy>>
    BY <1>2 DEF DisbandEnd, TypeOK
  <2>2. TypeOK'
    BY <2>1 DEF TypeOK
  <2>3. ASSUME NEW i \in RoomId, rooms'[i] # None
        PROVE  /\ obj'[rooms'[i]].id = i
               /\ obj'[rooms'[i]].host \in obj'[rooms'[i]].users
    <3>1. i # obj[p].id /\ rooms'[i] = rooms[i] /\ rooms[i] # None
      BY <2>1, <2>3 DEF TypeOK
    <3>2. rooms[i] # p
      BY <3>1 DEF RegisteredHost
    <3> QED
      BY <2>1, <3>1, <3>2 DEF RegisteredHost
  <2> QED
    BY <2>2, <2>3 DEF RegisteredHost
<1>3. CASE \E p \in Ptr, how \in {"checked", "unchecked"} :
             DisbandPending(p, how)
  <2>1. PICK p \in Ptr, how \in {"checked", "unchecked"} :
               DisbandPending(p, how)
    BY <1>3
  <2> DEFINE r == [obj[p] EXCEPT !.pending = @ \ {how}]
             b == (how = "unchecked" \/ StillMapped(p))
  <2>2. obj[p] \in RoomType /\ StateFree /\ Advance(p, r, b) /\ b \in BOOLEAN
        /\ UNCHANGED <<rooms, uroom, umon, conn, inflight, policy>>
    BY <2>1 DEF DisbandPending, TypeOK
  <2>3. SameRound(obj[p], r)
    BY <2>2, FieldTypes, PendingFacts
  <2> HIDE DEF r, b
  <2>4. r \in RoomType /\ r.id = obj[p].id /\ (Hosted(obj[p]) => Hosted(r))
    BY <2>3 DEF SameRound, Framed, Hosted
  <2> QED
    BY <2>2, <2>4, AdvanceWrites DEF TypeOK
<1> QED
  BY <1>1, <1>2, <1>3 DEF DisbandNext

\* The contest operations on the room registered under i.
LEMMA ContestSafe ==
  ASSUME TypeOK, RegisteredHost, ContestNext
  PROVE  TypeOK' /\ RegisteredHost'
<1>1. PICK i \in RoomId :
        \/ DisableContest(i)
        \/ \E ids \in SUBSET User : EnableContest(i, ids)
                                      \/ SetContestWhitelist(i, ids)
        \/ \E force \in BOOLEAN : StartContest(i, force)
  BY DEF ContestNext
<1> DEFINE p == rooms[i]
           r == obj[p]
<1>2. p \in Ptr /\ r \in RoomType /\ {} \in SUBSET User
  BY <1>1 DEF DisableContest, EnableContest, SetContestWhitelist,
              StartContest, OnRoom, TypeOK
<1>3. \A ids \in SUBSET User : ContestWhitelist(r, ids) \in SUBSET User
  BY <1>2, FieldTypes DEF ContestWhitelist, Participants
<1>4. CASE DisableContest(i)
  <2> DEFINE d == [r EXCEPT !.contest = FALSE]
             s == [d EXCEPT !.whitelist = {}]
  <2>1. obj' = [obj EXCEPT ![p] = s]
    BY <1>4 DEF DisableContest, TypeOK
  <2>2. d \in RoomType
    BY <1>2, UpdateType
  <2>3. s \in RoomType
    BY <1>2, <2>2, UpdateType
  <2>4. Framed(r, s) /\ s.host = r.host
    BY <1>2, <2>3 DEF Framed, RoomType
  <2> QED
    BY <1>2, <1>4, <2>1, <2>4, FieldWrite DEF DisableContest
<1>5. ASSUME NEW ids \in SUBSET User, EnableContest(i, ids)
      PROVE  TypeOK' /\ RegisteredHost'
  <2> DEFINE wl == ContestWhitelist(r, ids)
             d == [r EXCEPT !.contest = TRUE]
             s == [d EXCEPT !.whitelist = wl]
  <2>1. obj' = [obj EXCEPT ![p] = s]
    BY <1>5 DEF EnableContest
  <2>2. wl \in SUBSET User
    BY <1>3
  <2> HIDE DEF wl
  <2>3. d \in RoomType
    BY <1>2, UpdateType
  <2>4. s \in RoomType
    BY <2>2, <2>3, UpdateType
  <2>5. Framed(r, s) /\ s.host = r.host
    BY <1>2, <2>4 DEF Framed, RoomType
  <2> QED
    BY <1>2, <1>5, <2>1, <2>5, FieldWrite DEF EnableContest
<1>6. ASSUME NEW ids \in SUBSET User, SetContestWhitelist(i, ids)
      PROVE  TypeOK' /\ RegisteredHost'
  <2> DEFINE wl == ContestWhitelist(r, ids)
             s == [r EXCEPT !.whitelist = wl]
  <2>1. obj' = [obj EXCEPT ![p] = s]
    BY <1>6 DEF SetContestWhitelist
  <2>2. wl \in SUBSET User
    BY <1>3
  <2> HIDE DEF wl
  <2>3. s \in RoomType
    BY <1>2, <2>2, UpdateType
  <2>4. Framed(r, s) /\ s.host = r.host
    BY <1>2, <2>3 DEF Framed, RoomType
  <2> QED
    BY <1>2, <1>6, <2>1, <2>4, FieldWrite DEF SetContestWhitelist
<1>7. CASE \E force \in BOOLEAN : StartContest(i, force)
  <2>1. Framed(r, StartPlaying(r)) /\ StartPlaying(r).host = r.host
    BY <1>2, StartPlayingFacts
  <2> QED
    BY <1>2, <1>7, <2>1, FieldWrite DEF StartContest
<1> QED
  BY <1>1, <1>4, <1>5, <1>6, <1>7

\* The administrators' operations on a room.
LEMMA RoomAdminSafe ==
  ASSUME TypeOK, RegisteredHost, RoomAdminNext
  PROVE  TypeOK' /\ RegisteredHost'
<1>1. PICK i \in RoomId :
        \/ AdminDisband(i)
        \/ \E b \in BOOLEAN : SetRoomLocked(i, b) \/ SetRoomCycle(i, b)
        \/ \E n \in 1 .. Cardinality(User) : SetMaxUsers(i, n)
        \/ \E u \in User : TransferHost(i, u) \/ SetNextHost(i, u)
  BY DEF RoomAdminNext
<1> DEFINE p == rooms[i]
           r == obj[p]
<1>2. p \in Ptr /\ r \in RoomType
  BY <1>1 DEF AdminDisband, SetRoomLocked, SetRoomCycle, SetMaxUsers,
              TransferHost, SetNextHost, OnRoom, TypeOK
<1>3. CASE AdminDisband(i)
  BY <1>2, <1>3, AdvanceWrites DEF AdminDisband, TypeOK
<1>4. ASSUME NEW b \in BOOLEAN, SetRoomLocked(i, b)
      PROVE  TypeOK' /\ RegisteredHost'
  <2> DEFINE s == [r EXCEPT !.locked = b]
  <2>1. obj' = [obj EXCEPT ![p] = s]
    BY <1>4 DEF SetRoomLocked
  <2>2. s \in RoomType
    BY <1>2, UpdateType
  <2>3. Framed(r, s) /\ s.host = r.host
    BY <1>2, <2>2 DEF Framed, RoomType
  <2> QED
    BY <1>2, <1>4, <2>1, <2>3, FieldWrite DEF SetRoomLocked
<1>5. ASSUME NEW b \in BOOLEAN, SetRoomCycle(i, b)
      PROVE  TypeOK' /\ RegisteredHost'
  <2> DEFINE s == [r EXCEPT !.cycle = b]
  <2>1. obj' = [obj EXCEPT ![p] = s]
    BY <1>5 DEF SetRoomCycle
  <2>2. s \in RoomType
    BY <1>2, UpdateType
  <2>3. Framed(r, s) /\ s.host = r.host
    BY <1>2, <2>2 DEF Framed, RoomType
  <2> QED
    BY <1>2, <1>5, <2>1, <2>3, FieldWrite DEF SetRoomCycle
<1>6. ASSUME NEW n \in 1 .. Cardinality(User), SetMaxUsers(i, n)
      PROVE  TypeOK' /\ RegisteredHost'
  <2> DEFINE s == [r EXCEPT !.max = n]
  <2>1. obj' = [obj EXCEPT ![p] = s]
    BY <1>6 DEF SetMaxUsers
  <2>2. n \in Nat
    BY <1>6
  <2>3. s \in RoomType
    BY <1>2, <2>2, UpdateType
  <2>4. Framed(r, s) /\ s.host = r.host
    BY <1>2, <2>3 DEF Framed, RoomType
  <2> QED
    BY <1>2, <1>6, <2>1, <2>4, FieldWrite DEF SetMaxUsers
<1>7. ASSUME NEW u \in User, TransferHost(i, u)
      PROVE  TypeOK' /\ RegisteredHost'
  <2> DEFINE d == [r EXCEPT !.host = u]
             s == [d EXCEPT !.nextHost = None]
  <2>1. obj' = [obj EXCEPT ![p] = s] /\ u \in r.users
    BY <1>7 DEF TransferHost, TypeOK
  <2>2. d \in RoomType
    BY <1>2, UpdateType
  <2>3. s \in RoomType
    BY <2>2, UpdateType
  <2>4. s.id = r.id /\ s.users = r.users /\ s.host = u
    BY <1>2 DEF RoomType
  <2> HIDE DEF s
  <2>5. obj' \in [Ptr -> RoomType] /\ RegisteredHost'
    BY <1>2, <1>7, <2>1, <2>3, <2>4, RoomWrite DEF TransferHost, Hosted
  <2> QED
    BY <1>7, <2>5 DEF TransferHost, TypeOK
<1>8. ASSUME NEW u \in User, SetNextHost(i, u)
      PROVE  TypeOK' /\ RegisteredHost'
  <2> DEFINE s == [r EXCEPT !.nextHost = u]
  <2>1. obj' = [obj EXCEPT ![p] = s]
    BY <1>8 DEF SetNextHost
  <2>2. s \in RoomType
    BY <1>2, UpdateType
  <2>3. Framed(r, s) /\ s.host = r.host
    BY <1>2, <2>2 DEF Framed, RoomType
  <2> QED
    BY <1>2, <1>8, <2>1, <2>3, FieldWrite DEF SetNextHost
<1> QED
  BY <1>1, <1>3, <1>4, <1>5, <1>6, <1>7, <1>8

\* MoveUser writes the target, then the source, which may be the same room.
LEMMA MoveUserSafe ==
  ASSUME TypeOK, RegisteredHost, NEW u \in User, NEW i \in RoomId,
         NEW mon \in BOOLEAN, MoveUser(u, i, mon)
  PROVE  TypeOK' /\ RegisteredHost'
<1> DEFINE p == uroom[u]
           q == rooms[i]
           a == AddUser(obj[q], u, mon)
           o == [obj EXCEPT ![q] = a]
           w == o[p]
           l == OnUserLeave(w, u, umon[u])
           drop == ShouldDrop(w, u, umon[u])
<1>1. /\ p \in Ptr /\ q \in Ptr /\ obj[q] \in RoomType /\ umon[u] \in BOOLEAN
  BY DEF MoveUser, TypeOK
<1>2. /\ obj' = [o EXCEPT ![p] = l]
      /\ rooms' = IF drop THEN [rooms EXCEPT ![w.id] = None] ELSE rooms
      /\ uroom' = [uroom EXCEPT ![u] = q] /\ umon' = [umon EXCEPT ![u] = mon]
      /\ UNCHANGED <<conn, inflight, disbanding, policy>>
  BY DEF MoveUser
<1>3. a \in RoomType /\ a.id = obj[q].id /\ (Hosted(obj[q]) => Hosted(a))
  BY <1>1, AddUserFacts DEF Hosted
<1> HIDE DEF a
<1>4. o \in [Ptr -> RoomType] /\ HostedRooms(rooms, o, disbanding)
  BY <1>1, <1>3, RegisteredHostIs, HostedUpdate DEF TypeOK
<1> HIDE DEF o
<1>w. w \in RoomType
  BY <1>1, <1>4
<1> HIDE DEF w
<1>5. /\ l \in RoomType /\ l.id = w.id
      /\ ~drop => (Hosted(w) => Hosted(l))
  <2>1. Departed(w, u, umon[u], l)
    BY <1>1, <1>w, OnUserLeaveFacts
  <2>2. ~drop => ~HostLeftAlone(w, u, umon[u])
    BY DEF ShouldDrop
  <2> HIDE DEF l, drop
  <2> QED
    BY <2>1, <2>2 DEF Departed
<1> HIDE DEF l, drop
<1> USE DEF w
<1>6. /\ obj' \in [Ptr -> RoomType]
      /\ rooms' \in [RoomId -> Ptr \cup {None}]
      /\ HostedRooms(rooms', obj', disbanding)
  <2>1. CASE drop
    BY <1>1, <1>2, <1>4, <1>5, <2>1, HostedDrop DEF TypeOK
  <2>2. CASE ~drop
    BY <1>1, <1>2, <1>4, <1>5, <2>2, HostedUpdate DEF TypeOK
  <2> QED
    BY <2>1, <2>2
<1>7. RegisteredHost'
  BY <1>2, <1>6 DEF RegisteredHost, HostedRooms, Hosted
<1> QED
  BY <1>1, <1>2, <1>6, <1>7 DEF TypeOK

\* Kicks and moves.
LEMMA UserAdminSafe ==
  ASSUME TypeOK, RegisteredHost, UserAdminNext
  PROVE  TypeOK' /\ RegisteredHost'
<1>1. PICK u \in User :
        \/ KickAbort(u) \/ KickDetach(u)
        \/ \E i \in RoomId, mon \in BOOLEAN : MoveUser(u, i, mon)
  BY DEF UserAdminNext
<1>2. CASE KickAbort(u)
  <2> DEFINE p == uroom[u]
             r == obj[p]
             s == Abort(r, u)
             t == [s EXCEPT !.pending = @ \cup {"unchecked"}]
  <2>1. p \in Ptr /\ r \in RoomType
    BY <1>2 DEF KickAbort, TypeOK
  <2>2. obj' = [obj EXCEPT ![p] = t] \/ obj' = [obj EXCEPT ![p] = s]
    BY <1>2 DEF KickAbort
  <2>3. Kept(r, s)
    BY <2>1, AbortFacts
  <2> HIDE DEF s
  <2>4. s \in RoomType
    BY <2>3 DEF Kept, Framed
  <2>5. SameRound(s, t)
    BY <2>4, FieldTypes, PendingFacts
  <2>6. Kept(r, t)
    BY <2>3, <2>5, SameRoundKept
  <2> HIDE DEF t, p
  <2> QED
    BY <1>2, <2>1, <2>2, <2>3, <2>6, KeptWrite DEF KickAbort, TypeOK
<1>3. CASE KickDetach(u)
  BY <1>3, NoRoomWrite DEF KickDetach, TypeOK
<1>4. CASE \E i \in RoomId, mon \in BOOLEAN : MoveUser(u, i, mon)
  BY <1>4, MoveUserSafe
<1> QED
  BY <1>1, <1>2, <1>3, <1>4

\* A new policy refreshes the live flags and nothing else.
LEMMA SetPolicySafe ==
  ASSUME TypeOK, RegisteredHost, NEW new, SetPolicy(new),
         new \in [maintenance : BOOLEAN, creation : BOOLEAN, replay : BOOLEAN,
                  banned : SUBSET User, roomBanned : [RoomId -> SUBSET User]]
  PROVE  TypeOK' /\ RegisteredHost'
<1>1. ASSUME NEW p \in Ptr
      PROVE  Framed(obj[p], obj'[p]) /\ obj'[p].host = obj[p].host
  <2>1. obj[p] \in RoomType /\ new.replay \in BOOLEAN
    BY DEF TypeOK
  <2>2. obj'[p] = obj[p] \/ obj'[p] = RefreshLive(obj[p], new.replay)
    BY DEF SetPolicy
  <2>3. SameRound(obj[p], RefreshLive(obj[p], new.replay))
    BY <2>1, RefreshLiveFacts
  <2> QED
    BY <2>1, <2>2, <2>3 DEF SameRound, Framed
<1>2. obj' \in [Ptr -> RoomType]
  <2>1. \A p \in Ptr : obj'[p] \in RoomType
    BY <1>1 DEF Framed
  <2>2. obj' = [p \in Ptr |-> obj'[p]]
    BY DEF SetPolicy
  <2> QED
    BY <2>1, <2>2
<1>3. UNCHANGED <<rooms, uroom, umon, conn, inflight, disbanding>>
      /\ policy' = new
  BY DEF SetPolicy
<1>4. TypeOK'
  BY <1>2, <1>3 DEF TypeOK
<1>5. ASSUME NEW i \in RoomId, rooms[i] # None
      PROVE  /\ obj'[rooms[i]].id = i
             /\ disbanding # rooms[i] =>
                  obj'[rooms[i]].host \in obj'[rooms[i]].users
  <2>1. rooms[i] \in Ptr
    BY <1>5 DEF TypeOK
  <2> QED
    BY <1>1, <1>5, <2>1 DEF RegisteredHost, Framed
<1> QED
  BY <1>3, <1>4, <1>5 DEF RegisteredHost

\* Bans and switches.
LEMMA AdministerSafe ==
  ASSUME TypeOK, RegisteredHost, Administer
  PROVE  TypeOK' /\ RegisteredHost'
<1>1. CASE \E b \in BOOLEAN :
             \/ SetPolicy([policy EXCEPT !.maintenance = b])
             \/ SetPolicy([policy EXCEPT !.creation = b])
             \/ SetPolicy([policy EXCEPT !.replay = b])
  <2>1. PICK b \in BOOLEAN :
             \/ SetPolicy([policy EXCEPT !.maintenance = b])
             \/ SetPolicy([policy EXCEPT !.creation = b])
             \/ SetPolicy([policy EXCEPT !.replay = b])
    BY <1>1
  <2> QED
    BY <2>1, SetPolicySafe DEF TypeOK
<1>2. CASE \E u \in User :
             \/ SetPolicy([policy EXCEPT !.banned = @ \cup {u}])
             \/ SetPolicy([policy EXCEPT !.banned = @ \ {u}])
  <2>1. PICK u \in User :
             \/ SetPolicy([policy EXCEPT !.banned = @ \cup {u}])
             \/ SetPolicy([policy EXCEPT !.banned = @ \ {u}])
    BY <1>2
  <2> QED
    BY <2>1, SetPolicySafe DEF TypeOK
<1>3. CASE \E u \in User, i \in RoomId :
             \/ SetPolicy([policy EXCEPT !.roomBanned[i] = @ \cup {u}])
             \/ SetPolicy([policy EXCEPT !.roomBanned[i] = @ \ {u}])
  <2>1. PICK u \in User, i \in RoomId :
             \/ SetPolicy([policy EXCEPT !.roomBanned[i] = @ \cup {u}])
             \/ SetPolicy([policy EXCEPT !.roomBanned[i] = @ \ {u}])
    BY <1>3
  <2> QED
    BY <2>1, SetPolicySafe DEF TypeOK
<1> QED
  BY <1>1, <1>2, <1>3 DEF Administer

-----------------------------------------------------------------------------
\* TypeOK and RegisteredHost together are inductive: the host that a leaving
\* host, a rotation or a drop needs exists because every open room has one.
LEMMA SafeInit == Init => TypeOK /\ RegisteredHost
<1> SUFFICES ASSUME Init PROVE TypeOK /\ RegisteredHost
  OBVIOUS
<1>1. Unused \in RoomType
  BY DEF Unused, RoomType, Phase, Late
<1>2. TypeOK
  BY <1>1 DEF Init, TypeOK, Policy0
<1>3. RegisteredHost
  BY DEF Init, RegisteredHost
<1> QED
  BY <1>2, <1>3

\* Every step of the server keeps the invariant.
LEMMA SafeStep ==
  TypeOK /\ RegisteredHost /\ [Next]_vars => TypeOK' /\ RegisteredHost'
<1> SUFFICES ASSUME TypeOK, RegisteredHost, [Next]_vars
             PROVE  TypeOK' /\ RegisteredHost'
  OBVIOUS
<1>1. CASE Next
  BY <1>1, ConnectionSafe, MembershipSafe, RoundSafe, SwitchSafe, TimerSafe,
     DisbandSafe, ContestSafe, RoomAdminSafe, UserAdminSafe, AdministerSafe
     DEF Next, ClientNext, AdminNext
<1>2. CASE UNCHANGED vars
  BY <1>2, NoRoomWrite DEF vars, TypeOK
<1> QED
  BY <1>1, <1>2

\* The tables, the heap and every room record keep their types, whatever
\* players, timers and administrators do.
THEOREM TypeCorrect == Spec => []TypeOK
<1>1. TypeOK /\ RegisteredHost /\ [Next]_vars => (TypeOK /\ RegisteredHost)'
  BY SafeStep
<1> QED
  BY <1>1, SafeInit, PTL DEF Spec

\* Every registered room is found under its own id and, unless it is just
\* being disbanded, is hosted by one of its players.
THEOREM RoomsAreHosted == Spec => []RegisteredHost
<1>1. TypeOK /\ RegisteredHost /\ [Next]_vars => (TypeOK /\ RegisteredHost)'
  BY SafeStep
<1> QED
  BY <1>1, SafeInit, PTL DEF Spec

-----------------------------------------------------------------------------
(* How a step changes the objects: most steps write one object and change no
   member.  What such a step may do to a room is said once, for all of them. *)

\* The step writes s into the object p, and may begin to disband it.
Writes(p, s) ==
  /\ obj' = [obj EXCEPT ![p] = s]
  /\ UNCHANGED <<rooms, uroom, umon, policy>>
  /\ disbanding' = disbanding \/ (disbanding = None /\ disbanding' = p)

\* The members and the replay flags stay, a settled round stays settled, and
\* none is ended early.
Steady(p, s) ==
  /\ Framed(obj[p], s) /\ s.live = obj[p].live /\ s.eligible = obj[p].eligible
  /\ Settled(obj[p]) => Settled(s)
  /\ obj[p].playLate # "none" \/ Ended(obj[p], s)

\* Outside contests only registered rooms are disbanded, and the timers that
\* an open room needs stay.
Ordinary(p, s) ==
  ~obj[p].contest =>
    /\ ~s.contest
    /\ obj[p].pending = {} =>
         (s.pending = {} /\ (disbanding' = disbanding \/ Registered(p)))
    /\ (Open(p) /\ Timed(obj[p])) => (Timed(s) \/ disbanding' = p)

\* The step changes nothing that rooms and members are made of.
IdleStep == UNCHANGED <<rooms, obj, uroom, umon, disbanding, policy>>

SteadyStep == \E p \in Ptr, s \in RoomType : Writes(p, s) /\ Steady(p, s)

OrdinaryStep ==
  \E p \in Ptr, s \in RoomType : Writes(p, s) /\ Steady(p, s) /\ Ordinary(p, s)

\* A switch of a room is written.
LEMMA PlainStep ==
  ASSUME NEW p \in Ptr, NEW s, Plain(obj[p], s), obj' = [obj EXCEPT ![p] = s],
         UNCHANGED <<rooms, uroom, umon, disbanding, policy>>
  PROVE  OrdinaryStep
<1>1. s \in RoomType /\ Writes(p, s)
  BY DEF Plain, Framed, Writes
<1>2. Steady(p, s)
  BY DEF Plain, Framed, Tagged, Steady, Settled, AllFinished, Ended
<1>3. Ordinary(p, s)
  BY DEF Plain, Tagged, Ordinary
<1> QED
  BY <1>1, <1>2, <1>3 DEF OrdinaryStep

\* A command writes what its function of the room returns.
LEMMA CommandStep ==
  ASSUME NEW p \in Ptr, NEW s, Kept(obj[p], s), Calm(obj[p], s),
         obj' = [obj EXCEPT ![p] = s],
         UNCHANGED <<rooms, uroom, umon, disbanding, policy>>
  PROVE  OrdinaryStep
<1>1. s \in RoomType /\ Writes(p, s)
  BY DEF Kept, Framed, Writes
<1>2. Steady(p, s)
  BY DEF Kept, Calm, Tagged, Steady
<1>3. Ordinary(p, s)
  BY DEF Calm, Tagged, Ordinary
<1> QED
  BY <1>1, <1>2, <1>3 DEF OrdinaryStep

\* The clients' switches.
LEMMA SwitchSteady ==
  ASSUME TypeOK, SwitchNext
  PROVE  OrdinaryStep
<1>1. PICK u \in User, b \in BOOLEAN : LockRoom(u, b) \/ CycleRoom(u, b)
  BY DEF SwitchNext
<1> DEFINE p == uroom[u]
           r == obj[p]
<1>2. p \in Ptr /\ r \in RoomType
  BY <1>1 DEF LockRoom, CycleRoom, InRoom, TypeOK
<1>3. /\ obj' = [obj EXCEPT ![p] = [r EXCEPT !.locked = b]]
           \/ obj' = [obj EXCEPT ![p] = [r EXCEPT !.cycle = b]]
      /\ UNCHANGED <<rooms, uroom, umon, disbanding, policy>>
  BY <1>1 DEF LockRoom, CycleRoom
<1>4. Plain(r, [r EXCEPT !.locked = b]) /\ Plain(r, [r EXCEPT !.cycle = b])
  BY <1>2, PlainUpdates
<1> QED
  BY <1>2, <1>3, <1>4, PlainStep

\* RequestStart, Ready and CancelReady.
LEMMA WaitsSteady ==
  ASSUME TypeOK, NEW u \in User, Waits(u)
  PROVE  OrdinaryStep
<1> DEFINE p == uroom[u]
           r == obj[p]
<1>1. p \in Ptr /\ r \in RoomType
  BY DEF Waits, InRoom, TypeOK
<1>2. \E s : Kept(r, s) /\ Calm(r, s) /\ obj' = [obj EXCEPT ![p] = s]
  <2>1. CASE CanRequestStart(r, u) /\ obj' = [obj EXCEPT ![p] = RequestStart(r, u)]
    BY <1>1, <2>1, RequestStartFacts, RequestStartCalm DEF CanRequestStart
  <2>2. CASE CanReady(r, u) /\ obj' = [obj EXCEPT ![p] = Ready(r, u)]
    BY <1>1, <2>2, ReadyFacts, ReadyCalm DEF CanReady
  <2>3. CASE CanCancelReady(r, u) /\ obj' = [obj EXCEPT ![p] = CancelReady(r, u)]
    BY <1>1, <2>3, CancelReadyFacts, CancelReadyCalm DEF CanCancelReady
  <2> QED
    BY <2>1, <2>2, <2>3 DEF Waits
<1>3. UNCHANGED <<rooms, uroom, umon, disbanding, policy>>
  BY DEF Waits
<1> HIDE DEF p
<1> QED
  BY <1>1, <1>2, <1>3, CommandStep

\* Advance: the object changes to r and may be disbanded.
LEMMA AdvanceStep ==
  ASSUME StateFree, NEW p \in Ptr, NEW r, Steady(p, r), NEW b \in BOOLEAN,
         ~obj[p].contest =>
           /\ ~r.contest
           /\ obj[p].pending = {} => (r.pending = {} /\ (b => Registered(p)))
           /\ (Open(p) /\ Timed(obj[p])) => (Timed(r) \/ b),
         Advance(p, r, b), UNCHANGED <<rooms, uroom, umon, policy>>
  PROVE  OrdinaryStep
<1> DEFINE d == BeginDisband(r)
           s == IF b THEN d ELSE r
<1>1. r \in RoomType
  BY DEF Steady, Framed
<1>2. SameRound(r, d) /\ Tagged(r, d)
  <2> DEFINE c == CancelReadyCountdown(r)
  <2>1. SameRound(r, c) /\ Tagged(r, c)
    BY <1>1, TimerFacts, TimerTags
  <2>2. c \in RoomType /\ d = CancelPlayDeadline(c)
    BY <2>1 DEF SameRound, Framed, BeginDisband
  <2> HIDE DEF c, d
  <2>3. SameRound(c, d) /\ Tagged(c, d)
    BY <2>2, TimerFacts, TimerTags
  <2> QED
    BY <2>1, <2>3 DEF SameRound, Framed, Tagged
<1>3. /\ obj' = [obj EXCEPT ![p] = s]
      /\ disbanding' = IF b THEN p ELSE disbanding
  BY DEF Advance
<1> HIDE DEF d
<1>4. SameRound(r, s) /\ Tagged(r, s) /\ (~b => s = r)
  BY <1>1, <1>2 DEF SameRound, Framed, Tagged
<1> HIDE DEF s
<1>5. s \in RoomType /\ Writes(p, s)
  BY <1>3, <1>4 DEF SameRound, Framed, Writes, StateFree
<1>6. Steady(p, s)
  BY <1>4 DEF Steady, SameRound, Framed, Tagged, Settled, AllFinished, Ended
<1>7. Ordinary(p, s)
  BY <1>3, <1>4 DEF Ordinary, Tagged
<1> QED
  BY <1>5, <1>6, <1>7 DEF OrdinaryStep

\* The commands of a round.  A round that an abort ends is disbanded only in a
\* contest.
LEMMA RoundSteady ==
  ASSUME TypeOK, RoundNext
  PROVE  OrdinaryStep \/ IdleStep
<1>1. PICK u \in User : SelectChart(u) \/ Waits(u) \/ AbortRound(u)
        \/ PlayedFetch(u) \/ \E ok \in BOOLEAN : PlayedStore(u, ok)
  BY DEF RoundNext
<1>2. CASE SelectChart(u)
  <2> DEFINE p == uroom[u]
             s == [obj[p] EXCEPT !.chart = TRUE]
  <2>1. p \in Ptr /\ obj[p] \in RoomType /\ obj' = [obj EXCEPT ![p] = s]
    BY <1>2 DEF SelectChart, InRoom, TypeOK
  <2>2. Plain(obj[p], s)
    BY <2>1, PlainUpdates
  <2> QED
    BY <1>2, <2>1, <2>2, PlainStep DEF SelectChart
<1>3. CASE Waits(u)
  BY <1>3, WaitsSteady
<1>4. CASE AbortRound(u)
  <2> DEFINE p == uroom[u]
             r == obj[p]
             s == Abort(r, u)
             b == Disbands(Aborted(r, u))
  <2>1. p \in Ptr /\ r \in RoomType /\ StateFree
    BY <1>4 DEF AbortRound, InRoom, TypeOK
  <2>2. Advance(p, s, b) /\ UNCHANGED <<rooms, uroom, umon, policy>>
    BY <1>4 DEF AbortRound
  <2>3. b \in BOOLEAN /\ (b => r.contest)
    BY <2>1 DEF Disbands, AllFinished, Aborted, RoomType
  <2>4. Kept(r, s) /\ Calm(r, s)
    BY <2>1, AbortFacts, AbortCalm
  <2> HIDE DEF s, b
  <2>5. Steady(p, s)
    BY <2>4 DEF Steady, Kept, Calm, Tagged
  <2>6. ~r.contest =>
           /\ ~s.contest
           /\ r.pending = {} => (s.pending = {} /\ (b => Registered(p)))
           /\ (Open(p) /\ Timed(r)) => (Timed(s) \/ b)
    BY <2>3, <2>4 DEF Calm, Tagged
  <2> HIDE DEF p
  <2> QED
    BY <2>1, <2>2, <2>3, <2>5, <2>6, AdvanceStep
<1>5. CASE PlayedFetch(u)
  BY <1>5 DEF PlayedFetch, IdleStep
<1>6. CASE \E ok \in BOOLEAN : PlayedStore(u, ok)
  <2> DEFINE p == inflight[u]
  <2>1. /\ p \in Ptr /\ obj[p] \in RoomType
        /\ \/ obj' = obj
           \/ /\ obj[p].phase = "play"
              /\ obj' = [obj EXCEPT ![p] = StoreResult(obj[p], u)]
        /\ UNCHANGED <<rooms, uroom, umon, disbanding, policy>>
    BY <1>6 DEF PlayedStore, TypeOK
  <2> HIDE DEF p
  <2>2. CASE obj' = obj
    BY <2>1, <2>2 DEF IdleStep
  <2>3. CASE obj[p].phase = "play" /\ obj' = [obj EXCEPT ![p] = StoreResult(obj[p], u)]
    BY <2>1, <2>3, StoreResultFacts, StoreResultCalm, CommandStep
  <2> QED
    BY <2>1, <2>2, <2>3
<1> QED
  BY <1>1, <1>2, <1>3, <1>4, <1>5, <1>6

\* A room that is found under its own id is registered, and the other way round.
LEMMA MappedIsRegistered ==
  ASSUME TypeOK, RegisteredHost, NEW p \in Ptr
  PROVE  /\ Registered(p) => StillMapped(p)
         /\ StillMapped(p) => Registered(p)
<1>1. ASSUME NEW i \in RoomId, rooms[i] = p PROVE obj[p].id \in RoomId /\ rooms[obj[p].id] = p
  <2>1. rooms[i] # None
    BY <1>1, PtrAssumption
  <2> QED
    BY <1>1, <2>1 DEF RegisteredHost
<1> QED
  BY <1>1 DEF Registered, StillMapped

\* The timers.  A late callback of a registered room finds it and ends its
\* wait or its round, so that the room can do without the callback.
LEMMA TimerSteady ==
  ASSUME TypeOK, RegisteredHost, TimerNext
  PROVE  OrdinaryStep
<1>1. PICK p \in Ptr : ReadyFires(p) \/ ReadyExpires(p) \/ DeadlineFires(p)
                         \/ DeadlineExpires(p)
  BY DEF TimerNext
<1>2. obj[p] \in RoomType /\ "none" \in Late /\ "current" \in Late
  BY DEF TypeOK, Late
<1>3. CASE ReadyFires(p)
  <2> DEFINE d == [obj[p] EXCEPT !.readyArmed = FALSE]
             s == [d EXCEPT !.readyLate = "current"]
  <2>1. obj' = [obj EXCEPT ![p] = s]
    BY <1>3 DEF ReadyFires, TypeOK
  <2>2. d \in RoomType
    BY <1>2, UpdateType
  <2>3. s \in RoomType
    BY <1>2, <2>2, UpdateType
  <2>4. Plain(obj[p], s)
    BY <1>2, <2>3 DEF Plain, Framed, Tagged, Timed, RoomType
  <2> QED
    BY <1>3, <2>1, <2>4, PlainStep DEF ReadyFires
<1>4. CASE ReadyExpires(p)
  <2> DEFINE r == [obj[p] EXCEPT !.readyLate = "none"]
  <2>1. /\ obj' = [obj EXCEPT ![p] =
                     IF StillMapped(p) /\ r.phase = "wait" THEN ForceStart(r) ELSE r]
        /\ UNCHANGED <<rooms, uroom, umon, disbanding, policy>>
    BY <1>4 DEF ReadyExpires
  <2>2. r \in RoomType
    BY <1>2, UpdateType
  <2>3. /\ Framed(obj[p], r) /\ r.host = obj[p].host /\ Tagged(obj[p], r)
        /\ r.phase = obj[p].phase /\ r.results = obj[p].results
        /\ r.aborted = obj[p].aborted
        /\ r.playArmed = obj[p].playArmed /\ r.playLate = obj[p].playLate
    BY <1>2, <2>2 DEF Framed, Tagged, RoomType
  <2>r. Registered(p) => StillMapped(p)
    BY MappedIsRegistered
  <2> HIDE DEF r
  <2>4. CASE StillMapped(p) /\ r.phase = "wait"
    <3> DEFINE s == ForceStart(r)
    <3>1. Kept(r, s) /\ Calm(r, s) /\ s.results = {} /\ s.phase = "play"
      <4>1. StartPlaying(r) \in RoomType /\ StartPlaying(r).results = {}
            /\ StartPlaying(r).phase = "play"
        BY <2>2, StartPlayingFacts, StartPlayingTimes DEF Framed
      <4>2. s.results = {} /\ s.phase = "play"
        BY <4>1 DEF ForceStart, RoomType
      <4> QED
        BY <2>2, <2>4, <4>2, ForceStartFacts, ForceStartCalm
    <3>2. obj' = [obj EXCEPT ![p] = s]
      BY <2>1, <2>4
    <3> HIDE DEF s
    <3>3. Kept(obj[p], s)
      BY <2>3, <3>1 DEF Kept, Framed, Hosted
    <3>4. Calm(obj[p], s)
      BY <2>3, <3>1 DEF Calm, Tagged, Timed, Ended
    <3> QED
      BY <2>1, <3>2, <3>3, <3>4, CommandStep
  <2>5. CASE ~(StillMapped(p) /\ r.phase = "wait")
    <3>1. obj' = [obj EXCEPT ![p] = r]
      BY <2>1, <2>5
    <3>2. Writes(p, r)
      BY <2>1, <3>1 DEF Writes
    <3>3. Steady(p, r)
      BY <2>3 DEF Steady, Tagged, Framed, Settled, AllFinished, Ended
    <3>4. (Open(p) /\ Timed(obj[p])) => Timed(r)
      BY <2>3, <2>5, <2>r DEF Open, Timed
    <3>5. Ordinary(p, r)
      BY <2>1, <2>3, <3>4 DEF Ordinary, Tagged
    <3> QED
      BY <2>2, <3>2, <3>3, <3>5 DEF OrdinaryStep
  <2> QED
    BY <2>4, <2>5
<1>5. CASE DeadlineFires(p)
  <2> DEFINE d == [obj[p] EXCEPT !.playArmed = FALSE]
             s == [d EXCEPT !.playLate = "current"]
  <2>1. obj' = [obj EXCEPT ![p] = s]
    BY <1>5 DEF DeadlineFires, TypeOK
  <2>2. d \in RoomType
    BY <1>2, UpdateType
  <2>3. s \in RoomType
    BY <1>2, <2>2, UpdateType
  <2>4. Plain(obj[p], s)
    BY <1>2, <2>3 DEF Plain, Framed, Tagged, Timed, RoomType
  <2> QED
    BY <1>5, <2>1, <2>4, PlainStep DEF DeadlineFires
<1>6. CASE DeadlineExpires(p)
  <2> DEFINE r == [obj[p] EXCEPT !.playLate = "none"]
             s == ExpirePlay(r)
             t == CheckAllReady(s)
  <2>1. r \in RoomType
    BY <1>2, UpdateType
  <2>2. /\ Framed(obj[p], r) /\ r.host = obj[p].host /\ Tagged(obj[p], r)
        /\ r.phase = obj[p].phase /\ r.results = obj[p].results
        /\ r.aborted = obj[p].aborted
        /\ r.readyArmed = obj[p].readyArmed /\ r.readyLate = obj[p].readyLate
    BY <1>2, <2>1 DEF Framed, Tagged, RoomType
  <2>3. /\ obj[p].playLate # "none" /\ StateFree
        /\ UNCHANGED <<rooms, uroom, umon, policy>>
        /\ IF StillMapped(p) /\ r.phase = "play"
           THEN Advance(p, t, Disbands(s)) ELSE Advance(p, r, FALSE)
    BY <1>6 DEF DeadlineExpires
  <2>r. Registered(p) => StillMapped(p)
    BY MappedIsRegistered
  <2>4. Disbands(s) \in BOOLEAN /\ (Disbands(s) => r.contest)
    BY <2>1 DEF Disbands, AllFinished, ExpirePlay, RoomType
  <2> HIDE DEF r
  <2>5. CASE StillMapped(p) /\ r.phase = "play"
    <3>1. Kept(r, t) /\ Tagged(r, t) /\ t.phase = "select"
      BY <2>1, <2>5, ExpirePlayFacts, ExpirePlayTimes
    <3> HIDE DEF s, t
    <3>2. Steady(p, t)
      BY <2>2, <2>3, <3>1 DEF Steady, Kept, Framed, Tagged
    <3>3. Timed(t)
      BY <3>1 DEF Timed
    <3>4. Tagged(obj[p], t)
      BY <2>2, <3>1 DEF Tagged
    <3>5. ~obj[p].contest =>
           /\ ~t.contest
           /\ obj[p].pending = {} => (t.pending = {} /\ (Disbands(s) => Registered(p)))
           /\ (Open(p) /\ Timed(obj[p])) => (Timed(t) \/ Disbands(s))
      BY <2>2, <2>4, <3>3, <3>4 DEF Tagged
    <3> QED
      BY <2>3, <2>4, <2>5, <3>2, <3>5, AdvanceStep
  <2>6. CASE ~(StillMapped(p) /\ r.phase = "play")
    <3>1. Advance(p, r, FALSE)
      BY <2>3, <2>6
    <3>2. Steady(p, r)
      BY <2>2 DEF Steady, Tagged, Framed, Settled, AllFinished, Ended
    <3>3. (Open(p) /\ Timed(obj[p])) => Timed(r)
      BY <2>2, <2>6, <2>r DEF Open, Timed
    <3>4. ~obj[p].contest =>
           /\ ~r.contest
           /\ obj[p].pending = {} => (r.pending = {} /\ (FALSE => Registered(p)))
           /\ (Open(p) /\ Timed(obj[p])) => (Timed(r) \/ FALSE)
      BY <2>2, <3>3 DEF Tagged
    <3> QED
      BY <2>3, <3>1, <3>2, <3>4, AdvanceStep
  <2> QED
    BY <2>5, <2>6
<1> QED
  BY <1>1, <1>3, <1>4, <1>5, <1>6

\* A disband that was decided earlier: there is none outside contests.
LEMMA PendingSteady ==
  ASSUME TypeOK, NEW p \in Ptr, NEW how \in {"checked", "unchecked"},
         DisbandPending(p, how)
  PROVE  OrdinaryStep
<1> DEFINE r == [obj[p] EXCEPT !.pending = @ \ {how}]
           b == (how = "unchecked" \/ StillMapped(p))
<1>1. /\ obj[p] \in RoomType /\ StateFree /\ Advance(p, r, b) /\ b \in BOOLEAN
      /\ obj[p].pending # {}
      /\ UNCHANGED <<rooms, uroom, umon, policy>>
  BY DEF DisbandPending, TypeOK
<1>2. SameRound(obj[p], r)
  BY <1>1, FieldTypes, PendingFacts
<1>3. /\ r.live = obj[p].live /\ r.eligible = obj[p].eligible
      /\ r.contest = obj[p].contest /\ (Timed(obj[p]) => Timed(r))
  BY <1>1 DEF Timed, RoomType
<1> HIDE DEF r, b
<1>4. Steady(p, r)
  BY <1>2, <1>3 DEF Steady, SameRound, Framed, Settled, AllFinished, Ended
<1>5. ~obj[p].contest =>
           /\ ~r.contest
           /\ obj[p].pending = {} => (r.pending = {} /\ (b => Registered(p)))
           /\ (Open(p) /\ Timed(obj[p])) => (Timed(r) \/ b)
  BY <1>1, <1>3
<1> QED
  BY <1>1, <1>4, <1>5, AdvanceStep

\* The contest operations.
LEMMA ContestSteady ==
  ASSUME TypeOK, ContestNext
  PROVE  SteadyStep
<1>1. PICK i \in RoomId :
        \/ DisableContest(i)
        \/ \E ids \in SUBSET User : EnableContest(i, ids)
                                      \/ SetContestWhitelist(i, ids)
        \/ \E force \in BOOLEAN : StartContest(i, force)
  BY DEF ContestNext
<1> DEFINE p == rooms[i]
           r == obj[p]
<1>2. p \in Ptr /\ r \in RoomType /\ {} \in SUBSET User
      /\ UNCHANGED <<rooms, uroom, umon, disbanding, policy>>
  BY <1>1 DEF DisableContest, EnableContest, SetContestWhitelist,
              StartContest, OnRoom, TypeOK
<1>3. \A ids \in SUBSET User : ContestWhitelist(r, ids) \in SUBSET User
  BY <1>2, FieldTypes DEF ContestWhitelist, Participants
<1>4. ASSUME NEW c \in BOOLEAN, NEW wl \in SUBSET User,
             obj' = [obj EXCEPT ![p] = [[r EXCEPT !.contest = c] EXCEPT !.whitelist = wl]]
      PROVE  SteadyStep
  <2> DEFINE d == [r EXCEPT !.contest = c]
             s == [d EXCEPT !.whitelist = wl]
  <2>1. d \in RoomType
    BY <1>2, UpdateType
  <2>2. s \in RoomType
    BY <2>1, UpdateType
  <2>3. /\ Framed(r, s) /\ s.live = r.live /\ s.eligible = r.eligible
        /\ s.phase = r.phase /\ s.results = r.results /\ s.aborted = r.aborted
    BY <1>2, <2>2 DEF Framed, RoomType
  <2>4. obj' = [obj EXCEPT ![p] = s]
    BY <1>4
  <2> HIDE DEF s
  <2>5. Steady(p, s)
    BY <2>3 DEF Steady, Framed, Settled, AllFinished, Ended
  <2>6. Writes(p, s)
    BY <1>2, <2>4 DEF Writes
  <2> HIDE DEF p
  <2> QED
    BY <1>2, <2>2, <2>5, <2>6 DEF SteadyStep
<1>5. CASE DisableContest(i)
  <2>1. obj' = [obj EXCEPT ![p] = [[r EXCEPT !.contest = FALSE] EXCEPT !.whitelist = {}]]
    BY <1>5 DEF DisableContest, TypeOK
  <2> QED
    BY <1>2, <1>4, <2>1
<1>6. ASSUME NEW ids \in SUBSET User, EnableContest(i, ids)
      PROVE  SteadyStep
  <2> DEFINE wl == ContestWhitelist(r, ids)
  <2>1. obj' = [obj EXCEPT ![p] = [[r EXCEPT !.contest = TRUE] EXCEPT !.whitelist = wl]]
    BY <1>6 DEF EnableContest
  <2>2. wl \in SUBSET User
    BY <1>3
  <2> HIDE DEF wl
  <2> QED
    BY <1>4, <2>1, <2>2
<1>7. ASSUME NEW ids \in SUBSET User, SetContestWhitelist(i, ids)
      PROVE  SteadyStep
  <2> DEFINE wl == ContestWhitelist(r, ids)
  <2>1. obj' = [obj EXCEPT ![p] = [r EXCEPT !.whitelist = wl]] /\ r.contest
    BY <1>7 DEF SetContestWhitelist
  <2>2. wl \in SUBSET User
    BY <1>3
  <2> HIDE DEF wl
  <2>3. [r EXCEPT !.contest = TRUE] = r
    BY <1>2, <2>1 DEF RoomType
  <2> QED
    BY <1>4, <2>1, <2>2, <2>3
<1>8. CASE \E force \in BOOLEAN : StartContest(i, force)
  <2> DEFINE s == StartPlaying(r)
  <2>1. /\ Framed(r, s) /\ s.results = {} /\ Tagged(r, s) /\ s.phase = "play"
        /\ obj' = [obj EXCEPT ![p] = s]
    BY <1>2, <1>8, StartPlayingFacts, StartPlayingTimes DEF StartContest
  <2> HIDE DEF s
  <2>2. Steady(p, s)
    BY <2>1 DEF Steady, Tagged, Settled, Ended
  <2>3. s \in RoomType /\ Writes(p, s)
    BY <1>2, <2>1 DEF Writes, Framed
  <2> HIDE DEF p
  <2> QED
    BY <1>2, <2>2, <2>3 DEF SteadyStep
<1> QED
  BY <1>1, <1>5, <1>6, <1>7, <1>8

\* The administrators' operations on a room.
LEMMA RoomAdminSteady ==
  ASSUME TypeOK, RoomAdminNext
  PROVE  OrdinaryStep
<1>1. PICK i \in RoomId :
        \/ AdminDisband(i)
        \/ \E b \in BOOLEAN : SetRoomLocked(i, b) \/ SetRoomCycle(i, b)
        \/ \E n \in 1 .. Cardinality(User) : SetMaxUsers(i, n)
        \/ \E u \in User : TransferHost(i, u) \/ SetNextHost(i, u)
  BY DEF RoomAdminNext
<1> DEFINE p == rooms[i]
           r == obj[p]
<1>2. p \in Ptr /\ r \in RoomType
  BY <1>1 DEF AdminDisband, SetRoomLocked, SetRoomCycle, SetMaxUsers,
              TransferHost, SetNextHost, OnRoom, TypeOK
<1>3. CASE AdminDisband(i)
  <2>1. StateFree /\ Advance(p, r, TRUE) /\ UNCHANGED <<rooms, uroom, umon, policy>>
    BY <1>3 DEF AdminDisband
  <2>2. Steady(p, r)
    BY <1>2 DEF Steady, Framed, Ended
  <2>3. Registered(p)
    BY DEF Registered
  <2> HIDE DEF p
  <2> QED
    BY <1>2, <2>1, <2>2, <2>3, AdvanceStep
<1>4. ASSUME NEW b \in BOOLEAN, SetRoomLocked(i, b) \/ SetRoomCycle(i, b)
      PROVE  OrdinaryStep
  <2>1. /\ obj' = [obj EXCEPT ![p] = [r EXCEPT !.locked = b]]
             \/ obj' = [obj EXCEPT ![p] = [r EXCEPT !.cycle = b]]
        /\ UNCHANGED <<rooms, uroom, umon, disbanding, policy>>
    BY <1>4 DEF SetRoomLocked, SetRoomCycle
  <2>2. Plain(r, [r EXCEPT !.locked = b]) /\ Plain(r, [r EXCEPT !.cycle = b])
    BY <1>2, PlainUpdates
  <2> QED
    BY <1>2, <2>1, <2>2, PlainStep
<1>5. ASSUME NEW n \in 1 .. Cardinality(User), SetMaxUsers(i, n)
      PROVE  OrdinaryStep
  <2>1. /\ obj' = [obj EXCEPT ![p] = [r EXCEPT !.max = n]] /\ n \in Nat
        /\ UNCHANGED <<rooms, uroom, umon, disbanding, policy>>
    BY <1>5 DEF SetMaxUsers
  <2>2. Plain(r, [r EXCEPT !.max = n])
    BY <1>2, <2>1, PlainUpdates
  <2> QED
    BY <1>2, <2>1, <2>2, PlainStep
<1>6. ASSUME NEW u \in User, TransferHost(i, u)
      PROVE  OrdinaryStep
  <2> DEFINE d == [r EXCEPT !.host = u]
             s == [d EXCEPT !.nextHost = None]
  <2>1. /\ obj' = [obj EXCEPT ![p] = s]
        /\ UNCHANGED <<rooms, uroom, umon, disbanding, policy>>
    BY <1>6 DEF TransferHost, TypeOK
  <2>2. Plain(r, d) /\ d \in RoomType
    BY <1>2, PlainUpdates, UpdateType
  <2> HIDE DEF d
  <2>3. Plain(d, s)
    BY <2>2, PlainUpdates
  <2> HIDE DEF s
  <2>4. Plain(r, s)
    BY <2>2, <2>3 DEF Plain, Framed, Tagged
  <2> QED
    BY <1>2, <2>1, <2>4, PlainStep
<1>7. ASSUME NEW u \in User, SetNextHost(i, u)
      PROVE  OrdinaryStep
  <2>1. /\ obj' = [obj EXCEPT ![p] = [r EXCEPT !.nextHost = u]]
        /\ UNCHANGED <<rooms, uroom, umon, disbanding, policy>>
    BY <1>7 DEF SetNextHost
  <2>2. Plain(r, [r EXCEPT !.nextHost = u])
    BY <1>2, PlainUpdates
  <2> QED
    BY <1>2, <2>1, <2>2, PlainStep
<1> QED
  BY <1>1, <1>3, <1>4, <1>5, <1>6, <1>7

\* The first half of a kick: a disband it leaves to be done is of a contest.
LEMMA KickSteady ==
  ASSUME TypeOK, NEW u \in User, KickAbort(u)
  PROVE  OrdinaryStep
<1> DEFINE p == uroom[u]
           r == obj[p]
           s == Abort(r, u)
           t == [s EXCEPT !.pending = @ \cup {"unchecked"}]
<1>1. p \in Ptr /\ r \in RoomType
      /\ UNCHANGED <<rooms, uroom, umon, disbanding, policy>>
  BY DEF KickAbort, TypeOK
<1>2. \/ r.contest /\ obj' = [obj EXCEPT ![p] = t]
      \/ obj' = [obj EXCEPT ![p] = s]
  <2>1. Disbands(Aborted(r, u)) => r.contest
    BY <1>1 DEF Disbands, Aborted, RoomType
  <2> QED
    BY <2>1 DEF KickAbort
<1>3. Kept(r, s) /\ Calm(r, s)
  BY <1>1, AbortFacts, AbortCalm
<1> HIDE DEF s
<1>4. s \in RoomType
  BY <1>3 DEF Kept, Framed
<1>5. SameRound(s, t)
  BY <1>4, FieldTypes, PendingFacts
<1>6. Kept(r, t)
  BY <1>3, <1>5, SameRoundKept
<1>7. t.live = s.live /\ t.eligible = s.eligible /\ t.contest = s.contest
  BY <1>4 DEF RoomType
<1> HIDE DEF t
<1>8. r.contest => Calm(r, t)
  BY <1>3, <1>5, <1>7 DEF Calm, Tagged, Ended, SameRound, Framed
<1> HIDE DEF p
<1> QED
  BY <1>1, <1>2, <1>3, <1>6, <1>8, CommandStep

\* The other way a room is written: u has left and s is what remains.  A room
\* without players is taken off the table; only a contest is disbanded.
LeftBehind(u, s) ==
  LET p    == uroom[u]
      r    == obj[p]
      drop == ShouldDrop(r, u, umon[u])
  IN  /\ obj' = [obj EXCEPT ![p] = s] /\ uroom' = [uroom EXCEPT ![u] = None]
      /\ rooms' = IF drop THEN [rooms EXCEPT ![r.id] = None] ELSE rooms
      /\ s.id = r.id /\ s.eligible = r.eligible
      /\ s.users = IF umon[u] THEN r.users ELSE r.users \ {u}
      /\ s.monitors = IF umon[u] THEN r.monitors \ {u} ELSE r.monitors
      /\ s.live = r.live \/ s.live = (s.monitors # {} \/ (policy.replay /\ s.eligible))
      /\ drop => s.users = {}
      /\ drop \/ Settled(s)
      /\ Ended(r, s)
      /\ disbanding' = disbanding \/ disbanding' = p
      /\ ~r.contest => /\ ~s.contest /\ s.pending = r.pending
                       /\ disbanding' = disbanding
                       /\ Timed(r) => Timed(s)

\* LeavesRoom leaves such a room behind.
LEMMA LeavesBehind ==
  ASSUME TypeOK, StateFree, NEW u \in User, uroom[u] # None,
         NEW refresh \in BOOLEAN, LeavesRoom(u, refresh)
  PROVE  \E s \in RoomType : LeftBehind(u, s)
<1> DEFINE p == uroom[u]
           r == obj[p]
           l == OnUserLeave(r, u, umon[u])
           drop == ShouldDrop(r, u, umon[u])
           b == LeaveDisbands(r, u, umon[u])
           v == IF refresh /\ ~drop THEN RefreshLive(l, policy.replay) ELSE l
           s == IF b THEN BeginDisband(v) ELSE v
<1>1. p \in Ptr /\ r \in RoomType /\ umon[u] \in BOOLEAN /\ policy.replay \in BOOLEAN
  BY DEF TypeOK
<1>2. /\ obj' = [obj EXCEPT ![p] = s]
      /\ disbanding' = IF b THEN p ELSE disbanding
      /\ rooms' = IF drop THEN [rooms EXCEPT ![r.id] = None] ELSE rooms
      /\ uroom' = [uroom EXCEPT ![u] = None]
  BY DEF LeavesRoom, Advance
<1>3. /\ l \in RoomType /\ l.id = r.id
      /\ l.users = IF umon[u] THEN r.users ELSE r.users \ {u}
      /\ l.monitors = IF umon[u] THEN r.monitors \ {u} ELSE r.monitors
      /\ ~HostLeftAlone(r, u, umon[u]) => Settled(l)
  <2>1. Departed(r, u, umon[u], l)
    BY <1>1, OnUserLeaveFacts
  <2> HIDE DEF l
  <2> QED
    BY <2>1 DEF Departed
<1>4. Calm(r, l)
  BY <1>1, OnUserLeaveCalm
<1>5. /\ drop => l.users = {}
      /\ ~drop => ~HostLeftAlone(r, u, umon[u])
  <2> DEFINE m == RemoveMember(r, u, umon[u])
  <2>0. Departed(r, u, umon[u], l)
    BY <1>1, OnUserLeaveFacts
  <2>1. m.users = l.users
    <3> HIDE DEF l
    <3> QED
      BY <2>0 DEF Departed
  <2>2. drop => m.users = {}
    BY DEF ShouldDrop, HostLeftAlone, Participants
  <2>3. ~drop => ~HostLeftAlone(r, u, umon[u])
    BY DEF ShouldDrop
  <2> QED
    BY <2>1, <2>2, <2>3
<1>6. b => r.contest
  <2> DEFINE m == RemoveMember(r, u, umon[u])
             h == HandedOver(r, u, umon[u])
  <2>1. m \in RoomType
    BY <1>1, RemoveMemberFacts
  <2>2. m.contest = r.contest
    BY <1>1 DEF RemoveMember, RoomType
  <2>3. h = IF r.host = u THEN [m EXCEPT !.host = PickNextHost(m.users, u)] ELSE m
    BY DEF HandedOver
  <2>4. b => h.contest
    BY DEF LeaveDisbands, Disbands
  <2> HIDE DEF m, h
  <2>5. h.contest = m.contest
    BY <2>1, <2>3 DEF RoomType
  <2> QED
    BY <2>2, <2>4, <2>5
<1> HIDE DEF l, drop, b
<1>7. /\ SameRound(l, v) /\ v.contest = l.contest /\ v.eligible = l.eligible
      /\ v.pending = l.pending /\ (Timed(l) => Timed(v))
      /\ v.live = l.live \/ v.live = (v.monitors # {} \/ (policy.replay /\ v.eligible))
  <2>1. CASE v = l
    BY <1>3, <2>1 DEF SameRound, Framed
  <2>2. CASE v = RefreshLive(l, policy.replay)
    BY <1>1, <1>3, <2>2, RefreshLiveFacts, RefreshLiveTimes
  <2> QED
    BY <2>1, <2>2
<1> HIDE DEF v
<1>8. SameRound(v, s) /\ Tagged(v, s) /\ (~b => s = v)
  <2> DEFINE c == CancelReadyCountdown(v)
             d == CancelPlayDeadline(c)
  <2>0. v \in RoomType
    BY <1>7 DEF SameRound, Framed
  <2>1. SameRound(v, c) /\ Tagged(v, c)
    BY <2>0, TimerFacts, TimerTags
  <2>2. c \in RoomType /\ s = IF b THEN d ELSE v
    BY <2>1 DEF SameRound, Framed, BeginDisband
  <2> HIDE DEF c, s
  <2>3. SameRound(c, d) /\ Tagged(c, d)
    BY <2>2, TimerFacts, TimerTags
  <2> HIDE DEF d
  <2> QED
    BY <2>0, <2>1, <2>2, <2>3 DEF SameRound, Framed, Tagged
<1> HIDE DEF s
<1>9. /\ s \in RoomType /\ s.id = l.id /\ s.users = l.users /\ s.monitors = l.monitors
      /\ s.phase = l.phase /\ s.results = l.results /\ s.aborted = l.aborted
      /\ s.eligible = l.eligible /\ s.contest = l.contest
      /\ s.live = l.live \/ s.live = (s.monitors # {} \/ (policy.replay /\ s.eligible))
  BY <1>7, <1>8 DEF SameRound, Framed, Tagged
<1>10. drop \/ Settled(s)
  BY <1>3, <1>5, <1>9 DEF Settled, AllFinished
<1>11. Ended(r, s)
  BY <1>4, <1>9 DEF Calm, Ended
<1>12. s.eligible = r.eligible
       /\ (s.live = r.live \/ s.live = (s.monitors # {} \/ (policy.replay /\ s.eligible)))
  BY <1>4, <1>9 DEF Calm, Tagged
<1>13. ~r.contest => /\ ~s.contest /\ s.pending = r.pending
                     /\ disbanding' = disbanding
                     /\ Timed(r) => Timed(s)
  BY <1>2, <1>4, <1>6, <1>7, <1>8 DEF Calm, Tagged
<1>14. disbanding' = disbanding \/ disbanding' = p
  BY <1>2
<1> QED
  BY <1>2, <1>3, <1>5, <1>9, <1>10, <1>11, <1>12, <1>13, <1>14 DEF LeftBehind, drop

-----------------------------------------------------------------------------
(* Members and results of a server on which nobody may watch. *)

\* Nobody watches.
Unwatched ==
  /\ \A u \in User : ~umon[u]
  /\ \A p \in Ptr : obj[p].monitors = {}

Orderly == Unwatched /\ MembersPointBack /\ ResultsSettled

\* An object is written by a step that opens no other room.
LEMMA ObjectWrite ==
  ASSUME TypeOK, Unwatched, ResultsSettled,
         NEW p \in Ptr, NEW s \in RoomType, obj' = [obj EXCEPT ![p] = s],
         s.monitors = {}, \A u \in User : ~umon'[u],
         \A q \in Ptr : q # p => (Open(q)' => Open(q)),
         Open(p)' => Settled(s)
  PROVE  Unwatched' /\ ResultsSettled'
<1>1. obj'[p] = s /\ \A q \in Ptr : q # p => obj'[q] = obj[q]
  BY DEF TypeOK
<1>2. Unwatched'
  BY <1>1 DEF Unwatched
<1>3. ASSUME NEW q \in Ptr, Open(q)', obj'[q].phase = "play", AllFinished(obj'[q])
      PROVE  obj'[q].results = {}
  <2>1. CASE q = p
    BY <1>1, <1>3, <2>1 DEF Settled
  <2>2. CASE q # p
    <3>1. Open(q) /\ obj[q].phase = "play" /\ AllFinished(obj[q])
      BY <1>1, <1>3, <2>2
    <3> QED
      BY <1>1, <2>2, <3>1 DEF ResultsSettled
  <2> QED
    BY <2>1, <2>2
<1>4. ResultsSettled'
  BY <1>3 DEF ResultsSettled
<1> QED
  BY <1>2, <1>4

\* A step that changes nothing of this.
LEMMA IdleOrderly ==
  ASSUME Orderly, IdleStep
  PROVE  Orderly'
  BY DEF Orderly, IdleStep, Unwatched, MembersPointBack, ResultsSettled,
     Open, Registered

\* A step that writes one object and no member.
LEMMA SteadyOrderly ==
  ASSUME TypeOK, Orderly, SteadyStep
  PROVE  Orderly'
<1>1. PICK p \in Ptr, s \in RoomType : Writes(p, s) /\ Steady(p, s)
  BY DEF SteadyStep
<1>2. /\ obj' = [obj EXCEPT ![p] = s] /\ UNCHANGED <<rooms, uroom, umon, policy>>
      /\ disbanding' = disbanding \/ (disbanding = None /\ disbanding' = p)
  BY <1>1 DEF Writes
<1>3. /\ s.users = obj[p].users /\ s.monitors = obj[p].monitors
      /\ Settled(obj[p]) => Settled(s)
  BY <1>1 DEF Steady, Framed
<1>4. \A q \in Ptr : Registered(q)' <=> Registered(q)
  BY <1>2 DEF Registered
<1>5. \A q \in Ptr : q # p => (Open(q)' => Open(q))
  BY <1>2, <1>4, PtrAssumption DEF Open
<1>6. Open(p)' => Settled(s)
  <2>1. Open(p)' => Open(p)
    BY <1>2, <1>4 DEF Open
  <2>2. Open(p) => Settled(obj[p])
    BY DEF Orderly, ResultsSettled, Settled
  <2> QED
    BY <1>3, <2>1, <2>2
<1>7. s.monitors = {} /\ \A u \in User : ~umon'[u]
  BY <1>2, <1>3 DEF Orderly, Unwatched
<1>9. Unwatched' /\ ResultsSettled'
  BY <1>2, <1>5, <1>6, <1>7, ObjectWrite DEF Orderly
<1>10. MembersPointBack'
  BY <1>2, <1>3 DEF Orderly, MembersPointBack, TypeOK
<1> QED
  BY <1>9, <1>10 DEF Orderly

\* A member leaves.  The room that is taken off the table had no other name.
LEMMA LeaveOrderly ==
  ASSUME TypeOK, RegisteredHost, Orderly, StateFree, NEW u \in User, uroom[u] # None,
         NEW refresh \in BOOLEAN, LeavesRoom(u, refresh),
         \A w \in User : ~umon'[w]
  PROVE  Orderly'
<1>1. PICK s \in RoomType : LeftBehind(u, s)
  BY LeavesBehind
<1>p. PICK p \in Ptr : p = uroom[u]
  BY DEF TypeOK
<1> DEFINE r == obj[p]
           drop == ShouldDrop(r, u, umon[u])
<1>2. p \in Ptr /\ r \in RoomType /\ ~umon[u] /\ r.monitors = {}
  BY DEF TypeOK, Orderly, Unwatched
<1>3. /\ obj' = [obj EXCEPT ![p] = s] /\ uroom' = [uroom EXCEPT ![u] = None]
      /\ rooms' = IF drop THEN [rooms EXCEPT ![r.id] = None] ELSE rooms
      /\ s.users = r.users \ {u} /\ s.monitors = {}
      /\ drop \/ Settled(s)
  BY <1>1, <1>2, <1>p DEF LeftBehind
<1> HIDE DEF drop
<1>4. \A q \in Ptr : Registered(q)' => Registered(q)
  BY <1>2, <1>3, PtrAssumption DEF Registered, TypeOK
<1>5. \A q \in Ptr : Open(q)' => Open(q)
  BY <1>4, PtrAssumption DEF Open, StateFree
<1>6. drop => ~Registered(p)'
  <2> SUFFICES ASSUME drop, NEW i \in RoomId, rooms'[i] = p PROVE FALSE
    BY DEF Registered
  <2>1. i # r.id /\ rooms[i] = p
    BY <1>2, <1>3, PtrAssumption DEF TypeOK
  <2> QED
    BY <1>2, <2>1, PtrAssumption DEF RegisteredHost
<1>7. Open(p)' => Settled(s)
  BY <1>3, <1>6 DEF Open
<1>9. Unwatched' /\ ResultsSettled'
  BY <1>2, <1>3, <1>5, <1>7, ObjectWrite DEF Orderly
<1>10. ASSUME NEW q \in Ptr, NEW w \in obj'[q].users PROVE uroom'[w] = q
  <2>1. w \in obj[q].users /\ w \in User /\ uroom[w] = q
    <3>1. obj[q].users \in SUBSET User /\ w \in obj[q].users
      BY <1>2, <1>3, <1>10, FieldTypes DEF TypeOK
    <3> QED
      BY <3>1 DEF Orderly, MembersPointBack
  <2>2. w # u
    BY <1>2, <1>3, <1>10, <1>p, <2>1 DEF TypeOK
  <2> QED
    BY <1>3, <2>1, <2>2 DEF TypeOK
<1>11. MembersPointBack'
  BY <1>10 DEF MembersPointBack
<1> QED
  BY <1>9, <1>11 DEF Orderly

\* Logins, disconnects and expired grace periods.
LEMMA ConnectionOrderly ==
  ASSUME TypeOK, RegisteredHost, Orderly, ConnectionNext
  PROVE  Orderly'
<1>1. PICK u \in User : Connect(u) \/ Reconnect(u) \/ Disconnect(u)
                          \/ Dangle(u) \/ ProcessDangle(u)
  BY DEF ConnectionNext
<1>2. CASE Connect(u) \/ Reconnect(u) \/ Dangle(u)
  BY <1>2, IdleOrderly DEF Connect, Reconnect, Dangle, IdleStep
<1>3. CASE Disconnect(u) \/ ProcessDangle(u)
  <2>1. StateFree /\ RemoveUser(u)
    BY <1>3 DEF Disconnect, ProcessDangle
  <2>2. \A w \in User : ~umon'[w]
    BY <2>1 DEF RemoveUser, TypeOK, Orderly, Unwatched
  <2>3. CASE uroom[u] = None
    <3>1. UNCHANGED <<rooms, obj, uroom, disbanding, policy>>
      BY <2>1, <2>3 DEF RemoveUser
    <3> QED
      BY <2>2, <3>1 DEF Orderly, Unwatched, MembersPointBack, ResultsSettled,
         Open, Registered
  <2>4. CASE uroom[u] # None
    <3>1. LeavesRoom(u, FALSE)
      BY <2>1, <2>4 DEF RemoveUser
    <3> QED
      BY <2>1, <2>2, <2>4, <3>1, LeaveOrderly
  <2> QED
    BY <2>3, <2>4
<1> QED
  BY <1>1, <1>2, <1>3

\* What makes the next state orderly, object by object.
LEMMA OrderlyObjects ==
  ASSUME \A u \in User : ~umon'[u],
         \A p \in Ptr : /\ obj'[p].monitors = {}
                        /\ Open(p)' => Settled(obj'[p])
                        /\ \A u \in obj'[p].users : uroom'[u] = p
  PROVE  Orderly'
<1>1. Unwatched' /\ MembersPointBack'
  BY DEF Unwatched, MembersPointBack
<1>2. ResultsSettled'
  BY DEF ResultsSettled, Settled
<1> QED
  BY <1>1, <1>2 DEF Orderly

\* The same of the current state.
LEMMA OrderlyNow ==
  ASSUME TypeOK, Orderly, NEW p \in Ptr
  PROVE  /\ obj[p] \in RoomType /\ obj[p].monitors = {}
         /\ Open(p) => Settled(obj[p])
         /\ \A u \in obj[p].users : uroom[u] = p /\ u \in User
<1>1. obj[p] \in RoomType
  BY DEF TypeOK
<1>2. obj[p].monitors = {} /\ \A u \in obj[p].users : uroom[u] = p /\ u \in User
  BY <1>1, FieldTypes DEF Orderly, Unwatched, MembersPointBack
<1>3. Open(p) => Settled(obj[p])
  BY DEF Orderly, ResultsSettled, Settled
<1> QED
  BY <1>1, <1>2, <1>3

\* CreateRoom uses an object that nobody's Room is.
LEMMA CreateOrderly ==
  ASSUME TypeOK, Orderly, NEW u \in User, NEW i \in RoomId, NEW p \in Ptr,
         CreateRoom(u, i, p)
  PROVE  Orderly'
<1> DEFINE n == NewRoom(i, u, policy.replay)
<1>1. policy.replay \in BOOLEAN
  BY DEF TypeOK
<1>2. /\ n \in RoomType /\ n.users = {u} /\ n.monitors = {} /\ n.phase = "select"
  BY <1>1, NewRoomFacts
<1>3. /\ obj' = [obj EXCEPT ![p] = n] /\ rooms' = [rooms EXCEPT ![i] = p]
      /\ uroom' = [uroom EXCEPT ![u] = p] /\ uroom[u] = None /\ StateFree
      /\ UNCHANGED <<umon, disbanding, policy>>
  BY DEF CreateRoom
<1> HIDE DEF n
<1>4. ASSUME NEW q \in Ptr
      PROVE  /\ obj'[q].monitors = {}
             /\ Open(q)' => Settled(obj'[q])
             /\ \A w \in obj'[q].users : uroom'[w] = q
  <2>1. CASE q = p
    BY <1>2, <1>3, <2>1 DEF Settled, TypeOK
  <2>2. CASE q # p
    <3>1. obj'[q] = obj[q] /\ (Registered(q)' => Registered(q)) /\ (Open(q)' => Open(q))
      BY <1>3, <2>2 DEF Registered, Open, TypeOK
    <3>2. \A w \in obj[q].users : uroom'[w] = q
      BY <1>3, OrderlyNow, PtrAssumption DEF TypeOK
    <3> QED
      BY <1>3, <3>1, <3>2, OrderlyNow
  <2> QED
    BY <2>1, <2>2
<1>5. \A w \in User : ~umon'[w]
  BY <1>3 DEF Orderly, Unwatched
<1> QED
  BY <1>4, <1>5, OrderlyObjects

\* Without monitors everybody joins as a player, and only who is in no room.
LEMMA JoinOrderly ==
  ASSUME TypeOK, Orderly, Monitors = {}, NEW u \in User, NEW i \in RoomId,
         NEW mon \in BOOLEAN, JoinRoom(u, i, mon)
  PROVE  Orderly'
<1>1. PICK p \in Ptr : p = rooms[i]
  BY DEF TypeOK, JoinRoom
<1> DEFINE r == obj[p]
           s == Joined(r, u, FALSE, policy.replay)
<1>2. ~mon /\ uroom[u] = None /\ policy.replay \in BOOLEAN /\ r \in RoomType
  BY <1>1 DEF JoinRoom, ValidateJoin, TypeOK
<1>3. /\ obj' = [obj EXCEPT ![p] = s]
      /\ uroom' = [uroom EXCEPT ![u] = p] /\ umon' = [umon EXCEPT ![u] = FALSE]
      /\ UNCHANGED <<rooms, disbanding, policy>>
  <2>1. mon = FALSE
    BY <1>2
  <2> QED
    BY <1>1, <2>1 DEF JoinRoom, Joined
<1>4. r.monitors = {} /\ u \notin r.users /\ (Open(p) => Settled(r))
  BY <1>2, OrderlyNow, PtrAssumption
<1>5. /\ s \in RoomType /\ s.users = r.users \cup {u} /\ s.monitors = {}
      /\ Settled(r) => Settled(s)
  <2> DEFINE rep == policy.replay
             mn == FALSE
  <2>1. r \in RoomType /\ rep \in BOOLEAN /\ mn \in BOOLEAN /\ ~mn
    BY <1>2
  <2>2. r.monitors = {} /\ u \notin r.users /\ s = Joined(r, u, mn, rep)
    BY <1>4
  <2> HIDE DEF r, rep, s, mn
  <2> QED
    BY <2>1, <2>2, JoinFacts
<1> HIDE DEF s
<1>7. ASSUME NEW q \in Ptr
      PROVE  /\ obj'[q].monitors = {}
             /\ Open(q)' => Settled(obj'[q])
             /\ \A w \in obj'[q].users : uroom'[w] = q
  <2>0. (Registered(q)' <=> Registered(q)) /\ (Open(q)' <=> Open(q))
    BY <1>3 DEF Registered, Open
  <2>1. CASE q = p
    <3>1. \A w \in r.users : uroom'[w] = p
      BY <1>3, OrderlyNow DEF TypeOK
    <3>2. uroom'[u] = p /\ obj'[q] = s
      BY <1>3, <2>1 DEF TypeOK
    <3> QED
      BY <1>3, <1>4, <1>5, <2>0, <2>1, <3>1, <3>2
  <2>2. CASE q # p
    <3>1. obj'[q] = obj[q]
      BY <1>3, <2>2 DEF TypeOK
    <3>2. \A w \in obj[q].users : uroom'[w] = q
      BY <1>2, <1>3, OrderlyNow, PtrAssumption DEF TypeOK
    <3> QED
      BY <1>3, <2>0, <3>1, <3>2, OrderlyNow
  <2> QED
    BY <2>1, <2>2
<1>8. \A w \in User : ~umon'[w]
  BY <1>3 DEF Orderly, Unwatched, TypeOK
<1> QED
  BY <1>7, <1>8, OrderlyObjects

\* Creating, joining and leaving.
LEMMA MembershipOrderly ==
  ASSUME TypeOK, RegisteredHost, Orderly, Monitors = {}, MembershipNext
  PROVE  Orderly'
<1>1. PICK u \in User :
        \/ LeaveRoom(u)
        \/ \E i \in RoomId : \/ \E p \in Ptr : CreateRoom(u, i, p)
                             \/ \E mon \in BOOLEAN : JoinRoom(u, i, mon)
  BY DEF MembershipNext
<1>2. CASE LeaveRoom(u)
  <2>1. StateFree /\ uroom[u] # None /\ LeavesRoom(u, TRUE) /\ UNCHANGED <<umon, policy>>
    BY <1>2 DEF LeaveRoom, InRoom
  <2>2. \A w \in User : ~umon'[w]
    BY <2>1 DEF Orderly, Unwatched
  <2> QED
    BY <2>1, <2>2, LeaveOrderly
<1>3. CASE \E i \in RoomId, p \in Ptr : CreateRoom(u, i, p)
  BY <1>3, CreateOrderly
<1>4. CASE \E i \in RoomId, mon \in BOOLEAN : JoinRoom(u, i, mon)
  BY <1>4, JoinOrderly
<1> QED
  BY <1>1, <1>2, <1>3, <1>4

\* DisbandRoom: its members leave, then its entry goes.
LEMMA DisbandOrderly ==
  ASSUME TypeOK, RegisteredHost, Orderly, DisbandNext
  PROVE  Orderly'
<1>1. ASSUME NEW u \in User, DisbandLeave(u) PROVE Orderly'
  <2>1. PICK p \in Ptr : p = disbanding
    BY <1>1 DEF DisbandLeave, TypeOK
  <2> DEFINE r == obj[p]
             s == OnUserLeave(r, u, FALSE)
  <2>2. r \in RoomType /\ ~umon[u] /\ r.monitors = {}
    BY OrderlyNow DEF Orderly, Unwatched
  <2>3. /\ obj' = [obj EXCEPT ![p] = s] /\ uroom' = [uroom EXCEPT ![u] = None]
        /\ UNCHANGED <<rooms, umon, disbanding, policy>>
    <3>1. umon[u] = FALSE
      BY <2>2 DEF TypeOK
    <3> QED
      BY <1>1, <2>1, <3>1 DEF DisbandLeave
  <2>4. u \in r.users
    BY <1>1, <2>1, <2>2 DEF DisbandLeave, ToLeave, Participants
  <2>l. Departed(r, u, FALSE, s)
    BY <2>2, OnUserLeaveFacts
  <2>5. s \in RoomType /\ s.users = r.users \ {u} /\ s.monitors = {}
    <3> HIDE DEF s
    <3> QED
      BY <2>2, <2>l DEF Departed
  <2> HIDE DEF s
  <2>7. ASSUME NEW q \in Ptr
        PROVE  /\ obj'[q].monitors = {}
               /\ Open(q)' => Settled(obj'[q])
               /\ \A w \in obj'[q].users : uroom'[w] = q
    <3>0. (Registered(q)' <=> Registered(q)) /\ (Open(q)' <=> Open(q))
      BY <2>3 DEF Registered, Open
    <3>1. CASE q = p
      <4>1. ~Open(q)'
        BY <2>1, <3>0, <3>1 DEF Open
      <4>2. obj'[q] = s /\ \A w \in s.users : uroom'[w] = p
        BY <2>3, <2>5, <3>1, OrderlyNow DEF TypeOK
      <4> QED
        BY <2>3, <2>5, <3>0, <3>1, <4>1, <4>2, OrderlyNow
    <3>2. CASE q # p
      <4>1. obj'[q] = obj[q]
        BY <2>3, <3>2 DEF TypeOK
      <4>2. uroom[u] = p
        BY <2>4, OrderlyNow
      <4>3. \A w \in obj[q].users : uroom'[w] = q
        BY <2>3, <3>2, <4>2, OrderlyNow DEF TypeOK
      <4> QED
        BY <2>3, <3>0, <4>1, <4>3, OrderlyNow
    <3> QED
      BY <3>1, <3>2
  <2>8. \A w \in User : ~umon'[w]
    BY <2>3 DEF Orderly, Unwatched
  <2> QED
    BY <2>7, <2>8, OrderlyObjects
<1>2. CASE DisbandEnd
  <2>1. PICK p \in Ptr : p = disbanding
    BY <1>2 DEF DisbandEnd, TypeOK
  <2>2. /\ rooms' = [rooms EXCEPT ![obj[p].id] = None] /\ disbanding' = None
        /\ UNCHANGED <<obj, uroom, umon, policy>>
    BY <1>2, <2>1 DEF DisbandEnd
  <2>3. \A q \in Ptr : Registered(q)' => Registered(q)
    BY <2>2, PtrAssumption DEF Registered, TypeOK
  <2>4. ~Registered(p)'
    <3> SUFFICES ASSUME NEW i \in RoomId, rooms'[i] = p PROVE FALSE
      BY DEF Registered
    <3>1. i # obj[p].id /\ rooms[i] = p
      BY <2>2, PtrAssumption DEF TypeOK
    <3> QED
      BY <3>1, PtrAssumption DEF RegisteredHost
  <2>5. \A q \in Ptr : Open(q)' => Open(q)
    BY <2>1, <2>3, <2>4 DEF Open
  <2> QED
    BY <2>2, <2>3, <2>5 DEF Orderly, Unwatched, MembersPointBack, ResultsSettled
<1>3. ASSUME NEW p \in Ptr, NEW how \in {"checked", "unchecked"}, DisbandPending(p, how)
      PROVE  Orderly'
  <2>1. SteadyStep
    BY <1>3, PendingSteady DEF OrdinaryStep, SteadyStep
  <2> QED
    BY <2>1, SteadyOrderly
<1> QED
  BY <1>1, <1>2, <1>3 DEF DisbandNext

\* AddUser keeps the flags and the round.
LEMMA AddUserTags ==
  ASSUME NEW r \in RoomType, NEW u \in User, NEW mon \in BOOLEAN
  PROVE  /\ Tagged(r, AddUser(r, u, mon)) /\ (Timed(r) => Timed(AddUser(r, u, mon)))
         /\ AddUser(r, u, mon).phase = r.phase
  BY DEF AddUser, Tagged, Timed, RoomType

\* MoveUser has made a of the target q and l of the source p.
Moved(u, p, q, a, l, drop) ==
  /\ obj' = [[obj EXCEPT ![q] = a] EXCEPT ![p] = l]
  /\ rooms' = IF drop THEN [rooms EXCEPT ![obj[p].id] = None] ELSE rooms
  /\ uroom' = [uroom EXCEPT ![u] = q] /\ umon' = [umon EXCEPT ![u] = FALSE]
  /\ UNCHANGED <<disbanding, policy>> /\ StateFree
  /\ a.users = obj[q].users \cup {u} /\ a.monitors = obj[q].monitors
  /\ Tagged(obj[q], a) /\ a.phase = "select" /\ (Timed(obj[q]) => Timed(a))
  /\ l.users = obj[p].users \ {u} /\ l.monitors = obj[p].monitors
  /\ Tagged(obj[p], l) /\ ((~obj[p].contest /\ Timed(obj[p])) => Timed(l))
  /\ drop => l.users = {}
  /\ drop \/ Settled(l)
  /\ obj[p].phase = "select" /\ obj[q].phase = "select"

\* MoveUser without monitors: what it leaves of both rooms.
LEMMA MoveWrites ==
  ASSUME TypeOK, NEW u \in User, NEW i \in RoomId, NEW p \in Ptr, NEW q \in Ptr,
         p = uroom[u], q = rooms[i], umon[u] = FALSE, MoveUser(u, i, FALSE)
  PROVE  \E a \in RoomType, l \in RoomType, drop \in BOOLEAN : Moved(u, p, q, a, l, drop)
<1> DEFINE a == AddUser(obj[q], u, FALSE)
           w == IF p = q THEN a ELSE obj[p]
           l == OnUserLeave(w, u, FALSE)
           drop == ShouldDrop(w, u, FALSE)
<1>1. obj[p] \in RoomType /\ obj[q] \in RoomType /\ FALSE \in BOOLEAN
  BY DEF TypeOK
<1>2. /\ a \in RoomType /\ a.id = obj[q].id /\ a.users = obj[q].users \cup {u}
      /\ a.monitors = obj[q].monitors /\ a.phase = obj[q].phase
  BY <1>1, AddUserFacts
<1>3. Tagged(obj[q], a) /\ (Timed(obj[q]) => Timed(a))
  BY <1>1, AddUserTags
<1>4. /\ obj' = [[obj EXCEPT ![q] = a] EXCEPT ![p] = l]
      /\ rooms' = IF drop THEN [rooms EXCEPT ![w.id] = None] ELSE rooms
      /\ uroom' = [uroom EXCEPT ![u] = q] /\ umon' = [umon EXCEPT ![u] = FALSE]
      /\ UNCHANGED <<disbanding, policy>> /\ StateFree
      /\ obj[p].phase = "select" /\ obj[q].phase = "select"
  <2>1. [obj EXCEPT ![q] = a][p] = w
    BY DEF TypeOK
  <2> QED
    BY <2>1 DEF MoveUser
<1> HIDE DEF a
<1>5. /\ w \in RoomType /\ w.id = obj[p].id /\ w.users \ {u} = obj[p].users \ {u}
      /\ w.monitors = obj[p].monitors /\ Tagged(obj[p], w) /\ (Timed(obj[p]) => Timed(w))
  BY <1>1, <1>2, <1>3 DEF Tagged
<1> HIDE DEF w
<1>6. /\ l \in RoomType /\ l.users = w.users \ {u} /\ l.monitors = w.monitors
      /\ ~HostLeftAlone(w, u, FALSE) => Settled(l)
  <2>1. Departed(w, u, FALSE, l)
    BY <1>1, <1>5, OnUserLeaveFacts
  <2> HIDE DEF l
  <2> QED
    BY <2>1 DEF Departed
<1>7. Tagged(w, l) /\ ((~w.contest /\ Timed(w)) => Timed(l))
  BY <1>1, <1>5, OnUserLeaveCalm DEF Calm
<1>8. /\ drop \in BOOLEAN /\ (drop => l.users = {})
      /\ ~drop => ~HostLeftAlone(w, u, FALSE)
  <2> DEFINE m == RemoveMember(w, u, FALSE)
  <2>0. Departed(w, u, FALSE, l)
    BY <1>1, <1>5, OnUserLeaveFacts
  <2>1. m.users = l.users
    <3> HIDE DEF l
    <3> QED
      BY <2>0 DEF Departed
  <2>2. drop => m.users = {}
    BY DEF ShouldDrop, HostLeftAlone, Participants
  <2>3. drop \in BOOLEAN /\ (~drop => ~HostLeftAlone(w, u, FALSE))
    BY DEF ShouldDrop, HostLeftAlone
  <2> QED
    BY <2>1, <2>2, <2>3
<1> HIDE DEF l, drop
<1>9. Tagged(obj[p], l) /\ ((~obj[p].contest /\ Timed(obj[p])) => Timed(l))
  BY <1>5, <1>7 DEF Tagged
<1>10. /\ obj' = [[obj EXCEPT ![q] = a] EXCEPT ![p] = l]
       /\ rooms' = IF drop THEN [rooms EXCEPT ![obj[p].id] = None] ELSE rooms
       /\ uroom' = [uroom EXCEPT ![u] = q] /\ umon' = [umon EXCEPT ![u] = FALSE]
       /\ UNCHANGED <<disbanding, policy>> /\ StateFree
       /\ obj[p].phase = "select" /\ obj[q].phase = "select"
  BY <1>4, <1>5
<1>11. l.users = obj[p].users \ {u} /\ l.monitors = obj[p].monitors /\ a.phase = "select"
  BY <1>2, <1>5, <1>6, <1>10
<1>12. Moved(u, p, q, a, l, drop)
  BY <1>2, <1>3, <1>8, <1>9, <1>10, <1>11, <1>6 DEF Moved
<1> QED
  BY <1>2, <1>6, <1>8, <1>12

\* An absent user is moved: into the target's list, out of the source's.
LEMMA MoveOrderly ==
  ASSUME TypeOK, RegisteredHost, Orderly, Monitors = {}, NEW u \in User,
         NEW i \in RoomId, NEW mon \in BOOLEAN, MoveUser(u, i, mon)
  PROVE  Orderly'
<1>1. mon = FALSE /\ umon[u] = FALSE
  BY DEF MoveUser, ValidateJoin, Orderly, Unwatched, TypeOK
<1>m. MoveUser(u, i, FALSE)
  BY <1>1
<1>2. PICK p \in Ptr, q \in Ptr : p = uroom[u] /\ q = rooms[i]
  BY DEF MoveUser, TypeOK
<1>p. PICK a \in RoomType, l \in RoomType, drop \in BOOLEAN : Moved(u, p, q, a, l, drop)
  BY <1>1, <1>2, <1>m, MoveWrites
<1>3. /\ obj' = [[obj EXCEPT ![q] = a] EXCEPT ![p] = l]
      /\ rooms' = IF drop THEN [rooms EXCEPT ![obj[p].id] = None] ELSE rooms
      /\ uroom' = [uroom EXCEPT ![u] = q] /\ umon' = [umon EXCEPT ![u] = FALSE]
      /\ UNCHANGED <<disbanding, policy>> /\ StateFree
      /\ a.users = obj[q].users \cup {u} /\ a.monitors = obj[q].monitors
      /\ Tagged(obj[q], a) /\ a.phase = "select"
      /\ l.users = obj[p].users \ {u} /\ l.monitors = obj[p].monitors
      /\ Tagged(obj[p], l)
      /\ drop \/ Settled(l)
  BY <1>p DEF Moved
<1>4. \A x \in Ptr : (Registered(x)' => Registered(x)) /\ (Open(x)' => Open(x))
  BY <1>3, PtrAssumption DEF Registered, Open, StateFree, TypeOK
<1>5. drop => ~Registered(p)'
  <2> SUFFICES ASSUME drop, NEW j \in RoomId, rooms'[j] = p PROVE FALSE
    BY DEF Registered
  <2>1. j # obj[p].id /\ rooms[j] = p
    BY <1>3, PtrAssumption DEF TypeOK
  <2> QED
    BY <2>1, PtrAssumption DEF RegisteredHost
<1>6. ASSUME NEW x \in Ptr
      PROVE  /\ obj'[x].monitors = {}
             /\ Open(x)' => Settled(obj'[x])
             /\ \A w \in obj'[x].users : uroom'[w] = x
  <2>0. /\ obj[x].monitors = {} /\ (Open(x) => Settled(obj[x]))
    BY OrderlyNow
  <2>1. CASE x = p
    <3>1. obj'[x] = l
      BY <1>3, <2>1 DEF TypeOK
    <3>2. \A w \in l.users : uroom'[w] = x
      BY <1>3, <2>1, OrderlyNow DEF TypeOK
    <3>3. Open(x)' => Settled(l)
      BY <1>3, <1>5, <2>1 DEF Open
    <3> QED
      BY <1>3, <1>4, <2>0, <2>1, <3>1, <3>2, <3>3 DEF Tagged
  <2>2. CASE x # p /\ x = q
    <3>1. obj'[x] = a
      BY <1>3, <2>2 DEF TypeOK
    <3>2. \A w \in a.users : uroom'[w] = x
      BY <1>3, <2>2, OrderlyNow DEF TypeOK
    <3> QED
      BY <1>3, <1>4, <2>0, <2>2, <3>1, <3>2 DEF Tagged, Settled
  <2>3. CASE x # p /\ x # q
    <3>1. obj'[x] = obj[x]
      BY <1>3, <2>3 DEF TypeOK
    <3>2. \A w \in obj[x].users : uroom'[w] = x
      BY <1>2, <1>3, <2>3, OrderlyNow DEF TypeOK
    <3> QED
      BY <1>4, <2>0, <3>1, <3>2
  <2> QED
    BY <2>1, <2>2, <2>3
<1>7. \A w \in User : ~umon'[w]
  BY <1>3 DEF Orderly, Unwatched, TypeOK
<1> QED
  BY <1>6, <1>7, OrderlyObjects

\* A new policy changes no member and no round.
LEMMA PolicyOrderly ==
  ASSUME TypeOK, Orderly, NEW new, SetPolicy(new), new.replay \in BOOLEAN
  PROVE  Orderly'
<1>1. /\ policy' = new /\ UNCHANGED <<rooms, uroom, umon, disbanding>>
      /\ \A p \in Ptr : obj'[p] = IF new.replay # policy.replay /\ Registered(p)
                                  THEN RefreshLive(obj[p], new.replay) ELSE obj[p]
  BY DEF SetPolicy
<1>2. ASSUME NEW p \in Ptr
      PROVE  /\ obj'[p].monitors = {}
             /\ Open(p)' => Settled(obj'[p])
             /\ \A w \in obj'[p].users : uroom'[w] = p
  <2>1. (Registered(p)' <=> Registered(p)) /\ (Open(p)' <=> Open(p))
    BY <1>1 DEF Registered, Open
  <2>2. CASE new.replay # policy.replay /\ Registered(p)
    <3> DEFINE s == RefreshLive(obj[p], new.replay)
    <3>1. obj'[p] = s
      BY <1>1, <2>2
    <3>2. obj[p] \in RoomType
      BY DEF TypeOK
    <3>3. SameRound(obj[p], s)
      BY <3>2, RefreshLiveFacts
    <3> HIDE DEF s
    <3> QED
      BY <1>1, <2>1, <3>1, <3>3, OrderlyNow DEF SameRound, Framed, Settled, AllFinished
  <2>3. CASE ~(new.replay # policy.replay /\ Registered(p))
    <3>1. obj'[p] = obj[p] /\ (Registered(p) => new.replay = policy.replay)
      BY <1>1, <2>3
    <3> QED
      BY <1>1, <2>1, <3>1, OrderlyNow
  <2> QED
    BY <2>2, <2>3
<1>3. \A w \in User : ~umon'[w]
  BY <1>1 DEF Orderly, Unwatched
<1> QED
  BY <1>2, <1>3, OrderlyObjects

\* Bans and switches are new policies.
LEMMA NewPolicy ==
  ASSUME TypeOK, Administer
  PROVE  \E new : SetPolicy(new) /\ new.replay \in BOOLEAN
<1>1. policy \in [maintenance : BOOLEAN, creation : BOOLEAN, replay : BOOLEAN,
                  banned : SUBSET User, roomBanned : [RoomId -> SUBSET User]]
  BY DEF TypeOK
<1>2. \E new : SetPolicy(new) /\ new.replay \in BOOLEAN
  <2>1. CASE \E b \in BOOLEAN :
               \/ SetPolicy([policy EXCEPT !.maintenance = b])
               \/ SetPolicy([policy EXCEPT !.creation = b])
               \/ SetPolicy([policy EXCEPT !.replay = b])
    BY <1>1, <2>1
  <2>2. CASE \E u \in User :
               \/ SetPolicy([policy EXCEPT !.banned = @ \cup {u}])
               \/ SetPolicy([policy EXCEPT !.banned = @ \ {u}])
    BY <1>1, <2>2
  <2>3. CASE \E u \in User, i \in RoomId :
               \/ SetPolicy([policy EXCEPT !.roomBanned[i] = @ \cup {u}])
               \/ SetPolicy([policy EXCEPT !.roomBanned[i] = @ \ {u}])
    BY <1>1, <2>3
  <2> QED
    BY <2>1, <2>2, <2>3 DEF Administer
<1> QED
  BY <1>2

\* Bans and switches.
LEMMA AdministerOrderly ==
  ASSUME TypeOK, Orderly, Administer
  PROVE  Orderly'
  BY NewPolicy, PolicyOrderly

\* Kicks and moves.
LEMMA UserAdminOrderly ==
  ASSUME TypeOK, RegisteredHost, Orderly, Monitors = {}, UserAdminNext
  PROVE  Orderly'
<1>1. PICK u \in User :
        \/ KickAbort(u) \/ KickDetach(u)
        \/ \E i \in RoomId, mon \in BOOLEAN : MoveUser(u, i, mon)
  BY DEF UserAdminNext
<1>2. CASE KickAbort(u)
  BY <1>2, KickSteady, SteadyOrderly DEF OrdinaryStep, SteadyStep
<1>3. CASE KickDetach(u)
  BY <1>3, IdleOrderly DEF KickDetach, IdleStep
<1>4. CASE \E i \in RoomId, mon \in BOOLEAN : MoveUser(u, i, mon)
  BY <1>4, MoveOrderly
<1> QED
  BY <1>1, <1>2, <1>3, <1>4

\* Every step of a server without monitors keeps its rooms orderly.
LEMMA OrderlyStep ==
  ASSUME Monitors = {}, TypeOK, RegisteredHost, Orderly, [Next]_vars
  PROVE  Orderly'
<1>1. (OrdinaryStep => SteadyStep) /\ (SteadyStep => Orderly') /\ (IdleStep => Orderly')
  BY SteadyOrderly, IdleOrderly DEF OrdinaryStep, SteadyStep
<1>2. CASE ClientNext
  BY <1>1, <1>2, ConnectionOrderly, MembershipOrderly, RoundSteady, SwitchSteady, TimerSteady
     DEF ClientNext
<1>3. CASE DisbandNext \/ ContestNext
  BY <1>1, <1>3, DisbandOrderly, ContestSteady
<1>4. CASE AdminNext
  BY <1>1, <1>4, RoomAdminSteady, UserAdminOrderly, AdministerOrderly DEF AdminNext
<1>5. CASE UNCHANGED vars
  BY <1>1, <1>5 DEF vars, IdleStep
<1> QED
  BY <1>2, <1>3, <1>4, <1>5 DEF Next

\* The initial state is orderly.
LEMMA OrderlyInit == Init => Orderly
  BY PtrAssumption DEF Init, Orderly, Unwatched, MembersPointBack, ResultsSettled, Open,
     Registered, Unused

\* A server without monitors, whatever players, timers and administrators do: a user on a
\* player list is in that room and in no other (AddUser, OnUserLeave, MoveUser).
THEOREM ListsAreTrue == ASSUME Monitors = {} PROVE Spec => []MembersPointBack
<1>1. TypeOK /\ RegisteredHost /\ Orderly /\ [Next]_vars => (TypeOK /\ RegisteredHost /\ Orderly)'
  BY SafeStep, OrderlyStep
<1>2. Orderly => MembersPointBack
  BY DEF Orderly
<1> QED
  BY <1>1, <1>2, SafeInit, OrderlyInit, PTL DEF Spec

\* A server without monitors: no open room stays in a round that all its players have
\* finished while it holds a result (CheckAllReady after every change).
THEOREM ScoresAreSettled == ASSUME Monitors = {} PROVE Spec => []ResultsSettled
<1>1. TypeOK /\ RegisteredHost /\ Orderly /\ [Next]_vars => (TypeOK /\ RegisteredHost /\ Orderly)'
  BY SafeStep, OrderlyStep
<1>2. Orderly => ResultsSettled
  BY DEF Orderly
<1> QED
  BY <1>1, <1>2, SafeInit, OrderlyInit, PTL DEF Spec

-----------------------------------------------------------------------------
(* No round is ended early. *)

\* A step that ends the round of an open room finds at most one player unfinished, or
\* is the deadline.
EndsWhenDone(p) ==
  (Open(p) /\ obj[p].phase = "play" /\ obj'[p].phase = "select")
    => \/ obj[p].playLate # "none"
       \/ \E v \in User :
            obj'[p].users \ {v} \subseteq obj[p].results \cup obj[p].aborted

\* A step that writes one object, by a leave or by a command.
LEMMA EndedWrite ==
  ASSUME TypeOK, NEW p \in Ptr, NEW s, obj' = [obj EXCEPT ![p] = s],
         obj[p].playLate # "none" \/ Ended(obj[p], s) \/ ~Open(p) \/ s.phase = obj[p].phase,
         NEW q \in Ptr
  PROVE  EndsWhenDone(q)
<1>1. CASE q = p
  <2>1. obj'[q] = s
    BY <1>1 DEF TypeOK
  <2> QED
    BY <1>1, <2>1 DEF EndsWhenDone, Ended
<1>2. CASE q # p
  <2>1. obj'[q] = obj[q]
    BY <1>2 DEF TypeOK
  <2> QED
    BY <2>1 DEF EndsWhenDone
<1> QED
  BY <1>1, <1>2

\* Members who come and go, and the loop of DisbandRoom.
LEMMA MembersEnd ==
  ASSUME TypeOK, NEW q \in Ptr, ConnectionNext \/ MembershipNext \/ DisbandNext
  PROVE  EndsWhenDone(q)
<1>0. obj' = obj => EndsWhenDone(q)
  BY DEF EndsWhenDone
<1>1. ASSUME StateFree, NEW u \in User, uroom[u] # None, NEW refresh \in BOOLEAN,
             LeavesRoom(u, refresh)
      PROVE  EndsWhenDone(q)
  <2>1. PICK s \in RoomType : LeftBehind(u, s)
    BY <1>1, LeavesBehind
  <2>2. PICK p \in Ptr : p = uroom[u]
    BY <1>1 DEF TypeOK
  <2>3. obj' = [obj EXCEPT ![p] = s] /\ Ended(obj[p], s)
    BY <2>1, <2>2 DEF LeftBehind
  <2> QED
    BY <2>3, EndedWrite
<1>2. CASE ConnectionNext
  <2>1. PICK u \in User : Connect(u) \/ Reconnect(u) \/ Disconnect(u)
                            \/ Dangle(u) \/ ProcessDangle(u)
    BY <1>2 DEF ConnectionNext
  <2>2. CASE Connect(u) \/ Reconnect(u) \/ Dangle(u)
    BY <1>0, <2>2 DEF Connect, Reconnect, Dangle
  <2>3. CASE Disconnect(u) \/ ProcessDangle(u)
    <3>1. StateFree /\ (obj' = obj \/ (uroom[u] # None /\ LeavesRoom(u, FALSE)))
      BY <2>3 DEF Disconnect, ProcessDangle, RemoveUser
    <3> QED
      BY <1>0, <1>1, <3>1
  <2> QED
    BY <2>1, <2>2, <2>3
<1>3. CASE MembershipNext
  <2>1. PICK u \in User :
          \/ LeaveRoom(u)
          \/ \E i \in RoomId : \/ \E p \in Ptr : CreateRoom(u, i, p)
                               \/ \E mon \in BOOLEAN : JoinRoom(u, i, mon)
    BY <1>3 DEF MembershipNext
  <2>2. CASE LeaveRoom(u)
    BY <1>1, <2>2 DEF LeaveRoom, InRoom
  <2>3. ASSUME NEW i \in RoomId, NEW p \in Ptr, CreateRoom(u, i, p)
        PROVE  EndsWhenDone(q)
    <3>1. obj' = [obj EXCEPT ![p] = NewRoom(i, u, policy.replay)] /\ ~Open(p)
      BY <2>3 DEF CreateRoom, Unreachable, Open
    <3> QED
      BY <3>1, EndedWrite
  <2>4. ASSUME NEW i \in RoomId, NEW mon \in BOOLEAN, JoinRoom(u, i, mon)
        PROVE  EndsWhenDone(q)
    <3>1. PICK p \in Ptr : p = rooms[i]
      BY <2>4 DEF TypeOK, JoinRoom
    <3> DEFINE rep == policy.replay
               s == Joined(obj[p], u, mon, rep)
    <3>2. obj' = [obj EXCEPT ![p] = s] /\ obj[p] \in RoomType /\ rep \in BOOLEAN
      BY <2>4, <3>1 DEF JoinRoom, Joined, TypeOK
    <3> HIDE DEF rep
    <3>3. s.phase = obj[p].phase
      BY <3>2, JoinTimes
    <3> QED
      BY <3>2, <3>3, EndedWrite
  <2> QED
    BY <2>1, <2>2, <2>3, <2>4
<1>4. CASE DisbandNext
  <2>1. ASSUME NEW u \in User, DisbandLeave(u) PROVE EndsWhenDone(q)
    <3>1. PICK p \in Ptr : p = disbanding
      BY <2>1 DEF DisbandLeave, TypeOK
    <3>2. obj' = [obj EXCEPT ![p] = OnUserLeave(obj[p], u, umon[u])] /\ ~Open(p)
      BY <2>1, <3>1 DEF DisbandLeave, Open
    <3> QED
      BY <3>2, EndedWrite
  <2>2. CASE DisbandEnd
    BY <1>0, <2>2 DEF DisbandEnd
  <2>3. ASSUME NEW p \in Ptr, NEW how \in {"checked", "unchecked"}, DisbandPending(p, how)
        PROVE  EndsWhenDone(q)
    <3>1. OrdinaryStep
      BY <2>3, PendingSteady
    <3> QED
      BY <3>1, EndedWrite DEF OrdinaryStep, Writes, Steady
  <2> QED
    BY <1>4, <2>1, <2>2, <2>3 DEF DisbandNext
<1> QED
  BY <1>2, <1>3, <1>4

\* A move between rooms that select a chart, and a new policy.
LEMMA AdminEnd ==
  ASSUME TypeOK, NEW q \in Ptr, UserAdminNext \/ Administer
  PROVE  EndsWhenDone(q)
<1>1. ASSUME NEW u \in User, NEW i \in RoomId, NEW mon \in BOOLEAN, MoveUser(u, i, mon)
      PROVE  EndsWhenDone(q)
  <2>1. PICK p \in Ptr, t \in Ptr : p = uroom[u] /\ t = rooms[i]
    BY <1>1 DEF MoveUser, TypeOK
  <2>2. /\ obj[p].phase = "select" /\ obj[t].phase = "select"
        /\ (q # p /\ q # t) => obj'[q] = obj[q]
    BY <1>1, <2>1 DEF MoveUser, TypeOK
  <2> QED
    BY <2>2 DEF EndsWhenDone
<1>2. ASSUME NEW new, SetPolicy(new) PROVE EndsWhenDone(q)
  <2>1. obj[q] \in RoomType
    BY DEF TypeOK
  <2>2. obj'[q] = obj[q] \/ obj'[q] = RefreshLive(obj[q], new.replay)
    BY <1>2 DEF SetPolicy
  <2>3. obj'[q].phase = obj[q].phase
    BY <2>1, <2>2 DEF RefreshLive, RoomType
  <2> QED
    BY <2>3 DEF EndsWhenDone
<1>3. CASE UserAdminNext
  <2>1. PICK u \in User :
          \/ KickAbort(u) \/ KickDetach(u)
          \/ \E i \in RoomId, mon \in BOOLEAN : MoveUser(u, i, mon)
    BY <1>3 DEF UserAdminNext
  <2>2. CASE KickAbort(u)
    BY <2>2, KickSteady, EndedWrite DEF OrdinaryStep, Writes, Steady
  <2>3. CASE KickDetach(u)
    BY <2>3 DEF KickDetach, EndsWhenDone
  <2> QED
    BY <1>1, <2>1, <2>2, <2>3
<1> QED
  BY <1>2, <1>3 DEF Administer

\* Every step of the server.
LEMMA EndStep ==
  ASSUME TypeOK, RegisteredHost, [Next]_vars, NEW q \in Ptr
  PROVE  EndsWhenDone(q)
<1>1. /\ SteadyStep => EndsWhenDone(q)
      /\ IdleStep => EndsWhenDone(q)
      /\ OrdinaryStep => SteadyStep
  <2>1. ASSUME SteadyStep PROVE EndsWhenDone(q)
    BY <2>1, EndedWrite DEF SteadyStep, Writes, Steady
  <2>2. IdleStep => EndsWhenDone(q)
    BY DEF IdleStep, EndsWhenDone
  <2>3. OrdinaryStep => SteadyStep
    BY DEF OrdinaryStep, SteadyStep
  <2> QED
    BY <2>1, <2>2, <2>3
<1>2. CASE ClientNext
  BY <1>1, <1>2, MembersEnd, RoundSteady, SwitchSteady, TimerSteady DEF ClientNext
<1>3. CASE DisbandNext \/ ContestNext
  BY <1>1, <1>3, MembersEnd, ContestSteady
<1>4. CASE AdminNext
  BY <1>1, <1>4, RoomAdminSteady, AdminEnd DEF AdminNext
<1>5. CASE UNCHANGED vars
  BY <1>1, <1>5 DEF vars, IdleStep
<1> QED
  BY <1>2, <1>3, <1>4, <1>5 DEF Next

\* Whatever players, timers and administrators do, with monitors and contests: the step
\* that settles the round of an open room finds at most one of its players unfinished,
\* unless the deadline ran out (checkPlaying, in every handler that calls it).
THEOREM RoundsAreFinished == Spec => RoundEndsWhenDone
<1>1. TypeOK /\ RegisteredHost /\ [Next]_vars => (TypeOK /\ RegisteredHost)'
  BY SafeStep
<1>2. TypeOK /\ RegisteredHost /\ [Next]_vars =>
        [\A p \in Ptr :
           (Open(p) /\ obj[p].phase = "play" /\ obj'[p].phase = "select")
             => \/ obj[p].playLate # "none"
                \/ \E v \in User :
                     obj'[p].users \ {v} \subseteq obj[p].results \cup obj[p].aborted
        ]_vars
  BY EndStep DEF EndsWhenDone
<1> QED
  BY <1>1, <1>2, SafeInit, PTL DEF Spec, RoundEndsWhenDone

-----------------------------------------------------------------------------
(* Timers, as long as nobody sets up a contest. *)

\* Every step but the operations of contest mode.
OrdinaryNext == ClientNext \/ DisbandNext \/ AdminNext

OrdinarySpec == Init /\ [][OrdinaryNext]_vars

\* No contest, and every open room has the timers its phase needs.
Timely == \A p \in Ptr : ~obj[p].contest /\ (Open(p) => Timed(obj[p]))

\* A step that writes one object and opens no other room.
LEMMA TimelyWrite ==
  ASSUME TypeOK, Timely, NEW p \in Ptr, NEW s, obj' = [obj EXCEPT ![p] = s],
         ~s.contest, Open(p)' => Timed(s),
         \A q \in Ptr : q # p => (Open(q)' => Open(q))
  PROVE  Timely'
<1>1. obj'[p] = s /\ \A q \in Ptr : q # p => obj'[q] = obj[q]
  BY DEF TypeOK
<1> QED
  BY <1>1 DEF Timely

\* Steps that write one object and no member.
LEMMA OrdinaryTimely ==
  ASSUME TypeOK, Timely, OrdinaryStep
  PROVE  Timely'
<1>1. PICK p \in Ptr, s \in RoomType : Writes(p, s) /\ Ordinary(p, s)
  BY DEF OrdinaryStep
<1>2. /\ obj' = [obj EXCEPT ![p] = s] /\ UNCHANGED rooms
      /\ disbanding' = disbanding \/ (disbanding = None /\ disbanding' = p)
  BY <1>1 DEF Writes
<1>3. /\ ~s.contest
      /\ (Open(p) /\ Timed(obj[p])) => (Timed(s) \/ disbanding' = p)
  BY <1>1 DEF Ordinary, Timely
<1>4. \A q \in Ptr : Registered(q)' <=> Registered(q)
  BY <1>2 DEF Registered
<1>5. \A q \in Ptr : Open(q)' => Open(q)
  BY <1>2, <1>4, PtrAssumption DEF Open
<1>6. Open(p)' => Timed(s)
  BY <1>3, <1>5 DEF Open, Timely
<1> QED
  BY <1>2, <1>3, <1>5, <1>6, TimelyWrite

\* The objects stay and no room is opened.
LEMMA IdleTimely ==
  ASSUME Timely, obj' = obj, \A q \in Ptr : Open(q)' => Open(q)
  PROVE  Timely'
  BY DEF Timely

\* Members who come and go, and the loop of DisbandRoom.
LEMMA MembersTimely ==
  ASSUME TypeOK, RegisteredHost, Timely, ConnectionNext \/ MembershipNext \/ DisbandNext
  PROVE  Timely'
<1>0. ASSUME UNCHANGED <<rooms, obj, disbanding>> PROVE Timely'
  BY <1>0 DEF Timely, Open, Registered
<1>1. ASSUME StateFree, NEW u \in User, uroom[u] # None, NEW refresh \in BOOLEAN,
             LeavesRoom(u, refresh)
      PROVE  Timely'
  <2>1. PICK s \in RoomType : LeftBehind(u, s)
    BY <1>1, LeavesBehind
  <2>2. PICK p \in Ptr : p = uroom[u]
    BY <1>1 DEF TypeOK
  <2>3. /\ obj' = [obj EXCEPT ![p] = s] /\ ~s.contest /\ disbanding' = disbanding
        /\ Timed(obj[p]) => Timed(s)
        /\ rooms' = rooms \/ rooms' = [rooms EXCEPT ![obj[p].id] = None]
    BY <2>1, <2>2 DEF LeftBehind, Timely
  <2>4. \A q \in Ptr : Open(q)' => Open(q)
    BY <2>3, PtrAssumption DEF Open, Registered, TypeOK
  <2>5. Open(p)' => Timed(s)
    BY <2>3, <2>4 DEF Timely
  <2> QED
    BY <2>3, <2>4, <2>5, TimelyWrite
<1>2. CASE ConnectionNext
  <2>1. PICK u \in User : Connect(u) \/ Reconnect(u) \/ Disconnect(u)
                            \/ Dangle(u) \/ ProcessDangle(u)
    BY <1>2 DEF ConnectionNext
  <2>2. CASE Connect(u) \/ Reconnect(u) \/ Dangle(u)
    BY <1>0, <2>2 DEF Connect, Reconnect, Dangle
  <2>3. CASE Disconnect(u) \/ ProcessDangle(u)
    <3>1. StateFree /\ (UNCHANGED <<rooms, obj, disbanding>>
                          \/ (uroom[u] # None /\ LeavesRoom(u, FALSE)))
      BY <2>3 DEF Disconnect, ProcessDangle, RemoveUser
    <3> QED
      BY <1>0, <1>1, <3>1
  <2> QED
    BY <2>1, <2>2, <2>3
<1>3. CASE MembershipNext
  <2>1. PICK u \in User :
          \/ LeaveRoom(u)
          \/ \E i \in RoomId : \/ \E p \in Ptr : CreateRoom(u, i, p)
                               \/ \E mon \in BOOLEAN : JoinRoom(u, i, mon)
    BY <1>3 DEF MembershipNext
  <2>2. CASE LeaveRoom(u)
    BY <1>1, <2>2 DEF LeaveRoom, InRoom
  <2>3. ASSUME NEW i \in RoomId, NEW p \in Ptr, CreateRoom(u, i, p)
        PROVE  Timely'
    <3> DEFINE n == NewRoom(i, u, policy.replay)
    <3>1. /\ obj' = [obj EXCEPT ![p] = n] /\ rooms' = [rooms EXCEPT ![i] = p]
          /\ disbanding' = disbanding /\ policy.replay \in BOOLEAN
      BY <2>3 DEF CreateRoom, TypeOK
    <3>2. ~n.contest /\ n.phase = "select"
      BY <3>1, NewRoomFacts, NewRoomTimes
    <3> HIDE DEF n
    <3>3. \A q \in Ptr : q # p => (Open(q)' => Open(q))
      BY <3>1 DEF Open, Registered, TypeOK
    <3>4. Timed(n)
      BY <3>2 DEF Timed
    <3> QED
      BY <3>1, <3>2, <3>3, <3>4, TimelyWrite
  <2>4. ASSUME NEW i \in RoomId, NEW mon \in BOOLEAN, JoinRoom(u, i, mon)
        PROVE  Timely'
    <3>1. PICK p \in Ptr : p = rooms[i]
      BY <2>4 DEF TypeOK, JoinRoom
    <3> DEFINE rep == policy.replay
               s == Joined(obj[p], u, mon, rep)
    <3>2. /\ obj' = [obj EXCEPT ![p] = s] /\ obj[p] \in RoomType /\ rep \in BOOLEAN
          /\ UNCHANGED <<rooms, disbanding>>
      BY <2>4, <3>1 DEF JoinRoom, Joined, TypeOK
    <3> HIDE DEF rep
    <3>3. s.contest = obj[p].contest /\ (Timed(obj[p]) => Timed(s))
      BY <3>2, JoinTimes
    <3> HIDE DEF s
    <3>4. \A q \in Ptr : Open(q)' <=> Open(q)
      BY <3>2 DEF Open, Registered
    <3>5. ~s.contest /\ (Open(p)' => Timed(s))
      BY <3>3, <3>4 DEF Timely
    <3> QED
      BY <3>2, <3>4, <3>5, TimelyWrite
  <2> QED
    BY <2>1, <2>2, <2>3, <2>4
<1>4. CASE DisbandNext
  <2>1. ASSUME NEW u \in User, DisbandLeave(u) PROVE Timely'
    <3>1. PICK p \in Ptr : p = disbanding
      BY <2>1 DEF DisbandLeave, TypeOK
    <3> DEFINE s == OnUserLeave(obj[p], u, umon[u])
    <3>2. /\ obj' = [obj EXCEPT ![p] = s] /\ UNCHANGED <<rooms, disbanding>>
          /\ obj[p] \in RoomType /\ umon[u] \in BOOLEAN
      BY <2>1, <3>1 DEF DisbandLeave, TypeOK
    <3>3. s.contest = obj[p].contest
      BY <3>2, OnUserLeaveCalm DEF Calm, Tagged
    <3> HIDE DEF s
    <3>4. (\A q \in Ptr : Open(q)' <=> Open(q)) /\ ~Open(p)
      BY <3>1, <3>2 DEF Open, Registered
    <3> QED
      BY <3>2, <3>3, <3>4, TimelyWrite DEF Timely
  <2>2. CASE DisbandEnd
    <3>1. PICK p \in Ptr : p = disbanding
      BY <2>2 DEF DisbandEnd, TypeOK
    <3>2. /\ rooms' = [rooms EXCEPT ![obj[p].id] = None] /\ obj' = obj
      BY <2>2, <3>1 DEF DisbandEnd
    <3>3. ~Registered(p)'
      <4> SUFFICES ASSUME NEW i \in RoomId, rooms'[i] = p PROVE FALSE
        BY DEF Registered
      <4>1. i # obj[p].id /\ rooms[i] = p
        BY <3>2, PtrAssumption DEF TypeOK
      <4> QED
        BY <4>1, PtrAssumption DEF RegisteredHost
    <3>4. \A q \in Ptr : Open(q)' => Open(q)
      BY <3>1, <3>2, <3>3, PtrAssumption DEF Open, Registered, TypeOK
    <3> QED
      BY <3>2, <3>4, IdleTimely
  <2>3. ASSUME NEW p \in Ptr, NEW how \in {"checked", "unchecked"}, DisbandPending(p, how)
        PROVE  Timely'
    BY <2>3, PendingSteady, OrdinaryTimely
  <2> QED
    BY <1>4, <2>1, <2>2, <2>3 DEF DisbandNext
<1> QED
  BY <1>2, <1>3, <1>4

\* Moves, kicks and a new policy.
LEMMA AdminTimely ==
  ASSUME TypeOK, RegisteredHost, Timely, UserAdminNext \/ Administer
  PROVE  Timely'
<1>1. ASSUME NEW u \in User, NEW i \in RoomId, NEW mon \in BOOLEAN, MoveUser(u, i, mon)
      PROVE  Timely'
  <2>1. PICK p \in Ptr, q \in Ptr : p = uroom[u] /\ q = rooms[i]
    BY <1>1 DEF MoveUser, TypeOK
  <2> DEFINE a == AddUser(obj[q], u, mon)
             o == [obj EXCEPT ![q] = a]
             m == umon[u]
             w == o[p]
             l == OnUserLeave(w, u, m)
  <2>2. /\ obj[p].phase = "select" /\ obj[q].phase = "select"
        /\ obj' = [o EXCEPT ![p] = l] /\ disbanding' = disbanding
        /\ rooms' = rooms \/ rooms' = [rooms EXCEPT ![w.id] = None]
    BY <1>1, <2>1 DEF MoveUser
  <2>3. obj[p] \in RoomType /\ obj[q] \in RoomType /\ m \in BOOLEAN
        /\ ~obj[p].contest /\ ~obj[q].contest
    BY DEF TypeOK, Timely
  <2> HIDE DEF m
  <2>a. a \in RoomType
    BY <2>3, AddUserFacts
  <2>b. Tagged(obj[q], a) /\ a.phase = obj[q].phase
    BY <2>3, AddUserTags
  <2> HIDE DEF a
  <2>4. a \in RoomType /\ a.phase = "select" /\ ~a.contest
    BY <2>2, <2>3, <2>a, <2>b DEF Tagged
  <2>5. w \in RoomType /\ w.phase = "select" /\ ~w.contest
    BY <2>2, <2>3, <2>4 DEF TypeOK
  <2>o. \A x \in Ptr : obj'[x] = IF x = p THEN l ELSE IF x = q THEN a ELSE obj[x]
    BY <2>2 DEF TypeOK
  <2> HIDE DEF w, o
  <2>6. Tagged(w, l) /\ (Timed(w) => Timed(l))
    BY <2>3, <2>5, OnUserLeaveCalm DEF Calm
  <2>7. ~l.contest /\ Timed(l) /\ Timed(a)
    BY <2>4, <2>5, <2>6 DEF Timed, Tagged
  <2>8. \A x \in Ptr : Open(x)' => Open(x)
    BY <2>2, PtrAssumption DEF Open, Registered, TypeOK
  <2> HIDE DEF l
  <2> QED
    BY <2>4, <2>7, <2>8, <2>o DEF Timely
<1>2. ASSUME NEW new, SetPolicy(new), new.replay \in BOOLEAN PROVE Timely'
  <2>1. /\ UNCHANGED <<rooms, disbanding>>
        /\ \A p \in Ptr : obj'[p] = obj[p] \/ obj'[p] = RefreshLive(obj[p], new.replay)
    BY <1>2 DEF SetPolicy
  <2>2. \A p \in Ptr : Open(p)' <=> Open(p)
    BY <2>1 DEF Open, Registered
  <2>3. \A p \in Ptr : LET s == RefreshLive(obj[p], new.replay)
                       IN  s.contest = obj[p].contest /\ (Timed(obj[p]) => Timed(s))
    BY <1>2, RefreshLiveTimes DEF TypeOK
  <2> QED
    BY <2>1, <2>2, <2>3 DEF Timely
<1>3. CASE UserAdminNext
  <2>1. PICK u \in User :
          \/ KickAbort(u) \/ KickDetach(u)
          \/ \E i \in RoomId, mon \in BOOLEAN : MoveUser(u, i, mon)
    BY <1>3 DEF UserAdminNext
  <2>2. CASE KickAbort(u)
    BY <2>2, KickSteady, OrdinaryTimely
  <2>3. CASE KickDetach(u)
    BY <2>3 DEF KickDetach, Timely, Open, Registered
  <2> QED
    BY <1>1, <2>1, <2>2, <2>3
<1>4. CASE Administer
  BY <1>2, <1>4, NewPolicy
<1> QED
  BY <1>3, <1>4

\* Every step but a contest operation keeps the timers.
LEMMA TimelyStep ==
  ASSUME TypeOK, RegisteredHost, Timely, [OrdinaryNext]_vars
  PROVE  Timely'
<1>1. (OrdinaryStep => Timely') /\ (IdleStep => Timely')
  BY OrdinaryTimely DEF IdleStep, Timely, Open, Registered
<1>2. CASE ClientNext
  BY <1>1, <1>2, MembersTimely, RoundSteady, SwitchSteady, TimerSteady DEF ClientNext
<1>3. CASE DisbandNext
  BY <1>3, MembersTimely
<1>4. CASE AdminNext
  BY <1>1, <1>4, RoomAdminSteady, AdminTimely DEF AdminNext
<1>5. CASE UNCHANGED vars
  BY <1>1, <1>5 DEF vars, IdleStep
<1> QED
  BY <1>2, <1>3, <1>4, <1>5 DEF OrdinaryNext

\* No room is open at the start.
LEMMA TimelyInit == Init => Timely
  BY PtrAssumption DEF Init, Timely, Open, Registered, Unused

\* Without contests, whatever players, monitors, timers and administrators do: an open
\* room that waits for its players has a countdown that runs or has fired and will be
\* applied (startReadyCountdown, after leaves, host changes, aborts and moves).
THEOREM WaitsAreTimed == OrdinarySpec => []WaitHasCountdown
<1>1. TypeOK /\ RegisteredHost /\ Timely /\ [OrdinaryNext]_vars
        => (TypeOK /\ RegisteredHost /\ Timely)'
  BY SafeStep, TimelyStep DEF OrdinaryNext, Next
<1>2. Timely => WaitHasCountdown
  BY DEF Timely, Timed, WaitHasCountdown
<1> QED
  BY <1>1, <1>2, SafeInit, TimelyInit, PTL DEF OrdinarySpec

\* Without contests: a round of an open room that holds a result has a deadline that runs
\* or has fired and will be applied (startPlayDeadline on the first result).
THEOREM ResultsAreTimed == OrdinarySpec => []ResultHasDeadline
<1>1. TypeOK /\ RegisteredHost /\ Timely /\ [OrdinaryNext]_vars
        => (TypeOK /\ RegisteredHost /\ Timely)'
  BY SafeStep, TimelyStep DEF OrdinaryNext, Next
<1>2. Timely => ResultHasDeadline
  BY DEF Timely, Timed, ResultHasDeadline
<1> QED
  BY <1>1, <1>2, SafeInit, TimelyInit, PTL DEF OrdinarySpec

-----------------------------------------------------------------------------
(* Who is in a room is on one of its lists, as long as nobody is moved to the room
   he is in: such a move takes him off the list and leaves his Room field. *)

MovesHome ==
  \E u \in User, i \in RoomId, mon \in BOOLEAN : MoveUser(u, i, mon) /\ rooms[i] = uroom[u]

AwayNext == Next /\ ~MovesHome

AwaySpec == Init /\ [][AwayNext]_vars

\* The loop of DisbandRoom finds everybody who is in the room on its lists.
Listed == \A u \in User : uroom[u] # None => u \in Participants(obj[uroom[u]])

\* A step that writes one object: whoever is then in that room is on its lists.
LEMMA ListedWrite ==
  ASSUME TypeOK, Listed, NEW p \in Ptr, NEW s, obj' = [obj EXCEPT ![p] = s],
         \A v \in User : uroom'[v] \in {uroom[v], None, p},
         \A v \in User : uroom'[v] = p => v \in s.users \cup s.monitors
  PROVE  Listed'
<1> SUFFICES ASSUME NEW v \in User, uroom'[v] # None
             PROVE  v \in Participants(obj'[uroom'[v]])
  BY DEF Listed
<1>1. CASE uroom'[v] = p
  BY <1>1 DEF Participants, TypeOK
<1>2. CASE uroom'[v] # p
  <2>1. uroom'[v] = uroom[v] /\ uroom[v] \in Ptr /\ uroom[v] # p
    BY <1>2 DEF TypeOK
  <2>2. obj'[uroom[v]] = obj[uroom[v]]
    BY <2>1 DEF TypeOK
  <2> QED
    BY <2>1, <2>2 DEF Listed
<1> QED
  BY <1>1, <1>2

\* Rooms and Room fields stay as they are.
LEMMA SteadyListed ==
  ASSUME TypeOK, Listed, SteadyStep \/ IdleStep
  PROVE  Listed'
<1>1. CASE SteadyStep
  <2>1. PICK p \in Ptr, s \in RoomType : Writes(p, s) /\ Steady(p, s)
    BY <1>1 DEF SteadyStep
  <2>2. /\ obj' = [obj EXCEPT ![p] = s] /\ uroom' = uroom
        /\ s.users = obj[p].users /\ s.monitors = obj[p].monitors
    BY <2>1 DEF Writes, Steady, Framed
  <2>3. \A v \in User : uroom'[v] = p => v \in s.users \cup s.monitors
    BY <2>2, PtrAssumption DEF Listed, Participants
  <2> QED
    BY <2>2, <2>3, ListedWrite
<1>2. CASE IdleStep
  BY <1>2 DEF IdleStep, Listed
<1> QED
  BY <1>1, <1>2

\* Somebody leaves the room p, which keeps its other members.
LEMMA LeaveListed ==
  ASSUME TypeOK, Listed, NEW u \in User, NEW p \in Ptr, NEW s,
         obj' = [obj EXCEPT ![p] = s], uroom' = [uroom EXCEPT ![u] = None],
         s.users \in {obj[p].users, obj[p].users \ {u}},
         s.monitors \in {obj[p].monitors, obj[p].monitors \ {u}}
  PROVE  Listed'
<1>1. \A v \in User : uroom'[v] = IF v = u THEN None ELSE uroom[v]
  BY DEF TypeOK
<1>2. ASSUME NEW v \in User, uroom'[v] = p PROVE v \in s.users \cup s.monitors
  <2>1. v # u /\ uroom[v] = p
    BY <1>1, <1>2, PtrAssumption
  <2>2. v \in obj[p].users \cup obj[p].monitors
    BY <2>1, PtrAssumption DEF Listed, Participants
  <2> QED
    BY <2>1, <2>2
<1>3. \A v \in User : uroom'[v] \in {uroom[v], None, p}
  BY <1>1
<1> QED
  BY <1>2, <1>3, ListedWrite

\* Joining adds one participant and removes none.
LEMMA JoinAdds ==
  ASSUME NEW r \in RoomType, NEW u \in User, NEW mon \in BOOLEAN, NEW replay \in BOOLEAN
  PROVE  LET s == Joined(r, u, mon, replay)
         IN  s.users \cup s.monitors = r.users \cup r.monitors \cup {u}
<1> DEFINE a == AddUser(r, u, mon)
           h == HandleJoin(a, u, mon)
           s == RefreshLive(h, replay)
<1>1. a \in RoomType
  BY AddUserFacts
<1>2. a.users \cup a.monitors = r.users \cup r.monitors \cup {u}
  BY DEF AddUser, RoomType
<1> HIDE DEF a
<1>3. h.users = a.users /\ h.monitors = a.monitors
  BY <1>1 DEF HandleJoin, RoomType
<1>5. s.users = h.users /\ s.monitors = h.monitors
  BY <1>1 DEF RefreshLive, HandleJoin, RoomType
<1> HIDE DEF h
<1> HIDE DEF s
<1> QED
  BY <1>2, <1>3, <1>5 DEF Joined, s, h, a

\* Leaving removes nobody else.
LEMMA LeaveKeeps ==
  ASSUME NEW r \in RoomType, NEW u \in User, NEW mon \in BOOLEAN
  PROVE  LET s == OnUserLeave(r, u, mon)
         IN  /\ s.users \in {r.users, r.users \ {u}}
             /\ s.monitors \in {r.monitors, r.monitors \ {u}}
<1> DEFINE s == OnUserLeave(r, u, mon)
<1>1. Departed(r, u, mon, s)
  BY OnUserLeaveFacts
<1> HIDE DEF s
<1>2. /\ s.users \in {r.users, r.users \ {u}}
      /\ s.monitors \in {r.monitors, r.monitors \ {u}}
  BY <1>1 DEF Departed
<1> QED
  BY <1>2 DEF s

\* Members who come and go.
LEMMA MembersListed ==
  ASSUME TypeOK, Listed, ConnectionNext \/ MembershipNext \/ DisbandNext
  PROVE  Listed'
<1>0. ASSUME UNCHANGED <<obj, uroom>> PROVE Listed'
  BY <1>0 DEF Listed
<1>1. ASSUME StateFree, NEW u \in User, uroom[u] # None, NEW refresh \in BOOLEAN,
             LeavesRoom(u, refresh)
      PROVE  Listed'
  <2>1. PICK s \in RoomType : LeftBehind(u, s)
    BY <1>1, LeavesBehind
  <2>2. PICK p \in Ptr : p = uroom[u]
    BY <1>1 DEF TypeOK
  <2>3. /\ obj' = [obj EXCEPT ![p] = s] /\ uroom' = [uroom EXCEPT ![u] = None]
        /\ s.users \in {obj[p].users, obj[p].users \ {u}}
        /\ s.monitors \in {obj[p].monitors, obj[p].monitors \ {u}}
    BY <2>1, <2>2 DEF LeftBehind
  <2> QED
    BY <2>3, LeaveListed
<1>2. CASE ConnectionNext
  <2>1. PICK u \in User : Connect(u) \/ Reconnect(u) \/ Disconnect(u)
                            \/ Dangle(u) \/ ProcessDangle(u)
    BY <1>2 DEF ConnectionNext
  <2>2. CASE Connect(u) \/ Reconnect(u) \/ Dangle(u)
    BY <1>0, <2>2 DEF Connect, Reconnect, Dangle
  <2>3. CASE Disconnect(u) \/ ProcessDangle(u)
    <3>1. StateFree /\ (UNCHANGED <<obj, uroom>>
                          \/ (uroom[u] # None /\ LeavesRoom(u, FALSE)))
      BY <2>3 DEF Disconnect, ProcessDangle, RemoveUser
    <3> QED
      BY <1>0, <1>1, <3>1
  <2> QED
    BY <2>1, <2>2, <2>3
<1>3. CASE MembershipNext
  <2>1. PICK u \in User :
          \/ LeaveRoom(u)
          \/ \E i \in RoomId : \/ \E p \in Ptr : CreateRoom(u, i, p)
                               \/ \E mon \in BOOLEAN : JoinRoom(u, i, mon)
    BY <1>3 DEF MembershipNext
  <2>2. CASE LeaveRoom(u)
    BY <1>1, <2>2 DEF LeaveRoom, InRoom
  <2>3. ASSUME NEW i \in RoomId, NEW p \in Ptr, CreateRoom(u, i, p)
        PROVE  Listed'
    <3> DEFINE n == NewRoom(i, u, policy.replay)
    <3>1. /\ obj' = [obj EXCEPT ![p] = n] /\ uroom' = [uroom EXCEPT ![u] = p]
          /\ policy.replay \in BOOLEAN /\ \A v \in User : uroom[v] # p
      BY <2>3 DEF CreateRoom, Unreachable, TypeOK
    <3>2. n.users = {u}
      BY <3>1, NewRoomFacts
    <3> HIDE DEF n
    <3>3. \A v \in User : uroom'[v] = IF v = u THEN p ELSE uroom[v]
      BY <3>1 DEF TypeOK
    <3>4. \A v \in User : uroom'[v] \in {uroom[v], None, p}
      BY <3>3
    <3>5. \A v \in User : uroom'[v] = p => v \in n.users \cup n.monitors
      BY <3>1, <3>2, <3>3
    <3> QED
      BY <3>1, <3>4, <3>5, ListedWrite
  <2>4. ASSUME NEW i \in RoomId, NEW mon \in BOOLEAN, JoinRoom(u, i, mon)
        PROVE  Listed'
    <3>1. PICK p \in Ptr : p = rooms[i]
      BY <2>4 DEF TypeOK, JoinRoom
    <3> DEFINE rep == policy.replay
               s == Joined(obj[p], u, mon, rep)
    <3>2. /\ obj' = [obj EXCEPT ![p] = s] /\ obj[p] \in RoomType /\ rep \in BOOLEAN
          /\ uroom' = [uroom EXCEPT ![u] = p]
      BY <2>4, <3>1 DEF JoinRoom, Joined, TypeOK
    <3> HIDE DEF rep
    <3>3. s.users \cup s.monitors = obj[p].users \cup obj[p].monitors \cup {u}
      BY <3>2, JoinAdds
    <3> HIDE DEF s
    <3>4. \A v \in User : uroom'[v] = IF v = u THEN p ELSE uroom[v]
      BY <3>2 DEF TypeOK
    <3>5. ASSUME NEW v \in User, uroom'[v] = p PROVE v \in s.users \cup s.monitors
      BY <3>3, <3>4, <3>5, PtrAssumption DEF Listed, Participants
    <3>6. \A v \in User : uroom'[v] \in {uroom[v], None, p}
      BY <3>4
    <3> QED
      BY <3>2, <3>5, <3>6, ListedWrite
  <2> QED
    BY <2>1, <2>2, <2>3, <2>4
<1>4. CASE DisbandNext
  <2>1. ASSUME NEW u \in User, DisbandLeave(u) PROVE Listed'
    <3>1. PICK p \in Ptr : p = disbanding
      BY <2>1 DEF DisbandLeave, TypeOK
    <3> DEFINE mon == umon[u]
               s == OnUserLeave(obj[p], u, mon)
    <3>2. /\ obj' = [obj EXCEPT ![p] = s] /\ uroom' = [uroom EXCEPT ![u] = None]
          /\ obj[p] \in RoomType /\ mon \in BOOLEAN
      BY <2>1, <3>1 DEF DisbandLeave, TypeOK
    <3> HIDE DEF mon
    <3>4. /\ s.users \in {obj[p].users, obj[p].users \ {u}}
          /\ s.monitors \in {obj[p].monitors, obj[p].monitors \ {u}}
      BY <3>2, LeaveKeeps
    <3> HIDE DEF s
    <3> QED
      BY <3>2, <3>4, LeaveListed
  <2>2. CASE DisbandEnd
    BY <1>0, <2>2 DEF DisbandEnd
  <2>3. ASSUME NEW p \in Ptr, NEW how \in {"checked", "unchecked"}, DisbandPending(p, how)
        PROVE  Listed'
    BY <2>3, PendingSteady, SteadyListed DEF OrdinaryStep, SteadyStep
  <2> QED
    BY <1>4, <2>1, <2>2, <2>3 DEF DisbandNext
<1> QED
  BY <1>2, <1>3, <1>4

\* Moves to another room, kicks and a new policy.
LEMMA AdminListed ==
  ASSUME TypeOK, Listed, UserAdminNext \/ Administer, ~MovesHome
  PROVE  Listed'
<1>1. ASSUME NEW u \in User, NEW i \in RoomId, NEW mon \in BOOLEAN, MoveUser(u, i, mon)
      PROVE  Listed'
  <2>1. PICK p \in Ptr, q \in Ptr : p = uroom[u] /\ q = rooms[i]
    BY <1>1 DEF MoveUser, TypeOK
  <2>2. p # q
    BY <1>1, <2>1 DEF MovesHome
  <2> DEFINE m == umon[u]
             r == obj[p]
             a == AddUser(obj[q], u, mon)
             l == OnUserLeave(r, u, m)
  <2>3. /\ r \in RoomType /\ obj[q] \in RoomType /\ m \in BOOLEAN
        /\ uroom' = [uroom EXCEPT ![u] = q]
        /\ obj' = [[obj EXCEPT ![q] = a] EXCEPT ![p] = l]
    <3>1. [obj EXCEPT ![q] = a][p] = obj[p]
      BY <2>2 DEF TypeOK
    <3> QED
      BY <1>1, <2>1, <3>1 DEF MoveUser, TypeOK
  <2>4. a.users \cup a.monitors = obj[q].users \cup obj[q].monitors \cup {u}
    BY <2>3 DEF AddUser, RoomType
  <2>t. r \in RoomType /\ m \in BOOLEAN
    BY <2>3
  <2> HIDE DEF m, r, a
  <2>5. l.users \in {r.users, r.users \ {u}} /\ l.monitors \in {r.monitors, r.monitors \ {u}}
    BY <2>t, LeaveKeeps
  <2> HIDE DEF l
  <2>6. /\ \A x \in Ptr : obj'[x] = IF x = p THEN l ELSE IF x = q THEN a ELSE obj[x]
        /\ \A v \in User : uroom'[v] = IF v = u THEN q ELSE uroom[v]
    BY <2>3 DEF TypeOK
  <2>7. ASSUME NEW v \in User, uroom'[v] # None
        PROVE  v \in obj'[uroom'[v]].users \cup obj'[uroom'[v]].monitors
    <3>1. CASE v = u
      BY <2>2, <2>4, <2>6, <3>1
    <3>2. CASE v # u
      <4>1. /\ uroom'[v] = uroom[v] /\ uroom[v] \in Ptr
            /\ v \in obj[uroom[v]].users \cup obj[uroom[v]].monitors
        BY <2>6, <2>7, <3>2 DEF Listed, Participants, TypeOK
      <4>2. CASE uroom[v] = p
        <5>1. v \in r.users \cup r.monitors
          BY <4>1, <4>2 DEF r
        <5> QED
          BY <2>5, <2>6, <3>2, <4>1, <4>2, <5>1
      <4>3. CASE uroom[v] # p
        BY <2>4, <2>6, <4>1, <4>3
      <4> QED
        BY <4>2, <4>3
    <3> QED
      BY <3>1, <3>2
  <2> QED
    BY <2>7 DEF Listed, Participants
<1>2. ASSUME NEW new, SetPolicy(new), new.replay \in BOOLEAN PROVE Listed'
  <2>1. /\ uroom' = uroom
        /\ \A p \in Ptr : obj'[p] = obj[p] \/ obj'[p] = RefreshLive(obj[p], new.replay)
    BY <1>2 DEF SetPolicy
  <2>2. \A p \in Ptr : Framed(obj[p], RefreshLive(obj[p], new.replay))
    BY <1>2, RefreshLiveFacts DEF SameRound, TypeOK
  <2>3. \A p \in Ptr : obj'[p].users = obj[p].users /\ obj'[p].monitors = obj[p].monitors
    BY <2>1, <2>2 DEF Framed
  <2> QED
    BY <2>1, <2>3 DEF Listed, Participants, TypeOK
<1>3. CASE UserAdminNext
  <2>1. PICK u \in User :
          \/ KickAbort(u) \/ KickDetach(u)
          \/ \E i \in RoomId, mon \in BOOLEAN : MoveUser(u, i, mon)
    BY <1>3 DEF UserAdminNext
  <2>2. CASE KickAbort(u)
    BY <2>2, KickSteady, SteadyListed DEF OrdinaryStep, SteadyStep
  <2>3. CASE KickDetach(u)
    BY <2>3 DEF KickDetach, Listed
  <2> QED
    BY <1>1, <2>1, <2>2, <2>3
<1>4. CASE Administer
  BY <1>2, <1>4, NewPolicy
<1> QED
  BY <1>3, <1>4

\* Every step but a move home keeps the lists complete.
LEMMA ListedStep ==
  ASSUME TypeOK, RegisteredHost, Listed, [AwayNext]_vars
  PROVE  Listed'
<1>1. (OrdinaryStep => Listed') /\ (SteadyStep => Listed') /\ (IdleStep => Listed')
  BY SteadyListed DEF OrdinaryStep, SteadyStep
<1>2. CASE ClientNext
  BY <1>1, <1>2, MembersListed, RoundSteady, SwitchSteady, TimerSteady DEF ClientNext
<1>3. CASE DisbandNext \/ ContestNext
  BY <1>1, <1>3, MembersListed, ContestSteady
<1>4. CASE AdminNext /\ ~MovesHome
  BY <1>1, <1>4, RoomAdminSteady, AdminListed DEF AdminNext
<1>5. CASE UNCHANGED vars
  BY <1>1, <1>5 DEF vars, IdleStep
<1> QED
  BY <1>2, <1>3, <1>4, <1>5 DEF AwayNext, Next

\* Nobody is in a room at the start.
LEMMA ListedInit == Init => Listed
  BY DEF Init, Listed

-----------------------------------------------------------------------------
(* Both directions of membership, without monitors, moves home and kicks that
   end a contest round: these take a room off the table unchecked and late. *)

CheckedNext == AwayNext /\ ~KickEndsContest

CheckedSpec == Init /\ [][CheckedNext]_vars

\* Who is in a room is in one of the table.
Housed == \A u \in User : uroom[u] # None => Registered(uroom[u])

\* Only a room of the table is disbanded.
AtHome == disbanding # None => Registered(disbanding)

\* No kick has left a disband that will not be checked.
AllChecked == \A p \in Ptr : "unchecked" \notin obj[p].pending

\* A room nobody is in is taken off the table.
LEMMA HousedDrop ==
  ASSUME TypeOK, RegisteredHost, NEW p \in Ptr, Registered(p),
         rooms' = [rooms EXCEPT ![obj[p].id] = None],
         \A v \in User : uroom'[v] # None => (Registered(uroom'[v]) /\ uroom'[v] # p)
  PROVE  Housed'
<1> SUFFICES ASSUME NEW v \in User, uroom'[v] # None
             PROVE  \E k \in RoomId : rooms'[k] = uroom'[v]
  BY DEF Housed, Registered
<1>1. PICK j \in RoomId : rooms[j] = p
  BY DEF Registered
<1>2. obj[p].id = j
  BY <1>1, PtrAssumption DEF RegisteredHost
<1>3. PICK k \in RoomId : rooms[k] = uroom'[v]
  BY DEF Registered
<1>4. k # j
  BY <1>1, <1>3
<1> QED
  BY <1>2, <1>3, <1>4 DEF TypeOK

\* Whatever begins to disband a room has found it on the table: by the Room field of
\* who aborts, by the pointer that callbacks and goroutines compare, or by its id.
LEMMA BeginsAtHome ==
  ASSUME TypeOK, RegisteredHost, Housed, AllChecked,
         \/ RoundNext \/ SwitchNext \/ TimerNext \/ ContestNext \/ RoomAdminNext
         \/ \E p \in Ptr, how \in {"checked", "unchecked"} : DisbandPending(p, how)
         \/ \E u \in User : KickAbort(u)
  PROVE  disbanding' = disbanding \/ \E i \in RoomId : rooms[i] = disbanding'
<1>1. ASSUME NEW p \in Ptr, NEW r, NEW b, Advance(p, r, b), b => Registered(p)
      PROVE  disbanding' = disbanding \/ \E i \in RoomId : rooms[i] = disbanding'
  BY <1>1 DEF Advance, Registered
<1>2. ASSUME NEW u \in User, AbortRound(u)
      PROVE  disbanding' = disbanding \/ \E i \in RoomId : rooms[i] = disbanding'
  <2>1. PICK p \in Ptr : p = uroom[u]
    BY <1>2 DEF AbortRound, InRoom, TypeOK
  <2>2. Advance(p, Abort(obj[p], u), Disbands(Aborted(obj[p], u)))
    BY <1>2, <2>1 DEF AbortRound
  <2>3. Registered(p)
    BY <2>1, PtrAssumption DEF Housed
  <2> QED
    BY <1>1, <2>2, <2>3
<1>3. ASSUME NEW p \in Ptr, DeadlineExpires(p)
      PROVE  disbanding' = disbanding \/ \E i \in RoomId : rooms[i] = disbanding'
  <2> DEFINE r == [obj[p] EXCEPT !.playLate = "none"]
  <2>1. \/ StillMapped(p) /\ Advance(p, CheckAllReady(ExpirePlay(r)), Disbands(ExpirePlay(r)))
        \/ Advance(p, r, FALSE)
    BY <1>3 DEF DeadlineExpires
  <2>2. StillMapped(p) => Registered(p)
    BY MappedIsRegistered
  <2> HIDE DEF r
  <2> QED
    BY <1>1, <2>1, <2>2
<1>4. ASSUME NEW p \in Ptr, NEW how \in {"checked", "unchecked"}, DisbandPending(p, how)
      PROVE  disbanding' = disbanding \/ \E i \in RoomId : rooms[i] = disbanding'
  <2> DEFINE r == [obj[p] EXCEPT !.pending = @ \ {how}]
             b == how = "unchecked" \/ StillMapped(p)
  <2>1. Advance(p, r, b) /\ how \in obj[p].pending
    BY <1>4 DEF DisbandPending
  <2>2. b => Registered(p)
    BY <2>1, MappedIsRegistered DEF AllChecked
  <2> HIDE DEF r, b
  <2> QED
    BY <1>1, <2>1, <2>2
<1>5. ASSUME RoundNext
      PROVE  disbanding' = disbanding \/ \E i \in RoomId : rooms[i] = disbanding'
  BY <1>2, <1>5 DEF RoundNext, SelectChart, Waits, PlayedFetch, PlayedStore
<1>6. ASSUME TimerNext
      PROVE  disbanding' = disbanding \/ \E i \in RoomId : rooms[i] = disbanding'
  BY <1>3, <1>6 DEF TimerNext, ReadyFires, ReadyExpires, DeadlineFires
<1>7. SwitchNext \/ ContestNext => disbanding' = disbanding
  BY DEF SwitchNext, LockRoom, CycleRoom, ContestNext, EnableContest, DisableContest,
     SetContestWhitelist, StartContest
<1>8. ASSUME RoomAdminNext
      PROVE  disbanding' = disbanding \/ \E i \in RoomId : rooms[i] = disbanding'
  <2>1. \A i \in RoomId : AdminDisband(i) => disbanding' = rooms[i]
    BY DEF AdminDisband, Advance
  <2>2. \A i \in RoomId, b \in BOOLEAN :
          SetRoomLocked(i, b) \/ SetRoomCycle(i, b) => disbanding' = disbanding
    BY DEF SetRoomLocked, SetRoomCycle
  <2>3. \A i \in RoomId : \A n \in 1 .. Cardinality(User) :
          SetMaxUsers(i, n) => disbanding' = disbanding
    BY DEF SetMaxUsers
  <2>4. \A i \in RoomId, u \in User :
          TransferHost(i, u) \/ SetNextHost(i, u) => disbanding' = disbanding
    BY DEF TransferHost, SetNextHost
  <2> QED
    BY <1>8, <2>1, <2>2, <2>3, <2>4 DEF RoomAdminNext
<1>9. (\E u \in User : KickAbort(u)) => disbanding' = disbanding
  BY DEF KickAbort
<1> QED
  BY <1>4, <1>5, <1>6, <1>7, <1>8, <1>9

\* Steps that write one object and no member.
LEMMA SteadyHome ==
  ASSUME Housed, AtHome, SteadyStep \/ IdleStep,
         disbanding' = disbanding \/ \E i \in RoomId : rooms[i] = disbanding'
  PROVE  Housed' /\ AtHome'
<1>1. UNCHANGED <<rooms, uroom>>
  BY DEF SteadyStep, IdleStep, Writes
<1>2. Housed'
  BY <1>1 DEF Housed, Registered
<1>3. AtHome'
  BY <1>1 DEF AtHome, Registered
<1> QED
  BY <1>2, <1>3

\* A leave that ends a contest round has left a player, the host, in the room.
LEMMA LeaveBegins ==
  ASSUME TypeOK, RegisteredHost, Housed, StateFree, NEW u \in User, uroom[u] # None,
         umon[u] = FALSE, NEW refresh \in BOOLEAN, LeavesRoom(u, refresh)
  PROVE  disbanding' = disbanding \/ (disbanding' = uroom[u] /\ rooms' = rooms)
<1>p. PICK p \in Ptr : p = uroom[u]
  BY DEF TypeOK
<1> DEFINE r == obj[p]
           m == RemoveMember(r, u, FALSE)
<1>1. PICK i \in RoomId : rooms[i] = p
  BY <1>p, PtrAssumption DEF Housed, Registered
<1>2. r.host \in r.users
  BY <1>1, PtrAssumption DEF RegisteredHost, StateFree
<1>3. r \in RoomType /\ m.users = r.users \ {u}
  BY DEF RemoveMember, TypeOK, RoomType
<1>4. ASSUME LeaveDisbands(r, u, FALSE) PROVE ~ShouldDrop(r, u, FALSE)
  <2>1. ~HostLeftAlone(r, u, FALSE)
    BY <1>4 DEF LeaveDisbands
  <2>2. m.users # {}
    BY <1>2, <1>3, <2>1 DEF HostLeftAlone
  <2> HIDE DEF m
  <2> QED
    BY <2>1, <2>2 DEF ShouldDrop, Participants, m
<1>5. \/ LeaveDisbands(r, u, FALSE) /\ disbanding' = p
      \/ disbanding' = disbanding
  BY <1>p DEF LeavesRoom, Advance
<1>6. ~ShouldDrop(r, u, FALSE) => rooms' = rooms
  BY <1>p DEF LeavesRoom
<1> QED
  BY <1>p, <1>4, <1>5, <1>6

\* Members who come and go, and the loop of DisbandRoom.
LEMMA MembersHome ==
  ASSUME TypeOK, RegisteredHost, Orderly, Listed, Housed, AtHome, AllChecked, Listed',
         Monitors = {},
         ConnectionNext \/ MembershipNext \/ DisbandNext
  PROVE  Housed' /\ AtHome'
<1>0. ASSUME UNCHANGED <<rooms, obj, uroom, disbanding>> PROVE Housed' /\ AtHome'
  BY <1>0 DEF Housed, AtHome, Registered
<1>m. \A u \in User : umon[u] = FALSE
  BY DEF Orderly, Unwatched, TypeOK
<1>1. ASSUME StateFree, NEW u \in User, uroom[u] # None, NEW refresh \in BOOLEAN,
             LeavesRoom(u, refresh)
      PROVE  Housed' /\ AtHome'
  <2>1. PICK s \in RoomType : LeftBehind(u, s)
    BY <1>1, LeavesBehind
  <2>2. PICK p \in Ptr : p = uroom[u]
    BY <1>1 DEF TypeOK
  <2> DEFINE drop == ShouldDrop(obj[p], u, umon[u])
  <2>3. /\ obj' = [obj EXCEPT ![p] = s] /\ uroom' = [uroom EXCEPT ![u] = None]
        /\ rooms' = IF drop THEN [rooms EXCEPT ![obj[p].id] = None] ELSE rooms
        /\ s.monitors = obj[p].monitors /\ (drop => s.users = {})
    BY <1>1, <1>m, <2>1, <2>2 DEF LeftBehind
  <2> HIDE DEF drop
  <2>4. s.monitors = {}
    BY <2>3, OrderlyNow
  <2>5. \A v \in User : uroom'[v] # None => (uroom'[v] = uroom[v] /\ Registered(uroom'[v]))
    BY <2>3 DEF Housed, TypeOK
  <2>6. Housed'
    <3>1. CASE drop
      <4>1. ASSUME NEW v \in User, uroom'[v] = p PROVE FALSE
        <5>1. v \in Participants(obj'[p])
          BY <4>1, PtrAssumption DEF Listed
        <5>2. obj'[p] = s
          BY <2>3 DEF TypeOK
        <5> QED
          BY <2>3, <2>4, <3>1, <5>1, <5>2 DEF Participants
      <4>2. Registered(p)
        BY <1>1, <2>2 DEF Housed
      <4>3. \A v \in User : uroom'[v] # None => (Registered(uroom'[v]) /\ uroom'[v] # p)
        BY <2>5, <4>1
      <4> QED
        BY <2>3, <3>1, <4>2, <4>3, HousedDrop
    <3>2. CASE ~drop
      BY <2>3, <2>5, <3>2 DEF Housed, Registered
    <3> QED
      BY <3>1, <3>2
  <2>7. disbanding' = None \/ (disbanding' = p /\ rooms' = rooms)
    BY <1>1, <1>m, <2>2, LeaveBegins DEF StateFree
  <2>8. Registered(p)
    BY <1>1, <2>2 DEF Housed
  <2> QED
    BY <2>6, <2>7, <2>8 DEF AtHome, Registered
<1>2. CASE ConnectionNext
  <2>1. PICK u \in User : Connect(u) \/ Reconnect(u) \/ Disconnect(u)
                            \/ Dangle(u) \/ ProcessDangle(u)
    BY <1>2 DEF ConnectionNext
  <2>2. CASE Connect(u) \/ Reconnect(u) \/ Dangle(u)
    BY <1>0, <2>2 DEF Connect, Reconnect, Dangle
  <2>3. CASE Disconnect(u) \/ ProcessDangle(u)
    <3>1. StateFree /\ (UNCHANGED <<rooms, obj, uroom, disbanding>>
                          \/ (uroom[u] # None /\ LeavesRoom(u, FALSE)))
      BY <2>3 DEF Disconnect, ProcessDangle, RemoveUser
    <3> QED
      BY <1>0, <1>1, <3>1
  <2> QED
    BY <2>1, <2>2, <2>3
<1>3. CASE MembershipNext
  <2>1. PICK u \in User :
          \/ LeaveRoom(u)
          \/ \E i \in RoomId : \/ \E p \in Ptr : CreateRoom(u, i, p)
                               \/ \E mon \in BOOLEAN : JoinRoom(u, i, mon)
    BY <1>3 DEF MembershipNext
  <2>2. CASE LeaveRoom(u)
    BY <1>1, <2>2 DEF LeaveRoom, InRoom
  <2>3. ASSUME NEW i \in RoomId, NEW p \in Ptr, CreateRoom(u, i, p)
        PROVE  Housed' /\ AtHome'
    <3> DEFINE n == NewRoom(i, u, policy.replay)
    <3>1. /\ obj' = [obj EXCEPT ![p] = n] /\ uroom' = [uroom EXCEPT ![u] = p]
          /\ rooms' = [rooms EXCEPT ![i] = p] /\ rooms[i] = None /\ disbanding' = None
          /\ policy.replay \in BOOLEAN
      BY <2>3 DEF CreateRoom, StateFree, TypeOK
    <3> HIDE DEF n
    <3>3. ASSUME NEW v \in User, uroom'[v] # None
          PROVE  \E k \in RoomId : rooms'[k] = uroom'[v]
      <4>1. CASE v = u
        BY <3>1, <4>1 DEF TypeOK
      <4>2. CASE v # u
        <5>1. uroom'[v] = uroom[v]
          BY <3>1, <4>2 DEF TypeOK
        <5>2. PICK k \in RoomId : rooms[k] = uroom[v]
          BY <3>3, <5>1 DEF Housed, Registered
        <5>3. k # i
          BY <3>1, <3>3, <5>1, <5>2
        <5> QED
          BY <3>1, <5>1, <5>2, <5>3 DEF TypeOK
      <4> QED
        BY <4>1, <4>2
    <3> QED
      BY <3>1, <3>3 DEF Housed, AtHome, Registered
  <2>4. ASSUME NEW i \in RoomId, NEW mon \in BOOLEAN, JoinRoom(u, i, mon)
        PROVE  Housed' /\ AtHome'
    <3>1. PICK p \in Ptr : p = rooms[i]
      BY <2>4 DEF TypeOK, JoinRoom
    <3>2. uroom' = [uroom EXCEPT ![u] = p] /\ rooms' = rooms /\ disbanding' = None
      BY <2>4, <3>1 DEF JoinRoom, StateFree
    <3>3. Housed'
      BY <3>1, <3>2 DEF Housed, Registered, TypeOK
    <3> QED
      BY <3>2, <3>3 DEF AtHome
  <2> QED
    BY <2>1, <2>2, <2>3, <2>4
<1>4. CASE DisbandNext
  <2>1. ASSUME NEW u \in User, DisbandLeave(u) PROVE Housed' /\ AtHome'
    <3>1. uroom' = [uroom EXCEPT ![u] = None] /\ UNCHANGED <<rooms, disbanding>>
      BY <2>1 DEF DisbandLeave
    <3> QED
      BY <3>1 DEF Housed, AtHome, Registered, TypeOK
  <2>2. CASE DisbandEnd
    <3>1. PICK p \in Ptr : p = disbanding
      BY <2>2 DEF DisbandEnd, TypeOK
    <3>2. /\ rooms' = [rooms EXCEPT ![obj[p].id] = None] /\ UNCHANGED <<obj, uroom>>
          /\ disbanding' = None /\ ToLeave(p) = {} /\ Registered(p)
      BY <2>2, <3>1, PtrAssumption DEF DisbandEnd, AtHome
    <3>3. ASSUME NEW v \in User, uroom[v] = p PROVE FALSE
      <4>1. uroom[v] # None /\ v \in Participants(obj[p])
        BY <3>3, PtrAssumption DEF Listed
      <4> QED
        BY <3>2, <3>3, <4>1 DEF ToLeave
    <3>4. \A v \in User : uroom'[v] # None => (Registered(uroom'[v]) /\ uroom'[v] # p)
      BY <3>2, <3>3 DEF Housed
    <3>5. Housed'
      BY <3>2, <3>4, HousedDrop
    <3> QED
      BY <3>2, <3>5 DEF AtHome
  <2>3. ASSUME NEW p \in Ptr, NEW how \in {"checked", "unchecked"}, DisbandPending(p, how)
        PROVE  Housed' /\ AtHome'
    BY <2>3, PendingSteady, BeginsAtHome, SteadyHome DEF OrdinaryStep, SteadyStep
  <2> QED
    BY <1>4, <2>1, <2>2, <2>3 DEF DisbandNext
<1> QED
  BY <1>2, <1>3, <1>4

\* Moves to another room, kicks and a new policy.
LEMMA AdminHome ==
  ASSUME TypeOK, RegisteredHost, Orderly, Listed, Housed, AtHome, AllChecked,
         Monitors = {},
         UserAdminNext \/ Administer, ~MovesHome
  PROVE  Housed' /\ AtHome'
<1>1. ASSUME NEW u \in User, NEW i \in RoomId, NEW mon \in BOOLEAN, MoveUser(u, i, mon)
      PROVE  Housed' /\ AtHome'
  <2>1. mon = FALSE /\ umon[u] = FALSE
    BY <1>1 DEF MoveUser, ValidateJoin, Orderly, Unwatched, TypeOK
  <2>2. PICK p \in Ptr, q \in Ptr : p = uroom[u] /\ q = rooms[i]
    BY <1>1 DEF MoveUser, TypeOK
  <2>3. p # q /\ Registered(p) /\ Registered(q)
    BY <1>1, <2>2, PtrAssumption DEF MovesHome, Housed, Registered
  <2>m. MoveUser(u, i, FALSE)
    BY <1>1, <2>1
  <2>4. PICK a \in RoomType, l \in RoomType, drop \in BOOLEAN : Moved(u, p, q, a, l, drop)
    BY <2>1, <2>2, <2>m, MoveWrites
  <2>5. /\ obj' = [[obj EXCEPT ![q] = a] EXCEPT ![p] = l]
        /\ rooms' = IF drop THEN [rooms EXCEPT ![obj[p].id] = None] ELSE rooms
        /\ uroom' = [uroom EXCEPT ![u] = q] /\ disbanding' = disbanding /\ disbanding = None
        /\ l.users = obj[p].users \ {u} /\ (drop => l.users = {})
    BY <2>4 DEF Moved, StateFree
  <2>7. AtHome'
    BY <2>5 DEF AtHome
  <2>8. \A v \in User : uroom'[v] = IF v = u THEN q ELSE uroom[v]
    BY <2>5 DEF TypeOK
  <2>9. \A v \in User : uroom'[v] # None => Registered(uroom'[v])
    BY <2>3, <2>8 DEF Housed
  <2>10. Housed'
    <3>1. CASE drop
      <4>1. ASSUME NEW v \in User, uroom'[v] = p PROVE FALSE
        <5>1. v # u /\ uroom[v] = p
          BY <2>3, <2>8, <4>1
        <5>2. v \in obj[p].users
          BY <5>1, OrderlyNow, PtrAssumption DEF Listed, Participants
        <5> QED
          BY <2>5, <3>1, <5>1, <5>2
      <4>2. \A v \in User : uroom'[v] # None => (Registered(uroom'[v]) /\ uroom'[v] # p)
        BY <2>9, <4>1
      <4> QED
        BY <2>3, <2>5, <3>1, <4>2, HousedDrop
    <3>2. CASE ~drop
      BY <2>5, <2>9, <3>2 DEF Housed, Registered
    <3> QED
      BY <3>1, <3>2
  <2> QED
    BY <2>7, <2>10
<1>2. ASSUME NEW new, SetPolicy(new), new.replay \in BOOLEAN PROVE Housed' /\ AtHome'
  BY <1>2 DEF SetPolicy, Housed, AtHome, Registered
<1>3. CASE UserAdminNext
  <2>1. PICK u \in User :
          \/ KickAbort(u) \/ KickDetach(u)
          \/ \E i \in RoomId, mon \in BOOLEAN : MoveUser(u, i, mon)
    BY <1>3 DEF UserAdminNext
  <2>2. CASE KickAbort(u)
    BY <2>2, KickSteady, BeginsAtHome, SteadyHome DEF OrdinaryStep, SteadyStep
  <2>3. CASE KickDetach(u)
    BY <2>3 DEF KickDetach, Housed, AtHome, Registered
  <2> QED
    BY <1>1, <2>1, <2>2, <2>3
<1>4. CASE Administer
  BY <1>2, <1>4, NewPolicy
<1> QED
  BY <1>3, <1>4

\* What makes both directions of membership agree.
Agreed ==
  TypeOK /\ RegisteredHost /\ Orderly /\ Listed /\ Housed /\ AtHome /\ AllChecked

\* Every step without monitors, moves home and unchecked disbands keeps it.
LEMMA AgreedStep ==
  ASSUME Monitors = {}, Agreed, [CheckedNext]_vars
  PROVE  Agreed'
<1>0. TypeOK /\ RegisteredHost /\ Orderly /\ Listed /\ Housed /\ AtHome /\ AllChecked
  BY DEF Agreed
<1>1. [Next]_vars /\ [AwayNext]_vars
  BY DEF CheckedNext, AwayNext
<1>2. TypeOK' /\ RegisteredHost' /\ Orderly' /\ Listed'
  BY <1>0, <1>1, SafeStep, OrderlyStep, ListedStep
<1>3. AllChecked'
  BY <1>0 DEF CheckedNext, KickEndsContest, AllChecked, vars
<1>4. (OrdinaryStep => SteadyStep)
  BY DEF OrdinaryStep, SteadyStep
<1>9. Housed' /\ AtHome'
  <2>1. CASE ConnectionNext \/ MembershipNext \/ DisbandNext
    BY <1>0, <1>2, <2>1, MembersHome
  <2>2. CASE RoundNext \/ SwitchNext \/ TimerNext \/ ContestNext \/ RoomAdminNext
    <3>1. disbanding' = disbanding \/ \E i \in RoomId : rooms[i] = disbanding'
      BY <1>0, <2>2, BeginsAtHome
    <3>2. SteadyStep \/ IdleStep
      BY <1>0, <1>4, <2>2, RoundSteady, SwitchSteady, TimerSteady, ContestSteady,
         RoomAdminSteady
    <3> QED
      BY <1>0, <3>1, <3>2, SteadyHome
  <2>3. CASE (UserAdminNext \/ Administer) /\ ~MovesHome
    BY <1>0, <2>3, AdminHome
  <2>4. CASE UNCHANGED vars
    BY <1>0, <2>4 DEF vars, Housed, AtHome, Registered
  <2> QED
    BY <2>1, <2>2, <2>3, <2>4 DEF CheckedNext, AwayNext, Next, ClientNext, AdminNext
<1> QED
  BY <1>2, <1>3, <1>9 DEF Agreed

\* The initial state.
LEMMA AgreedInit == Init => Agreed
<1>1. Init => Housed /\ AtHome /\ AllChecked
  BY DEF Init, Housed, AtHome, AllChecked, Unused
<1> QED
  BY <1>1, SafeInit, OrderlyInit, ListedInit DEF Agreed

\* A server without monitors, moves home and kicks that end a contest round, whatever
\* else players, timers, contests and administrators do: a player on the list of a
\* registered room has that room in his Room field, and a Room field names a registered
\* room (LeaveRoom, removeUser, DisbandRoom, MoveUser: no order of them leaves a pointer
\* to a room that is gone).
THEOREM MembersAgree == ASSUME Monitors = {} PROVE CheckedSpec => []MembershipAgrees
<1>1. Agreed /\ [CheckedNext]_vars => Agreed'
  BY AgreedStep
<1>2. Agreed => MembershipAgrees
  <2> SUFFICES ASSUME Agreed PROVE MembershipAgrees
    OBVIOUS
  <2>1. TypeOK /\ Orderly /\ Housed
    BY DEF Agreed
  <2>2. ASSUME NEW p \in Ptr
        PROVE  /\ \A u \in obj[p].users : uroom[u] = p /\ ~umon[u]
               /\ obj[p].monitors = {}
    BY <2>1, OrderlyNow DEF Orderly, Unwatched
  <2> QED
    BY <2>1, <2>2 DEF MembershipAgrees, Housed
<1> QED
  BY <1>1, <1>2, AgreedInit, PTL DEF CheckedSpec

\* The same server: a room leaves the table only when its list of players is empty and it
\* is nobody's Room, whichever of its drops and disbands, at once or from a goroutine, by
\* a pointer or by an id that was used again, takes it off (dispatchLeaveRoom, removeUser,
\* DisbandRoom, the goroutine of handlePlayed).
THEOREM RoomsOutliveTheirMembers == ASSUME Monitors = {} PROVE CheckedSpec => NobodyIsStranded
<1>1. Agreed /\ [CheckedNext]_vars => Agreed'
  BY AgreedStep
<1>2. ASSUME Agreed, [CheckedNext]_vars
      PROVE  \A p \in Ptr : (Registered(p) /\ ~Registered(p)')
               => obj'[p].users = {} /\ \A u \in User : uroom'[u] # p
  <2> SUFFICES ASSUME NEW p \in Ptr, ~Registered(p)'
               PROVE  obj'[p].users = {} /\ \A u \in User : uroom'[u] # p
    OBVIOUS
  <2>1. TypeOK' /\ MembersPointBack' /\ Housed'
    BY <1>2, AgreedStep DEF Agreed, Orderly
  <2>2. \A u \in User : uroom'[u] # p
    BY <2>1, PtrAssumption DEF Housed, Registered
  <2>3. obj'[p].users \subseteq User
    BY <2>1, FieldTypes DEF TypeOK
  <2> QED
    BY <2>1, <2>2, <2>3 DEF MembersPointBack
<1>3. Agreed /\ [CheckedNext]_vars =>
        [\A p \in Ptr : (Registered(p) /\ ~Registered(p)')
           => obj'[p].users = {} /\ \A u \in User : uroom'[u] # p]_vars
  BY <1>2
<1> QED
  BY <1>1, <1>3, AgreedInit, PTL DEF CheckedSpec, NobodyIsStranded

-----------------------------------------------------------------------------
(* What is watched is live, whoever may watch.  MoveUser into the list of
   monitors is left out: it does not call RefreshLive. *)

MovesToWatch == \E u \in User, i \in RoomId : MoveUser(u, i, TRUE)

WatchNext == Next /\ ~MovesToWatch

WatchSpec == Init /\ [][WatchNext]_vars

\* The object is live if its monitors or a recording ask for it.
Shown(r, replay) == (r.monitors # {} \/ (replay /\ r.eligible)) => r.live

\* The object s was r: it has no new monitor and its flags are the same.
Dimmed(r, s) ==
  s.monitors \subseteq r.monitors /\ s.live = r.live /\ s.eligible = r.eligible

\* An object is shown if it was and no monitor has come.
LEMMA DimmedShown ==
  ASSUME NEW r, NEW s, NEW replay, Dimmed(r, s), Shown(r, replay)
  PROVE  Shown(s, replay)
  BY DEF Dimmed, Shown

\* Every room of the table is shown after the step.
LEMMA ShownRooms ==
  ASSUME WatchedIsLive, policy' = policy,
         \A p \in Ptr : Registered(p)' =>
           \/ Shown(obj'[p], policy.replay)
           \/ Registered(p) /\ Dimmed(obj[p], obj'[p])
  PROVE  WatchedIsLive'
<1> SUFFICES ASSUME NEW p \in Ptr, Registered(p)'
             PROVE  Shown(obj'[p], policy'.replay)
  BY DEF WatchedIsLive, Shown
<1>1. CASE Shown(obj'[p], policy.replay)
  BY <1>1
<1>2. CASE Registered(p) /\ Dimmed(obj[p], obj'[p])
  <2>1. Shown(obj[p], policy.replay)
    BY <1>2 DEF WatchedIsLive, Shown
  <2> QED
    BY <1>2, <2>1, DimmedShown
<1> QED
  BY <1>1, <1>2

\* Steps that write one object and no member.
LEMMA SteadyShown ==
  ASSUME TypeOK, WatchedIsLive, SteadyStep \/ IdleStep
  PROVE  WatchedIsLive'
<1>1. CASE SteadyStep
  <2>1. PICK p \in Ptr, s \in RoomType : Writes(p, s) /\ Steady(p, s)
    BY <1>1 DEF SteadyStep
  <2>2. obj' = [obj EXCEPT ![p] = s] /\ UNCHANGED <<rooms, policy>> /\ Dimmed(obj[p], s)
    BY <2>1 DEF Writes, Steady, Framed, Dimmed
  <2>3. \A q \in Ptr : obj'[q] = IF q = p THEN s ELSE obj[q]
    BY <2>2 DEF TypeOK
  <2>4. \A q \in Ptr : Registered(q)' => Registered(q) /\ Dimmed(obj[q], obj'[q])
    BY <2>2, <2>3 DEF Registered, Dimmed
  <2> QED
    BY <2>2, <2>4, ShownRooms
<1>2. CASE IdleStep
  BY <1>2 DEF IdleStep, WatchedIsLive, Registered
<1> QED
  BY <1>1, <1>2

\* Members who come and go: who comes refreshes the flag, who goes may leave it set.
LEMMA MembersShown ==
  ASSUME TypeOK, WatchedIsLive, ConnectionNext \/ MembershipNext \/ DisbandNext
  PROVE  WatchedIsLive'
<1>0. ASSUME UNCHANGED <<rooms, obj, policy>> PROVE WatchedIsLive'
  BY <1>0 DEF WatchedIsLive, Registered
<1>1. ASSUME StateFree, NEW u \in User, uroom[u] # None, NEW refresh \in BOOLEAN,
             LeavesRoom(u, refresh), policy' = policy
      PROVE  WatchedIsLive'
  <2>1. PICK s \in RoomType : LeftBehind(u, s)
    BY <1>1, LeavesBehind
  <2>2. PICK p \in Ptr : p = uroom[u]
    BY <1>1 DEF TypeOK
  <2> DEFINE drop == ShouldDrop(obj[p], u, umon[u])
  <2>3. /\ obj' = [obj EXCEPT ![p] = s]
        /\ rooms' = IF drop THEN [rooms EXCEPT ![obj[p].id] = None] ELSE rooms
        /\ Dimmed(obj[p], s) \/ Shown(s, policy.replay)
    BY <2>1, <2>2 DEF LeftBehind, Dimmed, Shown
  <2> HIDE DEF drop
  <2>4. \A q \in Ptr : obj'[q] = IF q = p THEN s ELSE obj[q]
    BY <2>3 DEF TypeOK
  <2>5. \A q \in Ptr : Registered(q)' => Registered(q)
    BY <2>3, PtrAssumption DEF Registered, TypeOK
  <2>6. \A q \in Ptr : Dimmed(obj[q], obj[q])
    BY DEF Dimmed
  <2>7. \A q \in Ptr : Registered(q)' =>
          \/ Shown(obj'[q], policy.replay)
          \/ Registered(q) /\ Dimmed(obj[q], obj'[q])
    BY <2>3, <2>4, <2>5, <2>6
  <2> QED
    BY <1>1, <2>7, ShownRooms
<1>2. CASE ConnectionNext
  <2>1. PICK u \in User : Connect(u) \/ Reconnect(u) \/ Disconnect(u)
                            \/ Dangle(u) \/ ProcessDangle(u)
    BY <1>2 DEF ConnectionNext
  <2>2. CASE Connect(u) \/ Reconnect(u) \/ Dangle(u)
    BY <1>0, <2>2 DEF Connect, Reconnect, Dangle
  <2>3. CASE Disconnect(u) \/ ProcessDangle(u)
    <3>1. /\ StateFree /\ policy' = policy
          /\ UNCHANGED <<rooms, obj>> \/ (uroom[u] # None /\ LeavesRoom(u, FALSE))
      BY <2>3 DEF Disconnect, ProcessDangle, RemoveUser
    <3> QED
      BY <1>0, <1>1, <3>1
  <2> QED
    BY <2>1, <2>2, <2>3
<1>3. CASE MembershipNext
  <2>1. PICK u \in User :
          \/ LeaveRoom(u)
          \/ \E i \in RoomId : \/ \E p \in Ptr : CreateRoom(u, i, p)
                               \/ \E mon \in BOOLEAN : JoinRoom(u, i, mon)
    BY <1>3 DEF MembershipNext
  <2>2. CASE LeaveRoom(u)
    BY <1>1, <2>2 DEF LeaveRoom, InRoom
  <2>3. ASSUME NEW i \in RoomId, NEW p \in Ptr, CreateRoom(u, i, p)
        PROVE  WatchedIsLive'
    <3> DEFINE n == NewRoom(i, u, policy.replay)
    <3>1. /\ obj' = [obj EXCEPT ![p] = n] /\ rooms' = [rooms EXCEPT ![i] = p]
          /\ policy' = policy /\ policy.replay \in BOOLEAN
      BY <2>3 DEF CreateRoom, TypeOK
    <3>2. Shown(n, policy.replay)
      BY <3>1, NewRoomTimes DEF Shown
    <3> HIDE DEF n
    <3>3. ASSUME NEW q \in Ptr, Registered(q)'
          PROVE  \/ Shown(obj'[q], policy.replay)
                 \/ Registered(q) /\ Dimmed(obj[q], obj'[q])
      <4>1. CASE q = p
        BY <3>1, <3>2, <4>1 DEF TypeOK
      <4>2. CASE q # p
        BY <3>1, <3>3, <4>2 DEF Registered, Dimmed, TypeOK
      <4> QED
        BY <4>1, <4>2
    <3> QED
      BY <3>1, <3>3, ShownRooms
  <2>4. ASSUME NEW i \in RoomId, NEW mon \in BOOLEAN, JoinRoom(u, i, mon)
        PROVE  WatchedIsLive'
    <3>1. PICK p \in Ptr : p = rooms[i]
      BY <2>4 DEF TypeOK, JoinRoom
    <3> DEFINE rep == policy.replay
               s == Joined(obj[p], u, mon, rep)
    <3>2. /\ obj' = [obj EXCEPT ![p] = s] /\ obj[p] \in RoomType /\ rep \in BOOLEAN
          /\ UNCHANGED <<rooms, policy>>
      BY <2>4, <3>1 DEF JoinRoom, Joined, TypeOK
    <3> HIDE DEF rep
    <3>3. s.live = (s.monitors # {} \/ (rep /\ s.eligible))
      BY <3>2, JoinTimes
    <3> HIDE DEF s
    <3>4. Shown(s, policy.replay)
      BY <3>3 DEF Shown, rep
    <3>5. \A q \in Ptr : obj'[q] = IF q = p THEN s ELSE obj[q]
      BY <3>2 DEF TypeOK
    <3>6. \A q \in Ptr : Registered(q)' =>
            \/ Shown(obj'[q], policy.replay)
            \/ Registered(q) /\ Dimmed(obj[q], obj'[q])
      BY <3>2, <3>4, <3>5 DEF Registered, Dimmed
    <3> QED
      BY <3>2, <3>6, ShownRooms
  <2> QED
    BY <2>1, <2>2, <2>3, <2>4
<1>4. CASE DisbandNext
  <2>1. ASSUME NEW u \in User, DisbandLeave(u) PROVE WatchedIsLive'
    <3>1. PICK p \in Ptr : p = disbanding
      BY <2>1 DEF DisbandLeave, TypeOK
    <3> DEFINE mon == umon[u]
               s == OnUserLeave(obj[p], u, mon)
    <3>2. /\ obj' = [obj EXCEPT ![p] = s] /\ UNCHANGED <<rooms, policy>>
          /\ obj[p] \in RoomType /\ mon \in BOOLEAN
      BY <2>1, <3>1 DEF DisbandLeave, TypeOK
    <3> HIDE DEF mon
    <3>3. Tagged(obj[p], s)
      BY <3>2, OnUserLeaveCalm DEF Calm
    <3>4. s.monitors \in {obj[p].monitors, obj[p].monitors \ {u}}
      BY <3>2, LeaveKeeps
    <3> HIDE DEF s
    <3>5. Dimmed(obj[p], s)
      BY <3>3, <3>4 DEF Dimmed, Tagged
    <3>6. \A q \in Ptr : Registered(q)' => Registered(q) /\ Dimmed(obj[q], obj'[q])
      BY <3>2, <3>5 DEF Registered, Dimmed, TypeOK
    <3> QED
      BY <3>2, <3>6, ShownRooms
  <2>2. CASE DisbandEnd
    <3>1. UNCHANGED <<obj, policy>> /\ \A q \in Ptr : Registered(q)' => Registered(q)
      BY <2>2, PtrAssumption DEF DisbandEnd, Registered, TypeOK
    <3> QED
      BY <3>1, ShownRooms DEF Dimmed
  <2>3. ASSUME NEW p \in Ptr, NEW how \in {"checked", "unchecked"}, DisbandPending(p, how)
        PROVE  WatchedIsLive'
    BY <2>3, PendingSteady, SteadyShown DEF OrdinaryStep, SteadyStep
  <2> QED
    BY <1>4, <2>1, <2>2, <2>3 DEF DisbandNext
<1> QED
  BY <1>2, <1>3, <1>4

\* A player or a monitor is moved to another room's players: no list of monitors grows.
LEMMA MoveShown ==
  ASSUME TypeOK, WatchedIsLive, NEW u \in User, NEW i \in RoomId, MoveUser(u, i, FALSE)
  PROVE  WatchedIsLive'
<1>1. PICK p \in Ptr, q \in Ptr : p = uroom[u] /\ q = rooms[i]
  BY DEF MoveUser, TypeOK
<1> DEFINE m == umon[u]
           a == AddUser(obj[q], u, FALSE)
           w == IF p = q THEN a ELSE obj[p]
           l == OnUserLeave(w, u, m)
           drop == ShouldDrop(w, u, m)
<1>2. obj[p] \in RoomType /\ obj[q] \in RoomType /\ m \in BOOLEAN /\ FALSE \in BOOLEAN
  BY DEF TypeOK
<1>3. a \in RoomType /\ Dimmed(obj[q], a)
  <2>1. a \in RoomType /\ a.monitors = obj[q].monitors
    BY <1>2, AddUserFacts
  <2>2. Tagged(obj[q], a)
    BY <1>2, AddUserTags
  <2> HIDE DEF a
  <2> QED
    BY <2>1, <2>2 DEF Dimmed, Tagged
<1>4. /\ obj' = [[obj EXCEPT ![q] = a] EXCEPT ![p] = l]
      /\ rooms' = IF drop THEN [rooms EXCEPT ![w.id] = None] ELSE rooms
      /\ policy' = policy
  <2>1. [obj EXCEPT ![q] = a][p] = w
    BY DEF TypeOK
  <2> QED
    BY <1>1, <2>1 DEF MoveUser
<1> HIDE DEF a, m
<1>5. w \in RoomType /\ Dimmed(obj[p], w)
  BY <1>2, <1>3 DEF Dimmed
<1> HIDE DEF w
<1>6. Dimmed(w, l)
  <2>1. Tagged(w, l)
    BY <1>2, <1>5, OnUserLeaveCalm DEF Calm
  <2>2. l.monitors \in {w.monitors, w.monitors \ {u}}
    BY <1>2, <1>5, LeaveKeeps
  <2> HIDE DEF l
  <2> QED
    BY <2>1, <2>2 DEF Dimmed, Tagged
<1> HIDE DEF l, drop
<1>7. Dimmed(obj[p], l)
  BY <1>5, <1>6 DEF Dimmed
<1>8. \A x \in Ptr : obj'[x] = IF x = p THEN l ELSE IF x = q THEN a ELSE obj[x]
  BY <1>4 DEF TypeOK
<1>9. \A x \in Ptr : Dimmed(obj[x], obj[x])
  BY DEF Dimmed
<1>10. \A x \in Ptr : Registered(x)' => Registered(x)
  BY <1>4, PtrAssumption DEF Registered, TypeOK
<1>11. \A x \in Ptr : Registered(x)' => Registered(x) /\ Dimmed(obj[x], obj'[x])
  BY <1>3, <1>7, <1>8, <1>9, <1>10
<1> QED
  BY <1>4, <1>11, ShownRooms

\* A new policy refreshes the rooms of the table if it changes the replay switch.
LEMMA PolicyShown ==
  ASSUME TypeOK, WatchedIsLive, NEW new, SetPolicy(new), new.replay \in BOOLEAN
  PROVE  WatchedIsLive'
<1>1. /\ policy' = new /\ rooms' = rooms
      /\ \A p \in Ptr : obj'[p] = IF new.replay # policy.replay /\ Registered(p)
                                  THEN RefreshLive(obj[p], new.replay) ELSE obj[p]
  BY DEF SetPolicy
<1> SUFFICES ASSUME NEW p \in Ptr, Registered(p)'
             PROVE  Shown(obj'[p], new.replay)
  BY <1>1 DEF WatchedIsLive, Shown
<1>2. Registered(p)
  BY <1>1 DEF Registered
<1>3. CASE new.replay # policy.replay
  <2> DEFINE s == RefreshLive(obj[p], new.replay)
  <2>1. obj'[p] = s /\ obj[p] \in RoomType
    BY <1>1, <1>2, <1>3 DEF TypeOK
  <2>2. s.live = (s.monitors # {} \/ (new.replay /\ s.eligible))
    BY <2>1, RefreshLiveTimes
  <2> HIDE DEF s
  <2> QED
    BY <2>1, <2>2 DEF Shown
<1>4. CASE new.replay = policy.replay
  BY <1>1, <1>2, <1>4 DEF WatchedIsLive, Shown
<1> QED
  BY <1>3, <1>4

\* Every step but a move into the monitors keeps what is watched live.
LEMMA ShownStep ==
  ASSUME TypeOK, RegisteredHost, WatchedIsLive, [WatchNext]_vars
  PROVE  WatchedIsLive'
<1>1. (OrdinaryStep => SteadyStep) /\ (SteadyStep \/ IdleStep => WatchedIsLive')
  BY SteadyShown DEF OrdinaryStep, SteadyStep
<1>2. CASE ClientNext
  BY <1>1, <1>2, MembersShown, RoundSteady, SwitchSteady, TimerSteady DEF ClientNext
<1>3. CASE DisbandNext \/ ContestNext
  BY <1>1, <1>3, MembersShown, ContestSteady
<1>4. CASE UserAdminNext /\ ~MovesToWatch
  <2>1. PICK u \in User :
          \/ KickAbort(u) \/ KickDetach(u)
          \/ \E i \in RoomId, mon \in BOOLEAN : MoveUser(u, i, mon)
    BY <1>4 DEF UserAdminNext
  <2>2. CASE KickAbort(u)
    BY <1>1, <2>2, KickSteady
  <2>3. CASE KickDetach(u)
    BY <1>1, <2>3 DEF KickDetach, IdleStep
  <2>4. ASSUME NEW i \in RoomId, NEW mon \in BOOLEAN, MoveUser(u, i, mon)
        PROVE  WatchedIsLive'
    <3>1. mon = FALSE
      BY <1>4, <2>4 DEF MovesToWatch
    <3>2. MoveUser(u, i, FALSE)
      BY <2>4, <3>1
    <3> QED
      BY <3>2, MoveShown
  <2> QED
    BY <2>1, <2>2, <2>3, <2>4
<1>5. CASE RoomAdminNext \/ Administer
  BY <1>1, <1>5, RoomAdminSteady, NewPolicy, PolicyShown
<1>6. CASE UNCHANGED vars
  BY <1>1, <1>6 DEF vars, IdleStep
<1> QED
  BY <1>2, <1>3, <1>4, <1>5, <1>6 DEF WatchNext, Next, AdminNext

\* No room is on the table at the start.
LEMMA ShownInit == Init => WatchedIsLive
  BY PtrAssumption DEF Init, WatchedIsLive, Registered

\* With any set of users who may watch, and whatever players, monitors, timers, contests
\* and administrators do except moving somebody into a room's monitors: a room with a
\* monitor, or with a recording to be made, has its live flag set (RefreshLive is called
\* by every join and by a change of the replay switch, and no other step adds a monitor,
\* makes a room eligible or resets the flag).
THEOREM WatchersAreServed == WatchSpec => []WatchedIsLive
<1>1. TypeOK /\ RegisteredHost /\ WatchedIsLive /\ [WatchNext]_vars
        => (TypeOK /\ RegisteredHost /\ WatchedIsLive)'
  BY SafeStep, ShownStep DEF WatchNext
<1> QED
  BY <1>1, SafeInit, ShownInit, PTL DEF WatchSpec
=============================================================================
