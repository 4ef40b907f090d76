----------------------------- MODULE RoomProofs -----------------------------
(***************************************************************************)
(* Lemmas about the room operators: each keeps the record's type, and      *)
(* CheckAllReady leaves no finished round behind.                          *)
(***************************************************************************)
EXTENDS Room, FiniteSetTheorems, TLAPS

\* pickNextHost returns one of the candidates whenever there is one.
LEMMA PickNextHostIn ==
  ASSUME NEW ids \in SUBSET User, ids # {}, NEW old
  PROVE  PickNextHost(ids, old) \in ids
<1>1. ASSUME NEW S \in SUBSET User, S # {}
      PROVE  Min(S) \in S
  <2>1. S \subseteq Nat
    BY UserAssumption
  <2> DEFINE less == {ss \in Nat \X Nat : ss[1] < ss[2]}
  <2>2. IsWellFoundedOn(less, Nat)
    BY NatLessThanWellFounded DEF OpToRel
  <2>3. PICK x \in S : \A y \in S : ~ (<<y, x>> \in less)
    <3> HIDE DEF less
    <3> QED  BY <1>1, <2>1, <2>2, WFMin
  <2>4. \A y \in S : x =< y
    <3> SUFFICES ASSUME NEW y \in S, y < x PROVE FALSE
      BY <2>1
    <3>1. y \in Nat /\ x \in Nat
      BY <2>1
    <3>2. <<y, x>> \in Nat \X Nat /\ <<y, x>>[1] < <<y, x>>[2]
      BY <3>1
    <3>3. <<y, x>> \in less
      BY <3>2, Zenon
    <3> QED
      BY <2>3, <3>3
  <2> QED
    BY <2>4 DEF Min
<1>2. CASE {i \in ids : i > old} # {}
  BY <1>1, <1>2 DEF PickNextHost
<1>3. CASE {i \in ids : i > old} = {}
  BY <1>1, <1>3 DEF PickNextHost
<1> QED
  BY <1>2, <1>3

-----------------------------------------------------------------------------
(* What the operators leave alone. *)

\* s is a room with the identity and the members of r.
Framed(r, s) ==
  /\ s \in RoomType
  /\ s.id = r.id
  /\ s.users = r.users
  /\ s.monitors = r.monitors

\* The host is one of the players.
Hosted(r) == r.host \in r.users

\* No result is held by a round everybody finished.
Settled(r) == (r.phase = "play" /\ AllFinished(r)) => r.results = {}

\* An update of one field by a value of its type keeps the record's type.
LEMMA UpdateType ==
  ASSUME NEW r \in RoomType
  PROVE  /\ \A v \in User \cup {None} : [r EXCEPT !.host = v] \in RoomType
         /\ \A v \in User \cup {None} : [r EXCEPT !.nextHost = v] \in RoomType
         /\ \A v \in Phase : [r EXCEPT !.phase = v] \in RoomType
         /\ \A v \in SUBSET User : [r EXCEPT !.users = v] \in RoomType
         /\ \A v \in SUBSET User : [r EXCEPT !.monitors = v] \in RoomType
         /\ \A v \in SUBSET User : [r EXCEPT !.started = v] \in RoomType
         /\ \A v \in SUBSET User : [r EXCEPT !.results = v] \in RoomType
         /\ \A v \in SUBSET User : [r EXCEPT !.aborted = v] \in RoomType
         /\ \A v \in SUBSET User : [r EXCEPT !.whitelist = v] \in RoomType
         /\ \A v \in BOOLEAN : [r EXCEPT !.contest = v] \in RoomType
         /\ \A v \in BOOLEAN : [r EXCEPT !.chart = v] \in RoomType
         /\ \A v \in BOOLEAN : [r EXCEPT !.locked = v] \in RoomType
         /\ \A v \in BOOLEAN : [r EXCEPT !.cycle = v] \in RoomType
         /\ \A v \in BOOLEAN : [r EXCEPT !.live = v] \in RoomType
         /\ \A v \in BOOLEAN : [r EXCEPT !.readyArmed = v] \in RoomType
         /\ \A v \in BOOLEAN : [r EXCEPT !.playArmed = v] \in RoomType
         /\ \A v \in Late : [r EXCEPT !.readyLate = v] \in RoomType
         /\ \A v \in Late : [r EXCEPT !.playLate = v] \in RoomType
         /\ \A v \in Nat : [r EXCEPT !.max = v] \in RoomType
         /\ \A v \in SUBSET {"checked", "unchecked"} :
              [r EXCEPT !.pending = v] \in RoomType
<1>1. \A v \in User \cup {None} : [r EXCEPT !.host = v] \in RoomType
  BY DEF RoomType
<1>2. \A v \in User \cup {None} : [r EXCEPT !.nextHost = v] \in RoomType
  BY DEF RoomType
<1>3. \A v \in Phase : [r EXCEPT !.phase = v] \in RoomType
  BY DEF RoomType
<1>4. \A v \in SUBSET User : [r EXCEPT !.users = v] \in RoomType
  BY DEF RoomType
<1>5. \A v \in SUBSET User : [r EXCEPT !.monitors = v] \in RoomType
  BY DEF RoomType
<1>6. \A v \in SUBSET User : [r EXCEPT !.started = v] \in RoomType
  BY DEF RoomType
<1>7. \A v \in SUBSET User : [r EXCEPT !.results = v] \in RoomType
  BY DEF RoomType
<1>8. \A v \in SUBSET User : [r EXCEPT !.aborted = v] \in RoomType
  BY DEF RoomType
<1>9. \A v \in SUBSET User : [r EXCEPT !.whitelist = v] \in RoomType
  BY DEF RoomType
<1>10. \A v \in BOOLEAN : [r EXCEPT !.contest = v] \in RoomType
  BY DEF RoomType
<1>11. \A v \in BOOLEAN : [r EXCEPT !.chart = v] \in RoomType
  BY DEF RoomType
<1>12. \A v \in BOOLEAN : [r EXCEPT !.locked = v] \in RoomType
  BY DEF RoomType
<1>13. \A v \in BOOLEAN : [r EXCEPT !.cycle = v] \in RoomType
  BY DEF RoomType
<1>14. \A v \in BOOLEAN : [r EXCEPT !.live = v] \in RoomType
  BY DEF RoomType
<1>15. \A v \in BOOLEAN : [r EXCEPT !.readyArmed = v] \in RoomType
  BY DEF RoomType
<1>16. \A v \in BOOLEAN : [r EXCEPT !.playArmed = v] \in RoomType
  BY DEF RoomType
<1>17. \A v \in Late : [r EXCEPT !.readyLate = v] \in RoomType
  BY DEF RoomType
<1>18. \A v \in Late : [r EXCEPT !.playLate = v] \in RoomType
  BY DEF RoomType
<1>19. \A v \in Nat : [r EXCEPT !.max = v] \in RoomType
  BY DEF RoomType
<1>20. \A v \in SUBSET {"checked", "unchecked"} : [r EXCEPT !.pending = v] \in RoomType
  BY DEF RoomType
<1> QED
  BY <1>1, <1>2, <1>3, <1>4, <1>5, <1>6, <1>7, <1>8, <1>9, <1>10,
     <1>11, <1>12, <1>13, <1>14, <1>15, <1>16, <1>17, <1>18, <1>19, <1>20

\* The types of the fields.
LEMMA FieldTypes ==
  ASSUME NEW r \in RoomType
  PROVE  /\ r.host \in User \cup {None} /\ r.nextHost \in User \cup {None}
         /\ r.users \in SUBSET User /\ r.monitors \in SUBSET User
         /\ r.phase \in Phase
         /\ r.started \in SUBSET User /\ r.results \in SUBSET User
         /\ r.aborted \in SUBSET User
         /\ r.readyLate \in Late /\ r.playLate \in Late
         /\ r.pending \in SUBSET {"checked", "unchecked"}
  BY DEF RoomType

\* s differs from r at most in its timers and its pending disbands.
SameRound(r, s) ==
  /\ Framed(r, s)
  /\ s.host = r.host /\ s.nextHost = r.nextHost
  /\ s.phase = r.phase /\ s.results = r.results /\ s.aborted = r.aborted

\* Cancelling or starting a timer changes that timer only.
LEMMA TimerFacts ==
  ASSUME NEW r \in RoomType
  PROVE  /\ SameRound(r, CancelReadyCountdown(r))
         /\ SameRound(r, CancelPlayDeadline(r))
         /\ SameRound(r, StartReadyCountdown(r))
         /\ SameRound(r, StartPlayDeadline(r))
<1>1. Cancelled(r.readyLate) \in Late /\ Cancelled(r.playLate) \in Late
  BY FieldTypes DEF Cancelled, Late
<1>2. [r EXCEPT !.readyArmed = FALSE] \in RoomType
      /\ [r EXCEPT !.playArmed = FALSE] \in RoomType
  BY UpdateType
<1>3. CancelReadyCountdown(r) \in RoomType
  BY <1>1, <1>2, UpdateType DEF CancelReadyCountdown
<1>4. CancelPlayDeadline(r) \in RoomType
  BY <1>1, <1>2, UpdateType DEF CancelPlayDeadline
<1>5. SameRound(r, CancelReadyCountdown(r))
  BY <1>3 DEF SameRound, Framed, CancelReadyCountdown, RoomType
<1>6. SameRound(r, CancelPlayDeadline(r))
  BY <1>4 DEF SameRound, Framed, CancelPlayDeadline, RoomType
<1>7. SameRound(r, StartReadyCountdown(r))
  <2> DEFINE c == CancelReadyCountdown(r)
  <2>1. SameRound(r, [c EXCEPT !.readyArmed = TRUE])
    <3>1. SameRound(r, c) /\ c \in RoomType
      BY <1>3, <1>5
    <3> HIDE DEF c
    <3>2. [c EXCEPT !.readyArmed = TRUE] \in RoomType
      BY <3>1, UpdateType
    <3> QED
      BY <3>1, <3>2 DEF SameRound, Framed, RoomType
  <2>2. SameRound(r, r)
    BY DEF SameRound, Framed
  <2> QED
    BY <2>1, <2>2 DEF StartReadyCountdown
<1>8. SameRound(r, StartPlayDeadline(r))
  <2> DEFINE c == CancelPlayDeadline(r)
  <2>1. SameRound(r, [c EXCEPT !.playArmed = TRUE])
    <3>1. SameRound(r, c) /\ c \in RoomType
      BY <1>4, <1>6
    <3> HIDE DEF c
    <3>2. [c EXCEPT !.playArmed = TRUE] \in RoomType
      BY <3>1, UpdateType
    <3> QED
      BY <3>1, <3>2 DEF SameRound, Framed, RoomType
  <2>2. SameRound(r, r)
    BY DEF SameRound, Framed
  <2> QED
    BY <2>1, <2>2 DEF StartPlayDeadline
<1> QED
  BY <1>5, <1>6, <1>7, <1>8

\* startPlaying keeps the members and the host; the new round is empty.
LEMMA StartPlayingFacts ==
  ASSUME NEW r \in RoomType
  PROVE  /\ Framed(r, StartPlaying(r))
         /\ StartPlaying(r).host = r.host
         /\ StartPlaying(r).results = {}
<1> DEFINE c == CancelPlayDeadline(CancelReadyCountdown(r))
           d == [c EXCEPT !.phase = "play"]
           e == [d EXCEPT !.started = {}]
           f == [e EXCEPT !.results = {}]
           g == [f EXCEPT !.aborted = {}]
<1>1. SameRound(r, c)
  BY TimerFacts DEF SameRound, Framed
<1>2. StartPlaying(r) = g
  BY DEF StartPlaying
<1> HIDE DEF c
<1>3. c \in RoomType /\ "play" \in Phase /\ {} \in SUBSET User
  BY <1>1 DEF SameRound, Framed, Phase
<1>4. d \in RoomType
  BY <1>3, UpdateType
<1>5. e \in RoomType
  BY <1>3, <1>4, UpdateType
<1>6. f \in RoomType
  BY <1>3, <1>5, UpdateType
<1>7. g \in RoomType
  BY <1>3, <1>6, UpdateType
<1>8. /\ g.id = c.id /\ g.users = c.users /\ g.monitors = c.monitors
      /\ g.host = c.host /\ g.results = {}
  BY <1>3 DEF RoomType
<1> QED
  BY <1>1, <1>2, <1>7, <1>8 DEF Framed, SameRound

\* The rotation of a cycling room picks one of its players.
LEMMA CycleHostIn ==
  ASSUME NEW r \in RoomType, r.users # {}
  PROVE  CycleHost(r) \in r.users
  BY FieldTypes, PickNextHostIn DEF CycleHost

\* A settled round: the room chooses a chart, under a host it still has.
LEMMA SettleFacts ==
  ASSUME NEW r \in RoomType
  PROVE  /\ Framed(r, Settle(r))
         /\ Settle(r).phase = "select"
         /\ Hosted(r) => Hosted(Settle(r))
<1> DEFINE c == CancelPlayDeadline(r)
           d == [c EXCEPT !.phase = "select"]
           e == [d EXCEPT !.results = {}]
           s == [e EXCEPT !.aborted = {}]
           t == [s EXCEPT !.host = CycleHost(s)]
           w == [t EXCEPT !.nextHost = None]
<1>1. SameRound(r, c)
  BY TimerFacts
<1>2. Settle(r) = IF ~r.contest /\ r.cycle /\ Cardinality(r.users) > 1
                  THEN w ELSE s
  BY DEF Settle, RotateCycleHost
<1> HIDE DEF c
<1>3. c \in RoomType /\ "select" \in Phase /\ {} \in SUBSET User
  BY <1>1 DEF SameRound, Framed, Phase
<1>4. d \in RoomType
  BY <1>3, UpdateType
<1>5. e \in RoomType
  BY <1>3, <1>4, UpdateType
<1>6. s \in RoomType
  BY <1>3, <1>5, UpdateType
<1>7. /\ s.id = r.id /\ s.users = r.users /\ s.monitors = r.monitors
      /\ s.host = r.host /\ s.phase = "select"
  BY <1>1, <1>3 DEF RoomType, SameRound, Framed
<1> HIDE DEF s
<1>8. CASE ~r.contest /\ r.cycle /\ Cardinality(r.users) > 1
  <2>1. r.users # {}
    BY <1>8, FS_EmptySet
  <2>2. CycleHost(s) \in r.users
    BY <1>6, <1>7, <2>1, CycleHostIn
  <2>3. CycleHost(s) \in User \cup {None}
    BY <2>2, FieldTypes
  <2>4. t \in RoomType
    BY <1>6, <2>3, UpdateType
  <2>5. w \in RoomType
    BY <2>4, UpdateType
  <2>6. /\ w.id = s.id /\ w.users = s.users /\ w.monitors = s.monitors
        /\ w.host = CycleHost(s) /\ w.phase = s.phase
    BY <1>6 DEF RoomType
  <2> QED
    BY <1>2, <1>7, <1>8, <2>2, <2>5, <2>6 DEF Framed, Hosted
<1>9. CASE ~(~r.contest /\ r.cycle /\ Cardinality(r.users) > 1)
  BY <1>2, <1>6, <1>7, <1>9 DEF Framed, Hosted
<1> QED
  BY <1>8, <1>9

\* CheckAllReady keeps the members and a host among them, and leaves no
\* finished round behind.
LEMMA CheckAllReadyFacts ==
  ASSUME NEW r \in RoomType
  PROVE  /\ Framed(r, CheckAllReady(r))
         /\ Hosted(r) => Hosted(CheckAllReady(r))
         /\ Settled(CheckAllReady(r))
<1>1. CASE r.phase = "wait"
  <2>1. CheckAllReady(r) = r \/ CheckAllReady(r) = StartPlaying(r)
    BY <1>1 DEF CheckAllReady, CheckWaitForReady
  <2>2. CASE CheckAllReady(r) = r
    BY <1>1, <2>2 DEF Framed, Settled
  <2>3. CASE CheckAllReady(r) = StartPlaying(r)
    BY <2>3, StartPlayingFacts DEF Framed, Hosted, Settled
  <2> QED
    BY <2>1, <2>2, <2>3
<1>2. CASE r.phase = "play"
  <2>1. CASE AllFinished(r)
    <3>1. CheckAllReady(r) = Settle(r)
      BY <1>2, <2>1 DEF CheckAllReady, CheckPlaying
    <3> QED
      BY <3>1, SettleFacts DEF Settled
  <2>2. CASE ~AllFinished(r)
    <3>1. CheckAllReady(r) = r
      BY <1>2, <2>2 DEF CheckAllReady, CheckPlaying
    <3> QED
      BY <2>2, <3>1 DEF Framed, Settled
  <2> QED
    BY <2>1, <2>2
<1>3. CASE r.phase = "select"
  <2>1. CheckAllReady(r) = r
    BY <1>3 DEF CheckAllReady
  <2> QED
    BY <1>3, <2>1 DEF Framed, Settled
<1> QED
  BY <1>1, <1>2, <1>3, FieldTypes DEF Phase

-----------------------------------------------------------------------------
(* Membership. *)

\* RefreshLive writes the live flag and nothing else.
LEMMA RefreshLiveFacts ==
  ASSUME NEW r \in RoomType, NEW replay \in BOOLEAN
  PROVE  SameRound(r, RefreshLive(r, replay))
<1>1. ((r.monitors # {}) \/ (replay /\ r.eligible)) \in BOOLEAN
  OBVIOUS
<1>2. RefreshLive(r, replay) \in RoomType
  BY <1>1, UpdateType DEF RefreshLive
<1> QED
  BY <1>2 DEF SameRound, Framed, RefreshLive, RoomType

\* A new room is hosted by its creator, who is its only member.
LEMMA NewRoomFacts ==
  ASSUME NEW i \in RoomId, NEW u \in User, NEW replay \in BOOLEAN
  PROVE  LET r == NewRoom(i, u, replay)
         IN  /\ r \in RoomType /\ r.id = i
             /\ r.host = u /\ r.users = {u} /\ r.monitors = {}
             /\ r.phase = "select"
<1> DEFINE n == [Unused EXCEPT !.id = i, !.host = u, !.max = MaxUsers,
                               !.users = {u}, !.eligible = replay]
<1>1. n \in RoomType
  BY MaxUsersAssumption DEF Unused, RoomType, Phase, Late
<1>2. /\ n.id = i /\ n.host = u /\ n.users = {u} /\ n.monitors = {}
      /\ n.phase = "select"
  BY DEF Unused
<1> HIDE DEF n
<1>3. SameRound(n, RefreshLive(n, replay))
  BY <1>1, RefreshLiveFacts
<1>4. NewRoom(i, u, replay) = RefreshLive(n, replay)
  BY DEF NewRoom, n
<1> QED
  BY <1>2, <1>3, <1>4 DEF SameRound, Framed

\* AddUser only adds to the members; the host stays one of the players.
LEMMA AddUserFacts ==
  ASSUME NEW r \in RoomType, NEW u \in User, NEW mon \in BOOLEAN
  PROVE  LET s == AddUser(r, u, mon)
         IN  /\ s \in RoomType /\ s.id = r.id /\ s.host = r.host
             /\ s.users = IF mon THEN r.users ELSE r.users \cup {u}
             /\ ~mon => s.monitors = r.monitors
             /\ s.phase = r.phase /\ s.results = r.results
             /\ s.aborted = r.aborted
<1>1. r.users \cup {u} \in SUBSET User /\ r.monitors \cup {u} \in SUBSET User
  BY FieldTypes
<1>2. [r EXCEPT !.users = @ \cup {u}] \in RoomType
      /\ [r EXCEPT !.monitors = @ \cup {u}] \in RoomType
  BY <1>1, UpdateType
<1> QED
  BY <1>2 DEF AddUser, RoomType

\* The room after ProcessJoinRoom.
Joined(r, u, mon, replay) ==
  RefreshLive(HandleJoin(AddUser(r, u, mon), u, mon), replay)

\* Joining keeps the host and, for a new player, opens no settled round.
LEMMA JoinFacts ==
  ASSUME NEW r \in RoomType, NEW u \in User, NEW mon \in BOOLEAN,
         NEW replay \in BOOLEAN
  PROVE  /\ Joined(r, u, mon, replay) \in RoomType
         /\ Joined(r, u, mon, replay).id = r.id
         /\ mon => Joined(r, u, mon, replay).users = r.users
         /\ ~mon => Joined(r, u, mon, replay).users = r.users \cup {u}
         /\ ~mon => Joined(r, u, mon, replay).monitors = r.monitors
         /\ Hosted(r) => Hosted(Joined(r, u, mon, replay))
         /\ (Settled(r) /\ u \notin r.users)
              => Settled(Joined(r, u, mon, replay))
<1> DEFINE a == AddUser(r, u, mon)
           h == HandleJoin(a, u, mon)
           s == RefreshLive(h, replay)
<1>1. /\ a \in RoomType /\ a.id = r.id /\ a.host = r.host
      /\ a.users = IF mon THEN r.users ELSE r.users \cup {u}
      /\ ~mon => a.monitors = r.monitors
      /\ a.phase = r.phase /\ a.results = r.results /\ a.aborted = r.aborted
  BY AddUserFacts
<1> HIDE DEF a
<1>2. a.aborted \cup {u} \in SUBSET User
  BY <1>1, FieldTypes
<1>3. [a EXCEPT !.aborted = @ \cup {u}] \in RoomType
  BY <1>1, <1>2, UpdateType
<1>4. /\ Framed(a, h) /\ h.host = a.host /\ h.phase = a.phase
      /\ h.results = a.results
      /\ h.aborted \subseteq a.aborted \cup {u}
      /\ mon => h.aborted = a.aborted
  BY <1>1, <1>3 DEF HandleJoin, Framed, RoomType
<1> HIDE DEF h
<1>5. SameRound(h, s)
  BY <1>4, RefreshLiveFacts DEF Framed
<1> HIDE DEF s
<1>6. Hosted(r) => Hosted(s)
  BY <1>1, <1>4, <1>5 DEF SameRound, Framed, Hosted
<1>7. (Settled(r) /\ u \notin r.users) => Settled(s)
  BY <1>1, <1>4, <1>5 DEF SameRound, Framed, Settled, AllFinished
<1>8. s = Joined(r, u, mon, replay)
  BY DEF Joined, a, h, s
<1> QED
  BY <1>1, <1>4, <1>5, <1>6, <1>7, <1>8 DEF SameRound, Framed

\* A leaver is taken off the list his Monitor flag names, nothing else moves.
LEMMA RemoveMemberFacts ==
  ASSUME NEW r \in RoomType, NEW u \in User, NEW mon \in BOOLEAN
  PROVE  LET s == RemoveMember(r, u, mon)
         IN  /\ s \in RoomType /\ s.id = r.id /\ s.host = r.host
             /\ s.users = IF mon THEN r.users ELSE r.users \ {u}
             /\ s.monitors = IF mon THEN r.monitors \ {u} ELSE r.monitors
<1>1. r.users \ {u} \in SUBSET User /\ r.monitors \ {u} \in SUBSET User
  BY FieldTypes
<1>2. [r EXCEPT !.users = @ \ {u}] \in RoomType
      /\ [r EXCEPT !.monitors = @ \ {u}] \in RoomType
  BY <1>1, UpdateType
<1> QED
  BY <1>2 DEF RemoveMember, RoomType

\* What u leaves of r: unless the host left alone, the room has a host among
\* its remaining players and holds no finished round.
Departed(r, u, mon, s) ==
  /\ s \in RoomType /\ s.id = r.id /\ s.users = RemoveMember(r, u, mon).users
  /\ s.users = IF mon THEN r.users ELSE r.users \ {u}
  /\ s.monitors = IF mon THEN r.monitors \ {u} ELSE r.monitors
  /\ ~HostLeftAlone(r, u, mon) =>
       /\ Hosted(r) => Hosted(s)
       /\ Settled(s)

\* OnUserLeave leaves such a room.
LEMMA OnUserLeaveFacts ==
  ASSUME NEW r \in RoomType, NEW u \in User, NEW mon \in BOOLEAN
  PROVE  Departed(r, u, mon, OnUserLeave(r, u, mon))
<1> USE DEF Departed
<1> DEFINE m == RemoveMember(r, u, mon)
           h == HandedOver(r, u, mon)
<1>1. /\ m \in RoomType /\ m.id = r.id /\ m.host = r.host
      /\ m.users = IF mon THEN r.users ELSE r.users \ {u}
      /\ m.monitors = IF mon THEN r.monitors \ {u} ELSE r.monitors
  BY RemoveMemberFacts
<1>2. CASE HostLeftAlone(r, u, mon)
  BY <1>1, <1>2 DEF OnUserLeave
<1>3. CASE ~HostLeftAlone(r, u, mon)
  <2>1. Framed(m, h) /\ (Hosted(r) => Hosted(h))
    <3>1. CASE r.host = u
      <4>1. m.users # {} /\ m.users \in SUBSET User
        BY <1>1, <1>3, <3>1, FieldTypes DEF HostLeftAlone
      <4>2. PickNextHost(m.users, u) \in m.users
        BY <4>1, PickNextHostIn
      <4>3. h = [m EXCEPT !.host = PickNextHost(m.users, u)]
        BY <3>1 DEF HandedOver
      <4> HIDE DEF m, h
      <4>4. PickNextHost(m.users, u) \in User \cup {None}
        BY <4>1, <4>2
      <4>5. h \in RoomType
        BY <1>1, <4>3, <4>4, UpdateType
      <4> QED
        BY <1>1, <4>2, <4>3, <4>5 DEF Framed, Hosted, RoomType
    <3>2. CASE r.host # u
      <4>1. h = m
        BY <3>2 DEF HandedOver
      <4> HIDE DEF m, h
      <4> QED
        BY <1>1, <3>2, <4>1 DEF Framed, Hosted
    <3> QED
      BY <3>1, <3>2
  <2>2. OnUserLeave(r, u, mon) = CheckAllReady(h)
    BY <1>3 DEF OnUserLeave
  <2>m. RemoveMember(r, u, mon) = m
    OBVIOUS
  <2> HIDE DEF m, h
  <2>3. /\ Framed(h, CheckAllReady(h))
        /\ Hosted(h) => Hosted(CheckAllReady(h))
        /\ Settled(CheckAllReady(h))
    BY <2>1, CheckAllReadyFacts DEF Framed
  <2> QED
    BY <1>1, <2>1, <2>2, <2>3, <2>m DEF Framed
<1> QED
  BY <1>2, <1>3

-----------------------------------------------------------------------------
(* Commands and timers. *)

\* s is r after a command: same members, a host among them, nothing to settle.
Kept(r, s) == Framed(r, s) /\ (Hosted(r) => Hosted(s)) /\ Settled(s)

\* A state change of the round followed by CheckAllReady.
LEMMA CheckedKept ==
  ASSUME NEW r \in RoomType, NEW s, Framed(r, s), s.host = r.host
  PROVE  Kept(r, CheckAllReady(s))
  BY CheckAllReadyFacts DEF Framed, Kept, Hosted

\* Timers and pending disbands do not matter to Kept.
LEMMA SameRoundKept ==
  ASSUME NEW r, NEW s, NEW t, Kept(r, s), SameRound(s, t)
  PROVE  Kept(r, t)
  BY DEF Kept, SameRound, Framed, Hosted, Settled, AllFinished

\* handleRequestStart keeps the id, the members and the order of the room.
LEMMA RequestStartFacts ==
  ASSUME NEW r \in RoomType, NEW u \in User
  PROVE  Kept(r, RequestStart(r, u))
<1> DEFINE d == [r EXCEPT !.phase = "wait"]
           e == [d EXCEPT !.started = {u}]
           s == CheckAllReady(e)
<1>1. "wait" \in Phase /\ {u} \in SUBSET User
  BY DEF Phase
<1>2. d \in RoomType
  BY <1>1, UpdateType
<1>3. e \in RoomType
  BY <1>1, <1>2, UpdateType
<1>4. Framed(r, e) /\ e.host = r.host
  BY <1>3 DEF Framed, RoomType
<1>5. RequestStart(r, u) = IF s.phase = "wait" THEN StartReadyCountdown(s)
                           ELSE s
  BY DEF RequestStart
<1> HIDE DEF e
<1>6. Kept(r, s)
  BY <1>4, CheckedKept
<1> HIDE DEF s
<1>7. SameRound(s, StartReadyCountdown(s))
  BY <1>6, TimerFacts DEF Kept, Framed
<1> QED
  BY <1>5, <1>6, <1>7, SameRoundKept

\* handleReady keeps the id, the members and the order of the room.
LEMMA ReadyFacts ==
  ASSUME NEW r \in RoomType, NEW u \in User
  PROVE  Kept(r, Ready(r, u))
<1> DEFINE e == [r EXCEPT !.started = @ \cup {u}]
<1>1. r.started \cup {u} \in SUBSET User
  BY FieldTypes
<1>2. e \in RoomType
  BY <1>1, UpdateType
<1>3. Framed(r, e) /\ e.host = r.host
  BY <1>2 DEF Framed, RoomType
<1>4. Ready(r, u) = CheckAllReady(e)
  BY DEF Ready
<1> HIDE DEF e
<1> QED
  BY <1>3, <1>4, CheckedKept

\* handleCancelReady keeps the id, the members and the order of the room.
LEMMA CancelReadyFacts ==
  ASSUME NEW r \in RoomType, NEW u \in User, CanCancelReady(r, u)
  PROVE  Kept(r, CancelReady(r, u))
<1>1. CASE r.host = u
  <2> DEFINE c == CancelReadyCountdown(r)
             d == [c EXCEPT !.phase = "select"]
             e == [d EXCEPT !.started = {}]
  <2>1. CancelReady(r, u) = e
    BY <1>1 DEF CancelReady
  <2>2. SameRound(r, c)
    BY TimerFacts
  <2> HIDE DEF c
  <2>3. c \in RoomType /\ "select" \in Phase /\ {} \in SUBSET User
    BY <2>2 DEF SameRound, Framed, Phase
  <2>4. d \in RoomType
    BY <2>3, UpdateType
  <2>5. e \in RoomType
    BY <2>3, <2>4, UpdateType
  <2>6. Framed(c, e) /\ e.host = c.host /\ e.phase = "select"
    BY <2>3, <2>5 DEF Framed, RoomType
  <2> QED
    BY <2>1, <2>2, <2>6 DEF Kept, SameRound, Framed, Hosted, Settled
<1>2. CASE r.host # u
  <2> DEFINE e == [r EXCEPT !.started = @ \ {u}]
  <2>1. r.started \ {u} \in SUBSET User
    BY FieldTypes
  <2>2. e \in RoomType
    BY <2>1, UpdateType
  <2>3. Framed(r, e) /\ e.host = r.host /\ e.phase = r.phase
    BY <2>2 DEF Framed, RoomType
  <2>4. CancelReady(r, u) = e
    BY <1>2 DEF CancelReady
  <2> QED
    BY <2>3, <2>4 DEF Kept, Framed, Hosted, Settled, CanCancelReady
<1> QED
  BY <1>1, <1>2

\* handleAbort keeps the id, the members and the order of the room.
LEMMA AbortFacts ==
  ASSUME NEW r \in RoomType, NEW u \in User
  PROVE  Kept(r, Abort(r, u))
<1>1. r.aborted \cup {u} \in SUBSET User
  BY FieldTypes
<1>2. Aborted(r, u) \in RoomType
  BY <1>1, UpdateType DEF Aborted
<1>3. Framed(r, Aborted(r, u)) /\ Aborted(r, u).host = r.host
  BY <1>2 DEF Framed, Aborted, RoomType
<1> QED
  BY <1>3, CheckedKept DEF Abort

\* Noting that the room has to be disbanded changes nothing else.
LEMMA PendingFacts ==
  ASSUME NEW r \in RoomType, NEW d \in SUBSET {"checked", "unchecked"}
  PROVE  SameRound(r, [r EXCEPT !.pending = d])
<1>1. [r EXCEPT !.pending = d] \in RoomType
  BY UpdateType
<1> QED
  BY <1>1 DEF SameRound, Framed, RoomType

\* handlePlayed keeps the id, the members and the order of the room.
LEMMA StoreResultFacts ==
  ASSUME NEW r \in RoomType, NEW u \in User
  PROVE  Kept(r, StoreResult(r, u))
<1> DEFINE s == Scored(r, u)
           t == CheckAllReady(s)
           w == [t EXCEPT !.pending = @ \cup {"checked"}]
<1>1. r.results \cup {u} \in SUBSET User
  BY FieldTypes
<1>2. s \in RoomType
  BY <1>1, UpdateType DEF Scored
<1>3. Framed(r, s) /\ s.host = r.host
  BY <1>2 DEF Framed, Scored, RoomType
<1>4. \/ StoreResult(r, u) = w
      \/ StoreResult(r, u) = StartPlayDeadline(t)
      \/ StoreResult(r, u) = t
  BY DEF StoreResult
<1> HIDE DEF s
<1>5. Kept(r, t)
  BY <1>3, CheckedKept
<1> HIDE DEF t
<1>6. t \in RoomType
  BY <1>5 DEF Kept, Framed
<1>7. SameRound(t, w)
  BY <1>6, FieldTypes, PendingFacts
<1>8. SameRound(t, StartPlayDeadline(t))
  BY <1>6, TimerFacts
<1> QED
  BY <1>4, <1>5, <1>7, <1>8, SameRoundKept

\* A forced start keeps the id, the members and the host.
LEMMA ForceStartFacts ==
  ASSUME NEW r \in RoomType
  PROVE  Kept(r, ForceStart(r))
<1> DEFINE p == StartPlaying(r)
<1>1. Framed(r, p) /\ p.host = r.host /\ p.results = {}
  BY StartPlayingFacts
<1>2. ForceStart(r) = [p EXCEPT !.aborted = r.users \ r.started]
  BY DEF ForceStart
<1> HIDE DEF p
<1>3. p \in RoomType /\ r.users \ r.started \in SUBSET User
  BY <1>1, FieldTypes DEF Framed
<1>4. ForceStart(r) \in RoomType
  BY <1>2, <1>3, UpdateType
<1>5. Framed(p, ForceStart(r)) /\ ForceStart(r).host = p.host
      /\ ForceStart(r).results = p.results
  BY <1>2, <1>3, <1>4 DEF Framed, RoomType
<1> QED
  BY <1>1, <1>5 DEF Kept, Framed, Hosted, Settled

\* The play deadline, with its CheckAllReady, keeps the room in order.
LEMMA ExpirePlayFacts ==
  ASSUME NEW r \in RoomType
  PROVE  Kept(r, CheckAllReady(ExpirePlay(r)))
<1>1. r.aborted \cup (r.users \ r.results) \in SUBSET User
  BY FieldTypes
<1>2. ExpirePlay(r) \in RoomType
  BY <1>1, UpdateType DEF ExpirePlay
<1>3. Framed(r, ExpirePlay(r)) /\ ExpirePlay(r).host = r.host
  BY <1>2 DEF Framed, ExpirePlay, RoomType
<1> QED
  BY <1>3, CheckedKept

-----------------------------------------------------------------------------
(* Flags, timers and the end of a round. *)

\* s has the mode and the replay flags of r; outside contests nothing is to be
\* disbanded that was not before.
Tagged(r, s) ==
  /\ s.live = r.live /\ s.eligible = r.eligible /\ s.contest = r.contest
  /\ ~r.contest => s.pending = r.pending

\* A wait has its countdown, a round with a result its deadline.
Timed(r) ==
  /\ r.phase = "wait" => r.readyArmed \/ r.readyLate = "current"
  /\ (r.phase = "play" /\ r.results # {}) => r.playArmed \/ r.playLate = "current"

\* If s has ended the round of r, at most one player was not done.
Ended(r, s) ==
  (r.phase = "play" /\ s.phase = "select")
    => \E v \in User : s.users \ {v} \subseteq r.results \cup r.aborted

\* Cancelling or starting a timer keeps the flags.
LEMMA TimerTags ==
  ASSUME NEW r \in RoomType
  PROVE  /\ Tagged(r, CancelReadyCountdown(r)) /\ Tagged(r, CancelPlayDeadline(r))
         /\ Tagged(r, StartReadyCountdown(r)) /\ Tagged(r, StartPlayDeadline(r))
<1>1. Tagged(r, CancelReadyCountdown(r)) /\ Tagged(r, CancelPlayDeadline(r))
  BY DEF Tagged, CancelReadyCountdown, CancelPlayDeadline, RoomType
<1>2. Tagged(r, StartReadyCountdown(r))
  BY DEF Tagged, StartReadyCountdown, CancelReadyCountdown, RoomType
<1>3. Tagged(r, StartPlayDeadline(r))
  BY DEF Tagged, StartPlayDeadline, CancelPlayDeadline, RoomType
<1> QED
  BY <1>1, <1>2, <1>3

\* startPlaying opens a round without results.
LEMMA StartPlayingTimes ==
  ASSUME NEW r \in RoomType
  PROVE  /\ Tagged(r, StartPlaying(r))
         /\ StartPlaying(r).phase = "play" /\ StartPlaying(r).aborted = {}
<1> DEFINE c == CancelReadyCountdown(r)
           d == CancelPlayDeadline(c)
<1>1. c \in RoomType /\ Tagged(r, c)
  BY TimerFacts, TimerTags DEF SameRound, Framed
<1> HIDE DEF c
<1>2. d \in RoomType /\ Tagged(c, d)
  BY <1>1, TimerFacts, TimerTags DEF SameRound, Framed
<1>3. StartPlaying(r) = [d EXCEPT !.phase = "play", !.started = {}, !.results = {}, !.aborted = {}]
  BY DEF StartPlaying, c
<1> HIDE DEF d
<1> QED
  BY <1>1, <1>2, <1>3 DEF Tagged, RoomType

\* A settled round keeps the flags of the room.
LEMMA SettleTags ==
  ASSUME NEW r \in RoomType
  PROVE  Tagged(r, Settle(r))
<1> DEFINE c == CancelPlayDeadline(r)
           s == [c EXCEPT !.phase = "select", !.results = {}, !.aborted = {}]
<1>1. c \in RoomType /\ Tagged(r, c)
  BY TimerFacts, TimerTags DEF SameRound, Framed
<1>2. Settle(r) = IF ~r.contest /\ r.cycle /\ Cardinality(r.users) > 1
                  THEN [s EXCEPT !.host = CycleHost(s), !.nextHost = None] ELSE s
  BY DEF Settle, RotateCycleHost
<1> HIDE DEF c
<1>3. Tagged(c, s) /\ Tagged(s, [s EXCEPT !.host = CycleHost(s), !.nextHost = None])
  BY <1>1 DEF Tagged, RoomType
<1> QED
  BY <1>1, <1>2, <1>3 DEF Tagged

\* CheckAllReady keeps the flags and the timers a phase needs, and leaves a
\* round only if all are done.
LEMMA CheckAllReadyTimes ==
  ASSUME NEW r \in RoomType
  PROVE  LET s == CheckAllReady(r)
         IN  /\ Tagged(r, s)
             /\ Timed(r) => Timed(s)
             /\ (r.phase = "play" /\ s.phase = "select") => AllFinished(r)
             /\ r.phase = "wait" => s.phase # "select"
             /\ s.phase = "wait" => s = r
             /\ (s.phase = "play" /\ s.results # {}) => s = r
<1>1. CASE r.phase = "wait"
  <2>1. CheckAllReady(r) = r \/ CheckAllReady(r) = StartPlaying(r)
    BY <1>1 DEF CheckAllReady, CheckWaitForReady
  <2> QED
    BY <1>1, <2>1, StartPlayingFacts, StartPlayingTimes DEF Tagged, Timed
<1>2. CASE r.phase = "play"
  <2>1. CheckAllReady(r) = IF AllFinished(r) THEN Settle(r) ELSE r
    BY <1>2 DEF CheckAllReady, CheckPlaying
  <2> QED
    BY <1>2, <2>1, SettleFacts, SettleTags DEF Tagged, Timed
<1>3. CASE r.phase = "select"
  <2>1. CheckAllReady(r) = r
    BY <1>3 DEF CheckAllReady
  <2> QED
    BY <1>3, <2>1 DEF Tagged, Timed
<1> QED
  BY <1>1, <1>2, <1>3, FieldTypes DEF Phase

\* s is r after a command: same flags, the timers its phase needs, and no
\* round ended early.
Calm(r, s) == Tagged(r, s) /\ ((Timed(r) /\ ~r.contest) => Timed(s)) /\ Ended(r, s)

\* A change of the round followed by CheckAllReady.
LEMMA CheckedCalm ==
  ASSUME NEW r \in RoomType, NEW s \in RoomType, Tagged(r, s),
         (Timed(r) /\ ~r.contest) => Timed(s),
         r.phase = "play" => s.phase = "play",
         (r.phase = "play" /\ AllFinished(s))
           => \E v \in User : s.users \ {v} \subseteq r.results \cup r.aborted
  PROVE  Calm(r, CheckAllReady(s))
<1> DEFINE t == CheckAllReady(s)
<1>1. Framed(s, t)
  BY CheckAllReadyFacts
<1>2. /\ Tagged(s, t) /\ (Timed(s) => Timed(t))
      /\ (s.phase = "play" /\ t.phase = "select") => AllFinished(s)
  BY CheckAllReadyTimes
<1> HIDE DEF t
<1>3. Tagged(r, t)
  BY <1>2 DEF Tagged
<1>4. Ended(r, t)
  BY <1>1, <1>2 DEF Ended, Framed
<1>5. (Timed(r) /\ ~r.contest) => Timed(t)
  BY <1>2, Zenon
<1> QED
  BY <1>3, <1>4, <1>5, Zenon DEF Calm, t

\* handleRequestStart arms the countdown of the wait it opens.
LEMMA RequestStartCalm ==
  ASSUME NEW r \in RoomType, NEW u \in User, r.phase = "select"
  PROVE  Calm(r, RequestStart(r, u))
<1> DEFINE d == [r EXCEPT !.phase = "wait"]
           e == [d EXCEPT !.started = {u}]
           s == CheckAllReady(e)
           w == StartReadyCountdown(s)
<1>1. "wait" \in Phase /\ {u} \in SUBSET User
  BY DEF Phase
<1>2. d \in RoomType
  BY <1>1, UpdateType
<1>3. e \in RoomType
  BY <1>1, <1>2, UpdateType
<1>4. Tagged(r, e) /\ e.phase = "wait"
  BY <1>3 DEF Tagged, RoomType
<1>5. RequestStart(r, u) = IF s.phase = "wait" THEN w ELSE s
  BY DEF RequestStart
<1> HIDE DEF e
<1>6. s \in RoomType /\ Tagged(e, s) /\ ((s.phase = "play" /\ s.results # {}) => s = e)
  BY <1>3, CheckAllReadyFacts, CheckAllReadyTimes DEF Framed
<1> HIDE DEF s
<1>7. Tagged(s, w) /\ SameRound(s, w)
  BY <1>6, TimerTags, TimerFacts
<1>8. ~s.contest => w.readyArmed
  <2> DEFINE c == CancelReadyCountdown(s)
  <2>1. c \in RoomType
    BY <1>6, TimerFacts DEF SameRound, Framed
  <2>2. ~s.contest => w = [c EXCEPT !.readyArmed = TRUE]
    BY DEF StartReadyCountdown
  <2> HIDE DEF c
  <2> QED
    BY <2>1, <2>2 DEF RoomType
<1>9. s.phase = "wait" => (~s.contest => Timed(w))
  BY <1>7, <1>8 DEF Timed, SameRound
<1>10. s.phase # "wait" => Timed(s)
  BY <1>4, <1>6 DEF Timed
<1> HIDE DEF w
<1>11. Tagged(r, s) /\ Tagged(r, w)
  BY <1>4, <1>6, <1>7 DEF Tagged
<1> QED
  BY <1>5, <1>9, <1>10, <1>11 DEF Calm, Ended, Tagged

\* handleReady.
LEMMA ReadyCalm ==
  ASSUME NEW r \in RoomType, NEW u \in User, r.phase = "wait"
  PROVE  Calm(r, Ready(r, u))
<1> DEFINE e == [r EXCEPT !.started = @ \cup {u}]
<1>1. r.started \cup {u} \in SUBSET User
  BY FieldTypes
<1>2. e \in RoomType
  BY <1>1, UpdateType
<1>3. Tagged(r, e) /\ (Timed(r) => Timed(e))
  BY DEF Tagged, Timed, RoomType
<1>4. Ready(r, u) = CheckAllReady(e)
  BY DEF Ready
<1> HIDE DEF e
<1> QED
  BY <1>2, <1>3, <1>4, CheckedCalm

\* handleCancelReady: the host cancels the countdown together with the wait.
LEMMA CancelReadyCalm ==
  ASSUME NEW r \in RoomType, NEW u \in User, r.phase = "wait"
  PROVE  Calm(r, CancelReady(r, u))
<1>1. CASE r.host = u
  <2> DEFINE c == CancelReadyCountdown(r)
             e == [c EXCEPT !.phase = "select", !.started = {}]
  <2>1. CancelReady(r, u) = e
    BY <1>1 DEF CancelReady
  <2>2. c \in RoomType /\ Tagged(r, c)
    BY TimerFacts, TimerTags DEF SameRound, Framed
  <2> HIDE DEF c
  <2>3. Tagged(c, e) /\ e.phase = "select"
    BY <2>2 DEF Tagged, RoomType
  <2> QED
    BY <2>1, <2>2, <2>3 DEF Calm, Tagged, Timed, Ended
<1>2. CASE r.host # u
  <2> DEFINE e == [r EXCEPT !.started = @ \ {u}]
  <2>1. Tagged(r, e) /\ (Timed(r) => Timed(e))
    BY DEF Tagged, Timed, RoomType
  <2>2. CancelReady(r, u) = e
    BY <1>2 DEF CancelReady
  <2> QED
    BY <2>1, <2>2 DEF Calm, Ended
<1> QED
  BY <1>1, <1>2

\* handleAbort.
LEMMA AbortCalm ==
  ASSUME NEW r \in RoomType, NEW u \in User
  PROVE  Calm(r, Abort(r, u))
<1> DEFINE e == Aborted(r, u)
<1>1. r.aborted \cup {u} \in SUBSET User
  BY FieldTypes
<1>2. e \in RoomType
  BY <1>1, UpdateType DEF Aborted
<1>3. /\ Tagged(r, e) /\ (Timed(r) => Timed(e)) /\ e.phase = r.phase
      /\ e.results = r.results /\ e.aborted = r.aborted \cup {u} /\ e.users = r.users
  BY DEF Aborted, Tagged, Timed, RoomType
<1> HIDE DEF e
<1>4. AllFinished(e) => e.users \ {u} \subseteq r.results \cup r.aborted
  BY <1>3 DEF AllFinished
<1>5. Calm(r, CheckAllReady(e))
  BY <1>2, <1>3, <1>4, CheckedCalm
<1> QED
  BY <1>5 DEF Abort, e

\* handlePlayed: the first result of an ordinary round arms the deadline.
LEMMA StoreResultCalm ==
  ASSUME NEW r \in RoomType, NEW u \in User, r.phase = "play"
  PROVE  Calm(r, StoreResult(r, u))
<1> DEFINE s == Scored(r, u)
           t == CheckAllReady(s)
           w == [t EXCEPT !.pending = @ \cup {"checked"}]
           x == StartPlayDeadline(t)
           first == r.results \subseteq {u}
<1>1. r.results \cup {u} \in SUBSET User
  BY FieldTypes
<1>2. s \in RoomType
  BY <1>1, UpdateType DEF Scored
<1>3. /\ Tagged(r, s) /\ s.phase = "play" /\ s.users = r.users
      /\ s.results = r.results \cup {u} /\ s.aborted = r.aborted
      /\ s.playArmed = r.playArmed /\ s.playLate = r.playLate
  BY DEF Scored, Tagged, RoomType
<1>4. StoreResult(r, u) = IF Disbands(s) THEN w
                          ELSE IF first /\ ~t.contest /\ t.phase = "play" THEN x ELSE t
  BY DEF StoreResult
<1>5. Disbands(s) => s.contest
  BY DEF Disbands
<1> HIDE DEF s
<1>6. /\ t \in RoomType /\ Framed(s, t) /\ Tagged(s, t)
      /\ t.phase = "select" => AllFinished(s)
      /\ t.phase = "wait" => t = s
      /\ (t.phase = "play" /\ t.results # {}) => t = s
  BY <1>2, <1>3, CheckAllReadyFacts, CheckAllReadyTimes DEF Framed
<1>7. AllFinished(s) => s.users \ {u} \subseteq r.results \cup r.aborted
  BY <1>3 DEF AllFinished
<1> HIDE DEF t
<1>8. (t.contest => Tagged(t, w)) /\ w.phase = t.phase /\ w.users = t.users
  BY <1>6 DEF Tagged, RoomType
<1>9. Tagged(t, x) /\ x.phase = t.phase /\ x.users = t.users /\ x.results = t.results
  BY <1>6, TimerTags, TimerFacts DEF SameRound, Framed
<1>10. ~t.contest => x.playArmed
  <2> DEFINE c == CancelPlayDeadline(t)
  <2>1. c \in RoomType
    BY <1>6, TimerFacts DEF SameRound, Framed
  <2>2. ~t.contest => x = [c EXCEPT !.playArmed = TRUE]
    BY DEF StartPlayDeadline
  <2> HIDE DEF c
  <2> QED
    BY <2>1, <2>2 DEF RoomType
<1> HIDE DEF w, x
<1>11. Tagged(r, t) /\ (r.contest => Tagged(r, w)) /\ Tagged(r, x)
  BY <1>3, <1>6, <1>8, <1>9 DEF Tagged
<1>12. Ended(r, t) /\ Ended(r, w) /\ Ended(r, x)
  BY <1>3, <1>6, <1>7, <1>8, <1>9 DEF Ended, Framed
<1>13. (t.phase = "play" /\ ~t.contest) => Timed(x)
  BY <1>9, <1>10 DEF Timed
<1>14. (Timed(r) /\ (~first \/ t.phase # "play")) => Timed(t)
  BY <1>3, <1>6 DEF Timed
<1>15. (Timed(r) /\ ~r.contest) => Timed(StoreResult(r, u))
  BY <1>3, <1>4, <1>5, <1>11, <1>13, <1>14 DEF Tagged
<1>16. Tagged(r, StoreResult(r, u))
  BY <1>3, <1>4, <1>5, <1>11 DEF Tagged
<1> QED
  BY <1>4, <1>12, <1>15, <1>16 DEF Calm

\* A forced start opens a round without results.
LEMMA ForceStartCalm ==
  ASSUME NEW r \in RoomType, r.phase = "wait"
  PROVE  Calm(r, ForceStart(r))
<1> DEFINE p == StartPlaying(r)
<1>1. p \in RoomType /\ p.results = {} /\ Tagged(r, p) /\ p.phase = "play"
  BY StartPlayingFacts, StartPlayingTimes DEF Framed
<1>2. ForceStart(r) = [p EXCEPT !.aborted = r.users \ r.started]
  BY DEF ForceStart
<1> HIDE DEF p
<1> QED
  BY <1>1, <1>2 DEF Calm, Tagged, Timed, Ended, RoomType

\* The play deadline ends the round.
LEMMA ExpirePlayTimes ==
  ASSUME NEW r \in RoomType, r.phase = "play"
  PROVE  /\ Tagged(r, CheckAllReady(ExpirePlay(r)))
         /\ CheckAllReady(ExpirePlay(r)).phase = "select"
<1> DEFINE s == ExpirePlay(r)
<1>1. r.aborted \cup (r.users \ r.results) \in SUBSET User
  BY FieldTypes
<1>2. s \in RoomType
  BY <1>1, UpdateType DEF ExpirePlay
<1>3. Tagged(r, s) /\ s.phase = "play" /\ AllFinished(s)
  BY DEF ExpirePlay, Tagged, AllFinished, RoomType
<1> HIDE DEF s
<1>4. CheckAllReady(s) = Settle(s)
  BY <1>3 DEF CheckAllReady, CheckPlaying
<1>5. Tagged(s, Settle(s)) /\ Settle(s).phase = "select"
  BY <1>2, SettleFacts, SettleTags
<1> QED
  BY <1>3, <1>4, <1>5 DEF Tagged, s

\* OnUserLeave, for whoever leaves.
LEMMA OnUserLeaveCalm ==
  ASSUME NEW r \in RoomType, NEW u \in User, NEW mon \in BOOLEAN
  PROVE  Calm(r, OnUserLeave(r, u, mon))
<1> DEFINE m == RemoveMember(r, u, mon)
           h == HandedOver(r, u, mon)
<1>1. m \in RoomType /\ m.users \subseteq r.users
  BY RemoveMemberFacts
<1>2. /\ Tagged(r, m) /\ (Timed(r) => Timed(m)) /\ m.phase = r.phase
      /\ m.results = r.results /\ m.aborted = r.aborted
  BY DEF RemoveMember, Tagged, Timed, RoomType
<1>3. CASE HostLeftAlone(r, u, mon)
  <2>1. OnUserLeave(r, u, mon) = m
    BY <1>3 DEF OnUserLeave
  <2> HIDE DEF m
  <2> QED
    BY <1>2, <2>1 DEF Calm, Ended
<1>4. CASE ~HostLeftAlone(r, u, mon)
  <2>1. OnUserLeave(r, u, mon) = CheckAllReady(h)
    BY <1>4 DEF OnUserLeave
  <2>2. h = IF r.host = u THEN [m EXCEPT !.host = PickNextHost(m.users, u)] ELSE m
    BY DEF HandedOver
  <2>3. r.host = u => PickNextHost(m.users, u) \in User \cup {None}
    <3>1. r.host = u => (m.users # {} /\ m.users \in SUBSET User)
      BY <1>1, <1>4, FieldTypes DEF HostLeftAlone
    <3> QED
      BY <3>1, PickNextHostIn
  <2> HIDE DEF m, h
  <2>4. h \in RoomType
    BY <1>1, <2>2, <2>3, UpdateType
  <2>5. /\ Tagged(m, h) /\ (Timed(m) => Timed(h)) /\ h.phase = m.phase
        /\ h.results = m.results /\ h.aborted = m.aborted /\ h.users = m.users
    BY <1>1, <2>2 DEF Tagged, Timed, RoomType
  <2>6. Tagged(r, h) /\ (Timed(r) => Timed(h)) /\ h.phase = r.phase
    BY <1>2, <2>5 DEF Tagged
  <2>7. AllFinished(h) => h.users \ {u} \subseteq r.results \cup r.aborted
    BY <1>2, <2>5 DEF AllFinished
  <2>8. Calm(r, CheckAllReady(h))
    BY <2>4, <2>6, <2>7, CheckedCalm
  <2> QED
    BY <2>1, <2>8
<1> QED
  BY <1>3, <1>4

\* Joining changes no timer; the live flag is what RefreshLive makes it.
LEMMA JoinTimes ==
  ASSUME NEW r \in RoomType, NEW u \in User, NEW mon \in BOOLEAN,
         NEW replay \in BOOLEAN
  PROVE  LET s == Joined(r, u, mon, replay)
         IN  /\ s.contest = r.contest /\ s.eligible = r.eligible
             /\ ~r.contest => s.pending = r.pending
             /\ s.live = (s.monitors # {} \/ (replay /\ s.eligible))
             /\ s.phase = r.phase
             /\ Timed(r) => Timed(s)
<1> DEFINE a == AddUser(r, u, mon)
           h == HandleJoin(a, u, mon)
           s == RefreshLive(h, replay)
<1>1. a \in RoomType
  BY AddUserFacts
<1>2. /\ Tagged(r, a) /\ a.phase = r.phase /\ a.results = r.results
      /\ a.readyArmed = r.readyArmed /\ a.readyLate = r.readyLate
      /\ a.playArmed = r.playArmed /\ a.playLate = r.playLate
  BY DEF AddUser, Tagged, RoomType
<1> HIDE DEF a
<1>3. a.aborted \cup {u} \in SUBSET User
  BY <1>1, FieldTypes
<1>4. h \in RoomType
  BY <1>1, <1>3, UpdateType DEF HandleJoin
<1>5. /\ Tagged(a, h) /\ h.phase = a.phase /\ h.results = a.results
      /\ h.readyArmed = a.readyArmed /\ h.readyLate = a.readyLate
      /\ h.playArmed = a.playArmed /\ h.playLate = a.playLate
  BY <1>1 DEF HandleJoin, Tagged, RoomType
<1> HIDE DEF h
<1>6. /\ s.contest = h.contest /\ s.eligible = h.eligible /\ s.phase = h.phase
      /\ s.pending = h.pending /\ s.results = h.results /\ s.monitors = h.monitors
      /\ s.readyArmed = h.readyArmed /\ s.readyLate = h.readyLate
      /\ s.playArmed = h.playArmed /\ s.playLate = h.playLate
      /\ s.live = (h.monitors # {} \/ (replay /\ h.eligible))
  BY <1>4 DEF RefreshLive, RoomType
<1>7. s = Joined(r, u, mon, replay)
  BY DEF Joined, a, h
<1> HIDE DEF s
<1>8. Timed(r) => Timed(s)
  BY <1>2, <1>5, <1>6 DEF Timed
<1> QED
  BY <1>2, <1>5, <1>6, <1>7, <1>8 DEF Tagged

\* RefreshLive changes no timer either.
LEMMA RefreshLiveTimes ==
  ASSUME NEW r \in RoomType, NEW replay \in BOOLEAN
  PROVE  LET s == RefreshLive(r, replay)
         IN  /\ s.contest = r.contest /\ s.eligible = r.eligible
             /\ s.pending = r.pending
             /\ s.live = (s.monitors # {} \/ (replay /\ s.eligible))
             /\ Timed(r) => Timed(s)
  BY DEF RefreshLive, Timed, RoomType

\* A new room selects a chart, is no contest and is live if it is recorded.
LEMMA NewRoomTimes ==
  ASSUME NEW i \in RoomId, NEW u \in User, NEW replay \in BOOLEAN
  PROVE  LET r == NewRoom(i, u, replay)
         IN  /\ ~r.contest /\ r.pending = {}
             /\ r.live = (r.monitors # {} \/ (replay /\ r.eligible))
  BY DEF NewRoom, RefreshLive, Unused

\* s differs from r in a switch, a limit or the host.
Plain(r, s) ==
  /\ Framed(r, s) /\ Tagged(r, s) /\ (Timed(r) => Timed(s))
  /\ s.phase = r.phase /\ s.results = r.results /\ s.aborted = r.aborted

\* The switches of a room and its host mean nothing to a round.
LEMMA PlainUpdates ==
  ASSUME NEW r \in RoomType
  PROVE  /\ \A v \in BOOLEAN : Plain(r, [r EXCEPT !.locked = v])
         /\ \A v \in BOOLEAN : Plain(r, [r EXCEPT !.cycle = v])
         /\ \A v \in BOOLEAN : Plain(r, [r EXCEPT !.chart = v])
         /\ \A v \in Nat : Plain(r, [r EXCEPT !.max = v])
         /\ \A v \in User \cup {None} : Plain(r, [r EXCEPT !.nextHost = v])
         /\ \A v \in User \cup {None} : Plain(r, [r EXCEPT !.host = v])
<1>1. ASSUME NEW v \in BOOLEAN PROVE Plain(r, [r EXCEPT !.locked = v])
  <2>1. [r EXCEPT !.locked = v] \in RoomType
    BY UpdateType
  <2> QED
    BY <2>1 DEF Plain, Framed, Tagged, Timed, RoomType
<1>2. ASSUME NEW v \in BOOLEAN PROVE Plain(r, [r EXCEPT !.cycle = v])
  <2>1. [r EXCEPT !.cycle = v] \in RoomType
    BY UpdateType
  <2> QED
    BY <2>1 DEF Plain, Framed, Tagged, Timed, RoomType
<1>3. ASSUME NEW v \in BOOLEAN PROVE Plain(r, [r EXCEPT !.chart = v])
  <2>1. [r EXCEPT !.chart = v] \in RoomType
    BY UpdateType
  <2> QED
    BY <2>1 DEF Plain, Framed, Tagged, Timed, RoomType
<1>4. ASSUME NEW v \in Nat PROVE Plain(r, [r EXCEPT !.max = v])
  <2>1. [r EXCEPT !.max = v] \in RoomType
    BY UpdateType
  <2> QED
    BY <2>1 DEF Plain, Framed, Tagged, Timed, RoomType
<1>5. ASSUME NEW v \in User \cup {None} PROVE Plain(r, [r EXCEPT !.nextHost = v])
  <2>1. [r EXCEPT !.nextHost = v] \in RoomType
    BY UpdateType
  <2> QED
    BY <2>1 DEF Plain, Framed, Tagged, Timed, RoomType
<1>6. ASSUME NEW v \in User \cup {None} PROVE Plain(r, [r EXCEPT !.host = v])
  <2>1. [r EXCEPT !.host = v] \in RoomType
    BY UpdateType
  <2> QED
    BY <2>1 DEF Plain, Framed, Tagged, Timed, RoomType
<1> QED
  BY <1>1, <1>2, <1>3, <1>4, <1>5, <1>6
=============================================================================
