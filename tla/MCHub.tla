------------------------------- MODULE MCHub -------------------------------
(***************************************************************************)
(* Hub on small instances.  The whole of Next is too much for one run: the *)
(* administrators' switches alone multiply the states by hundreds, so each *)
(* run takes the clients and the clock with one group of administrator     *)
(* operations.                                                             *)
(***************************************************************************)
EXTENDS Hub, TLC

\* Objects are interchangeable addresses.
PtrSymmetry == Permutations(Ptr)

\* Contest rooms: enabled, locked, started, finished and disbanded, with
\* players kicked out of the round and seats taken away meanwhile.  A second
\* object is used while the first has a disband to come: the first's id is
\* another room's by then.  That room's players come and go and play no round.
CreatesForContest(u, i, p) ==
  /\ obj[p] = Unused => \A q \in Ptr : obj[q] # Unused => obj[q].pending # {}
  /\ CreateRoom(u, i, p)

ComeAndGo ==
  \/ ConnectionNext \/ TimerNext \/ DisbandNext
  \/ \E u \in User :
       \/ LeaveRoom(u)
       \/ \E i \in RoomId :
            \/ \E p \in Ptr : CreatesForContest(u, i, p)
            \/ \E mon \in BOOLEAN : JoinRoom(u, i, mon)

OneRoom == \E p \in Ptr : obj[p] = Unused

ContestRound ==
  /\ OneRoom
  /\ \/ RoundNext \/ ContestNext
     \/ \E u \in User : KickDetach(u)
     \/ \E i \in RoomId :
          \/ \E b \in BOOLEAN : SetRoomLocked(i, b)
          \/ \E n \in 1 .. Cardinality(User) : SetMaxUsers(i, n)

\* Everything but a kick that ends a contest round.
ContestSpec ==
  Init /\ [][\/ ComeAndGo \/ ContestRound
             \/ \E u \in User : OneRoom /\ KickAbort(u) /\ ~KickEndsContest]_vars

\* That kick too.
KickSpec ==
  Init /\ [][\/ ComeAndGo \/ ContestRound
             \/ \E u \in User : OneRoom /\ KickAbort(u)]_vars

\* Administrators who change the host, and who comes next, while rounds are
\* played and players go and return; and bans and switches while users come,
\* create and join rooms, watch and go.  These are left at their defaults
\* unless user 2 is away and no chart is chosen, so that the two do not
\* multiply.  Timers are left to the other runs.
DefaultPolicy == policy' = Policy0 /\ \A p \in Ptr : ~obj'[p].eligible

WithoutTwo ==
  /\ conn'[2] = "absent" /\ 2 \notin policy'.banned
  /\ \A i \in RoomId : 2 \notin policy'.roomBanned[i]
  /\ \A p \in Ptr : ~obj'[p].chart

AdminSpec ==
  Init /\ [][/\ \/ ConnectionNext \/ MembershipNext \/ RoundNext \/ DisbandNext
                \/ Administer
                \/ \E i \in RoomId :
                     \/ AdminDisband(i)
                     \/ \E b \in BOOLEAN : SetRoomCycle(i, b)
                     \/ \E u \in User : TransferHost(i, u) \/ SetNextHost(i, u)
             /\ DefaultPolicy \/ WithoutTwo]_vars

\* Users moved between rooms that are created, dropped and disbanded, and
\* kicked; no round is played.
MoveSpec ==
  Init /\ [][\/ ConnectionNext \/ MembershipNext \/ DisbandNext
             \/ \E u \in User :
                  \/ KickDetach(u)
                  \/ \E i \in RoomId, mon \in BOOLEAN : MoveUser(u, i, mon)
             \/ \E i \in RoomId : AdminDisband(i)
             \/ \E i \in RoomId, u \in User : TransferHost(i, u)]_vars
=============================================================================
