-------------------------------- MODULE Room --------------------------------
(***************************************************************************)
(* One room of internal/core/server: the fields of struct Room and the     *)
(* methods that change them, as functions from room records to room        *)
(* records.  Everything here runs inside one critical section of the Go    *)
(* code; Hub.tla composes these functions into the handlers, timers and    *)
(* administrator operations and says which locks they hold.                *)
(*                                                                         *)
(* The state machine of a room is  select -> wait -> play -> select        *)
(* (StateSelectChart, StateWaitForReady, StatePlaying).  Started, Results  *)
(* and Aborted live inside the Go state values, so they are empty in the   *)
(* phases that do not carry them.                                          *)
(***************************************************************************)
EXTENDS Naturals, FiniteSets, FiniteSetsExt

CONSTANTS User,      \* user ids (Phira ids: the host rotation compares them)
          RoomId,    \* room ids, reusable once a room is gone
          None,      \* nil
          MaxUsers   \* ROOM_MAX_USERS, the initial cap on players

ASSUME UserAssumption == User \subseteq Nat
ASSUME NoneAssumption == None \notin User \cup RoomId
ASSUME MaxUsersAssumption == MaxUsers \in Nat \ {0}

Phase == {"select", "wait", "play"}

\* A timer callback of a room: none waiting for the lock, one that passed its
\* ctx.Err() check and whose timer is still the stored one, or one whose
\* timer was cancelled after the check.
Late == {"none", "current", "stale"}

RoomType ==
  [ id        : RoomId \cup {None},        \* None: never used
    host      : User \cup {None},
    max       : Nat,
    users     : SUBSET User,
    monitors  : SUBSET User,
    phase     : Phase,
    started   : SUBSET User,               \* StateWaitForReady.Started
    results   : SUBSET User,               \* keys of StatePlaying.Results
    aborted   : SUBSET User,               \* StatePlaying.Aborted
    chart     : BOOLEAN,                   \* Chart # nil
    locked    : BOOLEAN,
    cycle     : BOOLEAN,
    nextHost  : User \cup {None},
    contest   : BOOLEAN,                   \* Contest # nil: manual start and
    whitelist : SUBSET User,               \* automatic disbanding together
    eligible  : BOOLEAN,                   \* ReplayEligible
    live      : BOOLEAN,
    readyArmed : BOOLEAN,                  \* readyCancel is set, not fired
    readyLate  : Late,
    playArmed  : BOOLEAN,                  \* playDeadlineCancel likewise
    playLate   : Late,
    pending   : SUBSET {"checked", "unchecked"} ]  \* disbands to come

\* The record of an object that was never allocated.
Unused ==
  [ id |-> None, host |-> None, max |-> 0, users |-> {}, monitors |-> {},
    phase |-> "select", started |-> {}, results |-> {}, aborted |-> {},
    chart |-> FALSE, locked |-> FALSE, cycle |-> FALSE, nextHost |-> None,
    contest |-> FALSE, whitelist |-> {}, eligible |-> FALSE, live |-> FALSE,
    readyArmed |-> FALSE, readyLate |-> "none", playArmed |-> FALSE,
    playLate |-> "none", pending |-> {} ]

\* Mutant: the replay switch alone decides.
RefreshLive_ReplayOnly(r, replay) == [r EXCEPT !.live = replay /\ r.eligible]

\* RefreshLive: live while somebody watches or the room is being recorded.
RefreshLive(r, replay) ==
  [r EXCEPT !.live = (r.monitors # {}) \/ (replay /\ r.eligible)]

\* NewRoom, completed by ProcessCreateRoom.
NewRoom(id, u, replay) ==
  RefreshLive([Unused EXCEPT !.id = id, !.host = u, !.max = MaxUsers,
                             !.users = {u}, !.eligible = replay], replay)

Participants(r) == r.users \cup r.monitors

-----------------------------------------------------------------------------
(* Timers *)

\* cancelReadyCountdown / cancelPlayDeadline: the context is cancelled; a
\* callback that already passed its check still runs.
Cancelled(late) == IF late = "current" THEN "stale" ELSE late

CancelReadyCountdown(r) ==
  [r EXCEPT !.readyArmed = FALSE, !.readyLate = Cancelled(r.readyLate)]

CancelPlayDeadline(r) ==
  [r EXCEPT !.playArmed = FALSE, !.playLate = Cancelled(r.playLate)]

StartReadyCountdown(r) ==
  IF r.contest THEN r
  ELSE [CancelReadyCountdown(r) EXCEPT !.readyArmed = TRUE]

StartPlayDeadline(r) ==
  IF r.contest THEN r
  ELSE [CancelPlayDeadline(r) EXCEPT !.playArmed = TRUE]

-----------------------------------------------------------------------------
(* The state machine *)

\* Mutant: no wrap-around, the zero value is returned instead.
PickNextHost_NoWrap(ids, old) ==
  LET above == {i \in ids : i > old}
  IN  IF above # {} THEN Min(above) ELSE 0

\* pickNextHost: the smallest id above the old host's, else the smallest id.
PickNextHost(ids, old) ==
  LET above == {i \in ids : i > old}
  IN  Min(IF above # {} THEN above ELSE ids)

StartPlaying(r) ==
  [CancelPlayDeadline(CancelReadyCountdown(r)) EXCEPT
     !.phase = "play", !.started = {}, !.results = {}, !.aborted = {}]

CheckWaitForReady(r) ==
  IF Participants(r) \subseteq r.started /\ ~r.contest
  THEN StartPlaying(r) ELSE r

\* Mutant: a designated next host who already left becomes host.
CycleHost_AnyDesignated(r) ==
  IF r.nextHost # None THEN r.nextHost ELSE PickNextHost(r.users, r.host)

\* The host a finished round of a cycling room hands over to.
CycleHost(r) ==
  IF r.nextHost # None /\ r.nextHost # r.host /\ r.nextHost \in r.users
  THEN r.nextHost ELSE PickNextHost(r.users, r.host)

RotateCycleHost(r) == [r EXCEPT !.host = CycleHost(r), !.nextHost = None]

\* Mutant: one finished player is enough.
AllFinished_Any(r) == r.users \cap (r.results \cup r.aborted) # {}

AllFinished(r) == r.users \subseteq (r.results \cup r.aborted)

\* checkPlaying once everybody is done.
Settle(r) ==
  LET s == [CancelPlayDeadline(r) EXCEPT
              !.phase = "select", !.results = {}, !.aborted = {}]
  IN  IF ~r.contest /\ r.cycle /\ Cardinality(r.users) > 1
      THEN RotateCycleHost(s) ELSE s

CheckPlaying(r) == IF AllFinished(r) THEN Settle(r) ELSE r

CheckAllReady(r) ==
  CASE r.phase = "wait" -> CheckWaitForReady(r)
    [] r.phase = "play" -> CheckPlaying(r)
    [] OTHER -> r

\* The result of CheckAllReady: a contest round ended, disband the room.
Disbands(r) == r.phase = "play" /\ AllFinished(r) /\ r.contest

-----------------------------------------------------------------------------
(* Membership *)

CanAdd(r, u, mon) == mon \/ u \in r.users \/ Cardinality(r.users) < r.max

AddUser(r, u, mon) ==
  IF mon THEN [r EXCEPT !.monitors = @ \cup {u}]
         ELSE [r EXCEPT !.users = @ \cup {u}]

\* HandleJoin: who joins a running round as a player counts as aborted.
HandleJoin(r, u, mon) ==
  IF r.phase = "play" /\ ~mon
  THEN [r EXCEPT !.aborted = @ \cup {u}] ELSE r

ValidateJoin(r, u, mon, mayMonitor) ==
  /\ r.contest => u \in r.whitelist
  /\ ~r.locked
  /\ mon => mayMonitor

\* Mutant: the host stays on the list.
RemoveMember_KeepsHost(r, u, mon) ==
  IF r.host = u THEN r ELSE [r EXCEPT !.users = @ \ {u}, !.monitors = @ \ {u}]

RemoveMember(r, u, mon) ==
  IF mon THEN [r EXCEPT !.monitors = @ \ {u}]
         ELSE [r EXCEPT !.users = @ \ {u}]

\* The room is handed to nobody: the host left and no player remains.
HostLeftAlone(r, u, mon) ==
  r.host = u /\ RemoveMember(r, u, mon).users = {}

\* Mutant: the host leaves without a successor.
HandedOver_KeepHost(r, u, mon) == RemoveMember(r, u, mon)

\* The room between the removal of the member and the final CheckAllReady.
HandedOver(r, u, mon) ==
  LET s == RemoveMember(r, u, mon)
  IN  IF r.host = u THEN [s EXCEPT !.host = PickNextHost(s.users, u)] ELSE s

OnUserLeave(r, u, mon) ==
  IF HostLeftAlone(r, u, mon) THEN RemoveMember(r, u, mon)
  ELSE CheckAllReady(HandedOver(r, u, mon))

\* Mutant: a room does not outlive its host.
ShouldDrop_HostGone(r, u, mon) == r.host = u

\* The two results of OnUserLeave.
ShouldDrop(r, u, mon) ==
  \/ HostLeftAlone(r, u, mon)
  \/ Participants(RemoveMember(r, u, mon)) = {}

LeaveDisbands(r, u, mon) ==
  ~HostLeftAlone(r, u, mon) /\ Disbands(HandedOver(r, u, mon))

-----------------------------------------------------------------------------
(* Client commands on a room; each guard is the handler's condition for
   changing the state, in every other case it only answers. *)

CanRequestStart(r, u) == r.host = u /\ r.chart /\ r.phase = "select"

\* Mutant: the countdown is not started.
RequestStart_NoCountdown(r, u) ==
  CheckAllReady([r EXCEPT !.phase = "wait", !.started = {u}])

\* handleRequestStart from the state change on.
RequestStart(r, u) ==
  LET s == CheckAllReady([r EXCEPT !.phase = "wait", !.started = {u}])
  IN  IF s.phase = "wait" THEN StartReadyCountdown(s) ELSE s

CanReady(r, u) == r.phase = "wait" /\ u \notin r.started

Ready(r, u) == CheckAllReady([r EXCEPT !.started = @ \cup {u}])

CanCancelReady(r, u) == r.phase = "wait" /\ u \in r.started

CancelReady(r, u) ==
  IF r.host = u
  THEN [CancelReadyCountdown(r) EXCEPT !.phase = "select", !.started = {}]
  ELSE [r EXCEPT !.started = @ \ {u}]

\* Unfinished: the player can still abort or hand in a result.
Unfinished(r, u) == r.phase = "play" /\ u \notin r.results \cup r.aborted

Aborted(r, u) == [r EXCEPT !.aborted = @ \cup {u}]

\* Mutant: handleAbort forgets to advance the room.
Abort_NoCheck(r, u) == Aborted(r, u)

Abort(r, u) == CheckAllReady(Aborted(r, u))

\* handlePlayed from the write of the result on.
Scored(r, u) == [r EXCEPT !.results = @ \cup {u}]

\* Mutant: the deadline starts with the second result.
StoreResult_LateDeadline(r, u) ==
  LET s == Scored(r, u)
      t == CheckAllReady(s)
  IN  IF Disbands(s) THEN [t EXCEPT !.pending = @ \cup {"checked"}]
      ELSE IF ~(r.results \subseteq {u}) /\ ~t.contest /\ t.phase = "play"
           THEN StartPlayDeadline(t) ELSE t

StoreResult(r, u) ==
  LET first == r.results \subseteq {u}
      s     == Scored(r, u)
      t     == CheckAllReady(s)
  IN  IF Disbands(s) THEN [t EXCEPT !.pending = @ \cup {"checked"}]
      ELSE IF first /\ ~t.contest /\ t.phase = "play"
           THEN StartPlayDeadline(t) ELSE t

-----------------------------------------------------------------------------
(* Timer callbacks after they took the locks *)

\* The countdown ran out: whoever is not ready sits this round out.  Unlike
\* every other place that touches Aborted, it does not call CheckAllReady.
ForceStart(r) ==
  LET unready == r.users \ r.started
  IN  [StartPlaying(r) EXCEPT !.aborted = unready]

\* The deadline ran out: everybody unfinished is aborted.
ExpirePlay(r) == [r EXCEPT !.aborted = @ \cup (r.users \ r.results)]

-----------------------------------------------------------------------------
(* Contest mode *)

ContestWhitelist(r, ids) ==
  (IF ids # {} THEN ids ELSE Participants(r)) \cup Participants(r)

CanStartContest(r, force) ==
  /\ r.contest /\ r.phase = "wait" /\ r.chart
  /\ force \/ Participants(r) \subseteq r.started
=============================================================================
