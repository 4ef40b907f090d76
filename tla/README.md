# gooophira-mp in TLA+

gooophira-mp is a multiplayer server for the rhythm game Phira. Clients keep a
TCP connection, meet in rooms, play rounds of a chart and hand in scores. Beside
the server runs an optional *agent*, which gets the server's events through a
durable log and keeps statistics, sends webhooks and uploads replays.

This directory models the **rooms** (many users, timers, administrators and slow
record fetches working on shared objects), the **connections** behind them, the
**event feed** to the agent (two processes, four files, lost requests and crashes),
what stands before and behind that feed, and the smaller **services** of the server.
Paths below are relative to `src/`.

## 1. Inventory

| Part | State it keeps | Operations | Here |
|---|---|---|---|
| Room state machine `internal/core/server/room_*.go`, `model_room.go`, `hub_broadcast.go` | members, monitors, host, phase (select, wait, play), ready players, results, aborted players, chart, lock/cycle/contest switches, next host, live flag | add, leave, request start, ready, cancel, abort, result, settle, rotate host | `Room` |
| Commands `dispatch*.go`, `hub_room_ops.go` | `ServerState.Rooms`, `Users`, `User.Room`, `User.Monitor` | create, join, leave, lock, cycle, select chart, start, ready, cancel, abort, played, disband | `Hub` |
| Timers `timer_ready_countdown.go`, `timer_play_deadline.go` | a context and a goroutine per room | arm, cancel, expire, force start, give up silent players | `Room`, `Hub` |
| Contest and administration `room_contest.go`, `admin_room.go`, `room_move.go`, console and HTTP routes | whitelist, manual start, auto disband; bans, maintenance, limits | enable, start, disband, transfer, kick, move, ban, switches | `Hub` |
| Connections `internal/server/network/session*.go`, `server.go`, `model_user.go` | sessions, the user's session pointer, dangle token and timer, number of connections | admit, authenticate in two phases, take over, lose, detach, clean up, grace period, shut down | `Session` (sessions), `Hub` (effect on rooms) |
| Client repair `protocol_hack.go` | timers per reconnect | disguise, read, send | `ClientSync` |
| Monitor buffer `monitor_buffer.go` | collected frames, flush timer | buffer, flush, broadcast, stop | `MonitorBuffer` |
| Replay recorder `internal/core/replay`, hooks in `cmd/server/main.go` | open recordings by player, keys by room id, finished files | start, append, end, list, expire | `Replay` |
| Replay upload `internal/agent/upload` | jobs and results, in memory and in the state file | schedule, upload, save, remove, retry | `Replay` |
| Publisher `internal/agent/bridge` | queue, lock, worker | emit, publish and wait, close | `Publisher` |
| Outbox `internal/agent/outbox` | `events.log`, `checkpoint.json`, pending events | append, fetch, acknowledge, compact, recover | `Outbox` |
| Inbox and statistics `internal/agent/inbox`, `stats_processor`, `stats_store` | inbox log, baseline, cursor, database | accept, read, process, recover | `Inbox` |
| Agent IPC `internal/agent/ipc`, `cmd/agent/main.go` | consumer session, last delivered number, position in the poll loop; pending queries | handshake, fetch, acknowledge, back off; submit, claim, answer | `Delivery`, `QueryBroker` |
| Webhooks `internal/agent/webhook_processor`, `integration/webhook` | cursor, ledger of deliveries, live cards | plan, deliver, mark, move, clear, recover | `Webhook` |
| Cache `internal/common/cache`, Phira client | entries, flights, save timer, file or Redis | get, share a fetch, evict, save, delete, load | `Cache` |
| Administrator access `httpapi/otp.go`, `admin.go`, `cli_approval.go` | OTP sessions, counters and bans, approvals, tokens | request, verify, approve, deny, check, prune | `AdminAccess` |
| WebSocket feed `httpapi/ws.go` | subscribers, send buffers, debounce timer | subscribe, change, flush, write, close | `LiveFeed` |
| Limiters `ratelimit.go`, `connlimit.go`, `httpapi/server.go`, `connratelimit.go` | buckets, windows, bans | allow, clean up, reload | `Limits` |
| Settings `model_state.go`, `admin_data.go`, `config/load` | configuration in memory and on disk, bans, watcher | patch, roll back, ban, save, poll, reload, restart | `Settings` |
| Wire protocol `internal/common/protocol` | none, and the reader's buffer | encode, decode, cut frames, half floats | `Wire`, `Half` |
| Logging, localisation, console editing, YAML parsing and migration, process statistics, benchmarks | parsing, formatting and I/O | | not modelled |

How the parts interact: a session reads a command and runs its handler under
`state.Mu`; `Played`, `Touches` and `Judges` hold only the room's own mutex,
`Played` also during an HTTP request of up to 20 s. Timer goroutines check their
context, then take both locks. Handlers emit events through the publisher to the
outbox; the agent polls the IPC service, stores the batch in its inbox, lets each
processor read the inbox behind its own cursor and acknowledges the batch. Recorder
and upload store share the replay files; the HTTP API asks the agent through the
query broker and is asked by WebSocket clients for what changes.

What is hard, and what correctness means there:

* a room keeps a host among its players through every order of leaves, expired
  grace periods, rotations, transfers and moves; otherwise nobody can start it;
* a round ends exactly when its players are done, and a wait or a scored round
  ends even if players go silent;
* rooms are addressed both by pointer and by a reusable id, and users by lists in
  rooms and by a field of their own: these views must agree;
* callbacks and fetches act on the state they saw some time ago;
* one account may have several connections in different stages of coming and going,
  and a timer started for one of them may fire for another;
* an event is applied once and in order, and deleted only after that, although
  every write, request and process may fail;
* a replay is not deleted before somebody has it, a webhook not forgotten;
* what an operator was told is in force is still so after a restart.

The hazards of the code, each at its line, are listed in `PROJECT.json`.

## 2. Modules

Rooms and connections:

* **`Room`**: the room object as a record and every function of the room as an
  operator on that record. Sets stand for member lists, since the only order the
  code uses is that of the ids (`pickNextHost` sorts them). Scores, names and messages
  are left out: a result is only present or not. A timer is two fields: `readyArmed`
  (its goroutine sleeps) and `readyLate` (`current` or `stale`: it has passed its
  context check and waits for the locks); `playArmed` and `playLate` likewise.
* **`Hub`**: the server. `rooms` maps ids to objects (`Ptr`), `uroom`, `umon` and
  `conn` are the users' fields, `inflight` the room whose mutex a `Played` holds
  while it fetches, `disbanding` the room `DisbandRoom` is emptying, `policy` the
  administrators' switches. One action per command, per console command or route,
  per connection event and per timer step. `StateFree` and `RoomFree` are the two
  mutexes as guards. `Played` and `DisbandRoom` take several steps, a kick takes two
  (`KickAbort`, `KickDetach`), and a disband decided under one lock and carried out
  later is `DisbandPending`.
* **`MCHub`**: the specifications of the runs, each the client's steps with one
  group of administrator operations, because the administrators' switches multiply
  the states by hundreds; and the symmetry of objects. `ContestSpec` leaves out the kick
  that ends a contest round (`KickEndsContest`), which `KickSpec` has (section 6).
* **`Session`**: the connections of one account. A session is its read loop
  (`pc`) and its closing goroutine (`closer`); a `User` object is named after the session
  that made it. `lock` is `state.Mu` where cleanup holds it over several steps. A grace
  timer that has fired waits for the lock as a step of its own. All tokens are equal,
  as addresses of a zero-size struct are in Go: `IsStillDangling` sees only whether
  there is one.
* **`ClientSync`**: what a client that comes back to a waiting room is told, and when.
* **`MonitorBuffer`**: the timer field, the callbacks it started and the batches taken
  are kept apart, because the code lets the lock go between them.

The event feed and what surrounds it:

* **`Publisher`**: callers, lock, bounded queue and worker.
* **`Outbox`**, **`Inbox`**: the two logs, on disk and in memory. A record is a number
  and an identity and takes one unit of space. A failing file operation has what it
  leaves behind as its parameter (nothing, a part or all of a record; the step that
  `Ack` reached), so that a crash inside an operation is the failed operation
  followed by a stop.
* **`Delivery`**: composes both with the IPC service and the agent's loop. `st` is the
  place in `poll`; `late` and `slow` are requests the agent no longer waits for and
  the server still handles, in two steps where the handler lets a lock go.
* **`EventFeed`**: what the feed promises: recorded events are applied one by one, in
  order, once. `Delivery` implements it (`AppliedInOrder`), with `sent` and `applied`
  as the mapping.
* **`Webhook`**: one plain target and one live card, the ledger file with torn records,
  the cursor, and the platforms as counters of what they received.
* **`Replay`**: one room id and its rounds, the goroutines of `OnGameEnd`, the files, and
  the agent's upload store on the same files.
* **`AgentServices`**: `Publisher`, `Webhook` and `Replay` in one run. They share no
  state, so `running` picks one and the others stand still.

Services of the server, composed with `Session` in the same way by **`ServerServices`**:
**`Settings`** (files as inodes, because a writer goes on writing to a file another one
has renamed), **`QueryBroker`**, **`Cache`**, **`AdminAccess`**, **`LiveFeed`** (a frame
is the version of the rooms it shows and a client shows the last frame it was sent; a
change is followed by a notice, made under `state.Mu` or, by `handlePlayed` and
`abortPlayingAndCheck`, under `room.Mu` alone, or by none at all: `QuietChange`),
**`Limits`** (four limiters, time in ticks, with reloads of the maximum and, for HTTP, of
the window; `thisLimit` and `lastLimit` remember what was in force in a window),
**`Half`** (half floats against the definition of the nearest one), **`Wire`** (two
separate tables, one as the encoders write and one as the decoders read) and `MCWire`
(its traffic: every command with small values, and lengths around the boundaries of the
prefix). **`Selection`** is the loop that keeps some entries of a slice in their order,
which `QueryBroker`, `MonitorBuffer` and `Limits` have in common; it names the entries by
their indices, because the provers know nothing of `SelectSeq`.

Theorems and the lemmas they rest on are in modules of their own, which extend the
module they are about: **`RoomProofs`** (the room's operators), **`HubProofs`**,
**`SessionProofs`**, **`OutboxProofs`** (the outbox alone), **`DeliveryProofs`** (the whole
feed), **`WebhookProofs`**, **`ReplayProofs`** and **`ServiceProofs`** (`AdminAccess`,
`Cache`, `LiveFeed`, `Settings`, `QueryBroker`, `MonitorBuffer`, `Limits` and `Half`, each
for its own specification, and the lemmas about `Selection`).

Operators whose name ends in `_Word` are mutants: the same operation with a
plausible mistake, which the named property has to detect.

## 3. Runs

`tlc -config X.cfg M` with the module given in `PROJECT.json`.

| Run | Instance | What it shows |
|---|---|---|
| `hub_players` | 3 users, one room of 2 seats, one object | All interleavings of logins, disconnects, commands, fetches and timers: `RegisteredHost`, `WaitHasCountdown`, `ResultHasDeadline`, `MembershipAgrees`, `RoundEndsWhenDone`, and under fairness `WaitEnds`, `ScoredRoundEnds` |
| `hub_contest` | 2 users, one id, 2 objects; contest switched at any time, locks, seats, kicks; the id may be given to a second room while the first one's disband is still to come | `ResultsSettled`, `NobodyIsStranded` |
| `hub_admin` | 3 users, one of them allowed to monitor, 2 seats | host transfers, designated hosts and rotation, bans and switches, while users play, watch, leave, disconnect and return: `RegisteredHost`, `WatchedIsLive` |
| `hub_move` | 3 users, 2 rooms, 2 objects | moves between rooms whose ids and objects are reused: `MembersPointBack` |
| `delivery` | 3 events, batches of 2, an outbox of 2, 4 faults | `NothingLost`, `SameEvents`, `AckedIsApplied`, `AgentCanResume`, the refinement `AppliedInOrder`, and under fairness `EventsAreApplied` |
| `agent_services` | webhook: three inboxes of up to 4 events, 3 faults; publisher: 4 threads, a queue of 1; replays: 1 player, 2 rounds, 2 faults | `PassedIsDelivered`, `RepeatsAreExcused`, `FinalRankShown`; `CriticalReturns`; `RecordingNotLost`, `FramesFindTheirRecording`, `RemovedIsUploaded`, `ScheduledIsUploaded` |
| `server_services` | 3 connections of one account and 2 places; the services: see below | `OldSessionIsKicked`, `ConnectedIsRegistered`, `PlacesCounted`, `DanglerHasTimer`; `RestartKeeps`, `WaitingIsClaimable`, `DiskFollows`, `SessionsAreOneUse`, `FeedsFollow`, `LimitsHold`, `FramesWillFlush`, `CommandsSurvive`, `HalfNearest` |
| `doc_save`, `doc_sync`, `doc_resume`, `doc_kick`, `doc_redeliver` | | five places where the code does not do what a comment or a document says (section 6) |

Bounds. Three users are needed for a host, a successor and an outsider waiting
for the seat; two seats make a room full. One object suffices where rooms are not
compared; two ids and two objects are needed for a stale pointer to meet a reused
id. Three connections are one that is being replaced, one that replaces it and one that
comes in between; two places let both accept loops meet the limit. In `delivery`, three
events give a full batch and a rest, the outbox fills up (2), and four faults are
enough for a stop, a lost directory, a restart and one more failure. In
`agent_services`, an inbox holds a whole round with its card; three faults let an answer
be lost, a mark fail and the agent crash; two rounds overlap through the goroutine that
ends the first. In `server_services`: one operator beside the watcher, an editor and one
restart, two runtime keys and one that needs a restart, three operations (two operators
at once are `doc_save`); five queries with a broker of two, so that its list is
compacted; two keys, two callers and room for one in the cache; two addresses and two
administrator sessions over a few units of time; one WebSocket client with a buffer of
two, three versions of the rooms, a notice under each lock and up to two overlapping
flushes; limits of one to three, and windows of one to three ticks, over five ticks; two
frames of either kind from two players; every command of the protocol once with each
combination of its small values, cut into reads of 1, 2 and 130 bytes; all halves up to
1100 and those around every power of two. `MaxEvents`, `MaxFaults` and the other `Max*`
constants that do not come from the code bound the behaviours and are guards of their
actions. The rooms have no counters and need no bound.

Fairness. In `Hub` only what the runtime guarantees: an armed timer fires and a
callback or handler that waits for a `sync.Mutex` gets it although others keep taking
it (the mutex hands over to a waiter that starves), hence strong fairness of the
callbacks; a fetch ends by its timeout. Nothing is assumed of players. In `Delivery`
the loops of `run` and `poll` go on, and stopped processes are started again
(`docs/agent.md` installs both with `Restart=on-failure`). Faults are bounded and not
fair. `EventsAreApplied` exempts an agent that cannot go on by itself
(`NeedsRestart`): after a failed inbox write, after `SetBaseline` moved the inbox
past a cursor that was read before, and with an inbox that `SetBaseline` refuses. In `Publisher` the threads inside it go on, and
nobody has to call or to close it. In `Replay` the goroutines go on and the agent's
ticker tries a due job again and again: an upload is strongly fair because uploads on
request may take its turn.

Deadlock is checked in the runs of rooms and of the feed. The others may come to rest:
connections end for good, queues run empty, times and counters reach their bounds.
Symmetry is used over object addresses, and only without liveness properties; of the
connections, which are alike, `server_services` explores those numbered in the order in
which they are accepted.

## 4. Proofs

All theorems hold for every value of the constants that satisfies the named
assumptions of the modules: the bounds of section 3 are gone, and so is the choice of
small sets. The assumptions say of the bounds that they are numbers (of some, that
they are not 0), of the special values (`None`, `NoOne`) that they are nothing else, of
user ids that they are natural numbers (`pickNextHost` compares them), of `Monitors`
that it is a set of users, and of an inbox that it is a sequence of events. Two
assumptions compare durations, as the code's constants do: a ban is not shorter than the
window it follows (`connRateBan` and `connRateWindow`, 30 and 10 seconds,
`network/server.go:20`) nor than the second of the connection log (`connLogBlacklistDur`, an
hour, `logging/connratelimit.go:13`). `allow` deletes the
window when it bans: with a shorter ban, new windows could begin within the span of the
old one and let through a third maximum.

| Module | Theorem | For the specification | Property |
|---|---|---|---|
| `HubProofs` | `TypeCorrect`, `RoomsAreHosted` | `Spec` of `Hub`, administrators included, which no run can explore at once | `TypeOK`, `RegisteredHost` |
| `HubProofs` | `RoundsAreFinished` | `Spec` of `Hub` | `RoundEndsWhenDone` |
| `HubProofs` | `ListsAreTrue`, `ScoresAreSettled` | `Spec` of `Hub`, for `Monitors = {}` | `MembersPointBack`, `ResultsSettled` |
| `HubProofs` | `WatchersAreServed` | `WatchSpec`: all steps of `Hub`, for any monitors, but a move into a room's monitors | `WatchedIsLive` |
| `HubProofs` | `WaitsAreTimed`, `ResultsAreTimed` | `OrdinarySpec`: all steps of `Hub` but those of contest mode | `WaitHasCountdown`, `ResultHasDeadline` |
| `HubProofs` | `MembersAgree`, `RoomsOutliveTheirMembers` | `CheckedSpec`: all steps of `Hub`, contests included, but a move to the user's own room and the kick that ends a contest round, for `Monitors = {}` | `MembershipAgrees`, `NobodyIsStranded` |
| `SessionProofs` | `PlacesAreCounted`, `ReplacedIsKicked`, `ConnectedStaysRegistered`, `DanglersAreTimed` | `SessionSpec` | `PlacesCounted`, `OldSessionIsKicked`, `ConnectedIsRegistered`, `DanglerHasTimer` |
| `DeliveryProofs` | `NothingIsLost`, `EventsAreTheSame`, `AcknowledgedIsApplied`, `AgentResumes` | `Spec` of `Delivery` | `NothingLost`, `SameEvents`, `AckedIsApplied`, `AgentCanResume` |
| `DeliveryProofs` | `FeedIsImplemented` | `Spec` of `Delivery` | `AppliedInOrder`: the refinement of `EventFeed` |
| `ReplayProofs` | `RecordingsAreKept`, `FramesAreWhereTheyBelong`, `DeletedHasArrived` | `ReplaySpec` | `RecordingNotLost`, `FramesFindTheirRecording`, `RemovedIsUploaded` |
| `WebhookProofs` | `NoTargetIsMissed`, `RepeatsHaveReasons`, `FinalRanksAreShown` | `WhSpec` | `PassedIsDelivered`, `RepeatsAreExcused`, `FinalRankShown` |
| `ServiceProofs` | `AccessIsOneUse`, `SavedIsCurrent`, `FeedsAreFollowed` | the specifications of `AdminAccess`, `Cache` and `LiveFeed` | `SessionsAreOneUse`, `DiskFollows`, `FeedsFollow` |
| `ServiceProofs` | `AnsweredIsKept` | `Settings` with one operator | `RestartKeeps` |
| `ServiceProofs` | `WaitingQueriesAreFound`, `FramesFlushOnce`, `LimitersKeepTheirLimits` | the specifications of `QueryBroker`, `MonitorBuffer` and `Limits` | `WaitingIsClaimable`, `FramesWillFlush`, `LimitsHold` |
| `ServiceProofs` | `PositionsAreWrittenNearest` | `HalfSpec` | `HalfNearest` |
| `ServiceProofs` | `EveryFloatIsWrittenNearest` | none: a fact about `F32ToF16Bits` for all 2^32 floats, of which the run tries those around chosen halves | |

Some theorems have a hypothesis that the code asks for. Without `Monitors = {}`
`MembersPointBack` is false: a former monitor who creates a room stays on its list after
leaving (section 6); `ResultsSettled` is proved with the same invariant, which starts from
lists without monitors, and a monitor left in a dropped room may take another room off the
table by its id. `WatchersAreServed` has monitors, and leaves out only the one way to make
somebody watch that does not refresh the flag (section 6). A contest room starts no countdown of its own, so the theorems
about timers leave the operations of contests out; the clients' specification of
`hub_players` is a part of what remains. A move to the user's own room (`room_move.go:6`)
takes him off the list of a room he stays in, so that `DisbandRoom` does not find him
(TLC shows it in ten states), and `doc_kick` shows what the kick that ends a contest round
does to a room that has got the old one's id. And `doc_save` shows that two operators who save at the same time lose bans, so
`AnsweredIsKept` has one.

Each inductive invariant was checked by TLC on a small instance before it was proved. What they add to the properties, and why:

* **Rooms.** The invariant is the conjunction of `TypeOK` and `RegisteredHost`. Neither
  is inductive alone: a new host is the minimum of a set of remaining players, which
  says nothing if the set is empty, so that the type of `host` rests on a leave that
  empties the room being recognised (`OnUserLeaveFacts`), and the host among the players
  rests on the types of the lists. The room under `disbanding` is exempt because its
  members leave one by one and the last host has no successor. The argument has three
  layers: what each operator of `Room` returns (`RoomProofs`); what writing such a result
  into the table preserves (`HostedUpdate`, `HostedDrop`, `RoomWrite`, `RoomDrop`,
  `KeptWrite`); and one lemma per group of actions, combined in `SafeStep`.
* **Rounds, lists and timers.** Most steps write one object and no member. `SteadyStep`
  and `OrdinaryStep` say once what such a write may do (lists and id stay, a finished
  round is settled, a timer is kept or replaced, a room goes to `disbanding` at most), and
  every operator of `Room` is shown to comply. `LeftBehind` says the same of a leave, which
  may also drop the room. `Orderly` adds to the three properties that nobody monitors;
  `Timely` adds that no room is a contest. The steps that write members, lists and objects
  together (create, join, move, the loop of `DisbandRoom`, a reload) are treated one by
  one. That a disband finds everybody needs `Listed`: who is in a room is on one of its
  lists. That fields name registered rooms (`Housed`) rests on all of these at once
  (`Agreed`): the entry of an id is deleted only for a room that has it and that nobody is
  in any more, which is why only a room of the table is being disbanded (`AtHome`) and every
disband that is still to come compares pointers first (`AllChecked`). That a watched room is
live is an invariant of every object, with the one fact that a join refreshes the flag.
  `RoundEndsWhenDone` compares two states and needs no invariant but the types and the hosts.
* **Sessions.** Who can refer to which `User` object: nobody knows an object before its
  session has registered it; a session is in one of few combinations of read loop, closing
  goroutine and user; `state.Mu` belongs to the cleanup that detached a user; a grace timer
  that an object refers to was started for it. The count of places is a cardinality over an
  arbitrary set of connections, moved by one per step.
* **Feed.** `OutInv` says of the outbox that the log, from some base on, holds the recorded
  events without a gap (or a tail that a failed write left), that the base is not past the checkpoint, and
  that memory agrees with the file while the server runs. `AInv` says of the agent that
  the database is a prefix of what was recorded; that everything which claims that
  events were processed (checkpoint, cursor file, cursor in memory, baseline, late
  acknowledgements) claims it of that prefix; that batch and inbox hold recorded events
  under their numbers; that the inbox file goes on from its baseline, or holds one record
  of a failed write that a baseline has passed; and what each place of `poll` has behind
  it. The refinement follows: a step that changes the database applies the next event.
* **Replays.** A player has an open recording exactly if the room id has keys, and it is
  the one of the current round if that round began one (`RecInv`); a round is ended by
  one goroutine, which holds what it took and nothing else (`EndInv`); a result, in memory
  or saved, and an upload that was answered, are of replays that arrived (`UpInv`).
* **Webhooks.** Each target of the current event is still to be visited or was served;
  an entry of the ledger is of a target that was served; a target that is neither marked
  nor about to be marked has an excuse for each delivery: a lost answer, a failed mark or a
crash between its delivery and its mark, each counted for the target it happened to, and a
mark that recovery cut off behind a torn one. For the rankings, `CardInv`
  follows a final ranking from the card that shows it to the ledger entry and the cursor
  that rest on it: a card with a final ranking is settled, no later event has its uuid any
  more and can patch it, and every way
  past the end of a round (delivered, refused, found in the ledger) leaves it shown or
  refused.
* **Services.** Access: a session that is still open has yielded nothing and counts its
  own wrong codes; a token on its way out is the only one of its session (`AccessInv`).
  Cache: a save timer that is set or has fired belongs to a save that is owed (`CacheInv`). Feed: no frame, flush, notice or
  snapshot shows a version the rooms have not reached, a timer that is set is owed, a
  client that is behind is on the list of whoever serves it next, and what is under way to a
  client that is not `crossed` or `raced` is no older than what it was last sent (`FeedInv`).
  Settings: what each inode holds at each step of a save or of a patch, for the one operator whose steps these are (`SettingsInv`).
* **Queries and monitor frames.** `WaitingIsClaimable` bounds the list by three times the
  limit, but is not inductive: `QInv` says that the list is at most twice the limit longer
  than what is pending, that an id is listed once, and that all that is pending is listed.
  `MonInv` numbers the frames: those collected, in a batch under way or shown are
  different ones, so that two flushes that overlap show none twice; a timer that has fired
  has a flush that waits.
* **Limiters.** A bucket (`BucketInv`): for every earlier time, what passed since then and
  what the bucket would hold now do not exceed its capacity and the refill since. A fixed
  window (`WindowInv`): it counts what it let through, which is at most the largest maximum in
  force since it began (a reload may raise it), the window before it let through at most its
  own, and a window that was forgotten has run out or left a ban that outlasts it. The
  log (`LogInv`): its stamps are what was logged in the last second, unless a ban has cleared
  them, and that ban outlasts the second.
* **Half floats.** `HalfInv` says that what was written is the nearest half of the position
  at hand, also after a read has replaced the position by a half. It rests on two facts about
  the functions: what a half is read as, octave by octave for the subnormals (`OctaveIs`,
  `SubnormalStep`), and that rounding a shifted number, a carry into the exponent
  included, falls on the right side of both midpoints.

Two proofs changed the model. `AgentCanResume` was not provable as it stood: after a
lost directory a failed write can leave a non-empty inbox behind the server's
acknowledgement, `SetBaseline` refuses it, and `run` ends. The model now has that
step (`RunFails`), and the property says when the inbox is not behind. `Unacked` of
`Outbox` and `Plan` of `Webhook` are written without `SelectSeq`, of which the provers
know nothing; filters that keep an order are written with `Selection`.

Only model-checked: `CommandsSurvive`, the one invariant left, because the encoders and
decoders of `Wire` are recursive over the shape of a command and the prover does not reason
by induction over data; and liveness under fairness (`WaitEnds`, `ScoredRoundEnds`,
`EventsAreApplied`, `CriticalReturns`, `ScheduledIsUploaded`).

## 5. What is left out

* Messages to clients, chat, logs, ranking text, frame data: no room state depends on
  them, and with them `ReconnectNotified`, which the code writes to a copy of the state.
* Data races: `Abort` under `state.Mu` and `Played` under `room.Mu` write the same
  maps. `Hub` lets their steps interleave but takes each write as atomic; that Go ends a
  process whose map is written by two goroutines at once is not modelled.
* `Hub` has one connection per user and `Session` no rooms; the two are not composed.
  `Replay` takes the completion events as they reach the inbox, `Webhook` starts from an
  inbox; that these are the events of the outbox is what `Delivery` shows.
* A second agent with another consumer id; the discovery file, endpoints and request
  authentication; the SQL behind an event and the ratings it computes.
* Parsing, merging, defaults and migration of the configuration; the dispatcher's
  `SetConfig` at run time; a change of the recorder's directory at run time.
* The UUID codec, the PROXY header, CORS, request parsing, JSON views, downloads.
* Layout of cards, images, signatures, the other webhook adapters, `feishu/manager.go`.
* Console input and output, the console channel of the WebSocket, logging, localisation,
  process statistics, benchmarks.
* Code that nothing calls: `integration/autoupload`, `forceSyncInfo`, `forceSyncHost`.
* The exit status of the agent. It leaves `main` without one when `run` fails
  (`cmd/agent/main.go:151`), so that `Restart=on-failure` would not start it again; the
  model does start it. `RunFails` shows that this path of `run` is reached.

## 6. Where code and documents disagree

Shown by runs:

* `doc_save`: two concurrent saves of the bans share `<file>.tmp`; one renames what the
  other has truncated, and the other's retry deletes the file, although the save is
  called atomic (`admin_data.go:78`). `PersistConfigValues` has the same steps.
* `doc_sync`: a client that comes back to a waiting room is told a state that was read
  without locks and may be older than the one broadcast before it.
* `doc_resume`: a backlog of events larger than the 64 KiB the client reads of an
  answer is never consumed.
* `doc_kick`: a kick that ends a contest round lets both locks go before it disbands and
  does not compare pointers, as `handlePlayed` does: if the room went meanwhile and its id
  names a new one, the new room leaves the table with its players in it
  (`cli_users.go:173`).
* `doc_redeliver`: `docs/agent.md:128` promises that a restart delivers nothing again to a
  completed target. `Mark` appends behind a record that an earlier write left torn, and
  recovery cuts the ledger there: a target whose mark was written and reported is asked
  again (`ledger.go:109`). `RepeatsAreExcused` counts exactly these (`lostMarks`).

Seen while modelling, without a run of their own:

* `room_lifecycle.go:206` says that a room to be dropped has no member; it is dropped
  when its last player leaves, with monitors still in it.
* `room_lifecycle.go:303`: a round everybody has finished is settled. A countdown that
  finds nobody ready (the ready host has left) opens a round that is finished and stays
  open until somebody leaves (`timer_ready_countdown.go:98`).
* `room_lifecycle.go:204`: a user who leaves is removed. A former monitor who creates a
  room (`hub_room_ops.go:13` keeps `Monitor`) stays on its player list after leaving.
* `room_contest.go:26`, `timer_ready_countdown.go:34`: contest rooms start by hand. A
  countdown that runs when the contest is switched on starts the round.
* `room_lifecycle.go:210` calls dropping and disbanding exclusive; a leave that ends a
  contest round of a room with only a monitor left reports both.
* `hub_room_ops.go:219` says that the room is back in `SelectChart` when `DisbandRoom`
  runs; administrators also disband during a round, and a member's leave may then
  settle it.
* `room_move.go:6`: a move to the user's own room adds and then removes him.
* `timer_ready_countdown.go:78`: a callback that passed its check acts on a later wait.
* `dispatch_room.go:199`: rooms are deleted by id. A monitor who is left in a room that was
  dropped deletes, when he leaves, the room that has the id by then; the properties of
  tables and lists are stated without monitors.
* `model_room.go:174`: the live flag of a room stays set when the grace period of its last
  monitor ends, because `removeUser` does not refresh it (`session_dangle.go:140`), and a
  move into the monitors does not set it (`room_move.go:24`), so that the frames of a
  watched room are dropped until the next join or leave.
* `session.go:211`: a user detached by `AdminDisconnect(true)` stays registered without
  session, token and timer, and nothing removes him until he comes back;
  `DanglerHasTimer` speaks of users with a token.
* `model_user.go:14`: a `DangleToken` is said to identify one disconnection; pointers to
  a zero-size struct are equal, so a late timer ends a later absence early.
* `model_user.go:217`: `IsConnected` may see a session that has ended.
* `session_auth.go:123`: the second phase checks again under the lock but binds the user
  it found outside of it; a grace timer in between leaves a connected user unregistered.
* `model_state.go:147` promises that an event sink does not block; `Emit` waits for the
  lock that `PublishCritical` holds while the queue is full (`publisher.go:74`).
* `cmd/server/main.go:304`: the completion event is published after the file is closed.
  The list it is built from may name recordings of the next round, which are still open.
* `recorder.go:277`: `EndRoom` closes whatever the room id has open. The goroutine of a round
  that was not recorded, running late, closes the recording of the next round, and the rest
  of that round's frames is dropped. `FramesFindTheirRecording` says only that no frame goes
  into another round's recording while its own round has one.
* `ws.go:315` and `ws.go:317` say that announcements are made under `state.Mu`. `handlePlayed`
  (`dispatch_play.go:114`) and `abortPlayingAndCheck` make them under `room.Mu`:
  `BuildRoomUpdate` then reads the maps of rooms and users while others write them, which Go
  may even answer by ending the process, and two announcements may reach a client in the
  wrong order. So may a flush and a snapshot, or two flushes, which send under no lock, and
  the first frame of a subscriber, which was read before he was on the list. `FeedsFollow`
  exempts exactly the clients with two such pushes under way (`crossed`, `raced`).
* Locking and cycling a room (`dispatch_room.go:19`, `:32`), the leave of the last player
  (`room_lifecycle.go:233`) and the deletion of the room (`dispatch_room.go:199`) are not
  announced: subscribers and administrators see them with the next announcement, and the
  subscribers of a deleted room never. `LiveFeed` has these as `QuietChange` and follows one
  room that exists.
* `connlimit.go:14` calls its window a sliding one, `config.example/server.yaml:105` allows N
  connections in 10 seconds, and `ratelimit.go:11` at most two operations a second. The
  windows are fixed, so that across a boundary twice the maximum passes within 10 seconds,
  or the maxima before and after a reload; a full bucket passes its capacity at once and its
  refill in the same second. `LimitsHold` states what the code keeps: the sum of the two
  windows, and capacity plus refill.
* `docs/agent.md:163`: results are saved before the replay is deleted. After a failed
  save the result is known in memory, and the next call deletes the file
  (`upload/store.go:164`).
* `outbox/store.go:196`: after a compaction that failed, `bytes` keeps its old value;
  if nothing is pending, a full outbox stays full until the server restarts.
* `cmd/agent/main.go:263`: an inbox that is behind the server's acknowledgement and not
  empty ends the agent, at every start, until somebody empties its directory. It takes a
  lost directory, a new event whose write to the inbox fails after the record is in the
  file, and a server that has restarted from a checkpoint newer than its memory.
* The inbox is never trimmed: when it is full, the agent takes no further event.
* `model_state.go:228`: the listeners of two reloads are called after the unlock and may
  end with the older configuration.
* The result of `SaveAdminData` is ignored by its callers: a ban that could not be
  saved is answered with success.

## 7. Plan

1. `MembersAgree` and `MembersPointBack` with monitors, once the code takes a former
   monitor off the list (section 6).
2. A composition of `Hub` and `Session`, with the connections of several accounts.
3. The round trip of the length prefix of `Wire` for all lengths, which has at most five
   bytes and so needs no induction if it is written out.
