------------------------------- MODULE Replay -------------------------------
(***************************************************************************)
(* Replays, from the round to the share station: the recorder of the       *)
(* server (core/replay) behind the hooks that cmd/server installs, and the *)
(* upload store of the agent (agent/upload), which work on the same files. *)
(* The module follows one room id, whose rooms and rounds come and go.     *)
(*                                                                         *)
(* A recording is named <<round, player>> (its path holds player, chart    *)
(* and start time); of its frames only the rounds they belong to are kept. *)
(* How the completion events travel is the matter of Delivery: here        *)
(* events is the sequence the agent's inbox receives.                      *)
(***************************************************************************)
EXTENDS Naturals, Sequences, FiniteSets, SequencesExt

CONSTANTS Players, MaxRounds,
          MaxFrames,   \* maxFramesPerInflight
          MaxFaults    \* bound on failed writes, refused uploads and crashes

ASSUME ReplayAssumption == MaxRounds \in Nat /\ MaxFrames \in Nat /\ MaxFaults \in Nat

Rounds == 1..MaxRounds
Id == Rounds \X Players

VARIABLES round, playing,  \* the last round and whether it is being played
          keys,      \* Recorder.keysByRoom
          inflight,  \* Recorder.inflight: player -> id and frames
          completed, \* Recorder.completed
          ender,     \* the goroutine of OnGameEnd, by round: none, started,
                     \* taken (holds what EndRoom took), written, over
          taken,     \* what it took
          disk,      \* the files: recordings with their frames
          started, written, failed, expired,  \* history: recordings begun, written, not
                     \* writable, deleted by age or by the player
          events,    \* completion events
          cursor,    \* upload processor: events processed
          mem, saved,  \* upload store in memory and in STATE_PATH
          job,       \* the upload under way
          copies,    \* what the share station received
          faults

recorderVars == <<round, playing, keys, inflight, completed, ender, taken, started>>
uploadVars == <<cursor, mem, saved, job, copies>>
rpVars == <<recorderVars, uploadVars, disk, written, failed, expired, events, faults>>

NoJob == [id |-> <<0, 0>>, stage |-> "idle"]
Recording == [id : Id, frames : BoundedSeq(Rounds, MaxFrames)]
State == [jobs : SUBSET Id, results : SUBSET Id]

Ids(recs) == {it.id : it \in recs}
OpenRecs == {inflight[p] : p \in DOMAIN inflight}

ReplayTypeOK ==
  /\ round \in 0..MaxRounds /\ playing \in BOOLEAN /\ keys \subseteq Players
  /\ DOMAIN inflight \subseteq Players /\ OpenRecs \subseteq Recording
  /\ ender \in [Rounds -> {"none", "started", "taken", "written", "over"}]
  /\ \A r \in Rounds : taken[r] \subseteq Recording
  /\ disk \subseteq Recording /\ completed \subseteq Id
  /\ events \in Seq(Id) /\ cursor \in 0..Len(events)
  /\ mem \in State /\ saved \in State
  /\ job.stage \in {"idle", "send", "save", "remove"}
  /\ copies \in [Id -> Nat] /\ faults \in 0..MaxFaults

ReplayInit ==
  /\ round = 0 /\ playing = FALSE
  /\ keys = {} /\ inflight = <<>> /\ completed = {}
  /\ ender = [r \in Rounds |-> "none"] /\ taken = [r \in Rounds |-> {}]
  /\ disk = {} /\ started = {} /\ written = {} /\ failed = {} /\ expired = {} /\ events = <<>>
  /\ cursor = 0 /\ mem = [jobs |-> {}, results |-> {}] /\ saved = mem
  /\ job = NoJob /\ copies = [i \in Id |-> 0] /\ faults = 0

Fault == faults < MaxFaults /\ faults' = faults + 1

-----------------------------------------------------------------------------
(* The server                                                              *)

StartRoom_Restarts(users) ==
  /\ completed' = {}
  /\ keys' = users
  /\ inflight' = [p \in users |-> [id |-> <<round + 1, p>>, frames |-> <<>>]]
  /\ started' = started \cup {<<round + 1, p>> : p \in users}

StartRoom_KeepsOpen(users) ==
  /\ completed' = {}
  /\ keys' = keys \cup users
  /\ inflight' = [p \in users \cup DOMAIN inflight |->
       IF p \in DOMAIN inflight THEN inflight[p] ELSE [id |-> <<round + 1, p>>, frames |-> <<>>]]
  /\ started' = started \cup {<<round + 1, p>> : p \in users}

\* StartRoom: skipped while the room id is still being recorded.
StartRoom(users) ==
  IF keys # {} THEN UNCHANGED <<keys, inflight, completed, started>>
  ELSE /\ completed' = {}
       /\ keys' = users
       /\ inflight' = [p \in users |-> [id |-> <<round + 1, p>>, frames |-> <<>>]]
       /\ started' = started \cup {<<round + 1, p>> : p \in users}

\* OnEnterPlaying; eligible: replays are enabled, for this room too.
EnterPlaying(users, eligible) ==
  /\ ~playing /\ round < MaxRounds
  /\ round' = round + 1 /\ playing' = TRUE
  /\ IF eligible THEN StartRoom(users) ELSE UNCHANGED <<keys, inflight, completed, started>>
  /\ UNCHANGED <<ender, taken, uploadVars, disk, written, failed, expired, events, faults>>

\* AppendTouches and AppendJudges: to whatever is open for the player; frames of
\* a player with nothing open are dropped.
AppendFrames(p) ==
  /\ playing /\ p \in DOMAIN inflight
  /\ Len(inflight[p].frames) < MaxFrames
  /\ inflight' = [inflight EXCEPT ![p].frames = Append(@, round)]
  /\ UNCHANGED <<started, round, playing, keys, completed, ender, taken, uploadVars, disk, written,
                 failed, expired, events, faults>>

\* OnGameEnd: everything slow is left to a goroutine.
GameEnd ==
  /\ playing /\ playing' = FALSE
  /\ ender' = [ender EXCEPT ![round] = "started"]
  /\ UNCHANGED <<started, round, keys, inflight, completed, taken, uploadVars, disk, written, failed,
                 expired, events, faults>>

\* The room is dropped or disbanded in the middle of a round: no hook is called.
RoomDropped ==
  /\ playing /\ playing' = FALSE
  /\ UNCHANGED <<started, round, keys, inflight, completed, ender, taken, uploadVars, disk, written, failed,
                 expired, events, faults>>

TakeAll == {inflight[p] : p \in keys \cap DOMAIN inflight}

\* EndRoom, first critical section.
EndRoomTake(r) ==
  /\ ender[r] = "started"
  /\ ender' = [ender EXCEPT ![r] = "taken"] /\ taken' = [taken EXCEPT ![r] = TakeAll]
  /\ keys' = {} /\ inflight' = [p \in DOMAIN inflight \ keys |-> inflight[p]]
  /\ UNCHANGED <<started, round, playing, completed, uploadVars, disk, written, failed, expired, events, faults>>

\* EndRoom writes the files, then remembers the ones it could write.
EndRoomWrite(r, bad) ==
  /\ ender[r] = "taken" /\ bad \subseteq taken[r]
  /\ bad # {} => faults < MaxFaults
  /\ faults' = faults + (IF bad = {} THEN 0 ELSE 1)
  /\ LET good == taken[r] \ bad
     IN /\ disk' = {it \in disk : it.id \notin Ids(good)} \cup good
        /\ written' = written \cup Ids(good) /\ failed' = failed \cup Ids(bad)
        /\ completed' = IF good = {} THEN completed ELSE Ids(good)
  /\ ender' = [ender EXCEPT ![r] = "written"] /\ taken' = [taken EXCEPT ![r] = {}]
  /\ UNCHANGED <<started, round, playing, keys, inflight, uploadVars, expired, events>>

\* ListRoomFiles: what is being recorded now, else what was completed.
ListRoomFiles == IF keys # {} THEN Ids(TakeAll) ELSE completed

\* The goroutine publishes an event for each file it is told of.
PublishReplays(r) ==
  /\ ender[r] = "written"
  /\ ender' = [ender EXCEPT ![r] = "over"]
  /\ \E s \in SetToSeqs(ListRoomFiles) : events' = events \o s
  /\ UNCHANGED <<started, round, playing, keys, inflight, completed, taken, uploadVars, disk, written,
                 failed, expired, faults>>

\* CleanupExpired, or handleReplayDelete for the player.
DeleteReplay(it) ==
  /\ it \in disk /\ disk' = disk \ {it} /\ expired' = expired \cup {it.id}
  /\ UNCHANGED <<recorderVars, uploadVars, written, failed, events, faults>>

-----------------------------------------------------------------------------
(* The agent                                                               *)

OnDisk(id) == id \in Ids(disk)

\* Schedule, then the cursor.  save: STATE_PATH could be written (the job stays
\* in memory otherwise); move: the cursor file could be written.
ProcessUpload(save, move) ==
  /\ cursor < Len(events)
  /\ LET id == events[cursor + 1]
         known == id \in mem.jobs \cup mem.results
     IN /\ known => save
        /\ mem' = IF known THEN mem ELSE [mem EXCEPT !.jobs = @ \cup {id}]
        /\ saved' = IF known \/ ~save THEN saved ELSE mem'
        /\ cursor' = IF save /\ move THEN cursor + 1 ELSE cursor
  /\ IF save /\ move THEN UNCHANGED faults ELSE Fault
  /\ UNCHANGED <<recorderVars, job, copies, disk, written, failed, expired, events>>

UploadAgain_Queued(id) ==
  /\ job = NoJob /\ id \in mem.results \cup mem.jobs
  /\ disk' = {it \in disk : it.id # id}
  /\ UNCHANGED <<recorderVars, uploadVars, written, failed, expired, events, faults>>

\* Upload for a known result: the file goes.
UploadAgain(id) ==
  /\ job = NoJob /\ id \in mem.results
  /\ disk' = {it \in disk : it.id # id}
  /\ UNCHANGED <<recorderVars, uploadVars, written, failed, expired, events, faults>>

\* Upload from runDue (a job) or from a query (any replay): the attempt is saved,
\* the header and the file read.  uploadMu admits one at a time.
Upload(id) ==
  /\ job = NoJob /\ id \notin mem.results /\ OnDisk(id)
  /\ saved' = mem
  /\ job' = [id |-> id, stage |-> "send"]
  /\ UNCHANGED <<recorderVars, cursor, mem, copies, disk, written, failed, expired, events, faults>>

\* The share station takes the file and says so.
UploadAccepted ==
  /\ job.stage = "send"
  /\ copies' = [copies EXCEPT ![job.id] = @ + 1]
  /\ job' = [job EXCEPT !.stage = "save"]
  /\ UNCHANGED <<recorderVars, cursor, mem, saved, disk, written, failed, expired, events, faults>>

UploadFailed_Drops(received) ==
  /\ job.stage = "send" /\ Fault
  /\ copies' = IF received THEN [copies EXCEPT ![job.id] = @ + 1] ELSE copies
  /\ mem' = [mem EXCEPT !.jobs = @ \ {job.id}] /\ saved' = mem'
  /\ job' = NoJob
  /\ UNCHANGED <<recorderVars, cursor, disk, written, failed, expired, events>>

\* It refuses, or its answer is lost.  runDue reschedules the job and saves,
\* whether or not that can be written; a query does not.
UploadFailed(received) ==
  /\ job.stage = "send" /\ Fault
  /\ copies' = IF received THEN [copies EXCEPT ![job.id] = @ + 1] ELSE copies
  /\ saved' \in {saved} \cup (IF job.id \in mem.jobs THEN {mem} ELSE {})
  /\ job' = NoJob
  /\ UNCHANGED <<recorderVars, cursor, mem, disk, written, failed, expired, events>>

\* The result is kept in memory although it could not be saved.
UploadSave(ok) ==
  /\ job.stage = "save"
  /\ mem' = [jobs |-> mem.jobs \ {job.id}, results |-> mem.results \cup {job.id}]
  /\ IF ok THEN saved' = mem' /\ job' = [job EXCEPT !.stage = "remove"] /\ UNCHANGED faults
     ELSE saved' = saved /\ job' = NoJob /\ Fault
  /\ UNCHANGED <<recorderVars, cursor, copies, disk, written, failed, expired, events>>

\* Deleting the file may fail; the result stays.
RemoveUploaded(ok) ==
  /\ job.stage = "remove"
  /\ disk' = IF ok THEN {it \in disk : it.id # job.id} ELSE disk
  /\ job' = NoJob
  /\ UNCHANGED <<recorderVars, cursor, mem, saved, copies, written, failed, expired, events, faults>>

\* The agent stops and starts again from its files.
AgentCrash ==
  /\ Fault /\ mem' = saved /\ job' = NoJob
  /\ UNCHANGED <<recorderVars, cursor, saved, copies, disk, written, failed, expired, events>>

-----------------------------------------------------------------------------
EndRound(r) ==
  \/ EndRoomTake(r) \/ PublishReplays(r)
  \/ \E bad \in SUBSET taken[r] : EndRoomWrite(r, bad)
UploadStep == UploadAccepted \/ \E ok \in BOOLEAN : UploadSave(ok) \/ RemoveUploaded(ok)

ReplayNext ==
  \/ \E users \in SUBSET Players \ {{}}, eligible \in BOOLEAN : EnterPlaying(users, eligible)
  \/ \E p \in Players : AppendFrames(p)
  \/ GameEnd \/ RoomDropped
  \/ \E r \in Rounds : EndRound(r)
  \/ \E it \in disk : DeleteReplay(it)
  \/ \E save, move \in BOOLEAN : ProcessUpload(save, move)
  \/ \E id \in Id : Upload(id) \/ UploadAgain(id)
  \/ UploadStep \/ AgentCrash
  \/ \E received \in BOOLEAN : UploadFailed(received)

\* Goroutines go on; the agent's loop ticks every second and retries a due job.
ReplayFairness ==
  /\ \A r \in Rounds : WF_rpVars(EndRound(r))
  /\ WF_rpVars(UploadStep)
  /\ \A id \in Id : SF_rpVars(id \in mem.jobs /\ Upload(id))

ReplaySpec == ReplayInit /\ [][ReplayNext]_rpVars /\ ReplayFairness
-----------------------------------------------------------------------------
(* Properties                                                              *)

\* A recording that was begun is open, in the hands of a goroutine, or was
\* written, however rounds, room ids and late goroutines overlap; only a failed
\* write loses one (StartRoom, EndRoom).
RecordingNotLost ==
  started \subseteq Ids(OpenRecs) \cup written \cup failed \cup UNION {Ids(taken[r]) : r \in Rounds}

\* A recording holds frames of another round only if that round has none of its
\* own: while an earlier one is still open StartRoom skips the round altogether, and
\* never opens a recording beside the one the frames go to (StartRoom, AppendTouches).
\* It does not say that a recording gets all its frames: the goroutine of a round
\* that was not recorded closes the next one's, which misses those that follow.
FramesFindTheirRecording ==
  \A it \in disk \cup OpenRecs : \A n \in DOMAIN it.frames :
    it.frames[n] # it.id[1] => <<it.frames[n], it.id[2]>> \notin started

Gone(id) == id \in written /\ ~OnDisk(id) /\ id \notin expired

\* The agent deletes a replay only when the share station has it, through crashes,
\* lost answers and failed writes of its state (Store.Upload).
RemovedIsUploaded == \A id \in Id : Gone(id) => copies[id] >= 1

\* A job in the state file whose replay exists is uploaded, through failures and
\* restarts (runDue, reschedule).
ScheduledIsUploaded ==
  \A id \in Id : (id \in saved.jobs /\ OnDisk(id)) ~> (copies[id] >= 1 \/ ~OnDisk(id))
=============================================================================
