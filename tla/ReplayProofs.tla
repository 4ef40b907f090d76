---------------------------- MODULE ReplayProofs ----------------------------
(***************************************************************************)
(* The safety of recording and uploading, for any players, rounds, frames  *)
(* and faults.  Of the recorder the proofs need that a player has an open  *)
(* recording exactly while the room id has keys, and that the recording    *)
(* is the one of the current round if the current round started one; of    *)
(* the upload store, that a result is only known of a replay that the      *)
(* share station has received.                                             *)
(***************************************************************************)
EXTENDS Replay, TLAPS

\* Recordings of the rounds up to n.
RecUpTo(n) == [id : (1 .. n) \X Players, frames : Seq(1 .. n)]

TakenRecs == UNION {taken[r] : r \in Rounds}
AllRecs == disk \cup OpenRecs \cup TakenRecs

\* Recorder.inflight and Recorder.keysByRoom hold the same players.
OpenIsKeyed ==
  /\ keys \subseteq Players /\ DOMAIN inflight = keys
  /\ \A p \in keys : inflight[p] \in RecUpTo(round) /\ inflight[p].id[2] = p

\* Frames of another round are in a recording only if theirs has none.
Clean(it) ==
  \A n \in 1 .. Len(it.frames) :
    it.frames[n] # it.id[1] => <<it.frames[n], it.id[2]>> \notin started

RecInv ==
  /\ round \in Nat /\ started \subseteq (1 .. round) \X Players
  /\ taken \in [Rounds -> SUBSET RecUpTo(round)] /\ disk \subseteq RecUpTo(round)
  /\ OpenIsKeyed
  /\ \A p \in keys : <<round, p>> \in started => inflight[p].id = <<round, p>>
  /\ \A it \in AllRecs : Clean(it)
  /\ RecordingNotLost

\* A round ends once: what a goroutine holds, it took itself.
EndInv ==
  /\ DOMAIN ender = Rounds /\ DOMAIN taken = Rounds /\ round \in 0 .. MaxRounds
  /\ \A r \in Rounds : r > round => ender[r] = "none"
  /\ playing => round \in Rounds /\ ender[round] = "none"
  /\ \A r \in Rounds : ender[r] # "taken" => taken[r] = {}

\* A result, and an upload that was accepted, is of a replay that arrived.
UpInv ==
  /\ copies \in [Id -> Nat]
  /\ mem = [jobs |-> mem.jobs, results |-> mem.results]
  /\ saved = [jobs |-> saved.jobs, results |-> saved.results]
  /\ \A id \in mem.results \cup saved.results : id \in Id /\ copies[id] >= 1
  /\ \/ job = NoJob
     \/ /\ job \in [id : Id, stage : {"send", "save", "remove"}]
        /\ job.stage \in {"save", "remove"} => copies[job.id] >= 1
  /\ RemovedIsUploaded
-----------------------------------------------------------------------------
(* The recorder *)

\* What Append does.
LEMMA Appended ==
  ASSUME NEW S, NEW s \in Seq(S), NEW x \in S
  PROVE  /\ Len(Append(s, x)) = Len(s) + 1 /\ Len(s) \in Nat /\ Append(s, x)[Len(s) + 1] = x
         /\ \A i \in 1 .. Len(s) : Append(s, x)[i] = s[i]
OBVIOUS


\* Where a recording is that was begun.
Kept(id) ==
  \/ \E p \in keys : inflight[p].id = id
  \/ id \in written \cup failed
  \/ \E r \in Rounds : \E it \in taken[r] : it.id = id

\* RecordingNotLost, recording by recording.
LEMMA KeptMeans ==
  ASSUME DOMAIN inflight = keys
  PROVE  RecordingNotLost <=> \A id \in started : Kept(id)
<1>1. ASSUME NEW id PROVE id \in Ids(OpenRecs) <=> \E p \in keys : inflight[p].id = id
  BY DEF Ids, OpenRecs
<1>2. ASSUME NEW id
      PROVE  id \in UNION {Ids(taken[r]) : r \in Rounds}
               <=> \E r \in Rounds : \E it \in taken[r] : it.id = id
  BY DEF Ids
<1>3. ASSUME NEW id
      PROVE  Kept(id) <=> id \in Ids(OpenRecs) \cup written \cup failed
                                    \cup UNION {Ids(taken[r]) : r \in Rounds}
  BY <1>1, <1>2, Zenon DEF Kept
<1> QED
  BY <1>3, Zenon DEF RecordingNotLost

\* The same after a step.
LEMMA KeptMeansAfter ==
  ASSUME DOMAIN inflight' = keys'
  PROVE  RecordingNotLost' <=> \A id \in started' : Kept(id)'
<1>1. ASSUME NEW id PROVE id \in Ids(OpenRecs)' <=> \E p \in keys' : inflight'[p].id = id
  BY DEF Ids, OpenRecs
<1>2. ASSUME NEW id
      PROVE  id \in UNION {Ids(taken[r])' : r \in Rounds}
               <=> \E r \in Rounds : \E it \in taken'[r] : it.id = id
  BY DEF Ids
<1>3. ASSUME NEW id
      PROVE  Kept(id)' <=> id \in Ids(OpenRecs)' \cup written' \cup failed'
                                    \cup UNION {Ids(taken[r])' : r \in Rounds}
  BY <1>1, <1>2, Zenon DEF Kept
<1> QED
  BY <1>3, Zenon DEF RecordingNotLost

\* The recordings there are, one by one.
LEMMA AllRecsMeans ==
  ASSUME DOMAIN inflight = keys, NEW it
  PROVE  it \in AllRecs <=> \/ it \in disk
                            \/ \E p \in keys : it = inflight[p]
                            \/ \E r \in Rounds : it \in taken[r]
BY Zenon DEF AllRecs, OpenRecs, TakenRecs

\* An element of a sequence.
LEMMA ElementIs ==
  ASSUME NEW S, NEW s \in Seq(S), NEW n \in 1 .. Len(s)
  PROVE  s[n] \in S
OBVIOUS

\* The rounds that passed stay among the rounds.
LEMMA RecUpToGrows ==
  ASSUME NEW m \in Nat, NEW n \in Nat, m <= n
  PROVE  RecUpTo(m) \subseteq RecUpTo(n)
<1>1. 1 .. m \subseteq 1 .. n
  OBVIOUS
<1>2. Seq(1 .. m) \subseteq Seq(1 .. n)
  BY <1>1
<1> QED
  BY <1>1, <1>2 DEF RecUpTo

\* Steps that leave the recorder alone, and remove files at most.
LEMMA RecFrame ==
  ASSUME RecInv, UNCHANGED <<round, keys, inflight, taken, started>>, disk' \subseteq disk,
         written \subseteq written', failed \subseteq failed'
  PROVE  RecInv'
<1>1. OpenIsKeyed'
  BY DEF RecInv, OpenIsKeyed
<1>2. ASSUME NEW it \in AllRecs' PROVE Clean(it)'
  <2>1. it \in AllRecs
    BY <1>2 DEF AllRecs, OpenRecs, TakenRecs
  <2> QED
    BY <2>1 DEF RecInv, Clean
<1>3. RecordingNotLost'
  <2>1. \A id \in started : Kept(id)
    BY KeptMeans DEF RecInv, OpenIsKeyed
  <2>2. \A id \in started' : Kept(id)'
    BY <2>1 DEF Kept
  <2>3. DOMAIN inflight' = keys'
    BY <1>1 DEF OpenIsKeyed
  <2> QED
    BY <2>2, <2>3, KeptMeansAfter
<1> QED
  BY <1>1, <1>2, <1>3 DEF RecInv

\* A round starts, recorded or not.
LEMMA EnterKeeps ==
  ASSUME RecInv, NEW users \in SUBSET Players, NEW eligible, EnterPlaying(users, eligible)
  PROVE  RecInv'
<1>0. /\ round \in Nat /\ round' = round + 1 /\ started \subseteq (1 .. round) \X Players
      /\ OpenIsKeyed /\ UNCHANGED <<taken, disk, written, failed>>
      /\ \A id \in started : Kept(id)
  BY KeptMeans DEF RecInv, OpenIsKeyed, EnterPlaying
<1>1. RecUpTo(round) \subseteq RecUpTo(round + 1)
  BY <1>0, RecUpToGrows
<1>2. 1 .. round \subseteq 1 .. round' /\ round + 1 \in 1 .. round' /\ round + 1 \notin 1 .. round
  BY <1>0
<1>3. taken' \in [Rounds -> SUBSET RecUpTo(round')] /\ disk' \subseteq RecUpTo(round')
  BY <1>0, <1>1 DEF RecInv
<1>4. \A it \in AllRecs : it \in RecUpTo(round)
  <2> SUFFICES ASSUME NEW it \in AllRecs PROVE it \in RecUpTo(round)
    OBVIOUS
  <2>1. \/ it \in disk \/ (\E p \in keys : it = inflight[p]) \/ (\E r \in Rounds : it \in taken[r])
    BY AllRecsMeans DEF RecInv, OpenIsKeyed
  <2> QED
    BY <2>1 DEF RecInv, OpenIsKeyed
<1>5. CASE UNCHANGED <<keys, inflight, started>>
  <2>1. OpenIsKeyed'
    BY <1>0, <1>1, <1>5 DEF OpenIsKeyed
  <2>2. started' \subseteq (1 .. round') \X Players
    BY <1>0, <1>2, <1>5
  <2>3. \A p \in keys' : <<round', p>> \in started' => inflight'[p].id = <<round', p>>
    BY <1>0, <1>2, <1>5
  <2>4. \A it \in AllRecs' : Clean(it)'
    BY <1>0, <1>5 DEF RecInv, AllRecs, OpenRecs, TakenRecs, Clean
  <2>5. RecordingNotLost'
    <3>1. \A id \in started' : Kept(id)'
      BY <1>0, <1>5 DEF Kept
    <3> QED
      BY <2>1, <3>1, KeptMeansAfter DEF OpenIsKeyed
  <2> QED
    BY <1>0, <1>3, <2>1, <2>2, <2>3, <2>4, <2>5 DEF RecInv
<1>6. CASE /\ keys = {} /\ keys' = users
           /\ inflight' = [p \in users |-> [id |-> <<round + 1, p>>, frames |-> <<>>]]
           /\ started' = started \cup {<<round + 1, p>> : p \in users}
  <2>1. ASSUME NEW p \in users
        PROVE  /\ inflight'[p].id = <<round', p>> /\ inflight'[p].id[2] = p /\ inflight'[p].frames = <<>>
               /\ inflight'[p] \in RecUpTo(round')
    <3>1. inflight'[p] = [id |-> <<round', p>>, frames |-> <<>>]
      BY <1>0, <1>6
    <3>2. <<round', p>> \in (1 .. round') \X Players /\ <<>> \in Seq(1 .. round')
      BY <1>0, <1>2
    <3> QED
      BY <3>1, <3>2 DEF RecUpTo
  <2>2. OpenIsKeyed'
    BY <1>6, <2>1 DEF OpenIsKeyed
  <2>3. started' \subseteq (1 .. round') \X Players
    BY <1>0, <1>2, <1>6
  <2>4. \A p \in keys' : <<round', p>> \in started' => inflight'[p].id = <<round', p>>
    BY <1>6, <2>1
  <2>5. ASSUME NEW it \in AllRecs' PROVE Clean(it)'
    <3>1. it \in AllRecs \/ \E p \in users : it = inflight'[p]
      BY <1>0, <1>6, <2>2 DEF AllRecs, OpenRecs, TakenRecs, OpenIsKeyed
    <3>2. CASE it \in AllRecs
      <4>1. it \in RecUpTo(round) /\ Clean(it)
        BY <1>4, <3>2 DEF RecInv
      <4>2. it.frames \in Seq(1 .. round)
        BY <4>1 DEF RecUpTo
      <4>3. ASSUME NEW n \in 1 .. Len(it.frames), it.frames[n] # it.id[1]
            PROVE  <<it.frames[n], it.id[2]>> \notin started'
        <5>1. it.frames[n] \in 1 .. round
          BY <4>2, ElementIs
        <5>2. <<it.frames[n], it.id[2]>> \notin started
          BY <4>1, <4>3 DEF Clean
        <5>3. it.frames[n] # round + 1
          BY <1>2, <5>1
        <5> QED
          BY <1>6, <5>2, <5>3
      <4> QED
        BY <4>3 DEF Clean
    <3>3. CASE \E p \in users : it = inflight'[p]
      <4>1. it.frames = <<>>
        BY <2>1, <3>3
      <4> QED
        BY <4>1 DEF Clean
    <3> QED
      BY <3>1, <3>2, <3>3
  <2>6. RecordingNotLost'
    <3>1. ASSUME NEW id \in started' PROVE Kept(id)'
      <4>1. CASE id \in started
        <5>1. Kept(id)
          BY <1>0, <4>1
        <5> QED
          BY <1>0, <1>6, <5>1 DEF Kept
      <4>2. CASE \E p \in users : id = <<round + 1, p>>
        BY <1>0, <1>6, <2>1, <4>2 DEF Kept
      <4> QED
        BY <1>6, <4>1, <4>2
    <3> QED
      BY <2>2, <3>1, KeptMeansAfter DEF OpenIsKeyed
  <2> QED
    BY <1>0, <1>3, <2>2, <2>3, <2>4, <2>5, <2>6 DEF RecInv
<1> QED
  BY <1>5, <1>6 DEF EnterPlaying, StartRoom

\* Frames arrive while somebody plays.
LEMMA AppendKeeps ==
  ASSUME RecInv, NEW p \in Players, AppendFrames(p)
  PROVE  RecInv'
<1> DEFINE old == inflight[p]
           new == [old EXCEPT !.frames = Append(@, round)]
<1>0. /\ round \in Nat /\ p \in keys /\ OpenIsKeyed /\ DOMAIN inflight = keys
      /\ UNCHANGED <<round, keys, taken, disk, started, written, failed>>
      /\ inflight' = [inflight EXCEPT ![p].frames = Append(@, round)]
      /\ \A id \in started : Kept(id)
  BY KeptMeans DEF RecInv, OpenIsKeyed, AppendFrames
<1>1. old \in RecUpTo(round) /\ old.id[2] = p
  BY <1>0 DEF OpenIsKeyed
<1>2. round \in 1 .. round
  <2>1. old.id \in (1 .. round) \X Players
    BY <1>1 DEF RecUpTo
  <2>2. old.id[1] \in 1 .. round
    BY <2>1
  <2> QED
    BY <1>0, <2>2
<1>3. /\ new \in RecUpTo(round) /\ new.id = old.id /\ new.frames = Append(old.frames, round)
      /\ old.frames \in Seq(1 .. round)
  <2>1. old = [id |-> old.id, frames |-> old.frames] /\ old.id \in (1 .. round) \X Players
        /\ old.frames \in Seq(1 .. round)
    BY <1>1 DEF RecUpTo
  <2>2. Append(old.frames, round) \in Seq(1 .. round)
    BY <1>2, <2>1
  <2>3. new = [id |-> old.id, frames |-> Append(old.frames, round)]
    <3>1. ASSUME NEW i, NEW f, NEW it, it = [id |-> i, frames |-> f]
          PROVE  [it EXCEPT !.frames = Append(@, round)] = [id |-> i, frames |-> Append(f, round)]
      BY <3>1
    <3> HIDE DEF old
    <3> QED
      BY <2>1, <3>1
  <2> HIDE DEF old, new
  <2> QED
    BY <2>1, <2>2, <2>3 DEF RecUpTo
<1>4. DOMAIN inflight' = keys /\ inflight'[p] = new /\ \A q \in keys \ {p} : inflight'[q] = inflight[q]
  BY <1>0
<1>5. \A q \in keys : inflight'[q].id = inflight[q].id /\ inflight'[q] \in RecUpTo(round)
  BY <1>0, <1>3, <1>4 DEF OpenIsKeyed
<1>6. OpenIsKeyed'
  BY <1>0, <1>4, <1>5 DEF OpenIsKeyed
<1>7. \A q \in keys' : <<round', q>> \in started' => inflight'[q].id = <<round', q>>
  BY <1>0, <1>5 DEF RecInv
<1>8. ASSUME NEW it \in AllRecs' PROVE Clean(it)'
  <2>1. it \in AllRecs \/ it = new
    <3>1. it \in disk \/ (\E q \in keys : it = inflight'[q]) \/ (\E r \in Rounds : it \in taken[r])
      BY <1>0, <1>4 DEF AllRecs, OpenRecs, TakenRecs
    <3> QED
      BY <1>0, <1>4, <3>1, AllRecsMeans
  <2>2. CASE it \in AllRecs
    BY <1>0, <2>2 DEF RecInv, Clean
  <2>3. CASE it = new
    <3>1. Clean(old)
      BY <1>0, AllRecsMeans DEF RecInv
    <3>2. old.id[1] # round => <<round, old.id[2]>> \notin started
      BY <1>0, <1>1 DEF RecInv
    <3> HIDE DEF old, new
    <3>3. ASSUME NEW n \in 1 .. Len(it.frames), it.frames[n] # it.id[1]
          PROVE  <<it.frames[n], it.id[2]>> \notin started
      <4>1. /\ it.id = old.id /\ Len(it.frames) = Len(old.frames) + 1 /\ Len(old.frames) \in Nat
            /\ it.frames[Len(old.frames) + 1] = round
            /\ \A i \in 1 .. Len(old.frames) : it.frames[i] = old.frames[i]
        <5>1. it.id = old.id /\ it.frames = Append(old.frames, round)
          BY <1>3, <2>3
        <5> QED
          BY <1>2, <1>3, <5>1, Appended
      <4>2. CASE n \in 1 .. Len(old.frames)
        BY <3>1, <3>3, <4>1, <4>2 DEF Clean
      <4>3. CASE n = Len(old.frames) + 1
        BY <3>2, <3>3, <4>1, <4>3
      <4> QED
        BY <4>1, <4>2, <4>3
    <3> QED
      BY <1>0, <3>3 DEF Clean
  <2> QED
    BY <2>1, <2>2, <2>3
<1>9. RecordingNotLost'
  <2>1. \A id \in started' : Kept(id)'
    BY <1>0, <1>5 DEF Kept
  <2> QED
    BY <1>0, <1>4, <2>1, KeptMeansAfter
<1> QED
  BY <1>0, <1>6, <1>7, <1>8, <1>9 DEF RecInv

\* EndRoom takes what is open, of whatever round it is.
LEMMA TakeKeeps ==
  ASSUME RecInv, EndInv, NEW r \in Rounds, EndRoomTake(r)
  PROVE  RecInv'
<1>0. /\ OpenIsKeyed /\ DOMAIN inflight = keys /\ taken \in [Rounds -> SUBSET RecUpTo(round)]
      /\ UNCHANGED <<round, disk, started, written, failed>>
      /\ keys' = {} /\ inflight' = [p \in DOMAIN inflight \ keys |-> inflight[p]]
      /\ taken' = [taken EXCEPT ![r] = TakeAll] /\ ender[r] = "started"
      /\ \A id \in started : Kept(id)
  BY KeptMeans DEF RecInv, OpenIsKeyed, EndRoomTake
<1>1. taken[r] = {}
  BY <1>0 DEF EndInv
<1>2. \A it : it \in TakeAll <=> \E p \in keys : it = inflight[p]
  BY <1>0 DEF TakeAll
<1>3. TakeAll \subseteq RecUpTo(round)
  BY <1>0, <1>2 DEF OpenIsKeyed
<1>4. /\ taken' \in [Rounds -> SUBSET RecUpTo(round)] /\ taken'[r] = TakeAll
      /\ \A s \in Rounds \ {r} : taken'[s] = taken[s]
  <2> HIDE DEF TakeAll
  <2> QED
    BY <1>0, <1>3
<1>5. DOMAIN inflight' = {}
  BY <1>0
<1>6. OpenIsKeyed'
  BY <1>0, <1>5 DEF OpenIsKeyed
<1>7. ASSUME NEW it \in AllRecs' PROVE Clean(it)'
  <2>1. it \in disk \/ (\E s \in Rounds : it \in taken'[s])
    BY <1>0, <1>5 DEF AllRecs, OpenRecs, TakenRecs
  <2>2. it \in AllRecs
    BY <1>0, <1>2, <1>4, <2>1, AllRecsMeans
  <2> QED
    BY <1>0, <2>2 DEF RecInv, Clean
<1>8. RecordingNotLost'
  <2>1. ASSUME NEW id \in started' PROVE Kept(id)'
    <3>1. Kept(id)
      BY <1>0, <2>1
    <3>2. CASE \E p \in keys : inflight[p].id = id
      <4>1. \E it \in taken'[r] : it.id = id
        BY <1>2, <1>4, <3>2
      <4> QED
        BY <4>1 DEF Kept
    <3>3. CASE id \in written \cup failed
      BY <1>0, <3>3 DEF Kept
    <3>4. CASE \E s \in Rounds : \E it \in taken[s] : it.id = id
      <4>1. \E s \in Rounds : \E it \in taken'[s] : it.id = id
        BY <1>1, <1>4, <3>4
      <4> QED
        BY <4>1 DEF Kept
    <3> QED
      BY <3>1, <3>2, <3>3, <3>4 DEF Kept
  <2> QED
    BY <1>0, <1>5, <2>1, KeptMeansAfter
<1> QED
  BY <1>0, <1>4, <1>6, <1>7, <1>8 DEF RecInv

\* EndRoom writes what it took; a recording it cannot write has failed.
LEMMA WriteKeeps ==
  ASSUME RecInv, NEW r \in Rounds, NEW bad, EndRoomWrite(r, bad)
  PROVE  RecInv'
<1> DEFINE good == taken[r] \ bad
<1>0. /\ OpenIsKeyed /\ DOMAIN inflight = keys /\ taken \in [Rounds -> SUBSET RecUpTo(round)]
      /\ disk \subseteq RecUpTo(round)
      /\ UNCHANGED <<round, keys, inflight, started>> /\ bad \subseteq taken[r]
      /\ disk' = {it \in disk : it.id \notin Ids(good)} \cup good
      /\ written' = written \cup Ids(good) /\ failed' = failed \cup Ids(bad)
      /\ taken' = [taken EXCEPT ![r] = {}]
      /\ \A id \in started : Kept(id)
  BY KeptMeans DEF RecInv, OpenIsKeyed, EndRoomWrite
<1>1. good \subseteq RecUpTo(round) /\ good \subseteq taken[r]
  BY <1>0
<1>2. disk' \subseteq RecUpTo(round)
  <2> HIDE DEF good
  <2> QED
    BY <1>0, <1>1
<1>3. /\ taken' \in [Rounds -> SUBSET RecUpTo(round)] /\ taken'[r] = {}
      /\ \A s \in Rounds \ {r} : taken'[s] = taken[s]
  BY <1>0
<1>4. OpenIsKeyed'
  BY <1>0 DEF OpenIsKeyed
<1>5. ASSUME NEW it \in AllRecs' PROVE Clean(it)'
  <2>1. it \in disk' \/ (\E p \in keys : it = inflight[p]) \/ (\E s \in Rounds : it \in taken'[s])
    BY <1>0 DEF AllRecs, OpenRecs, TakenRecs
  <2>2. it \in disk' => it \in disk \/ it \in taken[r]
    BY <1>0
  <2>3. it \in AllRecs
    BY <1>0, <1>3, <2>1, <2>2, AllRecsMeans
  <2> QED
    BY <1>0, <2>3 DEF RecInv, Clean
<1>6. RecordingNotLost'
  <2>1. ASSUME NEW id \in started' PROVE Kept(id)'
    <3>1. Kept(id)
      BY <1>0, <2>1
    <3>2. CASE \E p \in keys : inflight[p].id = id
      BY <1>0, <3>2 DEF Kept
    <3>3. CASE id \in written \cup failed
      BY <1>0, <3>3 DEF Kept
    <3>4. CASE \E it \in taken[r] : it.id = id
      <4>1. id \in Ids(good) \cup Ids(bad)
        BY <3>4 DEF Ids
      <4> QED
        BY <1>0, <4>1 DEF Kept
    <3>5. CASE \E s \in Rounds \ {r} : \E it \in taken[s] : it.id = id
      <4>1. \E s \in Rounds : \E it \in taken'[s] : it.id = id
        BY <1>3, <3>5
      <4> QED
        BY <4>1 DEF Kept
    <3> QED
      BY <3>1, <3>2, <3>3, <3>4, <3>5 DEF Kept
  <2> QED
    BY <1>0, <2>1, KeptMeansAfter
<1> QED
  BY <1>0, <1>2, <1>3, <1>4, <1>5, <1>6 DEF RecInv

\* The steps of the recorder and of the agent that do not touch a recording.
LEMMA OthersKeep ==
  ASSUME RecInv,
         \/ GameEnd \/ RoomDropped \/ UploadStep \/ AgentCrash
         \/ \E r \in Rounds : PublishReplays(r)
         \/ \E it \in disk : DeleteReplay(it)
         \/ \E save, move \in BOOLEAN : ProcessUpload(save, move)
         \/ \E id \in Id : Upload(id) \/ UploadAgain(id)
         \/ \E received \in BOOLEAN : UploadFailed(received)
  PROVE  RecInv'
<1>1. /\ UNCHANGED <<round, keys, inflight, taken, started>>
      /\ written' = written /\ failed' = failed
  BY Zenon DEF GameEnd, RoomDropped, UploadStep, UploadAccepted, UploadSave, RemoveUploaded,
    AgentCrash, PublishReplays, DeleteReplay, ProcessUpload, Upload, UploadAgain, UploadFailed,
    recorderVars
<1>2. disk' \subseteq disk
  BY DEF GameEnd, RoomDropped, UploadStep, UploadAccepted, UploadSave, RemoveUploaded,
    AgentCrash, PublishReplays, DeleteReplay, ProcessUpload, Upload, UploadAgain, UploadFailed,
    recorderVars
<1> QED
  BY <1>1, <1>2, RecFrame

\* A goroutine takes part in one round only.
LEMMA EndStep ==
  ASSUME EndInv, [ReplayNext]_rpVars
  PROVE  EndInv'
<1> USE DEF EndInv
<1>1. CASE UNCHANGED <<round, playing, ender, taken>>
  BY <1>1
<1>2. ASSUME NEW users, NEW eligible, EnterPlaying(users, eligible) PROVE EndInv'
  <2>1. /\ round < MaxRounds /\ round' = round + 1 /\ round \in Nat /\ MaxRounds \in Nat
        /\ ender' = ender /\ taken' = taken
    BY <1>2, ReplayAssumption DEF EnterPlaying
  <2>2. round' \in Rounds /\ round' > round /\ \A r \in Rounds : r > round' => r > round
    BY <2>1 DEF Rounds
  <2> QED
    BY <2>1, <2>2
<1>3. CASE GameEnd
  BY <1>3 DEF GameEnd, Rounds
<1>4. CASE RoomDropped
  BY <1>4 DEF RoomDropped
<1>5. ASSUME NEW r \in Rounds, EndRoomTake(r) PROVE EndInv'
  BY <1>5 DEF EndRoomTake
<1>6. ASSUME NEW r \in Rounds, PublishReplays(r) PROVE EndInv'
  BY <1>6 DEF PublishReplays
<1>7. ASSUME NEW r \in Rounds, NEW bad, EndRoomWrite(r, bad) PROVE EndInv'
  BY <1>7 DEF EndRoomWrite
<1> QED
  BY <1>1, <1>2, <1>3, <1>4, <1>5, <1>6, <1>7, Zenon DEF ReplayNext, EndRound, rpVars, recorderVars,
    AppendFrames, UploadStep, UploadAccepted, UploadSave, RemoveUploaded, AgentCrash,
    DeleteReplay, ProcessUpload, Upload, UploadAgain, UploadFailed

\* Every step keeps the recordings.
LEMMA RecStep ==
  ASSUME RecInv, EndInv, [ReplayNext]_rpVars
  PROVE  RecInv'
<1>1. CASE UNCHANGED rpVars
  <2>1. UNCHANGED <<round, keys, inflight, taken, started>> /\ disk' = disk /\ written' = written
        /\ failed' = failed
    BY <1>1 DEF rpVars, recorderVars
  <2> QED
    BY <2>1, RecFrame
<1>2. ASSUME NEW r \in Rounds, EndRound(r) PROVE RecInv'
  <2>1. EndRoomTake(r) \/ PublishReplays(r) \/ \E bad \in SUBSET taken[r] : EndRoomWrite(r, bad)
    BY <1>2 DEF EndRound
  <2> QED
    BY <2>1, TakeKeeps, WriteKeeps, OthersKeep
<1>3. CASE \E users \in SUBSET Players \ {{}}, eligible \in BOOLEAN : EnterPlaying(users, eligible)
  BY <1>3, EnterKeeps
<1>4. CASE \E p \in Players : AppendFrames(p)
  BY <1>4, AppendKeeps
<1> QED
  BY <1>1, <1>2, <1>3, <1>4, OthersKeep, Zenon DEF ReplayNext
-----------------------------------------------------------------------------
(* The upload store *)

\* Arrived(id): the share station has received the replay.
Arrived(id) == id \in Id /\ copies[id] >= 1

\* What UpInv says of the agent's own state.
UpState ==
  /\ mem = [jobs |-> mem.jobs, results |-> mem.results]
  /\ saved = [jobs |-> saved.jobs, results |-> saved.results]
  /\ \A id \in mem.results : Arrived(id)
  /\ \A id \in saved.results : Arrived(id)
  /\ \/ job = NoJob
     \/ /\ job \in [id : Id, stage : {"send", "save", "remove"}]
        /\ job.stage \in {"save", "remove"} => Arrived(job.id)

\* The parts of UpInv.
LEMMA UpParts == UpInv <=> copies \in [Id -> Nat] /\ UpState /\ RemovedIsUploaded
<1>1. job \in [id : Id, stage : {"send", "save", "remove"}] => job.id \in Id
  OBVIOUS
<1> QED
  BY <1>1, Zenon DEF UpInv, UpState, Arrived

\* The parts of UpInv after a step.
LEMMA UpPartsAfter == copies' \in [Id -> Nat] /\ UpState' /\ RemovedIsUploaded' => UpInv'
<1>1. job' \in [id : Id, stage : {"send", "save", "remove"}] => job'.id \in Id
  OBVIOUS
<1> QED
  BY <1>1, Zenon DEF UpInv, UpState, Arrived

\* What arrived has arrived.
LEMMA StateFrame ==
  ASSUME UpState, UNCHANGED <<mem, saved, job>>, \A id : Arrived(id) => Arrived(id)'
  PROVE  UpState'
BY DEF UpState

\* No replay goes whose upload has not arrived.
LEMMA GoneFrame ==
  ASSUME RemovedIsUploaded, \A id : Arrived(id) => Arrived(id)',
         \A id \in Id : Gone(id)' => Gone(id) \/ Arrived(id)'
  PROVE  RemovedIsUploaded'
BY DEF RemovedIsUploaded, Arrived

\* A step that leaves the files and the uploads alone.
LEMMA FilesFrame ==
  ASSUME UpInv, UNCHANGED <<mem, saved, job, copies, disk, written, expired>>
  PROVE  UpInv'
BY DEF UpInv, RemovedIsUploaded, Gone, OnDisk, Ids

\* EndRoom leaves on disk what it wrote.
LEMMA WriteUploads ==
  ASSUME UpInv, NEW r, NEW bad, EndRoomWrite(r, bad)
  PROVE  UpInv'
<1> DEFINE good == taken[r] \ bad
<1>1. /\ UNCHANGED <<mem, saved, job, copies, expired>>
      /\ disk' = {it \in disk : it.id \notin Ids(good)} \cup good
      /\ written' = written \cup Ids(good)
  BY DEF EndRoomWrite, uploadVars
<1>2. \A id : Arrived(id) => Arrived(id)'
  BY <1>1 DEF Arrived
<1>3. \A id \in Ids(disk) \cup Ids(good) : id \in Ids(disk')
  <2> HIDE DEF good
  <2> QED
    BY <1>1 DEF Ids
<1>4. \A id \in Id : Gone(id)' => Gone(id)
  BY <1>1, <1>3 DEF Gone, OnDisk, Ids
<1>5. RemovedIsUploaded'
  BY <1>2, <1>4, UpParts, GoneFrame
<1>6. UpState'
  BY <1>1, <1>2, UpParts, StateFrame
<1> QED
  BY <1>1, <1>5, <1>6, UpParts, UpPartsAfter

\* A replay that expired, or that its player deleted, is not missing.
LEMMA DeleteUploads ==
  ASSUME UpInv, NEW it, DeleteReplay(it)
  PROVE  UpInv'
<1>1. /\ UNCHANGED <<mem, saved, job, copies, written>>
      /\ disk' = disk \ {it} /\ expired' = expired \cup {it.id}
  BY DEF DeleteReplay, uploadVars
<1>2. \A id : Arrived(id) => Arrived(id)'
  BY <1>1 DEF Arrived
<1>3. \A id \in Id : Gone(id)' => Gone(id)
  BY <1>1 DEF Gone, OnDisk, Ids
<1>4. RemovedIsUploaded'
  BY <1>2, <1>3, UpParts, GoneFrame
<1>5. UpState'
  BY <1>1, <1>2, UpParts, StateFrame
<1> QED
  BY <1>1, <1>4, <1>5, UpParts, UpPartsAfter

\* The agent deletes the file of a known result only.
LEMMA RemoveUploads ==
  ASSUME UpInv, NEW id, Arrived(id), disk' = {it \in disk : it.id # id},
         UNCHANGED <<mem, saved, copies, written, expired>>, job' = NoJob
  PROVE  UpInv'
<1>1. \A i : Arrived(i) => Arrived(i)'
  BY DEF Arrived
<1>2. \A i \in Id : Gone(i)' => Gone(i) \/ Arrived(i)'
  BY <1>1 DEF Gone, OnDisk, Ids
<1>3. RemovedIsUploaded'
  BY <1>1, <1>2, UpParts, GoneFrame
<1>4. UpState'
  BY <1>1, UpParts DEF UpState
<1> QED
  BY <1>3, <1>4, UpParts, UpPartsAfter

\* A step of the agent that deletes nothing.
LEMMA AgentFrame ==
  ASSUME UpInv, UNCHANGED <<disk, written, expired>>, copies' \in [Id -> Nat],
         \A id : Arrived(id) => Arrived(id)', UpState'
  PROVE  UpInv'
<1>1. \A id \in Id : Gone(id)' => Gone(id)
  BY DEF Gone, OnDisk, Ids
<1>2. RemovedIsUploaded'
  BY <1>1, UpParts, GoneFrame
<1> QED
  BY <1>2, UpPartsAfter

\* An upload under way is of a replay, and after its answer it has arrived.
LEMMA JobIs ==
  ASSUME UpState, job.stage \in {"send", "save", "remove"}
  PROVE  /\ job \in [id : Id, stage : {"send", "save", "remove"}]
         /\ job.stage \in {"save", "remove"} => Arrived(job.id)
<1>1. job # NoJob
  BY DEF NoJob
<1> QED
  BY <1>1 DEF UpState

\* The answers, the saves and the restarts of the agent.
LEMMA AgentUploads ==
  ASSUME UpInv,
         \/ \E save, move \in BOOLEAN : ProcessUpload(save, move)
         \/ \E id \in Id : Upload(id)
         \/ UploadAccepted \/ AgentCrash
         \/ \E ok \in BOOLEAN : UploadSave(ok)
         \/ \E received \in BOOLEAN : UploadFailed(received)
  PROVE  UpInv'
<1>0. UpState /\ copies \in [Id -> Nat]
  BY UpParts
<1>f. UNCHANGED <<disk, written, expired>>
  BY Zenon DEF ProcessUpload, Upload, UploadAccepted, AgentCrash, UploadSave, UploadFailed
<1>c. ASSUME copies' = copies
      PROVE  copies' \in [Id -> Nat] /\ \A id : Arrived(id) => Arrived(id)'
  BY <1>0, <1>c DEF Arrived
<1>a. ASSUME NEW i \in Id, copies' = [copies EXCEPT ![i] = @ + 1]
      PROVE  /\ copies' \in [Id -> Nat] /\ Arrived(i)'
             /\ \A id : Arrived(id) => Arrived(id)'
  BY <1>0, <1>a DEF Arrived
<1>1. ASSUME NEW save, NEW move, ProcessUpload(save, move) PROVE UpInv'
  <2> DEFINE id == events[cursor + 1]
  <2>1. /\ mem' = mem \/ mem' = [mem EXCEPT !.jobs = @ \cup {id}]
        /\ saved' = saved \/ saved' = mem'
        /\ job' = job /\ copies' = copies
    BY <1>1 DEF ProcessUpload
  <2>2. mem' = [jobs |-> mem'.jobs, results |-> mem.results]
    <3> HIDE DEF id
    <3> QED
      BY <1>0, <2>1 DEF UpState
  <2>3. UpState'
    BY <1>0, <1>c, <2>1, <2>2 DEF UpState
  <2> QED
    BY <1>f, <1>c, <2>1, <2>3, AgentFrame
<1>2. ASSUME NEW id \in Id, Upload(id) PROVE UpInv'
  <2>1. saved' = mem /\ mem' = mem /\ copies' = copies /\ job' = [id |-> id, stage |-> "send"]
    BY <1>2 DEF Upload
  <2>2. UpState'
    BY <1>0, <1>c, <2>1 DEF UpState
  <2> QED
    BY <1>f, <1>c, <2>1, <2>2, AgentFrame
<1>3. CASE UploadAccepted
  <2>1. /\ job \in [id : Id, stage : {"send", "save", "remove"}]
        /\ mem' = mem /\ saved' = saved
        /\ copies' = [copies EXCEPT ![job.id] = @ + 1] /\ job' = [job EXCEPT !.stage = "save"]
    BY <1>0, <1>3, JobIs DEF UploadAccepted
  <2>2. job.id \in Id /\ job' \in [id : Id, stage : {"send", "save", "remove"}] /\ job'.id = job.id
    BY <2>1
  <2>3. Arrived(job.id)' /\ copies' \in [Id -> Nat] /\ \A id : Arrived(id) => Arrived(id)'
    BY <1>a, <2>1, <2>2 DEF Arrived
  <2>4. UpState'
    BY <1>0, <2>1, <2>2, <2>3 DEF UpState
  <2> QED
    BY <1>f, <2>3, <2>4, AgentFrame
<1>4. CASE AgentCrash
  <2>1. saved' = saved /\ mem' = saved /\ copies' = copies /\ job' = NoJob
    BY <1>4 DEF AgentCrash
  <2>2. UpState'
    BY <1>0, <1>c, <2>1 DEF UpState
  <2> QED
    BY <1>f, <1>c, <2>1, <2>2, AgentFrame
<1>5. ASSUME NEW ok, UploadSave(ok) PROVE UpInv'
  <2>1. /\ job \in [id : Id, stage : {"send", "save", "remove"}] /\ Arrived(job.id)
        /\ mem' = [jobs |-> mem.jobs \ {job.id}, results |-> mem.results \cup {job.id}]
        /\ saved' = mem' \/ saved' = saved
        /\ job' = [job EXCEPT !.stage = "remove"] \/ job' = NoJob
        /\ copies' = copies
    BY <1>0, <1>5, JobIs DEF UploadSave
  <2>2. \A id \in mem'.results : Arrived(id)'
    BY <1>0, <1>c, <2>1 DEF UpState
  <2>3. \/ job' = NoJob
        \/ job' \in [id : Id, stage : {"send", "save", "remove"}] /\ job'.id = job.id
    <3>1. job.id \in Id /\ job = [id |-> job.id, stage |-> job.stage]
      BY <2>1
    <3>2. job' = [id |-> job.id, stage |-> "remove"] \/ job' = NoJob
      BY <2>1, <3>1
    <3> QED
      BY <3>1, <3>2
  <2>4. UpState'
    BY <1>0, <1>c, <2>1, <2>2, <2>3 DEF UpState
  <2> QED
    BY <1>f, <1>c, <2>1, <2>4, AgentFrame
<1>6. ASSUME NEW received, UploadFailed(received) PROVE UpInv'
  <2>1. /\ job \in [id : Id, stage : {"send", "save", "remove"}]
        /\ mem' = mem /\ (saved' = saved \/ saved' = mem) /\ job' = NoJob
        /\ copies' = copies \/ copies' = [copies EXCEPT ![job.id] = @ + 1]
    BY <1>0, <1>6, JobIs DEF UploadFailed
  <2>2. job.id \in Id
    BY <2>1
  <2>3. copies' \in [Id -> Nat] /\ \A id : Arrived(id) => Arrived(id)'
    BY <1>a, <1>c, <2>1, <2>2
  <2>4. UpState'
    BY <1>0, <2>1, <2>3 DEF UpState
  <2> QED
    BY <1>f, <2>3, <2>4, AgentFrame
<1> QED
  BY <1>1, <1>2, <1>3, <1>4, <1>5, <1>6

\* Every step keeps what the agent says of the uploads true.
LEMMA UpStep ==
  ASSUME UpInv, [ReplayNext]_rpVars
  PROVE  UpInv'
<1>0. UpState
  BY UpParts
<1>1. CASE UNCHANGED <<mem, saved, job, copies, disk, written, expired>>
  BY <1>1, FilesFrame
<1>2. ASSUME NEW r, NEW bad, EndRoomWrite(r, bad) PROVE UpInv'
  BY <1>2, WriteUploads
<1>3. ASSUME NEW it, DeleteReplay(it) PROVE UpInv'
  BY <1>3, DeleteUploads
<1>4. ASSUME NEW id \in Id, UploadAgain(id) PROVE UpInv'
  <2>1. /\ Arrived(id) /\ disk' = {it \in disk : it.id # id}
        /\ UNCHANGED <<mem, saved, copies, written, expired>> /\ job' = NoJob
    BY <1>0, <1>4 DEF UploadAgain, uploadVars, UpState
  <2> QED
    BY <2>1, RemoveUploads
<1>5. ASSUME NEW ok, RemoveUploaded(ok) PROVE UpInv'
  <2>1. /\ Arrived(job.id) /\ job' = NoJob /\ UNCHANGED <<mem, saved, copies, written, expired>>
        /\ disk' = disk \/ disk' = {it \in disk : it.id # job.id}
    BY <1>0, <1>5, JobIs DEF RemoveUploaded
  <2>2. CASE disk' = {it \in disk : it.id # job.id}
    BY <2>1, <2>2, RemoveUploads
  <2>3. CASE disk' = disk
    <3>1. UpState' /\ copies' \in [Id -> Nat] /\ \A id : Arrived(id) => Arrived(id)'
      BY <1>0, <2>1, UpParts DEF UpState, Arrived
    <3> QED
      BY <2>1, <2>3, <3>1, AgentFrame
  <2> QED
    BY <2>1, <2>2, <2>3
<1>6. ASSUME NEW r \in Rounds, EndRound(r) PROVE UpInv'
  <2>1. UNCHANGED <<mem, saved, job, copies, disk, written, expired>>
        \/ \E bad \in SUBSET taken[r] : EndRoomWrite(r, bad)
    BY <1>6, Zenon DEF EndRound, EndRoomTake, PublishReplays, uploadVars
  <2> QED
    BY <1>1, <1>2, <2>1
<1>7. CASE \/ \E users \in SUBSET Players \ {{}}, eligible \in BOOLEAN : EnterPlaying(users, eligible)
           \/ \E p \in Players : AppendFrames(p)
           \/ GameEnd \/ RoomDropped \/ UNCHANGED rpVars
  <2>1. UNCHANGED <<mem, saved, job, copies, disk, written, expired>>
    BY <1>7, Zenon DEF EnterPlaying, AppendFrames, GameEnd, RoomDropped, rpVars, uploadVars
  <2> QED
    BY <1>1, <2>1
<1> QED
  BY <1>3, <1>4, <1>5, <1>6, <1>7, AgentUploads, Zenon DEF ReplayNext, UploadStep
-----------------------------------------------------------------------------
(* The theorems *)

\* The invariants hold at the start.
LEMMA ReplayInits == ReplayInit => RecInv /\ EndInv /\ UpInv
<1> SUFFICES ASSUME ReplayInit PROVE RecInv /\ EndInv /\ UpInv
  OBVIOUS
<1>1. EndInv
  BY ReplayAssumption DEF ReplayInit, EndInv, Rounds
<1>2. OpenIsKeyed
  BY DEF ReplayInit, OpenIsKeyed
<1>3. AllRecs = {}
  BY DEF ReplayInit, AllRecs, OpenRecs, TakenRecs
<1>4. RecordingNotLost
  BY DEF ReplayInit, RecordingNotLost
<1>5. RecInv
  BY <1>2, <1>3, <1>4 DEF ReplayInit, RecInv
<1>6. UpInv
  BY DEF ReplayInit, UpInv, RemovedIsUploaded, Gone
<1> QED
  BY <1>1, <1>5, <1>6

\* The invariants always hold.
LEMMA ReplayInvariant == ReplaySpec => [](RecInv /\ EndInv /\ UpInv)
<1>1. (RecInv /\ EndInv /\ UpInv) /\ [ReplayNext]_rpVars => (RecInv /\ EndInv /\ UpInv)'
  BY RecStep, EndStep, UpStep
<1> QED
  BY <1>1, ReplayInits, PTL DEF ReplaySpec

\* However rounds, room ids and the goroutines of earlier rounds overlap, StartRoom
\* and EndRoom lose no recording that was begun, unless writing it failed.
THEOREM RecordingsAreKept == ReplaySpec => []RecordingNotLost
<1>1. RecInv => RecordingNotLost
  BY DEF RecInv
<1> QED
  BY <1>1, ReplayInvariant, PTL

\* AppendTouches and AppendJudges never put a player's frames into the recording of
\* another round while the round they belong to has its own.
THEOREM FramesAreWhereTheyBelong == ReplaySpec => []FramesFindTheirRecording
<1>1. ASSUME RecInv PROVE FramesFindTheirRecording
  <2> SUFFICES ASSUME NEW it \in disk \cup OpenRecs, NEW n \in DOMAIN it.frames,
                      it.frames[n] # it.id[1]
               PROVE  <<it.frames[n], it.id[2]>> \notin started
    BY DEF FramesFindTheirRecording
  <2>1. it \in AllRecs
    BY DEF AllRecs
  <2>2. it \in RecUpTo(round)
    BY <1>1 DEF RecInv, OpenIsKeyed, OpenRecs
  <2>3. it.frames \in Seq(1 .. round)
    BY <2>2 DEF RecUpTo
  <2>4. n \in 1 .. Len(it.frames)
    BY <2>3
  <2> QED
    BY <1>1, <2>1, <2>4 DEF RecInv, Clean
<1> QED
  BY <1>1, ReplayInvariant, PTL

\* Store.Upload and RemoveUploaded delete a replay only once the share station has
\* received it: no crash, lost answer or failed save of the state makes one vanish.
THEOREM DeletedHasArrived == ReplaySpec => []RemovedIsUploaded
<1>1. UpInv => RemovedIsUploaded
  BY DEF UpInv
<1> QED
  BY <1>1, ReplayInvariant, PTL
=============================================================================
