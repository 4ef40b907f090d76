---------------------------- MODULE MonitorBuffer ----------------------------
(***************************************************************************)
(* AggregatingMonitorBuffer (core/server/monitor_buffer.go): the touches   *)
(* and judges of the players are collected and sent to those who watch, a  *)
(* batch at a time, by a timer.                                            *)
(*                                                                         *)
(* The timer field and the callback it started are kept apart: a callback  *)
(* that has fired may still wait for the mutex, and a batch that was taken *)
(* is broadcast without it.  A frame is a number; one room stands for all, *)
(* since batches are split by room before anything else happens.           *)
(***************************************************************************)
EXTENDS Integers, Sequences, FiniteSets, SequencesExt, Selection

CONSTANTS MonPlayers, MaxMonFrames

VARIABLES mbuf,       \* [touch, judge]: the collected items, [player, frame]
          mtimer,     \* the timer field: "nil", "armed" or "fired"
          mcalls,     \* Flush calls that wait for the mutex
          mbatches,   \* batches taken and not yet broadcast
          mclosed,    \* Stop has been called
          watched,    \* the room has monitors
          mframes,    \* [kind -> how many frames the players have sent]
          mshown      \* [kind -> player -> the frames the monitors have got]
monVars == <<mbuf, mtimer, mcalls, mbatches, mclosed, watched, mframes, mshown>>

MonKinds == {"touch", "judge"}
NoFrames == [kind \in MonKinds |-> <<>>]

MonInit ==
  /\ mbuf = NoFrames /\ mtimer = "nil" /\ mcalls = 0 /\ mbatches = {} /\ mclosed = FALSE
  /\ watched \in BOOLEAN
  /\ mframes = [kind \in MonKinds |-> 0]
  /\ mshown = [kind \in MonKinds |-> [p \in MonPlayers |-> <<>>]]

\* scheduleLocked: the interval depends on the size, that it ends does not.
Scheduled == IF mtimer # "nil" \/ mclosed THEN mtimer ELSE "armed"

\* BufferTouches and BufferJudges.
BufferFrame(kind, p) ==
  /\ mframes[kind] < MaxMonFrames
  /\ mframes' = [mframes EXCEPT ![kind] = @ + 1]
  /\ mbuf' = [mbuf EXCEPT ![kind] = Append(@, [player |-> p, frame |-> mframes[kind] + 1])]
  /\ mtimer' = Scheduled
  /\ UNCHANGED <<mcalls, mbatches, mclosed, watched, mshown>>

TimerFires ==
  /\ mtimer = "armed"
  /\ mtimer' = "fired" /\ mcalls' = mcalls + 1
  /\ UNCHANGED <<mbuf, mbatches, mclosed, watched, mframes, mshown>>

FlushLocked_KeepsTimer ==
  /\ mcalls > 0 /\ mcalls' = mcalls - 1
  /\ mbuf' = NoFrames
  /\ mbatches' = IF mbuf = NoFrames THEN mbatches ELSE mbatches \cup {mbuf}
  /\ UNCHANGED <<mtimer, mclosed, watched, mframes, mshown>>

\* The locked part of Flush: stop and forget the timer, take what is there.
FlushLocked ==
  /\ mcalls > 0 /\ mcalls' = mcalls - 1
  /\ mtimer' = "nil"
  /\ mbuf' = NoFrames
  /\ mbatches' = IF mbuf = NoFrames THEN mbatches ELSE mbatches \cup {mbuf}
  /\ UNCHANGED <<mclosed, watched, mframes, mshown>>

\* The frames of one player in a batch.
FramesOf(items, p) ==
  LET own == Selected(items, {i \in DOMAIN items : items[i].player = p})
  IN  [i \in DOMAIN own |-> own[i].frame]

\* broadcastTouches, then broadcastJudges: one merged command per player, to
\* whoever watches at that moment.
Broadcast(batch) ==
  LET kind == IF batch["touch"] # <<>> THEN "touch" ELSE "judge"
      rest == [batch EXCEPT ![kind] = <<>>]
  IN  /\ mshown' = IF watched
                   THEN [mshown EXCEPT ![kind] = [p \in MonPlayers |-> @[p] \o FramesOf(batch[kind], p)]]
                   ELSE mshown
      /\ mbatches' = (mbatches \ {batch}) \cup (IF rest = NoFrames THEN {} ELSE {rest})
      /\ UNCHANGED <<mbuf, mtimer, mcalls, mclosed, watched, mframes>>

\* Stop at shutdown: its own Flush follows.
StopBuffer ==
  /\ ~mclosed /\ mclosed' = TRUE
  /\ mtimer' = "nil" /\ mcalls' = mcalls + 1
  /\ UNCHANGED <<mbuf, mbatches, watched, mframes, mshown>>

\* Monitors come and go.
Watch == watched' = ~watched /\ UNCHANGED <<mbuf, mtimer, mcalls, mbatches, mclosed, mframes, mshown>>

MonNext ==
  \/ \E kind \in MonKinds, p \in MonPlayers : BufferFrame(kind, p)
  \/ TimerFires \/ FlushLocked \/ StopBuffer \/ Watch
  \/ \E batch \in mbatches : Broadcast(batch)

MonSpec == MonInit /\ [][MonNext]_monVars

\* Nothing stays in the buffer: while the server runs, collected frames have a
\* timer that will fire or a Flush that waits for the mutex, although the field
\* still names a timer that has already fired; and no monitor gets a frame twice
\* or a frame that another player sent.
FramesWillFlush ==
  /\ (mbuf # NoFrames /\ ~mclosed) => mtimer = "armed" \/ mcalls > 0
  /\ \A kind \in MonKinds, p, q \in MonPlayers :
       /\ IsInjective(mshown[kind][p])
       /\ p # q => ToSet(mshown[kind][p]) \cap ToSet(mshown[kind][q]) = {}
=============================================================================
