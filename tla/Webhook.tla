------------------------------ MODULE Webhook ------------------------------
(***************************************************************************)
(* The agent's webhook processor: it takes the events of the inbox in      *)
(* order, delivers each to the targets planned for it, remembers in a      *)
(* ledger which targets are done, and moves a durable cursor.  One target  *)
(* is a plain HTTP one ("web"), one a Feishu target with LIVE_UPDATE       *)
(* ("card") that keeps one card per round and patches it with every score. *)
(*                                                                         *)
(* The events are those of one room; an event is its kind and the number   *)
(* of results it ranks.  The platforms are external: a request is done and *)
(* answered, done with its answer lost, not done, or refused.  A write of  *)
(* the agent may fail and the agent may crash; MaxWhFaults bounds the      *)
(* lost answers, refusals, failed writes and crashes.                      *)
(***************************************************************************)
EXTENDS Naturals, Sequences, FiniteSets, SequencesExt

CONSTANTS WhInboxes,    \* the inboxes to start from
          WhRetries,    \* WebhookRetryCount
          MaxWhFaults

ASSUME WhAssumption ==
  /\ WhRetries \in Nat /\ MaxWhFaults \in Nat
  /\ \A evs \in WhInboxes : evs \in Seq([kind : STRING, rank : Nat])

VARIABLES inbox,                 \* the events, in sequence
          whCursor, whCursorFile, \* Processor.cursor and its file
          entries,               \* Ledger.entries
          ledgerFile, torn,      \* what recovery would read of the ledger, and
                                 \* whether a broken record ends that part
          todo,                  \* targets of the current event still to visit
          stage,                 \* what Process does next
          attempt,               \* attempts made on the first of todo
          live,                  \* Feishu.msgIDs for the room: entry or none
          uuids,                 \* number of sendUUIDs drawn
          cards,                 \* the cards on the platform: uuid and rank shown
          got,                   \* requests the platform carried out, by
                                 \* event and target
          excuse,                \* reasons of their own to be repeated
          lostMarks,             \* marks of theirs that recovery cut off
          refused,               \* permanently refused
          whFaults

whVars == <<inbox, whCursor, whCursorFile, entries, ledgerFile, torn, todo, stage, attempt,
            live, uuids, cards, got, excuse, lostMarks, refused, whFaults>>

WhTargets == <<"web", "card">>
NoEntry == [uuid |-> 0, id |-> 0]   \* uuid 0: no entry; id 0: messageID ""
Pairs == (1..Len(inbox)) \X ToSet(WhTargets)
Event == inbox[whCursor + 1]
Pair == <<whCursor + 1, Head(todo)>>

WhInit ==
  /\ inbox \in WhInboxes
  /\ whCursor = 0 /\ whCursorFile = 0 /\ entries = {} /\ ledgerFile = {} /\ torn = FALSE
  /\ todo = <<>> /\ stage = "idle" /\ attempt = 0
  /\ live = NoEntry /\ uuids = 0 /\ cards = <<>>
  /\ got = [p \in Pairs |-> 0] /\ excuse = got /\ lostMarks = got
  /\ refused = {} /\ whFaults = 0

WhFault == whFaults < MaxWhFaults /\ whFaults' = whFaults + 1
OneMore(count, ps) == [p \in Pairs |-> IF p \in ps THEN count[p] + 1 ELSE count[p]]
Excuse(ps) == excuse' = OneMore(excuse, ps)

\* Process returns early: the next call begins the event anew.
Return == stage' = "idle" /\ todo' = <<>> /\ attempt' = 0

-----------------------------------------------------------------------------
(* The Feishu card.  What one attempt asks of the platform, given that the *)
(* platform knows the cards: "send" with a uuid (0: none), "patch", "text" *)
(* or nothing.                                                             *)

\* WebhookTarget.Subscribes, for targets that name no events.
Subscribes(t, kind) == kind = "score" => t = "card"

\* Convert: what is no presentation event is not delivered at all.
Convert(kind) == kind # "replay"

\* Plan: the configured targets in their order, without those that do not want it.
Plan(ev) ==
  LET own(t) == IF Subscribes(t, ev.kind) THEN <<t>> ELSE <<>>
  IN  own(WhTargets[1]) \o own(WhTargets[2])

CardOf(u) == CHOOSE i \in DOMAIN cards : cards[i].uuid = u

\* sendMessage at the platform: a uuid it has seen returns the old card.
Send(u, rank) ==
  IF u # 0 /\ \E i \in DOMAIN cards : cards[i].uuid = u THEN [cs |-> cards, id |-> CardOf(u)]
  ELSE [cs |-> Append(cards, [uuid |-> u, rank |-> rank]), id |-> Len(cards) + 1]

\* patchMessage at the platform.
Patch(cs, i, rank) == [cs EXCEPT ![i].rank = rank]

\* The platform's side of Feishu.Deliver: the cards after it.
GameEndCards_NoPatch(entry, rank) ==
  IF entry.uuid = 0 THEN Send(0, rank).cs
  ELSE IF entry.id # 0 THEN Patch(cards, entry.id, rank) ELSE Send(entry.uuid, rank).cs

GameEndCards(entry, rank) ==
  CASE entry.uuid = 0 -> Send(0, rank).cs
    [] entry.uuid # 0 /\ entry.id # 0 -> Patch(cards, entry.id, rank)
    [] OTHER -> LET s == Send(entry.uuid, rank) IN Patch(s.cs, s.id, rank)

ScoreCards(entry, rank) ==
  IF entry.id # 0 THEN Patch(cards, entry.id, rank) ELSE Send(entry.uuid, rank).cs

\* The entry deliverScoreUpdate works with.
ScoreEntry == IF live.uuid # 0 THEN live ELSE [uuid |-> uuids + 1, id |-> 0]

\* The end of a round whose first card has no known id takes two requests:
\* send, then patch.  "half": only the first was carried out.
TwoRequests(ev) == ev.kind = "end" /\ ev.rank > 0 /\ live.uuid # 0 /\ live.id = 0

\* Cards after the platform carried out its part for the event.
CardsAfter(ev, done) ==
  CASE done = "none" -> cards
    [] done = "half" -> Send(live.uuid, ev.rank).cs
    [] done = "all" /\ ev.kind = "score" /\ ev.rank > 0 -> ScoreCards(ScoreEntry, ev.rank)
    [] done = "all" /\ ev.kind = "end" /\ ev.rank > 0 -> GameEndCards(live, ev.rank)
    [] OTHER -> cards

\* msgIDs after an attempt that ended in the answer.
LiveAfter(ev, answer) ==
  CASE ev.kind = "start" -> NoEntry
    [] ev.kind = "disband" -> NoEntry
    [] ev.kind = "score" /\ ev.rank > 0 ->
         IF answer = "ok" THEN [ScoreEntry EXCEPT !.id = IF @ # 0 THEN @ ELSE Send(ScoreEntry.uuid, ev.rank).id]
         ELSE ScoreEntry
    [] ev.kind = "end" -> IF answer = "retry" THEN live ELSE NoEntry
    [] OTHER -> live

\* Events that send nothing: the attempt succeeds by itself.
NoRequest(t, ev) == t = "card" /\ (ev.kind = "disband" \/ (ev.kind = "score" /\ ev.rank = 0))

-----------------------------------------------------------------------------
(* Process                                                                 *)

\* The next event of the inbox.
WhBegin ==
  /\ stage = "idle" /\ whCursor < Len(inbox)
  /\ todo' = IF Convert(Event.kind) THEN Plan(Event) ELSE <<>>
  /\ stage' = "targets" /\ attempt' = 0
  /\ UNCHANGED <<inbox, whCursor, whCursorFile, entries, ledgerFile, torn, live, uuids, cards, got,
                 excuse, lostMarks, refused, whFaults>>

\* Targets done before are passed over.
WhSkip ==
  /\ stage = "targets"
  /\ IF todo = <<>> THEN stage' = "cursor" /\ todo' = todo
     ELSE Pair \in entries /\ todo' = Tail(todo) /\ stage' = stage
  /\ UNCHANGED <<inbox, whCursor, whCursorFile, entries, ledgerFile, torn, attempt, live, uuids,
                 cards, got, excuse, lostMarks, refused, whFaults>>

Drawn(ev) == IF Head(todo) = "card" /\ ev.kind = "score" /\ ev.rank > 0 /\ live.uuid = 0 THEN uuids + 1 ELSE uuids

\* DeliverTarget, one attempt of deliverContext.  done: how much of it the
\* platform carried out; answer: ok, retry or no (refused).
WhAttempt(done, answer) ==
  /\ stage = "targets" /\ todo # <<>> /\ Pair \notin entries
  /\ done = "half" => Head(todo) = "card" /\ TwoRequests(Event)
  /\ IF NoRequest(Head(todo), Event) THEN done = "none" /\ answer = "ok"
     ELSE (answer = "ok" => done = "all") /\ (answer = "no" => done # "all")
  /\ IF answer = "ok" THEN UNCHANGED whFaults ELSE WhFault
  /\ got' = IF done # "none" THEN [got EXCEPT ![Pair] = @ + 1] ELSE got
  /\ IF done # "none" /\ answer = "retry" THEN Excuse({Pair}) ELSE UNCHANGED excuse
  /\ refused' = IF answer = "no" THEN refused \cup {Pair} ELSE refused
  /\ IF Head(todo) = "card"
     THEN /\ cards' = CardsAfter(Event, done)
          /\ live' = LiveAfter(Event, answer) /\ uuids' = Drawn(Event)
     ELSE UNCHANGED <<cards, live, uuids>>
  /\ CASE answer # "retry" -> stage' = "mark" /\ attempt' = 0 /\ todo' = todo
       [] answer = "retry" /\ attempt < WhRetries -> attempt' = attempt + 1 /\ UNCHANGED <<stage, todo>>
       [] OTHER -> Return
  /\ UNCHANGED <<inbox, lostMarks, whCursor, whCursorFile, entries, ledgerFile, torn>>

Readable(p) == IF torn THEN ledgerFile ELSE ledgerFile \cup {p}

WhMark_Forgets ==
  /\ stage = "mark"
  /\ ledgerFile' = Readable(Pair)
  /\ stage' = "targets" /\ todo' = Tail(todo)
  /\ UNCHANGED <<inbox, whCursor, whCursorFile, entries, torn, attempt, live, uuids, cards, got,
                 excuse, lostMarks, refused, whFaults>>

\* Ledger.Mark: appended, synced, remembered.
WhMark ==
  /\ stage = "mark"
  /\ ledgerFile' = Readable(Pair)
  /\ entries' = entries \cup {Pair}
  /\ stage' = "targets" /\ todo' = Tail(todo)
  /\ UNCHANGED <<inbox, whCursor, whCursorFile, torn, attempt, live, uuids, cards, got, excuse,
                 lostMarks, refused, whFaults>>

\* Mark fails: a short write leaves a broken record in the file, a failed
\* sync a whole one; neither is remembered.
WhMarkFails ==
  /\ stage = "mark" /\ WhFault
  /\ \/ torn' = TRUE /\ UNCHANGED ledgerFile
     \/ ledgerFile' = Readable(Pair) /\ UNCHANGED torn
  /\ Excuse({Pair}) /\ Return
  /\ UNCHANGED <<inbox, whCursor, whCursorFile, entries, live, uuids, cards, got, lostMarks,
                 refused>>

WhCursor_BeforeTargets ==
  /\ stage = "targets"
  /\ whCursorFile' = whCursor + 1 /\ whCursor' = whCursor + 1
  /\ stage' = "complete"
  /\ UNCHANGED <<inbox, entries, ledgerFile, torn, todo, attempt, live, uuids, cards, got, excuse,
                 lostMarks, refused, whFaults>>

\* writeCursor and the advance in memory.
WhCursor ==
  /\ stage = "cursor"
  /\ whCursorFile' = whCursor + 1 /\ whCursor' = whCursor + 1
  /\ stage' = "complete"
  /\ UNCHANGED <<inbox, entries, ledgerFile, torn, todo, attempt, live, uuids, cards, got, excuse,
                 lostMarks, refused, whFaults>>

\* writeCursor fails, before or after the new file is in place.
WhCursorFails ==
  /\ stage = "cursor" /\ WhFault
  /\ whCursorFile' \in {whCursorFile, whCursor + 1}
  /\ Return
  /\ UNCHANGED <<inbox, whCursor, entries, ledgerFile, torn, live, uuids, cards, got, excuse,
                 lostMarks, refused>>

\* CompleteEvent: the event's entries go and the file is written anew; when
\* that fails the old file stays and the error is ignored.  The code reopens
\* the file in any case.
WhComplete(rewritten) ==
  /\ stage = "complete"
  /\ entries' = {p \in entries : p[1] # whCursor}
  /\ IF rewritten \/ entries' = entries THEN UNCHANGED whFaults ELSE WhFault
  /\ IF rewritten /\ entries' # entries THEN ledgerFile' = entries' /\ torn' = FALSE
     ELSE UNCHANGED <<ledgerFile, torn>>
  /\ Return
  /\ UNCHANGED <<inbox, whCursor, whCursorFile, live, uuids, cards, got, excuse, lostMarks,
                 refused>>

\* The agent dies and starts again: OpenLedger cuts the file behind the
\* last good record, OpenProcessor reads the cursor, and the adapter has
\* forgotten its cards.  A record being written may be there or not; what
\* was marked behind a broken record is not.
WhCrash ==
  /\ WhFault
  /\ \E f \in {ledgerFile} \cup (IF stage = "mark" THEN {Readable(Pair)} ELSE {}) :
       /\ ledgerFile' = f /\ entries' = f
       /\ Excuse((IF stage = "mark" THEN {Pair} ELSE {}) \ f)
       /\ lostMarks' = OneMore(lostMarks, entries \ f)
  /\ torn' = FALSE
  /\ \E c \in {whCursorFile} \cup (IF stage = "cursor" THEN {whCursor + 1} ELSE {}) :
       whCursor' = c /\ whCursorFile' = c
  /\ live' = NoEntry /\ Return
  /\ UNCHANGED <<inbox, uuids, cards, got, refused>>

WhNext ==
  \/ WhBegin \/ WhSkip \/ WhMark \/ WhMarkFails \/ WhCursor \/ WhCursorFails \/ WhCrash
  \/ \E done \in {"none", "half", "all"}, answer \in {"ok", "retry", "no"} : WhAttempt(done, answer)
  \/ \E rewritten \in BOOLEAN : WhComplete(rewritten)

WhSpec == WhInit /\ [][WhNext]_whVars

-----------------------------------------------------------------------------
(* Properties                                                              *)

\* The cursor passes an event only when each target planned for it got it or
\* refused it for good, whatever failed on the way (Process).
PassedIsDelivered ==
  \A n \in 1..whCursorFile :
    Convert(inbox[n].kind) =>
      \A t \in ToSet(Plan(inbox[n])) :
        got[<<n, t>>] > 0 \/ <<n, t>> \in refused \/ NoRequest(t, inbox[n])

\* A target gets an event again only for a reason of its own: its answer was
\* lost, its mark failed, the agent died between its delivery and its mark, or
\* its mark stood behind a broken record and recovery cut it off.  Another
\* target's failure, which sends the whole event round again, is none, and
\* neither is a restart (Done, Mark, recover).
RepeatsAreExcused == \A p \in Pairs : got[p] <= 1 + excuse[p] + lostMarks[p]

\* What docs/agent.md says: neither a restart nor a repeated event delivers to
\* a completed target again.  Marked targets then are never repeated: only a
\* lost answer, a failed mark, or a death before the mark is a reason.
CompletedStaysCompleted == \A p \in Pairs : got[p] <= 1 + excuse[p]

\* When the card target has taken the end of a round, some card shows the
\* final ranking: also when an answer was lost and the platform returned the
\* card of an earlier score (deliverGameEndLive).
FinalRankShown ==
  \A n \in 1..whCursorFile :
    inbox[n].kind = "end" /\ inbox[n].rank > 0 /\ <<n, "card">> \notin refused
      => \E i \in DOMAIN cards : cards[i].rank = inbox[n].rank
=============================================================================
