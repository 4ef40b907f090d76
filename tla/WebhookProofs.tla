---------------------------- MODULE WebhookProofs ----------------------------
(***************************************************************************)
(* What the webhook processor promises, for any inbox, number of retries   *)
(* and number of faults.  The inductive invariant says what each stage of  *)
(* Process has behind it: a target of the current event is still to be     *)
(* visited or has been served, an entry of the ledger, in memory or in the *)
(* file, is of a target that was served, and only a target that is marked, *)
(* or about to be, has one delivery more than its excuses and lost marks.  *)
(***************************************************************************)
EXTENDS Webhook, TLAPS

Names == {"web", "card"}

\* The targets an event has to reach.
TargetsOf(n) == IF Convert(inbox[n].kind) THEN ToSet(Plan(inbox[n])) ELSE {}

Served(n, t) == got[<<n, t>>] > 0 \/ <<n, t>> \in refused \/ NoRequest(t, inbox[n])

WhType ==
  /\ inbox \in Seq([kind : STRING, rank : Nat])
  /\ whCursor \in Nat /\ whCursorFile \in Nat /\ whCursor <= whCursorFile
  /\ whCursorFile <= Len(inbox)
  /\ todo \in Seq(Names) /\ entries \subseteq Pairs /\ ledgerFile \subseteq Pairs
  /\ got \in [Pairs -> Nat] /\ excuse \in [Pairs -> Nat] /\ lostMarks \in [Pairs -> Nat]

\* What the processor remembers and what it has passed was served.
PastServed ==
  /\ \A p \in entries \cup ledgerFile : Served(p[1], p[2])
  /\ \A n \in 1 .. whCursorFile : \A t \in TargetsOf(n) : Served(n, t)

\* Where it is with the current event.
StageServed ==
  /\ stage \in {"targets", "mark", "cursor"} => whCursor < Len(inbox)
  /\ stage \in {"targets", "mark"} =>
       \A t \in TargetsOf(whCursor + 1) : t \in ToSet(todo) \/ Served(whCursor + 1, t)
  /\ stage = "mark" => todo # <<>> /\ Served(whCursor + 1, Head(todo))
  /\ stage = "cursor" => \A t \in TargetsOf(whCursor + 1) : Served(whCursor + 1, t)

\* A delivery of the current or a later event is marked, about to be, or excused.
Counted ==
  \A p \in Pairs :
    /\ got[p] <= 1 + excuse[p] + lostMarks[p]
    /\ p[1] > whCursor /\ p \notin entries /\ ~(stage = "mark" /\ p = Pair)
         => got[p] <= excuse[p] + lostMarks[p]

WhInv == WhType /\ PastServed /\ StageServed /\ Counted
-----------------------------------------------------------------------------
\* The pairs of an event and a target.
LEMMA PairsAre == Pairs = (1 .. Len(inbox)) \X Names
<1>1. ToSet(WhTargets) = Names
  BY DEF ToSet, WhTargets, Names
<1> QED
  BY <1>1 DEF Pairs

\* Plan names the two targets at most.
LEMMA PlanIs ==
  ASSUME NEW ev
  PROVE  Plan(ev) \in Seq(Names)
<1> DEFINE web == IF Subscribes("web", ev.kind) THEN <<"web">> ELSE <<>>
           card == IF Subscribes("card", ev.kind) THEN <<"card">> ELSE <<>>
<1>1. web \in Seq(Names) /\ card \in Seq(Names)
  <2>1. "web" \in Names /\ "card" \in Names
    BY DEF Names
  <2>2. <<>> \in Seq(Names) /\ <<"web">> \in Seq(Names) /\ <<"card">> \in Seq(Names)
    BY <2>1
  <2> QED
    BY <2>2, Zenon
<1>2. Plan(ev) = web \o card
  BY DEF Plan, WhTargets
<1> HIDE DEF web, card
<1> QED
  BY <1>1, <1>2

\* Nothing is left to visit.
LEMMA NoneLeft == <<>> \in Seq(Names)
OBVIOUS

\* The first of the targets to visit, and the others.
LEMMA HeadTail ==
  ASSUME NEW s \in Seq(Names), s # <<>>
  PROVE  /\ Head(s) \in Names /\ Tail(s) \in Seq(Names) /\ ToSet(s) = {Head(s)} \cup ToSet(Tail(s))
<1>1. Head(s) = s[1] /\ Len(s) \in Nat \ {0} /\ Len(Tail(s)) = Len(s) - 1
      /\ \A i \in 1 .. Len(Tail(s)) : Tail(s)[i] = s[i + 1]
  OBVIOUS
<1>2. Head(s) \in Names /\ Tail(s) \in Seq(Names)
  OBVIOUS
<1>3. DOMAIN s = 1 .. Len(s) /\ DOMAIN Tail(s) = 1 .. Len(Tail(s))
  BY <1>2
<1>4. ASSUME NEW x \in ToSet(s) PROVE x \in {Head(s)} \cup ToSet(Tail(s))
  <2>1. PICK i \in 1 .. Len(s) : x = s[i]
    BY <1>3, <1>4 DEF ToSet
  <2>2. CASE i = 1
    BY <1>1, <2>1, <2>2
  <2>3. CASE i > 1
    <3>1. i - 1 \in 1 .. Len(Tail(s))
      BY <1>1, <2>3
    <3>2. Tail(s)[i - 1] = s[(i - 1) + 1] /\ (i - 1) + 1 = i
      BY <1>1, <3>1
    <3> QED
      BY <1>3, <2>1, <3>1, <3>2 DEF ToSet
  <2> QED
    BY <2>2, <2>3
<1>5. ASSUME NEW x \in {Head(s)} \cup ToSet(Tail(s)) PROVE x \in ToSet(s)
  <2>1. CASE x = Head(s)
    <3>1. 1 \in 1 .. Len(s)
      BY <1>1
    <3> QED
      BY <1>1, <1>3, <2>1, <3>1 DEF ToSet
  <2>2. CASE x \in ToSet(Tail(s))
    <3>1. PICK i \in 1 .. Len(Tail(s)) : x = Tail(s)[i]
      BY <1>3, <2>2 DEF ToSet
    <3>2. i + 1 \in 1 .. Len(s) /\ x = s[i + 1]
      BY <1>1, <3>1
    <3> QED
      BY <1>3, <3>2 DEF ToSet
  <2> QED
    BY <1>5, <2>1, <2>2
<1> QED
  BY <1>2, <1>4, <1>5

\* The pair that Process works on.
LEMMA PairIs ==
  ASSUME WhType, whCursor < Len(inbox), todo # <<>>
  PROVE  /\ Pair \in Pairs /\ Pair[1] = whCursor + 1 /\ Pair[2] = Head(todo) /\ Head(todo) \in Names
         /\ Tail(todo) \in Seq(Names) /\ ToSet(todo) = {Head(todo)} \cup ToSet(Tail(todo))
<1>1. todo \in Seq(Names) /\ whCursor + 1 \in 1 .. Len(inbox)
  BY DEF WhType
<1>2. Head(todo) \in Names /\ Tail(todo) \in Seq(Names) /\ ToSet(todo) = {Head(todo)} \cup ToSet(Tail(todo))
  BY <1>1, HeadTail
<1> QED
  BY <1>1, <1>2, PairsAre DEF Pair

\* The targets of an event are targets.
LEMMA TargetsAre ==
  ASSUME NEW n, NEW t \in TargetsOf(n)
  PROVE  t \in Names
<1>1. Plan(inbox[n]) \in Seq(Names) /\ t \in ToSet(Plan(inbox[n]))
  BY PlanIs DEF TargetsOf
<1> QED
  BY <1>1 DEF ToSet

\* What was served stays served.
LEMMA ServedStays ==
  ASSUME WhType, inbox' = inbox, refused \subseteq refused', \A p \in Pairs : got'[p] >= got[p],
         got' \in [Pairs -> Nat], NEW n \in 1 .. Len(inbox), NEW t \in Names, Served(n, t)
  PROVE  Served(n, t)'
<1>1. <<n, t>> \in Pairs /\ got[<<n, t>>] \in Nat /\ got'[<<n, t>>] \in Nat
  BY PairsAre DEF WhType
<1> QED
  BY <1>1 DEF Served, NoRequest

\* What was served of the past stays served, when the processor remembers no more
\* than before and passes nothing.
LEMMA PastFrame ==
  ASSUME WhType, PastServed, UNCHANGED <<inbox, whCursorFile>>, refused \subseteq refused',
         entries' \subseteq entries \cup ledgerFile, ledgerFile' \subseteq entries \cup ledgerFile,
         \A p \in Pairs : got'[p] >= got[p], got' \in [Pairs -> Nat]
  PROVE  PastServed'
<1>1. ASSUME NEW p \in entries' \cup ledgerFile' PROVE Served(p[1], p[2])'
  <2>1. p \in entries \cup ledgerFile /\ p[1] \in 1 .. Len(inbox) /\ p[2] \in Names
    BY PairsAre DEF WhType
  <2> QED
    BY <2>1, ServedStays DEF PastServed
<1>2. ASSUME NEW n \in 1 .. whCursorFile', NEW t \in TargetsOf(n)' PROVE Served(n, t)'
  <2>1. n \in 1 .. whCursorFile /\ n \in 1 .. Len(inbox) /\ t \in TargetsOf(n)
    BY DEF WhType, TargetsOf
  <2> QED
    BY <2>1, TargetsAre, ServedStays DEF PastServed
<1> QED
  BY <1>1, <1>2 DEF PastServed

\* Begin, and the passing over of targets that are done.
LEMMA BeginStep ==
  ASSUME WhInv, WhBegin
  PROVE  WhInv'
<1>1. /\ UNCHANGED <<inbox, whCursor, whCursorFile, entries, ledgerFile, got, excuse, lostMarks, refused>>
      /\ whCursor < Len(inbox) /\ stage = "idle" /\ stage' = "targets"
      /\ todo' = IF Convert(Event.kind) THEN Plan(Event) ELSE <<>>
  BY DEF WhBegin
<1>2. todo' \in Seq(Names)
  BY <1>1, PlanIs
<1>3. WhType'
  BY <1>1, <1>2 DEF WhInv, WhType, Pairs
<1>4. PastServed'
  BY <1>1 DEF WhInv, PastServed, Served, TargetsOf, NoRequest
<1>5. \A t \in TargetsOf(whCursor + 1) : t \in ToSet(todo')
  BY <1>1 DEF TargetsOf, Event
<1>6. StageServed'
  BY <1>1, <1>5 DEF StageServed, TargetsOf
<1>7. Counted'
  BY <1>1 DEF WhInv, Counted, Pairs
<1> QED
  BY <1>3, <1>4, <1>6, <1>7 DEF WhInv

\* A target that the ledger knows is passed over.
LEMMA SkipStep ==
  ASSUME WhInv, WhSkip
  PROVE  WhInv'
<1>1. /\ UNCHANGED <<inbox, whCursor, whCursorFile, entries, ledgerFile, got, excuse, lostMarks, refused>>
      /\ stage = "targets" /\ stage' \in {"targets", "cursor"}
  BY DEF WhSkip
<1>2. whCursor < Len(inbox) /\ \A t \in TargetsOf(whCursor + 1) : t \in ToSet(todo) \/ Served(whCursor + 1, t)
  BY <1>1 DEF WhInv, StageServed
<1>3. PastServed'
  BY <1>1 DEF WhInv, PastServed, Served, TargetsOf, NoRequest
<1>4. Counted'
  BY <1>1 DEF WhInv, Counted, Pairs
<1>5. CASE todo = <<>>
  <2>1. stage' = "cursor" /\ todo' = todo /\ ToSet(todo) = {}
    BY <1>5 DEF WhSkip, ToSet
  <2>2. WhType'
    BY <1>1, <2>1 DEF WhInv, WhType, Pairs
  <2>3. StageServed'
    BY <1>1, <1>2, <2>1 DEF StageServed, Served, TargetsOf, NoRequest
  <2> QED
    BY <1>3, <1>4, <2>2, <2>3 DEF WhInv
<1>6. CASE todo # <<>>
  <2>1. stage' = "targets" /\ todo' = Tail(todo) /\ Pair \in entries
    BY <1>1, <1>6 DEF WhSkip
  <2>2. /\ Pair[1] = whCursor + 1 /\ Pair[2] = Head(todo) /\ Tail(todo) \in Seq(Names)
        /\ ToSet(todo) = {Head(todo)} \cup ToSet(Tail(todo))
    BY <1>2, <1>6, PairIs DEF WhInv
  <2>3. Served(whCursor + 1, Head(todo))
    BY <2>1, <2>2 DEF WhInv, PastServed
  <2>4. WhType'
    BY <1>1, <2>1, <2>2 DEF WhInv, WhType, Pairs
  <2>5. \A t \in TargetsOf(whCursor + 1) : t \in ToSet(todo') \/ Served(whCursor + 1, t)
    BY <1>2, <2>1, <2>2, <2>3
  <2>6. StageServed'
    BY <1>1, <1>2, <2>1, <2>5 DEF StageServed, Served, TargetsOf, NoRequest
  <2> QED
    BY <1>3, <1>4, <2>4, <2>6 DEF WhInv
<1> QED
  BY <1>5, <1>6

\* One attempt on a target: it is served, or it is still to be visited.
LEMMA AttemptStep ==
  ASSUME WhInv, NEW done, NEW answer, WhAttempt(done, answer),
         done \in {"none", "half", "all"}, answer \in {"ok", "retry", "no"}
  PROVE  WhInv'
<1>t. WhType /\ PastServed /\ StageServed /\ Counted
  BY DEF WhInv
<1>1. /\ UNCHANGED <<inbox, lostMarks, whCursor, whCursorFile, entries, ledgerFile>>
      /\ stage = "targets" /\ todo # <<>> /\ Pair \notin entries
      /\ got' = IF done # "none" THEN [got EXCEPT ![Pair] = @ + 1] ELSE got
      /\ IF done # "none" /\ answer = "retry" THEN Excuse({Pair}) ELSE UNCHANGED excuse
      /\ refused' = IF answer = "no" THEN refused \cup {Pair} ELSE refused
      /\ IF NoRequest(Head(todo), Event) THEN done = "none" /\ answer = "ok"
         ELSE (answer = "ok" => done = "all") /\ (answer = "no" => done # "all")
  BY DEF WhAttempt
<1>2. whCursor < Len(inbox) /\ \A t \in TargetsOf(whCursor + 1) : t \in ToSet(todo) \/ Served(whCursor + 1, t)
  BY <1>t, <1>1 DEF StageServed
<1>3. Pair \in Pairs /\ Pair[1] = whCursor + 1 /\ Pair[2] = Head(todo) /\ Head(todo) \in Names
      /\ Pair = <<whCursor + 1, Head(todo)>>
  BY <1>t, <1>1, <1>2, PairIs DEF Pair
<1>4. \/ answer # "retry" /\ stage' = "mark" /\ todo' = todo
      \/ answer = "retry" /\ stage' = stage /\ todo' = todo
      \/ answer = "retry" /\ stage' = "idle" /\ todo' = <<>>
  BY DEF WhAttempt, Return
<1>5. got \in [Pairs -> Nat] /\ excuse \in [Pairs -> Nat]
  BY <1>t DEF WhType
<1>6. /\ got' \in [Pairs -> Nat] /\ \A p \in Pairs : got'[p] >= got[p]
      /\ \A p \in Pairs \ {Pair} : got'[p] = got[p]
      /\ got'[Pair] = IF done # "none" THEN got[Pair] + 1 ELSE got[Pair]
  <2>1. CASE done # "none"
    <3>1. got' = [got EXCEPT ![Pair] = @ + 1]
      BY <1>1, <2>1
    <3>2. got[Pair] \in Nat
      BY <1>3, <1>5
    <3>3. got' \in [Pairs -> Nat]
      <4>1. \A q \in Pairs : got'[q] \in Nat
        BY <1>3, <1>5, <3>1
      <4>2. got' = [q \in Pairs |-> got'[q]]
        BY <1>5, <3>1
      <4> QED
        BY <4>1, <4>2
    <3>4. got'[Pair] = got[Pair] + 1 /\ \A p \in Pairs \ {Pair} : got'[p] = got[p]
      BY <1>3, <1>5, <3>1
    <3> QED
      BY <1>5, <2>1, <3>2, <3>3, <3>4
  <2>2. CASE done = "none"
    BY <1>1, <1>5, <2>2
  <2> QED
    BY <2>1, <2>2
<1>7. /\ excuse' \in [Pairs -> Nat] /\ \A p \in Pairs \ {Pair} : excuse'[p] = excuse[p]
      /\ excuse'[Pair] = IF done # "none" /\ answer = "retry" THEN excuse[Pair] + 1 ELSE excuse[Pair]
  BY <1>1, <1>3, <1>5 DEF Excuse, OneMore
<1>8. todo' \in Seq(Names)
  BY <1>t, <1>4, NoneLeft DEF WhType
<1>9. WhType'
  <2>1. Pairs' = Pairs
    BY <1>1 DEF Pairs
  <2> QED
    BY <1>t, <1>1, <1>6, <1>7, <1>8, <2>1 DEF WhType
<1>10. refused \subseteq refused'
  BY <1>1
<1>11. PastServed'
  BY <1>t, <1>1, <1>6, <1>10, PastFrame
<1>12. ASSUME NEW t \in Names, Served(whCursor + 1, t) PROVE Served(whCursor + 1, t)'
  <2>1. whCursor + 1 \in 1 .. Len(inbox)
    BY <1>t, <1>2 DEF WhType
  <2> QED
    BY <1>t, <1>1, <1>6, <1>10, <1>12, <2>1, ServedStays
<1>13. \A t \in TargetsOf(whCursor + 1)' : t \in ToSet(todo) \/ Served(whCursor + 1, t)'
  BY <1>1, <1>2, <1>12, TargetsAre DEF TargetsOf
<1>14. answer # "retry" => Served(whCursor + 1, Head(todo))'
  <2>1. CASE NoRequest(Head(todo), Event)
    BY <1>1, <1>4, <2>1 DEF Served, NoRequest, Event
  <2>2. CASE answer = "no"
    BY <1>1, <1>3, <1>4, <2>2 DEF Served
  <2>3. CASE answer = "ok" /\ ~NoRequest(Head(todo), Event)
    <3>1. got'[Pair] > 0
      BY <1>1, <1>3, <1>5, <1>6, <2>3
    <3> QED
      BY <1>1, <1>3, <1>4, <2>3, <3>1 DEF Served
  <2> QED
    BY <2>1, <2>2, <2>3
<1>15. StageServed'
  <2>1. CASE stage' = "idle"
    BY <2>1 DEF StageServed
  <2>2. CASE stage' = "targets" /\ todo' = todo
    BY <1>1, <1>2, <1>13, <2>2 DEF StageServed
  <2>3. CASE stage' = "mark" /\ todo' = todo /\ answer # "retry"
    BY <1>1, <1>2, <1>13, <1>14, <2>3 DEF StageServed
  <2> QED
    BY <1>1, <1>4, <2>1, <2>2, <2>3
<1>16. Counted'
  <2> SUFFICES ASSUME NEW p \in Pairs
               PROVE  /\ got'[p] <= 1 + excuse'[p] + lostMarks[p]
                      /\ p[1] > whCursor /\ p \notin entries /\ ~(stage' = "mark" /\ p = Pair')
                           => got'[p] <= excuse'[p] + lostMarks[p]
    BY <1>1 DEF Counted, Pairs
  <2>1. /\ got[p] <= 1 + excuse[p] + lostMarks[p]
        /\ p[1] > whCursor /\ p \notin entries => got[p] <= excuse[p] + lostMarks[p]
        /\ got[p] \in Nat /\ excuse[p] \in Nat /\ lostMarks[p] \in Nat
    BY <1>t, <1>1, <1>5 DEF Counted, WhType
  <2>2. CASE p # Pair
    BY <1>6, <1>7, <2>1, <2>2
  <2>3. CASE p = Pair
    <3>1. got[p] <= excuse[p] + lostMarks[p]
      <4>1. p[1] > whCursor
        BY <1>t, <1>3, <2>3 DEF WhType
      <4> QED
        BY <1>1, <2>1, <2>3, <4>1
    <3>2. got'[p] <= 1 + excuse'[p] + lostMarks[p] /\ (answer = "retry" => got'[p] <= excuse'[p] + lostMarks[p])
      BY <1>6, <1>7, <2>1, <2>3, <3>1
    <3>3. answer # "retry" => stage' = "mark" /\ Pair' = Pair
      BY <1>1, <1>4 DEF Pair
    <3> QED
      BY <2>3, <3>2, <3>3
  <2> QED
    BY <2>2, <2>3
<1> QED
  BY <1>9, <1>11, <1>15, <1>16 DEF WhInv

\* The mark of a target that was served.
LEMMA MarkStep ==
  ASSUME WhInv, WhMark
  PROVE  WhInv'
<1>t. WhType /\ PastServed /\ StageServed /\ Counted
  BY DEF WhInv
<1>1. /\ UNCHANGED <<inbox, whCursor, whCursorFile, got, excuse, lostMarks, refused>>
      /\ stage = "mark" /\ stage' = "targets" /\ todo' = Tail(todo)
      /\ entries' = entries \cup {Pair} /\ ledgerFile' \subseteq ledgerFile \cup {Pair}
  BY DEF WhMark, Readable
<1>2. /\ whCursor < Len(inbox) /\ todo # <<>> /\ Served(whCursor + 1, Head(todo))
      /\ \A t \in TargetsOf(whCursor + 1) : t \in ToSet(todo) \/ Served(whCursor + 1, t)
  BY <1>t, <1>1 DEF StageServed
<1>3. /\ Pair \in Pairs /\ Pair[1] = whCursor + 1 /\ Pair[2] = Head(todo)
      /\ Tail(todo) \in Seq(Names) /\ ToSet(todo) = {Head(todo)} \cup ToSet(Tail(todo))
  BY <1>t, <1>2, PairIs
<1>4. WhType'
  <2>1. Pairs' = Pairs
    BY <1>1 DEF Pairs
  <2> QED
    BY <1>t, <1>1, <1>3, <2>1 DEF WhType
<1>5. \A n, t : Served(n, t)' <=> Served(n, t)
  BY <1>1 DEF Served, NoRequest
<1>6. \A n : TargetsOf(n)' = TargetsOf(n)
  BY <1>1 DEF TargetsOf
<1>7. PastServed'
  BY <1>t, <1>1, <1>2, <1>3, <1>5, <1>6 DEF PastServed
<1>8. StageServed'
  BY <1>1, <1>2, <1>3, <1>5, <1>6 DEF StageServed
<1>9. Counted'
  BY <1>t, <1>1 DEF Counted, Pairs
<1> QED
  BY <1>4, <1>7, <1>8, <1>9 DEF WhInv

\* A mark that fails leaves the target to be served once more, with an excuse.
LEMMA MarkFailsStep ==
  ASSUME WhInv, WhMarkFails
  PROVE  WhInv'
<1>t. WhType /\ PastServed /\ StageServed /\ Counted
  BY DEF WhInv
<1>1. /\ UNCHANGED <<inbox, lostMarks, whCursor, whCursorFile, entries, got, refused>>
      /\ stage = "mark" /\ stage' = "idle" /\ todo' = <<>>
      /\ ledgerFile' \subseteq ledgerFile \cup {Pair} /\ Excuse({Pair})
  BY DEF WhMarkFails, Readable, Return
<1>2. whCursor < Len(inbox) /\ todo # <<>> /\ Served(whCursor + 1, Head(todo))
  BY <1>t, <1>1 DEF StageServed
<1>3. Pair \in Pairs /\ Pair[1] = whCursor + 1 /\ Pair[2] = Head(todo)
  BY <1>t, <1>2, PairIs
<1>4. /\ excuse' \in [Pairs -> Nat] /\ excuse'[Pair] = excuse[Pair] + 1
      /\ \A p \in Pairs \ {Pair} : excuse'[p] = excuse[p]
  BY <1>t, <1>1, <1>3 DEF WhType, Excuse, OneMore
<1>5. WhType'
  <2>1. Pairs' = Pairs
    BY <1>1 DEF Pairs
  <2> QED
    BY <1>t, <1>1, <1>3, <1>4, <2>1 DEF WhType
<1>6. \A n, t : Served(n, t)' <=> Served(n, t)
  BY <1>1 DEF Served, NoRequest
<1>7. \A n : TargetsOf(n)' = TargetsOf(n)
  BY <1>1 DEF TargetsOf
<1>8. PastServed'
  BY <1>t, <1>1, <1>2, <1>3, <1>6, <1>7 DEF PastServed
<1>9. StageServed'
  BY <1>1 DEF StageServed
<1>10. Counted'
  <2> SUFFICES ASSUME NEW p \in Pairs
               PROVE  got'[p] <= 1 + excuse'[p] + lostMarks[p] /\ (p[1] > whCursor /\ p \notin entries => got'[p] <= excuse'[p] + lostMarks[p])
    BY <1>1 DEF Counted, Pairs
  <2>1. /\ got[p] <= 1 + excuse[p] + lostMarks[p] /\ (p[1] > whCursor /\ p \notin entries /\ p # Pair => got[p] <= excuse[p] + lostMarks[p])
        /\ got[p] \in Nat /\ excuse[p] \in Nat /\ lostMarks[p] \in Nat
    BY <1>t DEF Counted, WhType
  <2>2. CASE p = Pair
    BY <1>1, <1>4, <2>1, <2>2
  <2>3. CASE p # Pair
    BY <1>1, <1>4, <2>1, <2>3
  <2> QED
    BY <2>2, <2>3
<1> QED
  BY <1>5, <1>8, <1>9, <1>10 DEF WhInv

\* The cursor passes an event, or fails to.
LEMMA CursorStep ==
  ASSUME WhInv, WhCursor \/ WhCursorFails
  PROVE  WhInv'
<1>t. WhType /\ PastServed /\ StageServed /\ Counted
  BY DEF WhInv
<1>1. /\ UNCHANGED <<inbox, entries, ledgerFile, got, excuse, lostMarks, refused>>
      /\ stage = "cursor" /\ stage' \in {"idle", "complete"}
      /\ todo' = todo \/ todo' = <<>>
      /\ whCursor' \in {whCursor, whCursor + 1} /\ whCursorFile' \in {whCursorFile, whCursor + 1}
      /\ whCursor' = whCursor + 1 => whCursorFile' = whCursor + 1
  <2>1. CASE WhCursor
    BY <2>1 DEF WhCursor
  <2>2. CASE WhCursorFails
    BY <2>2, <1>t DEF WhCursorFails, Return, WhType
  <2> QED
    BY <2>1, <2>2
<1>2. whCursor < Len(inbox) /\ \A t \in TargetsOf(whCursor + 1) : Served(whCursor + 1, t)
  BY <1>t, <1>1 DEF StageServed
<1>3. WhType'
  <2>1. Pairs' = Pairs
    BY <1>1 DEF Pairs
  <2>2. todo' \in Seq(Names)
    BY <1>t, <1>1, NoneLeft DEF WhType
  <2>3. /\ whCursor \in Nat /\ whCursorFile \in Nat /\ Len(inbox) \in Nat
        /\ whCursor <= whCursorFile /\ whCursorFile <= Len(inbox)
    BY <1>t DEF WhType
  <2>4. /\ whCursor' \in Nat /\ whCursorFile' \in Nat /\ whCursor' <= whCursorFile'
        /\ whCursorFile' <= Len(inbox)
    BY <1>1, <1>2, <2>3
  <2> QED
    BY <1>t, <1>1, <2>1, <2>2, <2>4 DEF WhType
<1>4. \A n, t : Served(n, t)' <=> Served(n, t)
  BY <1>1 DEF Served, NoRequest
<1>5. \A n : TargetsOf(n)' = TargetsOf(n)
  BY <1>1 DEF TargetsOf
<1>6. \A n \in 1 .. whCursorFile' : n \in 1 .. whCursorFile \/ n = whCursor + 1
  BY <1>t, <1>1 DEF WhType
<1>7. PastServed'
  BY <1>t, <1>1, <1>2, <1>4, <1>5, <1>6 DEF PastServed
<1>8. StageServed'
  BY <1>1 DEF StageServed
<1>9. Counted'
  <2> SUFFICES ASSUME NEW p \in Pairs
               PROVE  got[p] <= 1 + excuse[p] + lostMarks[p] /\ (p[1] > whCursor' /\ p \notin entries => got[p] <= excuse[p] + lostMarks[p])
    BY <1>1 DEF Counted, Pairs
  <2>1. p[1] \in Nat
    BY <1>t, PairsAre DEF WhType
  <2>2. p[1] > whCursor' => p[1] > whCursor
    BY <1>t, <1>1, <2>1 DEF WhType
  <2> QED
    BY <1>t, <1>1, <2>2 DEF Counted
<1> QED
  BY <1>3, <1>7, <1>8, <1>9 DEF WhInv

\* CompleteEvent forgets what the cursor has passed.
LEMMA CompleteStep ==
  ASSUME WhInv, NEW rewritten, WhComplete(rewritten)
  PROVE  WhInv'
<1>t. WhType /\ PastServed /\ StageServed /\ Counted
  BY DEF WhInv
<1>1. /\ UNCHANGED <<inbox, whCursor, whCursorFile, got, excuse, lostMarks, refused>>
      /\ stage' = "idle" /\ todo' = <<>> /\ stage = "complete"
      /\ entries' = {p \in entries : p[1] # whCursor} /\ (ledgerFile' = entries' \/ ledgerFile' = ledgerFile)
  BY DEF WhComplete, Return
<1>2. WhType'
  BY <1>t, <1>1 DEF WhType, Pairs
<1>3. \A n, t : Served(n, t)' <=> Served(n, t)
  BY <1>1 DEF Served, NoRequest
<1>4. \A n : TargetsOf(n)' = TargetsOf(n)
  BY <1>1 DEF TargetsOf
<1>5. PastServed'
  BY <1>t, <1>1, <1>3, <1>4 DEF PastServed
<1>6. StageServed'
  BY <1>1 DEF StageServed
<1>7. Counted'
  <2> SUFFICES ASSUME NEW p \in Pairs
               PROVE  got[p] <= 1 + excuse[p] + lostMarks[p] /\ (p[1] > whCursor /\ p \notin entries' => got[p] <= excuse[p] + lostMarks[p])
    BY <1>1 DEF Counted, Pairs
  <2>1. p[1] > whCursor /\ p \notin entries' => p \notin entries
    BY <1>t, <1>1 DEF WhType
  <2> QED
    BY <1>t, <1>1, <2>1 DEF Counted
<1> QED
  BY <1>2, <1>5, <1>6, <1>7 DEF WhInv

\* A restart: what the files hold was served, and what was served and is not marked
\* in them has an excuse or a mark that was cut off.
LEMMA CrashStep ==
  ASSUME WhInv, WhCrash
  PROVE  WhInv'
<1>t. WhType /\ PastServed /\ StageServed /\ Counted
  BY DEF WhInv
<1>1. /\ UNCHANGED <<inbox, got, refused>> /\ stage' = "idle" /\ todo' = <<>>
      /\ Excuse((IF stage = "mark" THEN {Pair} ELSE {}) \ entries')
      /\ lostMarks' = OneMore(lostMarks, entries \ entries')
      /\ whCursor' = whCursorFile'
      /\ \/ whCursorFile' = whCursorFile
         \/ stage = "cursor" /\ whCursorFile' = whCursor + 1
      /\ entries' = ledgerFile'
      /\ \/ ledgerFile' = ledgerFile
         \/ stage = "mark" /\ ledgerFile' \subseteq ledgerFile \cup {Pair}
  BY DEF WhCrash, Return, Readable
<1>2. stage = "cursor" => whCursor < Len(inbox) /\ \A t \in TargetsOf(whCursor + 1) : Served(whCursor + 1, t)
  BY <1>t DEF StageServed
<1>3. stage = "mark" => /\ Pair \in Pairs /\ Pair[1] = whCursor + 1 /\ Pair[2] = Head(todo)
                        /\ Served(whCursor + 1, Head(todo))
  BY <1>t, PairIs DEF StageServed
<1>4. /\ excuse' \in [Pairs -> Nat] /\ lostMarks' \in [Pairs -> Nat]
      /\ \A p \in Pairs : excuse'[p] \in {excuse[p], excuse[p] + 1}
      /\ \A p \in Pairs : stage = "mark" /\ p = Pair /\ p \notin entries' => excuse'[p] = excuse[p] + 1
      /\ \A p \in Pairs : lostMarks'[p] \in {lostMarks[p], lostMarks[p] + 1}
      /\ \A p \in entries \ entries' : lostMarks'[p] = lostMarks[p] + 1
  BY <1>t, <1>1 DEF WhType, Excuse, OneMore
<1>5. WhType'
  <2>1. Pairs' = Pairs
    BY <1>1 DEF Pairs
  <2>2. /\ whCursor \in Nat /\ whCursorFile \in Nat /\ Len(inbox) \in Nat
        /\ whCursor <= whCursorFile /\ whCursorFile <= Len(inbox)
    BY <1>t DEF WhType
  <2>3. whCursorFile' \in Nat /\ whCursorFile' <= Len(inbox)
    BY <1>1, <1>2, <2>2
  <2>4. whCursor' \in Nat /\ whCursor' <= whCursorFile'
    BY <1>1, <2>3
  <2>5. todo' \in Seq(Names) /\ entries' \subseteq Pairs /\ ledgerFile' \subseteq Pairs
    BY <1>t, <1>1, <1>3 DEF WhType
  <2> QED
    BY <1>t, <1>1, <1>4, <2>1, <2>3, <2>4, <2>5 DEF WhType
<1>6. \A n, t : Served(n, t)' <=> Served(n, t)
  BY <1>1 DEF Served, NoRequest
<1>7. \A n : TargetsOf(n)' = TargetsOf(n)
  BY <1>1 DEF TargetsOf
<1>8. \A n \in 1 .. whCursorFile' : n \in 1 .. whCursorFile \/ (stage = "cursor" /\ n = whCursor + 1)
  BY <1>t, <1>1 DEF WhType
<1>9. PastServed'
  <2>1. \A p \in entries' \cup ledgerFile' : Served(p[1], p[2])
    BY <1>t, <1>1, <1>3 DEF PastServed
  <2>2. \A n \in 1 .. whCursorFile' : \A t \in TargetsOf(n) : Served(n, t)
    BY <1>t, <1>2, <1>8 DEF PastServed
  <2> QED
    BY <1>6, <1>7, <2>1, <2>2 DEF PastServed
<1>10. StageServed'
  BY <1>1 DEF StageServed
<1>11. Counted'
  <2> SUFFICES ASSUME NEW p \in Pairs
               PROVE  /\ got[p] <= 1 + excuse'[p] + lostMarks'[p]
                      /\ p[1] > whCursor' /\ p \notin entries' => got[p] <= excuse'[p] + lostMarks'[p]
    BY <1>1 DEF Counted, Pairs
  <2>t. /\ got[p] \in Nat /\ excuse[p] \in Nat /\ lostMarks[p] \in Nat /\ p[1] \in Nat
        /\ whCursor \in Nat /\ whCursor' \in Nat /\ whCursor <= whCursor'
    BY <1>t, <1>1, <1>5, PairsAre DEF WhType
  <2>1. /\ got[p] <= 1 + excuse[p] + lostMarks[p]
        /\ p[1] > whCursor /\ p \notin entries /\ ~(stage = "mark" /\ p = Pair)
             => got[p] <= excuse[p] + lostMarks[p]
    BY <1>t DEF Counted
  <2>2. excuse'[p] \in {excuse[p], excuse[p] + 1} /\ lostMarks'[p] \in {lostMarks[p], lostMarks[p] + 1}
    BY <1>4
  <2>3. got[p] <= 1 + excuse'[p] + lostMarks'[p]
    BY <2>t, <2>1, <2>2
  <2>4. ASSUME p[1] > whCursor', p \notin entries' PROVE got[p] <= excuse'[p] + lostMarks'[p]
    <3>1. CASE p \in entries
      <4>1. lostMarks'[p] = lostMarks[p] + 1
        BY <1>4, <2>4, <3>1
      <4> QED
        BY <2>t, <2>1, <2>2, <4>1
    <3>2. CASE stage = "mark" /\ p = Pair
      <4>1. excuse'[p] = excuse[p] + 1
        BY <1>4, <2>4, <3>2
      <4> QED
        BY <2>t, <2>1, <2>2, <4>1
    <3>3. CASE p \notin entries /\ ~(stage = "mark" /\ p = Pair)
      <4>1. p[1] > whCursor
        BY <2>t, <2>4
      <4> QED
        BY <2>t, <2>1, <2>2, <3>3, <4>1
    <3> QED
      BY <3>1, <3>2, <3>3
  <2> QED
    BY <2>3, <2>4
<1> QED
  BY <1>5, <1>9, <1>10, <1>11 DEF WhInv
-----------------------------------------------------------------------------
\* The invariant holds at the start.
LEMMA WhInvInit == WhInit => WhInv
<1> SUFFICES ASSUME WhInit PROVE WhInv
  OBVIOUS
<1>1. WhType
  BY WhAssumption DEF WhInit, WhType
<1>2. PastServed /\ StageServed
  BY DEF WhInit, PastServed, StageServed
<1>3. Counted
  BY DEF WhInit, Counted
<1> QED
  BY <1>1, <1>2, <1>3 DEF WhInv

\* Every step keeps it.
LEMMA WhInvStep == WhInv /\ [WhNext]_whVars => WhInv'
<1> SUFFICES ASSUME WhInv, [WhNext]_whVars PROVE WhInv'
  OBVIOUS
<1>1. CASE UNCHANGED whVars
  <2>1. UNCHANGED <<inbox, whCursor, whCursorFile, entries, ledgerFile, todo, stage, got, excuse, lostMarks, refused>>
    BY <1>1 DEF whVars
  <2>2. WhType' /\ Counted'
    BY <2>1 DEF WhInv, WhType, Counted, Pairs, Pair
  <2>3. PastServed' /\ StageServed'
    BY <2>1 DEF WhInv, PastServed, StageServed, Served, TargetsOf, NoRequest
  <2> QED
    BY <2>2, <2>3 DEF WhInv
<1>2. CASE WhNext
  BY <1>2, BeginStep, SkipStep, AttemptStep, MarkStep, MarkFailsStep, CursorStep, CompleteStep, CrashStep
    DEF WhNext
<1> QED
  BY <1>1, <1>2

\* Process moves the durable cursor past an event only when every target planned for
\* it has received it, has refused it for good, or had nothing to receive, whatever
\* requests, marks and cursor writes failed and wherever the agent crashed.
THEOREM NoTargetIsMissed == WhSpec => []PassedIsDelivered
<1>1. WhInv => PassedIsDelivered
  BY DEF WhInv, PastServed, PassedIsDelivered, TargetsOf, Served
<1> QED
  BY <1>1, WhInvInit, WhInvStep, PTL DEF WhSpec

\* A target that has answered is not asked again because another target of the event
\* failed or because the agent was restarted: each repetition has a lost answer or a
\* failed mark of that target, a death between its delivery and its mark, or a mark of
\* its own that recovery cut off behind a broken record.
THEOREM RepeatsHaveReasons == WhSpec => []RepeatsAreExcused
<1>1. WhInv => RepeatsAreExcused
  BY DEF WhInv, Counted, RepeatsAreExcused
<1> QED
  BY <1>1, WhInvInit, WhInvStep, PTL DEF WhSpec

-----------------------------------------------------------------------------
(* The cards.  A card is settled when no later event of the room can patch *)
(* it: the adapter's entry, if there is one, has another uuid.             *)
Settled(i) == live.uuid # 0 => cards[i].uuid # live.uuid

CardType ==
  /\ live \in [uuid : Nat, id : Nat] /\ uuids \in Nat /\ cards \in Seq([uuid : Nat, rank : Nat])
  /\ live.uuid <= uuids /\ \A i \in DOMAIN cards : cards[i].uuid <= uuids
  /\ live.id # 0 => live.uuid # 0 /\ live.id \in DOMAIN cards /\ cards[live.id].uuid = live.uuid

\* The ranking that ends a round, if event n is one, is on a settled card.
FinalShown(n) ==
  inbox[n].kind = "end" /\ inbox[n].rank > 0 /\ <<n, "card">> \notin refused
    => \E i \in DOMAIN cards : Settled(i) /\ cards[i].rank = inbox[n].rank

\* What the processor remembers and what it has passed is shown ...
PastShown ==
  /\ \A p \in entries \cup ledgerFile : p[2] = "card" => FinalShown(p[1])
  /\ \A n \in 1 .. whCursorFile : FinalShown(n)

\* ... and so is the current event once the card target is behind it.
StageShown ==
  /\ stage \in {"targets", "mark"} => "card" \in ToSet(todo) \/ FinalShown(whCursor + 1)
  /\ stage = "mark" /\ Head(todo) = "card" => FinalShown(whCursor + 1)
  /\ stage = "cursor" => FinalShown(whCursor + 1)

CardInv == CardType /\ PastShown /\ StageShown

-----------------------------------------------------------------------------
Card == [uuid : Nat, rank : Nat]

\* cs is what the platform has after a request about the card with uuid u: the cards
\* of other uuids are as they were, and a new card has that uuid (0: a card that is
\* sent without one, so that no card is changed).
Touched(cs, u) ==
  /\ cs \in Seq(Card) /\ DOMAIN cards \subseteq DOMAIN cs
  /\ \A i \in DOMAIN cards : cs[i].uuid = cards[i].uuid /\ (u = 0 \/ cards[i].uuid # u => cs[i] = cards[i])
  /\ \A i \in DOMAIN cs : i \in DOMAIN cards \/ cs[i].uuid = u

\* The cards that are left alone.
LEMMA NoneTouched ==
  ASSUME CardType, NEW u
  PROVE  Touched(cards, u)
BY DEF CardType, Touched, Card

\* sendMessage returns a card with the uuid that was asked for.
LEMMA SendIs ==
  ASSUME CardType, NEW u \in Nat, NEW rank \in Nat
  PROVE  LET s == Send(u, rank)
         IN  /\ Touched(s.cs, u) /\ s.id \in DOMAIN s.cs /\ s.id \in Nat \ {0} /\ s.cs[s.id].uuid = u
             /\ \A i \in DOMAIN cards : s.cs[i] = cards[i]
             /\ u = 0 => s.cs[s.id].rank = rank
<1> DEFINE s == Send(u, rank)
           n == Len(cards)
           new == [uuid |-> u, rank |-> rank]
<1>t. cards \in Seq(Card) /\ n \in Nat /\ DOMAIN cards = 1 .. n /\ new \in Card
  BY DEF CardType, Card
<1>1. CASE u # 0 /\ \E i \in DOMAIN cards : cards[i].uuid = u
  <2>1. s = [cs |-> cards, id |-> CardOf(u)]
    BY <1>1 DEF Send
  <2>2. CardOf(u) \in DOMAIN cards /\ cards[CardOf(u)].uuid = u
    BY <1>1 DEF CardOf
  <2>3. s.cs = cards /\ s.id = CardOf(u)
    BY <2>1
  <2> QED
    BY <1>1, <1>t, <2>2, <2>3, NoneTouched
<1>2. CASE ~(u # 0 /\ \E i \in DOMAIN cards : cards[i].uuid = u)
  <2> DEFINE cs == Append(cards, new)
  <2>1. s = [cs |-> cs, id |-> n + 1]
    BY <1>2 DEF Send
  <2>2. s.cs = cs /\ s.id = n + 1
    BY <2>1
  <2>3. /\ cs \in Seq(Card) /\ Len(cs) = n + 1 /\ DOMAIN cs = 1 .. (n + 1)
        /\ cs[n + 1] = new /\ \A i \in 1 .. n : cs[i] = cards[i]
    BY <1>t
  <2> HIDE DEF cs, s, n
  <2>4. \A i \in 1 .. (n + 1) : i \in 1 .. n \/ i = n + 1
    BY <1>t
  <2>5. new.uuid = u /\ new.rank = rank
    OBVIOUS
  <2> HIDE DEF new
  <2>6. Touched(cs, u)
    BY <1>t, <2>3, <2>4, <2>5 DEF Touched
  <2>7. n + 1 \in DOMAIN cs /\ n + 1 \in Nat \ {0}
    BY <1>t, <2>3
  <2>8. cs[n + 1].uuid = u /\ cs[n + 1].rank = rank
    BY <2>3, <2>5
  <2>9. \A i \in DOMAIN cards : cs[i] = cards[i]
    BY <1>t, <2>3
  <2>10. /\ Touched(s.cs, u) /\ s.id \in DOMAIN s.cs /\ s.id \in Nat \ {0} /\ s.cs[s.id].uuid = u
         /\ \A i \in DOMAIN cards : s.cs[i] = cards[i]
         /\ u = 0 => s.cs[s.id].rank = rank
    BY <2>2, <2>6, <2>7, <2>8, <2>9
  <2> QED
    BY <2>10 DEF s
<1> QED
  BY <1>1, <1>2

\* new is cs with another rank on its card i.
Patched(new, cs, i, rank) ==
  /\ new \in Seq(Card) /\ DOMAIN new = DOMAIN cs /\ new[i].rank = rank /\ new[i].uuid = cs[i].uuid
  /\ \A j \in DOMAIN cs : j # i => new[j] = cs[j]

\* patchMessage changes the rank of one card.
LEMMA PatchIs ==
  ASSUME NEW cs \in Seq(Card), NEW i, i \in DOMAIN cs, NEW rank \in Nat
  PROVE  Patched(Patch(cs, i, rank), cs, i, rank)
<1>1. cs[i] \in Card /\ DOMAIN cs = 1 .. Len(cs) /\ Len(cs) \in Nat
  OBVIOUS
<1> DEFINE new == [cs[i] EXCEPT !.rank = rank]
<1>2. new \in Card /\ new.rank = rank /\ new.uuid = cs[i].uuid
  BY <1>1 DEF Card
<1>3. Patch(cs, i, rank) = [cs EXCEPT ![i] = new]
  BY DEF Patch
<1> HIDE DEF new
<1> QED
  BY <1>1, <1>2, <1>3 DEF Patched

\* A patch of a card that the platform has.
LEMMA PatchTouches ==
  ASSUME CardType, NEW cs, NEW u \in Nat \ {0}, NEW i, NEW rank \in Nat, Touched(cs, u), i \in DOMAIN cs, cs[i].uuid = u
  PROVE  Touched(Patch(cs, i, rank), u) /\ Patch(cs, i, rank)[i].rank = rank
<1> DEFINE new == Patch(cs, i, rank)
<1>1. cs \in Seq(Card)
  BY DEF Touched
<1>2. Patched(new, cs, i, rank)
  BY <1>1, PatchIs
<1> HIDE DEF new
<1>3. ASSUME NEW j \in DOMAIN cards
      PROVE  new[j].uuid = cards[j].uuid /\ (u = 0 \/ cards[j].uuid # u => new[j] = cards[j])
  BY <1>2, <1>3 DEF Touched, Patched
<1>4. ASSUME NEW j \in DOMAIN new PROVE j \in DOMAIN cards \/ new[j].uuid = u
  BY <1>2, <1>4 DEF Touched, Patched
<1>5. Touched(new, u)
  BY <1>2, <1>3, <1>4 DEF Touched, Patched
<1> QED
  BY <1>2, <1>5 DEF new, Patched

\* The cards after an attempt, and the uuid it was about.
LEMMA AttemptTouches ==
  ASSUME CardType, NEW ev, ev.rank \in Nat, NEW done \in {"none", "half", "all"}, done = "half" => TwoRequests(ev)
  PROVE  \/ \E u \in {0, live.uuid} : Touched(CardsAfter(ev, done), u)
         \/ ev.kind = "score" /\ ev.rank > 0 /\ Touched(CardsAfter(ev, done), ScoreEntry.uuid)
<1>t. live.uuid \in Nat /\ live.id \in Nat /\ uuids \in Nat
  BY DEF CardType
<1>h. live.id # 0 => live.uuid # 0 /\ live.id \in DOMAIN cards /\ cards[live.id].uuid = live.uuid
  BY DEF CardType
<1>1. CASE done = "none"
  <2>1. CardsAfter(ev, done) = cards
    BY <1>1 DEF CardsAfter
  <2> QED
    BY <2>1, NoneTouched
<1>2. CASE done = "half"
  <2>1. CardsAfter(ev, done) = Send(live.uuid, ev.rank).cs
    BY <1>2 DEF CardsAfter
  <2>2. Touched(Send(live.uuid, ev.rank).cs, live.uuid)
    BY <1>t, SendIs
  <2> QED
    BY <2>1, <2>2
<1>3. CASE done = "all" /\ ev.kind = "score" /\ ev.rank > 0
  <2>1. CardsAfter(ev, done) = ScoreCards(ScoreEntry, ev.rank)
    BY <1>3 DEF CardsAfter
  <2>2. ScoreEntry.uuid \in Nat \ {0} /\ (ScoreEntry.id # 0 => ScoreEntry.id = live.id /\ ScoreEntry.uuid = live.uuid)
    BY <1>t DEF ScoreEntry
  <2>3. CASE ScoreEntry.id # 0
    <3>1. ScoreCards(ScoreEntry, ev.rank) = Patch(cards, live.id, ev.rank)
      BY <2>2, <2>3 DEF ScoreCards
    <3>2. live.uuid # 0 /\ Touched(cards, live.uuid) /\ live.id \in DOMAIN cards /\ cards[live.id].uuid = live.uuid
      BY <1>h, <2>2, <2>3, NoneTouched
    <3>3. Touched(Patch(cards, live.id, ev.rank), live.uuid)
      BY <1>t, <3>2, PatchTouches
    <3> QED
      BY <1>3, <2>1, <2>2, <2>3, <3>1, <3>3
  <2>4. CASE ScoreEntry.id = 0
    <3>1. ScoreCards(ScoreEntry, ev.rank) = Send(ScoreEntry.uuid, ev.rank).cs
      BY <2>4 DEF ScoreCards
    <3>2. Touched(Send(ScoreEntry.uuid, ev.rank).cs, ScoreEntry.uuid)
      BY <2>2, SendIs
    <3> QED
      BY <1>3, <2>1, <3>1, <3>2
  <2> QED
    BY <2>3, <2>4
<1>4. CASE done = "all" /\ ev.kind = "end" /\ ev.rank > 0
  <2>1. CardsAfter(ev, done) = GameEndCards(live, ev.rank)
    BY <1>4 DEF CardsAfter
  <2>2. Touched(GameEndCards(live, ev.rank), live.uuid)
    <3>1. CASE live.uuid = 0
      <4>1. GameEndCards(live, ev.rank) = Send(0, ev.rank).cs
        BY <3>1 DEF GameEndCards
      <4> QED
        BY <3>1, <4>1, SendIs
    <3>2. CASE live.uuid # 0 /\ live.id # 0
      <4>1. GameEndCards(live, ev.rank) = Patch(cards, live.id, ev.rank)
        BY <3>2 DEF GameEndCards
      <4>2. Touched(cards, live.uuid) /\ live.id \in DOMAIN cards /\ cards[live.id].uuid = live.uuid
        BY <1>h, <3>2, NoneTouched
      <4>3. Touched(Patch(cards, live.id, ev.rank), live.uuid)
        BY <1>t, <3>2, <4>2, PatchTouches
      <4> QED
        BY <4>1, <4>3
    <3>3. CASE live.uuid # 0 /\ live.id = 0
      <4> DEFINE s == Send(live.uuid, ev.rank)
      <4>1. GameEndCards(live, ev.rank) = Patch(s.cs, s.id, ev.rank)
        BY <3>3 DEF GameEndCards
      <4>2. Touched(s.cs, live.uuid) /\ s.id \in DOMAIN s.cs /\ s.cs[s.id].uuid = live.uuid
        BY <1>t, SendIs
      <4> HIDE DEF s
      <4> QED
        BY <1>t, <3>3, <4>1, <4>2, PatchTouches
    <3> QED
      BY <3>1, <3>2, <3>3
  <2> QED
    BY <2>1, <2>2
<1>5. CASE done = "all" /\ ~(ev.kind = "score" /\ ev.rank > 0) /\ ~(ev.kind = "end" /\ ev.rank > 0)
  <2>1. CardsAfter(ev, done) = cards
    BY <1>5 DEF CardsAfter
  <2> QED
    BY <2>1, NoneTouched
<1> QED
  BY <1>1, <1>2, <1>3, <1>4, <1>5

\* The end of a round leaves a card with its ranking.
LEMMA EndShows ==
  ASSUME CardType, NEW rank \in Nat
  PROVE  \E i \in DOMAIN GameEndCards(live, rank) : GameEndCards(live, rank)[i].rank = rank
<1>t. live.uuid \in Nat /\ live.id \in Nat /\ cards \in Seq(Card)
  BY DEF CardType, Card
<1>h. live.id # 0 => live.uuid # 0 /\ live.id \in DOMAIN cards /\ cards[live.id].uuid = live.uuid
  BY DEF CardType
<1>1. CASE live.uuid = 0
  <2> DEFINE s == Send(0, rank)
  <2>1. GameEndCards(live, rank) = s.cs
    BY <1>1 DEF GameEndCards
  <2>2. s.id \in DOMAIN s.cs /\ s.cs[s.id].rank = rank
    BY SendIs
  <2> HIDE DEF s
  <2> QED
    BY <2>1, <2>2
<1>2. CASE live.uuid # 0 /\ live.id # 0
  <2>1. GameEndCards(live, rank) = Patch(cards, live.id, rank)
    BY <1>2 DEF GameEndCards
  <2>2. live.id \in DOMAIN cards /\ Patched(Patch(cards, live.id, rank), cards, live.id, rank)
    BY <1>h, <1>t, <1>2, PatchIs
  <2> QED
    BY <2>1, <2>2 DEF Patched
<1>3. CASE live.uuid # 0 /\ live.id = 0
  <2> DEFINE s == Send(live.uuid, rank)
  <2>1. GameEndCards(live, rank) = Patch(s.cs, s.id, rank)
    BY <1>3 DEF GameEndCards
  <2>2. Touched(s.cs, live.uuid) /\ s.id \in DOMAIN s.cs
    BY <1>t, SendIs
  <2> HIDE DEF s
  <2>3. Patched(Patch(s.cs, s.id, rank), s.cs, s.id, rank)
    BY <2>2, PatchIs DEF Touched
  <2> QED
    BY <2>1, <2>2, <2>3 DEF Patched
<1> QED
  BY <1>1, <1>2, <1>3

\* What is settled stays: the card, its ranking, and that it is settled.
CardsKept ==
  \A i \in DOMAIN cards : Settled(i) => i \in DOMAIN cards' /\ Settled(i)' /\ cards'[i].rank = cards[i].rank

\* An attempt on the card target keeps the settled cards.
LEMMA AttemptKeeps ==
  ASSUME CardType, NEW ev, ev.rank \in Nat, NEW done \in {"none", "half", "all"},
         NEW answer \in {"ok", "retry", "no"}, done = "half" => TwoRequests(ev),
         answer = "ok" /\ ev.kind = "score" /\ ev.rank > 0 => done = "all",
         cards' = CardsAfter(ev, done), live' = LiveAfter(ev, answer),
         uuids' = IF ev.kind = "score" /\ ev.rank > 0 /\ live.uuid = 0 THEN uuids + 1 ELSE uuids
  PROVE  CardType' /\ CardsKept
<1> DEFINE score == ev.kind = "score" /\ ev.rank > 0
<1>t. /\ live \in [uuid : Nat, id : Nat] /\ live.uuid \in Nat /\ live.id \in Nat /\ uuids \in Nat /\ cards \in Seq(Card)
      /\ live.uuid <= uuids /\ \A i \in DOMAIN cards : cards[i].uuid <= uuids /\ cards[i].uuid \in Nat
      /\ live.id # 0 => live.uuid # 0 /\ live.id \in DOMAIN cards /\ cards[live.id].uuid = live.uuid
  <2>1. cards \in Seq(Card) /\ live \in [uuid : Nat, id : Nat] /\ uuids \in Nat
    BY DEF CardType, Card
  <2>2. \A i \in DOMAIN cards : cards[i].uuid \in Nat
    <3>1. \A i \in DOMAIN cards : cards[i] \in Card
      BY <2>1
    <3> QED
      BY <3>1 DEF Card
  <2>3. live.uuid \in Nat /\ live.id \in Nat
    BY <2>1
  <2> QED
    BY <2>1, <2>2, <2>3 DEF CardType
<1>u. /\ ScoreEntry \in [uuid : Nat, id : Nat] /\ ScoreEntry.uuid \in Nat \ {0} /\ ScoreEntry.id \in Nat
      /\ live.uuid # 0 => ScoreEntry = live
      /\ live.uuid = 0 => ScoreEntry.uuid = uuids + 1 /\ ScoreEntry.id = 0
  BY <1>t DEF ScoreEntry
<1>1. PICK u \in Nat : /\ Touched(cards', u) /\ (u \in {0, live.uuid} \/ (score /\ u = ScoreEntry.uuid))
  BY <1>t, <1>u, AttemptTouches
<1>2. uuids' \in Nat /\ uuids <= uuids' /\ u <= uuids' /\ (score => ScoreEntry.uuid <= uuids')
  BY <1>t, <1>u, <1>1
<1>3. cards' \in Seq(Card) /\ DOMAIN cards \subseteq DOMAIN cards'
      /\ \A i \in DOMAIN cards' : cards'[i].uuid <= uuids'
  <2>1. ASSUME NEW i \in DOMAIN cards' PROVE cards'[i].uuid <= uuids'
    <3>1. CASE i \in DOMAIN cards
      <4>1. cards'[i].uuid = cards[i].uuid /\ cards[i].uuid <= uuids /\ cards[i].uuid \in Nat
        BY <1>t, <1>1, <3>1 DEF Touched
      <4> QED
        BY <1>t, <1>2, <4>1
    <3>2. CASE i \notin DOMAIN cards
      <4>1. cards'[i].uuid = u
        BY <1>1, <2>1, <3>2 DEF Touched
      <4> QED
        BY <1>2, <4>1
    <3> QED
      BY <3>1, <3>2
  <2> QED
    BY <1>1, <2>1 DEF Touched
<1>4. \/ live' = NoEntry
      \/ live' = live
      \/ score /\ live' = ScoreEntry
      \/ score /\ answer = "ok" /\ ScoreEntry.id = 0
           /\ live' = [ScoreEntry EXCEPT !.id = Send(ScoreEntry.uuid, ev.rank).id]
  <2>1. CASE score /\ answer = "ok"
    <3>1. live' = [ScoreEntry EXCEPT !.id = IF @ # 0 THEN @ ELSE Send(ScoreEntry.uuid, ev.rank).id]
      BY <2>1 DEF LiveAfter
    <3>2. CASE ScoreEntry.id # 0
      BY <1>u, <2>1, <3>1, <3>2
    <3>3. CASE ScoreEntry.id = 0
      BY <1>u, <2>1, <3>1, <3>3
    <3> QED
      BY <3>2, <3>3
  <2>2. CASE ~(score /\ answer = "ok")
    BY <2>2 DEF LiveAfter
  <2> QED
    BY <2>1, <2>2
<1>5. /\ live' \in [uuid : Nat, id : Nat] /\ live'.uuid <= uuids'
      /\ live'.id # 0 => live'.uuid # 0 /\ live'.id \in DOMAIN cards' /\ cards'[live'.id].uuid = live'.uuid
      /\ live'.uuid \in {0, live.uuid} \/ (live.uuid = 0 /\ live'.uuid = uuids + 1)
  <2>0. live.id # 0 => live.uuid # 0 /\ live.id \in DOMAIN cards' /\ cards'[live.id].uuid = live.uuid
    BY <1>t, <1>1 DEF Touched
  <2>1. CASE live' = NoEntry
    <3>1. live' \in [uuid : Nat, id : Nat] /\ live'.uuid = 0 /\ live'.id = 0
      BY <2>1 DEF NoEntry
    <3> QED
      BY <1>2, <3>1
  <2>2. CASE live' = live
    BY <1>t, <1>2, <2>0, <2>2
  <2>3. CASE score /\ live' = ScoreEntry
    BY <1>t, <1>u, <1>2, <2>0, <2>3
  <2>4. CASE score /\ answer = "ok" /\ ScoreEntry.id = 0
             /\ live' = [ScoreEntry EXCEPT !.id = Send(ScoreEntry.uuid, ev.rank).id]
    <3> DEFINE s == Send(ScoreEntry.uuid, ev.rank)
    <3>1. s.id \in DOMAIN s.cs /\ s.id \in Nat \ {0} /\ s.cs[s.id].uuid = ScoreEntry.uuid
      BY <1>u, SendIs
    <3>2. cards' = s.cs
      BY <2>4 DEF CardsAfter, ScoreCards
    <3> HIDE DEF s
    <3>3. live' = [ScoreEntry EXCEPT !.id = s.id]
      BY <2>4 DEF s
    <3>4. live' \in [uuid : Nat, id : Nat] /\ live'.id = s.id /\ live'.uuid = ScoreEntry.uuid
      BY <1>u, <3>1, <3>3
    <3> QED
      BY <1>t, <1>u, <1>2, <2>4, <3>1, <3>2, <3>4
  <2> QED
    BY <1>4, <2>1, <2>2, <2>3, <2>4
<1>6. CardType'
  BY <1>2, <1>3, <1>5 DEF CardType, Card
<1>7. ASSUME NEW i \in DOMAIN cards, Settled(i)
      PROVE  i \in DOMAIN cards' /\ Settled(i)' /\ cards'[i].rank = cards[i].rank
  <2>1. /\ i \in DOMAIN cards' /\ cards'[i].uuid = cards[i].uuid
        /\ u = 0 \/ cards[i].uuid # u => cards'[i] = cards[i]
    BY <1>1 DEF Touched
  <2>2. cards[i].uuid \in Nat /\ cards[i].uuid <= uuids /\ (live.uuid # 0 => cards[i].uuid # live.uuid)
    BY <1>t, <1>7 DEF Settled
  <2>3. u = 0 \/ cards[i].uuid # u
    BY <1>t, <1>u, <1>1, <2>2
  <2>4. live'.uuid # 0 => cards[i].uuid # live'.uuid
    BY <1>t, <1>5, <2>2
  <2> QED
    BY <2>1, <2>3, <2>4 DEF Settled
<1> QED
  BY <1>6, <1>7 DEF CardsKept

\* A ranking that is shown stays shown while the settled cards are kept.
LEMMA ShownStays ==
  ASSUME CardsKept, inbox' = inbox, refused \subseteq refused', NEW n, FinalShown(n)
  PROVE  FinalShown(n)'
<1> SUFFICES ASSUME inbox[n].kind = "end", inbox[n].rank > 0, <<n, "card">> \notin refused
             PROVE  \E i \in DOMAIN cards' : Settled(i)' /\ cards'[i].rank = inbox[n].rank
  BY DEF FinalShown
<1>1. PICK i \in DOMAIN cards : Settled(i) /\ cards[i].rank = inbox[n].rank
  BY DEF FinalShown
<1> QED
  BY <1>1 DEF CardsKept

\* The cards as they are, or the adapter without its entry.
LEMMA CardsFrame ==
  ASSUME CardType, UNCHANGED <<cards, uuids>>, live' = live \/ live' = NoEntry
  PROVE  CardType' /\ CardsKept
<1>1. live' # live => live' \in [uuid : Nat, id : Nat] /\ live'.uuid = 0 /\ live'.id = 0
  BY DEF NoEntry
<1>2. CASE live' = live
  BY <1>2 DEF CardType, CardsKept, Settled
<1>3. CASE live' # live
  BY <1>1, <1>3 DEF CardType, CardsKept, Settled
<1> QED
  BY <1>2, <1>3

\* What an attempt does to the cards.
LEMMA AttemptCards ==
  ASSUME WhInv, CardInv, NEW done \in {"none", "half", "all"}, NEW answer \in {"ok", "retry", "no"},
         WhAttempt(done, answer)
  PROVE  /\ CardType' /\ CardsKept
         /\ answer # "retry" /\ Head(todo) = "card" => FinalShown(whCursor + 1)'
<1>1. /\ UNCHANGED <<inbox, whCursor>> /\ stage = "targets"
      /\ done = "half" => Head(todo) = "card" /\ TwoRequests(Event)
      /\ refused' = IF answer = "no" THEN refused \cup {Pair} ELSE refused
      /\ IF NoRequest(Head(todo), Event) THEN done = "none" /\ answer = "ok"
         ELSE (answer = "ok" => done = "all") /\ (answer = "no" => done # "all")
      /\ IF Head(todo) = "card"
         THEN cards' = CardsAfter(Event, done) /\ live' = LiveAfter(Event, answer) /\ uuids' = Drawn(Event)
         ELSE UNCHANGED <<cards, live, uuids>>
  BY DEF WhAttempt
<1>2. CardType /\ Event = inbox[whCursor + 1] /\ Event.rank \in Nat /\ whCursor \in Nat
  <2>1. whCursor < Len(inbox) /\ inbox \in Seq([kind : STRING, rank : Nat]) /\ whCursor \in Nat
    BY <1>1 DEF WhInv, StageServed, WhType
  <2>2. whCursor + 1 \in 1 .. Len(inbox)
    BY <2>1
  <2>3. inbox[whCursor + 1] \in [kind : STRING, rank : Nat]
    <3> DEFINE Ev == [kind : STRING, rank : Nat]
    <3>1. inbox \in Seq(Ev)
      BY <2>1
    <3> HIDE DEF Ev
    <3>2. inbox[whCursor + 1] \in Ev
      BY <2>2, <3>1
    <3> QED
      BY <3>2 DEF Ev
  <2>4. inbox[whCursor + 1].rank \in Nat
    BY <2>3
  <2> QED
    BY <2>1, <2>4 DEF Event, CardInv
<1>3. CASE Head(todo) # "card"
  BY <1>1, <1>2, <1>3, CardsFrame
<1>4. CASE Head(todo) = "card"
  <2>1. uuids' = IF Event.kind = "score" /\ Event.rank > 0 /\ live.uuid = 0 THEN uuids + 1 ELSE uuids
    BY <1>1, <1>4 DEF Drawn
  <2>2. answer = "ok" /\ Event.kind \in {"score", "end"} /\ Event.rank > 0 => done = "all"
    BY <1>1, <1>2 DEF NoRequest
  <2>3. cards' = CardsAfter(Event, done) /\ live' = LiveAfter(Event, answer)
    BY <1>1, <1>4
  <2>4. CardType' /\ CardsKept
    <3> DEFINE ev == Event
    <3>1. ev.rank \in Nat /\ (done = "half" => TwoRequests(ev))
      BY <1>1, <1>2
    <3>2. answer = "ok" /\ ev.kind = "score" /\ ev.rank > 0 => done = "all"
      BY <2>2
    <3>3. /\ cards' = CardsAfter(ev, done) /\ live' = LiveAfter(ev, answer)
          /\ uuids' = IF ev.kind = "score" /\ ev.rank > 0 /\ live.uuid = 0 THEN uuids + 1 ELSE uuids
      BY <2>1, <2>3
    <3> HIDE DEF ev
    <3> QED
      BY <1>2, <3>1, <3>2, <3>3, AttemptKeeps
  <2>5. ASSUME answer # "retry" PROVE FinalShown(whCursor + 1)'
    <3>1. CASE answer = "no"
      <4>1. <<whCursor + 1, "card">> \in refused'
        BY <1>1, <1>4, <3>1 DEF Pair
      <4> QED
        BY <1>1, <4>1 DEF FinalShown
    <3>2. CASE answer = "ok" /\ Event.kind = "end" /\ Event.rank > 0
      <4>1. cards' = GameEndCards(live, Event.rank)
        BY <2>2, <2>3, <3>2 DEF CardsAfter
      <4>2. live' = NoEntry
        BY <2>3, <3>2 DEF LiveAfter
      <4>3. PICK i \in DOMAIN cards' : cards'[i].rank = Event.rank
        BY <1>2, <4>1, EndShows
      <4>4. Settled(i)'
        BY <4>2 DEF Settled, NoEntry
      <4> QED
        BY <1>1, <1>2, <4>3, <4>4 DEF FinalShown
    <3>3. CASE ~(Event.kind = "end" /\ Event.rank > 0)
      BY <1>1, <1>2, <3>3 DEF FinalShown
    <3> QED
      BY <2>5, <3>1, <3>2, <3>3
  <2> QED
    BY <2>4, <2>5
<1> QED
  BY <1>3, <1>4

\* The attempt keeps the invariant.
LEMMA AttemptShows ==
  ASSUME WhInv, CardInv, NEW done \in {"none", "half", "all"}, NEW answer \in {"ok", "retry", "no"},
         WhAttempt(done, answer)
  PROVE  CardInv'
<1>1. /\ UNCHANGED <<inbox, whCursor, whCursorFile, entries, ledgerFile>> /\ stage = "targets"
      /\ refused \subseteq refused'
      /\ \/ answer # "retry" /\ stage' = "mark" /\ todo' = todo
         \/ stage' = stage /\ todo' = todo
         \/ stage' = "idle" /\ todo' = <<>>
  BY DEF WhAttempt, Return
<1>2. CardType' /\ CardsKept /\ (answer # "retry" /\ Head(todo) = "card" => FinalShown(whCursor + 1)')
  BY AttemptCards
<1>3. \A n : FinalShown(n) => FinalShown(n)'
  BY <1>1, <1>2, ShownStays
<1>4. PastShown'
  BY <1>1, <1>3 DEF CardInv, PastShown
<1>5. "card" \in ToSet(todo) \/ FinalShown(whCursor + 1)'
  BY <1>1, <1>3 DEF CardInv, StageShown
<1>6. StageShown'
  BY <1>1, <1>2, <1>5 DEF StageShown, FinalShown
<1> QED
  BY <1>2, <1>4, <1>6 DEF CardInv

\* A step that leaves the cards alone keeps what is shown.
LEMMA ShownFrame ==
  ASSUME UNCHANGED <<inbox, refused, cards>>, live' = live \/ live' = NoEntry, NEW n, FinalShown(n)
  PROVE  FinalShown(n)'
<1>1. CardsKept
  <2>1. CASE live' = live
    BY <2>1 DEF CardsKept, Settled
  <2>2. CASE live' = NoEntry
    BY <2>2 DEF CardsKept, Settled, NoEntry
  <2> QED
    BY <2>1, <2>2
<1> QED
  BY <1>1, ShownStays

\* The other steps of Process, and the restart.
LEMMA StepShows ==
  ASSUME WhInv, CardInv,
         \/ WhBegin \/ WhSkip \/ WhMark \/ WhMarkFails \/ WhCursor \/ WhCursorFails \/ WhCrash
         \/ \E rewritten \in BOOLEAN : WhComplete(rewritten)
  PROVE  CardInv'
<1>t. WhType /\ CardType /\ PastShown /\ StageShown /\ StageServed
  BY DEF WhInv, CardInv
<1>1. UNCHANGED <<inbox, refused, cards, uuids>> /\ (live' = live \/ live' = NoEntry)
  <2>1. CASE WhCrash
    BY <2>1 DEF WhCrash
  <2>2. CASE WhMark \/ WhMarkFails \/ WhCursor \/ WhCursorFails
    BY <2>2 DEF WhMark, WhMarkFails, WhCursor, WhCursorFails
  <2>3. CASE WhBegin \/ WhSkip \/ \E rewritten \in BOOLEAN : WhComplete(rewritten)
    BY <2>3 DEF WhBegin, WhSkip, WhComplete
  <2> QED
    BY <2>1, <2>2, <2>3
<1>2. CardType'
  BY <1>t, <1>1, CardsFrame
<1>3. \A n : FinalShown(n) => FinalShown(n)'
  BY <1>1, ShownFrame
<1>c. whCursor \in Nat /\ whCursorFile \in Nat
  BY <1>t DEF WhType
\* What a step adds to the ledger or passes has been shown.
<1>p. stage = "mark" => Pair[1] = whCursor + 1 /\ Pair[2] = Head(todo)
  BY DEF Pair
<1>4. ASSUME entries' \cup ledgerFile' \subseteq entries \cup ledgerFile \cup (IF stage = "mark" THEN {Pair} ELSE {}),
             \A n \in 1 .. whCursorFile' : n \in 1 .. whCursorFile \/ (stage = "cursor" /\ n = whCursor + 1)
      PROVE  PastShown'
  <2>1. ASSUME NEW p \in entries' \cup ledgerFile', p[2] = "card" PROVE FinalShown(p[1])
    <3>1. CASE p \in entries \cup ledgerFile
      BY <1>t, <2>1, <3>1 DEF PastShown
    <3>2. CASE stage = "mark" /\ p = Pair
      BY <1>t, <1>p, <2>1, <3>2 DEF StageShown
    <3> QED
      BY <1>4, <2>1, <3>1, <3>2
  <2>2. ASSUME NEW n \in 1 .. whCursorFile' PROVE FinalShown(n)
    BY <1>t, <1>4 DEF PastShown, StageShown
  <2> QED
    BY <1>3, <2>1, <2>2 DEF PastShown
<1>5. CASE WhBegin
  <2>1. UNCHANGED <<entries, ledgerFile, whCursor, whCursorFile>> /\ stage' = "targets"
        /\ todo' = IF Convert(Event.kind) THEN Plan(Event) ELSE <<>>
    BY <1>5 DEF WhBegin
  <2>2. PastShown'
    BY <1>4, <2>1
  <2>3. CASE Event.kind = "end"
    <3>1. todo' = <<"web">> \o <<"card">>
      BY <2>1, <2>3 DEF Convert, Plan, Subscribes, WhTargets
    <3>2. 2 \in DOMAIN todo' /\ todo'[2] = "card"
      BY <3>1
    <3>3. "card" \in ToSet(todo')
      BY <3>2 DEF ToSet
    <3> QED
      BY <1>2, <2>1, <2>2, <3>3 DEF CardInv, StageShown
  <2>4. CASE Event.kind # "end"
    <3>1. FinalShown(whCursor + 1)'
      BY <1>1, <2>1, <2>4 DEF FinalShown, Event
    <3> QED
      BY <1>2, <2>1, <2>2, <3>1 DEF CardInv, StageShown
  <2> QED
    BY <2>3, <2>4
<1>6. CASE WhSkip
  <2>1. UNCHANGED <<entries, ledgerFile, whCursor, whCursorFile>> /\ stage = "targets"
    BY <1>6 DEF WhSkip
  <2>2. PastShown'
    BY <1>4, <2>1
  <2>3. "card" \in ToSet(todo) \/ FinalShown(whCursor + 1)
    BY <1>t, <2>1 DEF StageShown
  <2>4. CASE todo = <<>>
    <3>1. stage' = "cursor" /\ ToSet(todo) = {}
      BY <1>6, <2>4 DEF WhSkip, ToSet
    <3>2. FinalShown(whCursor + 1)'
      BY <1>3, <2>1, <2>3, <3>1 DEF FinalShown
    <3> QED
      BY <1>2, <2>2, <3>1, <3>2 DEF CardInv, StageShown
  <2>5. CASE todo # <<>>
    <3>1. stage' = "targets" /\ todo' = Tail(todo) /\ Pair \in entries
      BY <1>6, <2>1, <2>5 DEF WhSkip
    <3>2. Pair[1] = whCursor + 1 /\ Pair[2] = Head(todo) /\ ToSet(todo) = {Head(todo)} \cup ToSet(Tail(todo))
      BY <1>t, <2>1, <2>5, PairIs DEF StageServed
    <3>3. "card" \in ToSet(todo') \/ FinalShown(whCursor + 1)
      BY <1>t, <2>3, <3>1, <3>2 DEF PastShown
    <3>4. "card" \in ToSet(todo') \/ FinalShown(whCursor + 1)'
      BY <1>3, <2>1, <3>3 DEF FinalShown
    <3> QED
      BY <1>2, <2>2, <3>1, <3>4 DEF CardInv, StageShown
  <2> QED
    BY <2>4, <2>5
<1>7. CASE WhMark
  <2>1. /\ UNCHANGED <<whCursor, whCursorFile>> /\ stage = "mark" /\ stage' = "targets" /\ todo' = Tail(todo)
        /\ entries' = entries \cup {Pair} /\ ledgerFile' \subseteq ledgerFile \cup {Pair}
    BY <1>7 DEF WhMark, Readable
  <2>2. PastShown'
    BY <1>4, <2>1
  <2>3. ToSet(todo) = {Head(todo)} \cup ToSet(Tail(todo))
    BY <1>t, <2>1, PairIs DEF StageServed
  <2>4. "card" \in ToSet(todo') \/ FinalShown(whCursor + 1)
    BY <1>t, <2>1, <2>3 DEF StageShown
  <2>5. "card" \in ToSet(todo') \/ FinalShown(whCursor + 1)'
    BY <1>3, <2>1, <2>4 DEF FinalShown
  <2> QED
    BY <1>2, <2>1, <2>2, <2>5 DEF CardInv, StageShown
<1>8. CASE WhMarkFails \/ WhCursor \/ WhCursorFails \/ WhCrash \/ \E rewritten \in BOOLEAN : WhComplete(rewritten)
  <2>1. /\ stage' \in {"idle", "complete"}
        /\ entries' \cup ledgerFile' \subseteq entries \cup ledgerFile \cup (IF stage = "mark" THEN {Pair} ELSE {})
        /\ \/ whCursorFile' = whCursorFile
           \/ stage = "cursor" /\ whCursorFile' = whCursor + 1
    <3>1. CASE WhMarkFails
      BY <3>1 DEF WhMarkFails, Return, Readable
    <3>2. CASE WhCursor
      BY <3>2 DEF WhCursor
    <3>3. CASE WhCursorFails
      BY <3>3 DEF WhCursorFails, Return
    <3>4. CASE WhCrash
      BY <3>4 DEF WhCrash, Return, Readable
    <3>5. CASE \E rewritten \in BOOLEAN : WhComplete(rewritten)
      BY <3>5 DEF WhComplete, Return
    <3> QED
      BY <1>8, <3>1, <3>2, <3>3, <3>4, <3>5
  <2>2. \A n \in 1 .. whCursorFile' : n \in 1 .. whCursorFile \/ (stage = "cursor" /\ n = whCursor + 1)
    <3>1. whCursor <= whCursorFile
      BY <1>t DEF WhType
    <3> QED
      BY <1>c, <2>1, <3>1
  <2>3. PastShown'
    BY <1>4, <2>1, <2>2
  <2> QED
    BY <1>2, <2>1, <2>3 DEF CardInv, StageShown
<1> QED
  BY <1>5, <1>6, <1>7, <1>8

\* The cards' invariant holds at the start ...
LEMMA CardInvInit == WhInit => CardInv
<1> SUFFICES ASSUME WhInit PROVE CardInv
  OBVIOUS
<1>1. CardType
  BY DEF WhInit, CardType, NoEntry
<1>2. PastShown /\ StageShown
  BY DEF WhInit, PastShown, StageShown
<1> QED
  BY <1>1, <1>2 DEF CardInv

\* ... and every step keeps it.
LEMMA CardInvStep == WhInv /\ CardInv /\ [WhNext]_whVars => CardInv'
<1> SUFFICES ASSUME WhInv, CardInv, [WhNext]_whVars PROVE CardInv'
  OBVIOUS
<1>1. CASE UNCHANGED whVars
  BY <1>1 DEF whVars, CardInv, CardType, PastShown, StageShown, FinalShown, Settled
<1>2. CASE \E done \in {"none", "half", "all"}, answer \in {"ok", "retry", "no"} : WhAttempt(done, answer)
  BY <1>2, AttemptShows
<1>3. CASE WhNext /\ ~\E done \in {"none", "half", "all"}, answer \in {"ok", "retry", "no"} : WhAttempt(done, answer)
  BY <1>3, StepShows DEF WhNext
<1> QED
  BY <1>1, <1>2, <1>3

\* A round whose end the card target has taken has a card with its final ranking, for
\* any sequence of rounds, lost answers and crashes: deliverGameEndLive patches the card
\* that the platform returns for an old uuid, and no later round can patch that card.
THEOREM FinalRanksAreShown == WhSpec => []FinalRankShown
<1>1. CardInv => FinalRankShown
  BY DEF CardInv, PastShown, FinalShown, FinalRankShown
<1> QED
  BY <1>1, WhInvInit, WhInvStep, CardInvInit, CardInvStep, PTL DEF WhSpec
=============================================================================
