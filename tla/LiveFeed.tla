------------------------------ MODULE LiveFeed ------------------------------
(***************************************************************************)
(* The WebSocket feed (httpapi/ws).  Clients subscribe to a room or, as    *)
(* administrators, to all rooms.  Some changes of the rooms are announced  *)
(* by NotifyWebSocket and some are not.  An announcement is pushed to the  *)
(* room's subscribers at once and to the administrators by a debounced     *)
(* timer that reads the rooms anew.  A frame is the version of the rooms   *)
(* it shows, together with the short reply in front of it.  A client whose *)
(* buffer is full is closed.  The room subscribed to is one that exists.   *)
(***************************************************************************)
EXTENDS Naturals, Sequences, FiniteSets, SequencesExt

CONSTANTS Clients,
          SendBuffer,      \* wsSendBuffer
          MaxVersion,      \* bound on the changes of the rooms
          MaxFlushes       \* bound on the flushes that overlap

ASSUME FeedAssumption == {SendBuffer, MaxVersion, MaxFlushes} \subseteq Nat

VARIABLES version,         \* of the rooms
          admins, roomSubs,  \* wsHub.admins, roomSubs of the room
          wsConn,          \* new, open, closed (done), removed
          queued,          \* length of send
          adminLast, roomLast,   \* the last list and the last room frame put into send
          task,            \* what the client's reader is doing: [pc, v]
          armed, adminPending,   \* adminTimer # nil, adminPending
          flushes,         \* flushAdminUpdate calls past h.mu: [to, v]
          notices,         \* NotifyWebSocket under each of the Locks: [pc, to, v]
          announced, pushed,     \* history: the rooms BroadcastAdminUpdate and
                                 \* BroadcastRoomUpdate were last called for,
          crossed, raced   \* and whose lists, and whose frames, may arrive out of order

fVars == <<version, admins, roomSubs, wsConn, queued, adminLast, roomLast, task,
           armed, adminPending, flushes, notices, announced, pushed, crossed, raced>>
told == <<announced, pushed, crossed, raced>>

Resting == [pc |-> "rest", v |-> 0]
NoNotice == [pc |-> "rest", to |-> {}, v |-> 0]

\* NotifyWebSocket runs under state.Mu, or, called by handlePlayed and
\* abortPlayingAndCheck, under room.Mu alone.
Locks == {"state", "room"}

FInit ==
  /\ version = 1 /\ admins = {} /\ roomSubs = {}
  /\ wsConn = [c \in Clients |-> "new"] /\ queued = [c \in Clients |-> 0]
  /\ adminLast = [c \in Clients |-> 0] /\ roomLast = [c \in Clients |-> 0]
  /\ task = [c \in Clients |-> Resting]
  /\ armed = FALSE /\ adminPending = FALSE /\ flushes = <<>> /\ notices = [l \in Locks |-> NoNotice]
  /\ announced = 1 /\ pushed = 1 /\ crossed = {} /\ raced = {}

\* enqueue, for each of cs: what is sent, and who is closed for being slow.
Sent(cs) == {c \in cs : wsConn[c] = "open" /\ queued[c] < SendBuffer}
Enqueue(cs) ==
  /\ queued' = [c \in Clients |-> IF c \in Sent(cs) THEN queued[c] + 1 ELSE queued[c]]
  /\ wsConn' = [c \in Clients |-> IF c \in cs \ Sent(cs) /\ wsConn[c] = "open" THEN "closed" ELSE wsConn[c]]
ShowRoom(cs, v) == roomLast' = [c \in Clients |-> IF c \in Sent(cs) THEN v ELSE roomLast[c]]
ShowAdmin(cs, v) == adminLast' = [c \in Clients |-> IF c \in Sent(cs) THEN v ELSE adminLast[c]]

\* History: a push for the rooms w is made while an older one to c is on its
\* way; nothing orders the two sends.
Subscribing(c) == task[c].pc \in {"leave", "enter", "show"}
OlderFrame(c, w) ==
  \/ Subscribing(c) /\ task[c].v < w
  \/ \E l \in Locks : notices[l].pc = "send" /\ c \in notices[l].to /\ notices[l].v < w
OlderList(c) ==
  \/ task[c].pc = "shown" /\ task[c].v < version
  \/ \E i \in DOMAIN flushes : c \in flushes[i].to /\ flushes[i].v \in 1..(version - 1)

FramesFor(w) == pushed' = w /\ raced' = (raced \ roomSubs) \cup {c \in Clients : OlderFrame(c, w)}
ListsTo(cs) == crossed' = (crossed \ cs) \cup {c \in cs : OlderList(c)}

\* handle: a client connects.
Accept(c) ==
  /\ wsConn[c] = "new" /\ wsConn' = [wsConn EXCEPT ![c] = "open"]
  /\ UNCHANGED <<version, admins, roomSubs, queued, adminLast, roomLast, task, armed, adminPending, flushes, notices, told>>

\* writeLoop takes a frame; the write may fail and close the client.
Write(c, ok) ==
  /\ wsConn[c] = "open" /\ queued[c] > 0 /\ queued' = [queued EXCEPT ![c] = @ - 1]
  /\ wsConn' = IF ok THEN wsConn ELSE [wsConn EXCEPT ![c] = "closed"]
  /\ UNCHANGED <<version, admins, roomSubs, adminLast, roomLast, task, armed, adminPending, flushes, notices, told>>

\* The peer goes away; then readLoop ends and remove takes the client out.
Disconnect(c) ==
  /\ wsConn[c] = "open" /\ wsConn' = [wsConn EXCEPT ![c] = "closed"]
  /\ UNCHANGED <<version, admins, roomSubs, queued, adminLast, roomLast, task, armed, adminPending, flushes, notices, told>>

RemoveClient(c) ==
  /\ wsConn[c] = "closed" /\ task[c] = Resting
  /\ wsConn' = [wsConn EXCEPT ![c] = "removed"]
  /\ admins' = admins \ {c} /\ roomSubs' = roomSubs \ {c}
  /\ UNCHANGED <<version, queued, adminLast, roomLast, task, armed, adminPending, flushes, notices, told>>

StateMuFree == notices["state"].pc = "rest"
Doing(c, pc, v) == task' = [task EXCEPT ![c] = [pc |-> pc, v |-> v]]

\* subscribeRoom: the room is read under state.Mu, the client leaves its old
\* room and enters the new one under h.mu, and only then is the frame sent.
SubscribeRead(c) ==
  /\ wsConn[c] = "open" /\ task[c] = Resting /\ StateMuFree /\ Doing(c, "leave", version)
  /\ raced' = IF OlderFrame(c, version) THEN raced \cup {c} ELSE raced \ {c}
  /\ UNCHANGED <<version, admins, roomSubs, wsConn, queued, adminLast, roomLast, armed, adminPending, flushes, notices, announced, pushed, crossed>>

\* unsubscribeRoom
LeaveRoom(c) == roomSubs' = roomSubs \ {c}

SubscribeLeave(c) ==
  /\ task[c].pc = "leave" /\ Doing(c, "enter", task[c].v) /\ LeaveRoom(c)
  /\ UNCHANGED <<version, admins, wsConn, queued, adminLast, roomLast, armed, adminPending, flushes, notices, told>>

SubscribeEnter(c) ==
  /\ task[c].pc = "enter" /\ Doing(c, "show", task[c].v)
  /\ roomSubs' = roomSubs \cup {c}
  /\ UNCHANGED <<version, admins, wsConn, queued, adminLast, roomLast, armed, adminPending, flushes, notices, told>>

SubscribeShow(c) ==
  /\ task[c].pc = "show" /\ task' = [task EXCEPT ![c] = Resting]
  /\ Enqueue({c}) /\ ShowRoom({c}, task[c].v)
  /\ UNCHANGED <<version, admins, roomSubs, adminLast, armed, adminPending, flushes, notices, told>>

Unsubscribe(c) ==
  /\ wsConn[c] = "open" /\ task[c] = Resting
  /\ LeaveRoom(c) /\ Enqueue({c})
  /\ UNCHANGED <<version, admins, adminLast, roomLast, task, armed, adminPending, flushes, notices, told>>

\* admin_subscribe: first into admins, then svcSendAdminSnapshot reads the
\* rooms and sends them.
AdminSubscribe(c) ==
  /\ wsConn[c] = "open" /\ task[c] = Resting
  /\ admins' = admins \cup {c} /\ Doing(c, "snapshot", 0)
  /\ UNCHANGED <<version, roomSubs, wsConn, queued, adminLast, roomLast, armed, adminPending, flushes, notices, told>>

SnapshotRead(c) ==
  /\ task[c].pc = "snapshot" /\ StateMuFree /\ Doing(c, "shown", version) /\ ListsTo({c})
  /\ UNCHANGED <<version, admins, roomSubs, wsConn, queued, adminLast, roomLast, armed, adminPending, flushes, notices, announced, pushed, raced>>

SnapshotSend(c) ==
  /\ task[c].pc = "shown" /\ task' = [task EXCEPT ![c] = Resting]
  /\ Enqueue({c}) /\ ShowAdmin({c}, task[c].v)
  /\ UNCHANGED <<version, admins, roomSubs, roomLast, armed, adminPending, flushes, notices, told>>

AdminUnsubscribe(c) ==
  /\ wsConn[c] = "open" /\ task[c] = Resting /\ c \in admins
  /\ admins' = admins \ {c} /\ Enqueue({c})
  /\ UNCHANGED <<version, roomSubs, adminLast, roomLast, task, armed, adminPending, flushes, notices, told>>

BroadcastAdminUpdate_NotTwice ==
  IF admins = {} \/ flushes # <<>> THEN UNCHANGED <<armed, adminPending>>
  ELSE armed' = TRUE /\ adminPending' = TRUE

BroadcastAdminUpdate ==
  IF admins = {} THEN UNCHANGED <<armed, adminPending>>
  ELSE armed' = TRUE /\ adminPending' = TRUE

\* A change that NotifyWebSocket follows, under the lock l.
Change(l) ==
  /\ version < MaxVersion /\ version' = version + 1
  /\ notices[l].pc = "rest" /\ notices' = [notices EXCEPT ![l].pc = "copy"]
  /\ UNCHANGED <<admins, roomSubs, wsConn, queued, adminLast, roomLast, task, armed, adminPending, flushes, told>>

\* A change that nobody announces: locking and cycling (MarkAndBroadcast), the
\* last leave and the deletion after it, and whatever a handler still
\* changes once it has notified.
QuietChange ==
  /\ version < MaxVersion /\ version' = version + 1
  /\ UNCHANGED <<admins, roomSubs, wsConn, queued, adminLast, roomLast, task, armed, adminPending, flushes, notices, told>>

\* BroadcastRoomUpdate copies its targets under h.mu ...
NoticeCopy(l) ==
  /\ notices[l].pc = "copy" /\ FramesFor(version)
  /\ notices' = [notices EXCEPT ![l] =
                   [pc |-> IF roomSubs = {} THEN "admin" ELSE "send", to |-> roomSubs, v |-> version]]
  /\ UNCHANGED <<version, admins, roomSubs, wsConn, queued, adminLast, roomLast, task, armed, adminPending, flushes, announced, crossed>>

\* ... BuildRoomUpdate reads the room while the other lock's holder may write
\* it, so the frame shows at least what was there when the reading began, and
\* the frame is sent under no lock of the hub ...
NoticeSend(l, v) ==
  /\ notices[l].pc = "send" /\ notices[l].v <= v /\ v <= version
  /\ notices' = [notices EXCEPT ![l].pc = "admin"]
  /\ Enqueue(notices[l].to) /\ ShowRoom(notices[l].to, v)
  /\ UNCHANGED <<version, admins, roomSubs, adminLast, task, armed, adminPending, flushes, told>>

\* ... and BroadcastAdminUpdate ends it.
NoticeAdmin(l) ==
  /\ notices[l].pc = "admin" /\ notices' = [notices EXCEPT ![l] = NoNotice]
  /\ BroadcastAdminUpdate /\ announced' = version
  /\ UNCHANGED <<version, admins, roomSubs, wsConn, queued, adminLast, roomLast, task, flushes, pushed, crossed, raced>>

\* flushAdminUpdate: under h.mu ...
FlushTake ==
  /\ armed /\ armed' = FALSE /\ adminPending' = FALSE
  /\ IF ~adminPending \/ admins = {} THEN UNCHANGED flushes
     ELSE /\ Len(flushes) < MaxFlushes
          /\ flushes' = Append(flushes, [to |-> admins, v |-> 0])
  /\ UNCHANGED <<version, admins, roomSubs, wsConn, queued, adminLast, roomLast, task, notices, told>>

\* ... then the rooms under state.Mu, and then no lock while it sends.
FlushRead(i) ==
  /\ flushes[i].v = 0 /\ StateMuFree /\ flushes' = [flushes EXCEPT ![i].v = version] /\ ListsTo(flushes[i].to)
  /\ UNCHANGED <<version, admins, roomSubs, wsConn, queued, adminLast, roomLast, task, armed, adminPending, notices, announced, pushed, raced>>

FlushSend(i) ==
  /\ flushes[i].v > 0 /\ flushes' = RemoveAt(flushes, i)
  /\ Enqueue(flushes[i].to) /\ ShowAdmin(flushes[i].to, flushes[i].v)
  /\ UNCHANGED <<version, admins, roomSubs, roomLast, task, armed, adminPending, notices, told>>

\* closeAll, at shutdown.
CloseAll ==
  /\ armed' = FALSE
  /\ wsConn' = [c \in Clients |-> IF wsConn[c] = "open" THEN "closed" ELSE wsConn[c]]
  /\ UNCHANGED <<version, admins, roomSubs, queued, adminLast, roomLast, task, adminPending, flushes, notices, told>>

FNext ==
  \/ \E c \in Clients :
       \/ Accept(c) \/ Disconnect(c) \/ RemoveClient(c)
       \/ SubscribeRead(c) \/ SubscribeLeave(c) \/ SubscribeEnter(c) \/ SubscribeShow(c) \/ Unsubscribe(c)
       \/ AdminSubscribe(c) \/ SnapshotRead(c) \/ SnapshotSend(c) \/ AdminUnsubscribe(c)
       \/ \E ok \in BOOLEAN : Write(c, ok)
  \/ \E i \in DOMAIN flushes : FlushRead(i) \/ FlushSend(i)
  \/ \E l \in Locks :
       \/ Change(l) \/ NoticeCopy(l) \/ NoticeAdmin(l)
       \/ \E v \in 1..MaxVersion : NoticeSend(l, v)
  \/ QuietChange \/ FlushTake \/ CloseAll

FSpec == FInit /\ [][FNext]_fVars

-----------------------------------------------------------------------------
\* No announced change of the rooms is lost on the way.  The last list given
\* to an administrator's open feed shows what was last announced, or a timer,
\* a flush or its own snapshot is still to bring that (the debounce); so does
\* the last frame of a room's subscriber, or its first frame or a notice.  Only
\* two pushes to one client under way at once, the older one read before
\* the newer, may end with the older one on top (enqueue outside every lock).
FeedsFollow ==
  \A c \in Clients :
    wsConn[c] = "open" =>
      /\ c \in admins \ crossed =>
           \/ adminLast[c] >= announced \/ armed \/ task[c].pc = "snapshot"
           \/ task[c].pc = "shown" /\ task[c].v >= announced
           \/ \E i \in DOMAIN flushes : c \in flushes[i].to /\ (flushes[i].v = 0 \/ flushes[i].v >= announced)
      /\ c \in roomSubs \ raced =>
           IF Subscribing(c) THEN task[c].v >= pushed
           ELSE \/ roomLast[c] >= pushed
                \/ \E l \in Locks : notices[l].pc = "send" /\ c \in notices[l].to /\ notices[l].v >= pushed
=============================================================================
