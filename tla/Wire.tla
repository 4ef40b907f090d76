-------------------------------- MODULE Wire --------------------------------
(***************************************************************************)
(* The binary protocol (common/protocol): the tables by which commands and *)
(* messages are written and read, the primitives under them, and frames    *)
(* cut out of a byte stream that arrives in pieces.                        *)
(*                                                                         *)
(* The encoders and the decoders of the code are separate functions; so    *)
(* they are here: Put* name what is written for a value, Get* what is read *)
(* for a tag, and neither is defined by the other.  A shape is a record    *)
(* [k, ...]; a command is <<name, args>>; a text is its bytes.  A float is *)
(* its bit pattern, written like an i32; a position is two half floats.    *)
(***************************************************************************)
EXTENDS Half, Sequences, FiniteSets, SequencesExt, FiniteSetsExt

CONSTANTS Traffic,       \* [kind, commands, legal]: what a connection may carry
          MaxPayload,    \* maxFrameSize
          Chunks         \* how many bytes one Read may return

VARIABLES wire,       \* [kind, todo, legal, sent, bytes]: the writer, bytes under way
          inbuf,      \* the bytes read and not yet cut into frames
          received,   \* the commands decoded
          refused     \* the reader has closed the connection
wireVars == <<wire, inbuf, received, refused>>

P(kind) == [k |-> kind]
Varchar(n) == [k |-> "varchar", max |-> n]
Opt(s) == [k |-> "opt", of |-> s]
Arr(s) == [k |-> "arr", of |-> s]
Res(s) == [k |-> "res", of |-> s]
Rec(ss) == [k |-> "rec", of |-> ss]
Union(u) == [k |-> "union", of |-> u]
Fields(kinds) == [i \in DOMAIN kinds |-> P(kinds[i])]

-----------------------------------------------------------------------------
(* What is written: name -> <<tag, fields>>                                *)

PutUserInfo == Rec(Fields(<<"i32", "str", "bool">>))
PutTouchFrame == Rec(<<P("f32"), Arr(Rec(Fields(<<"i8", "half", "half">>)))>>)
PutJudgeEvent == Rec(Fields(<<"f32", "u32", "u32", "u8">>))
PutClientRoomState ==
  Rec(<<P("room"), Union("RoomState"), P("bool"), P("bool"), P("bool"), P("bool"), P("bool"),
        [k |-> "map", of |-> PutUserInfo]>>)
PutJoinRoomResponse == Rec(<<Union("RoomState"), Arr(PutUserInfo), P("bool")>>)
UnitResult == Res(Rec(<<>>))

PutRoomState ==
  [SelectChart |-> <<0, <<Opt(P("i32"))>>>>, WaitingForReady |-> <<1, <<>>>>, Playing |-> <<2, <<>>>>]

PutMessage ==
  [Chat |-> <<0, Fields(<<"i32", "str">>)>>, CreateRoom |-> <<1, Fields(<<"i32">>)>>,
   JoinRoom |-> <<2, Fields(<<"i32", "str">>)>>, LeaveRoom |-> <<3, Fields(<<"i32", "str">>)>>,
   NewHost |-> <<4, Fields(<<"i32">>)>>, SelectChart |-> <<5, Fields(<<"i32", "str", "i32">>)>>,
   GameStart |-> <<6, Fields(<<"i32">>)>>, Ready |-> <<7, Fields(<<"i32">>)>>,
   CancelReady |-> <<8, Fields(<<"i32">>)>>, CancelGame |-> <<9, Fields(<<"i32">>)>>,
   StartPlaying |-> <<10, <<>>>>, Played |-> <<11, Fields(<<"i32", "i32", "f32", "bool">>)>>,
   GameEnd |-> <<12, <<>>>>, Abort |-> <<13, Fields(<<"i32">>)>>,
   LockRoom |-> <<14, Fields(<<"bool">>)>>, CycleRoom |-> <<15, Fields(<<"bool">>)>>]

PutClientCommand ==
  [Ping |-> <<0, <<>>>>, Authenticate |-> <<1, <<Varchar(32)>>>>, Chat |-> <<2, <<Varchar(200)>>>>,
   Touches |-> <<3, <<Arr(PutTouchFrame)>>>>, Judges |-> <<4, <<Arr(PutJudgeEvent)>>>>,
   CreateRoom |-> <<5, Fields(<<"room">>)>>, JoinRoom |-> <<6, Fields(<<"room", "bool">>)>>,
   LeaveRoom |-> <<7, <<>>>>, LockRoom |-> <<8, Fields(<<"bool">>)>>, CycleRoom |-> <<9, Fields(<<"bool">>)>>,
   SelectChart |-> <<10, Fields(<<"i32">>)>>, RequestStart |-> <<11, <<>>>>, Ready |-> <<12, <<>>>>,
   CancelReady |-> <<13, <<>>>>, Played |-> <<14, Fields(<<"i32">>)>>, Abort |-> <<15, <<>>>>]

PutServerCommand ==
  [Pong |-> <<0, <<>>>>,
   Authenticate |-> <<1, <<Res(Rec(<<PutUserInfo, Opt(PutClientRoomState)>>))>>>>,
   Chat |-> <<2, <<UnitResult>>>>, Touches |-> <<3, <<P("i32"), Arr(PutTouchFrame)>>>>,
   Judges |-> <<4, <<P("i32"), Arr(PutJudgeEvent)>>>>, Message |-> <<5, <<Union("Message")>>>>,
   ChangeState |-> <<6, <<Union("RoomState")>>>>, ChangeHost |-> <<7, Fields(<<"bool">>)>>,
   CreateRoom |-> <<8, <<UnitResult>>>>, JoinRoom |-> <<9, <<Res(PutJoinRoomResponse)>>>>,
   OnJoinRoom |-> <<10, <<PutUserInfo>>>>, LeaveRoom |-> <<11, <<UnitResult>>>>,
   LockRoom |-> <<12, <<UnitResult>>>>, CycleRoom |-> <<13, <<UnitResult>>>>,
   SelectChart |-> <<14, <<UnitResult>>>>, RequestStart |-> <<15, <<UnitResult>>>>,
   Ready |-> <<16, <<UnitResult>>>>, CancelReady |-> <<17, <<UnitResult>>>>,
   Played |-> <<18, <<UnitResult>>>>, Abort |-> <<19, <<UnitResult>>>>]

PutTable(u) ==
  CASE u = "RoomState" -> PutRoomState [] u = "Message" -> PutMessage
    [] u = "Client" -> PutClientCommand [] u = "Server" -> PutServerCommand

-----------------------------------------------------------------------------
(* What is read: element tag + 1 of a table is <<name, fields>>            *)

GetUserInfo == Rec(<<P("i32"), P("str"), P("bool")>>)
GetTouchFrame == Rec(<<P("f32"), Arr(Rec(<<P("i8"), P("half"), P("half")>>))>>)
GetJudgeEvent == Rec(<<P("f32"), P("u32"), P("u32"), P("u8")>>)
GetClientRoomState ==
  Rec(<<P("room"), Union("RoomState"), P("bool"), P("bool"), P("bool"), P("bool"), P("bool"),
        [k |-> "map", of |-> GetUserInfo]>>)
GetJoinRoomResponse == Rec(<<Union("RoomState"), Arr(GetUserInfo), P("bool")>>)

GetRoomState == << <<"SelectChart", <<Opt(P("i32"))>>>>, <<"WaitingForReady", <<>>>>, <<"Playing", <<>>>> >>

GetMessage ==
  << <<"Chat", Fields(<<"i32", "str">>)>>, <<"CreateRoom", Fields(<<"i32">>)>>,
     <<"JoinRoom", Fields(<<"i32", "str">>)>>, <<"LeaveRoom", Fields(<<"i32", "str">>)>>,
     <<"NewHost", Fields(<<"i32">>)>>, <<"SelectChart", Fields(<<"i32", "str", "i32">>)>>,
     <<"GameStart", Fields(<<"i32">>)>>, <<"Ready", Fields(<<"i32">>)>>,
     <<"CancelReady", Fields(<<"i32">>)>>, <<"CancelGame", Fields(<<"i32">>)>>,
     <<"StartPlaying", <<>>>>, <<"Played", Fields(<<"i32", "i32", "f32", "bool">>)>>,
     <<"GameEnd", <<>>>>, <<"Abort", Fields(<<"i32">>)>>,
     <<"LockRoom", Fields(<<"bool">>)>>, <<"CycleRoom", Fields(<<"bool">>)>> >>

GetClientCommand ==
  << <<"Ping", <<>>>>, <<"Authenticate", <<Varchar(32)>>>>, <<"Chat", <<Varchar(200)>>>>,
     <<"Touches", <<Arr(GetTouchFrame)>>>>, <<"Judges", <<Arr(GetJudgeEvent)>>>>,
     <<"CreateRoom", Fields(<<"room">>)>>, <<"JoinRoom", Fields(<<"room", "bool">>)>>,
     <<"LeaveRoom", <<>>>>, <<"LockRoom", Fields(<<"bool">>)>>, <<"CycleRoom", Fields(<<"bool">>)>>,
     <<"SelectChart", Fields(<<"i32">>)>>, <<"RequestStart", <<>>>>, <<"Ready", <<>>>>,
     <<"CancelReady", <<>>>>, <<"Played", Fields(<<"i32">>)>>, <<"Abort", <<>>>> >>

GetServerCommand ==
  << <<"Pong", <<>>>>, <<"Authenticate", <<Res(Rec(<<GetUserInfo, Opt(GetClientRoomState)>>))>>>>,
     <<"Chat", <<UnitResult>>>>, <<"Touches", <<P("i32"), Arr(GetTouchFrame)>>>>,
     <<"Judges", <<P("i32"), Arr(GetJudgeEvent)>>>>, <<"Message", <<Union("Message")>>>>,
     <<"ChangeState", <<Union("RoomState")>>>>, <<"ChangeHost", Fields(<<"bool">>)>>,
     <<"CreateRoom", <<UnitResult>>>>, <<"JoinRoom", <<Res(GetJoinRoomResponse)>>>>,
     <<"OnJoinRoom", <<GetUserInfo>>>>, <<"LeaveRoom", <<UnitResult>>>>,
     <<"LockRoom", <<UnitResult>>>>, <<"CycleRoom", <<UnitResult>>>>,
     <<"SelectChart", <<UnitResult>>>>, <<"RequestStart", <<UnitResult>>>>,
     <<"Ready", <<UnitResult>>>>, <<"CancelReady", <<UnitResult>>>>,
     <<"Played", <<UnitResult>>>>, <<"Abort", <<UnitResult>>>> >>

GetTable(u) ==
  CASE u = "RoomState" -> GetRoomState [] u = "Message" -> GetMessage
    [] u = "Client" -> GetClientCommand [] u = "Server" -> GetServerCommand

-----------------------------------------------------------------------------
(* Primitives *)

\* n bytes of a two's complement number, the lowest first.
LittleEndian(n, v) == [i \in 1 .. n |-> (v \div 256^(i - 1)) % 256]

\* WriteUleb, and the three copies of it that write the prefix of a frame.
RECURSIVE WriteUleb(_)
WriteUleb(v) == IF v >= 128 THEN <<128 + (v % 128)>> \o WriteUleb(v \div 128) ELSE <<v>>

Failed == [ok |-> FALSE]
Read(v, at) == [ok |-> TRUE, v |-> v, at |-> at]

\* Take(n), as a number; signed numbers from their top byte.
ReadNumber(n, signed, buf, at) ==
  LET top == buf[at + n - 1]
      part(i) == buf[at + i - 1] * 256^(i - 1)
  IN  IF at + n - 1 > Len(buf) THEN Failed
      ELSE Read(MapThenSumSet(part, 1 .. (n - 1))
                  + (IF signed /\ top >= 128 THEN top - 256 ELSE top) * 256^(n - 1), at + n)

\* ReadUleb: groups of seven bits while the high bit is set.
RECURSIVE ReadUleb(_, _)
ReadUleb(buf, at) ==
  IF at > Len(buf) THEN Failed
  ELSE IF buf[at] < 128 THEN Read(buf[at], at + 1)
  ELSE LET rest == ReadUleb(buf, at + 1)
       IN  IF rest.ok THEN Read(buf[at] - 128 + 128 * rest.v, rest.at) ELSE Failed

ReadText(max, buf, at) ==
  LET n == ReadUleb(buf, at)
  IN  IF n.ok /\ n.v <= max /\ n.at + n.v - 1 <= Len(buf)
      THEN Read(SubSeq(buf, n.at, n.at + n.v - 1), n.at + n.v) ELSE Failed

\* ParseRoomID: 1 to 20 bytes of letters, digits, - and _.
IsRoomID(text) ==
  /\ Len(text) \in 1 .. 20
  /\ ToSet(text) \subseteq {45, 95} \cup 48 .. 57 \cup 65 .. 90 \cup 97 .. 122

-----------------------------------------------------------------------------
(* Encoding and decoding by shape *)

RECURSIVE Encode(_, _)
EncodeAll(shapes, vs) == FlattenSeq([i \in DOMAIN vs |-> Encode(shapes[i], vs[i])])

\* WriteSortedMap: the entries in the order of their keys.
EncodeMap(shape, f) ==
  LET keys == SetToSortSeq(DOMAIN f, <)
  IN  WriteUleb(Len(keys))
        \o FlattenSeq([i \in DOMAIN keys |-> LittleEndian(4, keys[i]) \o Encode(shape, f[keys[i]])])

Encode(shape, v) ==
  CASE shape.k \in {"i32", "u32", "f32"} -> LittleEndian(4, v)
    [] shape.k \in {"i8", "u8"} -> LittleEndian(1, v)
    [] shape.k = "half" -> LittleEndian(2, F32ToF16Bits(v))
    [] shape.k = "bool" -> <<IF v THEN 1 ELSE 0>>
    [] shape.k \in {"str", "room", "varchar"} -> WriteUleb(Len(v)) \o v
    [] shape.k = "opt" -> IF v = <<>> THEN <<0>> ELSE <<1>> \o Encode(shape.of, v[1])
    [] shape.k = "arr" -> WriteUleb(Len(v)) \o EncodeAll([i \in DOMAIN v |-> shape.of], v)
    [] shape.k = "map" -> EncodeMap(shape.of, v)
    [] shape.k = "res" -> IF v[1] = "ok" THEN <<1>> \o Encode(shape.of, v[2])
                          ELSE <<0>> \o Encode(P("str"), v[2])
    [] shape.k = "rec" -> EncodeAll(shape.of, v)
    [] shape.k = "union" -> LET entry == PutTable(shape.of)[v[1]]
                            IN  <<entry[1]>> \o EncodeAll(entry[2], v[2])

RECURSIVE Decode(_, _, _)
\* The fields one after another; the first that fails fails the whole.
DecodeAll(shapes, buf, at) ==
  LET field(acc, shape) ==
        IF ~acc.ok THEN acc
        ELSE LET next == Decode(shape, buf, acc.at)
             IN  IF next.ok THEN Read(Append(acc.v, next.v), next.at) ELSE Failed
  IN  FoldLeft(field, Read(<<>>, at), shapes)

\* ReadArray; a map is read as the array of its entries, the last one wins.
DecodeArray(shape, buf, at) ==
  LET n == ReadUleb(buf, at)
  IN  IF n.ok THEN DecodeAll([i \in 1 .. n.v |-> shape], buf, n.at) ELSE Failed

MapOf(entries) ==
  [key \in {entries[i][1] : i \in DOMAIN entries} |->
     entries[Max({i \in DOMAIN entries : entries[i][1] = key})][2]]

\* What f makes of a value that was read.
Then(read, f(_)) == IF read.ok THEN Read(f(read.v), read.at) ELSE Failed

Decode(shape, buf, at) ==
  CASE shape.k \in {"i32", "f32"} -> ReadNumber(4, TRUE, buf, at)
    [] shape.k = "u32" -> ReadNumber(4, FALSE, buf, at)
    [] shape.k = "i8" -> ReadNumber(1, TRUE, buf, at)
    [] shape.k = "u8" -> ReadNumber(1, FALSE, buf, at)
    [] shape.k = "half" -> Then(ReadNumber(2, FALSE, buf, at), F16BitsToF32)
    [] shape.k = "bool" -> Then(ReadNumber(1, FALSE, buf, at), LAMBDA b : b = 1)
    [] shape.k = "str" -> ReadText(Len(buf), buf, at)
    [] shape.k = "varchar" -> ReadText(shape.max, buf, at)
    [] shape.k = "room" -> LET text == ReadText(Len(buf), buf, at)
                           IN  IF text.ok /\ IsRoomID(text.v) THEN text ELSE Failed
    [] shape.k = "opt" -> LET some == Decode(P("bool"), buf, at)
                          IN  IF some.ok /\ some.v THEN Then(Decode(shape.of, buf, some.at), LAMBDA v : <<v>>)
                              ELSE Then(some, LAMBDA b : <<>>)
    [] shape.k = "arr" -> DecodeArray(shape.of, buf, at)
    [] shape.k = "map" -> Then(DecodeArray(Rec(<<P("i32"), shape.of>>), buf, at), MapOf)
    [] shape.k = "res" -> LET fine == Decode(P("bool"), buf, at)
                          IN  IF ~fine.ok THEN Failed
                              ELSE IF fine.v THEN Then(Decode(shape.of, buf, fine.at), LAMBDA v : <<"ok", v>>)
                              ELSE Then(Decode(P("str"), buf, fine.at), LAMBDA v : <<"err", v>>)
    [] shape.k = "rec" -> DecodeAll(shape.of, buf, at)
    [] shape.k = "union" -> LET tag == ReadNumber(1, FALSE, buf, at)
                                table == GetTable(shape.of)
                            IN  IF tag.ok /\ tag.v + 1 \in DOMAIN table
                                THEN Then(DecodeAll(table[tag.v + 1][2], buf, tag.at),
                                          LAMBDA args : <<table[tag.v + 1][1], args>>)
                                ELSE Failed

-----------------------------------------------------------------------------
(* Frames *)

Frame(body) == WriteUleb(Len(body)) \o body

\* TryDecodeFrame: at most five bytes of prefix, then that many bytes.
TryDecodeFrame(buf) ==
  LET n == ReadUleb(buf, 1)
      long == Len(buf) >= 5 /\ \A i \in 1 .. 5 : buf[i] >= 128
  IN  CASE long -> [kind |-> "error"]
        [] ~long /\ ~n.ok -> [kind |-> "more"]
        [] ~long /\ n.ok /\ n.v > MaxPayload -> [kind |-> "error"]
        [] ~long /\ n.ok /\ n.v <= MaxPayload ->
             IF Len(buf) - n.at + 1 < n.v THEN [kind |-> "more"]
             ELSE [kind |-> "ok", payload |-> SubSeq(buf, n.at, n.at + n.v - 1),
                   remaining |-> SubSeq(buf, n.at + n.v, Len(buf))]

-----------------------------------------------------------------------------
(* A connection: one side writes its commands, the other runs readLoop *)

WireInit ==
  /\ wire \in {[kind |-> t.kind, todo |-> t.commands, legal |-> t.legal, sent |-> <<>>, bytes |-> <<>>] : t \in Traffic}
  /\ inbuf = <<>> /\ received = <<>> /\ refused = FALSE

\* WriteVarchar fails on a text that its field does not hold.
TooLong(command) ==
  LET fields == PutTable(wire.kind)[command[1]][2]
  IN  \E i \in DOMAIN fields : fields[i].k = "varchar" /\ Len(command[2][i]) > fields[i].max

\* encodeServerCommandFrame, or the client's side of it; a command that cannot
\* be encoded is not sent.
WriteCommand ==
  /\ wire.todo # <<>>
  /\ LET command == Head(wire.todo)
     IN  wire' = IF TooLong(command) THEN [wire EXCEPT !.todo = Tail(@)]
                 ELSE [wire EXCEPT !.todo = Tail(@), !.sent = Append(@, command),
                                   !.bytes = @ \o Frame(Encode(Union(wire.kind), command))]
  /\ UNCHANGED <<inbuf, received, refused>>

\* One Read: any chunk of what has arrived.
ReadChunk(n) ==
  /\ ~refused /\ n <= Len(wire.bytes)
  /\ TryDecodeFrame(inbuf).kind = "more"
  /\ inbuf' = inbuf \o SubSeq(wire.bytes, 1, n)
  /\ wire' = [wire EXCEPT !.bytes = SubSeq(@, n + 1, Len(@))]
  /\ UNCHANGED <<received, refused>>

TakeFrame_DropsRest(res) ==
  LET command == Decode(Union(wire.kind), res.payload, 1)
  IN  /\ inbuf' = <<>>
      /\ refused' = ~command.ok
      /\ received' = IF command.ok THEN Append(received, command.v) ELSE received

\* A frame is cut out, and what follows it stays in the buffer.
TakeFrame(res) ==
  LET command == Decode(Union(wire.kind), res.payload, 1)
  IN  /\ inbuf' = res.remaining
      /\ refused' = ~command.ok
      /\ received' = IF command.ok THEN Append(received, command.v) ELSE received

ReadFrame ==
  LET res == TryDecodeFrame(inbuf)
  IN  /\ ~refused
      /\ \/ res.kind = "ok" /\ TakeFrame(res)
         \/ res.kind = "error" /\ refused' = TRUE /\ UNCHANGED <<inbuf, received>>
      /\ UNCHANGED wire

WireNext == WriteCommand \/ (\E n \in Chunks : ReadChunk(n)) \/ ReadFrame

\* However the stream is cut into reads, what is decoded is what was written,
\* in order and complete once every byte has been read: the encoders and the
\* decoders of all commands agree on tags, fields and lengths, and a frame that
\* ends inside a read leaves the beginning of the next one (readLoop,
\* TryDecodeFrame, Encode*Command and Decode*Command).  A frame over the limit
\* or with a bad room id ends the connection and is never delivered.
CommandsSurvive ==
  LET drained == wire.todo = <<>> /\ wire.bytes = <<>> /\ (refused \/ TryDecodeFrame(inbuf).kind = "more")
  IN  IF wire.legal
      THEN ~refused /\ IsPrefix(received, wire.sent) /\ (drained => received = wire.sent)
      ELSE received = <<>> /\ (drained => refused)
=============================================================================
