------------------------------ MODULE Streaming ------------------------------
(***************************************************************************)
(* runtime/streaming.py: StreamManager hands the stream messages of all    *)
(* calls to StreamReceivers, and whoever asked for a stream waits for it.  *)
(*                                                                         *)
(* The sender is not in the repository: it sends, for every call, a start, *)
(* its chunks in any order (they carry an index), each once or again, and  *)
(* an end.  All calls share one WebSocket, which keeps the order and may   *)
(* be lost with what is under way.  A call may be given a second receiver  *)
(* while it runs, as a retry under the same id does.                       *)
(***************************************************************************)
EXTENDS Protocol

CONSTANTS Streams,    \* call ids
          MaxReceivers, \* a bound on the StreamReceiver objects
          ChunksOf,   \* the data of each stream
          MetaOf,     \* the metadata of its start
          MaxRepeats, \* a bound on the chunks that are sent again
          MaxUnderWay \* a bound on the messages in the socket

\* StreamReceiver objects, numbered as they are made.
Receivers == 1 .. MaxReceivers
NoReceiver == 0

VARIABLES
  streams,   \* StreamManager._streams
  callOf,    \* StreamReceiver.call_id, for the receivers there are
  chunks,    \* StreamReceiver.chunks
  metadata,  \* StreamReceiver.metadata
  complete,  \* StreamReceiver.complete
  failed,    \* StreamReceiver._error is set
  waiter,    \* where the caller of wait is
  value,     \* what wait returned
  sent,      \* what the sender has sent of each stream
  repeats,   \* chunks sent again so far
  socket,    \* encoded messages under way
  whole      \* receivers that were there before the first message arrived

managerVars == <<streams, callOf, chunks, metadata, complete, failed>>
streamVars == <<managerVars, waiter, value, sent, repeats, socket, whole>>

\* The parts of a stream: 0 is the start, i the chunk with index i - 1, and the last
\* is the end.
LastPart(c) == Len(ChunksOf[c]) + 1

\* The data of a stream's chunks.
DataOf(c) == {ChunksOf[c][i] : i \in DOMAIN ChunksOf[c]}

\* The message that is part i of stream c.
Part(c, i) ==
  IF i = 0 THEN MakeStreamStart(Str(c), MetaOf[c])
  ELSE IF i = LastPart(c) THEN MakeStreamEnd(Str(c))
  ELSE MakeStreamChunk(Str(c), ChunksOf[c][i], i - 1)

\* Call ids are not empty, and what the streams carry are JSON values, which the JSON
\* library leaves as they are.
ASSUME StreamAssumption ==
  /\ {MaxReceivers, MaxRepeats, MaxUnderWay} \subseteq Nat
  /\ "" \notin Streams
  /\ \A c \in Streams : ChunksOf[c] \in Seq(DataOf(c))
  /\ \A c \in Streams : \A i \in 0 .. LastPart(c) :
       Json(Dict(ToDict(Part(c, i)))) = Dict(ToDict(Part(c, i)))

\* No message of stream c has arrived yet.
NothingArrived(c) ==
  \/ sent[c] = {}
  \/ \E n \in DOMAIN socket :
       socket[n].items["id"] = Str(c) /\ socket[n].items["type"] = Str("rpc.stream.start")

StreamInit ==
  /\ streams = [c \in Streams |-> NoReceiver]
  /\ callOf = << >>
  /\ chunks = [r \in Receivers |-> << >>]
  /\ metadata = [r \in Receivers |-> Empty]
  /\ complete = [r \in Receivers |-> FALSE]
  /\ failed = [r \in Receivers |-> FALSE]
  /\ waiter = [r \in Receivers |-> "none"]
  /\ value = [r \in Receivers |-> None]
  /\ sent = [c \in Streams |-> {}]
  /\ repeats = 0
  /\ socket = << >>
  /\ whole = {}

-----------------------------------------------------------------------------
(* The client.                                                             *)

\* create_stream, and wait on the receiver it returns.
CreateStream(c) ==
  LET r == Len(callOf) + 1 IN
  /\ r \in Receivers
  /\ callOf' = Append(callOf, c)
  /\ streams' = [streams EXCEPT ![c] = r]
  /\ waiter' = [waiter EXCEPT ![r] = "waiting"]
  /\ whole' = IF NothingArrived(c) THEN whole \union {r} ELSE whole
  /\ UNCHANGED <<chunks, metadata, complete, failed, value, sent, repeats, socket>>

\* A mutation: chunks are kept in the order they arrive in.
OnChunkAppended(cs, data, index) == Append(cs, data)

\* on_chunk: the list is filled up with None as far as the index.
OnChunk(cs, data, index) ==
  [i \in 1 .. (IF index + 1 > Len(cs) THEN index + 1 ELSE Len(cs)) |->
     IF i = index + 1 THEN data ELSE IF i <= Len(cs) THEN cs[i] ELSE None]

\* del self._streams[msg.id]
Forget(c) == [streams EXCEPT ![c] = NoReceiver]

\* handle_message: a message for no stream is dropped; the end of a stream
\* completes its receiver and forgets it.
Handle(m) ==
  LET c == m.id.s
      r == streams[c]
      index == Or(Get(m.metadata.items, "index"), Num(0)).n
  IN
  IF r = NoReceiver THEN UNCHANGED managerVars
  ELSE /\ UNCHANGED <<callOf, failed>>
       /\ CASE m.type = Str("rpc.stream.start") ->
                 /\ metadata' = [metadata EXCEPT ![r] = m.metadata]
                 /\ UNCHANGED <<streams, chunks, complete>>
            [] m.type = Str("rpc.stream.chunk") ->
                 /\ chunks' = [chunks EXCEPT ![r] = OnChunk(@, m.result, index)]
                 /\ UNCHANGED <<streams, metadata, complete>>
            [] m.type = Str("rpc.stream.end") ->
                 /\ complete' = [complete EXCEPT ![r] = TRUE]
                 /\ streams' = Forget(c)
                 /\ UNCHANGED <<metadata, chunks>>

\* The next message is read from the socket.
Deliver ==
  /\ socket # << >>
  /\ socket' = Tail(socket)
  /\ Handle(FromJson(Head(socket)))
  /\ UNCHANGED <<waiter, value, sent, repeats, whole>>

\* on_error: the event is set, and the stream stays registered.
OnError(r) ==
  /\ r \in DOMAIN callOf
  /\ failed' = [failed EXCEPT ![r] = TRUE]
  /\ UNCHANGED <<streams, callOf, chunks, metadata, complete, waiter, value, sent, repeats, socket, whole>>

\* _assemble: bytes and text are joined, a single chunk stands for itself.
Assemble(meta, cs) ==
  LET kind == Get(meta.items, "content_type") IN
  IF kind \in {Str("bytes"), Str("text")} THEN Dict([joined |-> List(cs), kind |-> kind])
  ELSE IF Len(cs) = 1 THEN cs[1] ELSE List(cs)

\* wait wakes up: the error is raised, or the chunks are assembled as they are now.
WaitEnds(r) ==
  /\ waiter[r] = "waiting"
  /\ complete[r] \/ failed[r]
  /\ waiter' = [waiter EXCEPT ![r] = IF failed[r] THEN "raised" ELSE "returned"]
  /\ value' = [value EXCEPT ![r] = IF failed[r] THEN None ELSE Assemble(metadata[r], chunks[r])]
  /\ UNCHANGED <<managerVars, sent, repeats, socket, whole>>

\* wait gives up; neither receiver nor stream is removed.
WaitTimeout(r) ==
  /\ waiter[r] = "waiting"
  /\ ~(complete[r] \/ failed[r])
  /\ waiter' = [waiter EXCEPT ![r] = "timeout"]
  /\ UNCHANGED <<managerVars, value, sent, repeats, socket, whole>>

-----------------------------------------------------------------------------
(* The sender and the socket.                                              *)

\* Part i of stream c: the start comes first, the end when all is sent.
SendPart(c, i) ==
  /\ Len(socket) < MaxUnderWay
  /\ LastPart(c) \notin sent[c]
  /\ i = 0 => sent[c] = {}
  /\ i > 0 => 0 \in sent[c]
  /\ i = LastPart(c) => sent[c] = 0 .. Len(ChunksOf[c])
  /\ i \in sent[c] => repeats < MaxRepeats
  /\ repeats' = IF i \in sent[c] THEN repeats + 1 ELSE repeats
  /\ sent' = [sent EXCEPT ![c] = @ \union {i}]
  /\ socket' = Append(socket, ToJson(Part(c, i)))
  /\ UNCHANGED <<managerVars, waiter, value, whole>>

\* The connection is lost, and nothing more is sent on it.
Lose ==
  /\ \E c \in Streams : LastPart(c) \notin sent[c]
  /\ socket' = << >>
  /\ sent' = [c \in Streams |-> sent[c] \union {LastPart(c)}]
  /\ UNCHANGED <<managerVars, waiter, value, repeats, whole>>

StreamNext ==
  \/ Deliver \/ Lose
  \/ \E r \in Receivers :
       OnError(r) \/ WaitEnds(r) \/ WaitTimeout(r)
  \/ \E c \in Streams : CreateStream(c) \/ \E i \in 0 .. LastPart(c) : SendPart(c, i)

StreamSpec == StreamInit /\ [][StreamNext]_streamVars

-----------------------------------------------------------------------------

\* What wait returns is the whole of the call's data in order, with none of another
\* call's, however the chunks arrived, provided the receiver was there from the start.
StreamIsWhole ==
  \A r \in whole : waiter[r] = "returned" =>
      value[r] = Assemble(Or(MetaOf[callOf[r]], Empty), ChunksOf[callOf[r]])

\* A stream that has ended is forgotten: a later message of the same call never
\* reaches a receiver that has been told it is complete.
EndedIsForgotten ==
  \A c \in Streams : streams[c] # NoReceiver => ~complete[streams[c]] /\ callOf[streams[c]] = c

\* What wait returns of a stream is the whole of it, and a stream that has ended gets no more messages.
StreamsWhole == StreamIsWhole /\ EndedIsForgotten
=============================================================================
