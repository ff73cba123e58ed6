--------------------------- MODULE MessageStream ---------------------------
(***************************************************************************)
(* The other implementation of the framing: MessageStream                  *)
(* (src/main/message_stream.cc) over PlainByteStream or SslByteStream      *)
(* (byte_stream.cc) and ReaderWriter (reader_writer.cc), which wait for    *)
(* their bytes.  Each end of the connection is either this one or the      *)
(* non-blocking one of PacketFraming: they have to understand each other.  *)
(*                                                                         *)
(* A whole header is one write and one read, and the reader refuses a      *)
(* message that is announced as too large.  A Read or Write that would     *)
(* block is repeated, SocketTimeout times in all; over TLS it waits for    *)
(* ever, which here is never to take a step of ReadWaits or WriteWaits.    *)
(* A caller stops at the first failure, whatever status it is told.        *)
(***************************************************************************)
EXTENDS PacketFraming

CONSTANTS
    MaxMessageSize,  \* max_message_size_bytes_
    SocketTimeout,   \* SOCKET_TIMEOUT
    SizeWithoutRequired  \* ByteSize() of Unserializable: the fields it has

(* What cannot be serialized cannot be parsed either: a message of no      *)
(* bytes has no fields.                                                    *)
ASSUME StreamConstantsOK ==
    /\ MaxMessageSize \in Nat /\ SocketTimeout \in Nat \ {0}
    /\ SizeWithoutRequired \in 0 .. TooLong - 1
    /\ SizeWithoutRequired = 0 => ~ParsesAsMessage(<< >>)

VARIABLES
    ends,      \* the implementation at the writer's and the reader's end
    wwaited, rwaited  \* socket_timeout of the Write, and of the Read, under way

streamVars == <<vars, ends, wwaited, rwaited>>

HeaderSize == 1 + 2 * Digits

Ends == [writer : {"packet", "stream"}, reader : {"packet", "stream"}]

StreamInit ==
    Init /\ ends \in Ends /\ wwaited = 0 /\ rwaited = 0

-----------------------------------------------------------------------------
(* WriteMessage.                                                           *)

(* WriteHeader announces what ByteSize() says.                             *)
WriteHeader ==
    /\ wstate = "finished" /\ todo # << >>
    /\ LET p == Head(todo)
           byteSize == IF p.message = Unserializable
                       THEN SizeWithoutRequired ELSE Len(p.message)
       IN TransitionTo("header",
              <<Magic>> \o EncodeLength(byteSize) \o EncodeLength(Len(p.value)))
    /\ begun' = Append(begun, Head(todo)) /\ todo' = Tail(todo)
    /\ UNCHANGED <<readerVars, stream, closed, noise>>

(* The header is out before the message turns out not to serialize.        *)
HeaderWritten ==
    /\ wstate = "header" /\ left = << >>
    /\ \/ /\ Last(begun).message = Unserializable
          /\ wstate' = "failed" /\ UNCHANGED left
       \/ /\ Last(begun).message # Unserializable
          /\ TransitionTo("message", Last(begun).message)
    /\ UNCHANGED <<todo, begun, readerVars, stream, closed, noise>>

(* ReaderWriter::Write finds no room: EAGAIN.                              *)
WriteWaits ==
    /\ ends.writer = "stream"
    /\ ~Over(wstate) /\ left # << >> /\ ~closed /\ Len(stream) = Capacity
    /\ wwaited' = wwaited + 1
    /\ wstate' = IF wwaited' = SocketTimeout THEN "failed" ELSE wstate
    /\ UNCHANGED <<todo, begun, left, readerVars, stream, closed, noise, ends, rwaited>>

-----------------------------------------------------------------------------
(* ReadMessage.                                                            *)

ReadMessage ==
    /\ rstate = "finished"
    /\ NextField("header", HeaderSize)
    /\ lengths' = << >> /\ message' = << >>
    /\ UNCHANGED <<writerVars, got, taken, stream, closed, noise>>

(* ReadHeader, and the check of the announced size.                        *)
ReadHeader ==
    /\ rstate = "header" /\ Len(buf) = size
    /\ LET message_size == DecodeLength(SubSeq(buf, 2, 1 + Digits))
           value_size   == DecodeLength(SubSeq(buf, 2 + Digits, HeaderSize))
           refused      == buf[1] # Magic \/ message_size > MaxMessageSize
       IN \/ /\ refused
             /\ rstate' = "failed" /\ UNCHANGED <<size, buf, lengths>>
          \/ /\ ~refused
             /\ lengths' = <<message_size, value_size>>
             /\ NextField("message", message_size)
    /\ UNCHANGED <<writerVars, message, got, taken, stream, closed, noise>>

(* The message is parsed before its value is read.                         *)
MessageRead ==
    /\ rstate = "message" /\ Len(buf) = size
    /\ \/ /\ ~ParsesAsMessage(buf)
          /\ rstate' = "failed" /\ UNCHANGED <<size, buf, message>>
       \/ /\ ParsesAsMessage(buf) /\ message' = buf
          /\ NextField("value", lengths[2])
    /\ UNCHANGED <<writerVars, lengths, got, taken, stream, closed, noise>>

(* ReaderWriter::Read finds nothing: EAGAIN.                               *)
ReadWaits ==
    /\ ends.reader = "stream"
    /\ ~Over(rstate) /\ Len(buf) < size /\ stream = << >> /\ ~closed
    /\ rwaited' = rwaited + 1
    /\ rstate' = IF rwaited' = SocketTimeout THEN "failed" ELSE rstate
    /\ UNCHANGED <<writerVars, size, buf, lengths, message, got, taken,
                   stream, closed, noise, ends, wwaited>>

-----------------------------------------------------------------------------
(* Both ends.  Every Write and every Read counts from nought.              *)

StreamWriteStep ==
    /\ \/ ends.writer = "packet" /\ NewWriter
       \/ ends.writer = "stream" /\ WriteHeader
       \/ HeaderWritten
       \/ FieldWritten
       \/ WriteFails
       \/ \E n \in 1 .. Capacity : WriteBytes(n)
    /\ wwaited' = IF wstate' = wstate THEN wwaited ELSE 0
    /\ UNCHANGED <<ends, rwaited>>

StreamReadStep ==
    /\ \/ ends.reader = "packet" /\ NewReader
       \/ ends.reader = "stream" /\ (ReadMessage \/ ReadHeader \/ MessageRead)
       \/ (ends.reader = "packet" \/ rstate = "value") /\ FieldRead
       \/ ReadFails
       \/ \E n \in 1 .. Capacity : ReadBytes(n)
    /\ rwaited' = IF rstate' = rstate THEN rwaited ELSE 0
    /\ UNCHANGED <<ends, wwaited>>

StreamNext ==
    \/ StreamWriteStep \/ StreamReadStep
    \/ WriteWaits \/ ReadWaits
    \/ (Close \/ Noise) /\ UNCHANGED <<ends, wwaited, rwaited>>

(* Both ends go on as long as they can: the non-blocking one is called     *)
(* again when select() says so, the other one is in a loop.                *)
StreamSpec == /\ StreamInit /\ [][StreamNext]_streamVars
              /\ WF_streamVars(StreamWriteStep) /\ WF_streamVars(StreamReadStep)

-----------------------------------------------------------------------------
(* Properties.                                                             *)

\* Every variable has its type, no string reader holds more than its size,
\* and a Read or Write that has waited SocketTimeout times has failed.
FramingTypeOK ==
    /\ {todo, begun} \subseteq Seq(Packets)
    /\ {wstate, rstate} \subseteq Fields \cup {"header", "finished", "failed"}
    /\ stream \in Seq(Bytes) /\ Len(stream) <= Capacity
    /\ buf \in Seq(Bytes) /\ size \in 0 .. TooLong + HeaderSize /\ Len(buf) <= size
    /\ closed \in BOOLEAN /\ noise \in 0 .. MaxNoise
    /\ ends \in Ends /\ {wwaited, rwaited} \subseteq 0 .. SocketTimeout
    /\ wwaited = SocketTimeout => wstate = "failed"
    /\ rwaited = SocketTimeout => rstate = "failed"

TimedOut == wwaited = SocketTimeout \/ rwaited = SocketTimeout

WellFormed(p) ==
    /\ p.message # Unserializable /\ ParsesAsMessage(p.message)
    /\ ends.reader = "stream" => Len(p.message) <= MaxMessageSize

\* Whichever implementations meet, if the stream stays open and neither end
\* loses patience, every packet arrives, empty values and messages too,
\* unless one of them cannot be serialized or parsed, or is too large.
AllArrive ==
    <>(\/ closed \/ noise > 0 \/ TimedOut
       \/ \E i \in DOMAIN begun : ~WellFormed(begun[i])
       \/ todo = << >> /\ got = begun)
=============================================================================
