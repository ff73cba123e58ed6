--------------------------- MODULE PacketFraming ---------------------------
(***************************************************************************)
(* How packets become bytes and bytes packets: NonblockingPacketWriter,    *)
(* NonblockingPacketReader (src/main/nonblocking_packet.cc) and the string *)
(* writer and reader they use (src/main/nonblocking_string.cc), at the two *)
(* ends of a stream that takes and gives bytes in pieces of any size.      *)
(*                                                                         *)
(* A call that would block or is interrupted changes nothing: it returns   *)
(* kInProgress, or is repeated, and whoever holds the object calls again.  *)
(* A byte has Base values and a length field Digits bytes (256 and 4 in    *)
(* the code), most significant first.                                      *)
(***************************************************************************)
EXTENDS Integers, Sequences, SequencesExt

CONSTANTS
    Base, Digits,
    Magic,           \* "F"
    Packets,         \* what may be written: [message, value], byte sequences
    MaxPackets,      \* bound: packets written
    MaxNoise,        \* bound: stray bytes of a peer
    Capacity,        \* bytes the stream holds
    Unserializable,  \* a message without its required fields
    ParsesAsMessage(_)  \* whether bytes are a serialized message

Bytes == 0 .. Base - 1

(* How many numbers k bytes can hold; a length field, less than TooLong.   *)
Power[k \in 0 .. Digits] == IF k = 0 THEN 1 ELSE Base * Power[k - 1]
TooLong == Power[Digits]

ASSUME FramingConstantsOK ==
    /\ Base \in Nat \ {0, 1} /\ Digits \in Nat \ {0} /\ Magic \in Bytes
    /\ {MaxPackets, MaxNoise, Capacity} \subseteq Nat /\ Capacity > 0
    /\ Packets \subseteq [message : Seq(Bytes) \cup {Unserializable}, value : Seq(Bytes)]
    /\ \A p \in Packets :
        /\ Len(p.value) < TooLong
        /\ p.message # Unserializable => Len(p.message) < TooLong

VARIABLES
    todo,      \* the packets no writer has begun
    begun,     \* ghost: the packets a writer has begun
    wstate,    \* the writer's state_, or "failed"
    left,      \* what its string writer has not yet written
    stream,    \* external: the bytes under way
    closed,    \* external: the stream is closed, or broken
    noise,     \* external: stray bytes
    rstate,    \* the reader's state_, or "failed"
    size, buf, \* of its string reader: size_, and the bytes read so far
    lengths,   \* message_length_ and value_length_, once read
    message,   \* message_
    got,       \* ghost: the packets read
    taken      \* ghost: the bytes read

writerVars == <<todo, begun, wstate, left>>
readerVars == <<rstate, size, buf, lengths, message, got, taken>>
vars       == <<writerVars, readerVars, stream, closed, noise>>

\* Seeded fault: htonl is forgotten.
EncodeHostOrder(n) == [i \in 1 .. Digits |-> (n \div Power[i - 1]) % Base]

(* htonl of the size, as bytes: what does not fit is cut off.              *)
EncodeLength(n) ==
    [i \in 1 .. Digits |-> (n \div Power[Digits - i]) % Base]

DecodeLength(s) ==
    LET value[k \in 0 .. Len(s)] == IF k = 0 THEN 0 ELSE value[k - 1] * Base + s[k]
    IN value[Len(s)]

Fields == {"magic", "messageLength", "valueLength", "message", "value"}

(* There is no writer, or reader, or it has failed for good.               *)
Over(st) == st \in {"finished", "failed"}

Init ==
    /\ \E n \in 0 .. MaxPackets : todo \in [1 .. n -> Packets]
    /\ begun = << >> /\ wstate = "finished" /\ left = << >>
    /\ stream = << >> /\ closed = FALSE /\ noise = 0
    /\ rstate = "finished" /\ size = 0 /\ buf = << >>
    /\ lengths = << >> /\ message = << >>
    /\ got = << >> /\ taken = << >>

-----------------------------------------------------------------------------
(* The writer.                                                             *)

(* The sender makes a writer for its next request.                         *)
NewWriter ==
    /\ wstate = "finished" /\ todo # << >>
    /\ begun' = Append(begun, Head(todo)) /\ todo' = Tail(todo)
    /\ wstate' = "magic" /\ left' = <<Magic>>
    /\ UNCHANGED <<readerVars, stream, closed, noise>>

(* NonblockingStringWriter::Write, one system call.                        *)
WriteBytes(n) ==
    /\ ~Over(wstate) /\ ~closed
    /\ n <= Len(left) /\ Len(stream) + n <= Capacity
    /\ stream' = stream \o SubSeq(left, 1, n)
    /\ left' = SubSeq(left, n + 1, Len(left))
    /\ UNCHANGED <<todo, begun, wstate, readerVars, closed, noise>>

WriteFails ==
    /\ ~Over(wstate) /\ left # << >> /\ closed
    /\ wstate' = "failed"
    /\ UNCHANGED <<todo, begun, left, readerVars, stream, closed, noise>>

TransitionTo(st, bytes) == wstate' = st /\ left' = bytes

(* A field is written: on to the next.  The magic byte is out before the   *)
(* message turns out not to serialize.                                     *)
FieldWritten ==
    /\ left = << >>
    /\ LET p == Last(begun) IN
        \/ /\ wstate = "magic" /\ p.message = Unserializable
           /\ wstate' = "failed" /\ UNCHANGED left
        \/ /\ wstate = "magic" /\ p.message # Unserializable
           /\ TransitionTo("messageLength", EncodeLength(Len(p.message)))
        \/ /\ wstate = "messageLength"
           /\ TransitionTo("valueLength", EncodeLength(Len(p.value)))
        \/ /\ wstate = "valueLength" /\ TransitionTo("message", p.message)
        \/ /\ wstate = "message" /\ TransitionTo("value", p.value)
        \/ /\ wstate = "value" /\ TransitionTo("finished", << >>)
    /\ UNCHANGED <<todo, begun, readerVars, stream, closed, noise>>

-----------------------------------------------------------------------------
(* The reader.                                                             *)

\* Seeded fault: the bytes already read are not taken off the size.
ReadBytesWhole(n) ==
    /\ ~Over(rstate)
    /\ Len(buf) < size /\ n <= Len(stream) /\ n <= size
    /\ buf' = buf \o SubSeq(stream, 1, n)
    /\ taken' = taken \o SubSeq(stream, 1, n)
    /\ stream' = SubSeq(stream, n + 1, Len(stream))
    /\ UNCHANGED <<writerVars, rstate, size, lengths, message, got, closed, noise>>

(* NonblockingStringReader::Read, one system call.                         *)
ReadBytes(n) ==
    /\ ~Over(rstate)
    /\ n <= Len(stream) /\ Len(buf) + n <= size
    /\ buf' = buf \o SubSeq(stream, 1, n)
    /\ taken' = taken \o SubSeq(stream, 1, n)
    /\ stream' = SubSeq(stream, n + 1, Len(stream))
    /\ UNCHANGED <<writerVars, rstate, size, lengths, message, got, closed, noise>>

\* Seeded fault: the end of the stream is taken for the end of the field.
EndIsDone ==
    /\ rstate \in Fields /\ Len(buf) < size
    /\ stream = << >> /\ closed
    /\ size' = Len(buf)
    /\ UNCHANGED <<writerVars, rstate, buf, lengths, message, got, taken,
                   stream, closed, noise>>

(* End of file, or an error.                                               *)
ReadFails ==
    /\ ~Over(rstate) /\ Len(buf) < size
    /\ stream = << >> /\ closed
    /\ rstate' = "failed"
    /\ UNCHANGED <<writerVars, size, buf, lengths, message, got, taken,
                   stream, closed, noise>>

\* Seeded fault: nothing is read into a field that is to be empty.
NextFieldNonEmpty(st, n) ==
    rstate' = st /\ size' = (IF n = 0 THEN 1 ELSE n) /\ buf' = << >>

NextField(st, n) == rstate' = st /\ size' = n /\ buf' = << >>

(* A field is read: on to the next, unless the magic byte is wrong or the  *)
(* message does not parse.                                                 *)
FieldRead ==
    /\ Len(buf) = size
    /\ \/ /\ rstate = "magic" /\ buf = <<Magic>>
          /\ NextField("messageLength", Digits)
          /\ UNCHANGED <<lengths, message, got>>
       \/ /\ rstate = "messageLength" /\ lengths' = <<DecodeLength(buf)>>
          /\ NextField("valueLength", Digits) /\ UNCHANGED <<message, got>>
       \/ /\ rstate = "valueLength"
          /\ lengths' = Append(lengths, DecodeLength(buf))
          /\ NextField("message", lengths[1]) /\ UNCHANGED <<message, got>>
       \/ /\ rstate = "message" /\ message' = buf
          /\ NextField("value", lengths[2]) /\ UNCHANGED <<lengths, got>>
       \/ /\ rstate = "value" /\ ParsesAsMessage(message)
          /\ got' = Append(got, [message |-> message, value |-> buf])
          /\ rstate' = "finished" /\ UNCHANGED <<size, buf, lengths, message>>
       \/ /\ \/ rstate = "magic" /\ buf # <<Magic>>
             \/ rstate = "value" /\ ~ParsesAsMessage(message)
          /\ rstate' = "failed" /\ UNCHANGED <<size, buf, lengths, message, got>>
    /\ UNCHANGED <<writerVars, taken, stream, closed, noise>>

(* The receiver makes a reader for the next response.                      *)
NewReader ==
    /\ rstate = "finished"
    /\ NextField("magic", 1)
    /\ lengths' = << >> /\ message' = << >>
    /\ UNCHANGED <<writerVars, got, taken, stream, closed, noise>>

-----------------------------------------------------------------------------
(* The stream.                                                             *)

Close ==
    /\ ~closed /\ closed' = TRUE
    /\ stream' \in {stream, << >>}
    /\ UNCHANGED <<writerVars, readerVars, noise>>

Noise ==
    /\ noise < MaxNoise /\ ~closed
    /\ Len(stream) < Capacity
    /\ \E b \in Bytes : stream' = Append(stream, b)
    /\ noise' = noise + 1
    /\ UNCHANGED <<writerVars, readerVars, closed>>

WriteStep == NewWriter \/ FieldWritten \/ WriteFails
             \/ \E n \in 1 .. Capacity : WriteBytes(n)
ReadStep  == NewReader \/ FieldRead \/ ReadFails
             \/ \E n \in 1 .. Capacity : ReadBytes(n)

-----------------------------------------------------------------------------
(* Properties.                                                             *)

Encode(p) == <<Magic>> \o EncodeLength(Len(p.message))
                       \o EncodeLength(Len(p.value)) \o p.message \o p.value

Encoded(ps) == FlattenSeq([i \in DOMAIN ps |-> Encode(ps[i])])

\* A packet that was read is the one its bytes encode, and when a reader has
\* finished, not one byte of what follows its packet has been taken: the next
\* reader starts at a packet.  This holds whatever bytes arrive.
ReadsExactly ==
    /\ IsPrefix(Encoded(got), taken)
    /\ rstate = "finished" => taken = Encoded(got)

\* What is read is what was written, in order, however the stream cuts it up
\* and wherever it breaks, as long as nobody else writes to it.
Delivered == noise = 0 => IsPrefix(got, begun)
=============================================================================
