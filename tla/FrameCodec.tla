----------------------------- MODULE FrameCodec -----------------------------
(***************************************************************************)
(* The frames of the two protocols: Message::encode, decode and try_decode *)
(* of src/infrastructure/ipc/message.rs (the client at standard input and  *)
(* output) and of src/infrastructure/eventbus/message.rs (browsers).  The  *)
(* layouts are the same; the two differ in what they do with a message     *)
(* type or a topic that they do not know.                                  *)
(*                                                                         *)
(* Every field of a frame is one cell, a number.  Nothing is looked at     *)
(* before the whole header, and then before the whole payload, is there,   *)
(* so a cut inside a field is not told from a cut in front of it.          *)
(***************************************************************************)
EXTENDS Naturals, Sequences

CONSTANTS
    Magic,    \* MAGIC
    Version,  \* PROTOCOL_VERSION and VERSION
    Topics    \* the topics of the event bus, Handshake among them

ASSUME FieldAssumption == Magic \in Nat /\ Version \in Nat /\ Topics \subseteq Nat

Protocols == {"ipc", "eventbus"}

Cells == Seq(Nat)

HeaderSize     == 3   \* magic, version, payload length
MinPayloadSize == 5   \* message id, type, topic, error code, data length

Request   == 1
Response  == 2
Event     == 3
Handshake == 1

Messages == [msg_id : Nat, msg_type : Nat, topic : Nat, error_code : Nat, data : Cells]

encode(m) ==
    <<Magic, Version, MinPayloadSize + Len(m.data),
      m.msg_id, m.msg_type, m.topic, m.error_code, Len(m.data)>> \o m.data

\* MessageType::try_from of the client protocol knows three types; From<u8> of
\* the event bus takes any other for an event.
KnownType(p, n) == n \in {Request, Response, Event} \/ p = "eventbus"
TypeOf(n)       == IF n \in {Request, Response, Event} THEN n ELSE Event

\* An unknown topic keeps its number on one side, and is a Handshake on the other.
TopicOf(p, n) == IF p = "ipc" \/ n \in Topics THEN n ELSE Handshake

\* What the receiver makes of a message.
Seen(p, m) ==
    [msg_id |-> m.msg_id, msg_type |-> TypeOf(m.msg_type), topic |-> TopicOf(p, m.topic),
     error_code |-> m.error_code, data |-> m.data]

Incomplete  == [kind |-> "incomplete"]
Malformed   == [kind |-> "malformed"]
Frame(m, n) == [kind |-> "message", message |-> m, consumed |-> n]

\* decode, of a frame f that is whole.  Cells that the payload has after the
\* data are ignored.
WellFormed(p, f) ==
    /\ f[1] = Magic /\ f[2] = Version
    /\ f[3] >= MinPayloadSize
    /\ KnownType(p, f[5])
    /\ f[8] <= f[3] - MinPayloadSize

\* Mutant of decode: the topic is taken as it comes.
decodeTopic(p, f) ==
    [msg_id |-> f[4], msg_type |-> TypeOf(f[5]), topic |-> f[6],
     error_code |-> f[7], data |-> SubSeq(f, 9, 8 + f[8])]

\* Mutant of decode: the data is taken from the cell of its length on.
decodeEarly(p, f) ==
    [msg_id |-> f[4], msg_type |-> TypeOf(f[5]), topic |-> TopicOf(p, f[6]),
     error_code |-> f[7], data |-> SubSeq(f, 8, 7 + f[8])]

decode(p, f) ==
    [msg_id |-> f[4], msg_type |-> TypeOf(f[5]), topic |-> TopicOf(p, f[6]),
     error_code |-> f[7], data |-> SubSeq(f, 9, 8 + f[8])]

\* decode, or its error.
Decoded(p, f) ==
    IF WellFormed(p, f) THEN Frame(decode(p, f), HeaderSize + f[3]) ELSE Malformed

\* Mutant of try_decode: the buffer has to be used up by the frame.
try_decodeAlone(p, b) ==
    IF Len(b) < HeaderSize THEN Incomplete
    ELSE IF b[1] # Magic THEN Malformed
    ELSE IF Len(b) # HeaderSize + b[3] THEN Incomplete
    ELSE Decoded(p, b)

\* The magic number is looked at as soon as there is a header, everything else
\* when the whole frame is there.
try_decode(p, b) ==
    IF Len(b) < HeaderSize THEN Incomplete
    ELSE IF b[1] # Magic THEN Malformed
    ELSE IF Len(b) < HeaderSize + b[3] THEN Incomplete
    ELSE Decoded(p, SubSeq(b, 1, HeaderSize + b[3]))
=============================================================================
