----------------------------- MODULE FrameStream -----------------------------
(***************************************************************************)
(* Reading messages from a stream: MessageTransport::recv of               *)
(* src/infrastructure/ipc/transport.rs and PipeConnection::recv of         *)
(* src/infrastructure/eventbus/transport.rs.  The peer writes frames; the  *)
(* stream hands over what has been written in pieces of any size, several  *)
(* frames at once or a part of one, and the reader decodes the frames from *)
(* the buffer it collects.                                                 *)
(***************************************************************************)
EXTENDS FrameCodec, SequencesExt

CONSTANTS
    Sent,       \* the messages the peer sends
    Others,     \* what else it writes: frames of another kind, or any cells
    MaxPieces   \* bound: pieces written

ASSUME PeerAssumption == Sent \subseteq Messages /\ Others \subseteq Cells

VARIABLES
    protocol,     \* the protocol of the receiver, "ipc" or "eventbus"
    written,      \* the pieces the peer has written
    open,         \* whether the peer has the stream open
    stream,       \* cells written and not yet read
    read_buffer,  \* MessageTransport.read_buffer, PipeConnection.read_buffer
    received,     \* messages returned by recv
    recv          \* "reading", or the error recv has returned

vars == <<protocol, written, open, stream, read_buffer, received, recv>>

Frames == {encode(m) : m \in Sent}

Init ==
    /\ protocol \in Protocols
    /\ written = <<>> /\ open = TRUE /\ stream = <<>>
    /\ read_buffer = <<>> /\ received = <<>> /\ recv = "reading"

(***************************************************************************)
(* The peer.                                                               *)
(***************************************************************************)

Write(p) ==
    /\ open /\ Len(written) < MaxPieces
    /\ written' = Append(written, p)
    /\ stream' = stream \o p
    /\ UNCHANGED <<protocol, open, read_buffer, received, recv>>

\* The peer ends while it writes: the last piece is cut.
EndInPiece(p) ==
    /\ open /\ Len(written) < MaxPieces
    /\ open' = FALSE
    /\ \E k \in 0 .. Len(p) - 1 :
          /\ written' = Append(written, SubSeq(p, 1, k))
          /\ stream' = stream \o SubSeq(p, 1, k)
    /\ UNCHANGED <<protocol, read_buffer, received, recv>>

(***************************************************************************)
(* recv, called again and again: decode what is in the buffer, and read    *)
(* more only when that is incomplete.                                      *)
(***************************************************************************)

\* Mutant of TakeFrame: the header is not counted.
TakePayload ==
    LET decoded == try_decode(protocol, read_buffer)
    IN  /\ recv = "reading" /\ decoded.kind = "message"
        /\ received' = Append(received, decoded.message)
        /\ read_buffer' = SubSeq(read_buffer, decoded.consumed - HeaderSize + 1, Len(read_buffer))
        /\ UNCHANGED <<protocol, written, open, stream, recv>>

\* Mutant of TakeFrame: the buffer is cleared.
TakeAll ==
    LET decoded == try_decode(protocol, read_buffer)
    IN  /\ recv = "reading" /\ decoded.kind = "message"
        /\ received' = Append(received, decoded.message)
        /\ read_buffer' = <<>>
        /\ UNCHANGED <<protocol, written, open, stream, recv>>

\* The frame is split off the buffer and its message returned.
TakeFrame ==
    LET decoded == try_decode(protocol, read_buffer)
    IN  /\ recv = "reading" /\ decoded.kind = "message"
        /\ received' = Append(received, decoded.message)
        /\ read_buffer' = SubSeq(read_buffer, decoded.consumed + 1, Len(read_buffer))
        /\ UNCHANGED <<protocol, written, open, stream, recv>>

\* The error is returned, and the bytes stay in the buffer; no caller reads on.
RejectFrame ==
    /\ recv = "reading" /\ try_decode(protocol, read_buffer) = Malformed
    /\ recv' = "malformed"
    /\ UNCHANGED <<protocol, written, open, stream, read_buffer, received>>

\* Mutant of ReadSome: the last cell read stays in the stream.
ReadOneTwice(n) ==
    /\ recv = "reading" /\ try_decode(protocol, read_buffer) = Incomplete
    /\ read_buffer' = read_buffer \o SubSeq(stream, 1, n)
    /\ stream' = SubSeq(stream, n, Len(stream))
    /\ UNCHANGED <<protocol, written, open, received, recv>>

ReadSome(n) ==
    /\ recv = "reading" /\ try_decode(protocol, read_buffer) = Incomplete
    /\ read_buffer' = read_buffer \o SubSeq(stream, 1, n)
    /\ stream' = SubSeq(stream, n + 1, Len(stream))
    /\ UNCHANGED <<protocol, written, open, received, recv>>

\* The stream ends; what is left in the buffer is not looked at again.
ReadEnd ==
    /\ recv = "reading" /\ try_decode(protocol, read_buffer) = Incomplete
    /\ stream = <<>> /\ ~open
    /\ recv' = "closed"
    /\ UNCHANGED <<protocol, written, open, stream, read_buffer, received>>

Receive ==
    \/ TakeFrame \/ RejectFrame \/ ReadEnd
    \/ \E n \in 1 .. Len(stream) : ReadSome(n)

Next ==
    \/ Receive
    \/ \E p \in Frames \cup Others : Write(p) \/ EndInPiece(p)

Spec == Init /\ [][Next]_vars

\* The callers call recv again after each message, and what has been written is
\* handed over some time.
FairSpec == Spec /\ WF_vars(Receive)

-----------------------------------------------------------------------------
(***************************************************************************)
(* Properties                                                              *)
(***************************************************************************)

\* The reference: the frames of a stream, read from its beginning to the end in
\* one go, and what comes after the last.
Parse(s) ==
    LET from[i \in 1 .. Len(s) + 1] ==
          LET decoded == try_decode(protocol, SubSeq(s, i, Len(s)))
          IN  IF decoded.kind = "message"
              THEN LET rest == from[i + decoded.consumed]
                   IN  [rest EXCEPT !.messages = <<decoded.message>> \o @]
              ELSE [messages |-> <<>>, end |-> decoded]
    IN  from[1]

\* However the stream is cut, the messages that come out are those that a reader
\* of the whole stream would find, in the order they were written, and what is
\* not read yet is the end of what was written; when recv fails, there was no
\* other message, and the error is the one a reader of the whole would find
\* (ipc/transport.rs:40-57, eventbus/transport.rs:118-148).
ReadAsWritten ==
    LET parsed == Parse(FlattenSeq(written))
    IN  /\ IsPrefix(received, parsed.messages)
        /\ IsSuffix(read_buffer \o stream, FlattenSeq(written))
        /\ recv # "reading" => received = parsed.messages
        /\ recv = "malformed" => parsed.end = Malformed
        /\ recv = "closed" => parsed.end = Incomplete

OnlyFrames(n) == Len(written) >= n /\ \A i \in 1 .. n : written[i] \in Frames

\* A message that was written is received as it was written, but for the types
\* and topics the receiver does not know, even when frames of several messages
\* lie in the buffer (message.rs encode and decode of both protocols).
ReceivedAsSent ==
    \A n \in 1 .. Len(received), m \in Sent :
        OnlyFrames(n) /\ written[n] = encode(m) => received[n] = Seen(protocol, m)

\* A message that was written whole is received, unless it or one before it is
\* not for this receiver: nothing waits for bytes with a whole frame in hand.
EveryFrameRead ==
    \A n \in 1 .. MaxPieces :
        OnlyFrames(n) ~> (Len(received) >= n \/ recv = "malformed")
=============================================================================
