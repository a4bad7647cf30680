-------------------------- MODULE FrameCodec_proofs --------------------------
(***************************************************************************)
(* Proofs about FrameCodec, for buffers and messages of any length: what   *)
(* try_decode makes of a buffer does not depend on what follows, and what  *)
(* it makes of an encoded message is that message.                         *)
(***************************************************************************)
EXTENDS FrameCodec, SequenceTheorems, TLAPS

\* The beginning of a sequence is the same with anything after it.
LEMMA Beginning ==
    ASSUME NEW b \in Cells, NEW c \in Cells, NEW n \in 0 .. Len(b)
    PROVE  SubSeq(b \o c, 1, n) = SubSeq(b, 1, n)
<1>1. /\ Len(b) \in Nat /\ Len(c) \in Nat /\ b \o c \in Cells
      /\ Len(b \o c) = Len(b) + Len(c)
  BY DEF Cells
<1>2. SubSeq(b \o c, 1, n) \in Cells /\ Len(SubSeq(b \o c, 1, n)) = n
  BY <1>1, SubSeqProperties DEF Cells
<1>3. SubSeq(b, 1, n) \in Cells /\ Len(SubSeq(b, 1, n)) = n
  BY <1>1, SubSeqProperties DEF Cells
<1>4. \A i \in 1 .. n : SubSeq(b \o c, 1, n)[i] = SubSeq(b, 1, n)[i]
  BY <1>1, SubSeqProperties, ConcatProperties DEF Cells
<1> QED
  BY <1>2, <1>3, <1>4, SeqEqual DEF Cells

\* A decision, once taken, does not depend on how much more has arrived: the
\* reader may be given the stream in any pieces (message.rs try_decode, recv).
THEOREM CutIndependence ==
    ASSUME NEW p \in Protocols, NEW b \in Cells, NEW c \in Cells, try_decode(p, b) # Incomplete
    PROVE  try_decode(p, b \o c) = try_decode(p, b)
<1>1. Len(b) \in Nat /\ Len(b) >= HeaderSize
  BY DEF try_decode, Cells, HeaderSize
<1>2. Len(b \o c) \in Nat /\ Len(b \o c) >= Len(b)
  BY DEF Cells
<1>3. \A i \in 1 .. Len(b) : (b \o c)[i] = b[i]
  BY ConcatProperties DEF Cells
<1>4. (b \o c)[1] = b[1] /\ (b \o c)[3] = b[3] /\ b[3] \in Nat
  BY <1>1, <1>3 DEF HeaderSize, Cells
<1>5. CASE b[1] # Magic
  BY <1>1, <1>2, <1>4, <1>5 DEF try_decode, HeaderSize
<1>6. CASE b[1] = Magic
  <2> DEFINE n == HeaderSize + b[3]
  <2>1. n \in 0 .. Len(b)
    BY <1>1, <1>4, <1>6 DEF try_decode, HeaderSize, Incomplete
  <2>2. SubSeq(b \o c, 1, n) = SubSeq(b, 1, n)
    BY <2>1, Beginning
  <2>3. try_decode(p, b) = Decoded(p, SubSeq(b, 1, n))
    BY <1>1, <1>4, <1>6, <2>1 DEF try_decode, HeaderSize
  <2>4. try_decode(p, b \o c) = Decoded(p, SubSeq(b \o c, 1, n))
    BY <1>1, <1>2, <1>4, <1>6, <2>1 DEF try_decode, HeaderSize
  <2> QED
    BY <2>2, <2>3, <2>4
<1> QED
  BY <1>5, <1>6

\* A decoded frame takes a part of the buffer that is not empty, so recv always
\* gets on and never splits off more than there is.
THEOREM FrameIsInBuffer ==
    ASSUME NEW p \in Protocols, NEW b \in Cells, try_decode(p, b).kind = "message"
    PROVE  try_decode(p, b).consumed \in 1 .. Len(b)
<1>1. Len(b) \in Nat /\ Len(b) >= HeaderSize
  BY DEF try_decode, Cells, HeaderSize, Incomplete
<1>2. b[3] \in Nat
  BY <1>1 DEF Cells, HeaderSize
<1> DEFINE f == SubSeq(b, 1, HeaderSize + b[3])
<1>6. Incomplete.kind # "message" /\ Malformed.kind # "message"
  BY DEF Incomplete, Malformed
<1>3. try_decode(p, b) = Decoded(p, f) /\ Len(b) >= HeaderSize + b[3]
  <2>1. try_decode(p, b) # Incomplete /\ try_decode(p, b) # Malformed
    BY <1>6
  <2>2. ~(Len(b) < HeaderSize) /\ b[1] = Magic /\ ~(Len(b) < HeaderSize + b[3])
    BY <2>1 DEF try_decode
  <2>3. Len(b) >= HeaderSize + b[3]
    BY <1>1, <1>2, <2>2 DEF HeaderSize
  <2> QED
    BY <2>2, <2>3 DEF try_decode
<1>4. f[3] = b[3]
  <2>1. \A i \in 1 .. HeaderSize + b[3] : b[i] \in Nat
    BY <1>1, <1>2, <1>3 DEF Cells, HeaderSize
  <2> QED
    BY <1>2, <2>1, SubSeqProperties DEF HeaderSize
<1>5. try_decode(p, b).consumed = HeaderSize + b[3]
  <2>1. WellFormed(p, f)
    BY <1>6, <1>3 DEF Decoded
  <2>2. try_decode(p, b) = Frame(decode(p, f), HeaderSize + f[3])
    BY <1>3, <2>1 DEF Decoded
  <2>3. Frame(decode(p, f), HeaderSize + f[3]).consumed = HeaderSize + f[3]
    BY DEF Frame
  <2> QED
    BY <1>4, <2>2, <2>3
<1> QED
  BY <1>1, <1>2, <1>3, <1>5 DEF HeaderSize

\* What a frame is made of.
LEMMA EncodedCells ==
    ASSUME NEW m \in Messages
    PROVE  LET f == encode(m)
           IN  /\ f \in Cells /\ Len(f) = 8 + Len(m.data) /\ Len(m.data) \in Nat
               /\ f[1] = Magic /\ f[2] = Version /\ f[3] = MinPayloadSize + Len(m.data)
               /\ f[4] = m.msg_id /\ f[5] = m.msg_type /\ f[6] = m.topic
               /\ f[7] = m.error_code /\ f[8] = Len(m.data)
               /\ \A i \in 1 .. Len(m.data) : f[8 + i] = m.data[i]
<1> DEFINE h == <<Magic, Version, MinPayloadSize + Len(m.data),
                  m.msg_id, m.msg_type, m.topic, m.error_code, Len(m.data)>>
<1>1. m.data \in Cells /\ Len(m.data) \in Nat
  BY DEF Messages, Cells
<1>2. h \in Cells /\ Len(h) = 8
  BY <1>1, FieldAssumption DEF Messages, Cells, MinPayloadSize
<1>3. /\ h[1] = Magic /\ h[2] = Version /\ h[3] = MinPayloadSize + Len(m.data)
      /\ h[4] = m.msg_id /\ h[5] = m.msg_type /\ h[6] = m.topic
      /\ h[7] = m.error_code /\ h[8] = Len(m.data)
  OBVIOUS
<1> HIDE DEF h
<1>4. /\ h \o m.data \in Cells /\ Len(h \o m.data) = 8 + Len(m.data)
      /\ \A i \in 1 .. 8 : (h \o m.data)[i] = h[i]
      /\ \A i \in 1 .. Len(m.data) : (h \o m.data)[8 + i] = m.data[i]
  <2>1. /\ h \o m.data \in Seq(Nat) /\ Len(h \o m.data) = Len(h) + Len(m.data)
        /\ \A i \in 1 .. Len(h) + Len(m.data) :
              (h \o m.data)[i] = IF i <= Len(h) THEN h[i] ELSE m.data[i - Len(h)]
    BY <1>1, <1>2, ConcatProperties DEF Cells
  <2>2. \A i \in 1 .. 8 : (h \o m.data)[i] = h[i]
    BY <1>1, <1>2, <2>1
  <2>3. ASSUME NEW i \in 1 .. Len(m.data) PROVE (h \o m.data)[8 + i] = m.data[i]
    <3>1. 8 + i \in 1 .. Len(h) + Len(m.data) /\ ~(8 + i <= Len(h)) /\ 8 + i - Len(h) = i
      BY <1>1, <1>2
    <3> QED
      BY <2>1, <3>1
  <2> QED
    BY <1>2, <2>1, <2>2, <2>3 DEF Cells
<1>5. encode(m) = h \o m.data
  BY DEF encode, h
<1> QED
  BY <1>1, <1>3, <1>4, <1>5

\* A frame alone in the buffer is decoded whole.
LEMMA WholeFrame ==
    ASSUME NEW p \in Protocols, NEW m \in Messages
    PROVE  try_decode(p, encode(m)) = Decoded(p, encode(m))
<1> DEFINE f == encode(m)
<1>1. /\ f \in Cells /\ Len(f) = 8 + Len(m.data) /\ Len(m.data) \in Nat
      /\ f[1] = Magic /\ f[3] = MinPayloadSize + Len(m.data)
  BY EncodedCells
<1> HIDE DEF f
<1>2. HeaderSize + f[3] = Len(f) /\ SubSeq(f, 1, Len(f)) = f
  BY <1>1, SubSeqFull DEF HeaderSize, MinPayloadSize, Cells
<1>3. ~(Len(f) < HeaderSize) /\ f[1] = Magic
  BY <1>1 DEF HeaderSize
<1>4. ~(Len(f) < HeaderSize + f[3]) /\ SubSeq(f, 1, HeaderSize + f[3]) = f
  BY <1>1, <1>2
<1>5. try_decode(p, f) = Decoded(p, f)
  BY <1>3, <1>4 DEF try_decode
<1> QED
  BY <1>5 DEF f

\* A message comes out of its frame as it went in, whatever follows the frame in
\* the buffer (message.rs encode, decode and try_decode of both protocols).
THEOREM RoundTrip ==
    ASSUME NEW p \in Protocols, NEW m \in Messages, KnownType(p, m.msg_type), NEW rest \in Cells
    PROVE  try_decode(p, encode(m) \o rest) = Frame(Seen(p, m), Len(encode(m)))
<1> DEFINE f == encode(m)
<1>1. /\ f \in Cells /\ Len(f) = 8 + Len(m.data) /\ Len(m.data) \in Nat
      /\ f[1] = Magic /\ f[2] = Version /\ f[3] = MinPayloadSize + Len(m.data)
      /\ f[4] = m.msg_id /\ f[5] = m.msg_type /\ f[6] = m.topic
      /\ f[7] = m.error_code /\ f[8] = Len(m.data)
      /\ \A i \in 1 .. Len(m.data) : f[8 + i] = m.data[i]
  BY EncodedCells
<1> HIDE DEF f
<1>2. WellFormed(p, f)
  BY <1>1 DEF WellFormed, MinPayloadSize
<1>3. SubSeq(f, 9, 8 + f[8]) = m.data
  <2>1. m.data \in Seq(Nat) /\ f \in Seq(Nat)
    BY <1>1 DEF Messages, Cells
  <2>2. ASSUME NEW i \in 9 .. 8 + Len(m.data) PROVE f[i] \in Nat
    <3>1. i \in 1 .. Len(f)
      BY <1>1
    <3> QED
      BY <2>1, <3>1, ElementOfSeq
  <2>3. /\ SubSeq(f, 9, 8 + Len(m.data)) \in Seq(Nat)
        /\ Len(SubSeq(f, 9, 8 + Len(m.data))) = Len(m.data)
        /\ \A i \in 1 .. Len(m.data) : SubSeq(f, 9, 8 + Len(m.data))[i] = f[8 + i]
    BY <1>1, <2>2, SubSeqProperties
  <2> QED
    BY <1>1, <2>1, <2>3, SeqEqual
<1>4. decode(p, f) = Seen(p, m)
  BY <1>1, <1>3 DEF decode, Seen
<1>5. HeaderSize + f[3] = Len(f)
  BY <1>1 DEF HeaderSize, MinPayloadSize
<1>6. try_decode(p, f) = Frame(Seen(p, m), Len(f))
  <2>1. try_decode(p, f) = Decoded(p, f)
    BY WholeFrame DEF f
  <2> QED
    BY <1>2, <1>4, <1>5, <2>1 DEF Decoded
<1>7. try_decode(p, f) # Incomplete
  BY <1>6 DEF Frame, Incomplete
<1>8. try_decode(p, f \o rest) = try_decode(p, f)
  BY <1>1, <1>7, CutIndependence
<1> QED
  BY <1>6, <1>8 DEF f

\* A message of a type that the receiver does not know is refused, and not taken
\* for another, whatever follows it (ipc/message.rs MessageType::try_from).
THEOREM UnknownTypeRefused ==
    ASSUME NEW p \in Protocols, NEW m \in Messages, ~KnownType(p, m.msg_type), NEW rest \in Cells
    PROVE  try_decode(p, encode(m) \o rest) = Malformed
<1> DEFINE f == encode(m)
<1>1. f \in Cells /\ f[5] = m.msg_type
  BY EncodedCells
<1>2. ~WellFormed(p, f)
  BY <1>1 DEF WellFormed
<1>3. try_decode(p, f) = Malformed
  BY <1>2, WholeFrame DEF Decoded
<1>4. Malformed # Incomplete
  BY DEF Malformed, Incomplete
<1>5. try_decode(p, f \o rest) = try_decode(p, f)
  BY <1>1, <1>3, <1>4, CutIndependence
<1> QED
  BY <1>3, <1>5

\* The three outcomes of try_decode.
LEMMA Kinds ==
    /\ Incomplete.kind # "message" /\ Malformed.kind # "message" /\ Malformed # Incomplete
    /\ \A m, n : /\ Frame(m, n).kind = "message"
               /\ Frame(m, n) # Incomplete /\ Frame(m, n) # Malformed
               /\ Frame(m, n).message = m /\ Frame(m, n).consumed = n
BY DEF Incomplete, Malformed, Frame

LEMMA FrameFields ==
    \A a, b, c, d : Frame(a, b) = Frame(c, d) => a = c /\ b = d
<1> SUFFICES ASSUME NEW a, NEW b, NEW c, NEW d, Frame(a, b) = Frame(c, d)
             PROVE  a = c /\ b = d
  OBVIOUS
<1>1. Frame(a, b).message = a /\ Frame(c, d).message = c
  BY Kinds, Zenon
<1>2. Frame(a, b).consumed = b /\ Frame(c, d).consumed = d
  BY Kinds, Zenon
<1> QED
  BY <1>1, <1>2

\* A frame that try_decode accepts is whole, and the data is inside its payload.
LEMMA AcceptedFrame ==
    ASSUME NEW p \in Protocols, NEW b \in Cells,
           try_decode(p, b) # Incomplete, try_decode(p, b) # Malformed
    PROVE  LET f == SubSeq(b, 1, HeaderSize + b[3])
           IN  /\ f \in Cells /\ b[3] \in Nat /\ Len(f) = HeaderSize + b[3] /\ f[3] = b[3]
               /\ WellFormed(p, f)
               /\ try_decode(p, b) = Frame(decode(p, f), HeaderSize + f[3])
               /\ Len(f) >= 8 /\ f[8] \in Nat /\ 8 + f[8] <= Len(f)
<1> DEFINE f == SubSeq(b, 1, HeaderSize + b[3])
<1>1. Len(b) \in Nat /\ ~(Len(b) < HeaderSize) /\ ~(Len(b) < HeaderSize + b[3])
  BY DEF try_decode, Cells
<1>2. b[3] \in Nat /\ HeaderSize + b[3] \in 0 .. Len(b)
  <2>1. b[3] \in Nat
    BY <1>1 DEF Cells, HeaderSize
  <2> QED
    BY <1>1, <2>1 DEF HeaderSize
<1>3. try_decode(p, b) = Decoded(p, f)
  BY DEF try_decode
<1>4. f \in Seq(Nat) /\ Len(f) = HeaderSize + b[3] /\ f[3] = b[3]
  <2>1. \A i \in 1 .. HeaderSize + b[3] : b[i] \in Nat
    BY <1>2 DEF Cells
  <2> QED
    BY <1>2, <2>1, SubSeqProperties DEF HeaderSize
<1> HIDE DEF f
<1>5. WellFormed(p, f)
  BY <1>3 DEF Decoded
<1>6. try_decode(p, b) = Frame(decode(p, f), HeaderSize + f[3])
  BY <1>3, <1>5 DEF Decoded
<1>7. Len(f) >= 8 /\ f[8] \in Nat /\ 8 + f[8] <= Len(f)
  <2>1. f[3] >= MinPayloadSize /\ Len(f) = 3 + f[3] /\ Len(f) >= 8
    BY <1>2, <1>4, <1>5 DEF WellFormed, MinPayloadSize, HeaderSize
  <2>2. f[8] \in Nat
    BY <1>4, <2>1
  <2>3. f[8] <= f[3] - MinPayloadSize
    BY <1>5 DEF WellFormed
  <2> QED
    BY <1>2, <1>4, <2>1, <2>2, <2>3 DEF MinPayloadSize
<1> QED
  BY <1>2, <1>4, <1>5, <1>6, <1>7 DEF f, Cells

\* The two parts of a payload after its fields: the data, and what decode ignores.
LEMMA PayloadParts ==
    ASSUME NEW f \in Cells, Len(f) >= 8, f[8] \in Nat, 8 + f[8] <= Len(f)
    PROVE  LET data  == SubSeq(f, 9, 8 + f[8])
               extra == SubSeq(f, 9 + f[8], Len(f))
           IN  /\ data \in Cells /\ Len(data) = f[8]
               /\ \A i \in 1 .. f[8] : data[i] = f[8 + i]
               /\ extra \in Cells /\ Len(extra) = Len(f) - 8 - f[8]
               /\ \A i \in 1 .. Len(f) - 8 - f[8] : extra[i] = f[8 + f[8] + i]
<1>1. Len(f) \in Nat /\ \A i \in 1 .. Len(f) : f[i] \in Nat
  BY ElementOfSeq DEF Cells
<1>2. \A i \in 9 .. 8 + f[8] : f[i] \in Nat
  BY <1>1
<1>3. \A i \in 9 + f[8] .. Len(f) : f[i] \in Nat
  BY <1>1
<1>4. /\ SubSeq(f, 9, 8 + f[8]) \in Seq(Nat) /\ Len(SubSeq(f, 9, 8 + f[8])) = f[8]
      /\ \A i \in 1 .. f[8] : SubSeq(f, 9, 8 + f[8])[i] = f[8 + i]
  BY <1>1, <1>2, SubSeqProperties
<1>5. /\ SubSeq(f, 9 + f[8], Len(f)) \in Seq(Nat)
      /\ Len(SubSeq(f, 9 + f[8], Len(f))) = Len(f) - 8 - f[8]
      /\ \A i \in 1 .. Len(f) - 8 - f[8] : SubSeq(f, 9 + f[8], Len(f))[i] = f[8 + f[8] + i]
  BY <1>1, <1>3, SubSeqProperties
<1> QED
  BY <1>4, <1>5 DEF Cells

\* Whatever is in the buffer, try_decode asks for more, refuses it, or makes a
\* message of a part of it that is not empty: nothing is read from beyond the
\* payload, whatever the lengths in the frame say.
THEOREM Decodes ==
    ASSUME NEW p \in Protocols, NEW b \in Cells
    PROVE  \/ try_decode(p, b) = Incomplete
           \/ try_decode(p, b) = Malformed
           \/ /\ try_decode(p, b) = Frame(try_decode(p, b).message, try_decode(p, b).consumed)
              /\ try_decode(p, b).message \in Messages
              /\ try_decode(p, b).consumed \in 1 .. Len(b)
<1> DEFINE f == SubSeq(b, 1, HeaderSize + b[3])
<1> SUFFICES ASSUME try_decode(p, b) # Incomplete, try_decode(p, b) # Malformed
             PROVE  /\ try_decode(p, b) = Frame(try_decode(p, b).message, try_decode(p, b).consumed)
                    /\ try_decode(p, b).message \in Messages
                    /\ try_decode(p, b).consumed \in 1 .. Len(b)
  OBVIOUS
<1>1. /\ f \in Cells /\ try_decode(p, b) = Frame(decode(p, f), HeaderSize + f[3])
      /\ Len(f) >= 8 /\ f[8] \in Nat /\ 8 + f[8] <= Len(f)
  BY AcceptedFrame
<1> HIDE DEF f
<1>2. decode(p, f) \in Messages
  <2>1. f[4] \in Nat /\ f[5] \in Nat /\ f[6] \in Nat /\ f[7] \in Nat
    <3>1. \A i \in 1 .. Len(f) : f[i] \in Nat
      BY <1>1, ElementOfSeq DEF Cells
    <3>2. 4 \in 1 .. Len(f) /\ 5 \in 1 .. Len(f) /\ 6 \in 1 .. Len(f) /\ 7 \in 1 .. Len(f)
      BY <1>1 DEF Cells
    <3> QED
      BY <3>1, <3>2
  <2>2. TypeOf(f[5]) \in Nat /\ TopicOf(p, f[6]) \in Nat
    BY <2>1 DEF TypeOf, TopicOf, Event, Handshake
  <2>3. SubSeq(f, 9, 8 + f[8]) \in Cells
    BY <1>1, PayloadParts
  <2> QED
    BY <2>1, <2>2, <2>3 DEF decode, Messages
<1>3. try_decode(p, b).kind = "message"
  BY <1>1, Kinds
<1> QED
  BY <1>1, <1>2, <1>3, Kinds, FrameIsInBuffer

\* What try_decode accepts is a frame that a peer may have encoded, with at most
\* some cells more in its payload: the magic number, the version, a type that is
\* known and lengths that agree, and the message is the one that was encoded.
\* Everything else is refused or waited for (message.rs decode and try_decode of
\* both protocols).
THEOREM OnlyFramesDecode ==
    ASSUME NEW p \in Protocols, NEW b \in Cells, try_decode(p, b).kind = "message"
    PROVE  \E m \in Messages : \E extra \in Cells :
              /\ KnownType(p, m.msg_type)
              /\ try_decode(p, b).message = Seen(p, m)
              /\ SubSeq(b, 1, try_decode(p, b).consumed) =
                    <<Magic, Version, MinPayloadSize + Len(m.data) + Len(extra),
                      m.msg_id, m.msg_type, m.topic, m.error_code, Len(m.data)>>
                        \o m.data \o extra
<1> DEFINE f     == SubSeq(b, 1, HeaderSize + b[3])
           data  == SubSeq(f, 9, 8 + f[8])
           extra == SubSeq(f, 9 + f[8], Len(f))
           m     == [msg_id |-> f[4], msg_type |-> f[5], topic |-> f[6],
                     error_code |-> f[7], data |-> data]
           h     == <<Magic, Version, MinPayloadSize + Len(m.data) + Len(extra),
                      m.msg_id, m.msg_type, m.topic, m.error_code, Len(m.data)>>
<1>1. /\ f \in Cells /\ b[3] \in Nat /\ Len(f) = HeaderSize + b[3] /\ f[3] = b[3]
      /\ WellFormed(p, f)
      /\ try_decode(p, b) = Frame(decode(p, f), HeaderSize + f[3])
      /\ Len(f) >= 8 /\ f[8] \in Nat /\ 8 + f[8] <= Len(f)
  BY AcceptedFrame, Kinds
<1>2. try_decode(p, b).message = decode(p, f) /\ SubSeq(b, 1, try_decode(p, b).consumed) = f
  <2>1. /\ Frame(decode(p, f), HeaderSize + f[3]).message = decode(p, f)
        /\ Frame(decode(p, f), HeaderSize + f[3]).consumed = HeaderSize + f[3]
    BY Kinds, Zenon
  <2> QED
    BY <1>1, <2>1
<1> HIDE DEF f
<1>3. /\ data \in Cells /\ Len(data) = f[8]
      /\ \A i \in 1 .. f[8] : data[i] = f[8 + i]
      /\ extra \in Cells /\ Len(extra) = Len(f) - 8 - f[8]
      /\ \A i \in 1 .. Len(f) - 8 - f[8] : extra[i] = f[8 + f[8] + i]
  BY <1>1, PayloadParts
<1>4. decode(p, f) = Seen(p, m)
  BY DEF decode, Seen
<1> HIDE DEF data, extra
<1>5. \A i \in 1 .. Len(f) : f[i] \in Nat
  BY <1>1, ElementOfSeq DEF Cells
<1>6. Len(f) \in Nat /\ \A i \in 1 .. 8 : i \in 1 .. Len(f)
  <2>1. Len(f) \in Nat
    BY <1>1 DEF HeaderSize
  <2> QED
    BY <1>1, <2>1
<1>7. Len(f) \in Nat /\ f[8] \in Nat /\ 8 + f[8] <= Len(f)
  BY <1>1, <1>6
<1>8. m \in Messages
  BY <1>3, <1>5, <1>6 DEF Messages
<1>9. KnownType(p, m.msg_type)
  BY <1>1 DEF WellFormed
<1>10. h \in Seq(Nat) /\ Len(h) = 8 /\ \A i \in 1 .. 8 : h[i] = f[i]
  <2>1. f[1] = Magic /\ f[2] = Version
    BY <1>1 DEF WellFormed
  <2>2. f[3] = MinPayloadSize + Len(data) + Len(extra)
    BY <1>1, <1>3, <1>6 DEF HeaderSize, MinPayloadSize
  <2>3. f[8] = Len(data)
    BY <1>3
  <2>4. /\ h[1] = f[1] /\ h[2] = f[2] /\ h[3] = f[3] /\ h[4] = f[4]
        /\ h[5] = f[5] /\ h[6] = f[6] /\ h[7] = f[7] /\ h[8] = f[8]
    BY <2>1, <2>2, <2>3
  <2>5. Len(h) = 8
    OBVIOUS
  <2>6. h \in Seq(Nat)
    <3>1. f[1] \in Nat /\ f[2] \in Nat /\ f[3] \in Nat
      BY <1>1, <1>5, <1>6
    <3> QED
      BY <1>1, <1>5, <1>6, <2>1, <2>2, <2>3, <3>1
  <2> QED
    BY <2>4, <2>5, <2>6
<1> HIDE DEF h, m
<1>11. f = h \o data \o extra
  <2>1. data \in Seq(Nat) /\ extra \in Seq(Nat)
    BY <1>3 DEF Cells
  <2>2. /\ h \o data \in Seq(Nat) /\ Len(h \o data) = 8 + f[8]
        /\ \A i \in 1 .. 8 + f[8] : (h \o data)[i] = IF i <= 8 THEN h[i] ELSE data[i - 8]
    <3>1. /\ h \o data \in Seq(Nat) /\ Len(h \o data) = Len(h) + Len(data)
          /\ \A i \in 1 .. Len(h) + Len(data) :
                (h \o data)[i] = IF i <= Len(h) THEN h[i] ELSE data[i - Len(h)]
      BY <1>10, <2>1, ConcatProperties
    <3> QED
      BY <1>3, <1>10, <3>1
  <2>3. \A i \in 1 .. 8 + f[8] : (h \o data)[i] = f[i]
    <3> SUFFICES ASSUME NEW i \in 1 .. 8 + f[8] PROVE (h \o data)[i] = f[i]
      OBVIOUS
    <3>1. CASE i <= 8
      <4>1. i \in 1 .. 8
        BY <1>7, <3>1
      <4>2. h[i] = f[i]
        BY <1>10, <4>1
      <4>3. (h \o data)[i] = h[i]
        BY <2>2, <3>1
      <4> QED
        BY <4>2, <4>3
    <3>2. CASE ~(i <= 8)
      <4>1. i - 8 \in 1 .. f[8] /\ 8 + (i - 8) = i
        BY <1>1, <3>2
      <4> QED
        BY <1>3, <2>2, <3>2, <4>1
    <3> QED
      BY <3>1, <3>2
  <2> DEFINE hd == h \o data
  <2>4. hd \in Seq(Nat) /\ Len(hd) = 8 + f[8] /\ \A i \in 1 .. 8 + f[8] : hd[i] = f[i]
    BY <2>2, <2>3
  <2> HIDE DEF hd
  <2>5. /\ hd \o extra \in Seq(Nat) /\ Len(hd \o extra) = Len(f)
        /\ \A i \in 1 .. Len(f) : (hd \o extra)[i] = IF i <= 8 + f[8] THEN hd[i]
                                                     ELSE extra[i - (8 + f[8])]
    <3>1. /\ hd \o extra \in Seq(Nat) /\ Len(hd \o extra) = Len(hd) + Len(extra)
          /\ \A i \in 1 .. Len(hd) + Len(extra) :
                (hd \o extra)[i] = IF i <= Len(hd) THEN hd[i] ELSE extra[i - Len(hd)]
      BY <2>1, <2>4, ConcatProperties
    <3>2. Len(hd) = 8 + f[8] /\ Len(hd) + Len(extra) = Len(f)
      BY <1>7, <1>3, <2>4
    <3> QED
      BY <3>1, <3>2
  <2>6. \A i \in 1 .. Len(f) : (hd \o extra)[i] = f[i]
    <3> SUFFICES ASSUME NEW i \in 1 .. Len(f) PROVE (hd \o extra)[i] = f[i]
      OBVIOUS
    <3>1. CASE i <= 8 + f[8]
      BY <1>1, <2>4, <2>5, <3>1
    <3>2. CASE ~(i <= 8 + f[8])
      <4>1. /\ i - (8 + f[8]) \in 1 .. Len(f) - 8 - f[8]
            /\ 8 + f[8] + (i - (8 + f[8])) = i
        BY <1>1, <1>6, <3>2
      <4> QED
        BY <1>3, <2>5, <3>2, <4>1
    <3> QED
      BY <3>1, <3>2
  <2> QED
    BY <1>1, <2>5, <2>6, SeqEqual DEF hd, Cells
<1>12. SubSeq(b, 1, try_decode(p, b).consumed) = h \o m.data \o extra
  <2>1. m.data = data
    BY DEF m
  <2> QED
    BY <1>2, <1>11, <2>1
<1>13. extra \in Cells /\ try_decode(p, b).message = Seen(p, m)
  BY <1>2, <1>3, <1>4
<1> QED
  BY <1>8, <1>9, <1>12, <1>13 DEF h
=============================================================================
