--------------------------- MODULE MCFrameStream ---------------------------
(***************************************************************************)
(* An instance of FrameStream.                                             *)
(***************************************************************************)
EXTENDS FrameStream

MagicCell   == 1
VersionCell == 1
BusTopics   == {1, 2}

Message(type, topic, data) ==
    [msg_id |-> 4, msg_type |-> type, topic |-> topic, error_code |-> 0, data |-> data]

\* Messages without and with data, of a topic that is not known to the event
\* bus and of a type that is known to no one.
Sample == {Message(1, 2, <<>>), Message(3, 9, <<6, 7>>), Message(8, 2, <<1>>)}

\* A frame of another version, and parts of frames: headers with a length that
\* is too short, right and longer, and the fields of a payload without data and
\* with data.
Parts == {<<1, 2, 5, 4, 3, 2, 0, 0>>, <<1, 1, 3>>, <<1, 1, 5>>, <<1, 1, 6>>,
          <<4, 3, 2, 0, 0>>, <<4, 3, 2, 0, 1>>}
=============================================================================
