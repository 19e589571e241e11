---------------------------- MODULE SecureChannel ----------------------------
(***************************************************************************)
(* The encrypted local channel between a client and the daemon             *)
(* (serctl_protocol/src/v6.rs), in the direction client to daemon: the     *)
(* three-message handshake, the byte-stream adapter V6ClientIo through     *)
(* which a frame is written as a length, a body and a flush, the record it *)
(* becomes, the transport that takes records piece by piece, and the       *)
(* adapter V6ServerIo that reads them.  The other direction runs the same  *)
(* macro without the check of the root request.                            *)
(*                                                                         *)
(* A caller may stop writing a frame between any two polls (a deadline, a  *)
(* cancelled future) and go on with the next one, and the transport may    *)
(* damage, repeat or lose one record or end in the middle of one.          *)
(***************************************************************************)
EXTENDS Naturals, Sequences
LOCAL INSTANCE SequencesExt

CONSTANTS
    Frames,      \* how many frames the caller has to write: 1..Frames
    Size,        \* the length of each frame's body, in prefix lengths
    Room,        \* how many pieces the transport holds before a write pends
    MaxMeddling, \* how often the transport damages, repeats or loses a record
    Instance,    \* the daemon instance that listens
    Known        \* the instances a descriptor the client read may name

VARIABLES
    shake,    \* how far the handshake is
    named,    \* the instance the client addresses
    task,     \* the frame being written and the part that comes next
    writeBuf, \* V6ClientIo.write_buf: the parts written since the last record
    sending,  \* V6ClientIo.send_header and send_body: pieces still to write
    counter,  \* c2d.send_counter
    rootSent, \* V6ClientSession.root_sent
    writer,   \* "up", "poisoned" or "gone"
    wire,     \* the pieces the transport holds
    plain,    \* V6ServerIo.recv_header and recv_body
    recvCounter, \* c2d_recv_counter
    rootReceived,
    reader,   \* "up", "poisoned" or "ended"
    taken,    \* the frames the daemon's frame reader has returned, in order
    flushed,  \* the parts the client has turned into records, in order
    meddling  \* how often the transport has misbehaved

client  == <<task, writeBuf, sending, counter, rootSent, writer, flushed>>
daemon  == <<plain, recvCounter, rootReceived, reader, taken>>
opening == <<shake, named>>
channel == <<opening, client, daemon, wire, meddling>>

-----------------------------------------------------------------------------
\* The frame the prelude commits to.
Root == 1

\* A frame is written as two parts.
Part(kind, f) == [kind |-> kind, frame |-> f]
WholeFrame(f) == <<Part("length", f), Part("body", f)>>

Length(part) == IF part.kind = "length" THEN 1 ELSE Size[part.frame]

Total(parts) == FoldLeft(LAMBDA n, part : n + Length(part), 0, parts)

\* What follows the first prefix: the bytes the root commitment hashes.
Payload(parts) == Tail(parts)

\* The prefix says how long the plaintext is.  It is the first length written,
\* whatever frame that belonged to.
PrefixConsistent(parts) ==
    /\ Head(parts).kind = "length"
    /\ Size[Head(parts).frame] + 1 = Total(parts)

\* A record: the plaintext under its counter.  intact is false once a byte of
\* it was altered.
Record(n, parts) == [count |-> n, parts |-> parts, intact |-> TRUE]

\* A record goes out as its header and a body written in two pieces.
Pieces(r) == [i \in 1..3 |-> [record |-> r, piece |-> i]]

-----------------------------------------------------------------------------
(* The handshake.  Both MACs cover the instance, the nonces and the prelude *)
(* under the activation secret of the instance, so they verify exactly when *)
(* the client addresses the instance that answers.                          *)

ChannelInit ==
    /\ shake = "start"
    /\ named \in Known
    /\ task = [frame |-> Root, part |-> "length"]
    /\ writeBuf = <<>>
    /\ sending = <<>>
    /\ counter = 0
    /\ rootSent = FALSE
    /\ writer = "up"
    /\ wire = <<>>
    /\ plain = <<>>
    /\ recvCounter = 0
    /\ rootReceived = FALSE
    /\ reader = "up"
    /\ taken = <<>>
    /\ flushed = <<>>
    /\ meddling = 0

\* v6_client_handshake sends Hello and waits for the challenge.
Hello ==
    /\ shake = "start"
    /\ shake' = "hello"
    /\ UNCHANGED <<named, client, daemon, wire, meddling>>

\* Whether a role's MAC verifies on the other side.
verify_role_mac == named = Instance

\* v6_server_handshake refuses a Hello that names another instance and
\* answers any other with its nonce and its MAC.
Challenge ==
    /\ shake = "hello"
    /\ shake' = IF verify_role_mac THEN "challenged" ELSE "refused"
    /\ UNCHANGED <<named, client, daemon, wire, meddling>>

\* The client verifies the server's MAC, answers with its own and derives the
\* keys: it may write from now on.
Response ==
    /\ shake = "challenged"
    /\ verify_role_mac
    /\ shake' = "answered"
    /\ UNCHANGED <<named, client, daemon, wire, meddling>>

\* The daemon verifies that MAC and derives the same keys.
Accept ==
    /\ shake = "answered"
    /\ verify_role_mac
    /\ shake' = "open"
    /\ UNCHANGED <<named, client, daemon, wire, meddling>>

\* Either side runs out of its deadline, or goes away, during the handshake.
HandshakeFails ==
    /\ shake \in {"start", "hello", "challenged", "answered"}
    /\ shake' = "refused"
    /\ UNCHANGED <<named, client, daemon, wire, meddling>>

-----------------------------------------------------------------------------
(* The client's adapter.                                                    *)

Writing == shake \in {"answered", "open"} /\ writer = "up"

\* poison: the buffers are cleared and every later poll fails.
poison ==
    /\ writer' = "poisoned"
    /\ writeBuf' = <<>>
    /\ sending' = <<>>

\* poll_write_io: a record still being sent is flushed first, then the part is
\* buffered.
poll_write(part) ==
    /\ Writing
    /\ task.frame <= Frames
    /\ task.part = part
    /\ sending = <<>>
    /\ writeBuf' = Append(writeBuf, Part(part, task.frame))
    /\ task' = [task EXCEPT !.part = IF part = "length" THEN "body" ELSE "flush"]
    /\ UNCHANGED <<sending, counter, rootSent, writer, flushed, opening, daemon, wire, meddling>>

\* root_ok_for_send: the first record must be the frame the prelude named.
root_ok_for_send(parts) == rootSent \/ parts = WholeFrame(Root)

\* arm_send: everything buffered becomes one record, if its prefix is
\* consistent; the counter is consumed with the ciphertext.
arm_send ==
    /\ Writing
    /\ task.part = "flush"
    /\ sending = <<>>
    /\ writeBuf # <<>>
    /\ IF PrefixConsistent(writeBuf) /\ root_ok_for_send(writeBuf)
       THEN /\ sending' = Pieces(Record(counter, writeBuf))
            /\ counter' = counter + 1
            /\ rootSent' = TRUE
            /\ flushed' = Append(flushed, writeBuf)
            /\ writeBuf' = <<>>
            /\ UNCHANGED writer
       ELSE poison /\ UNCHANGED <<counter, rootSent, flushed>>
    /\ UNCHANGED <<task, opening, daemon, wire, meddling>>

\* poll_send_parts: one piece more is accepted by the transport.  The next
\* poll of a caller that has given the frame up drives it as well.
poll_send_parts ==
    /\ Writing
    /\ sending # <<>>
    /\ task.frame <= Frames
    /\ Len(wire) < Room
    /\ wire' = Append(wire, Head(sending))
    /\ sending' = Tail(sending)
    /\ UNCHANGED <<task, writeBuf, counter, rootSent, writer, flushed, opening, daemon, meddling>>

\* poll_flush_io returns once nothing is left to send: write_frame returns
\* and the caller has its next frame to write.
FrameWritten ==
    /\ Writing
    /\ task.part = "flush"
    /\ writeBuf = <<>>
    /\ sending = <<>>
    /\ task.frame <= Frames
    /\ task' = [frame |-> task.frame + 1, part |-> "length"]
    /\ UNCHANGED <<writeBuf, sending, counter, rootSent, writer, flushed, opening, daemon, wire, meddling>>

\* The caller stops polling the write of a frame.  What is buffered stays.
Abandon ==
    /\ Writing
    /\ task.frame <= Frames
    /\ task' = [frame |-> task.frame + 1, part |-> "length"]
    /\ UNCHANGED <<writeBuf, sending, counter, rootSent, writer, flushed, opening, daemon, wire, meddling>>

\* The transport refuses a write: an error, or zero bytes accepted.
SendFails ==
    /\ Writing
    /\ sending # <<>>
    /\ poison
    /\ UNCHANGED <<task, counter, rootSent, flushed, opening, daemon, wire, meddling>>

\* The client drops the stream, or its process ends; what the transport
\* already accepted can still be read.
Close ==
    /\ shake \in {"answered", "open"}
    /\ writer # "gone"
    /\ writer' = "gone"
    /\ writeBuf' = <<>>
    /\ sending' = <<>>
    /\ UNCHANGED <<task, counter, rootSent, flushed, opening, daemon, wire, meddling>>

-----------------------------------------------------------------------------
(* The transport.                                                           *)

\* A whole record at the end of what the transport holds.
HoldsRecord ==
    /\ Len(wire) >= 3
    /\ wire[Len(wire)].piece = 3
    /\ \A i \in 0..2 : wire[Len(wire) - i].record = wire[Len(wire)].record

Front3 == SubSeq(wire, 1, Len(wire) - 3)
Last3 == SubSeq(wire, Len(wire) - 2, Len(wire))

Meddle ==
    /\ shake = "open"
    /\ meddling < MaxMeddling
    /\ HoldsRecord
    /\ wire' \in {Front3, wire \o Last3,
                  Front3 \o Pieces([wire[Len(wire)].record EXCEPT !.intact = FALSE])}
    /\ meddling' = meddling + 1
    /\ UNCHANGED <<opening, client, daemon>>

-----------------------------------------------------------------------------
(* The daemon's adapter and its frame reader.                               *)

Reading == shake = "open" /\ reader = "up"

\* As decrypt_frame would be with the counter left out of its nonce.
decrypt_frame_any_order(r, n) == r.intact

\* decrypt_frame under the counter the receiver expects.
decrypt_frame(r, n) == r.intact /\ r.count = n

\* root_ok_for_recv: the first frame must be the one the prelude committed to.
root_ok_for_recv(parts) == rootReceived \/ Payload(parts) = Payload(WholeFrame(Root))

\* poll_read_io: one piece more.  With the last piece of a record the counter
\* advances, the record is authenticated and the root commitment checked; the
\* frame reader then takes the frame the plaintext spells, if it spells one.
poll_read ==
    /\ Reading
    /\ wire # <<>>
    /\ wire' = Tail(wire)
    /\ LET r == Head(wire).record IN
       IF Head(wire).piece < 3
       THEN /\ plain' = Append(plain, Head(wire))
            /\ UNCHANGED <<recvCounter, rootReceived, reader, taken>>
       ELSE /\ plain' = <<>>
            /\ recvCounter' = recvCounter + 1
            /\ LET genuine == decrypt_frame(r, recvCounter) /\ root_ok_for_recv(r.parts)
                   parsed  == r.parts = WholeFrame(Head(r.parts).frame) IN
               /\ rootReceived' = (rootReceived \/ genuine)
               /\ reader' = IF genuine /\ parsed THEN "up" ELSE "poisoned"
               /\ taken' = IF genuine /\ parsed
                           THEN Append(taken, Head(r.parts).frame) ELSE taken
    /\ UNCHANGED <<opening, client, meddling>>

\* The transport ends: between records that is the end of the stream, inside
\* one it poisons the reader.
ReadEnd ==
    /\ Reading
    /\ wire = <<>>
    /\ writer = "gone"
    /\ reader' = IF plain = <<>> THEN "ended" ELSE "poisoned"
    /\ UNCHANGED <<plain, recvCounter, rootReceived, taken, opening, client, wire, meddling>>

ChannelNext ==
    \/ Hello \/ Challenge \/ Response \/ Accept \/ HandshakeFails
    \/ \E part \in {"length", "body"} : poll_write(part)
    \/ arm_send \/ poll_send_parts \/ FrameWritten \/ Abandon \/ SendFails \/ Close
    \/ Meddle
    \/ poll_read \/ ReadEnd

ChannelSpec == ChannelInit /\ [][ChannelNext]_channel

-----------------------------------------------------------------------------
\* Every variable keeps its type.
ChannelTypeOK ==
    /\ shake \in {"start", "hello", "challenged", "open", "refused"}
    /\ writer \in {"up", "poisoned", "gone"}
    /\ reader \in {"up", "poisoned", "ended"}
    /\ task.part \in {"length", "body", "flush"}
    /\ Len(wire) <= Room + 3 * MaxMeddling
    /\ taken \in Seq(1..Frames)

\* The frames the daemon's handler is given are exactly the first records the
\* client finished, in that order and none twice, and the first of them is
\* the request the handshake's prelude committed to: neither a write given up
\* half way (arm_send's prefix check and the root commitment), nor a record
\* damaged, repeated or lost on the way (the counters and the AEAD), nor a
\* stream cut inside a record puts anything else there.
DeliveredAsSent ==
    /\ Len(taken) <= Len(flushed)
    /\ \A i \in 1..Len(taken) : flushed[i] = WholeFrame(taken[i])
    /\ taken # <<>> => taken[1] = Root /\ named = Instance

=============================================================================
