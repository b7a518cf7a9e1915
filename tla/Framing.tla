------------------------------ MODULE Framing ------------------------------
(***************************************************************************)
(* One direction of a connection at the level of bytes.  send_packet       *)
(* writes whole frames; TCP delivers their bytes in pieces of its own      *)
(* choice; recv_packet reads a header and then a body, each with one recv  *)
(* whose result it does not look at.  While no piece ends inside the frame *)
(* that is being read this works; otherwise memory that was never written  *)
(* is taken for the missing bytes, and the model ends there (garbled).     *)
(***************************************************************************)
EXTENDS Codec

CONSTANTS
    Writable,   \* packets the sender may send
    MaxSent,   \* bound on their number
    Cuts,      \* bound: offsets in a frame at which a segment may end
    RoundTrips \* packets whose encoding is checked by itself

ASSUME WritableAssumption == Writable \subseteq Sendable
\* next_id is an int.
ASSUME MaxSentAssumption  == MaxSent \in Nat /\ MaxSent <= 2147483647
ASSUME CutsAssumption     == Cuts \subseteq Nat
ASSUME RoundTripsAssumption == RoundTrips \subseteq Sendable

VARIABLES
    sent,       \* the packets written, the first with id 0
    stream,     \* their bytes
    ends,       \* and the offsets in it at which each frame ends
    next_id,    \* ircreborn_connection::next_id of the sender
    connected,  \* writes reach the network
    writes_v1,  \* protocol_version = 1 at the sender
    reads_v1,   \* and at the receiver
    delivered,  \* bytes that have arrived at the receiver's socket
    consumed,   \* bytes that recv has taken
    length,     \* the length in the header; 0: recv_packet is not under way
    received,   \* what queue_add has got: id and packet
    garbled     \* unwritten memory was used

written == <<sent, stream, ends>>

vars == <<written, next_id, connected, writes_v1, reads_v1, delivered, consumed, length,
          received, garbled>>

\* Where the first n frames end in the stream.
FrameEnd(n) == IF n = 0 THEN 0 ELSE ends[n]

Available == delivered - consumed

Init ==
    /\ sent = <<>>
    /\ stream = <<>>
    /\ ends = <<>>
    /\ next_id = 0
    /\ connected = TRUE
    /\ writes_v1 = TRUE
    /\ reads_v1 = TRUE
    /\ delivered = 0
    /\ consumed = 0
    /\ length = 0
    /\ received = <<>>
    /\ garbled = FALSE

-----------------------------------------------------------------------------
(* The sender                                                              *)

\* send() to a connection that is gone fails; the id is used up all the same.
SendPacket(packet) ==
    /\ writes_v1
    /\ next_id < MaxSent
    /\ IF connected
       THEN /\ sent' = Append(sent, [id |-> next_id, packet |-> packet])
            /\ stream' = stream \o Frame(next_id, packet)
            /\ ends' = Append(ends, Len(stream'))
       ELSE UNCHANGED written
    /\ next_id' = next_id + 1
    /\ UNCHANGED <<connected, writes_v1, reads_v1, delivered, consumed, length, received,
                   garbled>>

\* SET_PROTO with another version: send_packet returns -1 from now on.
SenderSwitches ==
    /\ writes_v1
    /\ writes_v1' = FALSE
    /\ UNCHANGED <<written, next_id, connected, reads_v1, delivered, consumed, length,
                   received, garbled>>

-----------------------------------------------------------------------------
(* The network                                                             *)

Disconnects ==
    /\ connected
    /\ connected' = FALSE
    /\ UNCHANGED <<written, next_id, writes_v1, reads_v1, delivered, consumed, length,
                   received, garbled>>

\* A segment arrives; it ends inside a frame or at its end.
Deliver ==
    /\ \E k \in DOMAIN sent : \E cut \in Cuts \cup {FrameEnd(k) - FrameEnd(k - 1)} :
        /\ delivered' = FrameEnd(k - 1) + cut
        /\ delivered < delivered'
        /\ delivered' <= FrameEnd(k)
    /\ UNCHANGED <<written, next_id, connected, writes_v1, reads_v1, consumed, length,
                   received, garbled>>

-----------------------------------------------------------------------------
(* The receiver                                                            *)

ReceiverSwitches ==
    /\ reads_v1
    /\ length = 0
    /\ reads_v1' = FALSE
    /\ UNCHANGED <<written, next_id, connected, writes_v1, delivered, consumed, length,
                   received, garbled>>

\* recv of the header, if there is anything to read.
RecvHeader ==
    /\ reads_v1
    /\ length = 0
    /\ Available > 0
    /\ garbled' = (Available < HeaderLength)
    /\ length' = IF garbled' THEN 0 ELSE read_int(stream, consumed)
    /\ consumed' = consumed + (IF garbled' THEN Available ELSE HeaderLength)
    /\ UNCHANGED <<written, next_id, connected, writes_v1, reads_v1, delivered, received>>

\* Mutant: the packet is queued before those that wait.
RecvBodyInFront ==
    /\ length > 0
    /\ Available > 0
    /\ garbled' = (Available < length)
    /\ received' = IF garbled' THEN received
                   ELSE <<Opened(SubSeq(stream, consumed + 1, consumed + length))>> \o received
    /\ consumed' = consumed + (IF garbled' THEN Available ELSE length)
    /\ length' = 0
    /\ UNCHANGED <<written, next_id, connected, writes_v1, reads_v1, delivered>>

\* Mutant: the body is read when more than the body is there.
RecvBodyWaits ==
    /\ length > 0
    /\ Available > length
    /\ garbled' = FALSE
    /\ received' = Append(received, Opened(SubSeq(stream, consumed + 1, consumed + length)))
    /\ consumed' = consumed + length
    /\ length' = 0
    /\ UNCHANGED <<written, next_id, connected, writes_v1, reads_v1, delivered>>

\* Mutant: a body is expected to be all there is.
RecvBodyAlone ==
    /\ length > 0
    /\ Available > 0
    /\ garbled' = (Available # length)
    /\ received' = IF garbled' THEN received
                   ELSE Append(received, Opened(SubSeq(stream, consumed + 1, consumed + length)))
    /\ consumed' = consumed + (IF garbled' THEN Available ELSE length)
    /\ length' = 0
    /\ UNCHANGED <<written, next_id, connected, writes_v1, reads_v1, delivered>>

\* recv of the body blocks until there is something, and takes what there is.
RecvBody ==
    /\ length > 0
    /\ Available > 0
    /\ garbled' = (Available < length)
    /\ received' = IF garbled' THEN received
                   ELSE Append(received, Opened(SubSeq(stream, consumed + 1, consumed + length)))
    /\ consumed' = consumed + (IF garbled' THEN Available ELSE length)
    /\ length' = 0
    /\ UNCHANGED <<written, next_id, connected, writes_v1, reads_v1, delivered>>

RecvPacket == ~garbled /\ (RecvHeader \/ RecvBody)

-----------------------------------------------------------------------------
Next ==
    \/ \E packet \in Writable : SendPacket(packet)
    \/ SenderSwitches \/ Disconnects \/ Deliver
    \/ ReceiverSwitches \/ RecvPacket

Spec == Init /\ [][Next]_vars

\* The network delivers what was written, and the loops of server and client
\* call recv_packet as long as there is something to read.
FairSpec == Spec /\ WF_vars(Deliver) /\ WF_vars(RecvPacket)

-----------------------------------------------------------------------------
(* Properties                                                              *)

SomeIds == {0, 1, 255, 256, 65535, 65536, 16777215, 2147483647}

\* Reading a packet gives back what was sent, for every kind of packet and every
\* id of 32 bits.  The state does not matter; it is looked at before the first
\* packet.
EncodingIsInvertible ==
    sent = <<>> =>
        \A packet \in RoundTrips, id \in SomeIds :
            LET frame == Frame(id, packet)
            IN  /\ \A k \in DOMAIN frame : frame[k] \in Byte
                /\ Len(frame) = HeaderLength + read_int(frame, 0)
                /\ Opened(SubSeq(frame, HeaderLength + 1, Len(frame)))
                       = [id |-> id, packet |-> packet]

\* However TCP cuts the stream, what the queue gets is what was sent, in order
\* and each packet once, with its own id.
ReceivedInOrder == IsPrefix(received, sent)

\* Only a segment that ends inside the very frame that is being read does harm:
\* packets that arrive together, or long before they are read, do none
\* (networking.cc:127 and networking.cc:131).
GarbledOnlyBySplit ==
    [][garbled' /\ ~garbled => delivered < FrameEnd(Len(received) + 1)]_vars

\* Everything written is received in the end: one packet per call of
\* recv_packet is enough, though several arrive with one event.
AllReceived ==
    [](~garbled /\ reads_v1 => <>(garbled \/ ~reads_v1 \/ Len(received) = Len(sent)))
=============================================================================
