------------------------------- MODULE Codec -------------------------------
(***************************************************************************)
(* networking.cc: the bytes of the packets of protocol 1.  send_* builds a *)
(* payload, send_packet the frame around it; recv_packet opens the frame   *)
(* and queue_get_* the payload.  A text is a sequence of bytes.            *)
(***************************************************************************)
EXTENDS Integers, SequencesExt

Byte == 0 .. 255

\* uint32_t
Word == {w \in Nat : w \div 65536 < 65536}

Opcodes == <<"HELLO", "SET_PROTO", "SEND_MESSAGE", "RECV_MESSAGE", "SET_NICKNAME",
             "NICKNAME_UPDATED", "DISCONNECT">>

OpcodeByte(op) == CHOOSE k \in 0 .. 6 : Opcodes[k + 1] = op

write_int(i) ==
    <<i % 256, (i \div 256) % 256, (i \div 65536) % 256, (i \div 16777216) % 256>>

\* The integer at offset at of buf.
read_int(buf, at) ==
    buf[at + 1] + 256 * buf[at + 2] + 65536 * buf[at + 3] + 16777216 * buf[at + 4]

write_bool(b) == <<IF b THEN 255 ELSE 0>>

\* Any byte but 0 is taken for true.
read_bool(buf, at) == buf[at + 1] # 0

-----------------------------------------------------------------------------
(* Payloads                                                                *)

\* A length and that many bytes.
TextBytes(text) == write_int(Len(text)) \o text

\* memcpy of an array: the host keeps integers as write_int does.
ArrayBytes(ints) ==
    [k \in 1 .. 4 * Len(ints) |-> write_int(ints[1 + (k - 1) \div 4])[1 + ((k - 1) % 4)]]

HelloPayload(packet) ==
    TextBytes(packet.ident)
        \o write_int(Len(packet.protocols))
        \o ArrayBytes(packet.protocols)
        \o write_bool(packet.master)

SetProtoPayload(packet) == write_int(packet.protocol)

MessagePayload(packet) == TextBytes(packet.message)

RecvMessagePayload(packet) == TextBytes(packet.message) \o TextBytes(packet.author)

NicknamePayload(packet) == TextBytes(packet.nickname)

Payload(packet) ==
    CASE packet.op = "HELLO"        -> HelloPayload(packet)
      [] packet.op = "SET_PROTO"    -> SetProtoPayload(packet)
      [] packet.op = "SEND_MESSAGE" -> MessagePayload(packet)
      [] packet.op = "RECV_MESSAGE" -> RecvMessagePayload(packet)
      [] packet.op \in {"SET_NICKNAME", "NICKNAME_UPDATED"} -> NicknamePayload(packet)
      [] packet.op = "DISCONNECT"   -> <<>>

\* What the structs of networking.h hold.
Packet ==
         [op : {"HELLO"}, ident : Seq(Byte), protocols : Seq(Word), master : BOOLEAN]
    \cup [op : {"SET_PROTO"}, protocol : Word]
    \cup [op : {"SEND_MESSAGE"}, message : Seq(Byte)]
    \cup [op : {"RECV_MESSAGE"}, message : Seq(Byte), author : Seq(Byte)]
    \cup [op : {"SET_NICKNAME", "NICKNAME_UPDATED"}, nickname : Seq(Byte)]
    \cup [op : {"DISCONNECT"}]

\* send_packet computes the size of the frame, 13 more than the payload, as an int.
Sendable == {packet \in Packet : 13 + Len(Payload(packet)) <= 2147483647}

\* The text at an offset, and the offset behind it.
TextAt(buf, at) == SubSeq(buf, at + 5, at + 4 + read_int(buf, at))

Behind(buf, at) == at + 4 + read_int(buf, at)

\* Mutant: master is read before the protocols.
ReadHelloEarly(buf) ==
    LET at    == Behind(buf, 0)
        count == read_int(buf, at)
    IN  [op |-> "HELLO",
         ident |-> TextAt(buf, 0),
         protocols |-> [k \in 1 .. count |-> read_int(buf, at + 4 * k)],
         master |-> read_bool(buf, at + 4)]

ReadHello(buf) ==
    LET at    == Behind(buf, 0)
        count == read_int(buf, at)
    IN  [op |-> "HELLO",
         ident |-> TextAt(buf, 0),
         protocols |-> [k \in 1 .. count |-> read_int(buf, at + 4 * k)],
         master |-> read_bool(buf, at + 4 + 4 * count)]

ReadSetProto(buf) == [op |-> "SET_PROTO", protocol |-> read_int(buf, 0)]

ReadSendMessage(buf) == [op |-> "SEND_MESSAGE", message |-> TextAt(buf, 0)]

ReadRecvMessage(buf) ==
    [op |-> "RECV_MESSAGE", message |-> TextAt(buf, 0), author |-> TextAt(buf, Behind(buf, 0))]

ReadSetNickname(buf) == [op |-> "SET_NICKNAME", nickname |-> TextAt(buf, 0)]

ReadNicknameUpdated(buf) == [op |-> "NICKNAME_UPDATED", nickname |-> TextAt(buf, 0)]

ReadDisconnect(buf) == [op |-> "DISCONNECT"]

ReadPayload(op, buf) ==
    CASE op = "HELLO"            -> ReadHello(buf)
      [] op = "SET_PROTO"        -> ReadSetProto(buf)
      [] op = "SEND_MESSAGE"     -> ReadSendMessage(buf)
      [] op = "RECV_MESSAGE"     -> ReadRecvMessage(buf)
      [] op = "SET_NICKNAME"     -> ReadSetNickname(buf)
      [] op = "NICKNAME_UPDATED" -> ReadNicknameUpdated(buf)
      [] op = "DISCONNECT"       -> ReadDisconnect(buf)

-----------------------------------------------------------------------------
(* Frames                                                                  *)

HeaderLength == 4

\* The bytes that send_packet writes.
Frame(id, packet) ==
    LET payload == Payload(packet)
    IN  write_int(9 + Len(payload))
            \o write_int(id)
            \o <<OpcodeByte(packet.op)>>
            \o write_int(Len(payload))
            \o payload

\* What recv_packet makes of a frame behind its header.
Opened(msg) ==
    LET length  == read_int(msg, 5)
        payload == SubSeq(msg, 10, 9 + length)
    IN  [id |-> read_int(msg, 0),
         packet |-> ReadPayload(Opcodes[msg[5] + 1], payload)]
=============================================================================
