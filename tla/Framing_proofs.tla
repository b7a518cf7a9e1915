--------------------------- MODULE Framing_proofs ---------------------------
(***************************************************************************)
(* Every packet survives its encoding, and the stream delivers every       *)
(* packet as it was sent, however TCP cuts it: for any packets, any number *)
(* of them and any pieces.                                                 *)
(***************************************************************************)
EXTENDS Framing, TLAPS, SequenceTheorems

-----------------------------------------------------------------------------
(* Integers                                                                *)

\* The four bytes of a word.
LEMMA IntBytes ==
    ASSUME NEW i \in Word
    PROVE  /\ write_int(i) \in Seq(Byte)
           /\ Len(write_int(i)) = 4
           /\ read_int(write_int(i), 0) = i
<1> DEFINE a == i \div 256
           b == i \div 65536
           c == i \div 16777216
<1>1. i \in Nat /\ b < 65536
  BY DEF Word
<1>2. i = 256 * a + (i % 256) /\ a \in Nat /\ i % 256 \in Byte
  BY <1>1 DEF Byte
<1>3. a = 256 * b + (a % 256) /\ b \in Nat /\ a % 256 \in Byte
  BY <1>1 DEF Byte
<1>4. b = 256 * c + (b % 256) /\ c \in Nat /\ b % 256 \in Byte
  BY <1>1 DEF Byte
<1>5. c % 256 = c /\ c \in Byte
  BY <1>1 DEF Byte
<1> DEFINE w == write_int(i)
<1>6. w = <<i % 256, a % 256, b % 256, c % 256>>
  BY DEF write_int
<1> HIDE DEF w, a, b, c
<1>7. w \in Seq(Byte) /\ Len(w) = 4
  BY <1>2, <1>3, <1>4, <1>5, <1>6
<1>8. read_int(w, 0) = (i % 256) + 256 * (a % 256) + 65536 * (b % 256) + 16777216 * (c % 256)
  BY <1>6 DEF read_int
<1>9. read_int(w, 0) = i
  <2> DEFINE x == i % 256
             y == a % 256
             z == b % 256
  <2>1. /\ i = 256 * a + x /\ a = 256 * b + y /\ b = 256 * c + z
        /\ a \in Int /\ b \in Int /\ c \in Int /\ x \in Int /\ y \in Int /\ z \in Int
    BY <1>2, <1>3, <1>4, <1>5 DEF Byte
  <2>2. read_int(w, 0) = x + 256 * y + 65536 * z + 16777216 * c
    BY <1>5, <1>8
  <2> HIDE DEF x, y, z
  <2> QED
    BY <2>1, <2>2
<1> QED
  BY <1>7, <1>9 DEF w

\* piece stands in buf behind the first at bytes.
Stands(piece, buf, at) ==
    /\ at + Len(piece) <= Len(buf)
    /\ \A j \in 1 .. Len(piece) : buf[at + j] = piece[j]

\* A concatenation: its parts stand in it, and so does what stands in them.
LEMMA Concatenation ==
    ASSUME NEW s \in Seq(Byte), NEW t \in Seq(Byte)
    PROVE  /\ s \o t \in Seq(Byte)
           /\ Len(s \o t) = Len(s) + Len(t)
           /\ Stands(s, s \o t, 0)
           /\ Stands(t, s \o t, Len(s))
<1> QED
  BY ConcatProperties DEF Stands

\* What stands in a part stands in the whole.
LEMMA StandsIn ==
    ASSUME NEW p \in Seq(Byte), NEW s \in Seq(Byte), NEW t \in Seq(Byte),
           NEW i \in Nat, NEW j \in Nat, Stands(p, s, i), Stands(s, t, j)
    PROVE  Stands(p, t, j + i)
<1>1. Len(p) \in Nat /\ Len(s) \in Nat /\ Len(t) \in Nat
  BY LenProperties
<1>2. ASSUME NEW k \in 1 .. Len(p)
      PROVE  t[j + i + k] = p[k]
  <2>1. i + k \in 1 .. Len(s) /\ s[i + k] = p[k]
    BY <1>1 DEF Stands
  <2>2. t[j + (i + k)] = s[i + k]
    BY <2>1 DEF Stands
  <2> QED
    BY <1>1, <2>1, <2>2
<1> QED
  BY <1>1, <1>2 DEF Stands

\* Reading an integer where one was written.
LEMMA ReadInt ==
    ASSUME NEW i \in Word, NEW buf \in Seq(Byte), NEW at \in Nat, Stands(write_int(i), buf, at)
    PROVE  read_int(buf, at) = i
<1> DEFINE w == write_int(i)
<1>1. Len(w) = 4 /\ read_int(w, 0) = i
  BY IntBytes
<1> HIDE DEF w
<1>2. /\ buf[at + 1] = w[1] /\ buf[at + 2] = w[2] /\ buf[at + 3] = w[3] /\ buf[at + 4] = w[4]
  BY <1>1 DEF Stands, w
<1> QED
  BY <1>1, <1>2 DEF read_int

\* The same for any natural number, modulo 2^32.
LEMMA IntWritten ==
    ASSUME NEW n \in Nat
    PROVE  write_int(n) \in Seq(Byte) /\ Len(write_int(n)) = 4
<1>1. n % 256 \in Byte /\ (n \div 256) % 256 \in Byte
  BY DEF Byte
<1>2. (n \div 65536) % 256 \in Byte /\ (n \div 16777216) % 256 \in Byte
  BY DEF Byte
<1> QED
  BY <1>1, <1>2 DEF write_int

\* And a text.
LEMMA TextWritten ==
    ASSUME NEW text \in Seq(Byte)
    PROVE  /\ TextBytes(text) \in Seq(Byte)
           /\ Len(TextBytes(text)) = 4 + Len(text)
           /\ Stands(write_int(Len(text)), TextBytes(text), 0)
           /\ Stands(text, TextBytes(text), 4)
<1> DEFINE w == write_int(Len(text))
<1>1. Len(text) \in Nat
  BY LenProperties
<1>2. w \in Seq(Byte) /\ Len(w) = 4
  BY <1>1, IntWritten
<1>3. TextBytes(text) = w \o text
  BY DEF TextBytes
<1> HIDE DEF w
<1>4. /\ w \o text \in Seq(Byte)
      /\ Len(w \o text) = Len(w) + Len(text)
      /\ Stands(w, w \o text, 0)
      /\ Stands(text, w \o text, Len(w))
  BY <1>2, Concatenation
<1> QED
  BY <1>2, <1>3, <1>4 DEF w

\* What stands in a buffer is cut from it unchanged.
LEMMA Slice ==
    ASSUME NEW p \in Seq(Byte), NEW buf \in Seq(Byte), NEW at \in Nat, Stands(p, buf, at)
    PROVE  SubSeq(buf, at + 1, at + Len(p)) = p
<1> DEFINE s == SubSeq(buf, at + 1, at + Len(p))
<1>1. Len(p) \in Nat /\ Len(buf) \in Nat /\ at + Len(p) <= Len(buf)
  BY LenProperties DEF Stands
<1>2. \A k \in at + 1 .. at + Len(p) : buf[k] \in Byte
  BY <1>1, ElementOfSeq
<1>3. /\ s \in Seq(Byte)
      /\ Len(s) = Len(p)
      /\ \A k \in 1 .. Len(p) : s[k] = buf[at + k]
  BY <1>1, <1>2, SubSeqProperties
<1>4. \A k \in 1 .. Len(p) : s[k] = p[k]
  BY <1>3 DEF Stands
<1> QED
  BY <1>3, <1>4, SeqEqual

\* A string is read back where it was written.
LEMMA ReadText ==
    ASSUME NEW text \in Seq(Byte), Len(text) \in Word, NEW buf \in Seq(Byte), NEW at \in Nat,
           Stands(TextBytes(text), buf, at)
    PROVE  /\ TextAt(buf, at) = text
           /\ Behind(buf, at) = at + 4 + Len(text)
<1>1. Stands(write_int(Len(text)), buf, at)
  BY TextWritten, IntBytes, StandsIn
<1>2. read_int(buf, at) = Len(text)
  BY <1>1, ReadInt
<1>3. Stands(text, buf, at + 4)
  BY TextWritten, StandsIn
<1>4. SubSeq(buf, (at + 4) + 1, (at + 4) + Len(text)) = text
  BY <1>3, Slice
<1> QED
  BY <1>2, <1>4 DEF TextAt, Behind, Word

\* Elements of an array written by memcpy.
LEMMA ArrayWritten ==
    ASSUME NEW ints \in Seq(Word)
    PROVE  /\ ArrayBytes(ints) \in Seq(Byte)
           /\ Len(ArrayBytes(ints)) = 4 * Len(ints)
           /\ \A k \in 1 .. Len(ints) : Stands(write_int(ints[k]), ArrayBytes(ints), 4 * (k - 1))
<1> DEFINE n == Len(ints)
           B(k) == write_int(ints[1 + (k - 1) \div 4])[1 + ((k - 1) % 4)]
           bytes == [k \in 1 .. 4 * n |-> B(k)]
<1>1. n \in Nat
  BY LenProperties
<1>2. \A k \in 1 .. n : ints[k] \in Word
  BY ElementOfSeq
<1> HIDE DEF n
<1>3. ASSUME NEW k \in 1 .. 4 * n
      PROVE  B(k) \in Byte
  <2>1. 1 + (k - 1) \div 4 \in 1 .. n /\ 1 + ((k - 1) % 4) \in 1 .. 4
    BY <1>1
  <2> DEFINE w == write_int(ints[1 + (k - 1) \div 4])
  <2>2. w \in Seq(Byte) /\ Len(w) = 4
    BY <1>2, <2>1, IntBytes
  <2> HIDE DEF w
  <2>3. w[1 + ((k - 1) % 4)] \in Byte
    BY <2>1, <2>2, ElementOfSeq
  <2> QED
    BY <2>3 DEF w
<1> HIDE DEF B
<1>4. bytes \in Seq(Byte) /\ Len(bytes) = 4 * n
  BY <1>1, <1>3
<1>5. ASSUME NEW k \in 1 .. n, NEW j \in 1 .. 4
      PROVE  bytes[4 * (k - 1) + j] = write_int(ints[k])[j]
  <2> DEFINE at == 4 * (k - 1) + j
  <2>1. at \in 1 .. 4 * n /\ 1 + (at - 1) \div 4 = k /\ 1 + ((at - 1) % 4) = j
    BY <1>1
  <2>2. bytes[at] = B(at)
    BY <2>1
  <2> QED
    BY <2>1, <2>2 DEF B
<1>6. bytes = ArrayBytes(ints)
  BY DEF ArrayBytes, n, B
<1> HIDE DEF bytes
<1>7. ASSUME NEW k \in 1 .. n
      PROVE  Stands(write_int(ints[k]), bytes, 4 * (k - 1))
  <2>1. Len(write_int(ints[k])) = 4
    BY <1>2, IntBytes
  <2>2. 4 * (k - 1) + 4 <= 4 * n
    BY <1>1
  <2> QED
    BY <1>4, <1>5, <2>1, <2>2 DEF Stands
<1> QED
  BY <1>4, <1>6, <1>7 DEF n

-----------------------------------------------------------------------------
(* Payloads                                                                *)

\* A length that fits an int is a word.
LEMMA LengthIsWord == \A n \in Nat : n <= 2147483647 => n \in Word
  BY DEF Word

\* Four parts, one behind the other.
Joined(p, q, r, s) == p \o q \o r \o s

\* Four fields written one behind the other stand there.
LEMMA FourParts ==
    ASSUME NEW p \in Seq(Byte), NEW q \in Seq(Byte), NEW r \in Seq(Byte), NEW s \in Seq(Byte)
    PROVE  /\ Joined(p, q, r, s) \in Seq(Byte)
           /\ Len(Joined(p, q, r, s)) = Len(p) + Len(q) + Len(r) + Len(s)
           /\ Stands(p, Joined(p, q, r, s), 0)
           /\ Stands(q, Joined(p, q, r, s), Len(p))
           /\ Stands(r, Joined(p, q, r, s), Len(p) + Len(q))
           /\ Stands(s, Joined(p, q, r, s), Len(p) + Len(q) + Len(r))
<1> DEFINE a == p \o q
           b == a \o r
           buf == Joined(p, q, r, s)
<1>1. Len(p) \in Nat /\ Len(q) \in Nat /\ Len(r) \in Nat /\ Len(s) \in Nat
  BY LenProperties
<1>2. /\ a \in Seq(Byte) /\ Len(a) = Len(p) + Len(q)
      /\ Stands(p, a, 0) /\ Stands(q, a, Len(p))
  BY Concatenation
<1>3. buf = b \o s
  BY DEF Joined
<1> HIDE DEF a, buf
<1>4. /\ b \in Seq(Byte) /\ Len(b) = Len(a) + Len(r)
      /\ Stands(a, b, 0) /\ Stands(r, b, Len(a))
  BY <1>2, Concatenation
<1> HIDE DEF b
<1>5. /\ buf \in Seq(Byte) /\ Len(buf) = Len(b) + Len(s)
      /\ Stands(b, buf, 0) /\ Stands(s, buf, Len(b))
  BY <1>3, <1>4, Concatenation
<1>6. Stands(r, buf, Len(p) + Len(q))
  BY <1>1, <1>2, <1>4, <1>5, StandsIn
<1>7. Stands(a, buf, 0)
  BY <1>2, <1>4, <1>5, StandsIn
<1>8. Stands(p, buf, 0)
  BY <1>2, <1>5, <1>7, StandsIn
<1>9. Stands(q, buf, Len(p))
  BY <1>1, <1>2, <1>5, <1>7, StandsIn
<1>10. Len(buf) = Len(p) + Len(q) + Len(r) + Len(s) /\ Len(b) = Len(p) + Len(q) + Len(r)
  BY <1>1, <1>2, <1>4, <1>5
<1> QED
  BY <1>5, <1>6, <1>8, <1>9, <1>10 DEF buf

\* The payload of HELLO: its text, its array and its flag.
LEMMA HelloParts ==
    ASSUME NEW ident \in Seq(Byte), NEW ints \in Seq(Word), NEW master \in BOOLEAN
    PROVE  /\ TextBytes(ident) \in Seq(Byte)
           /\ Len(TextBytes(ident)) = 4 + Len(ident)
           /\ write_int(Len(ints)) \in Seq(Byte)
           /\ Len(write_int(Len(ints))) = 4
           /\ ArrayBytes(ints) \in Seq(Byte)
           /\ Len(ArrayBytes(ints)) = 4 * Len(ints)
           /\ write_bool(master) \in Seq(Byte)
           /\ Len(write_bool(master)) = 1
           /\ (write_bool(master)[1] # 0) = master
<1>1. Len(ident) \in Nat /\ Len(ints) \in Nat
  BY LenProperties
<1>2. write_int(Len(ints)) \in Seq(Byte) /\ Len(write_int(Len(ints))) = 4
  BY <1>1, IntWritten
<1>3. TextBytes(ident) \in Seq(Byte) /\ Len(TextBytes(ident)) = 4 + Len(ident)
  BY TextWritten
<1>4. ArrayBytes(ints) \in Seq(Byte) /\ Len(ArrayBytes(ints)) = 4 * Len(ints)
  BY ArrayWritten
<1>5. /\ write_bool(master) \in Seq(Byte)
      /\ Len(write_bool(master)) = 1
      /\ (write_bool(master)[1] # 0) = master
  BY DEF write_bool, Byte
<1> QED
  BY <1>2, <1>3, <1>4, <1>5

\* The fields of a HELLO are found at their places,
LEMMA HelloFound ==
    ASSUME NEW ident \in Seq(Byte), NEW ints \in Seq(Word), NEW master \in BOOLEAN,
           NEW buf \in Seq(Byte), NEW i \in Nat, NEW n \in Nat,
           i = Len(ident), n = Len(ints), i \in Word, n \in Word,
           Stands(TextBytes(ident), buf, 0),
           Stands(write_int(n), buf, 4 + i),
           Stands(ArrayBytes(ints), buf, 8 + i),
           Stands(write_bool(master), buf, 8 + i + 4 * n)
    PROVE  ReadHello(buf) =
               [op |-> "HELLO", ident |-> ident, protocols |-> ints, master |-> master]
<1>1. TextAt(buf, 0) = ident /\ Behind(buf, 0) = 4 + i
  BY ReadText
<1>2. read_int(buf, 4 + i) = n
  BY ReadInt
<1>3. ASSUME NEW k \in 1 .. n
      PROVE  read_int(buf, 4 + i + 4 * k) = ints[k]
  <2>1. ints[k] \in Word
    BY ElementOfSeq
  <2>2. write_int(ints[k]) \in Seq(Byte)
    BY <2>1, IntBytes
  <2>3. ArrayBytes(ints) \in Seq(Byte) /\ Stands(write_int(ints[k]), ArrayBytes(ints), 4 * (k - 1))
    BY ArrayWritten
  <2>4. 8 + i \in Nat /\ 4 * (k - 1) \in Nat /\ 4 + i + 4 * k \in Nat
    OBVIOUS
  <2>5. Stands(write_int(ints[k]), buf, (8 + i) + (4 * (k - 1)))
    BY <2>2, <2>3, <2>4, StandsIn
  <2>6. (8 + i) + (4 * (k - 1)) = 4 + i + 4 * k
    OBVIOUS
  <2>7. Stands(write_int(ints[k]), buf, 4 + i + 4 * k)
    BY <2>5, <2>6
  <2> QED
    BY <2>1, <2>4, <2>7, ReadInt
<1>4. read_bool(buf, 8 + i + 4 * n) = master
  <2>1. Len(write_bool(master)) = 1 /\ (write_bool(master)[1] # 0) = master
    BY HelloParts
  <2>2. buf[8 + i + 4 * n + 1] = write_bool(master)[1]
    BY <2>1 DEF Stands
  <2> QED
    BY <2>1, <2>2 DEF read_bool
<1>5. [k \in 1 .. n |-> read_int(buf, 4 + i + 4 * k)] = ints
  BY <1>3, LenProperties
<1>6. 4 + i + 4 + 4 * n = 8 + i + 4 * n
  OBVIOUS
<1> QED
  BY <1>1, <1>2, <1>4, <1>5, <1>6 DEF ReadHello

\* so that the whole HELLO is read back.
LEMMA HelloRead ==
    ASSUME NEW ident \in Seq(Byte), NEW ints \in Seq(Word), NEW master \in BOOLEAN,
           NEW buf, buf = Joined(TextBytes(ident), write_int(Len(ints)), ArrayBytes(ints),
                                 write_bool(master))
    PROVE  /\ buf \in Seq(Byte)
           /\ Len(buf) <= 2147483647 =>
                ReadHello(buf) =
                    [op |-> "HELLO", ident |-> ident, protocols |-> ints, master |-> master]
<1> DEFINE i     == Len(ident)
           n     == Len(ints)
           text  == TextBytes(ident)
           count == write_int(Len(ints))
           array == ArrayBytes(ints)
           flag  == write_bool(master)
<1>1. i \in Nat /\ n \in Nat
  BY LenProperties
<1>2. /\ text \in Seq(Byte) /\ Len(text) = 4 + i
      /\ count \in Seq(Byte) /\ Len(count) = 4
      /\ array \in Seq(Byte) /\ Len(array) = 4 * n
      /\ flag \in Seq(Byte) /\ Len(flag) = 1
  BY HelloParts
<1> HIDE DEF i, n, text, count, array, flag
<1>3. buf = Joined(text, count, array, flag)
  BY DEF text, count, array, flag
<1> DEFINE joined == Joined(text, count, array, flag)
<1>4. /\ joined \in Seq(Byte)
      /\ Len(joined) = Len(text) + Len(count) + Len(array) + Len(flag)
      /\ Stands(text, joined, 0)
      /\ Stands(count, joined, Len(text))
      /\ Stands(array, joined, Len(text) + Len(count))
      /\ Stands(flag, joined, Len(text) + Len(count) + Len(array))
  <2> HIDE DEF joined
  <2> QED
    BY <1>2, FourParts DEF joined
<1> HIDE DEF joined
<1>5. /\ Len(buf) = 9 + i + 4 * n
      /\ Len(text) + Len(count) = 8 + i
      /\ Len(text) + Len(count) + Len(array) = 8 + i + 4 * n
  BY <1>1, <1>2, <1>3, <1>4 DEF joined
<1>6. ASSUME Len(buf) <= 2147483647
      PROVE  i \in Word /\ n \in Word
  BY <1>1, <1>5, <1>6, LengthIsWord
<1> QED
  BY <1>1, <1>2, <1>3, <1>4, <1>5, <1>6, HelloFound DEF joined, text, count, array, flag, i, n

\* A payload that is one text.
LEMMA TextRead ==
    ASSUME NEW text \in Seq(Byte), Len(TextBytes(text)) <= 2147483647
    PROVE  /\ TextBytes(text) \in Seq(Byte)
           /\ TextAt(TextBytes(text), 0) = text
<1>1. Len(text) \in Nat
  BY LenProperties
<1>2. TextBytes(text) \in Seq(Byte) /\ Len(TextBytes(text)) = 4 + Len(text)
  BY TextWritten
<1>3. Len(text) \in Word
  BY <1>1, <1>2, LengthIsWord
<1>4. Stands(TextBytes(text), TextBytes(text), 0)
  BY <1>1, <1>2 DEF Stands
<1> QED
  BY <1>2, <1>3, <1>4, ReadText

\* RECV_MESSAGE: a text and the name of its author.
LEMMA MessageRead ==
    ASSUME NEW packet, NEW message \in Seq(Byte), NEW author \in Seq(Byte),
           packet = [op |-> "RECV_MESSAGE", message |-> message, author |-> author]
    PROVE  /\ RecvMessagePayload(packet) \in Seq(Byte)
           /\ Len(RecvMessagePayload(packet)) <= 2147483647 =>
                ReadRecvMessage(RecvMessagePayload(packet)) = packet
<1> DEFINE s == TextBytes(message)
           t == TextBytes(author)
           buf == RecvMessagePayload(packet)
<1>1. Len(message) \in Nat /\ Len(author) \in Nat
  BY LenProperties
<1>2. /\ s \in Seq(Byte) /\ Len(s) = 4 + Len(message)
      /\ t \in Seq(Byte) /\ Len(t) = 4 + Len(author)
  BY TextWritten
<1>3. buf = s \o t
  BY DEF RecvMessagePayload
<1> HIDE DEF s, t, buf
<1>4. /\ buf \in Seq(Byte) /\ Len(buf) = Len(s) + Len(t)
      /\ Stands(s, buf, 0) /\ Stands(t, buf, Len(s))
  BY <1>2, <1>3, Concatenation
<1>5. ASSUME Len(buf) <= 2147483647
      PROVE  ReadRecvMessage(buf) = packet
  <2>1. Len(message) \in Word /\ Len(author) \in Word
    BY <1>1, <1>2, <1>4, <1>5, LengthIsWord
  <2>2. TextAt(buf, 0) = message /\ Behind(buf, 0) = 4 + Len(message)
    BY <1>1, <1>4, <2>1, ReadText DEF s
  <2>3. TextAt(buf, 4 + Len(message)) = author
    <3>1. 4 + Len(message) \in Nat /\ Stands(t, buf, 4 + Len(message))
      BY <1>1, <1>2, <1>4
    <3> QED
      BY <1>4, <2>1, <3>1, ReadText DEF t
  <2> QED
    BY <2>2, <2>3 DEF ReadRecvMessage
<1> QED
  BY <1>4, <1>5 DEF buf

Ops == {"HELLO", "SET_PROTO", "SEND_MESSAGE", "RECV_MESSAGE", "SET_NICKNAME",
        "NICKNAME_UPDATED", "DISCONNECT"}

\* Every payload reads as what was written.
LEMMA PayloadRead ==
    ASSUME NEW packet \in Packet
    PROVE  /\ packet.op \in Ops
           /\ Payload(packet) \in Seq(Byte)
           /\ Len(Payload(packet)) <= 2147483647 =>
                  ReadPayload(packet.op, Payload(packet)) = packet
<1> DEFINE Reads(buf) ==
               /\ buf \in Seq(Byte)
               /\ Len(buf) <= 2147483647 => ReadPayload(packet.op, buf) = packet
<1> SUFFICES packet.op \in Ops /\ Reads(Payload(packet))
  OBVIOUS
<1>1. CASE packet \in [op : {"HELLO"}, ident : Seq(Byte), protocols : Seq(Word), master : BOOLEAN]
  <2> DEFINE buf == HelloPayload(packet)
  <2>1. /\ packet.ident \in Seq(Byte) /\ packet.protocols \in Seq(Word)
        /\ packet.master \in BOOLEAN /\ packet.op = "HELLO"
        /\ packet = [op |-> "HELLO", ident |-> packet.ident, protocols |-> packet.protocols,
                     master |-> packet.master]
    BY <1>1
  <2>2. buf = Joined(TextBytes(packet.ident), write_int(Len(packet.protocols)),
                     ArrayBytes(packet.protocols), write_bool(packet.master))
    BY DEF HelloPayload, Joined
  <2> HIDE DEF buf
  <2>3. /\ buf \in Seq(Byte)
        /\ Len(buf) <= 2147483647 => ReadHello(buf) = packet
    BY <2>1, <2>2, HelloRead
  <2>4. Payload(packet) = buf /\ ReadPayload("HELLO", buf) = ReadHello(buf)
    BY <2>1 DEF Payload, ReadPayload, buf
  <2>5. packet.op \in Ops /\ Reads(buf)
    BY <2>1, <2>3, <2>4 DEF Ops
  <2> HIDE DEF Reads
  <2> QED
    BY <2>4, <2>5
<1>2. CASE packet \in [op : {"SET_PROTO"}, protocol : Word]
  <2> DEFINE buf == write_int(packet.protocol)
  <2>1. /\ packet.protocol \in Word /\ packet.op = "SET_PROTO"
        /\ packet = [op |-> "SET_PROTO", protocol |-> packet.protocol]
    BY <1>2
  <2>2. buf \in Seq(Byte) /\ read_int(buf, 0) = packet.protocol
    BY <2>1, IntBytes
  <2>3. Payload(packet) = buf
    BY <2>1 DEF Payload, SetProtoPayload
  <2> HIDE DEF buf
  <2>4. ReadPayload("SET_PROTO", buf) = packet
    BY <2>1, <2>2 DEF ReadPayload, ReadSetProto
  <2>5. packet.op \in Ops /\ Reads(buf)
    BY <2>1, <2>2, <2>4 DEF Ops
  <2> HIDE DEF Reads
  <2> QED
    BY <2>3, <2>5
<1>3. CASE packet \in [op : {"SEND_MESSAGE"}, message : Seq(Byte)]
  <2> DEFINE buf == TextBytes(packet.message)
  <2>1. /\ packet.message \in Seq(Byte) /\ packet.op = "SEND_MESSAGE"
        /\ packet = [op |-> "SEND_MESSAGE", message |-> packet.message]
    BY <1>3
  <2>2. buf \in Seq(Byte) /\ (Len(buf) <= 2147483647 => TextAt(buf, 0) = packet.message)
    BY <2>1, TextWritten, TextRead
  <2>3. Payload(packet) = buf
    BY <2>1 DEF Payload, MessagePayload
  <2> HIDE DEF buf
  <2>4. Len(buf) <= 2147483647 => ReadPayload("SEND_MESSAGE", buf) = packet
    BY <2>1, <2>2 DEF ReadPayload, ReadSendMessage
  <2>5. packet.op \in Ops /\ Reads(buf)
    BY <2>1, <2>2, <2>4 DEF Ops
  <2> HIDE DEF Reads
  <2> QED
    BY <2>3, <2>5
<1>4. CASE packet \in [op : {"RECV_MESSAGE"}, message : Seq(Byte), author : Seq(Byte)]
  <2> DEFINE buf == RecvMessagePayload(packet)
  <2>1. /\ packet.message \in Seq(Byte) /\ packet.author \in Seq(Byte)
        /\ packet.op = "RECV_MESSAGE"
        /\ packet = [op |-> "RECV_MESSAGE", message |-> packet.message, author |-> packet.author]
    BY <1>4
  <2>3. /\ buf \in Seq(Byte)
        /\ Len(buf) <= 2147483647 => ReadRecvMessage(buf) = packet
    BY <2>1, MessageRead
  <2>4. Payload(packet) = buf /\ ReadPayload("RECV_MESSAGE", buf) = ReadRecvMessage(buf)
    BY <2>1 DEF Payload, ReadPayload, buf
  <2>5. packet.op \in Ops /\ Reads(buf)
    BY <2>1, <2>3, <2>4 DEF Ops
  <2> HIDE DEF Reads
  <2> QED
    BY <2>4, <2>5
<1>5. CASE packet \in [op : {"SET_NICKNAME", "NICKNAME_UPDATED"}, nickname : Seq(Byte)]
  <2> DEFINE buf == TextBytes(packet.nickname)
  <2>1. /\ packet.nickname \in Seq(Byte) /\ packet.op \in {"SET_NICKNAME", "NICKNAME_UPDATED"}
        /\ packet = [op |-> packet.op, nickname |-> packet.nickname]
    BY <1>5
  <2>2. buf \in Seq(Byte) /\ (Len(buf) <= 2147483647 => TextAt(buf, 0) = packet.nickname)
    BY <2>1, TextWritten, TextRead
  <2>3. Payload(packet) = buf
    BY <2>1 DEF Payload, NicknamePayload
  <2> HIDE DEF buf
  <2>4. Len(buf) <= 2147483647 => ReadPayload(packet.op, buf) = packet
    BY <2>1, <2>2 DEF ReadPayload, ReadSetNickname, ReadNicknameUpdated
  <2>5. packet.op \in Ops /\ Reads(buf)
    BY <2>1, <2>2, <2>4 DEF Ops
  <2> HIDE DEF Reads
  <2> QED
    BY <2>3, <2>5
<1>6. CASE packet \in [op : {"DISCONNECT"}]
  <2>1. packet.op = "DISCONNECT" /\ packet = [op |-> "DISCONNECT"]
    BY <1>6
  <2>2. Payload(packet) = <<>> /\ ReadPayload("DISCONNECT", <<>>) = packet
    BY <2>1 DEF Payload, ReadPayload, ReadDisconnect
  <2>3. packet.op \in Ops /\ Reads(<<>>)
    BY <2>1, <2>2 DEF Ops
  <2> HIDE DEF Reads
  <2> QED
    BY <2>2, <2>3
<1> HIDE DEF Reads
<1> QED
  BY <1>1, <1>2, <1>3, <1>4, <1>5, <1>6 DEF Packet

-----------------------------------------------------------------------------
(* Frames                                                                  *)

\* The opcode of a header byte is the one that was written.
LEMMA OpcodeRead ==
    ASSUME NEW op \in Ops
    PROVE  OpcodeByte(op) \in 0 .. 6 /\ Opcodes[OpcodeByte(op) + 1] = op
<1>1. \E k \in 0 .. 6 : Opcodes[k + 1] = op
  <2>1. /\ Opcodes[0 + 1] = "HELLO" /\ Opcodes[1 + 1] = "SET_PROTO"
        /\ Opcodes[2 + 1] = "SEND_MESSAGE" /\ Opcodes[3 + 1] = "RECV_MESSAGE"
        /\ Opcodes[4 + 1] = "SET_NICKNAME" /\ Opcodes[5 + 1] = "NICKNAME_UPDATED"
        /\ Opcodes[6 + 1] = "DISCONNECT"
    BY DEF Opcodes
  <2> QED
    BY <2>1 DEF Ops
<1> QED
  BY <1>1 DEF OpcodeByte

\* The five parts of a frame and where they are.
LEMMA FrameParts ==
    ASSUME NEW id \in Word, NEW packet \in Sendable
    PROVE  LET frame == Frame(id, packet)
               n     == Len(Payload(packet))
           IN  /\ n \in Nat /\ 13 + n <= 2147483647
               /\ frame \in Seq(Byte)
               /\ Len(frame) = 13 + n
               /\ Stands(write_int(9 + n), frame, 0)
               /\ Stands(write_int(id), frame, 4)
               /\ frame[9] = OpcodeByte(packet.op)
               /\ Stands(write_int(n), frame, 9)
               /\ Stands(Payload(packet), frame, 13)
<1> DEFINE payload == Payload(packet)
           n       == Len(payload)
           frame   == Frame(id, packet)
           first   == write_int(9 + n)
           second  == write_int(id)
           code    == <<OpcodeByte(packet.op)>>
           third   == write_int(n)
           head    == Joined(first, second, code, third)
<1>1. packet \in Packet /\ 13 + n <= 2147483647
  BY DEF Sendable
<1>2. payload \in Seq(Byte) /\ packet.op \in Ops
  BY <1>1, PayloadRead
<1>3. n \in Nat
  BY <1>2, LenProperties
<1>4. /\ first \in Seq(Byte) /\ Len(first) = 4
      /\ third \in Seq(Byte) /\ Len(third) = 4
  BY <1>3, IntWritten
<1>5. second \in Seq(Byte) /\ Len(second) = 4
  BY IntBytes
<1>6. code \in Seq(Byte) /\ Len(code) = 1 /\ code[1] = OpcodeByte(packet.op)
  <2> DEFINE o == OpcodeByte(packet.op)
  <2>1. o \in Byte
    <3>1. o \in 0 .. 6
      BY <1>2, OpcodeRead
    <3> HIDE DEF o
    <3> QED
      BY <3>1 DEF Byte
  <2> HIDE DEF o
  <2>2. <<o>> \in Seq(Byte) /\ Len(<<o>>) = 1 /\ <<o>>[1] = o
    BY <2>1
  <2> QED
    BY <2>2 DEF o
<1>7. frame = head \o payload
  BY DEF Frame, Joined
<1> HIDE DEF first, second, code, third, payload, frame, n
<1>8. /\ head \in Seq(Byte)
      /\ Len(head) = Len(first) + Len(second) + Len(code) + Len(third)
      /\ Stands(first, head, 0)
      /\ Stands(second, head, Len(first))
      /\ Stands(code, head, Len(first) + Len(second))
      /\ Stands(third, head, Len(first) + Len(second) + Len(code))
  BY <1>4, <1>5, <1>6, FourParts
<1> HIDE DEF head
<1>9. /\ Len(head) = 13
      /\ Stands(first, head, 0)
      /\ Stands(second, head, 4)
      /\ Stands(code, head, 8)
      /\ Stands(third, head, 9)
  <2>1. /\ Len(first) + Len(second) = 8 /\ Len(first) + Len(second) + Len(code) = 9
        /\ Len(first) + Len(second) + Len(code) + Len(third) = 13
    BY <1>4, <1>5, <1>6
  <2> QED
    BY <1>4, <1>8, <2>1
<1>10. /\ frame \in Seq(Byte) /\ Len(frame) = Len(head) + Len(payload)
       /\ Stands(head, frame, 0) /\ Stands(payload, frame, 13)
  BY <1>2, <1>7, <1>8, <1>9, Concatenation
<1>11. /\ Stands(first, frame, 0) /\ Stands(second, frame, 4) /\ Stands(third, frame, 9)
       /\ Stands(code, frame, 8)
  BY <1>4, <1>5, <1>6, <1>8, <1>9, <1>10, StandsIn
<1>12. frame[9] = OpcodeByte(packet.op)
  BY <1>6, <1>11 DEF Stands
<1>13. Len(frame) = 13 + n
  BY <1>9, <1>10 DEF n
<1> QED
  BY <1>1, <1>3, <1>10, <1>11, <1>12, <1>13 DEF frame, n, payload, first, second, third

\* A frame begins with its length, and what is behind it opens as what was sent.
LEMMA FrameRead ==
    ASSUME NEW id \in Word, NEW packet \in Sendable
    PROVE  LET frame == Frame(id, packet)
           IN  /\ frame \in Seq(Byte)
               /\ Len(frame) \in Nat /\ Len(frame) > HeaderLength
               /\ read_int(frame, 0) = Len(frame) - HeaderLength
               /\ Opened(SubSeq(frame, HeaderLength + 1, Len(frame)))
                      = [id |-> id, packet |-> packet]
<1> DEFINE payload == Payload(packet)
           n       == Len(payload)
           frame   == Frame(id, packet)
           msg     == SubSeq(frame, 5, 13 + n)
<1>1. /\ n \in Nat /\ 13 + n <= 2147483647
      /\ frame \in Seq(Byte)
      /\ Len(frame) = 13 + n
      /\ Stands(write_int(9 + n), frame, 0)
      /\ Stands(write_int(id), frame, 4)
      /\ frame[9] = OpcodeByte(packet.op)
      /\ Stands(write_int(n), frame, 9)
      /\ Stands(payload, frame, 13)
  BY FrameParts
<1>2. /\ packet \in Packet
      /\ payload \in Seq(Byte) /\ packet.op \in Ops
      /\ n <= 2147483647 => ReadPayload(packet.op, payload) = packet
  BY PayloadRead DEF Sendable
<1> HIDE DEF payload, n, frame
<1>3. n \in Word /\ 9 + n \in Word
  BY <1>1, LengthIsWord
<1>4. read_int(frame, 0) = 9 + n
  BY <1>1, <1>3, ReadInt
<1>5. \A k \in 5 .. 13 + n : frame[k] \in Byte
  BY <1>1, ElementOfSeq
<1>6. /\ msg \in Seq(Byte) /\ Len(msg) = 9 + n
      /\ \A k \in 1 .. 9 + n : msg[k] = frame[4 + k]
  BY <1>1, <1>5, SubSeqProperties
<1> HIDE DEF msg
<1>7. ASSUME NEW p \in Seq(Byte), NEW at \in Nat, Stands(p, frame, 4 + at)
      PROVE  Stands(p, msg, at)
  <2>1. Len(p) \in Nat
    BY LenProperties
  <2>2. at + Len(p) <= 9 + n
    BY <1>1, <1>7, <2>1 DEF Stands
  <2>3. ASSUME NEW j \in 1 .. Len(p)
        PROVE  msg[at + j] = p[j]
    <3>1. at + j \in 1 .. 9 + n /\ 4 + (at + j) = 4 + at + j
      BY <1>1, <2>1, <2>2
    <3>2. frame[4 + at + j] = p[j]
      BY <1>7 DEF Stands
    <3> QED
      BY <1>6, <3>1, <3>2
  <2> QED
    BY <1>6, <2>2, <2>3 DEF Stands
<1>8. Stands(write_int(id), msg, 0) /\ Stands(write_int(n), msg, 5) /\ Stands(payload, msg, 9)
  BY <1>1, <1>2, <1>7, IntBytes, IntWritten
<1>9. read_int(msg, 0) = id /\ read_int(msg, 5) = n
  BY <1>3, <1>6, <1>8, ReadInt
<1>10. SubSeq(msg, 10, 9 + n) = payload
  BY <1>2, <1>6, <1>8, Slice DEF n
<1>11. Opcodes[msg[5] + 1] = packet.op
  <2>1. msg[5] = OpcodeByte(packet.op)
    BY <1>1, <1>6
  <2> QED
    BY <1>2, <2>1, OpcodeRead
<1>12. ReadPayload(packet.op, payload) = packet
  BY <1>1, <1>2
<1>13. Opened(msg) = [id |-> id, packet |-> packet]
  BY <1>9, <1>10, <1>11, <1>12 DEF Opened
<1>14. Len(frame) > 4 /\ Len(frame) - 4 = 9 + n
  BY <1>1
<1> QED
  BY <1>1, <1>4, <1>13, <1>14 DEF HeaderLength, frame, msg

\* A frame that stands in the stream is read as by itself.
LEMMA HeaderStands ==
    ASSUME NEW frame \in Seq(Byte), NEW at \in Nat, Len(frame) > HeaderLength,
           Stands(frame, stream, at)
    PROVE  read_int(stream, at) = read_int(frame, 0)
<1>1. Len(frame) \in Nat
  BY LenProperties
<1>2. /\ stream[at + 1] = frame[1] /\ stream[at + 2] = frame[2]
      /\ stream[at + 3] = frame[3] /\ stream[at + 4] = frame[4]
  BY <1>1 DEF Stands, HeaderLength
<1> QED
  BY <1>2 DEF read_int

\* The bytes behind a header in the stream are the body of its frame.
LEMMA BodyStands ==
    ASSUME NEW frame \in Seq(Byte), NEW at \in Nat, Len(frame) > HeaderLength,
           stream \in Seq(Byte), Stands(frame, stream, at)
    PROVE  SubSeq(stream, at + HeaderLength + 1, at + Len(frame))
               = SubSeq(frame, HeaderLength + 1, Len(frame))
<1> DEFINE s == SubSeq(stream, at + 5, at + Len(frame))
           t == SubSeq(frame, 5, Len(frame))
<1>1. Len(frame) \in Nat /\ Len(frame) > 4 /\ Len(stream) \in Nat
  BY LenProperties DEF HeaderLength
<1>2. at + Len(frame) <= Len(stream) /\ \A j \in 1 .. Len(frame) : stream[at + j] = frame[j]
  BY DEF Stands
<1>3. /\ \A k \in 5 .. Len(frame) : frame[k] \in Byte
      /\ \A k \in at + 5 .. at + Len(frame) : stream[k] \in Byte
  BY <1>1, <1>2, ElementOfSeq
<1>4. /\ t \in Seq(Byte) /\ Len(t) = Len(frame) - 4
      /\ \A k \in 1 .. Len(frame) - 4 : t[k] = frame[4 + k]
  BY <1>1, <1>3, SubSeqProperties
<1>5. /\ s \in Seq(Byte) /\ Len(s) = Len(frame) - 4
      /\ \A k \in 1 .. Len(frame) - 4 : s[k] = stream[at + 4 + k]
  BY <1>1, <1>3, SubSeqProperties
<1>6. \A k \in 1 .. Len(frame) - 4 : s[k] = t[k]
  BY <1>1, <1>2, <1>4, <1>5
<1>7. s = t
  BY <1>4, <1>5, <1>6, SeqEqual
<1> QED
  BY <1>7 DEF HeaderLength

-----------------------------------------------------------------------------
(* The inductive invariant                                                 *)

Entry == [id : Word, packet : Sendable]

SentFrame(k) == Frame(sent[k].id, sent[k].packet)

\* The frames stand in the stream, one behind the other and without a gap.
WrittenInv ==
    /\ next_id \in 0 .. MaxSent
    /\ sent \in Seq(Entry)
    /\ ends \in Seq(Nat)
    /\ stream \in Seq(Byte)
    /\ Len(ends) = Len(sent)
    /\ FrameEnd(Len(sent)) = Len(stream)
    /\ \A k \in 1 .. Len(sent) :
          /\ FrameEnd(k) = FrameEnd(k - 1) + Len(SentFrame(k))
          /\ Stands(SentFrame(k), stream, FrameEnd(k - 1))
    /\ delivered \in 0 .. Len(stream)

\* The receiver is between two frames, or behind the header of one.
ReadInv ==
    /\ received \in Seq(Entry)
    /\ Len(received) <= Len(sent)
    /\ \A k \in 1 .. Len(received) : received[k] = sent[k]
    /\ garbled \in BOOLEAN
    /\ ~garbled =>
          /\ length = 0 => consumed = FrameEnd(Len(received))
          /\ length # 0 =>
                /\ Len(received) < Len(sent)
                /\ consumed = FrameEnd(Len(received)) + HeaderLength
                /\ length = Len(SentFrame(Len(received) + 1)) - HeaderLength

StreamInv == WrittenInv /\ ReadInv

\* StreamInv is true of a new connection.
LEMMA InitInv == Init => StreamInv
<1> SUFFICES ASSUME Init
             PROVE  StreamInv
  OBVIOUS
<1>1. /\ <<>> \in Seq(Entry) /\ <<>> \in Seq(Nat) /\ <<>> \in Seq(Byte)
      /\ Len(<<>>) = 0 /\ 1 .. 0 = {}
  BY EmptySeq
<1>2. MaxSent \in Nat
  BY MaxSentAssumption
<1>3. 0 \in 0 .. MaxSent
  BY <1>2
<1>4. /\ sent = <<>> /\ stream = <<>> /\ ends = <<>> /\ received = <<>>
      /\ next_id = 0 /\ delivered = 0 /\ consumed = 0 /\ length = 0 /\ garbled = FALSE
  BY DEF Init
<1>5. FrameEnd(0) = 0 /\ 0 \in 0 .. 0
  BY DEF FrameEnd
<1>6. WrittenInv
  BY <1>1, <1>3, <1>4, <1>5 DEF WrittenInv
<1>7. ReadInv
  <2>1. FrameEnd(Len(received)) = 0 /\ \A k \in 1 .. Len(received) : received[k] = sent[k]
    BY <1>1, <1>4, <1>5
  <2>2. received \in Seq(Entry) /\ Len(received) <= Len(sent) /\ garbled \in BOOLEAN
    <3>1. garbled \in BOOLEAN
      BY <1>4
    <3>2. received \in Seq(Entry)
      BY <1>1, <1>4
    <3>3. Len(received) <= Len(sent)
      BY <1>1, <1>4
    <3> QED
      BY <3>1, <3>2, <3>3
  <2> QED
    BY <1>4, <2>1, <2>2 DEF ReadInv
<1> QED
  BY <1>6, <1>7 DEF StreamInv

\* Facts about the frame that is read next.
LEMMA EntryFacts ==
    ASSUME WrittenInv, NEW k \in 1 .. Len(sent)
    PROVE  /\ Len(sent) \in Nat
           /\ sent[k] \in Entry
           /\ sent[k] = [id |-> sent[k].id, packet |-> sent[k].packet]
           /\ SentFrame(k) \in Seq(Byte)
           /\ Len(SentFrame(k)) \in Nat /\ Len(SentFrame(k)) > HeaderLength
           /\ read_int(SentFrame(k), 0) = Len(SentFrame(k)) - HeaderLength
           /\ Opened(SubSeq(SentFrame(k), HeaderLength + 1, Len(SentFrame(k)))) = sent[k]
           /\ FrameEnd(k - 1) \in Nat /\ FrameEnd(k) \in Nat
<1>1. Len(sent) \in Nat
  BY LenProperties DEF WrittenInv
<1>2. sent[k] \in Entry
  BY ElementOfSeq DEF WrittenInv
<1>3. /\ sent[k].id \in Word /\ sent[k].packet \in Sendable
      /\ sent[k] = [id |-> sent[k].id, packet |-> sent[k].packet]
  BY <1>2 DEF Entry
<1>4. \A j \in 0 .. Len(sent) : FrameEnd(j) \in Nat
  BY <1>1, ElementOfSeq DEF FrameEnd, WrittenInv
<1>5. k - 1 \in 0 .. Len(sent) /\ k \in 0 .. Len(sent)
  BY <1>1
<1> QED
  BY <1>1, <1>2, <1>3, <1>4, <1>5, FrameRead DEF SentFrame

\* The offsets of the frames, in the order of the packets.
LEMMA EndsGrow ==
    ASSUME WrittenInv
    PROVE  /\ Len(sent) \in Nat
           /\ \A k \in 0 .. Len(sent) : FrameEnd(k) \in Nat /\ FrameEnd(k) <= Len(stream)
<1>1. Len(sent) \in Nat /\ Len(stream) \in Nat
  BY LenProperties DEF WrittenInv
<1>2. \A k \in 0 .. Len(sent) : FrameEnd(k) \in Nat
  BY <1>1, ElementOfSeq DEF FrameEnd, WrittenInv
<1>3. \A k \in 1 .. Len(sent) : FrameEnd(k) <= Len(stream)
  <2>1. TAKE k \in 1 .. Len(sent)
  <2>2. Stands(SentFrame(k), stream, FrameEnd(k - 1))
    BY DEF WrittenInv
  <2>3. FrameEnd(k) = FrameEnd(k - 1) + Len(SentFrame(k))
    BY DEF WrittenInv
  <2> QED
    BY <2>2, <2>3 DEF Stands
<1>4. FrameEnd(0) = 0
  BY DEF FrameEnd
<1> QED
  BY <1>1, <1>2, <1>3, <1>4

-----------------------------------------------------------------------------
(* The steps                                                               *)

\* What the receiver reads depends on what is behind it in the stream only.
LEMMA ReadPlaceKept ==
    ASSUME StreamInv, WrittenInv', Len(sent) <= Len(sent'),
           \A k \in 1 .. Len(sent) : sent'[k] = sent[k],
           \A k \in 0 .. Len(sent) : FrameEnd(k)' = FrameEnd(k),
           UNCHANGED <<consumed, length, received, garbled>>
    PROVE  ReadInv'
<1>1. Len(sent) \in Nat /\ Len(sent') \in Nat /\ Len(received) \in Nat
  BY LenProperties DEF StreamInv, WrittenInv, ReadInv
<1>2. ASSUME NEW k \in 1 .. Len(sent)
      PROVE  SentFrame(k)' = SentFrame(k)
  BY <1>2 DEF SentFrame
<1>3. /\ received' \in Seq(Entry)
      /\ Len(received') <= Len(sent')
      /\ \A k \in 1 .. Len(received') : received'[k] = sent'[k]
      /\ garbled' \in BOOLEAN
  BY <1>1 DEF StreamInv, ReadInv
<1>4. FrameEnd(Len(received))' = FrameEnd(Len(received))
  BY <1>1 DEF StreamInv, ReadInv
<1>5. Len(received) < Len(sent) =>
          SentFrame(Len(received) + 1)' = SentFrame(Len(received) + 1)
  BY <1>1, <1>2
<1> QED
  BY <1>1, <1>3, <1>4, <1>5 DEF StreamInv, ReadInv

\* send_packet adds a whole frame to the stream.
LEMMA SendPacketStep ==
    ASSUME StreamInv, NEW packet \in Writable, SendPacket(packet)
    PROVE  StreamInv'
<1> DEFINE entry == [id |-> next_id, packet |-> packet]
           frame == Frame(next_id, packet)
<1>1. MaxSent \in Nat /\ MaxSent <= 2147483647
  BY MaxSentAssumption
<1>2. next_id \in Nat /\ next_id < MaxSent
  BY <1>1 DEF StreamInv, WrittenInv, SendPacket
<1>3. next_id' \in 0 .. MaxSent
  BY <1>1, <1>2 DEF SendPacket
<1>4. next_id \in Word
  BY <1>1, <1>2, LengthIsWord
<1>5. packet \in Sendable
  BY WritableAssumption
<1>6. entry \in Entry
  BY <1>4, <1>5 DEF Entry
<1>7. frame \in Seq(Byte) /\ Len(frame) \in Nat
  BY <1>4, <1>5, FrameRead
<1>8. CASE ~connected
  <2>1. UNCHANGED <<sent, stream, ends, delivered, consumed, length, received, garbled>>
    BY <1>8 DEF SendPacket, written
  <2>2. UNCHANGED SentFrame(1) /\ \A k \in 0 .. Len(sent) : FrameEnd(k)' = FrameEnd(k)
    BY <2>1 DEF FrameEnd, SentFrame
  <2> QED
    BY <1>3, <2>1 DEF StreamInv, WrittenInv, ReadInv, FrameEnd, SentFrame
<1>9. CASE connected
  <2>1. /\ sent' = Append(sent, entry)
        /\ stream' = stream \o frame
        /\ ends' = Append(ends, Len(stream'))
        /\ UNCHANGED <<delivered, consumed, length, received, garbled>>
    BY <1>9 DEF SendPacket
  <2> HIDE DEF entry, frame
  <2>0. PICK n \in Nat : n = Len(sent)
    BY LenProperties DEF StreamInv, WrittenInv
  <2>2. /\ sent \in Seq(Entry) /\ ends \in Seq(Nat) /\ stream \in Seq(Byte)
        /\ Len(ends) = n /\ Len(stream) \in Nat
    BY <2>0, LenProperties DEF StreamInv, WrittenInv
  <2>3. /\ sent' \in Seq(Entry) /\ Len(sent') = n + 1
        /\ \A k \in 1 .. n : sent'[k] = sent[k]
        /\ sent'[n + 1] = entry
    BY <1>6, <2>0, <2>1, <2>2, AppendProperties
  <2>4. /\ stream' \in Seq(Byte)
        /\ Len(stream') = Len(stream) + Len(frame)
        /\ Stands(stream, stream', 0)
        /\ Stands(frame, stream', Len(stream))
    BY <1>7, <2>1, <2>2, Concatenation
  <2>5. Len(stream') \in Nat
    BY <1>7, <2>2, <2>4
  <2>6. /\ ends' \in Seq(Nat) /\ Len(ends') = n + 1
        /\ \A k \in 1 .. n : ends'[k] = ends[k]
        /\ ends'[n + 1] = Len(stream')
    <3>1. ends' = Append(ends, Len(stream')) /\ ends \in Seq(Nat) /\ Len(ends) = n
      BY <2>1, <2>2
    <3> QED
      BY <2>5, <3>1, AppendProperties
  <2>7. \A k \in 0 .. n : FrameEnd(k)' = FrameEnd(k)
    BY <2>2, <2>6 DEF FrameEnd
  <2>8. FrameEnd(n + 1)' = Len(stream')
    BY <2>2, <2>6 DEF FrameEnd
  <2>9. FrameEnd(n)' = Len(stream)
    BY <2>0, <2>2, <2>7 DEF StreamInv, WrittenInv
  <2>10. ASSUME NEW k \in 1 .. n
         PROVE  /\ FrameEnd(k)' = FrameEnd(k - 1)' + Len(SentFrame(k)')
                /\ Stands(SentFrame(k)', stream', FrameEnd(k - 1)')
    <3>1. SentFrame(k)' = SentFrame(k)
      BY <2>3 DEF SentFrame
    <3>2. k - 1 \in 0 .. n /\ k \in 0 .. n
      BY <2>2
    <3>3. FrameEnd(k - 1)' = FrameEnd(k - 1) /\ FrameEnd(k)' = FrameEnd(k)
      BY <2>7, <3>2
    <3>4. /\ SentFrame(k) \in Seq(Byte)
          /\ FrameEnd(k - 1) \in Nat
          /\ FrameEnd(k) = FrameEnd(k - 1) + Len(SentFrame(k))
          /\ Stands(SentFrame(k), stream, FrameEnd(k - 1))
      BY <2>0, EntryFacts DEF StreamInv, WrittenInv
    <3>5. Stands(SentFrame(k), stream', 0 + FrameEnd(k - 1))
      BY <2>2, <2>4, <3>4, StandsIn
    <3> QED
      BY <3>1, <3>3, <3>4, <3>5
  <2>11. /\ FrameEnd(n + 1)' = FrameEnd(n)' + Len(SentFrame(n + 1)')
         /\ Stands(SentFrame(n + 1)', stream', FrameEnd(n)')
    <3>1. SentFrame(n + 1)' = frame
      BY <2>3 DEF SentFrame, entry, frame
    <3> QED
      BY <2>4, <2>8, <2>9, <3>1
  <2>12. \A k \in 1 .. n + 1 :
            /\ FrameEnd(k)' = FrameEnd(k - 1)' + Len(SentFrame(k)')
            /\ Stands(SentFrame(k)', stream', FrameEnd(k - 1)')
    <3>1. TAKE k \in 1 .. n + 1
    <3>2. CASE k \in 1 .. n
      BY <2>10, <3>2
    <3>3. CASE k = n + 1
      BY <2>2, <2>11, <3>3
    <3> QED
      BY <2>2, <3>2, <3>3
  <2>13. delivered' \in 0 .. Len(stream')
    BY <1>7, <2>1, <2>2, <2>4 DEF StreamInv, WrittenInv
  <2>14. WrittenInv'
    BY <1>3, <2>3, <2>4, <2>6, <2>8, <2>12, <2>13 DEF WrittenInv
  <2>15. ReadInv'
    BY <2>0, <2>1, <2>2, <2>3, <2>7, <2>14, ReadPlaceKept
  <2> QED
    BY <2>14, <2>15 DEF StreamInv
<1> QED
  BY <1>8, <1>9

\* The network moves bytes and changes none.
LEMMA DeliverStep ==
    ASSUME StreamInv, Deliver
    PROVE  StreamInv'
<1>1. PICK k \in DOMAIN sent : delivered' \in Nat /\ delivered' <= FrameEnd(k)
  <2>1. PICK k \in DOMAIN sent : \E cut \in Cuts \cup {FrameEnd(k) - FrameEnd(k - 1)} :
            /\ delivered' = FrameEnd(k - 1) + cut
            /\ delivered < delivered'
            /\ delivered' <= FrameEnd(k)
    BY DEF Deliver
  <2>2. k \in 1 .. Len(sent)
    BY <2>1, LenProperties DEF StreamInv, WrittenInv
  <2>3. FrameEnd(k) \in Nat /\ FrameEnd(k - 1) \in Nat
    BY <2>2, EntryFacts DEF StreamInv
  <2>4. FrameEnd(k) - FrameEnd(k - 1) \in Nat
    <3>1. FrameEnd(k) = FrameEnd(k - 1) + Len(SentFrame(k)) /\ Len(SentFrame(k)) \in Nat
      BY <2>2, EntryFacts DEF StreamInv, WrittenInv
    <3> QED
      BY <2>3, <3>1
  <2> QED
    BY <2>1, <2>3, <2>4, CutsAssumption
<1>2. Len(stream) \in Nat /\ FrameEnd(k) \in Nat /\ FrameEnd(k) <= Len(stream)
  BY <1>1, EndsGrow, LenProperties DEF StreamInv, WrittenInv
<1>3. delivered' \in 0 .. Len(stream)
  BY <1>1, <1>2
<1>4. UNCHANGED <<sent, stream, ends, next_id, consumed, length, received, garbled>>
  BY DEF Deliver, written
<1> QED
  BY <1>3, <1>4 DEF StreamInv, WrittenInv, ReadInv, FrameEnd, SentFrame

\* The frame that is read next is there as soon as a byte of it is.
LEMMA NextFrame ==
    ASSUME StreamInv, ~garbled, delivered > consumed
    PROVE  LET n == Len(received)
           IN  /\ n \in Nat /\ n < Len(sent)
               /\ n + 1 \in 1 .. Len(sent)
               /\ consumed \in Nat /\ delivered \in Nat
               /\ FrameEnd(n) \in Nat
               /\ length = 0 => consumed = FrameEnd(n)
               /\ FrameEnd(n + 1) = FrameEnd(n) + Len(SentFrame(n + 1))
               /\ Stands(SentFrame(n + 1), stream, FrameEnd(n))
<1> DEFINE n == Len(received)
<1>1. /\ n \in Nat /\ n <= Len(sent) /\ Len(sent) \in Nat /\ Len(stream) \in Nat
      /\ delivered \in Nat /\ delivered <= Len(stream)
  BY LenProperties DEF StreamInv, WrittenInv, ReadInv
<1>2. FrameEnd(n) \in Nat
  BY <1>1, EndsGrow DEF StreamInv
<1>3. n < Len(sent)
  <2>1. CASE length = 0
    <3>1. consumed = FrameEnd(n)
      BY <2>1 DEF StreamInv, ReadInv
    <3>2. n # Len(sent)
      BY <1>1, <3>1 DEF StreamInv, WrittenInv
    <3> QED
      BY <1>1, <3>2
  <2>2. CASE length # 0
    BY <2>2 DEF StreamInv, ReadInv
  <2> QED
    BY <2>1, <2>2
<1>4. n + 1 \in 1 .. Len(sent) /\ (n + 1) - 1 = n
  BY <1>1, <1>3
<1>5. consumed \in Nat /\ (length = 0 => consumed = FrameEnd(n))
  BY <1>2 DEF StreamInv, ReadInv, HeaderLength
<1>6. /\ FrameEnd(n + 1) = FrameEnd(n) + Len(SentFrame(n + 1))
      /\ Stands(SentFrame(n + 1), stream, FrameEnd(n))
  BY <1>4 DEF StreamInv, WrittenInv
<1> QED
  BY <1>1, <1>2, <1>3, <1>4, <1>5, <1>6
-----------------------------------------------------------------------------
\* recv_packet takes a header where a frame begins.
LEMMA RecvHeaderStep ==
    ASSUME StreamInv, ~garbled, RecvHeader
    PROVE  StreamInv'
<1> DEFINE n == Len(received)
<1>1. /\ UNCHANGED <<sent, stream, ends, next_id, delivered, received>>
      /\ length = 0 /\ Available > 0
  BY DEF RecvHeader, written
<1>2. WrittenInv'
  BY <1>1 DEF StreamInv, WrittenInv, FrameEnd, SentFrame
<1>3. /\ received' \in Seq(Entry)
      /\ Len(received') <= Len(sent')
      /\ \A k \in 1 .. Len(received') : received'[k] = sent'[k]
  BY <1>1 DEF StreamInv, ReadInv
<1>4. garbled' \in BOOLEAN
  BY DEF RecvHeader
<1>5. ASSUME ~garbled'
      PROVE  /\ Len(received) < Len(sent)
             /\ length' # 0
             /\ consumed' = FrameEnd(Len(received)) + HeaderLength
             /\ length' = Len(SentFrame(Len(received) + 1)) - HeaderLength
  <2>1. delivered - consumed > 0
    BY <1>1 DEF Available
  <2>2. consumed' = consumed + HeaderLength /\ length' = read_int(stream, consumed)
    BY <1>5 DEF RecvHeader
  <2>3. delivered > consumed
    <3>1. consumed \in Nat /\ delivered \in Nat
      BY <1>1, EndsGrow, LenProperties DEF StreamInv, WrittenInv, ReadInv
    <3> QED
      BY <2>1, <3>1
  <2>4. /\ n < Len(sent) /\ n + 1 \in 1 .. Len(sent)
        /\ FrameEnd(n) \in Nat /\ consumed = FrameEnd(n)
        /\ Stands(SentFrame(n + 1), stream, FrameEnd(n))
    BY <1>1, <2>3, NextFrame
  <2>5. /\ SentFrame(n + 1) \in Seq(Byte)
        /\ Len(SentFrame(n + 1)) \in Nat /\ Len(SentFrame(n + 1)) > HeaderLength
        /\ read_int(SentFrame(n + 1), 0) = Len(SentFrame(n + 1)) - HeaderLength
    BY <2>4, EntryFacts DEF StreamInv
  <2>6. read_int(stream, consumed) = Len(SentFrame(n + 1)) - HeaderLength
    BY <2>4, <2>5, HeaderStands
  <2>7. Len(SentFrame(n + 1)) - HeaderLength # 0
    <3>1. Len(SentFrame(n + 1)) \in Nat /\ Len(SentFrame(n + 1)) > HeaderLength
      BY <2>5
    <3>2. \A l \in Nat : l > HeaderLength => l - HeaderLength # 0
      BY DEF HeaderLength
    <3> QED
      BY <3>1, <3>2
  <2> QED
    BY <2>2, <2>4, <2>6, <2>7
<1>6. /\ FrameEnd(Len(received))' = FrameEnd(Len(received))
      /\ SentFrame(Len(received) + 1)' = SentFrame(Len(received) + 1)
  BY <1>1 DEF FrameEnd, SentFrame
<1>7. ReadInv'
  BY <1>1, <1>3, <1>4, <1>5, <1>6 DEF ReadInv
<1> QED
  BY <1>2, <1>7 DEF StreamInv

\* recv_packet takes the rest of that frame, unless not all of it has come.
LEMMA RecvBodyStep ==
    ASSUME StreamInv, ~garbled, RecvBody
    PROVE  StreamInv'
<1>1. /\ UNCHANGED <<sent, stream, ends, next_id, delivered>>
      /\ length > 0 /\ Available > 0 /\ length' = 0
  BY DEF RecvBody, written
<1>2. WrittenInv'
  BY <1>1 DEF StreamInv, WrittenInv, FrameEnd, SentFrame
<1>3. PICK n \in Nat : n = Len(received) /\ n < Len(sent)
  BY <1>1, LenProperties DEF StreamInv, ReadInv
<1>4. Len(sent) \in Nat /\ n + 1 \in 1 .. Len(sent) /\ (n + 1) - 1 = n
  BY <1>3, EndsGrow DEF StreamInv
<1> DEFINE frame == SentFrame(n + 1)
<1>5. /\ consumed = FrameEnd(n) + HeaderLength
      /\ length = Len(frame) - HeaderLength
      /\ FrameEnd(n + 1) = FrameEnd(n) + Len(frame)
      /\ Stands(frame, stream, FrameEnd(n))
      /\ stream \in Seq(Byte)
  BY <1>1, <1>3, <1>4 DEF StreamInv, ReadInv, WrittenInv
<1>6. /\ frame \in Seq(Byte)
      /\ Len(frame) \in Nat /\ Len(frame) > HeaderLength
      /\ Opened(SubSeq(frame, HeaderLength + 1, Len(frame))) = sent[n + 1]
      /\ sent[n + 1] \in Entry
      /\ FrameEnd(n) \in Nat
  BY <1>4, EntryFacts DEF StreamInv
<1> HIDE DEF frame
<1>7. garbled' \in BOOLEAN
  BY DEF RecvBody
<1>8. CASE garbled'
  <2>1. received' = received
    BY <1>8 DEF RecvBody
  <2>2. ReadInv'
    BY <1>1, <1>7, <1>8, <2>1 DEF StreamInv, ReadInv
  <2> QED
    BY <1>2, <2>2 DEF StreamInv
<1>9. CASE ~garbled'
  <2>1. /\ received' = Append(received, Opened(SubSeq(stream, consumed + 1, consumed + length)))
        /\ consumed' = consumed + length
    BY <1>9 DEF RecvBody
  <2>2. /\ consumed + 1 = FrameEnd(n) + HeaderLength + 1
        /\ consumed + length = FrameEnd(n) + Len(frame)
    <3>1. /\ consumed = FrameEnd(n) + HeaderLength
          /\ length = Len(frame) - HeaderLength
          /\ FrameEnd(n) \in Nat /\ Len(frame) \in Nat
      BY <1>5, <1>6
    <3> QED
      BY <3>1 DEF HeaderLength
  <2>3. SubSeq(stream, consumed + 1, consumed + length)
            = SubSeq(frame, HeaderLength + 1, Len(frame))
    BY <1>5, <1>6, <2>2, BodyStands
  <2>4. received' = Append(received, sent[n + 1])
    BY <1>6, <2>1, <2>3
  <2>5. received \in Seq(Entry) /\ \A k \in 1 .. n : received[k] = sent[k]
    BY <1>3 DEF StreamInv, ReadInv
  <2>6. /\ received' \in Seq(Entry) /\ Len(received') = n + 1
        /\ \A k \in 1 .. n : received'[k] = received[k]
        /\ received'[n + 1] = sent[n + 1]
    BY <1>3, <1>6, <2>4, <2>5, AppendProperties
  <2>7. \A k \in 1 .. n + 1 : received'[k] = sent[k]
    BY <1>3, <2>5, <2>6
  <2>8. Len(received') <= Len(sent') /\ \A k \in 1 .. Len(received') : received'[k] = sent'[k]
    BY <1>1, <1>3, <1>4, <2>6, <2>7
  <2>9. FrameEnd(n + 1)' = FrameEnd(n + 1)
    BY <1>1 DEF FrameEnd
  <2>10. consumed' = FrameEnd(Len(received))'
    <3>1. consumed' = FrameEnd(n + 1)
      BY <1>5, <2>1, <2>2
    <3>2. FrameEnd(Len(received))' = FrameEnd(n + 1)'
      BY <2>6
    <3> QED
      BY <2>9, <3>1, <3>2
  <2>11. ReadInv'
    <3>1. received' \in Seq(Entry)
      BY <2>6
    <3> QED
      BY <1>1, <1>7, <1>9, <2>8, <2>10, <3>1 DEF ReadInv
  <2> QED
    BY <1>2, <2>11 DEF StreamInv
<1> QED
  BY <1>8, <1>9

\* Every step keeps StreamInv.
LEMMA NextInv == StreamInv /\ [Next]_vars => StreamInv'
<1> SUFFICES ASSUME StreamInv, [Next]_vars
             PROVE  StreamInv'
  OBVIOUS
<1>1. ASSUME NEW packet \in Writable, SendPacket(packet)
      PROVE  StreamInv'
  BY <1>1, SendPacketStep
<1>2. CASE Deliver
  BY <1>2, DeliverStep
<1>3. CASE RecvPacket
  BY <1>3, RecvHeaderStep, RecvBodyStep DEF RecvPacket
<1>4. CASE SenderSwitches \/ Disconnects \/ ReceiverSwitches \/ UNCHANGED vars
  <2>1. UNCHANGED <<sent, stream, ends, next_id, delivered, consumed, length, received, garbled>>
    BY <1>4 DEF SenderSwitches, Disconnects, ReceiverSwitches, vars, written
  <2> QED
    BY <2>1 DEF StreamInv, WrittenInv, ReadInv, FrameEnd, SentFrame
<1> QED
  BY <1>1, <1>2, <1>3, <1>4 DEF Next

\* What was sent, is under way and was read make up one stream of frames.
THEOREM Invariance == FairSpec => []StreamInv
<1>1. Init => StreamInv
  BY InitInv
<1>2. StreamInv /\ [Next]_vars => StreamInv'
  BY NextInv
<1> QED
  BY <1>1, <1>2, PTL DEF FairSpec, Spec

-----------------------------------------------------------------------------
\* However TCP cuts the stream, the queue of the receiver gets what was sent, in
\* order and each packet once (networking.cc:110-146): for every packet that fits
\* a frame, every number of them and every way of cutting.
THEOREM ReceivedCorrect == FairSpec => []ReceivedInOrder
<1>1. StreamInv => ReceivedInOrder
  <2> SUFFICES ASSUME StreamInv
               PROVE  IsPrefix(received, sent)
    BY DEF ReceivedInOrder
  <2>1. /\ received \in Seq(Entry) /\ sent \in Seq(Entry)
        /\ Len(received) <= Len(sent)
        /\ \A k \in 1 .. Len(received) : received[k] = sent[k]
    BY DEF StreamInv, WrittenInv, ReadInv
  <2>2. Len(received) \in Nat /\ Len(sent) \in Nat
    BY <2>1, LenProperties
  <2>3. SubSeq(sent, 1, Len(received)) = received
    <3>1. \A k \in 1 .. Len(received) : sent[k] \in Entry
      BY <2>1, <2>2, ElementOfSeq
    <3> DEFINE s == SubSeq(sent, 1, Len(received))
    <3>2. /\ s \in Seq(Entry) /\ Len(s) = Len(received)
          /\ \A k \in 1 .. Len(received) : s[k] = sent[k]
      BY <2>2, <3>1, SubSeqProperties
    <3> HIDE DEF s
    <3>3. s = received
      BY <2>1, <2>2, <3>2, SeqEqual
    <3> QED
      BY <3>3 DEF s
  <2> QED
    BY <2>1, <2>2, <2>3 DEF IsPrefix
<1> QED
  BY <1>1, Invariance, PTL

\* Memory that nobody wrote is taken for a packet only when a segment ended inside
\* the very frame that is being read (networking.cc:127 and networking.cc:131).
THEOREM GarbledCorrect == FairSpec => GarbledOnlyBySplit
<1>1. StreamInv /\ [Next]_vars
          => [garbled' /\ ~garbled => delivered < FrameEnd(Len(received) + 1)]_vars
  <2> SUFFICES ASSUME StreamInv, [Next]_vars, garbled', ~garbled
               PROVE  delivered < FrameEnd(Len(received) + 1)
    OBVIOUS
  <2>1. RecvHeader \/ RecvBody
    BY DEF Next, SendPacket, SenderSwitches, Disconnects, Deliver, ReceiverSwitches,
           RecvPacket, vars
  <2>2. delivered - consumed > 0
    BY <2>1 DEF RecvHeader, RecvBody, Available
  <2>3. consumed \in Nat /\ delivered \in Nat /\ Len(received) \in Nat
    <3>1. Len(received) \in Nat /\ Len(received) <= Len(sent)
      BY LenProperties DEF StreamInv, ReadInv
    <3>2. FrameEnd(Len(received)) \in Nat
      BY <3>1, EndsGrow DEF StreamInv
    <3>3. consumed \in Nat
      BY <3>2 DEF StreamInv, ReadInv, HeaderLength
    <3> QED
      BY <3>1, <3>3, LenProperties DEF StreamInv, WrittenInv
  <2>4. PICK n \in Nat : n = Len(received)
    BY <2>3
  <2>5. /\ n + 1 \in 1 .. Len(sent)
        /\ FrameEnd(n) \in Nat
        /\ length = 0 => consumed = FrameEnd(n)
        /\ FrameEnd(n + 1) = FrameEnd(n) + Len(SentFrame(n + 1))
    BY <2>2, <2>3, <2>4, NextFrame
  <2>6. Len(SentFrame(n + 1)) \in Nat /\ Len(SentFrame(n + 1)) > HeaderLength
    BY <2>5, EntryFacts DEF StreamInv
  <2>7. CASE RecvHeader
    <3>1. length = 0 /\ delivered - consumed < HeaderLength
      BY <2>7 DEF RecvHeader, Available
    <3> QED
      BY <2>3, <2>4, <2>5, <2>6, <3>1 DEF HeaderLength
  <2>8. CASE RecvBody
    <3>1. length > 0 /\ delivered - consumed < length
      BY <2>8 DEF RecvBody, Available
    <3>2. /\ consumed = FrameEnd(n) + HeaderLength
          /\ length = Len(SentFrame(n + 1)) - HeaderLength
      BY <2>4, <3>1 DEF StreamInv, ReadInv
    <3>3. delivered - consumed < Len(SentFrame(n + 1)) - HeaderLength
      BY <3>1, <3>2
    <3>4. /\ Len(SentFrame(n + 1)) \in Nat /\ FrameEnd(n) \in Nat /\ delivered \in Nat
          /\ FrameEnd(n + 1) = FrameEnd(n) + Len(SentFrame(n + 1))
      BY <2>3, <2>5, <2>6
    <3>5. delivered < FrameEnd(n + 1)
      <4>1. \A a, l, d \in Nat : d - (a + 4) < l - 4 => d < a + l
        OBVIOUS
      <4>2. delivered - (FrameEnd(n) + 4) < Len(SentFrame(n + 1)) - 4
        BY <3>2, <3>3 DEF HeaderLength
      <4> QED
        BY <3>4, <4>1, <4>2
    <3> QED
      BY <2>4, <3>5
  <2> QED
    BY <2>1, <2>7, <2>8
<1> QED
  BY <1>1, Invariance, PTL DEF FairSpec, Spec, GarbledOnlyBySplit

\* What queue_get_* makes of a packet is what send_* was given, for every packet
\* that fits a frame, whatever its texts and its number of protocols
\* (networking.cc:178-480).
THEOREM EncodingCorrect == FairSpec => []EncodingIsInvertible
<1>1. EncodingIsInvertible
  <2> SUFFICES ASSUME NEW packet \in RoundTrips,
                      NEW id \in SomeIds
               PROVE  LET frame == Frame(id, packet)
                      IN  /\ \A k \in DOMAIN frame : frame[k] \in Byte
                          /\ Len(frame) = HeaderLength + read_int(frame, 0)
                          /\ Opened(SubSeq(frame, HeaderLength + 1, Len(frame)))
                                 = [id |-> id, packet |-> packet]
    BY Zenon DEF EncodingIsInvertible
  <2> DEFINE frame == Frame(id, packet)
  <2>1. id \in Word
    BY LengthIsWord DEF SomeIds
  <2>2. packet \in Sendable
    BY RoundTripsAssumption
  <2>3. /\ frame \in Seq(Byte)
        /\ Len(frame) \in Nat /\ Len(frame) > HeaderLength
        /\ read_int(frame, 0) = Len(frame) - HeaderLength
        /\ Opened(SubSeq(frame, HeaderLength + 1, Len(frame)))
               = [id |-> id, packet |-> packet]
    BY <2>1, <2>2, FrameRead
  <2> HIDE DEF frame
  <2>4. \A k \in DOMAIN frame : frame[k] \in Byte
    BY <2>3, LenProperties, ElementOfSeq
  <2>5. Len(frame) = HeaderLength + read_int(frame, 0)
    BY <2>3 DEF HeaderLength
  <2> QED
    BY <2>3, <2>4, <2>5 DEF frame
<1> QED
  BY <1>1, PTL
=============================================================================
