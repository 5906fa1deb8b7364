--------------------------- MODULE AsdMsgReadProofs ---------------------------
(***************************************************************************)
(* The framing of asd_msg_read, for messages, buffers and streams of any   *)
(* size: it stays within its buffer however recv() cuts the stream, and it *)
(* hands on what was sent as long as recv() does not cut a header.         *)
(***************************************************************************)
EXTENDS AsdMsgRead, SequenceTheorems, TLAPS

USE DEF HEADER_SIZE

\* The buffer is larger than the largest offset a header is written at.
LEMMA BufferSize == MAX_DATA_SIZE \in Nat /\ MAX_DATA_SIZE >= 16
BY AsdMsgReadAssumption

-------------------------------------------------------------------------------
(* Types and bounds.                                                       *)

InType == [read_state : {"INITIAL", "HEADER", "BUFFER"}, read_index : Nat,
           data_size : Nat, msg : [Address -> Byte]]

\* A header is begun and not complete; a body is announced, fits and is not
\* complete.
InOK(in) ==
  /\ in \in InType
  /\ in.read_state = "HEADER" => in.read_index \in 0 .. 3
  /\ in.read_state = "BUFFER" =>
        in.data_size \in 1 .. MAX_DATA_SIZE /\ in.read_index \in 0 .. (in.data_size - 1)

BoundsInv == TypeOK /\ InOK(in_msg)

\* The two updates of the incoming message, field by field.
LEMMA Updates ==
  ASSUME NEW in \in InType, NEW mem \in [Address -> Byte], NEW n \in Nat
  PROVE  /\ [in EXCEPT !.msg = mem, !.read_index = n] =
               [read_state |-> in.read_state, read_index |-> n,
                data_size |-> in.data_size, msg |-> mem]
         /\ [in EXCEPT !.msg = mem, !.read_state = "INITIAL"] =
               [read_state |-> "INITIAL", read_index |-> in.read_index,
                data_size |-> in.data_size, msg |-> mem]
<1>1. PICK y : y = [in EXCEPT !.msg = mem]
  OBVIOUS
<1>2. /\ [in EXCEPT !.msg = mem, !.read_index = n] = [y EXCEPT !.read_index = n]
      /\ [in EXCEPT !.msg = mem, !.read_state = "INITIAL"] = [y EXCEPT !.read_state = "INITIAL"]
  BY <1>1 DEF InType
<1>3. /\ y \in InType /\ y.read_state = in.read_state /\ y.read_index = in.read_index
      /\ y.data_size = in.data_size /\ y.msg = mem
  BY <1>1 DEF InType
<1>4. [y EXCEPT !.read_index = n] =
        [read_state |-> y.read_state, read_index |-> n, data_size |-> y.data_size, msg |-> y.msg]
  BY <1>3 DEF InType
<1>5. [y EXCEPT !.read_state = "INITIAL"] =
        [read_state |-> "INITIAL", read_index |-> y.read_index, data_size |-> y.data_size,
         msg |-> y.msg]
  BY <1>3 DEF InType
<1>. QED
  BY <1>2, <1>3, <1>4, <1>5

\* What recv() takes from the stream, and what it leaves.
LEMMA Chunk ==
  ASSUME NEW w \in Seq(Byte), NEW k \in 1 .. Len(w)
  PROVE  /\ SubSeq(w, 1, k) \in Seq(Byte) /\ Len(SubSeq(w, 1, k)) = k
         /\ \A i \in 1 .. k : SubSeq(w, 1, k)[i] = w[i]
         /\ SubSeq(w, k + 1, Len(w)) \in Seq(Byte)
         /\ Len(SubSeq(w, k + 1, Len(w))) = Len(w) - k
         /\ \A i \in 1 .. (Len(w) - k) : SubSeq(w, k + 1, Len(w))[i] = w[k + i]
<1>1. k \in Int /\ Len(w) \in Nat /\ k + 1 \in Int /\ k =< Len(w) /\ 1 =< k
  OBVIOUS
<1>2. \A i \in 1 .. k : w[i] \in Byte
  BY <1>1
<1>3. \A i \in (k + 1) .. Len(w) : w[i] \in Byte
  BY <1>1
<1>4. /\ SubSeq(w, 1, k) \in Seq(Byte) /\ Len(SubSeq(w, 1, k)) = k
      /\ \A i \in 1 .. k : SubSeq(w, 1, k)[i] = w[i]
  BY <1>1, <1>2, SubSeqProperties
<1>5. /\ SubSeq(w, k + 1, Len(w)) \in Seq(Byte)
      /\ Len(SubSeq(w, k + 1, Len(w))) = IF k + 1 <= Len(w) THEN Len(w) - (k + 1) + 1 ELSE 0
      /\ \A i \in 1 .. (Len(w) - (k + 1) + 1) :
            SubSeq(w, k + 1, Len(w))[i] = w[(k + 1) + i - 1]
  BY <1>1, <1>3, SubSeqProperties
<1>6. Len(w) - (k + 1) + 1 = Len(w) - k /\ \A i \in Int : (k + 1) + i - 1 = k + i
  BY <1>1
<1>7. Len(SubSeq(w, k + 1, Len(w))) = Len(w) - k
  BY <1>1, <1>5
<1>8. \A i \in 1 .. (Len(w) - k) : SubSeq(w, k + 1, Len(w))[i] = w[k + i]
  <2>1. ASSUME NEW i \in 1 .. (Len(w) - k) PROVE SubSeq(w, k + 1, Len(w))[i] = w[k + i]
    <3>1. i \in 1 .. (Len(w) - (k + 1) + 1) /\ i \in Int
      BY <1>6
    <3>. QED
      BY <1>5, <1>6, <3>1
  <2>. QED
    BY <2>1
<1>. QED
  BY <1>4, <1>5, <1>7, <1>8

\* Bytes stored into a message leave it a message.
LEMMA StoreType ==
  ASSUME NEW mem \in [Address -> Byte], NEW a \in Nat, NEW b \in Seq(Byte)
  PROVE  Store(mem, a, b) \in [Address -> Byte]
<1>1. ASSUME NEW x \in Address, x \in a .. (a + Len(b) - 1)
      PROVE  b[x - a + 1] \in Byte
  <2>1. x - a + 1 \in 1 .. Len(b)
    BY <1>1 DEF Address
  <2>. QED
    BY <2>1
<1>. QED
  BY <1>1 DEF Store

\* The size is refused or fits the buffer.
LEMMA SizeType ==
  ASSUME NEW mem \in [Address -> Byte]
  PROVE  /\ get_message_size(mem) \in Int
         /\ get_message_size(mem) # -1 => get_message_size(mem) \in 0 .. MAX_DATA_SIZE
<1>1. mem[1] \in 0 .. 255 /\ mem[2] \in 0 .. 255
  BY BufferSize, SMTT(30) DEF Address, Byte
<1>2. \A x, y \in 0 .. 255 : x + 256 * (y % 32) \in Nat
  OBVIOUS
<1>3. SizeField(mem[1], mem[2]) \in Nat
  <2>1. PICK x, y \in 0 .. 255 : x = mem[1] /\ y = mem[2]
    BY <1>1
  <2>2. SizeField(mem[1], mem[2]) = x + 256 * (y % 32)
    BY <2>1 DEF SizeField
  <2>3. x + 256 * (y % 32) \in Nat
    BY <1>2
  <2>. QED
    BY <2>2, <2>3
<1>. QED
  BY <1>3, BufferSize DEF get_message_size

\* The message in memory is a sequence of bytes as long as its header says.
LEMMA MessageType ==
  ASSUME NEW mem \in [Address -> Byte], get_message_size(mem) # -1
  PROVE  /\ MessageIn(mem) \in Seq(Byte)
         /\ Len(MessageIn(mem)) = 4 + get_message_size(mem)
         /\ \A i \in 1 .. (4 + get_message_size(mem)) : MessageIn(mem)[i] = mem[i - 1]
<1> DEFINE n == 4 + get_message_size(mem)
<1>1. n \in Nat /\ n =< 4 + MAX_DATA_SIZE
  BY SizeType, BufferSize
<1>2. MessageIn(mem) = [i \in 1 .. n |-> mem[i - 1]]
  BY DEF MessageIn
<1> HIDE DEF n
<1>3. \A i \in 1 .. n : mem[i - 1] \in Byte
  <2>1. \A i \in 1 .. n : i - 1 \in Address
    BY <1>1, BufferSize DEF Address
  <2>. QED
    BY <2>1
<1>4. [i \in 1 .. n |-> mem[i - 1]] \in Seq(Byte) /\ Len([i \in 1 .. n |-> mem[i - 1]]) = n
  BY <1>1, <1>3
<1>. QED
  BY <1>2, <1>4 DEF n

\* A piece of a header leaves the message well formed.
LEMMA AfterHeaderOK ==
  ASSUME NEW in \in InType, in.read_state = "HEADER", in.read_index \in 0 .. 3,
         NEW b \in Seq(Byte), Len(b) \in 1 .. (4 - in.read_index)
  PROVE  InOK(AfterHeader(in, b))
<1> DEFINE mem == Store(in.msg, HeaderAddress(in), b)
           got == in.read_index + Len(b)
           size == get_message_size(mem)
<1>1. HeaderAddress(in) \in Nat /\ in.msg \in [Address -> Byte]
  BY DEF HeaderAddress, InType
<1>2. mem \in [Address -> Byte]
  BY <1>1, StoreType
<1>3. size \in Int /\ (size > 0 => size \in 1 .. MAX_DATA_SIZE)
  <2> HIDE DEF mem
  <2>. QED
    BY <1>2, SizeType
<1>4. got \in Nat
  BY DEF InType
<1>5. AfterHeader(in, b) =
        IF got < 4 THEN [in EXCEPT !.msg = mem, !.read_index = got]
        ELSE IF size > 0 THEN [read_state |-> "BUFFER", read_index |-> 0,
                               data_size |-> size, msg |-> mem]
        ELSE [in EXCEPT !.msg = mem, !.read_state = "INITIAL"]
  BY DEF AfterHeader
<1>9. /\ [in EXCEPT !.msg = mem, !.read_index = got] =
            [read_state |-> in.read_state, read_index |-> got,
             data_size |-> in.data_size, msg |-> mem]
      /\ [in EXCEPT !.msg = mem, !.read_state = "INITIAL"] =
            [read_state |-> "INITIAL", read_index |-> in.read_index,
             data_size |-> in.data_size, msg |-> mem]
  <2> HIDE DEF mem, got
  <2>. QED
    BY <1>2, <1>4, Updates
<1>10. in.data_size \in Nat /\ in.read_index \in Nat
  BY DEF InType
<1> HIDE DEF mem, got, size
<1>6. CASE got < 4
  BY <1>2, <1>4, <1>5, <1>6, <1>9, <1>10 DEF InOK, InType
<1>7. CASE got >= 4 /\ size > 0
  BY <1>2, <1>3, <1>4, <1>5, <1>7 DEF InOK, InType
<1>8. CASE got >= 4 /\ ~(size > 0)
  BY <1>2, <1>3, <1>4, <1>5, <1>8, <1>9, <1>10 DEF InOK, InType
<1>. QED
  BY <1>3, <1>4, <1>6, <1>7, <1>8

\* So does a piece of a body.
LEMMA AfterBufferOK ==
  ASSUME NEW in, InOK(in), in.read_state = "BUFFER",
         NEW b \in Seq(Byte), Len(b) \in 1 .. BufferWanted(in)
  PROVE  InOK(AfterBuffer(in, b)) /\ AfterBuffer(in, b).read_state \in {"INITIAL", "BUFFER"}
<1> DEFINE mem == Store(in.msg, BufferAddress(in), b)
           got == in.read_index + Len(b)
<1>1. BufferAddress(in) \in Nat /\ in.msg \in [Address -> Byte] /\ in \in InType
  BY DEF BufferAddress, InOK, InType
<1>2. mem \in [Address -> Byte]
  BY <1>1, StoreType
<1>4. got \in Nat /\ in.data_size \in 1 .. MAX_DATA_SIZE
  BY BufferSize DEF InOK, InType
<1>5. AfterBuffer(in, b) =
        IF got < in.data_size THEN [in EXCEPT !.msg = mem, !.read_index = got]
        ELSE [in EXCEPT !.msg = mem, !.read_state = "INITIAL"]
  BY DEF AfterBuffer
<1>9. /\ [in EXCEPT !.msg = mem, !.read_index = got] =
            [read_state |-> "BUFFER", read_index |-> got,
             data_size |-> in.data_size, msg |-> mem]
      /\ [in EXCEPT !.msg = mem, !.read_state = "INITIAL"] =
            [read_state |-> "INITIAL", read_index |-> in.read_index,
             data_size |-> in.data_size, msg |-> mem]
  <2> HIDE DEF mem, got
  <2>1. /\ [in EXCEPT !.msg = mem, !.read_index = got] =
              [read_state |-> in.read_state, read_index |-> got,
               data_size |-> in.data_size, msg |-> mem]
        /\ [in EXCEPT !.msg = mem, !.read_state = "INITIAL"] =
              [read_state |-> "INITIAL", read_index |-> in.read_index,
               data_size |-> in.data_size, msg |-> mem]
    BY <1>1, <1>2, <1>4, Updates
  <2>2. in.read_state = "BUFFER"
    OBVIOUS
  <2>. QED
    BY <2>1, <2>2
<1>10. in.data_size \in Nat /\ in.read_index \in Nat
  BY <1>1 DEF InType
<1> HIDE DEF mem, got
<1>6. CASE got < in.data_size
  BY <1>2, <1>4, <1>5, <1>6, <1>9, <1>10 DEF InOK, InType
<1>7. CASE ~(got < in.data_size)
  BY <1>2, <1>4, <1>5, <1>7, <1>9, <1>10 DEF InOK, InType
<1>. QED
  BY <1>6, <1>7

\* A header is begun from scratch or continued.
LEMMA HeaderStateOK ==
  ASSUME NEW in, InOK(in), in.read_state # "BUFFER"
  PROVE  /\ HeaderState(in) \in InType /\ HeaderState(in).read_state = "HEADER"
         /\ HeaderState(in).read_index \in 0 .. 3
<1>1. zeros \in [Address -> Byte]
  BY DEF zeros, Byte
<1>. QED
  BY <1>1 DEF HeaderState, InOK, InType

\* The end of a call of asd_msg_read keeps the types.
LEMMA FinishOK ==
  ASSUME BoundsInv, NEW in, InOK(in), NEW rest \in Seq(Byte), Finish(in, rest)
  PROVE  BoundsInv'
<1>1. in_msg' = in /\ wire' = rest /\ sent' = sent /\ in \in InType
  BY DEF Finish, InOK
<1>2. received' \in Seq(Seq(Byte)) /\ alive' \in BOOLEAN
  <2>1. CASE in.read_state # "INITIAL" \/ get_message_size(in.msg) = -1
    BY <2>1 DEF Finish, BoundsInv, TypeOK
  <2>2. CASE in.read_state = "INITIAL" /\ get_message_size(in.msg) # -1
    <3>1. MessageIn(in.msg) \in Seq(Byte)
      BY <1>1, <2>2, MessageType DEF InType
    <3>2. Append(received, MessageIn(in.msg)) \in Seq(Seq(Byte))
      BY <3>1 DEF BoundsInv, TypeOK
    <3>. QED
      BY <2>2, <3>2 DEF Finish, BoundsInv, TypeOK
  <2>. QED
    BY <2>1, <2>2
<1>. QED
  BY <1>1, <1>2 DEF BoundsInv, TypeOK, InType, InOK

\* A read of the body.
LEMMA ReadBufferOK ==
  ASSUME BoundsInv, NEW in, InOK(in), in.read_state = "BUFFER",
         NEW w \in Seq(Byte), ReadBuffer(in, w)
  PROVE  BoundsInv'
<1>1. PICK k \in 1 .. BufferWanted(in) :
         /\ k =< Len(w)
         /\ Finish(AfterBuffer(in, SubSeq(w, 1, k)), SubSeq(w, k + 1, Len(w)))
  BY DEF ReadBuffer, recv
<1>2. k \in 1 .. Len(w)
  BY <1>1
<1>3. /\ SubSeq(w, 1, k) \in Seq(Byte) /\ Len(SubSeq(w, 1, k)) = k
      /\ SubSeq(w, k + 1, Len(w)) \in Seq(Byte)
  BY <1>2, Chunk
<1>4. InOK(AfterBuffer(in, SubSeq(w, 1, k)))
  BY <1>1, <1>3, AfterBufferOK
<1>. QED
  BY <1>1, <1>3, <1>4, FinishOK

\* A read of the header, with or without the body behind it.
LEMMA ReadHeaderOK ==
  ASSUME BoundsInv, NEW in \in InType, in.read_state = "HEADER", in.read_index \in 0 .. 3,
         ReadHeader(in)
  PROVE  BoundsInv'
<1>1. PICK k \in 1 .. (4 - in.read_index), pending \in BOOLEAN :
         /\ k =< Len(wire)
         /\ IF AfterHeader(in, SubSeq(wire, 1, k)).read_state = "BUFFER" /\ pending
            THEN ReadBuffer(AfterHeader(in, SubSeq(wire, 1, k)), SubSeq(wire, k + 1, Len(wire)))
            ELSE Finish(AfterHeader(in, SubSeq(wire, 1, k)), SubSeq(wire, k + 1, Len(wire)))
  BY DEF ReadHeader, recv
<1>2. wire \in Seq(Byte) /\ k \in 1 .. Len(wire)
  BY <1>1 DEF BoundsInv, TypeOK
<1>3. /\ SubSeq(wire, 1, k) \in Seq(Byte) /\ Len(SubSeq(wire, 1, k)) = k
      /\ SubSeq(wire, k + 1, Len(wire)) \in Seq(Byte)
  BY <1>2, Chunk
<1>4. InOK(AfterHeader(in, SubSeq(wire, 1, k)))
  BY <1>1, <1>3, AfterHeaderOK
<1>. QED
  BY <1>1, <1>3, <1>4, FinishOK, ReadBufferOK

\* Every step keeps the types and the bounds.
LEMMA BoundsInvStep == BoundsInv /\ [Next]_vars => BoundsInv'
<1>. SUFFICES ASSUME BoundsInv, [Next]_vars PROVE BoundsInv'
  OBVIOUS
<1>1. CASE asd_msg_read
  <2>1. CASE in_msg.read_state = "BUFFER"
    BY <1>1, <2>1, ReadBufferOK DEF asd_msg_read, BoundsInv, TypeOK
  <2>2. CASE in_msg.read_state # "BUFFER"
    BY <1>1, <2>2, HeaderStateOK, ReadHeaderOK DEF asd_msg_read, BoundsInv
  <2>. QED
    BY <2>1, <2>2
<1>2. CASE Disconnect
  BY <1>2 DEF Disconnect, BoundsInv, TypeOK, InOK
<1>3. ASSUME NEW m \in Message, Send(m) PROVE BoundsInv'
  <2>1. m \in Seq(Byte) /\ wire \in Seq(Byte) /\ sent \in Seq(Message)
    BY AsdMsgReadAssumption DEF BoundsInv, TypeOK
  <2>2. wire \o m \in Seq(Byte) /\ Append(sent, m) \in Seq(Message)
    BY <2>1, ConcatProperties
  <2>. QED
    BY <1>3, <2>2 DEF Send, BoundsInv, TypeOK, InOK
<1>4. CASE UNCHANGED vars
  BY <1>4 DEF vars, BoundsInv, TypeOK, InOK
<1>. QED
  BY <1>1, <1>2, <1>3, <1>4 DEF Next

\* A connection starts with nothing read.
LEMMA BoundsInvInit == Init => BoundsInv
<1>1. zeros \in [Address -> Byte]
  BY DEF zeros, Byte
<1>2. << >> \in Seq(Byte) /\ << >> \in Seq(Message) /\ << >> \in Seq(Seq(Byte))
  OBVIOUS
<1>. QED
  BY <1>1, <1>2 DEF Init, BoundsInv, TypeOK, InOK, InType

\* The incoming message, the stream and the messages keep their types (TypeOK of
\* AsdMsgRead), also when recv() cuts a header.
THEOREM ReadTypeOK == Spec => []TypeOK
<1>1. BoundsInv => TypeOK
  BY DEF BoundsInv
<1>. QED
  BY <1>1, BoundsInvInit, BoundsInvStep, PTL DEF Spec

\* asd_msg_read never asks recv() for nothing and never for more than fits into
\* the message, although it counts the bytes of a header as whole headers when it
\* computes where to put them (ReadInBounds).
THEOREM ReadStaysInBounds == Spec => []ReadInBounds
<1>1. BoundsInv => ReadInBounds
  <2>. SUFFICES ASSUME BoundsInv PROVE ReadInBounds
    OBVIOUS
  <2>1. CASE in_msg.read_state = "HEADER"
    <3>1. in_msg.read_index \in 0 .. 3
      BY <2>1 DEF BoundsInv, InOK
    <3>2. 4 * in_msg.read_index + 4 - in_msg.read_index =< 4 + MAX_DATA_SIZE
      BY <3>1, BufferSize
    <3>. QED
      BY <2>1, <3>1, <3>2 DEF ReadInBounds, HeaderAddress
  <2>2. CASE in_msg.read_state = "BUFFER"
    BY <2>2, BufferSize DEF BoundsInv, InOK, InType, ReadInBounds, BufferWanted, BufferAddress
  <2>. QED
    BY <2>1, <2>2 DEF ReadInBounds
<1>. QED
  BY <1>1, BoundsInvInit, BoundsInvStep, PTL DEF Spec

-------------------------------------------------------------------------------
(* Framing, when recv() returns headers whole.                             *)

\* off[i] is how far into the stream w the i-th of the messages s ends: a
\* message that ends before the stream was received, and one that begins before
\* it was received in part.
Aligned(off, w, s) ==
  /\ off \in [0 .. Len(s) -> Int]
  /\ off[Len(s)] = Len(w)
  /\ \A i \in 1 .. Len(s) :
        /\ off[i] = off[i - 1] + Len(s[i]) /\ off[i] =< Len(w)
        /\ \A k \in 1 .. Len(s[i]) : off[i - 1] + k >= 1 => w[off[i - 1] + k] = s[i][k]

\* The first r messages were received, and of the next one what the incoming
\* message holds.
Frame(in, w, s, r) ==
  /\ r \in 0 .. Len(s) /\ in.read_state # "HEADER"
  /\ in.read_state = "BUFFER" => r + 1 \in 1 .. Len(s)
  /\ \E off :
       /\ Aligned(off, w, s)
       /\ in.read_state = "INITIAL" => off[r] = 0
       /\ in.read_state = "BUFFER" =>
            /\ off[r] = -(4 + in.read_index)
            /\ Len(s[r + 1]) = 4 + in.data_size
            /\ get_message_size(in.msg) = in.data_size
            /\ \A k \in 1 .. (4 + in.read_index) : in.msg[k - 1] = s[r + 1][k]

\* The message behind the first r is complete in memory and gone from the stream.
Complete(in, w, s, r) ==
  /\ r \in 0 .. Len(s) /\ r + 1 \in 1 .. Len(s)
  /\ MessageIn(in.msg) = s[r + 1]
  /\ \E off : Aligned(off, w, s) /\ off[r + 1] = 0

PrefixInv ==
  /\ Len(received) =< Len(sent)
  /\ \A i \in 1 .. Len(received) : received[i] = sent[i]

FrameInv ==
  /\ BoundsInv
  /\ PrefixInv
  /\ alive => Frame(in_msg, wire, sent, Len(received))

\* Messages are sequences of bytes with at least a header.
LEMMA Messages ==
  ASSUME NEW s \in Seq(Message)
  PROVE  /\ Len(s) \in Nat
         /\ \A i \in 1 .. Len(s) :
              /\ s[i] \in Seq(Byte) /\ Len(s[i]) \in Nat /\ Len(s[i]) >= 4
              /\ \/ SizeField(s[i][2], s[i][3]) = Len(s[i]) - 4
                 \/ SizeField(s[i][2], s[i][3]) > MAX_DATA_SIZE
<1>1. ASSUME NEW i \in 1 .. Len(s) PROVE s[i] \in Message
  BY ElementOfSeq
<1>2. ASSUME NEW m \in Message
      PROVE  /\ m \in Seq(Byte) /\ Len(m) \in Nat /\ Len(m) >= 4
             /\ \/ SizeField(m[2], m[3]) = Len(m) - 4
                \/ SizeField(m[2], m[3]) > MAX_DATA_SIZE
  <2>1. m \in Seq(Byte)
    BY AsdMsgReadAssumption
  <2>2. Len(m) \in Nat
    BY <2>1
  <2>. QED
    BY <2>1, <2>2, AsdMsgReadAssumption
<1>. QED
  BY <1>1, <1>2

\* Taking bytes off the stream moves every end by as much.
LEMMA Consumed ==
  ASSUME NEW s \in Seq(Message), NEW w \in Seq(Byte), NEW k \in 1 .. Len(w),
         NEW off, Aligned(off, w, s)
  PROVE  Aligned([i \in 0 .. Len(s) |-> off[i] - k], SubSeq(w, k + 1, Len(w)), s)
<1> DEFINE new == [i \in 0 .. Len(s) |-> off[i] - k]
           rest == SubSeq(w, k + 1, Len(w))
<1>1. /\ Len(rest) = Len(w) - k
      /\ \A i \in 1 .. (Len(w) - k) : rest[i] = w[k + i]
  BY Chunk
<1>2. Len(s) \in Nat /\ Len(w) \in Nat /\ k \in Nat /\ off \in [0 .. Len(s) -> Int]
  BY Messages DEF Aligned
<1>3. \A i \in 0 .. Len(s) : new[i] = off[i] - k /\ off[i] \in Int
  BY <1>2
<1>4. new \in [0 .. Len(s) -> Int]
  BY <1>2
<1> HIDE DEF new, rest
<1>5. new[Len(s)] = Len(rest)
  <2>1. Len(s) \in 0 .. Len(s) /\ off[Len(s)] = Len(w)
    BY <1>2 DEF Aligned
  <2>. QED
    BY <1>1, <1>3, <2>1
<1>6. ASSUME NEW i \in 1 .. Len(s)
      PROVE  /\ new[i] = new[i - 1] + Len(s[i]) /\ new[i] =< Len(rest)
             /\ \A j \in 1 .. Len(s[i]) :
                   new[i - 1] + j >= 1 => rest[new[i - 1] + j] = s[i][j]
  <2>1. i \in 0 .. Len(s) /\ i - 1 \in 0 .. Len(s) /\ Len(s[i]) \in Nat
    BY <1>2, Messages
  <2>2. /\ new[i] = off[i] - k /\ new[i - 1] = off[i - 1] - k
        /\ off[i] \in Int /\ off[i - 1] \in Int
    BY <1>3, <2>1
  <2>3. /\ off[i] = off[i - 1] + Len(s[i]) /\ off[i] =< Len(w)
        /\ \A j \in 1 .. Len(s[i]) : off[i - 1] + j >= 1 => w[off[i - 1] + j] = s[i][j]
    BY DEF Aligned
  <2>4. new[i] = new[i - 1] + Len(s[i]) /\ new[i] =< Len(rest)
    BY <1>1, <1>2, <2>1, <2>2, <2>3, SMTT(30)
  <2>5. ASSUME NEW j \in 1 .. Len(s[i]), new[i - 1] + j >= 1
        PROVE  rest[new[i - 1] + j] = s[i][j]
    <3>1. new[i - 1] + j \in 1 .. (Len(w) - k)
      BY <1>2, <2>1, <2>2, <2>3, <2>5, SMTT(30)
    <3>2. k + (new[i - 1] + j) = off[i - 1] + j /\ off[i - 1] + j >= 1
      <4>2. k >= 0 /\ k \in Int /\ j \in Int
        BY <1>2, <2>1
      <4>. QED
        <5>1. PICK x, y : x = off[i - 1] /\ y = new[i - 1]
          OBVIOUS
        <5>2. x \in Int /\ y = x - k /\ y + j >= 1
          BY <2>2, <2>5, <5>1
        <5>3. k + (y + j) = x + j /\ x + j >= 1
          BY <4>2, <5>2
        <5>. QED
          BY <5>1, <5>3
    <3>. QED
      BY <1>1, <2>3, <3>1, <3>2
  <2>. QED
    BY <2>4, <2>5
<1>7. Aligned(new, rest, s)
  BY <1>4, <1>5, <1>6 DEF Aligned
<1>. QED
  BY <1>7 DEF new, rest

\* A message sent joins the stream at its end.
LEMMA Joined ==
  ASSUME NEW s \in Seq(Message), NEW w \in Seq(Byte), NEW m \in Message,
         NEW off, Aligned(off, w, s)
  PROVE  \E new : /\ Aligned(new, w \o m, Append(s, m))
                  /\ \A i \in 0 .. Len(s) : new[i] = off[i]
<1> DEFINE t == Append(s, m)
           v == w \o m
           new == [i \in 0 .. Len(t) |-> IF i = Len(t) THEN Len(w) + Len(m) ELSE off[i]]
<1>0. m \in Seq(Byte) /\ Len(m) \in Nat /\ Len(w) \in Nat
  BY AsdMsgReadAssumption
<1>1. /\ t \in Seq(Message) /\ Len(s) \in Nat /\ Len(t) = Len(s) + 1 /\ t[Len(s) + 1] = m
      /\ \A i \in 1 .. Len(s) : t[i] = s[i]
  OBVIOUS
<1>2. /\ Len(v) = Len(w) + Len(m)
      /\ \A i \in 1 .. Len(w) + Len(m) : v[i] = IF i <= Len(w) THEN w[i] ELSE m[i - Len(w)]
  BY <1>0, ConcatProperties
<1>3. off \in [0 .. Len(s) -> Int] /\ off[Len(s)] = Len(w)
  BY DEF Aligned
<1> HIDE DEF t, v
<1>4. \A i \in 0 .. Len(s) : i \in 0 .. Len(t) /\ i # Len(t)
  BY <1>1
<1>5. \A i \in 0 .. Len(t) : i \in 0 .. Len(s) \/ i = Len(t)
  BY <1>1
<1>6. new \in [0 .. Len(t) -> Int]
  <2>1. Len(w) + Len(m) \in Int
    BY <1>0
  <2>. QED
    BY <1>3, <1>5, <2>1
<1>7. \A i \in 0 .. Len(s) : new[i] = off[i] /\ off[i] \in Int
  BY <1>3, <1>4
<1>8. new[Len(t)] = Len(w) + Len(m)
  <2>1. Len(t) \in 0 .. Len(t)
    BY <1>1
  <2>. QED
    BY <2>1
<1> HIDE DEF new
<1>9. ASSUME NEW i \in 1 .. Len(t)
      PROVE  /\ new[i] = new[i - 1] + Len(t[i]) /\ new[i] =< Len(v)
             /\ \A k \in 1 .. Len(t[i]) : new[i - 1] + k >= 1 => v[new[i - 1] + k] = t[i][k]
  <2>1. CASE i \in 1 .. Len(s)
    <3>1. /\ new[i] = off[i] /\ new[i - 1] = off[i - 1] /\ off[i] \in Int /\ off[i - 1] \in Int
          /\ t[i] = s[i] /\ Len(s[i]) \in Nat
      <4>1. i \in 0 .. Len(s) /\ i - 1 \in 0 .. Len(s)
        BY <1>1, <2>1
      <4>. QED
        BY <1>1, <1>7, <2>1, <4>1, Messages
    <3>2. /\ off[i] = off[i - 1] + Len(s[i]) /\ off[i] =< Len(w)
          /\ \A k \in 1 .. Len(s[i]) : off[i - 1] + k >= 1 => w[off[i - 1] + k] = s[i][k]
      BY <2>1 DEF Aligned
    <3>3. new[i] = new[i - 1] + Len(t[i]) /\ new[i] =< Len(v)
      BY <1>0, <1>2, <3>1, <3>2
    <3>4. ASSUME NEW k \in 1 .. Len(t[i]), new[i - 1] + k >= 1
          PROVE  v[new[i - 1] + k] = t[i][k]
      <4>1. k \in 1 .. Len(s[i]) /\ off[i - 1] + k >= 1
        BY <3>1, <3>4
      <4>2. off[i - 1] + k =< Len(w) /\ off[i - 1] + k \in 1 .. Len(w) + Len(m)
        <5>1. PICK x, y, l, n : x = off[i - 1] /\ y = off[i] /\ l = Len(s[i]) /\ n = Len(w)
          OBVIOUS
        <5>2. x \in Int /\ y \in Int /\ l \in Nat /\ n \in Nat /\ Len(m) \in Nat
          BY <1>0, <3>1, <5>1
        <5>3. k \in 1 .. l /\ x + k >= 1 /\ y = x + l /\ y =< n
          BY <3>2, <4>1, <5>1
        <5>4. x + k =< n /\ x + k \in 1 .. n + Len(m)
          BY <5>2, <5>3
        <5>. QED
          BY <5>1, <5>4
      <4>3. v[off[i - 1] + k] = w[off[i - 1] + k]
        BY <1>2, <4>2
      <4>. QED
        BY <3>1, <3>2, <4>1, <4>3
    <3>. QED
      BY <3>3, <3>4
  <2>2. CASE i = Len(s) + 1
    <3>1. new[i] = Len(w) + Len(m) /\ t[i] = m
      BY <1>1, <1>8, <2>2
    <3>2. new[i - 1] = Len(w)
      <4>1. i - 1 = Len(s) /\ Len(s) \in 0 .. Len(s)
        BY <1>1, <2>2
      <4>. QED
        BY <1>3, <1>7, <4>1
    <3>3. ASSUME NEW k \in 1 .. Len(m)
          PROVE  v[Len(w) + k] = m[k]
      <4>1. Len(w) + k \in 1 .. Len(w) + Len(m) /\ ~(Len(w) + k <= Len(w)) /\ Len(w) + k - Len(w) = k
        BY <1>0
      <4>. QED
        BY <1>2, <4>1
    <3>. QED
      BY <1>0, <1>2, <3>1, <3>2, <3>3
  <2>. QED
    BY <1>1, <2>1, <2>2
<1>10. Aligned(new, v, t)
  BY <1>2, <1>6, <1>8, <1>9 DEF Aligned
<1>. QED
  BY <1>7, <1>10 DEF t, v

\* A whole header read at the start of a message: the message is refused for its
\* size, or complete, or its body is awaited.
LEMMA HeaderRead ==
  ASSUME NEW s \in Seq(Message), NEW w \in Seq(Byte), NEW r, NEW in, InOK(in),
         in.read_state = "INITIAL", Frame(in, w, s, r), 4 \in 1 .. Len(w),
         NEW next, next = AfterHeader(HeaderState(in), SubSeq(w, 1, 4)),
         NEW rest, rest = SubSeq(w, 4 + 1, Len(w))
  PROVE  \/ next.read_state = "BUFFER" /\ Frame(next, rest, s, r)
         \/ next.read_state = "INITIAL" /\ get_message_size(next.msg) = -1
         \/ next.read_state = "INITIAL" /\ Complete(next, rest, s, r)
<1>1. PICK off : Aligned(off, w, s) /\ off[r] = 0 /\ r \in 0 .. Len(s)
  BY DEF Frame
<1>2. Len(s) \in Nat /\ Len(w) \in Nat /\ Len(w) >= 4
  BY Messages
<1>3. r + 1 \in 1 .. Len(s) /\ r + 1 \in 0 .. Len(s) /\ (r + 1) - 1 = r
  <2>1. r # Len(s)
    BY <1>1, <1>2 DEF Aligned
  <2>. QED
    BY <1>1, <1>2, <2>1
<1>4. PICK m : m = s[r + 1]
  OBVIOUS
<1>5. /\ m \in Seq(Byte) /\ Len(m) \in Nat /\ Len(m) >= 4
      /\ \/ SizeField(m[2], m[3]) = Len(m) - 4
         \/ SizeField(m[2], m[3]) > MAX_DATA_SIZE
  BY <1>3, <1>4, Messages
<1>6. off[r + 1] = Len(m) /\ \A k \in 1 .. Len(m) : w[k] = m[k]
  <2>1. /\ off[r + 1] = off[r] + Len(m)
        /\ \A k \in 1 .. Len(m) : off[r] + k >= 1 => w[off[r] + k] = m[k]
    <3>1. /\ off[r + 1] = off[(r + 1) - 1] + Len(s[r + 1])
          /\ \A k \in 1 .. Len(s[r + 1]) :
                off[(r + 1) - 1] + k >= 1 => w[off[(r + 1) - 1] + k] = s[r + 1][k]
      BY <1>1, <1>3 DEF Aligned
    <3>. QED
      BY <1>3, <1>4, <3>1
  <2>2. \A k \in 1 .. Len(m) : 0 + k >= 1 /\ 0 + k = k
    BY <1>5
  <2>. QED
    BY <1>1, <1>5, <2>1, <2>2
<1> DEFINE b == SubSeq(w, 1, 4)
           mem == Store(zeros, 0, b)
           size == get_message_size(mem)
           new == [i \in 0 .. Len(s) |-> off[i] - 4]
<1>7. b \in Seq(Byte) /\ Len(b) = 4 /\ \A i \in 1 .. 4 : b[i] = w[i]
  BY Chunk
<1>8. /\ HeaderState(in) = [read_state |-> "HEADER", read_index |-> 0, data_size |-> 0, msg |-> zeros]
      /\ HeaderState(in) \in InType
  BY HeaderStateOK DEF HeaderState
<1>9. mem \in [Address -> Byte]
  <2> HIDE DEF b
  <2>1. zeros \in [Address -> Byte] /\ 0 \in Nat
    BY DEF zeros, Byte
  <2>. QED
    BY <1>7, <2>1, StoreType
<1>10. next = IF size > 0 THEN [read_state |-> "BUFFER", read_index |-> 0,
                                data_size |-> size, msg |-> mem]
              ELSE [read_state |-> "INITIAL", read_index |-> 0, data_size |-> 0, msg |-> mem]
  <2>1. PICK h : h = HeaderState(in)
    OBVIOUS
  <2>2. h \in InType /\ h.read_index = 0 /\ h.data_size = 0 /\ h.msg = zeros
    BY <1>8, <2>1
  <2>3. HeaderAddress(h) = 0 /\ ~(0 + Len(b) < 4)
    BY <1>7, <2>2 DEF HeaderAddress
  <2>4. next = IF size > 0 THEN [read_state |-> "BUFFER", read_index |-> 0,
                                 data_size |-> size, msg |-> mem]
               ELSE [h EXCEPT !.msg = mem, !.read_state = "INITIAL"]
    <3>1. next = AfterHeader(h, b)
      BY <2>1
    <3> HIDE DEF b
    <3>. QED
      BY <2>2, <2>3, <3>1 DEF AfterHeader
  <2>5. [h EXCEPT !.msg = mem, !.read_state = "INITIAL"] =
          [read_state |-> "INITIAL", read_index |-> h.read_index, data_size |-> h.data_size,
           msg |-> mem]
    <3> HIDE DEF mem
    <3>1. 0 \in Nat
      OBVIOUS
    <3>. QED
      BY <1>9, <2>2, <3>1, Updates
  <2> HIDE DEF b, mem, size
  <2>. QED
    BY <2>2, <2>4, <2>5
<1>11. \A x \in 0 .. 3 : mem[x] = m[x + 1]
  <2>1. ASSUME NEW x \in 0 .. 3 PROVE mem[x] = m[x + 1]
    <3>1. x \in Address /\ x \in 0 .. (0 + Len(b) - 1) /\ x - 0 + 1 = x + 1
      BY <1>7, BufferSize DEF Address
    <3>2. mem[x] = b[x + 1]
      <4> HIDE DEF b
      <4>. QED
        BY <3>1 DEF Store
    <3>3. x + 1 \in 1 .. 4 /\ x + 1 \in 1 .. Len(m)
      BY <1>5
    <3>. QED
      BY <1>6, <1>7, <3>2, <3>3
  <2>. QED
    BY <2>1
<1>12. mem[1] = m[2] /\ mem[2] = m[3]
  <2>1. mem[1] = m[1 + 1] /\ mem[2] = m[2 + 1]
    BY <1>11
  <2>. QED
    BY <2>1
<1>13. size = -1 \/ size = Len(m) - 4
  <2> HIDE DEF mem
  <2>. QED
    BY <1>12, <1>5 DEF get_message_size
<1>14. /\ Aligned(new, rest, s) /\ new[r] = -(4 + 0) /\ new[r + 1] = Len(m) - 4
  <2>1. Aligned(new, rest, s)
    BY <1>1, Consumed
  <2>2. off[r] - 4 = -(4 + 0)
    BY <1>1
  <2>. QED
    BY <1>1, <1>3, <1>6, <2>1, <2>2
<1>15. size \in Int /\ (size # -1 => size \in 0 .. MAX_DATA_SIZE)
  <2> HIDE DEF mem
  <2>. QED
    BY <1>9, SizeType
<1>16. size # -1 =>
         /\ MessageIn(mem) \in Seq(Byte) /\ Len(MessageIn(mem)) = 4 + size
         /\ \A i \in 1 .. (4 + size) : MessageIn(mem)[i] = mem[i - 1]
  <2> HIDE DEF mem
  <2>. QED
    BY <1>9, MessageType
<1> HIDE DEF b, mem, size, new
<1>17. CASE size = -1
  BY <1>10, <1>17 DEF size
<1>18. CASE size = 0
  <2>1. Len(m) = 4
    BY <1>5, <1>13, <1>18
  <2>2. \A i \in 1 .. 4 : MessageIn(mem)[i] = m[i]
    <3>1. ASSUME NEW i \in 1 .. 4 PROVE MessageIn(mem)[i] = m[i]
      <4>1. i \in 1 .. (4 + size) /\ i - 1 \in 0 .. 3 /\ (i - 1) + 1 = i /\ size # -1
        BY <1>18
      <4>. QED
        BY <1>11, <1>16, <4>1
    <3>. QED
      BY <3>1
  <2>3. MessageIn(mem) \in Seq(Byte) /\ Len(MessageIn(mem)) = 4
    BY <1>16, <1>18
  <2>4. MessageIn(mem) = m
    BY <1>5, <2>1, <2>2, <2>3, SeqEqual
  <2>5. next.read_state = "INITIAL" /\ next.msg = mem
    BY <1>10, <1>18
  <2>6. Len(m) - 4 = 0
    BY <2>1
  <2>. QED
    BY <1>1, <1>3, <1>4, <1>14, <2>4, <2>5, <2>6 DEF Complete
<1>19. CASE size > 0
  <2>1. /\ next.read_state = "BUFFER" /\ next.read_index = 0 /\ next.data_size = size
        /\ next.msg = mem
    BY <1>10, <1>19
  <2>2. Len(m) = 4 + size
    BY <1>5, <1>13, <1>15, <1>19
  <2>3. \A k \in 1 .. (4 + 0) : mem[k - 1] = m[k]
    <3>1. ASSUME NEW k \in 1 .. (4 + 0) PROVE mem[k - 1] = m[k]
      <4>1. k - 1 \in 0 .. 3 /\ (k - 1) + 1 = k
        OBVIOUS
      <4>. QED
        BY <1>11, <4>1
    <3>. QED
      BY <3>1
  <2>4. get_message_size(mem) = size
    BY DEF size
  <2>. QED
    <3>1. /\ new[r] = -(4 + next.read_index)
          /\ Len(s[r + 1]) = 4 + next.data_size
          /\ get_message_size(next.msg) = next.data_size
          /\ \A k \in 1 .. (4 + next.read_index) : next.msg[k - 1] = s[r + 1][k]
      BY <1>4, <1>14, <2>1, <2>2, <2>3, <2>4
    <3>2. next.read_state # "HEADER" /\ next.read_state # "INITIAL"
      BY <2>1
    <3>3. Frame(next, rest, s, r)
      BY <1>1, <1>3, <1>14, <3>1, <3>2 DEF Frame
    <3>. QED
      BY <2>1, <3>3
<1>. QED
  BY <1>15, <1>17, <1>18, <1>19

\* A piece of the body read at its place.
LEMMA BufferRead ==
  ASSUME NEW s \in Seq(Message), NEW w \in Seq(Byte), NEW r, NEW in, InOK(in),
         in.read_state = "BUFFER", Frame(in, w, s, r),
         NEW k \in 1 .. BufferWanted(in), k \in 1 .. Len(w),
         NEW next, next = AfterBuffer(in, SubSeq(w, 1, k)),
         NEW rest, rest = SubSeq(w, k + 1, Len(w))
  PROVE  \/ next.read_state = "BUFFER" /\ Frame(next, rest, s, r)
         \/ next.read_state = "INITIAL" /\ Complete(next, rest, s, r)
<1>1. PICK off :
        /\ Aligned(off, w, s) /\ r \in 0 .. Len(s) /\ r + 1 \in 1 .. Len(s)
        /\ off[r] = -(4 + in.read_index)
        /\ Len(s[r + 1]) = 4 + in.data_size
        /\ get_message_size(in.msg) = in.data_size
        /\ \A j \in 1 .. (4 + in.read_index) : in.msg[j - 1] = s[r + 1][j]
  BY DEF Frame
<1>2. /\ Len(s) \in Nat /\ Len(w) \in Nat /\ r + 1 \in 0 .. Len(s) /\ (r + 1) - 1 = r
      /\ k \in Nat /\ k >= 1
  BY <1>1, Messages
<1>3. PICK ri, ds, m : ri = in.read_index /\ ds = in.data_size /\ m = s[r + 1]
  OBVIOUS
<1>4. /\ ri \in Nat /\ ds \in Nat /\ ds =< MAX_DATA_SIZE /\ in.msg \in [Address -> Byte]
      /\ in \in InType /\ ri + k =< ds
  BY <1>3, BufferSize, SMTT(30) DEF InOK, InType, BufferWanted
<1>5. m \in Seq(Byte) /\ Len(m) = 4 + ds
  BY <1>1, <1>3, Messages
<1>6. off[r + 1] = ds - ri /\ \A j \in 1 .. (4 + ds) : j - (4 + ri) >= 1 => w[j - (4 + ri)] = m[j]
  <2>1. /\ off[r + 1] = off[(r + 1) - 1] + Len(s[r + 1])
        /\ \A j \in 1 .. Len(s[r + 1]) :
              off[(r + 1) - 1] + j >= 1 => w[off[(r + 1) - 1] + j] = s[r + 1][j]
    BY <1>1 DEF Aligned
  <2>2. /\ off[r + 1] = -(4 + ri) + (4 + ds)
        /\ \A j \in 1 .. (4 + ds) : -(4 + ri) + j >= 1 => w[-(4 + ri) + j] = m[j]
    BY <1>1, <1>2, <1>3, <1>5, <2>1
  <2>3. \A j \in Int : -(4 + ri) + j = j - (4 + ri)
    BY <1>4
  <2>4. -(4 + ri) + (4 + ds) = ds - ri /\ \A j \in 1 .. (4 + ds) : j \in Int
    BY <1>4
  <2>. QED
    BY <2>2, <2>3, <2>4
<1> DEFINE b == SubSeq(w, 1, k)
           mem == Store(in.msg, BufferAddress(in), b)
           new == [i \in 0 .. Len(s) |-> off[i] - k]
<1>7. b \in Seq(Byte) /\ Len(b) = k /\ \A i \in 1 .. k : b[i] = w[i]
  BY Chunk
<1>8. BufferAddress(in) = 4 + ri
  BY <1>3 DEF BufferAddress
<1>9. mem \in [Address -> Byte]
  <2> HIDE DEF b
  <2>1. BufferAddress(in) \in Nat
    BY <1>4, <1>8
  <2>. QED
    BY <1>4, <1>7, <2>1, StoreType
<1>10. next = IF ri + k < ds
              THEN [read_state |-> "BUFFER", read_index |-> ri + k, data_size |-> ds, msg |-> mem]
              ELSE [read_state |-> "INITIAL", read_index |-> ri, data_size |-> ds, msg |-> mem]
  <2>1. next = IF ri + Len(b) < ds THEN [in EXCEPT !.msg = mem, !.read_index = ri + Len(b)]
               ELSE [in EXCEPT !.msg = mem, !.read_state = "INITIAL"]
    BY <1>3 DEF AfterBuffer
  <2> HIDE DEF b, mem
  <2>2. ri + k \in Nat
    BY <1>2, <1>4
  <2>3. /\ [in EXCEPT !.msg = mem, !.read_index = ri + k] =
              [read_state |-> in.read_state, read_index |-> ri + k,
               data_size |-> in.data_size, msg |-> mem]
        /\ [in EXCEPT !.msg = mem, !.read_state = "INITIAL"] =
              [read_state |-> "INITIAL", read_index |-> in.read_index,
               data_size |-> in.data_size, msg |-> mem]
    BY <1>4, <1>9, <2>2, Updates
  <2>. QED
    BY <1>3, <1>7, <2>1, <2>3
<1>11. \A x \in Address : mem[x] = IF x \in (4 + ri) .. ((4 + ri) + Len(b) - 1)
                                   THEN b[x - (4 + ri) + 1] ELSE in.msg[x]
  <2> HIDE DEF b
  <2>. QED
    BY <1>8 DEF Store
<1>12. Aligned(new, rest, s) /\ new[r] = -(4 + (ri + k)) /\ new[r + 1] = ds - ri - k
  <2>1. Aligned(new, rest, s)
    BY <1>1, Consumed
  <2>2. -(4 + ri) - k = -(4 + (ri + k))
    BY <1>2, <1>4
  <2>. QED
    BY <1>1, <1>2, <1>3, <1>6, <2>1, <2>2
<1> HIDE DEF b, mem, new
<1>13. \A j \in 1 .. (4 + (ri + k)) : mem[j - 1] = m[j]
  <2>1. ASSUME NEW j \in 1 .. (4 + (ri + k)) PROVE mem[j - 1] = m[j]
    <3>0. j - 1 \in Address /\ j \in 1 .. (4 + ds) /\ j \in Int
      BY <1>2, <1>4, BufferSize DEF Address
    <3>1. CASE j =< 4 + ri
      <4>1. j \in 1 .. (4 + ri) /\ ~(j - 1 \in (4 + ri) .. ((4 + ri) + Len(b) - 1))
        BY <1>2, <1>4, <1>7, <3>0, <3>1, SMTT(30)
      <4>. QED
        BY <1>1, <1>3, <1>11, <3>0, <4>1
    <3>2. CASE ~(j =< 4 + ri)
      <4>1. /\ j - 1 \in (4 + ri) .. ((4 + ri) + Len(b) - 1)
            /\ (j - 1) - (4 + ri) + 1 = j - (4 + ri)
            /\ j - (4 + ri) \in 1 .. k /\ j - (4 + ri) >= 1
        BY <1>2, <1>4, <1>7, <3>0, <3>2
      <4>2. mem[j - 1] = b[j - (4 + ri)]
        BY <1>11, <3>0, <4>1
      <4>. QED
        BY <1>6, <1>7, <3>0, <4>1, <4>2
    <3>. QED
      BY <3>1, <3>2
  <2>. QED
    BY <2>1
<1>14. get_message_size(mem) = ds
  <2>1. /\ 1 \in Address /\ 2 \in Address
        /\ ~(1 \in (4 + ri) .. ((4 + ri) + Len(b) - 1))
        /\ ~(2 \in (4 + ri) .. ((4 + ri) + Len(b) - 1))
    BY <1>2, <1>4, <1>7, BufferSize DEF Address
  <2>2. mem[1] = in.msg[1] /\ mem[2] = in.msg[2]
    BY <1>11, <2>1
  <2>. QED
    BY <1>1, <1>3, <2>2 DEF get_message_size
<1>15. CASE ri + k < ds
  <2>1. /\ next.read_state = "BUFFER" /\ next.read_index = ri + k /\ next.data_size = ds
        /\ next.msg = mem
    BY <1>10, <1>15
  <2>. QED
    BY <1>1, <1>3, <1>5, <1>12, <1>13, <1>14, <2>1 DEF Frame
<1>16. CASE ~(ri + k < ds)
  <2>1. next.read_state = "INITIAL" /\ next.msg = mem
    BY <1>10, <1>16
  <2>2. ri + k = ds /\ ds - ri - k = 0 /\ ds # -1
    <3>2. ri \in Nat /\ k \in Nat /\ ds \in Nat
      BY <1>2, <1>4
    <3>3. ri + k =< ds /\ ~(ri + k < ds)
      BY <1>4, <1>16
    <3>4. ri + k = ds
      BY <3>2, <3>3
    <3>5. ds - ri - k = 0
      BY <3>2, <3>4
    <3>6. ds # -1
      BY <3>2
    <3>. QED
      BY <3>4, <3>5, <3>6
  <2>3. /\ MessageIn(mem) \in Seq(Byte) /\ Len(MessageIn(mem)) = 4 + ds
        /\ \A i \in 1 .. (4 + ds) : MessageIn(mem)[i] = mem[i - 1]
    BY <1>9, <1>14, <2>2, MessageType
  <2>4. \A i \in 1 .. (4 + ds) : MessageIn(mem)[i] = m[i]
    BY <1>13, <2>2, <2>3
  <2>5. MessageIn(mem) = m
    BY <1>5, <2>3, <2>4, SeqEqual
  <2>. QED
    BY <1>1, <1>3, <1>12, <2>1, <2>2, <2>5 DEF Complete
<1>. QED
  BY <1>15, <1>16

\* The end of a call with the framing kept.
LEMMA FinishFrame ==
  ASSUME FrameInv, alive, NEW in, InOK(in), NEW rest \in Seq(Byte), Finish(in, rest),
         \/ in.read_state = "BUFFER" /\ Frame(in, rest, sent, Len(received))
         \/ in.read_state = "INITIAL" /\ get_message_size(in.msg) = -1
         \/ in.read_state = "INITIAL" /\ Complete(in, rest, sent, Len(received))
  PROVE  FrameInv'
<1>0. BoundsInv'
  BY FinishOK DEF FrameInv
<1>1. in_msg' = in /\ wire' = rest /\ sent' = sent
  BY DEF Finish
<1>2. received \in Seq(Seq(Byte)) /\ Len(received) \in Nat
  BY DEF FrameInv, BoundsInv, TypeOK
<1>3. CASE in.read_state = "BUFFER" /\ Frame(in, rest, sent, Len(received))
  <2>1. received' = received /\ alive' = alive
    BY <1>3 DEF Finish
  <2>. QED
    BY <1>0, <1>1, <1>3, <2>1 DEF FrameInv, PrefixInv
<1>4. CASE in.read_state = "INITIAL" /\ received' = received /\ alive' = FALSE
  BY <1>0, <1>1, <1>4 DEF FrameInv, PrefixInv
<1>5. CASE /\ in.read_state = "INITIAL" /\ Complete(in, rest, sent, Len(received))
           /\ received' = Append(received, MessageIn(in.msg))
  <2>1. PICK r : r = Len(received)
    OBVIOUS
  <2>2. /\ r \in Nat /\ r + 1 \in 1 .. Len(sent) /\ MessageIn(in.msg) = sent[r + 1]
        /\ r + 1 \in 0 .. Len(sent)
    BY <1>2, <1>5, <2>1 DEF Complete
  <2>3. PICK off : Aligned(off, rest, sent) /\ off[r + 1] = 0
    BY <1>5, <2>1 DEF Complete
  <2>4. /\ Len(received') = r + 1 /\ received'[r + 1] = sent[r + 1]
        /\ \A i \in 1 .. r : received'[i] = received[i]
    BY <1>2, <1>5, <2>1, <2>2
  <2>5. PrefixInv'
    <3>1. \A i \in 1 .. (r + 1) : i \in 1 .. r \/ i = r + 1
      BY <2>2
    <3>2. \A i \in 1 .. r : received[i] = sent[i]
      BY <2>1 DEF FrameInv, PrefixInv
    <3>3. r + 1 =< Len(sent)
      BY <2>2
    <3>. QED
      BY <1>1, <2>4, <3>1, <3>2, <3>3 DEF PrefixInv
  <2>6. Frame(in, rest, sent, r + 1)
    BY <1>5, <2>2, <2>3 DEF Frame
  <2>. QED
    BY <1>0, <1>1, <2>4, <2>5, <2>6 DEF FrameInv
<1>6. CASE in.read_state = "INITIAL" /\ get_message_size(in.msg) = -1
  BY <1>4, <1>6 DEF Finish
<1>7. CASE /\ in.read_state = "INITIAL" /\ get_message_size(in.msg) # -1
           /\ Complete(in, rest, sent, Len(received))
  <2>1. \/ received' = received /\ alive' = FALSE
        \/ received' = Append(received, MessageIn(in.msg))
    BY <1>7 DEF Finish
  <2>. QED
    BY <1>4, <1>5, <1>7, <2>1
<1>. QED
  BY <1>3, <1>6, <1>7

\* A read of the body with the framing kept.
LEMMA ReadBufferFrame ==
  ASSUME FrameInv, alive, NEW in, InOK(in), in.read_state = "BUFFER",
         NEW w \in Seq(Byte), Frame(in, w, sent, Len(received)), ReadBuffer(in, w)
  PROVE  FrameInv'
<1>1. PICK k \in 1 .. BufferWanted(in) :
         /\ k =< Len(w)
         /\ Finish(AfterBuffer(in, SubSeq(w, 1, k)), SubSeq(w, k + 1, Len(w)))
  BY DEF ReadBuffer, recv
<1>2. k \in 1 .. Len(w) /\ sent \in Seq(Message)
  BY <1>1 DEF FrameInv, BoundsInv, TypeOK
<1>3. PICK next, rest : next = AfterBuffer(in, SubSeq(w, 1, k)) /\ rest = SubSeq(w, k + 1, Len(w))
  OBVIOUS
<1>4. /\ SubSeq(w, 1, k) \in Seq(Byte) /\ Len(SubSeq(w, 1, k)) = k /\ rest \in Seq(Byte)
  BY <1>2, <1>3, Chunk
<1>5. InOK(next)
  BY <1>1, <1>3, <1>4, AfterBufferOK
<1>6. \/ next.read_state = "BUFFER" /\ Frame(next, rest, sent, Len(received))
      \/ next.read_state = "INITIAL" /\ Complete(next, rest, sent, Len(received))
  BY <1>2, <1>3, BufferRead
<1>. QED
  BY <1>1, <1>3, <1>4, <1>5, <1>6, FinishFrame

\* A call of asd_msg_read that gets a whole header keeps the framing.
LEMMA ReadFrame ==
  ASSUME ~ SPLIT_HEADER, FrameInv, asd_msg_read
  PROVE  FrameInv'
<1>0. /\ alive /\ wire \in Seq(Byte) /\ sent \in Seq(Message) /\ InOK(in_msg)
      /\ Frame(in_msg, wire, sent, Len(received))
  BY DEF asd_msg_read, FrameInv, BoundsInv, TypeOK
<1>1. CASE in_msg.read_state = "BUFFER"
  BY <1>0, <1>1, ReadBufferFrame DEF asd_msg_read
<1>2. CASE in_msg.read_state # "BUFFER"
  <2>1. in_msg.read_state = "INITIAL"
    BY <1>0, <1>2 DEF Frame, InOK, InType
  <2>2. /\ HeaderState(in_msg) \in InType /\ HeaderState(in_msg).read_state = "HEADER"
        /\ HeaderState(in_msg).read_index = 0
    BY <1>0, <2>1, HeaderStateOK DEF HeaderState
  <2>3. PICK k \in 1 .. (4 - HeaderState(in_msg).read_index), pending \in BOOLEAN :
         /\ k =< Len(wire) /\ k = 4
         /\ IF AfterHeader(HeaderState(in_msg), SubSeq(wire, 1, k)).read_state = "BUFFER" /\ pending
            THEN ReadBuffer(AfterHeader(HeaderState(in_msg), SubSeq(wire, 1, k)),
                            SubSeq(wire, k + 1, Len(wire)))
            ELSE Finish(AfterHeader(HeaderState(in_msg), SubSeq(wire, 1, k)),
                        SubSeq(wire, k + 1, Len(wire)))
    BY <1>2 DEF asd_msg_read, ReadHeader, recv
  <2>4. PICK next, rest : /\ next = AfterHeader(HeaderState(in_msg), SubSeq(wire, 1, 4))
                          /\ rest = SubSeq(wire, 4 + 1, Len(wire))
    OBVIOUS
  <2>5. 4 \in 1 .. Len(wire)
    BY <1>0, <2>3
  <2>6. SubSeq(wire, 1, 4) \in Seq(Byte) /\ Len(SubSeq(wire, 1, 4)) = 4 /\ rest \in Seq(Byte)
    BY <1>0, <2>4, <2>5, Chunk
  <2>7. InOK(next)
    <3>1. Len(SubSeq(wire, 1, 4)) \in 1 .. (4 - HeaderState(in_msg).read_index)
          /\ HeaderState(in_msg).read_index \in 0 .. 3
      BY <2>2, <2>6
    <3>. QED
      BY <2>2, <2>4, <2>6, <3>1, AfterHeaderOK
  <2>8. \/ next.read_state = "BUFFER" /\ Frame(next, rest, sent, Len(received))
        \/ next.read_state = "INITIAL" /\ get_message_size(next.msg) = -1
        \/ next.read_state = "INITIAL" /\ Complete(next, rest, sent, Len(received))
    BY <1>0, <2>1, <2>4, <2>5, HeaderRead
  <2>9. CASE next.read_state = "BUFFER" /\ pending
    BY <1>0, <2>3, <2>4, <2>6, <2>7, <2>8, <2>9, ReadBufferFrame
  <2>10. CASE ~(next.read_state = "BUFFER" /\ pending)
    BY <1>0, <2>3, <2>4, <2>6, <2>7, <2>8, <2>10, FinishFrame
  <2>. QED
    BY <2>9, <2>10
<1>. QED
  BY <1>1, <1>2

\* A message sent leaves what was received, and what is being received, alone.
LEMMA SendFrame ==
  ASSUME FrameInv, BoundsInv', NEW m \in Message, Send(m)
  PROVE  FrameInv'
<1>0. /\ alive /\ wire \in Seq(Byte) /\ sent \in Seq(Message)
      /\ Frame(in_msg, wire, sent, Len(received))
      /\ sent' = Append(sent, m) /\ wire' = wire \o m
      /\ in_msg' = in_msg /\ received' = received
      /\ received \in Seq(Seq(Byte))
  BY DEF Send, FrameInv, BoundsInv, TypeOK
<1>1. PICK r : r = Len(received)
  OBVIOUS
<1>2. /\ r \in 0 .. Len(sent) /\ in_msg.read_state # "HEADER"
      /\ in_msg.read_state = "BUFFER" => r + 1 \in 1 .. Len(sent)
  BY <1>0, <1>1 DEF Frame
<1>3. PICK off :
       /\ Aligned(off, wire, sent)
       /\ in_msg.read_state = "INITIAL" => off[r] = 0
       /\ in_msg.read_state = "BUFFER" =>
            /\ off[r] = -(4 + in_msg.read_index)
            /\ Len(sent[r + 1]) = 4 + in_msg.data_size
            /\ get_message_size(in_msg.msg) = in_msg.data_size
            /\ \A k \in 1 .. (4 + in_msg.read_index) : in_msg.msg[k - 1] = sent[r + 1][k]
  BY <1>0, <1>1 DEF Frame
<1>4. PICK new : /\ Aligned(new, wire', sent')
                 /\ \A i \in 0 .. Len(sent) : new[i] = off[i]
  BY <1>0, <1>3, Joined
<1>5. /\ Len(sent) \in Nat /\ Len(sent') = Len(sent) + 1
      /\ \A i \in 1 .. Len(sent) : sent'[i] = sent[i]
  BY <1>0
<1>6. new[r] = off[r] /\ r \in 0 .. Len(sent')
      /\ (r + 1 \in 1 .. Len(sent) => r + 1 \in 1 .. Len(sent') /\ sent'[r + 1] = sent[r + 1])
  BY <1>2, <1>4, <1>5
<1>7. Frame(in_msg, wire', sent', r)
  BY <1>2, <1>3, <1>4, <1>6 DEF Frame
<1>8. PrefixInv'
  <2>1. r \in Nat /\ r =< Len(sent) /\ \A i \in 1 .. r : received[i] = sent[i]
    BY <1>1, <1>2, <1>5 DEF FrameInv, PrefixInv
  <2>2. r =< Len(sent') /\ \A i \in 1 .. r : i \in 1 .. Len(sent)
    BY <1>5, <2>1
  <2>. QED
    BY <1>0, <1>1, <1>5, <2>1, <2>2 DEF PrefixInv
<1>. QED
  BY <1>0, <1>1, <1>7, <1>8 DEF FrameInv

\* Every step keeps the framing.
LEMMA FrameInvStep ==
  ASSUME ~ SPLIT_HEADER
  PROVE  FrameInv /\ [Next]_vars => FrameInv'
<1>. SUFFICES ASSUME FrameInv, [Next]_vars PROVE FrameInv'
  OBVIOUS
<1>0. BoundsInv'
  BY BoundsInvStep DEF FrameInv
<1>1. CASE asd_msg_read
  BY <1>1, ReadFrame
<1>2. CASE Disconnect
  BY <1>0, <1>2 DEF Disconnect, FrameInv, PrefixInv
<1>3. ASSUME NEW m \in Message, Send(m) PROVE FrameInv'
  BY <1>0, <1>3, SendFrame
<1>4. CASE UNCHANGED vars
  BY <1>0, <1>4 DEF vars, FrameInv, PrefixInv
<1>. QED
  BY <1>1, <1>2, <1>3, <1>4 DEF Next

\* A connection starts at the start of a message.
LEMMA FrameInvInit == Init => FrameInv
<1>. SUFFICES ASSUME Init PROVE FrameInv
  OBVIOUS
<1>1. sent = << >> /\ wire = << >> /\ received = << >> /\ in_msg.read_state = "INITIAL"
  BY DEF Init
<1>2. Len(<< >>) = 0 /\ 1 .. 0 = {} /\ 0 \in 0 .. 0 /\ 0 =< 0
  OBVIOUS
<1>3. Aligned([i \in 0 .. 0 |-> 0], << >>, << >>) /\ [i \in 0 .. 0 |-> 0][0] = 0
  <2>1. [i \in 0 .. 0 |-> 0] \in [0 .. 0 -> Int] /\ [i \in 0 .. 0 |-> 0][0] = 0
    OBVIOUS
  <2>. QED
    BY <1>2, <2>1 DEF Aligned
<1>4. Frame(in_msg, << >>, << >>, 0)
  <2>1. in_msg.read_state # "HEADER" /\ in_msg.read_state # "BUFFER"
    BY <1>1
  <2>. QED
    BY <1>2, <1>3, <2>1 DEF Frame
<1>5. PrefixInv
  BY <1>1, <1>2 DEF PrefixInv
<1>. QED
  BY <1>1, <1>2, <1>4, <1>5, BoundsInvInit DEF FrameInv

\* As long as recv() returns headers whole, asd_msg_on_msg_recv is called with
\* the messages the client sent, unchanged and in order, however recv() cuts the
\* bodies and whatever follows in the stream (FramingExact).
THEOREM ReadFramingExact ==
  ASSUME ~ SPLIT_HEADER
  PROVE  Spec => []FramingExact
<1>1. FrameInv => FramingExact
  <2>. SUFFICES ASSUME FrameInv PROVE FramingExact
    OBVIOUS
  <2>1. /\ received \in Seq(Seq(Byte)) /\ sent \in Seq(Message) /\ Len(received) =< Len(sent)
        /\ \A i \in 1 .. Len(received) : received[i] = sent[i]
    BY DEF FrameInv, BoundsInv, TypeOK, PrefixInv
  <2>2. sent \in Seq(Seq(Byte))
    <3>1. Message \subseteq Seq(Byte)
      BY AsdMsgReadAssumption
    <3>. QED
      BY <2>1, <3>1, SeqMonotonic
  <2>3. Len(received) \in Nat /\ Len(sent) \in Nat
    BY <2>1
  <2>4. \A i \in 1 .. Len(received) : received[i] \in Seq(Byte) /\ sent[i] \in Seq(Byte)
    <3>1. \A i \in 1 .. Len(received) : i \in 1 .. Len(sent)
      BY <2>1, <2>3
    <3>. QED
      BY <2>1, <2>2, <3>1
  <2>5. PICK a, b, n : /\ a = SubSeq(received, 1, n) /\ b = SubSeq(sent, 1, n)
                       /\ n = Len(received)
    OBVIOUS
  <2>6. /\ a \in Seq(Seq(Byte)) /\ Len(a) = IF 1 <= n THEN n - 1 + 1 ELSE 0
        /\ \A i \in 1 .. n - 1 + 1 : a[i] = received[1 + i - 1]
    BY <2>3, <2>4, <2>5, SubSeqProperties
  <2>7. /\ b \in Seq(Seq(Byte)) /\ Len(b) = IF 1 <= n THEN n - 1 + 1 ELSE 0
        /\ \A i \in 1 .. n - 1 + 1 : b[i] = sent[1 + i - 1]
    BY <2>3, <2>4, <2>5, SubSeqProperties
  <2>8. n \in Nat /\ n - 1 + 1 = n /\ \A i \in 1 .. n : 1 + i - 1 = i
    BY <2>3, <2>5
  <2>9. Len(a) = n /\ Len(b) = n
    BY <2>6, <2>7, <2>8
  <2>10. \A i \in 1 .. n : a[i] = b[i]
    BY <2>1, <2>5, <2>6, <2>7, <2>8
  <2>11. a = b
    BY <2>6, <2>7, <2>9, <2>10, SeqEqual
  <2>. QED
    BY <2>1, <2>5, <2>11 DEF FramingExact, IsPrefix
<1>. QED
  BY <1>1, FrameInvInit, FrameInvStep, PTL DEF Spec
===============================================================================
