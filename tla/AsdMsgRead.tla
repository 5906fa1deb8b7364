------------------------------ MODULE AsdMsgRead ------------------------------
(***************************************************************************)
(* How the daemon takes messages off a connection (asd_msg_read in         *)
(* asd_msg.c): a message is a header of HEADER_SIZE bytes, which says how  *)
(* long the body is, and the body. A call of asd_msg_read reads as much as *)
(* recv() gives and remembers in in_msg how far it got. The message is     *)
(* assembled in memory, byte by byte, as struct asd_message lays it out:   *)
(* the header at 0, the buffer behind it.                                  *)
(***************************************************************************)
EXTENDS Integers, Sequences, SequencesExt

CONSTANTS
    MAX_DATA_SIZE,   \* 3000 in asd_common.h
    Message,         \* the messages a client may send, as sequences of bytes
    TLS,             \* TLS tells whether a record holds more data, TCP never does
    SPLIT_HEADER,    \* whether recv() may return a part of a header
    MAX_MESSAGES     \* bound on the messages sent

HEADER_SIZE == 4

Byte == 0 .. 255

\* The second header byte and the low five bits of the third are the size of the
\* body; the high three bits of the third are the tag.
SizeField(lsb, msb) == lsb + 256 * (msb % 32)

\* A message is as long as its header says; only one that is too long, which is
\* refused before its body is read, comes without a body.
ASSUME AsdMsgReadAssumption ==
    /\ MAX_DATA_SIZE \in Nat /\ MAX_DATA_SIZE >= HEADER_SIZE * HEADER_SIZE
    /\ MAX_DATA_SIZE < 32 * 256
    /\ TLS \in BOOLEAN /\ SPLIT_HEADER \in BOOLEAN /\ MAX_MESSAGES \in Nat
    /\ Message \subseteq Seq(Byte)
    /\ \A m \in Message :
          /\ Len(m) >= HEADER_SIZE
          /\ \/ SizeField(m[2], m[3]) = Len(m) - HEADER_SIZE
             \/ SizeField(m[2], m[3]) > MAX_DATA_SIZE

VARIABLES
    in_msg,     \* struct incoming_msg: read_state, read_index, data_size, memory
    wire,       \* bytes sent and not yet received
    sent,       \* the messages sent
    received,   \* the messages asd_msg_on_msg_recv was called for
    alive       \* FALSE once asd_msg_read answered ST_ERR: the session is closed

vars == <<in_msg, wire, sent, received, alive>>

Address == 0 .. (HEADER_SIZE + MAX_DATA_SIZE - 1)

zeros == [a \in Address |-> 0]

Init ==
    /\ in_msg = [read_state |-> "INITIAL", read_index |-> 0, data_size |-> 0, msg |-> zeros]
    /\ wire = << >> /\ sent = << >> /\ received = << >>
    /\ alive = TRUE

-------------------------------------------------------------------------------

\* Bytes received into the message at an address.
Store(mem, address, bytes) ==
    [a \in Address |-> IF a \in address .. (address + Len(bytes) - 1)
                       THEN bytes[a - address + 1] ELSE mem[a]]

\* Mutant: no limit on the size.
get_message_size_any(mem) == SizeField(mem[1], mem[2])

get_message_size(mem) ==
    IF SizeField(mem[1], mem[2]) > MAX_DATA_SIZE THEN -1 ELSE SizeField(mem[1], mem[2])

\* The message in memory: its header and the body the header announces.
MessageIn(mem) ==
    [i \in 1 .. (HEADER_SIZE + get_message_size(mem)) |-> mem[i - 1]]

\* recv() returns k of the n bytes wanted. TLS returns fewer only at the end of
\* a record, and says whether the record goes on.
recv(bytes, n, k, pending) ==
    /\ k =< n /\ k =< Len(bytes)
    /\ pending => TLS /\ k = n /\ Len(bytes) > k

\* READ_STATE_INITIAL falls into READ_STATE_HEADER.
HeaderState(in) ==
    IF in.read_state = "INITIAL"
    THEN [read_state |-> "HEADER", read_index |-> 0, data_size |-> 0, msg |-> zeros]
    ELSE in

\* &(msg->header) + read_index counts in headers, not in bytes.
HeaderAddress(in) == HEADER_SIZE * in.read_index

\* Mutant: the buffer is filled from its start again.
BufferAddress_start(in) == HEADER_SIZE

BufferAddress(in) == HEADER_SIZE + in.read_index

BufferWanted(in) == in.data_size - in.read_index

\* Mutant: a size of -1 is taken for a size.
AfterHeader_no_check(in, bytes) ==
    LET mem  == Store(in.msg, HeaderAddress(in), bytes)
        got  == in.read_index + Len(bytes)
        size == get_message_size(mem)
    IN  IF got < HEADER_SIZE THEN [in EXCEPT !.msg = mem, !.read_index = got]
        ELSE IF size # 0 THEN [read_state |-> "BUFFER", read_index |-> 0,
                               data_size |-> size, msg |-> mem]
        ELSE [in EXCEPT !.msg = mem, !.read_state = "INITIAL"]

\* READ_STATE_HEADER with the bytes received.
AfterHeader(in, bytes) ==
    LET mem  == Store(in.msg, HeaderAddress(in), bytes)
        got  == in.read_index + Len(bytes)
        size == get_message_size(mem)
    IN  IF got < HEADER_SIZE THEN [in EXCEPT !.msg = mem, !.read_index = got]
        ELSE IF size > 0 THEN [read_state |-> "BUFFER", read_index |-> 0,
                               data_size |-> size, msg |-> mem]
        ELSE [in EXCEPT !.msg = mem, !.read_state = "INITIAL"]

\* READ_STATE_BUFFER with the bytes received. read_index is left where it was by
\* the read that completes the body.
AfterBuffer(in, bytes) ==
    LET mem == Store(in.msg, BufferAddress(in), bytes)
        got == in.read_index + Len(bytes)
    IN  IF got < in.data_size THEN [in EXCEPT !.msg = mem, !.read_index = got]
        ELSE [in EXCEPT !.msg = mem, !.read_state = "INITIAL"]

\* The end of a call: with the message complete asd_msg_on_msg_recv handles it or
\* refuses it; a size over the limit ends the connection.
Finish(in, rest) ==
    /\ in_msg' = in
    /\ wire' = rest
    /\ IF in.read_state # "INITIAL" THEN UNCHANGED <<received, alive>>
       ELSE IF get_message_size(in.msg) = -1 THEN alive' = FALSE /\ UNCHANGED received
       ELSE \E handled \in BOOLEAN :
               /\ received' = IF handled THEN Append(received, MessageIn(in.msg)) ELSE received
               /\ alive' = handled
    /\ UNCHANGED sent

\* The body is read by a call of its own.
ReadBuffer(in, bytes) ==
    \E k \in 1 .. BufferWanted(in), pending \in BOOLEAN :
        /\ recv(bytes, BufferWanted(in), k, pending)
        /\ Finish(AfterBuffer(in, SubSeq(bytes, 1, k)), SubSeq(bytes, k + 1, Len(bytes)))

\* The header is read; with the body announced and data pending, the same call
\* goes on to the body.
ReadHeader(in) ==
    \E k \in 1 .. (HEADER_SIZE - in.read_index), pending \in BOOLEAN :
        LET next == AfterHeader(in, SubSeq(wire, 1, k))
            rest == SubSeq(wire, k + 1, Len(wire))
        IN  /\ recv(wire, HEADER_SIZE - in.read_index, k, pending)
            /\ SPLIT_HEADER \/ k = HEADER_SIZE
            /\ IF next.read_state = "BUFFER" /\ pending THEN ReadBuffer(next, rest)
                                                        ELSE Finish(next, rest)

asd_msg_read ==
    /\ alive
    /\ wire # << >>
    /\ IF in_msg.read_state = "BUFFER" THEN ReadBuffer(in_msg, wire)
                                       ELSE ReadHeader(HeaderState(in_msg))

\* recv() returns 0 or fails.
Disconnect == alive /\ alive' = FALSE /\ UNCHANGED <<in_msg, wire, sent, received>>

Send(m) ==
    /\ alive
    /\ Len(sent) < MAX_MESSAGES
    /\ sent' = Append(sent, m)
    /\ wire' = wire \o m
    /\ UNCHANGED <<in_msg, received, alive>>

Next == asd_msg_read \/ Disconnect \/ \E m \in Message : Send(m)

Spec == Init /\ [][Next]_vars

-------------------------------------------------------------------------------
(* Properties.                                                             *)

\* Type correctness.
TypeOK ==
    /\ in_msg \in [read_state : {"INITIAL", "HEADER", "BUFFER"}, read_index : Nat,
                   data_size : Nat, msg : [Address -> Byte]]
    /\ wire \in Seq(Byte)
    /\ sent \in Seq(Message) /\ received \in Seq(Seq(Byte))
    /\ alive \in BOOLEAN

\* Every message handed to asd_msg_on_msg_recv is a message the client sent,
\* whole, unchanged and in order, however recv() cuts the stream.
FramingExact == IsPrefix(received, sent)

\* A read always asks for at least one byte (recv() of none answers 0, which
\* would end the connection) and never for more than fits into the message.
ReadInBounds ==
    /\ in_msg.read_state = "HEADER" =>
          /\ in_msg.read_index < HEADER_SIZE
          /\ HeaderAddress(in_msg) + HEADER_SIZE - in_msg.read_index =< HEADER_SIZE + MAX_DATA_SIZE
    /\ in_msg.read_state = "BUFFER" =>
          /\ BufferWanted(in_msg) > 0
          /\ BufferAddress(in_msg) + BufferWanted(in_msg) =< HEADER_SIZE + MAX_DATA_SIZE

===============================================================================
