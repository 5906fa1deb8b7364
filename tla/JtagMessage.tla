---------------------------- MODULE JtagMessage ----------------------------
(***************************************************************************)
(* JTAG messages of the ASD daemon: process_jtag_message and the functions *)
(* of asd_msg.c it calls take a packet of commands apart, look ahead for   *)
(* the state a scan is to end in, call the JTAG and the target handler and *)
(* put the response together.                                              *)
(*                                                                         *)
(* Bytes are the ones of the protocol (asd_common.h).  A handler may       *)
(* refuse any call.  Of the JTAG handler only what the packet decides on   *)
(* is kept: the active chain and the state of the TAP of each chain;       *)
(* JtagScan has the rest.  Scan chains are selected one at a time          *)
(* (JTAG_CHAIN_SELECT_MODE_SINGLE).                                        *)
(***************************************************************************)
EXTENDS Naturals, Sequences, FiniteSets

CONSTANTS Commands,        \* bound: the commands a client sends
          MAX_COMMANDS,    \* bound: the commands of a packet
          MAX_DATA_SIZE    \* the bytes of the response buffer

ASSUME CommandsAssumption ==
    /\ Commands \subseteq Seq(0 .. 255) /\ \A p \in Commands : Len(p) > 0
    /\ MAX_COMMANDS \in Nat \ {0}
ASSUME MaxDataSizeAssumption == MAX_DATA_SIZE \in Nat \ {0}

VARIABLES
    hw_mode,       \* asd_cfg->jtag.mode = JTAG_DRIVER_MODE_HARDWARE
    pc,            \* "idle", "loop", or "answered" with success
    packet,        \* the message being processed
    used,          \* packet.used
    response_cnt,
    active_chain,  \* of the JTAG handler
    tap_state,     \* of each of its chains
    executed,      \* history: the commands of the packet carried out
    start,         \* history: the handler when the packet was received
    lost           \* history: the lookahead ran out of the packet

jtag == <<active_chain, tap_state>>
vars == <<hw_mode, pc, packet, used, response_cnt, jtag, executed, start, lost>>

(***************************************************************************)
(* The bytes.                                                              *)
(***************************************************************************)
WRITE_EVENT_CONFIG == 0
JTAG_FREQ == 1
DR_PREFIX == 2
DR_POSTFIX == 3
IR_PREFIX == 4
IR_POSTFIX == 5
PRDY_TIMEOUT == 6
WRITE_PINS == 7
ReadStatus == 8 .. 15
WaitCycles == {16, 17}
WAIT_PRDY == 18
CLEAR_TIMEOUT == 19
TAP_RESET == 20
WAIT_SYNC == 25
TapState == 32 .. 47
WriteScan == 64 .. 127
ReadScan == 128 .. 191
ReadWriteScan == 192 .. 255
Scans == WriteScan \cup ReadScan \cup ReadWriteScan

PIN_MAX == 8
SCAN_CHAIN_SELECT == 64
MAX_SCAN_CHAINS == 2
Chains == 0 .. MAX_SCAN_CHAINS - 1

jtag_tlr == 0
jtag_rti == 1
jtag_shf_dr == 4
jtag_pau_dr == 6
jtag_shf_ir == 11
jtag_pau_ir == 13
ShiftStates == {jtag_shf_dr, jtag_shf_ir}

\* The state a TAP_STATE command names.
tap_of(b) == b % 16

\* Mutant: a scan of zero bits has no data.
get_scan_length_zero(b) == ((b % 64) + 7) \div 8

\* get_scan_length: the bytes of a scan, 64 bits being written as 0.
get_scan_length(b) == IF b % 64 = 0 THEN 8 ELSE ((b % 64) + 7) \div 8

\* The bytes each command takes from the packet with get_packet_data.
operands(b) ==
    CASE b \in {WRITE_EVENT_CONFIG, JTAG_FREQ, DR_PREFIX, DR_POSTFIX,
                PRDY_TIMEOUT, WRITE_PINS} \cup ReadStatus \cup WaitCycles -> 1
      [] b \in {IR_PREFIX, IR_POSTFIX} -> 2
      [] b = WAIT_SYNC -> 4
      [] b \in WriteScan \cup ReadWriteScan -> get_scan_length(b)
      [] OTHER -> 0

cmd == packet[used + 1]

\* Mutant: the record of the first chain is read, whichever is selected.
JTAG_get_tap_state_first == tap_state[0]

\* JTAG_get_tap_state, of the active chain.
JTAG_get_tap_state == tap_state[active_chain]

(***************************************************************************)
(* The lookahead.                                                          *)
(***************************************************************************)
\* In hardware mode: the byte taken for the command behind the TAP_STATE at
\* index n, as <<index, packet.used>>.  An index of 0 is a NULL pointer, met
\* when two bytes are wanted and one is left.
next_cmd2(n) ==
    LET total == Len(packet)
        look[u \in 0 .. total] == [c \in 0 .. total |->
            IF u >= total \/ c = 0 \/ packet[c] \in TapState THEN <<c, u>>
            ELSE IF packet[c] \in {WRITE_EVENT_CONFIG, DR_PREFIX, DR_POSTFIX,
                                   JTAG_FREQ} \cup WaitCycles
            THEN look[u + 1][u + 1]
            ELSE IF packet[c] \in {IR_PREFIX, IR_POSTFIX}
            THEN IF u + 2 > total THEN <<0, u>> ELSE look[u + 2][u + 1]
            ELSE <<c, u>>]
    IN  IF n + 1 > total THEN <<0, n>> ELSE look[n + 1][n + 1]

\* Mutant: what was looked at is not given back.
unpeek_none(n, c, u) == u

\* packet.used after the lookahead.  With next_cmd2_ptr NULL only the byte of
\* the first command is given back.
unpeek(n, c, u) == IF c # 0 THEN n - 1 ELSE u - 1

\* determine_shift_end_state for a scan whose next command is at index n.
determine_shift_end_state(n) ==
    LET next == packet[n]
        c == IF hw_mode THEN next_cmd2(n)[1] ELSE 0
        u == IF hw_mode THEN next_cmd2(n)[2] ELSE n
        goal == IF c # 0 /\ packet[c] \in TapState THEN tap_of(packet[c]) ELSE jtag_tlr
        same == \E kind \in {WriteScan, ReadScan, ReadWriteScan} :
                    cmd \in kind /\ next \in kind
    IN  CASE n > Len(packet) ->
                [ok |-> TRUE, end |-> JTAG_get_tap_state, used |-> n - 1, lost |-> FALSE]
          [] n <= Len(packet) /\ next \in TapState ->
                [ok |-> TRUE,
                 end |-> IF goal \in {jtag_pau_dr, jtag_pau_ir, jtag_rti} THEN goal
                         ELSE tap_of(next),
                 used |-> unpeek(n, c, u), lost |-> c = 0 /\ u # n]
          [] OTHER -> [ok |-> same, end |-> JTAG_get_tap_state, used |-> n - 1, lost |-> FALSE]

(***************************************************************************)
(* A packet.                                                               *)
(***************************************************************************)
Joined(s) ==
    LET from[i \in 0 .. Len(s)] == IF i = 0 THEN <<>> ELSE from[i - 1] \o s[i]
    IN  from[Len(s)]

\* A packet, the last command of which may be cut short.
Receive ==
    /\ pc = "idle"
    /\ pc' = "loop"
    /\ \E n \in 1 .. MAX_COMMANDS : \E s \in [1 .. n -> Commands], cut \in 0 .. 1 :
           /\ cut < Len(s[n])
           /\ packet' = SubSeq(Joined(s), 1, Len(Joined(s)) - cut)
    /\ start' = [chain |-> active_chain, tap |-> tap_state]
    /\ UNCHANGED <<hw_mode, used, response_cnt, jtag, executed, lost>>

\* process_jtag_message returns; with status # ST_OK send_error_message answers.
EndMessage ==
    /\ pc' = "idle" /\ packet' = <<>> /\ used' = 0 /\ response_cnt' = 0
    /\ executed' = 0 /\ lost' = FALSE
    /\ UNCHANGED <<hw_mode, start>>

Leave == EndMessage /\ UNCHANGED jtag

At(bytes) == pc = "loop" /\ used < Len(packet) /\ cmd \in bytes
HasOperands == used + 1 + operands(cmd) <= Len(packet)
Advance == used' = used + 1 + operands(cmd) /\ executed' = executed + 1

\* The commands that neither answer nor move the TAP: write_event_config,
\* write_cfg, JTAG_wait_cycles, target_wait_PRDY, CLEAR_TIMEOUT,
\* target_wait_sync.
Configure ==
    /\ At(0 .. 6 \cup WaitCycles \cup {WAIT_PRDY, CLEAR_TIMEOUT, WAIT_SYNC})
    /\ \/ HasOperands /\ Advance
          /\ UNCHANGED <<hw_mode, pc, packet, response_cnt, jtag, start, lost>>
       \/ cmd # CLEAR_TIMEOUT /\ Leave

\* WRITE_PINS writes a pin, or selects a scan chain; it refuses other indices.
write_pins ==
    LET index == packet[used + 2] % 128
        chain == index % 16
    IN  /\ At({WRITE_PINS})
        /\ \/ /\ HasOperands /\ Advance
              /\ \/ index < PIN_MAX /\ UNCHANGED active_chain
                 \/ /\ index >= SCAN_CHAIN_SELECT /\ chain < MAX_SCAN_CHAINS
                    /\ active_chain' = chain
              /\ UNCHANGED <<hw_mode, pc, packet, response_cnt, tap_state, start, lost>>
           \/ Leave

read_status ==
    /\ At(ReadStatus)
    /\ \/ /\ HasOperands /\ response_cnt + 2 <= MAX_DATA_SIZE
          /\ Advance /\ response_cnt' = response_cnt + 2
          /\ UNCHANGED <<hw_mode, pc, packet, jtag, start, lost>>
       \/ Leave

\* JTAG_tap_reset and JTAG_set_tap_state, which may fail after the move, when it
\* waits in Run-Test/Idle or Pause-DR.
tap_command ==
    LET goal == IF cmd = TAP_RESET THEN jtag_tlr ELSE tap_of(cmd)
        move == tap_state' = [tap_state EXCEPT ![active_chain] = goal]
    IN  /\ At(TapState \cup {TAP_RESET})
        /\ \/ /\ move /\ Advance
              /\ UNCHANGED <<hw_mode, pc, packet, response_cnt, active_chain, start, lost>>
           \/ goal \in {jtag_rti, jtag_pau_dr} /\ move /\ EndMessage /\ UNCHANGED active_chain
           \/ Leave

\* Mutant: the byte that repeats the command is not counted.
response_fits_short(length) == response_cnt + length <= MAX_DATA_SIZE

response_fits(length) == response_cnt + 1 + length <= MAX_DATA_SIZE

\* WRITE_SCAN, READ_SCAN and READ_WRITE_SCAN.  JTAG_shift refuses to shift in
\* another state.
scan_command ==
    LET length == get_scan_length(cmd)
        answers == cmd \notin WriteScan
        n == used + operands(cmd) + 2
        d == determine_shift_end_state(n)
    IN  /\ At(Scans)
        /\ \/ /\ HasOperands /\ (answers => response_fits(length))
              /\ d.ok /\ JTAG_get_tap_state \in ShiftStates
              /\ used' = d.used /\ executed' = executed + 1
              /\ response_cnt' = response_cnt + (IF answers THEN 1 + length ELSE 0)
              /\ tap_state' = [tap_state EXCEPT ![active_chain] = d.end]
              /\ lost' = (lost \/ d.lost)
              /\ UNCHANGED <<hw_mode, pc, packet, active_chain, start>>
           \/ Leave

unknown_command ==
    /\ pc = "loop" /\ used < Len(packet)
    /\ cmd \notin 0 .. 20 \cup {WAIT_SYNC} \cup TapState \cup Scans
    /\ Leave

\* The end of the loop: the response is sent, with response_cnt as its size.
Answer ==
    /\ pc = "loop" /\ used = Len(packet)
    /\ \/ /\ pc' = "answered"
          /\ UNCHANGED <<hw_mode, packet, used, response_cnt, jtag, executed, start, lost>>
       \/ Leave

Return == pc = "answered" /\ Leave

Init ==
    /\ hw_mode \in BOOLEAN /\ pc = "idle"
    /\ packet = <<>> /\ used = 0 /\ response_cnt = 0
    /\ active_chain = 0 /\ tap_state = [c \in Chains |-> jtag_tlr]
    /\ start = [chain |-> active_chain, tap |-> tap_state]
    /\ executed = 0 /\ lost = FALSE

Next ==
    \/ Receive
    \/ Configure
    \/ write_pins
    \/ read_status
    \/ tap_command
    \/ scan_command
    \/ unknown_command
    \/ Answer
    \/ Return

Spec == Init /\ [][Next]_vars

(***************************************************************************)
(* Correctness.                                                            *)
(***************************************************************************)
\* The bytes behind a command, from the table of commands in asd_common.h: a
\* scan of L bits carries as many bytes as hold them, and L = 0 stands for 64.
Behind(b) ==
    IF b \in WriteScan \cup ReadWriteScan
    THEN CHOOSE n \in 1 .. 8 :
            LET bits == IF b % 64 = 0 THEN 64 ELSE b % 64
            IN  8 * (n - 1) < bits /\ bits <= 8 * n
    ELSE operands(b)

\* Where the commands of a packet start, as the client wrote it.
Starts(p) ==
    LET from[i \in Nat] ==
            IF i >= Len(p) THEN {} ELSE {i} \cup from[i + 1 + Behind(p[i + 1])]
    IN  from[0]

\* The size of the response a client expects.
Expected(p) ==
    LET size(b) == CASE b \in ReadStatus -> 2
                     [] b \in ReadScan \cup ReadWriteScan ->
                            1 + Behind(b - (b \div 64) * 64 + 64)
                     [] OTHER -> 0
        from[i \in Nat] ==
            IF i >= Len(p) THEN 0
            ELSE size(p[i + 1]) + from[i + 1 + Behind(p[i + 1])]
    IN  from[0]

\* The places of S before u, and the latest place of S.
Before(S, u) == {i \in S : i < u}
Latest(S) == CHOOSE i \in S : \A j \in S : j =< i

\* Where packet p selects a chain, and the chain it means at place u: the one
\* selected last, or that of the handler h as the packet found it.
Selects(p) == {i \in Starts(p) : /\ p[i + 1] = WRITE_PINS /\ i + 2 <= Len(p)
                                 /\ p[i + 2] % 128 >= SCAN_CHAIN_SELECT}
ChainAt(h, p, u) ==
    LET selects == Before(Selects(p), u)
    IN  IF selects = {} THEN h.chain ELSE p[Latest(selects) + 2] % 16

\* Where it moves the TAP of chain c, and the state it means it to be in at
\* place u: the one it named last, or the one of h.
Moves(h, p, c) == {i \in Starts(p) : /\ p[i + 1] \in TapState \cup {TAP_RESET}
                                     /\ ChainAt(h, p, i) = c}
AskedAt(h, p, u, c) ==
    LET moves == Before(Moves(h, p, c), u)
        last == p[Latest(moves) + 1]
    IN  IF moves = {} THEN h.tap[c]
        ELSE IF last = TAP_RESET THEN jtag_tlr ELSE tap_of(last)

\* The variables have their types, and the response never leaves its buffer.
TypeOK ==
    /\ hw_mode \in BOOLEAN /\ pc \in {"idle", "loop", "answered"}
    /\ packet \in Seq(0 .. 255) /\ used \in 0 .. Len(packet)
    /\ response_cnt \in 0 .. MAX_DATA_SIZE
    /\ active_chain \in Chains /\ tap_state \in [Chains -> 0 .. 15]
    /\ executed \in 0 .. Len(packet) /\ lost \in BOOLEAN
    /\ start \in [chain : Chains, tap : [Chains -> 0 .. 15]]

\* Between two commands the packet stands at the start of a command: what a
\* scan has looked ahead at is read again, whatever it was.  The one exception
\* is a lookahead in hardware mode that has run out of the packet.
StartsOnCommand ==
    pc = "loop" /\ ~ lost /\ used < Len(packet) => used \in Starts(packet)

\* A packet answered with success had all its commands carried out, each once,
\* and the response has the size the client expects.
AnsweredWhole ==
    pc = "answered" /\ ~ lost =>
        executed = Cardinality(Starts(packet)) /\ response_cnt = Expected(packet)

\* The client's TAP_STATE and TAP_RESET commands alone decide where the TAP of
\* each chain is: a scan moves none in between.  It may leave Shift early, with
\* its last bit, but only when the next command is a TAP_STATE, and from there
\* on the chains are where the packet says (determine_shift_end_state,
\* JTAG_set_tap_state and asd_write_set_active_chain_event).
TapAsAsked ==
    pc # "idle" /\ ~ lost /\ (used < Len(packet) => cmd \notin TapState) =>
        \A c \in Chains : tap_state[c] = AskedAt(start, packet, used, c)

=============================================================================
