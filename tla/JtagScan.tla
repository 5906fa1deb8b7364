------------------------------ MODULE JtagScan ------------------------------
(***************************************************************************)
(* The JTAG handler of the ASD daemon over the JTAG kernel driver over the *)
(* TAPs of the target: jtag_handler.c, and the operations of jtag-aspeed.c *)
(* that an AST2600 uses (bit banging in software mode, xfer_hw2 in         *)
(* hardware mode).                                                         *)
(*                                                                         *)
(* Three parties hold an opinion on the state of a TAP: the handler        *)
(* (tap_state, one for each scan chain), the driver (current_state, one    *)
(* for all chains) and the TAP itself, which nobody can read.  A scan may  *)
(* be sent in pieces, with the padding of the other devices before the     *)
(* first and after the last piece.                                         *)
(*                                                                         *)
(* A client calls the operations in any order (asd_msg.c).  Two histories  *)
(* say what it may count on: ideal is a TAP that does to the letter what   *)
(* the client asked for, and in_step the chains on which the client has    *)
(* kept to the sequences the code supports; README.md lists what leaves    *)
(* this set and why.                                                       *)
(***************************************************************************)
EXTENDS JtagTap, FiniteSets

CONSTANTS Chains,          \* the scan chains, MAX_SCAN_CHAINS of them
          SCAN_CHAIN_0,    \* the chain a new handler starts with
          Goals,           \* bound: the states a client asks for
          Lengths,         \* bound: the lengths of its scans
          PadValues,       \* bound: the padding sizes it asks for
          PadStates,       \* bound: the states it asks for them in
          PadChains,       \* bound: the chains it asks for them on
          DRMAXPADSIZE, IRMAXPADSIZE

ASSUME ChainsAssumption ==
    IsFiniteSet(Chains) /\ SCAN_CHAIN_0 \in Chains /\ PadChains \subseteq Chains
ASSUME GoalsAssumption  ==
    "TLR" \in Goals /\ Goals \subseteq TapStates /\ PadStates \subseteq TapStates
ASSUME SizesAssumption ==
    /\ Lengths \subseteq Nat \ {0} /\ PadValues \subseteq Nat
    /\ DRMAXPADSIZE \in Nat /\ IRMAXPADSIZE \in Nat

\* "the complete set TMS cycles for going from any TAP state to any other TAP
\* state, following a "shortest path" rule" (jtag.h): each of the 256 paths
\* leads where it should, and none of fewer cycles does.
ASSUME TmsCycleLookupAssumption ==
    \A from, to \in TapStates :
        LET path == TmsPath(from, to)
        IN  /\ Walk([state |-> from, bits |-> <<>>, updates |-> <<>>], path).state = to
            /\ to \notin Within(from, Len(path) - 1)

VARIABLES
    opened,         \* JTAG_driver_handle # -1
    sw_mode,        \* the mode of the handler and of the driver
    active_chain,   \* the chain the handler uses and the TCK mux selects
    chains,         \* the handler's record of each chain
    current_state,  \* what the driver takes the TAP state for
    tap,            \* the TAP of each chain
    reset_done,     \* history: the chains reset since JTAG_initialize
    in_step,        \* history: the chains used as the code supports it
    ideal           \* history: the TAP as the client believes it to be

handlerVars == <<opened, sw_mode, active_chain, chains, current_state, tap>>
vars == <<handlerVars, reset_done, in_step, ideal>>

PaddingTypes == {"drPre", "drPost", "irPre", "irPost"}
NewTap == [state |-> "TLR", bits |-> <<>>, updates |-> <<>>]
FreshChain == [padding |-> [p \in PaddingTypes |-> 0], tap_state |-> "TLR",
               scan_state |-> "Done"]

Pause(shift) == IF shift = "ShIR" THEN "PauIR" ELSE "PauDR"
Exit1(shift) == IF shift = "ShIR" THEN "Ex1IR" ELSE "Ex1DR"

prefix(ch) == ch.padding[IF ch.tap_state = "ShIR" THEN "irPre" ELSE "drPre"]
postfix(ch) == ch.padding[IF ch.tap_state = "ShIR" THEN "irPost" ELSE "drPost"]

(***************************************************************************)
(* The driver.                                                             *)
(***************************************************************************)
\* aspeed_jtag_set_tap_state_sw.  A reset does not end the walk: the cycles
\* from the state the caller has named follow.
set_tap_state_sw(t, from, end, reset) ==
    Walk(IF reset THEN Walk(t, Repeat(1, 10)) ELSE t, TmsPath(from, end))

\* aspeed_jtag_set_tap_state_hw2: nothing but a reset moves the TAP, "x TMS
\* high + 1 TMS low".
set_tap_state_hw2(t, reset) ==
    IF reset THEN Walk(t, Append(Repeat(1, 5), 0)) ELSE t

\* aspeed_jtag_xfer_sw, called with from = shift.
xfer_sw(t, shift, bits, end) ==
    LET n == Len(bits)
    IN  IF end = shift THEN Clocks(t, Repeat(0, n), bits)
        ELSE Walk(Clocks(t, Append(Repeat(0, n - 1), 1), bits), TmsPath(Exit1(shift), end))

\* The scans aspeed_jtag_xfer_hw2 accepts.
xfer_hw2_ok(shift, end) ==
    /\ current_state \in {shift, "RTI", "TLR", Pause(shift)}
    /\ end \in {shift, Exit1(shift), "RTI", Pause(shift)}

\* Mutant: a single bit is shifted as any other number of them.
hw2_endstate_no_workaround(shift, length, end) ==
    IF end = Exit1(shift) THEN "RTI" ELSE end

\* Where aspeed_jtag_xfer_hw2 goes.  One bit with the TAP to stay in Shift
\* is what the controller gets wrong, and is sent to Pause instead.
hw2_endstate(shift, length, end) ==
    CASE end = shift /\ length = 1 -> Pause(shift)
      [] end = Exit1(shift) -> "RTI"
      [] OTHER -> end

\* What the controller does for aspeed_jtag_xfer_hw2: the TMS cycles from
\* current_state to Shift, the padding and the data, the last of them with
\* TMS high unless the TAP is to stay, and the cycles from Exit1.  A single
\* bit has been observed to leave Shift even if the TAP is to stay.  The driver
\* sends more than ASPEED_JTAG_HW2_DATA_CHUNK_SIZE (512) bits in chunks; a scan
\* of the daemon has at most 64 (asd_msg.c), so that its loop runs once, and
\* longer ones are not modelled.
xfer_hw2(t, shift, pre, length, post, end) ==
    LET e == hw2_endstate(shift, length, end)
        started == IF current_state = shift THEN t
                   ELSE Walk(t, TmsPath(current_state, shift))
        bits == Repeat("pad", pre) \o Repeat("data", length) \o Repeat("pad", post)
    IN  xfer_sw(started, shift, bits,
                IF e = shift /\ length = 1 THEN Exit1(shift) ELSE e)

(***************************************************************************)
(* The histories.                                                          *)
(***************************************************************************)
NewIdeal == [tap |-> NewTap, open |-> FALSE]

\* The moves that hardware mode makes: the ones the next scan makes itself.
hw_move(from, to) ==
    \/ from = to
    \/ from \in {"TLR", "RTI"} /\ to \in {"RTI"} \cup ShiftStates
    \/ to \in ShiftStates /\ from = Pause(to)

\* The client's TAP when it asks for a state, and for a scan.
ideal_move(i, to) ==
    [tap |-> IF to = "TLR" THEN NewTap ELSE Walk(i.tap, TmsPath(i.tap.state, to)),
     open |-> FALSE]

ideal_bits(i, ch, length, end) ==
    (IF i.open THEN <<>> ELSE Repeat("pad", prefix(ch)))
        \o Repeat("data", length)
        \o (IF end = ch.tap_state THEN <<>> ELSE Repeat("pad", postfix(ch)))

ideal_scan(i, ch, length, end) ==
    LET shift == ch.tap_state
        full == [i.tap EXCEPT !.bits = @ \o ideal_bits(i, ch, length, end)]
    IN  IF end = shift THEN [tap |-> full, open |-> TRUE]
        ELSE [tap |-> Walk([full EXCEPT !.state = Exit1(shift)],
                           TmsPath(Exit1(shift), end)),
              open |-> FALSE]

\* An operation on the active chain leaves it as tap t and ideal i, if it
\* keeps the client in step; else what was shifted is not followed further.
\* The other chains see no clock.
Quiet(t) == [t EXCEPT !.updates = <<>>]
Forget(t) == [t EXCEPT !.updates = <<>>, !.bits = <<>>]
Touch(t, i, keep) ==
    LET a == active_chain
    IN  /\ tap' = [c \in Chains |-> IF c # a THEN Quiet(tap[c])
                                    ELSE IF keep THEN t ELSE Forget(t)]
        /\ in_step' = IF keep THEN in_step \cup {a} ELSE in_step \ {a}
        /\ ideal' = [c \in Chains |->
               IF c # a THEN [ideal[c] EXCEPT !.tap = Quiet(@)]
               ELSE IF keep THEN i ELSE NewIdeal]

(***************************************************************************)
(* The handler.                                                            *)
(***************************************************************************)
Chain == chains[active_chain]
Tap == Quiet(tap[active_chain])
Ideal == [ideal[active_chain] EXCEPT !.tap = Quiet(@)]

\* JTAGHandler and JTAG_initialize for a new client.  Only the active chain
\* is reset, and all of them are taken to be.
JTAG_initialize(sw) ==
    /\ ~ opened
    /\ opened' = TRUE /\ sw_mode' = sw /\ active_chain' = SCAN_CHAIN_0
    /\ chains' = [c \in Chains |-> FreshChain]
    /\ tap' = [c \in Chains |->
                 IF c # SCAN_CHAIN_0 THEN tap[c]
                 ELSE IF sw THEN set_tap_state_sw(tap[c], "TLR", "TLR", TRUE)
                 ELSE set_tap_state_hw2(tap[c], TRUE)]
    /\ current_state' = "TLR"
    /\ reset_done' = {SCAN_CHAIN_0} /\ in_step' = {SCAN_CHAIN_0}
    /\ ideal' = [c \in Chains |-> NewIdeal]

\* The client leaves, in the middle of whatever it was doing.
JTAG_deinitialize ==
    /\ opened
    /\ opened' = FALSE /\ active_chain' = SCAN_CHAIN_0
    /\ chains' = [c \in Chains |-> FreshChain]
    /\ reset_done' = {} /\ in_step' = {}
    /\ ideal' = [c \in Chains |-> NewIdeal]
    /\ tap' = [c \in Chains |-> Forget(tap[c])]
    /\ UNCHANGED <<sw_mode, current_state>>

MaxPad(p) == IF p \in {"irPre", "irPost"} THEN IRMAXPADSIZE ELSE DRMAXPADSIZE

\* Mutant: the size of an instruction register padding is not checked.
pad_ok_ir_unchecked(p, value) ==
    p \in {"irPre", "irPost"} \/ value <= MaxPad(p)

\* JTAG_set_padding refuses what its buffers of padding bits cannot hold.
pad_ok(p, value) == value <= MaxPad(p)

JTAG_set_padding(p, value) ==
    /\ opened /\ Chain.tap_state \in PadStates /\ active_chain \in PadChains
    /\ pad_ok(p, value)
    /\ chains' = [chains EXCEPT ![active_chain].padding[p] = value]
    /\ UNCHANGED <<opened, sw_mode, active_chain, current_state, tap, reset_done,
                   in_step, ideal>>

\* JTAG_set_tap_state, and JTAG_tap_reset with TLR.  Run-Test/Idle and
\* Pause-DR are held for five more cycles.
JTAG_set_tap_state(s) ==
    LET moved == IF sw_mode
                 THEN set_tap_state_sw(Tap, Chain.tap_state, s, s = "TLR")
                 ELSE set_tap_state_hw2(Tap, s = "TLR")
    IN  /\ opened
        /\ chains' = [chains EXCEPT ![active_chain].tap_state = s]
        /\ current_state' = IF sw_mode \/ s = "TLR" THEN s ELSE current_state
        /\ reset_done' = reset_done \cup (IF s = "TLR" THEN {active_chain} ELSE {})
        /\ Touch(IF s \in {"RTI", "PauDR"} THEN Walk(moved, Repeat(0, 5)) ELSE moved,
                 ideal_move(Ideal, s),
                 IF s = "TLR" THEN Chain.scan_state = "Done"
                 ELSE /\ active_chain \in in_step /\ ~ Ideal.open
                      /\ sw_mode \/ hw_move(Chain.tap_state, s))
        /\ UNCHANGED <<opened, sw_mode, active_chain>>

\* JTAG_wait_cycles, called from the states its comment allows.
JTAG_wait_cycles(n) ==
    /\ opened /\ Chain.tap_state \in {"RTI"} \cup PauseStates
    /\ Touch(Walk(Tap, Repeat(0, n)), Ideal, active_chain \in in_step)
    /\ UNCHANGED <<opened, sw_mode, active_chain, chains, current_state, reset_done>>

\* asd_write_set_active_chain_event: the TCK mux, then JTAG_set_active_chain.
\* The driver is not told.
JTAG_set_active_chain(c) ==
    /\ opened /\ c # active_chain
    /\ active_chain' = c
    /\ in_step' = IF sw_mode \/ current_state \in {"TLR", "RTI"} THEN in_step
                  ELSE in_step \ {active_chain, c}
    /\ ideal' = [d \in Chains |-> IF d \in in_step' THEN ideal[d] ELSE NewIdeal]
    /\ tap' = [d \in Chains |-> IF d \in in_step' THEN tap[d] ELSE Forget(tap[d])]
    /\ UNCHANGED <<opened, sw_mode, chains, current_state, reset_done>>

\* Mutant: the prefix of a scan is sent before each of its pieces.
first_piece_always(ch) == TRUE

\* The piece is the first of its scan.
first_piece(ch) == ch.scan_state = "Done"

\* Mutant: the end state is noted before the transfer.
tap_state_after_early(shift, end, ok) == end

\* perform_shift and JTAG_shift_hw note the end state of a transfer that went
\* well.
tap_state_after(shift, end, ok) == IF ok THEN end ELSE shift

\* JTAG_shift in software mode: up to three transfers, any of which may fail
\* and end the operation where it is.
JTAG_shift(length, end, failed) ==
    LET shift == Chain.tap_state
        last == end # shift
        pre == IF first_piece(Chain) THEN prefix(Chain) ELSE 0
        post == IF last THEN postfix(Chain) ELSE 0
        Stay(t, bits) == xfer_sw(t, shift, bits, shift)
        padded == Stay(Tap, Repeat("pad", pre))
        filled == Stay(padded, Repeat("data", length))
        shifted == CASE failed = "prefix"  -> Tap
                     [] failed = "data"    -> padded
                     [] failed = "postfix" -> filled
                     [] failed = "no" /\ post > 0 ->
                            xfer_sw(filled, shift, Repeat("pad", post), end)
                     [] OTHER -> xfer_sw(padded, shift, Repeat("data", length), end)
        done == IF failed = "no" THEN last ELSE failed # "prefix" /\ post > 0
    IN  /\ opened /\ sw_mode /\ shift \in ShiftStates
        /\ (failed = "prefix") => pre > 0
        /\ (failed = "postfix") => post > 0
        /\ Len(Ideal.tap.bits) + pre + length + post <= HISTORY_MAX
        /\ chains' = [chains EXCEPT
               ![active_chain].scan_state = IF done THEN "Done" ELSE "Run",
               ![active_chain].tap_state = tap_state_after(shift, end, failed = "no")]
        /\ current_state' = IF failed = "no" THEN end ELSE shift
        /\ Touch(shifted, ideal_scan(Ideal, Chain, length, end),
                 failed = "no" /\ active_chain \in in_step)
        /\ UNCHANGED <<opened, sw_mode, active_chain, reset_done>>

\* JTAG_shift_hw: one transfer, which the driver may refuse.
JTAG_shift_hw(length, end, failed) ==
    LET shift == Chain.tap_state
        pre == IF first_piece(Chain) THEN prefix(Chain) ELSE 0
        post == IF end # shift THEN postfix(Chain) ELSE 0
        ok == ~ failed /\ xfer_hw2_ok(shift, end)
    IN  /\ opened /\ ~ sw_mode /\ shift \in ShiftStates
        /\ Len(Ideal.tap.bits) + pre + length + post <= HISTORY_MAX
        /\ chains' = [chains EXCEPT
               ![active_chain].scan_state = IF end = shift THEN "Run" ELSE "Done",
               ![active_chain].tap_state = tap_state_after(shift, end, ok)]
        /\ current_state' = IF ok THEN hw2_endstate(shift, length, end)
                            ELSE current_state
        /\ Touch(IF ok THEN xfer_hw2(Tap, shift, pre, length, post, end) ELSE Tap,
                 ideal_scan(Ideal, Chain, length, end),
                 ok /\ active_chain \in in_step /\ end # Exit1(shift))
        /\ UNCHANGED <<opened, sw_mode, active_chain, reset_done>>

Init ==
    /\ opened = FALSE /\ sw_mode = TRUE /\ active_chain = SCAN_CHAIN_0
    /\ chains = [c \in Chains |-> FreshChain]
    /\ current_state = "TLR"
    /\ tap = [c \in Chains |-> NewTap]
    /\ reset_done = {} /\ in_step = {}
    /\ ideal = [c \in Chains |-> NewIdeal]

Next ==
    \/ \E sw \in BOOLEAN : JTAG_initialize(sw)
    \/ JTAG_deinitialize
    \/ \E p \in PaddingTypes, v \in PadValues : JTAG_set_padding(p, v)
    \/ \E s \in Goals : JTAG_set_tap_state(s)
    \/ \E n \in Lengths : JTAG_wait_cycles(n)
    \/ \E c \in Chains : JTAG_set_active_chain(c)
    \/ \E n \in Lengths, e \in Goals, f \in {"no", "prefix", "data", "postfix"} :
           JTAG_shift(n, e, f)
    \/ \E n \in Lengths, e \in Goals, f \in BOOLEAN : JTAG_shift_hw(n, e, f)

Spec == Init /\ [][Next]_vars

(***************************************************************************)
(* Correctness.                                                            *)
(***************************************************************************)
\* The variables have their types, and a padding fits the buffer its bits are
\* taken from.
TypeOK ==
    /\ opened \in BOOLEAN /\ sw_mode \in BOOLEAN /\ active_chain \in Chains
    /\ chains \in [Chains -> [padding : [PaddingTypes -> Nat],
                              tap_state : TapStates, scan_state : {"Run", "Done"}]]
    /\ current_state \in TapStates
    /\ in_step \subseteq reset_done /\ reset_done \subseteq Chains
    /\ \A c \in Chains :
           /\ tap[c].state \in TapStates /\ Len(tap[c].bits) <= HISTORY_MAX
           /\ Len(ideal[c].tap.bits) <= HISTORY_MAX
           /\ \A p \in PaddingTypes : chains[c].padding[p] <= MaxPad(p)

\* In software mode the handler's tap_state is the state of the TAP on every
\* chain that has been reset for this client, whatever the client asked for
\* and whichever transfer of a scan failed, for every path of the driver's
\* table of TMS cycles.
TapTracked ==
    opened /\ sw_mode => \A c \in reset_done : tap[c].state = chains[c].tap_state

\* In hardware mode the driver knows the TAP of a chain used as supported
\* (TLR and RTI lead to Shift alike), so it starts the next scan from where
\* the TAP is, also after the workaround for a single bit, and refuses none
\* that the client may ask for.  A scan is one chunk of the driver here.
DriverTracksTap ==
    opened /\ ~ sw_mode /\ active_chain \in in_step =>
        /\ \/ current_state = tap[active_chain].state
           \/ {current_state, tap[active_chain].state} \subseteq {"TLR", "RTI"}
        /\ Chain.tap_state \in ShiftStates =>
               \A e \in {Chain.tap_state, "RTI", Pause(Chain.tap_state)} :
                   xfer_hw2_ok(Chain.tap_state, e)

\* What a register is updated with is what the client has sent, in both
\* modes: the prefix once, the data of all the pieces of the scan without a
\* gap, the postfix once, and nothing else; and a register is updated by the
\* operations the client means to update it.
UpdatesAsAsked == \A c \in in_step : tap[c].updates = ideal[c].tap.updates

=============================================================================
