------------------------------ MODULE JtagTap ------------------------------
(***************************************************************************)
(* The test access port of the debugged target and the table of TMS        *)
(* sequences the JTAG kernel driver moves it with (jtag.h).                *)
(*                                                                         *)
(* A TAP is its controller state, the bits shifted into the selected       *)
(* register since the last Capture, and the registers it has updated since *)
(* a moment chosen by the user of the module.  A bit is its origin: what a *)
(* scan carries is "data", what bypasses the other devices of the chain is *)
(* "pad", and a bit nobody asked for is "stray".                           *)
(***************************************************************************)
EXTENDS Integers, Sequences

CONSTANT HISTORY_MAX     \* bound: bits remembered since the last Capture

ASSUME HistoryMaxAssumption == HISTORY_MAX \in Nat \ {0}

\* enum jtag_tapstate, in the order of its values.
TapStateSeq == <<"TLR", "RTI", "SelDR", "CapDR", "ShDR", "Ex1DR", "PauDR",
                 "Ex2DR", "UpdDR", "SelIR", "CapIR", "ShIR", "Ex1IR",
                 "PauIR", "Ex2IR", "UpdIR">>
TapStates == {TapStateSeq[i] : i \in 1 .. 16}
Value(s) == CHOOSE i \in 1 .. 16 : TapStateSeq[i] = s
ShiftStates == {"ShDR", "ShIR"}
PauseStates == {"PauDR", "PauIR"}

\* The TAP controller of IEEE 1149.1: a clock with TMS low and one with TMS
\* high.
OnLow == [TLR |-> "RTI", RTI |-> "RTI",
          SelDR |-> "CapDR", CapDR |-> "ShDR", ShDR |-> "ShDR", Ex1DR |-> "PauDR",
          PauDR |-> "PauDR", Ex2DR |-> "ShDR", UpdDR |-> "RTI",
          SelIR |-> "CapIR", CapIR |-> "ShIR", ShIR |-> "ShIR", Ex1IR |-> "PauIR",
          PauIR |-> "PauIR", Ex2IR |-> "ShIR", UpdIR |-> "RTI"]
OnHigh == [TLR |-> "TLR", RTI |-> "SelDR",
           SelDR |-> "SelIR", CapDR |-> "Ex1DR", ShDR |-> "Ex1DR", Ex1DR |-> "UpdDR",
           PauDR |-> "Ex2DR", Ex2DR |-> "UpdDR", UpdDR |-> "SelDR",
           SelIR |-> "TLR", CapIR |-> "Ex1IR", ShIR |-> "Ex1IR", Ex1IR |-> "UpdIR",
           PauIR |-> "Ex2IR", Ex2IR |-> "UpdIR", UpdIR |-> "SelDR"]
TapNext(s, tms) == IF tms = 1 THEN OnHigh[s] ELSE OnLow[s]

Bits == {"data", "pad", "stray"}

\* One TCK cycle.  A bit is taken in on every clock that finds the TAP in a
\* Shift state, the one that leaves it included.
Clock(t, tms, bit) ==
    LET s == TapNext(t.state, tms)
        shifted == IF t.state \in ShiftStates /\ Len(t.bits) < HISTORY_MAX
                   THEN Append(t.bits, bit) ELSE t.bits
    IN  [state   |-> s,
         bits    |-> IF s \in {"TLR", "CapDR", "CapIR", "UpdDR", "UpdIR"}
                     THEN <<>> ELSE shifted,
         updates |-> CASE s \in {"UpdDR", "UpdIR"} ->
                              Append(t.updates, <<s, shifted>>)
                       [] s = "TLR" -> <<>>
                       [] OTHER -> t.updates]

\* Cycles, given as the sequence of their TMS and of their bits.
Clocks(t, tms, bits) ==
    LET run[i \in 0 .. Len(tms)] ==
            IF i = 0 THEN t ELSE Clock(run[i - 1], tms[i], bits[i])
    IN  run[Len(tms)]

Repeat(x, n) == [i \in 1 .. n |-> x]

\* Cycles that are not meant to carry data.
Walk(t, tms) == Clocks(t, tms, Repeat("stray", Len(tms)))

\* _tms_cycle_lookup: for each state and each state to go to the TMS bits,
\* the first one in bit 0, and their number.
tms_cycle_lookup == <<
  << <<0,0>>, <<0,1>>, <<2,2>>, <<2,3>>, <<2,4>>, <<10,4>>, <<10,5>>, <<42,6>>,
     <<26,5>>, <<6,3>>, <<6,4>>, <<6,5>>, <<22,5>>, <<22,6>>, <<86,7>>, <<54,6>> >>,
  << <<7,3>>, <<0,0>>, <<1,1>>, <<1,2>>, <<1,3>>, <<5,3>>, <<5,4>>, <<21,5>>,
     <<13,4>>, <<3,2>>, <<3,3>>, <<3,4>>, <<11,4>>, <<11,5>>, <<43,6>>, <<27,5>> >>,
  << <<3,2>>, <<3,3>>, <<0,0>>, <<0,1>>, <<0,2>>, <<2,2>>, <<2,3>>, <<10,4>>,
     <<6,3>>, <<1,1>>, <<1,2>>, <<1,3>>, <<5,3>>, <<5,4>>, <<21,5>>, <<13,4>> >>,
  << <<31,5>>, <<3,3>>, <<7,3>>, <<0,0>>, <<0,1>>, <<1,1>>, <<1,2>>, <<5,3>>,
     <<3,2>>, <<15,4>>, <<15,5>>, <<15,6>>, <<47,6>>, <<47,7>>, <<175,8>>, <<111,7>> >>,
  << <<31,5>>, <<3,3>>, <<7,3>>, <<7,4>>, <<0,0>>, <<1,1>>, <<1,2>>, <<5,3>>,
     <<3,2>>, <<15,4>>, <<15,5>>, <<15,6>>, <<47,6>>, <<47,7>>, <<175,8>>, <<111,7>> >>,
  << <<15,4>>, <<1,2>>, <<3,2>>, <<3,3>>, <<2,3>>, <<0,0>>, <<0,1>>, <<2,2>>,
     <<1,1>>, <<7,3>>, <<7,4>>, <<7,5>>, <<23,5>>, <<23,6>>, <<87,7>>, <<55,6>> >>,
  << <<31,5>>, <<3,3>>, <<7,3>>, <<7,4>>, <<1,2>>, <<5,3>>, <<0,0>>, <<1,1>>,
     <<3,2>>, <<15,4>>, <<15,5>>, <<15,6>>, <<47,6>>, <<47,7>>, <<175,8>>, <<111,7>> >>,
  << <<15,4>>, <<1,2>>, <<3,2>>, <<3,3>>, <<0,1>>, <<2,2>>, <<2,3>>, <<0,0>>,
     <<1,1>>, <<7,3>>, <<7,4>>, <<7,5>>, <<23,5>>, <<23,6>>, <<87,7>>, <<55,6>> >>,
  << <<7,3>>, <<0,1>>, <<1,1>>, <<1,2>>, <<1,3>>, <<5,3>>, <<5,4>>, <<21,5>>,
     <<0,0>>, <<3,2>>, <<3,3>>, <<3,4>>, <<11,4>>, <<11,5>>, <<43,6>>, <<27,5>> >>,
  << <<1,1>>, <<1,2>>, <<5,3>>, <<5,4>>, <<5,5>>, <<21,5>>, <<21,6>>, <<85,7>>,
     <<53,6>>, <<0,0>>, <<0,1>>, <<0,2>>, <<2,2>>, <<2,3>>, <<10,4>>, <<6,3>> >>,
  << <<31,5>>, <<3,3>>, <<7,3>>, <<7,4>>, <<7,5>>, <<23,5>>, <<23,6>>, <<87,7>>,
     <<55,6>>, <<15,4>>, <<0,0>>, <<0,1>>, <<1,1>>, <<1,2>>, <<5,3>>, <<3,2>> >>,
  << <<31,5>>, <<3,3>>, <<7,3>>, <<7,4>>, <<7,5>>, <<23,5>>, <<23,6>>, <<87,7>>,
     <<55,6>>, <<15,4>>, <<15,5>>, <<0,0>>, <<1,1>>, <<1,2>>, <<5,3>>, <<3,2>> >>,
  << <<15,4>>, <<1,2>>, <<3,2>>, <<3,3>>, <<3,4>>, <<11,4>>, <<11,5>>, <<43,6>>,
     <<27,5>>, <<7,3>>, <<7,4>>, <<2,3>>, <<0,0>>, <<0,1>>, <<2,2>>, <<1,1>> >>,
  << <<31,5>>, <<3,3>>, <<7,3>>, <<7,4>>, <<7,5>>, <<23,5>>, <<23,6>>, <<87,7>>,
     <<55,6>>, <<15,4>>, <<15,5>>, <<1,2>>, <<5,3>>, <<0,0>>, <<1,1>>, <<3,2>> >>,
  << <<15,4>>, <<1,2>>, <<3,2>>, <<3,3>>, <<3,4>>, <<11,4>>, <<11,5>>, <<43,6>>,
     <<27,5>>, <<7,3>>, <<7,4>>, <<0,1>>, <<2,2>>, <<2,3>>, <<0,0>>, <<1,1>> >>,
  << <<7,3>>, <<0,1>>, <<1,1>>, <<1,2>>, <<1,3>>, <<5,3>>, <<5,4>>, <<21,5>>,
     <<13,4>>, <<3,2>>, <<3,3>>, <<3,4>>, <<11,4>>, <<11,5>>, <<43,6>>, <<0,0>> >>
>>

\* The TMS values that lead from one state to another.
TmsPath(from, to) ==
    LET e == tms_cycle_lookup[Value(from)][Value(to)]
    IN  [i \in 1 .. e[2] |-> (e[1] \div 2 ^ (i - 1)) % 2]

\* The states that at most n cycles lead to.
Within(from, n) ==
    LET reach[i \in Nat] ==
            IF i = 0 THEN {from}
            ELSE reach[i - 1] \cup {TapNext(s, b) : s \in reach[i - 1], b \in {0, 1}}
    IN  IF n < 0 THEN {} ELSE reach[n]

=============================================================================
