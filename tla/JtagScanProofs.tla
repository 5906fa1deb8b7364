--------------------------- MODULE JtagScanProofs ---------------------------
(***************************************************************************)
(* Proofs about the JTAG handler and its driver, for any number of chains, *)
(* any states, lengths and padding sizes a client asks for and any bound   *)
(* on the bits remembered: the handler and the driver know where the TAP   *)
(* is, and a register is updated with what the client has sent.            *)
(***************************************************************************)
EXTENDS JtagScan, SequenceTheorems, WellFoundedInduction, TLAPS

-------------------------------------------------------------------------------
(* Induction over the numbers of an interval.                              *)

\* A non-empty set of natural numbers has a least element.
LEMMA LeastNat ==
  ASSUME NEW T, T \subseteq Nat, T # {}
  PROVE  \E i \in T : \A j \in T : i =< j
<1>1. PICK i \in T : \A j \in T : ~ (<<j, i>> \in OpToRel(<, Nat))
  BY NatLessThanWellFounded, WFMin
<1>2. \A j \in T : ~ (j < i)
  BY <1>1 DEF OpToRel
<1>. QED
  BY <1>2

\* A set that holds 0 and, with k, also k + 1 holds the whole interval.
LEMMA IntervalInduction ==
  ASSUME NEW N \in Nat, NEW G, 0 \in G,
         \A k \in 0 .. (N - 1) : k \in G => k + 1 \in G
  PROVE  0 .. N \subseteq G
<1> DEFINE T == (0 .. N) \ G
<1>. SUFFICES ASSUME T # {} PROVE FALSE
  OBVIOUS
<1>1. T \subseteq Nat
  OBVIOUS
<1> HIDE DEF T
<1>2. PICK k \in T : \A j \in T : k =< j
  BY <1>1, LeastNat
<1> USE DEF T
<1>3. k \in 1 .. N /\ k - 1 \in 0 .. (N - 1)
  BY <1>2
<1>4. k - 1 \in G
  BY <1>2, <1>3
<1>5. (k - 1) + 1 = k
  BY <1>3
<1>. QED
  BY <1>2, <1>3, <1>4, <1>5

-------------------------------------------------------------------------------
(* Cycles, one at a time.                                                  *)

RunBody(t, tms, bits, f, i) ==
    IF i = 0 THEN t ELSE Clock(f[i - 1], tms[i], bits[i])

IsRun(t, tms, bits, f, k) == f = [i \in 0 .. k |-> RunBody(t, tms, bits, f, i)]

\* The recursion of Clocks has a solution.
LEMMA RunExists ==
  ASSUME NEW t, NEW tms, NEW bits, NEW N \in Nat
  PROVE  \E f : IsRun(t, tms, bits, f, N)
<1> DEFINE G == {k \in 0 .. N : \E f : IsRun(t, tms, bits, f, k)}
<1>1. 0 \in G
  <2>1. \A n \in 0 .. 0 : RunBody(t, tms, bits, [m \in 0 .. 0 |-> t], n) = t
    BY DEF RunBody
  <2>2. IsRun(t, tms, bits, [m \in 0 .. 0 |-> t], 0)
    BY <2>1 DEF IsRun
  <2>. QED
    BY <2>2
<1>2. ASSUME NEW k \in 0 .. (N - 1), k \in G PROVE k + 1 \in G
  <2>1. PICK g : IsRun(t, tms, bits, g, k)
    BY <1>2
  <2> DEFINE h == [n \in 0 .. (k + 1) |->
                      IF n = k + 1 THEN RunBody(t, tms, bits, g, k + 1) ELSE g[n]]
  <2>2. \A n \in 0 .. k : h[n] = g[n] /\ g[n] = RunBody(t, tms, bits, g, n)
    <3>1. \A n \in 0 .. k : n \in 0 .. (k + 1) /\ n # k + 1
      OBVIOUS
    <3>2. \A n \in 0 .. k : g[n] = RunBody(t, tms, bits, g, n)
      BY <2>1 DEF IsRun
    <3>. QED
      BY <3>1, <3>2
  <2>3. h[k + 1] = RunBody(t, tms, bits, g, k + 1)
    OBVIOUS
  <2>4. h = [n \in 0 .. (k + 1) |-> h[n]]
    OBVIOUS
  <2> HIDE DEF h
  <2>5. \A n \in 0 .. (k + 1) : n # 0 => n - 1 \in 0 .. k
    OBVIOUS
  <2>6. \A n \in 0 .. (k + 1) : RunBody(t, tms, bits, h, n) = RunBody(t, tms, bits, g, n)
    BY <2>2, <2>5 DEF RunBody
  <2>7. \A n \in 0 .. (k + 1) : h[n] = RunBody(t, tms, bits, h, n)
    BY <2>2, <2>3, <2>6
  <2>8. IsRun(t, tms, bits, h, k + 1)
    BY <2>4, <2>7 DEF IsRun
  <2>. QED
    BY <2>8
<1> HIDE DEF G
<1>3. 0 .. N \subseteq G
  BY <1>1, <1>2, IntervalInduction
<1>. QED
  BY <1>3 DEF G

\* The TAP after each of the cycles.
Run(t, tms, bits) == CHOOSE f : IsRun(t, tms, bits, f, Len(tms))

\* Each cycle starts where the one before it has ended, and Clocks returns the
\* end of the last.
LEMMA RunSteps ==
  ASSUME NEW t, NEW tms, NEW bits, Len(tms) \in Nat
  PROVE  /\ Run(t, tms, bits)[0] = t
         /\ \A k \in 0 .. (Len(tms) - 1) :
                Run(t, tms, bits)[k + 1] = Clock(Run(t, tms, bits)[k], tms[k + 1], bits[k + 1])
         /\ Clocks(t, tms, bits) = Run(t, tms, bits)[Len(tms)]
<1> DEFINE f == Run(t, tms, bits)
<1>1. IsRun(t, tms, bits, f, Len(tms))
  BY RunExists DEF Run
<1>2. Clocks(t, tms, bits) = f[Len(tms)]
  BY Zenon DEF Clocks, Run, IsRun, RunBody
<1> HIDE DEF f
<1>3. \A n \in 0 .. Len(tms) : f[n] = RunBody(t, tms, bits, f, n)
  BY <1>1 DEF IsRun
<1>4. f[0] = t
  BY <1>3 DEF RunBody
<1>5. ASSUME NEW k \in 0 .. (Len(tms) - 1)
      PROVE  f[k + 1] = Clock(f[k], tms[k + 1], bits[k + 1])
  <2>1. k + 1 \in 0 .. Len(tms) /\ k + 1 # 0 /\ (k + 1) - 1 = k
    OBVIOUS
  <2>. QED
    BY <1>3, <2>1 DEF RunBody
<1>. QED
  BY <1>2, <1>4, <1>5 DEF f

\* The same, to be taken as a whole.
IsWalk(f, t, tms, bits) ==
  /\ f[0] = t
  /\ \A k \in 0 .. (Len(tms) - 1) : f[k + 1] = Clock(f[k], tms[k + 1], bits[k + 1])
  /\ Clocks(t, tms, bits) = f[Len(tms)]

\* Clocks runs through the states it is said to run through.
LEMMA RunIsWalk ==
  ASSUME NEW t, NEW tms, NEW bits, Len(tms) \in Nat
  PROVE  IsWalk(Run(t, tms, bits), t, tms, bits)
BY RunSteps DEF IsWalk

\* What the cycles keep holds at their end.
LEMMA RunInduction ==
  ASSUME NEW t, NEW tms, NEW bits, Len(tms) \in Nat, NEW P, t \in P,
         \A u \in P : \A k \in 1 .. Len(tms) : Clock(u, tms[k], bits[k]) \in P
  PROVE  Clocks(t, tms, bits) \in P
<1> DEFINE f == Run(t, tms, bits)
           G == {k \in 0 .. Len(tms) : f[k] \in P}
<1>1. 0 \in G
  BY RunSteps
<1>2. ASSUME NEW k \in 0 .. (Len(tms) - 1), k \in G PROVE k + 1 \in G
  <2>1. k + 1 \in 1 .. Len(tms) /\ k + 1 \in 0 .. Len(tms)
    OBVIOUS
  <2>2. f[k + 1] = Clock(f[k], tms[k + 1], bits[k + 1])
    BY RunSteps
  <2>3. f[k + 1] \in P
    BY <1>2, <2>1, <2>2
  <2>. QED
    BY <2>1, <2>3
<1> HIDE DEF G
<1>3. 0 .. Len(tms) \subseteq G
  BY <1>1, <1>2, IntervalInduction
<1>4. Len(tms) \in 0 .. Len(tms)
  OBVIOUS
<1>5. f[Len(tms)] \in P
  BY <1>3, <1>4 DEF G
<1>. QED
  BY <1>5, RunSteps

-------------------------------------------------------------------------------
(* What a TAP is, and what cycles do to any TAP.                           *)

Registers == {"UpdDR", "UpdIR"}
UpdateSeqs == Seq(Registers \X Seq(Bits))
Taps == {t \in [state : TapStates, bits : Seq(Bits), updates : UpdateSeqs] :
            Len(t.bits) <= HISTORY_MAX}

\* The states, spelled out.
LEMMA StatesAre ==
  TapStates = {"TLR", "RTI", "SelDR", "CapDR", "ShDR", "Ex1DR", "PauDR", "Ex2DR", "UpdDR",
               "SelIR", "CapIR", "ShIR", "Ex1IR", "PauIR", "Ex2IR", "UpdIR"}
<1>1. TapStateSeq = <<TapStateSeq[1], TapStateSeq[2], TapStateSeq[3], TapStateSeq[4],
                      TapStateSeq[5], TapStateSeq[6], TapStateSeq[7], TapStateSeq[8],
                      TapStateSeq[9], TapStateSeq[10], TapStateSeq[11], TapStateSeq[12],
                      TapStateSeq[13], TapStateSeq[14], TapStateSeq[15], TapStateSeq[16]>>
  BY DEF TapStateSeq
<1>. QED
  BY DEF TapStates, TapStateSeq

\* A TAP is the record of its three parts.
LEMMA TapParts ==
  ASSUME NEW t \in Taps
  PROVE  /\ t.state \in TapStates
         /\ t.bits \in Seq(Bits) /\ Len(t.bits) \in Nat /\ Len(t.bits) <= HISTORY_MAX
         /\ t.updates \in UpdateSeqs
         /\ t = [state |-> t.state, bits |-> t.bits, updates |-> t.updates]
BY DEF Taps

\* Three parts make a TAP.
LEMMA TapMade ==
  ASSUME NEW s \in TapStates, NEW b \in Seq(Bits), Len(b) <= HISTORY_MAX,
         NEW u \in UpdateSeqs
  PROVE  [state |-> s, bits |-> b, updates |-> u] \in Taps
BY DEF Taps

\* The controller stays within its states.
LEMMA NextState ==
  ASSUME NEW s \in TapStates, NEW m
  PROVE  TapNext(s, m) \in TapStates
BY StatesAre DEF TapNext, OnHigh, OnLow

\* What a cycle makes of the bits if it does not clear them.
Shifted(t, x) ==
    IF t.state \in ShiftStates /\ Len(t.bits) < HISTORY_MAX
    THEN Append(t.bits, x) ELSE t.bits

\* What a cycle into v leaves of them, and of the updates.
Kept(v, shifted) == IF v \in {"TLR", "CapDR", "CapIR", "UpdDR", "UpdIR"} THEN << >> ELSE shifted
Updated(t, v, shifted) ==
    CASE v \in {"UpdDR", "UpdIR"} -> Append(t.updates, <<v, shifted>>)
      [] v = "TLR" -> << >>
      [] OTHER -> t.updates

\* One cycle: the state, the bits and the updates it leaves.
LEMMA ClockIs ==
  ASSUME NEW t, NEW m, NEW x
  PROVE  Clock(t, m, x) = [state |-> TapNext(t.state, m),
                           bits |-> Kept(TapNext(t.state, m), Shifted(t, x)),
                           updates |-> Updated(t, TapNext(t.state, m), Shifted(t, x))]
<1> DEFINE s == TapNext(t.state, m)
           shifted == IF t.state \in ShiftStates /\ Len(t.bits) < HISTORY_MAX
                      THEN Append(t.bits, x) ELSE t.bits
           kept == IF s \in {"TLR", "CapDR", "CapIR", "UpdDR", "UpdIR"} THEN << >> ELSE shifted
           updated == CASE s \in {"UpdDR", "UpdIR"} -> Append(t.updates, <<s, shifted>>)
                        [] s = "TLR" -> << >>
                        [] OTHER -> t.updates
<1>1. Clock(t, m, x) = [state |-> s, bits |-> kept, updates |-> updated]
  BY DEF Clock
<1>2. shifted = Shifted(t, x)
  BY Zenon DEF Shifted
<1> HIDE DEF shifted
<1>3. kept = Kept(s, shifted)
  BY DEF Kept
<1>4. updated = Updated(t, s, shifted)
  BY Zenon DEF Updated
<1> HIDE DEF kept, updated
<1>. QED
  BY <1>1, <1>2, <1>3, <1>4

\* The state after a cycle.
LEMMA ClockState ==
  ASSUME NEW t, NEW m, NEW x
  PROVE  Clock(t, m, x).state = TapNext(t.state, m)
BY ClockIs

\* A cycle leads from a TAP to a TAP, within the bits remembered.
LEMMA ClockType ==
  ASSUME NEW t \in Taps, NEW m, NEW b \in Bits
  PROVE  Clock(t, m, b) \in Taps
<1> DEFINE s == TapNext(t.state, m)
           shifted == IF t.state \in ShiftStates /\ Len(t.bits) < HISTORY_MAX
                      THEN Append(t.bits, b) ELSE t.bits
           kept == IF s \in {"TLR", "CapDR", "CapIR", "UpdDR", "UpdIR"} THEN << >> ELSE shifted
           updated == CASE s \in {"UpdDR", "UpdIR"} -> Append(t.updates, <<s, shifted>>)
                        [] s = "TLR" -> << >>
                        [] OTHER -> t.updates
<1>1. s \in TapStates
  BY TapParts, NextState
<1>2. shifted \in Seq(Bits) /\ Len(shifted) <= HISTORY_MAX
  BY TapParts, HistoryMaxAssumption
<1>3. kept \in Seq(Bits) /\ Len(kept) <= HISTORY_MAX
  BY <1>2, HistoryMaxAssumption
<1>4. updated \in UpdateSeqs
  <2>1. CASE s \in {"UpdDR", "UpdIR"}
    <3>1. <<s, shifted>> \in Registers \X Seq(Bits)
      BY <1>2, <2>1 DEF Registers
    <3>2. Append(t.updates, <<s, shifted>>) \in UpdateSeqs
      BY <3>1, TapParts DEF UpdateSeqs
    <3>. QED
      BY <2>1, <3>2
  <2>2. CASE s \notin {"UpdDR", "UpdIR"}
    BY <2>2, TapParts DEF UpdateSeqs
  <2>. QED
    BY <2>1, <2>2
<1>5. Clock(t, m, b) = [state |-> s, bits |-> kept, updates |-> updated]
  BY DEF Clock
<1> HIDE DEF s, kept, updated
<1>. QED
  BY <1>1, <1>3, <1>4, <1>5, TapMade

\* So do any cycles.
LEMMA ClocksType ==
  ASSUME NEW t \in Taps, NEW tms, Len(tms) \in Nat, NEW bits,
         \A k \in 1 .. Len(tms) : bits[k] \in Bits
  PROVE  Clocks(t, tms, bits) \in Taps
<1>1. \A u \in Taps : \A k \in 1 .. Len(tms) : Clock(u, tms[k], bits[k]) \in Taps
  BY ClockType
<1>. QED
  BY <1>1, RunInduction

\* No cycle, no change.
LEMMA NoClocks ==
  ASSUME NEW t, NEW tms, NEW bits, Len(tms) = 0
  PROVE  Clocks(t, tms, bits) = t
BY RunSteps

\* Where cycles lead depends on where they start and on TMS alone.
LEMMA SameStates ==
  ASSUME NEW t, NEW u, t.state = u.state, NEW tms, Len(tms) \in Nat, NEW b, NEW c
  PROVE  Clocks(t, tms, b).state = Clocks(u, tms, c).state
<1> DEFINE f == Run(t, tms, b)
           g == Run(u, tms, c)
           G == {k \in 0 .. Len(tms) : f[k].state = g[k].state}
<1>1. 0 \in G
  BY RunSteps
<1>2. ASSUME NEW k \in 0 .. (Len(tms) - 1), k \in G PROVE k + 1 \in G
  <2>1. /\ f[k + 1] = Clock(f[k], tms[k + 1], b[k + 1])
        /\ g[k + 1] = Clock(g[k], tms[k + 1], c[k + 1])
    BY RunSteps
  <2> HIDE DEF f, g
  <2>2. f[k + 1].state = g[k + 1].state
    BY <1>2, <2>1 DEF Clock
  <2>. QED
    BY <2>2
<1> HIDE DEF G
<1>3. 0 .. Len(tms) \subseteq G
  BY <1>1, <1>2, IntervalInduction
<1>4. Len(tms) \in 0 .. Len(tms)
  OBVIOUS
<1>5. f[Len(tms)].state = g[Len(tms)].state
  BY <1>3, <1>4 DEF G
<1>. QED
  BY <1>5, RunSteps

-------------------------------------------------------------------------------
(* The table of TMS sequences.                                             *)

\* The place of each state in the table.
LEMMA Values ==
  /\ Value("TLR") = 1 /\ Value("RTI") = 2 /\ Value("SelDR") = 3 /\ Value("CapDR") = 4
  /\ Value("ShDR") = 5 /\ Value("Ex1DR") = 6 /\ Value("PauDR") = 7 /\ Value("Ex2DR") = 8
  /\ Value("UpdDR") = 9 /\ Value("SelIR") = 10 /\ Value("CapIR") = 11 /\ Value("ShIR") = 12
  /\ Value("Ex1IR") = 13 /\ Value("PauIR") = 14 /\ Value("Ex2IR") = 15 /\ Value("UpdIR") = 16
<1>1. Value("TLR") = 1 /\ Value("RTI") = 2 /\ Value("SelDR") = 3 /\ Value("CapDR") = 4
  BY DEF Value, TapStateSeq
<1>2. Value("ShDR") = 5 /\ Value("Ex1DR") = 6 /\ Value("PauDR") = 7 /\ Value("Ex2DR") = 8
  BY DEF Value, TapStateSeq
<1>3. Value("UpdDR") = 9 /\ Value("SelIR") = 10 /\ Value("CapIR") = 11 /\ Value("ShIR") = 12
  BY DEF Value, TapStateSeq
<1>4. Value("Ex1IR") = 13 /\ Value("PauIR") = 14 /\ Value("Ex2IR") = 15 /\ Value("UpdIR") = 16
  BY DEF Value, TapStateSeq
<1>. QED
  BY <1>1, <1>2, <1>3, <1>4

\* Every entry of the table is two natural numbers.
LEMMA TableType ==
  \A i, j \in 1 .. 16 : tms_cycle_lookup[i][j] \in Nat \X Nat
<1>1. \A j \in 1 .. 16 : tms_cycle_lookup[1][j] \in Nat \X Nat
  BY DEF tms_cycle_lookup
<1>2. \A j \in 1 .. 16 : tms_cycle_lookup[2][j] \in Nat \X Nat
  BY DEF tms_cycle_lookup
<1>3. \A j \in 1 .. 16 : tms_cycle_lookup[3][j] \in Nat \X Nat
  BY DEF tms_cycle_lookup
<1>4. \A j \in 1 .. 16 : tms_cycle_lookup[4][j] \in Nat \X Nat
  BY DEF tms_cycle_lookup
<1>5. \A j \in 1 .. 16 : tms_cycle_lookup[5][j] \in Nat \X Nat
  BY DEF tms_cycle_lookup
<1>6. \A j \in 1 .. 16 : tms_cycle_lookup[6][j] \in Nat \X Nat
  BY DEF tms_cycle_lookup
<1>7. \A j \in 1 .. 16 : tms_cycle_lookup[7][j] \in Nat \X Nat
  BY DEF tms_cycle_lookup
<1>8. \A j \in 1 .. 16 : tms_cycle_lookup[8][j] \in Nat \X Nat
  BY DEF tms_cycle_lookup
<1>9. \A j \in 1 .. 16 : tms_cycle_lookup[9][j] \in Nat \X Nat
  BY DEF tms_cycle_lookup
<1>10. \A j \in 1 .. 16 : tms_cycle_lookup[10][j] \in Nat \X Nat
  BY DEF tms_cycle_lookup
<1>11. \A j \in 1 .. 16 : tms_cycle_lookup[11][j] \in Nat \X Nat
  BY DEF tms_cycle_lookup
<1>12. \A j \in 1 .. 16 : tms_cycle_lookup[12][j] \in Nat \X Nat
  BY DEF tms_cycle_lookup
<1>13. \A j \in 1 .. 16 : tms_cycle_lookup[13][j] \in Nat \X Nat
  BY DEF tms_cycle_lookup
<1>14. \A j \in 1 .. 16 : tms_cycle_lookup[14][j] \in Nat \X Nat
  BY DEF tms_cycle_lookup
<1>15. \A j \in 1 .. 16 : tms_cycle_lookup[15][j] \in Nat \X Nat
  BY DEF tms_cycle_lookup
<1>16. \A j \in 1 .. 16 : tms_cycle_lookup[16][j] \in Nat \X Nat
  BY DEF tms_cycle_lookup
<1>17. ASSUME NEW i \in 1 .. 16, NEW j \in 1 .. 16
       PROVE  tms_cycle_lookup[i][j] \in Nat \X Nat
  <2>1. i \in {1, 2, 3, 4, 5, 6, 7, 8, 9, 10, 11, 12, 13, 14, 15, 16}
    OBVIOUS
  <2>. QED
    BY ZenonT(60), <1>1, <1>2, <1>3, <1>4, <1>5, <1>6, <1>7, <1>8, <1>9, <1>10, <1>11, <1>12,
       <1>13, <1>14, <1>15, <1>16, <2>1
<1>. QED
  BY <1>17

\* A path has a length.
LEMMA PathLength ==
  ASSUME NEW from \in TapStates, NEW to \in TapStates
  PROVE  Len(TmsPath(from, to)) \in Nat
<1>1. Value(from) \in 1 .. 16 /\ Value(to) \in 1 .. 16
  BY StatesAre, Values
<1>2. PICK e \in Nat \X Nat : e = tms_cycle_lookup[Value(from)][Value(to)]
  BY <1>1, TableType
<1>3. TmsPath(from, to) = [i \in 1 .. e[2] |-> (e[1] \div 2 ^ (i - 1)) % 2]
  BY <1>2 DEF TmsPath
<1>4. e[2] \in Nat
  BY <1>2
<1>. QED
  BY <1>3, <1>4

\* The path from the state of a TAP leads where it should.
LEMMA PathLeads ==
  ASSUME NEW t, t.state \in TapStates, NEW to \in TapStates
  PROVE  Walk(t, TmsPath(t.state, to)).state = to
<1> DEFINE from == t.state
           u == [state |-> from, bits |-> << >>, updates |-> << >>]
           path == TmsPath(from, to)
<1>1. Walk(u, path).state = to
  BY TmsCycleLookupAssumption
<1>2. u.state = t.state
  OBVIOUS
<1>3. Len(path) \in Nat
  BY PathLength
<1> HIDE DEF u, path
<1>4. Walk(t, path).state = Walk(u, path).state
  BY <1>2, <1>3, SameStates DEF Walk
<1>. QED
  BY <1>1, <1>4 DEF path

\* Walking a path leads from a TAP to a TAP.
LEMMA PathType ==
  ASSUME NEW t \in Taps, NEW from \in TapStates, NEW to \in TapStates
  PROVE  Walk(t, TmsPath(from, to)) \in Taps
<1> DEFINE path == TmsPath(from, to)
<1>1. Len(path) \in Nat
  BY PathLength
<1> HIDE DEF path
<1>2. \A k \in 1 .. Len(path) : Repeat("stray", Len(path))[k] \in Bits
  BY DEF Repeat, Bits
<1>. QED
  BY <1>1, <1>2, ClocksType DEF Walk, path

\* A value repeated is a sequence.
LEMMA RepeatSeq ==
  ASSUME NEW S, NEW x \in S, NEW n \in Nat
  PROVE  /\ Repeat(x, n) \in Seq(S)
         /\ Len(Repeat(x, n)) = n
         /\ \A k \in 1 .. n : Repeat(x, n)[k] = x
<1>1. [i \in 1 .. n |-> x] \in [1 .. n -> S]
  OBVIOUS
<1>2. [i \in 1 .. n |-> x] \in Seq(S)
  BY <1>1
<1>. QED
  BY <1>2 DEF Repeat

\* A value repeated with another one after it.
Then(x, n, y) == Append(Repeat(x, n), y)

\* Its length.
LEMMA ThenLen ==
  ASSUME NEW x, NEW y, NEW n \in Nat
  PROVE  Len(Then(x, n, y)) = n + 1
<1> DEFINE r == Repeat(x, n)
           S == {x, y}
<1>1. r \in Seq(S) /\ Len(r) = n /\ \A k \in 1 .. n : r[k] = x
  <2>1. x \in S
    OBVIOUS
  <2> HIDE DEF S, r
  <2>. QED
    BY <2>1, RepeatSeq DEF r
<1>2. y \in S
  OBVIOUS
<1>3. Then(x, n, y) = Append(r, y)
  BY DEF Then
<1> HIDE DEF r, S
<1>4. /\ Append(r, y) \in Seq(S) /\ Len(Append(r, y)) = n + 1
      /\ \A k \in 1 .. n : Append(r, y)[k] = r[k]
      /\ Append(r, y)[n + 1] = y
  BY <1>1, <1>2
<1>. QED
  BY <1>1, <1>3, <1>4

\* All but the last of it.
LEMMA ThenBody ==
  ASSUME NEW x, NEW y, NEW n \in Nat
  PROVE  \A k \in 1 .. n : Then(x, n, y)[k] = x
<1> DEFINE r == Repeat(x, n)
           S == {x, y}
<1>1. r \in Seq(S) /\ Len(r) = n /\ \A k \in 1 .. n : r[k] = x
  <2>1. x \in S
    OBVIOUS
  <2> HIDE DEF S, r
  <2>. QED
    BY <2>1, RepeatSeq DEF r
<1>2. y \in S
  OBVIOUS
<1>3. Then(x, n, y) = Append(r, y)
  BY DEF Then
<1> HIDE DEF r, S
<1>4. /\ Append(r, y) \in Seq(S) /\ Len(Append(r, y)) = n + 1
      /\ \A k \in 1 .. n : Append(r, y)[k] = r[k]
      /\ Append(r, y)[n + 1] = y
  BY <1>1, <1>2
<1>. QED
  BY <1>1, <1>3, <1>4

\* The last of it.
LEMMA ThenLast ==
  ASSUME NEW x, NEW y, NEW n \in Nat
  PROVE  Then(x, n, y)[n + 1] = y
<1> DEFINE r == Repeat(x, n)
           S == {x, y}
<1>1. r \in Seq(S) /\ Len(r) = n /\ \A k \in 1 .. n : r[k] = x
  <2>1. x \in S
    OBVIOUS
  <2> HIDE DEF S, r
  <2>. QED
    BY <2>1, RepeatSeq DEF r
<1>2. y \in S
  OBVIOUS
<1>3. Then(x, n, y) = Append(r, y)
  BY DEF Then
<1> HIDE DEF r, S
<1>4. /\ Append(r, y) \in Seq(S) /\ Len(Append(r, y)) = n + 1
      /\ \A k \in 1 .. n : Append(r, y)[k] = r[k]
      /\ Append(r, y)[n + 1] = y
  BY <1>1, <1>2
<1>. QED
  BY <1>1, <1>3, <1>4

\* A TAP that no cycle changes stays as it is.
LEMMA Unmoved ==
  ASSUME NEW t, NEW tms, NEW bits, Len(tms) \in Nat,
         \A k \in 1 .. Len(tms) : Clock(t, tms[k], bits[k]) = t
  PROVE  Clocks(t, tms, bits) = t
<1>1. \A u \in {t} : \A k \in 1 .. Len(tms) : Clock(u, tms[k], bits[k]) \in {t}
  OBVIOUS
<1>2. t \in {t}
  OBVIOUS
<1> DEFINE P == {t}
<1> HIDE DEF P
<1>3. Clocks(t, tms, bits) \in P
  <2>1. t \in P /\ \A u \in P : \A k \in 1 .. Len(tms) : Clock(u, tms[k], bits[k]) \in P
    BY <1>1, <1>2 DEF P
  <2>. QED
    BY <2>1, RunInduction
<1>. QED
  BY <1>3 DEF P

\* A TAP that idles or pauses stays as it is while TMS is low.
LEMMA Hold ==
  ASSUME NEW t \in Taps, t.state \in {"RTI"} \cup PauseStates, NEW n \in Nat
  PROVE  Walk(t, Repeat(0, n)) = t
<1>1. /\ Len(Repeat(0, n)) = n
      /\ \A k \in 1 .. n : Repeat(0, n)[k] = 0
  BY DEF Repeat
<1>2. ASSUME NEW b PROVE Clock(t, 0, b) = t
  <2>1. TapNext(t.state, 0) = t.state /\ t.state \notin ShiftStates
    BY DEF TapNext, OnLow, PauseStates, ShiftStates
  <2>2. t.state \notin {"TLR", "CapDR", "CapIR", "UpdDR", "UpdIR"}
    BY DEF PauseStates
  <2>3. Clock(t, 0, b) = [state |-> t.state, bits |-> t.bits, updates |-> t.updates]
    BY <2>1, <2>2 DEF Clock
  <2>. QED
    BY <2>3, TapParts
<1> DEFINE tms == Repeat(0, n)
           bits == Repeat("stray", Len(tms))
<1>3. Clocks(t, tms, bits) = t
  <2> HIDE DEF bits
  <2>1. Len(tms) \in Nat /\ \A k \in 1 .. Len(tms) : tms[k] = 0
    BY <1>1
  <2> HIDE DEF tms
  <2>2. \A k \in 1 .. Len(tms) : Clock(t, tms[k], bits[k]) = t
    BY <1>2, <2>1
  <2>. QED
    BY <2>1, <2>2, Unmoved
<1>. QED
  BY <1>3 DEF Walk

\* A cycle that leads to Test-Logic-Reset leaves nothing behind.
LEMMA ClockReset ==
  ASSUME NEW t, NEW m, TapNext(t.state, m) = "TLR", NEW b
  PROVE  Clock(t, m, b) = NewTap
BY DEF Clock, NewTap

\* Five cycles with TMS high lead there from everywhere.
LEMMA FiveHigh ==
  ASSUME NEW t, t.state \in TapStates, NEW tms, NEW bits, Len(tms) \in Nat,
         Len(tms) >= 5, \A k \in 1 .. 5 : tms[k] = 1
  PROVE  Run(t, tms, bits)[5] = NewTap
<1> DEFINE f == Run(t, tms, bits)
<1>1. /\ f[0] = t
      /\ \A k \in 0 .. 4 : f[k + 1] = Clock(f[k], tms[k + 1], bits[k + 1]) /\ tms[k + 1] = 1
  BY RunSteps
<1> HIDE DEF f
<1>2. ASSUME NEW k \in 0 .. 4 PROVE f[k + 1].state = OnHigh[f[k].state]
  <2>1. f[k + 1] = Clock(f[k], tms[k + 1], bits[k + 1]) /\ tms[k + 1] = 1
    BY <1>1
  <2>2. f[k + 1].state = TapNext(f[k].state, tms[k + 1])
    BY <2>1, ClockIs
  <2>. QED
    BY <2>1, <2>2, Zenon DEF TapNext
<1>3. /\ f[0 + 1].state = OnHigh[f[0].state] /\ f[1 + 1].state = OnHigh[f[1].state]
      /\ f[2 + 1].state = OnHigh[f[2].state] /\ f[3 + 1].state = OnHigh[f[3].state]
  BY <1>2
<1>4. f[1].state \in {"TLR", "SelDR", "SelIR", "Ex1DR", "UpdDR", "Ex2DR", "Ex1IR", "UpdIR",
                      "Ex2IR"}
  BY <1>1, <1>3, StatesAre DEF OnHigh
<1>5. f[2].state \in {"TLR", "SelIR", "SelDR", "UpdDR", "UpdIR"}
  BY <1>3, <1>4 DEF OnHigh
<1>6. f[3].state \in {"TLR", "SelIR", "SelDR"}
  BY <1>3, <1>5 DEF OnHigh
<1>7. f[4].state \in {"TLR", "SelIR"}
  BY <1>3, <1>6 DEF OnHigh
<1>8. TapNext(f[4].state, 1) = "TLR"
  BY <1>7 DEF TapNext, OnHigh
<1>9. f[4 + 1] = Clock(f[4], 1, bits[4 + 1])
  BY <1>1
<1>. QED
  BY <1>8, <1>9, ClockReset DEF f

\* TMS high keeps a TAP that is reset.
LEMMA StayReset ==
  ASSUME NEW n \in Nat
  PROVE  Walk(NewTap, Repeat(1, n)) = NewTap
<1>1. /\ Len(Repeat(1, n)) = n
      /\ \A k \in 1 .. n : Repeat(1, n)[k] = 1
  BY DEF Repeat
<1>2. TapNext(NewTap.state, 1) = "TLR"
  BY DEF TapNext, OnHigh, NewTap
<1> DEFINE tms == Repeat(1, n)
           bits == Repeat("stray", Len(tms))
<1>3. Clocks(NewTap, tms, bits) = NewTap
  <2> HIDE DEF bits
  <2>1. Len(tms) \in Nat /\ \A k \in 1 .. Len(tms) : tms[k] = 1
    BY <1>1
  <2> HIDE DEF tms
  <2>2. \A k \in 1 .. Len(tms) : Clock(NewTap, tms[k], bits[k]) = NewTap
    BY <1>2, <2>1, ClockReset
  <2>. QED
    BY <2>1, <2>2, Unmoved
<1>. QED
  BY <1>3 DEF Walk

\* The reset of the driver in software mode.
LEMMA TenHigh ==
  ASSUME NEW t, t.state \in TapStates
  PROVE  Walk(t, Repeat(1, 10)) = NewTap
<1> DEFINE tms == Repeat(1, 10)
           bits == Repeat("stray", 10)
           f == Run(t, tms, bits)
<1>1. Len(tms) = 10 /\ \A k \in 1 .. 10 : tms[k] = 1
  BY DEF Repeat
<1>2. /\ \A k \in 0 .. 9 : f[k + 1] = Clock(f[k], tms[k + 1], bits[k + 1]) /\ tms[k + 1] = 1
      /\ Clocks(t, tms, bits) = f[10]
  <2> HIDE DEF tms, bits
  <2>1. /\ \A k \in 0 .. (Len(tms) - 1) : f[k + 1] = Clock(f[k], tms[k + 1], bits[k + 1])
        /\ Clocks(t, tms, bits) = f[Len(tms)]
    <3>1. Len(tms) \in Nat
      BY <1>1
    <3>. QED
      BY <3>1, RunSteps
  <2> HIDE DEF f
  <2>2. \A k \in 0 .. 9 : k \in 0 .. (Len(tms) - 1) /\ k + 1 \in 1 .. 10
    BY <1>1
  <2>. QED
    BY <1>1, <2>1, <2>2
<1>3. f[5] = NewTap
  <2> HIDE DEF tms, bits
  <2>. QED
    BY <1>1, FiveHigh
<1>4. ASSUME NEW k \in 0 .. 9, f[k] = NewTap PROVE f[k + 1] = NewTap
  <2> HIDE DEF f, tms, bits
  <2>1. TapNext(f[k].state, 1) = "TLR"
    BY <1>4 DEF TapNext, OnHigh, NewTap
  <2>. QED
    BY <1>2, <2>1, ClockReset
<1> HIDE DEF f
<1>5. /\ f[5] = NewTap => f[5 + 1] = NewTap
      /\ f[6] = NewTap => f[6 + 1] = NewTap
      /\ f[7] = NewTap => f[7 + 1] = NewTap
      /\ f[8] = NewTap => f[8 + 1] = NewTap
      /\ f[9] = NewTap => f[9 + 1] = NewTap
  BY <1>4
<1>6. f[10] = NewTap
  BY <1>3, <1>5
<1>. QED
  BY <1>1, <1>2, <1>6 DEF Walk

\* The TAP with these parts.
At(s, b, u) == [state |-> s, bits |-> b, updates |-> u]

\* The reset of the driver in hardware mode.
LEMMA FiveHighOneLow ==
  ASSUME NEW t, t.state \in TapStates
  PROVE  Walk(t, Append(Repeat(1, 5), 0)) = At("RTI", << >>, << >>)
<1> DEFINE tms == Then(1, 5, 0)
           bits == Repeat("stray", 6)
           f == Run(t, tms, bits)
<1>1. Len(tms) = 6 /\ (\A k \in 1 .. 5 : tms[k] = 1) /\ tms[6] = 0
  <2>1. Len(Then(1, 5, 0)) = 5 + 1
    BY ThenLen
  <2>2. \A k \in 1 .. 5 : Then(1, 5, 0)[k] = 1
    BY ThenBody
  <2>3. Then(1, 5, 0)[5 + 1] = 0
    BY ThenLast
  <2>. QED
    BY <2>1, <2>2, <2>3
<1>2. /\ f[5 + 1] = Clock(f[5], tms[5 + 1], bits[5 + 1])
      /\ Clocks(t, tms, bits) = f[6]
  <2> HIDE DEF tms, bits
  <2>1. /\ \A k \in 0 .. (Len(tms) - 1) : f[k + 1] = Clock(f[k], tms[k + 1], bits[k + 1])
        /\ Clocks(t, tms, bits) = f[Len(tms)]
    <3>1. Len(tms) \in Nat
      BY <1>1
    <3>. QED
      BY <3>1, RunSteps
  <2> HIDE DEF f
  <2>2. \A k \in 0 .. 5 : k \in 0 .. (Len(tms) - 1) /\ k + 1 \in 1 .. 6
    BY <1>1
  <2>. QED
    BY <1>1, <2>1, <2>2
<1>3. f[5] = NewTap
  <2> HIDE DEF tms, bits
  <2>. QED
    BY <1>1, FiveHigh
<1> HIDE DEF f, bits
<1>4. f[6] = Clock(NewTap, 0, bits[6])
  BY <1>1, <1>2, <1>3
<1>5. Clock(NewTap, 0, bits[6]) = At("RTI", << >>, << >>)
  <2>1. TapNext("TLR", 0) = "RTI"
    BY DEF TapNext, OnLow
  <2>. QED
    BY <2>1 DEF Clock, NewTap, ShiftStates, At
<1>. QED
  BY <1>1, <1>2, <1>4, <1>5 DEF Walk, bits, Then

\* The states in which a cycle ends without clearing or updating a register.
Plain == TapStates \ {"TLR", "CapDR", "CapIR", "UpdDR", "UpdIR"}

\* A cycle from outside Shift to such a state moves the TAP and nothing else.
LEMMA ClockPlain ==
  ASSUME NEW s, s \notin ShiftStates, NEW b, NEW u, NEW m, NEW x, TapNext(s, m) \in Plain
  PROVE  Clock(At(s, b, u), m, x) = At(TapNext(s, m), b, u)
BY DEF Clock, At, Plain

\* One to Capture also clears the bits.
LEMMA ClockCapture ==
  ASSUME NEW s, s \notin ShiftStates, NEW b, NEW u, NEW m, NEW x,
         TapNext(s, m) \in {"CapDR", "CapIR"}
  PROVE  Clock(At(s, b, u), m, x) = At(TapNext(s, m), << >>, u)
BY DEF Clock, At

\* A walk of one to four cycles.
LEMMA WalkOne ==
  ASSUME NEW t, NEW p, Len(p) = 1
  PROVE  Walk(t, p) = Clock(t, p[1], "stray")
<1> DEFINE bits == Repeat("stray", 1)
           f == Run(t, p, bits)
<1>1. Len(p) \in Nat /\ bits = Repeat("stray", Len(p)) /\ \A k \in 1 .. 1 : bits[k] = "stray"
  BY DEF Repeat
<1> HIDE DEF bits
<1>2. /\ f[0] = t
      /\ \A k \in 0 .. (Len(p) - 1) : f[k + 1] = Clock(f[k], p[k + 1], bits[k + 1])
      /\ Clocks(t, p, bits) = f[Len(p)]
  <2>1. IsWalk(f, t, p, bits)
    BY <1>1, RunIsWalk
  <2>. QED
    BY <2>1 DEF IsWalk
<1> HIDE DEF f
<1>3. \A k \in 0 .. 0 : k \in 0 .. (Len(p) - 1)
  OBVIOUS
<1>4. f[1] = Clock(f[0], p[1], "stray")
  <2>1. f[0 + 1] = Clock(f[0], p[0 + 1], bits[0 + 1])
    BY <1>2, <1>3
  <2>. QED
    BY <1>1, <2>1
<1>. QED
  BY <1>1, <1>2, <1>4 DEF Walk

\* Two cycles.
LEMMA WalkTwo ==
  ASSUME NEW t, NEW p, Len(p) = 2
  PROVE  Walk(t, p) = Clock(Clock(t, p[1], "stray"), p[2], "stray")
<1> DEFINE bits == Repeat("stray", 2)
           f == Run(t, p, bits)
<1>1. Len(p) \in Nat /\ bits = Repeat("stray", Len(p)) /\ \A k \in 1 .. 2 : bits[k] = "stray"
  BY DEF Repeat
<1> HIDE DEF bits
<1>2. /\ f[0] = t
      /\ \A k \in 0 .. (Len(p) - 1) : f[k + 1] = Clock(f[k], p[k + 1], bits[k + 1])
      /\ Clocks(t, p, bits) = f[Len(p)]
  <2>1. IsWalk(f, t, p, bits)
    BY <1>1, RunIsWalk
  <2>. QED
    BY <2>1 DEF IsWalk
<1> HIDE DEF f
<1>3. \A k \in 0 .. 1 : k \in 0 .. (Len(p) - 1)
  OBVIOUS
<1>4. f[1] = Clock(f[0], p[1], "stray")
  <2>1. f[0 + 1] = Clock(f[0], p[0 + 1], bits[0 + 1])
    BY <1>2, <1>3
  <2>. QED
    BY <1>1, <2>1
<1>5. f[2] = Clock(f[1], p[2], "stray")
  <2>1. f[1 + 1] = Clock(f[1], p[1 + 1], bits[1 + 1])
    BY <1>2, <1>3
  <2>. QED
    BY <1>1, <2>1
<1>. QED
  BY <1>1, <1>2, <1>4, <1>5 DEF Walk

\* Three cycles.
LEMMA WalkThree ==
  ASSUME NEW t, NEW p, Len(p) = 3
  PROVE  Walk(t, p) = Clock(Clock(Clock(t, p[1], "stray"), p[2], "stray"), p[3], "stray")
<1> DEFINE bits == Repeat("stray", 3)
           f == Run(t, p, bits)
<1>1. Len(p) \in Nat /\ bits = Repeat("stray", Len(p)) /\ \A k \in 1 .. 3 : bits[k] = "stray"
  BY DEF Repeat
<1> HIDE DEF bits
<1>2. /\ f[0] = t
      /\ \A k \in 0 .. (Len(p) - 1) : f[k + 1] = Clock(f[k], p[k + 1], bits[k + 1])
      /\ Clocks(t, p, bits) = f[Len(p)]
  <2>1. IsWalk(f, t, p, bits)
    BY <1>1, RunIsWalk
  <2>. QED
    BY <2>1 DEF IsWalk
<1> HIDE DEF f
<1>3. \A k \in 0 .. 2 : k \in 0 .. (Len(p) - 1)
  OBVIOUS
<1>4. f[1] = Clock(f[0], p[1], "stray")
  <2>1. f[0 + 1] = Clock(f[0], p[0 + 1], bits[0 + 1])
    BY <1>2, <1>3
  <2>. QED
    BY <1>1, <2>1
<1>5. f[2] = Clock(f[1], p[2], "stray")
  <2>1. f[1 + 1] = Clock(f[1], p[1 + 1], bits[1 + 1])
    BY <1>2, <1>3
  <2>. QED
    BY <1>1, <2>1
<1>6. f[3] = Clock(f[2], p[3], "stray")
  <2>1. f[2 + 1] = Clock(f[2], p[2 + 1], bits[2 + 1])
    BY <1>2, <1>3
  <2>. QED
    BY <1>1, <2>1
<1>. QED
  BY <1>1, <1>2, <1>4, <1>5, <1>6 DEF Walk

\* Four cycles.
LEMMA WalkFour ==
  ASSUME NEW t, NEW p, Len(p) = 4
  PROVE  Walk(t, p) = Clock(Clock(Clock(Clock(t, p[1], "stray"), p[2], "stray"), p[3], "stray"), p[4], "stray")
<1> DEFINE bits == Repeat("stray", 4)
           f == Run(t, p, bits)
<1>1. Len(p) \in Nat /\ bits = Repeat("stray", Len(p)) /\ \A k \in 1 .. 4 : bits[k] = "stray"
  BY DEF Repeat
<1> HIDE DEF bits
<1>2. /\ f[0] = t
      /\ \A k \in 0 .. (Len(p) - 1) : f[k + 1] = Clock(f[k], p[k + 1], bits[k + 1])
      /\ Clocks(t, p, bits) = f[Len(p)]
  <2>1. IsWalk(f, t, p, bits)
    BY <1>1, RunIsWalk
  <2>. QED
    BY <2>1 DEF IsWalk
<1> HIDE DEF f
<1>3. \A k \in 0 .. 3 : k \in 0 .. (Len(p) - 1)
  OBVIOUS
<1>4. f[1] = Clock(f[0], p[1], "stray")
  <2>1. f[0 + 1] = Clock(f[0], p[0 + 1], bits[0 + 1])
    BY <1>2, <1>3
  <2>. QED
    BY <1>1, <2>1
<1>5. f[2] = Clock(f[1], p[2], "stray")
  <2>1. f[1 + 1] = Clock(f[1], p[1 + 1], bits[1 + 1])
    BY <1>2, <1>3
  <2>. QED
    BY <1>1, <2>1
<1>6. f[3] = Clock(f[2], p[3], "stray")
  <2>1. f[2 + 1] = Clock(f[2], p[2 + 1], bits[2 + 1])
    BY <1>2, <1>3
  <2>. QED
    BY <1>1, <2>1
<1>7. f[4] = Clock(f[3], p[4], "stray")
  <2>1. f[3 + 1] = Clock(f[3], p[3 + 1], bits[3 + 1])
    BY <1>2, <1>3
  <2>. QED
    BY <1>1, <2>1
<1>. QED
  BY <1>1, <1>2, <1>4, <1>5, <1>6, <1>7 DEF Walk

\* Five cycles.
LEMMA WalkFive ==
  ASSUME NEW t, NEW p, Len(p) = 5
  PROVE  Walk(t, p) = Clock(Clock(Clock(Clock(Clock(t, p[1], "stray"), p[2], "stray"), p[3], "stray"),
                p[4], "stray"), p[5], "stray")
<1> DEFINE bits == Repeat("stray", 5)
           f == Run(t, p, bits)
<1>1. Len(p) \in Nat /\ bits = Repeat("stray", Len(p)) /\ \A k \in 1 .. 5 : bits[k] = "stray"
  BY DEF Repeat
<1> HIDE DEF bits
<1>2. /\ f[0] = t
      /\ \A k \in 0 .. (Len(p) - 1) : f[k + 1] = Clock(f[k], p[k + 1], bits[k + 1])
      /\ Clocks(t, p, bits) = f[Len(p)]
  <2>1. IsWalk(f, t, p, bits)
    BY <1>1, RunIsWalk
  <2>. QED
    BY <2>1 DEF IsWalk
<1> HIDE DEF f
<1>3. \A k \in 0 .. 4 : k \in 0 .. (Len(p) - 1)
  OBVIOUS
<1>4. f[1] = Clock(f[0], p[1], "stray")
  <2>1. f[0 + 1] = Clock(f[0], p[0 + 1], bits[0 + 1])
    BY <1>2, <1>3
  <2>. QED
    BY <1>1, <2>1
<1>5. f[2] = Clock(f[1], p[2], "stray")
  <2>1. f[1 + 1] = Clock(f[1], p[1 + 1], bits[1 + 1])
    BY <1>2, <1>3
  <2>. QED
    BY <1>1, <2>1
<1>6. f[3] = Clock(f[2], p[3], "stray")
  <2>1. f[2 + 1] = Clock(f[2], p[2 + 1], bits[2 + 1])
    BY <1>2, <1>3
  <2>. QED
    BY <1>1, <2>1
<1>7. f[4] = Clock(f[3], p[4], "stray")
  <2>1. f[3 + 1] = Clock(f[3], p[3 + 1], bits[3 + 1])
    BY <1>2, <1>3
  <2>. QED
    BY <1>1, <2>1
<1>8. f[5] = Clock(f[4], p[5], "stray")
  <2>1. f[4 + 1] = Clock(f[4], p[4 + 1], bits[4 + 1])
    BY <1>2, <1>3
  <2>. QED
    BY <1>1, <2>1
<1>. QED
  BY <1>1, <1>2, <1>4, <1>5, <1>6, <1>7, <1>8 DEF Walk

\* The paths that hardware mode relies on, cycle by cycle.
LEMMA Paths ==
  /\ Len(TmsPath("TLR", "RTI")) = 1
     /\ TmsPath("TLR", "RTI")[1] = 0
  /\ Len(TmsPath("TLR", "ShDR")) = 4
     /\ TmsPath("TLR", "ShDR")[1] = 0 /\ TmsPath("TLR", "ShDR")[2] = 1
     /\ TmsPath("TLR", "ShDR")[3] = 0 /\ TmsPath("TLR", "ShDR")[4] = 0
  /\ Len(TmsPath("TLR", "ShIR")) = 5
     /\ TmsPath("TLR", "ShIR")[1] = 0 /\ TmsPath("TLR", "ShIR")[2] = 1
     /\ TmsPath("TLR", "ShIR")[3] = 1 /\ TmsPath("TLR", "ShIR")[4] = 0 /\ TmsPath("TLR", "ShIR")[5] = 0
  /\ Len(TmsPath("RTI", "ShDR")) = 3
     /\ TmsPath("RTI", "ShDR")[1] = 1 /\ TmsPath("RTI", "ShDR")[2] = 0
     /\ TmsPath("RTI", "ShDR")[3] = 0
  /\ Len(TmsPath("RTI", "ShIR")) = 4
     /\ TmsPath("RTI", "ShIR")[1] = 1 /\ TmsPath("RTI", "ShIR")[2] = 1
     /\ TmsPath("RTI", "ShIR")[3] = 0 /\ TmsPath("RTI", "ShIR")[4] = 0
  /\ Len(TmsPath("PauDR", "ShDR")) = 2
     /\ TmsPath("PauDR", "ShDR")[1] = 1 /\ TmsPath("PauDR", "ShDR")[2] = 0
  /\ Len(TmsPath("PauIR", "ShIR")) = 2
     /\ TmsPath("PauIR", "ShIR")[1] = 1 /\ TmsPath("PauIR", "ShIR")[2] = 0
  /\ Len(TmsPath("Ex1DR", "PauDR")) = 1
     /\ TmsPath("Ex1DR", "PauDR")[1] = 0
  /\ Len(TmsPath("Ex1IR", "PauIR")) = 1
     /\ TmsPath("Ex1IR", "PauIR")[1] = 0
<1>1. /\ Len(TmsPath("TLR", "RTI")) = 1
      /\ TmsPath("TLR", "RTI")[1] = 0
  <2>1. tms_cycle_lookup[1][2] = <<0, 1>>
    BY DEF tms_cycle_lookup
  <2>2. TmsPath("TLR", "RTI") = [i \in 1 .. 1 |-> (0 \div 2 ^ (i - 1)) % 2]
    BY <2>1, Values DEF TmsPath
  <2>3. (0 \div 2 ^ (1 - 1)) % 2 = 0
    OBVIOUS
  <2>. QED
    BY <2>2, <2>3
<1>2. /\ Len(TmsPath("TLR", "ShDR")) = 4
      /\ TmsPath("TLR", "ShDR")[1] = 0 /\ TmsPath("TLR", "ShDR")[2] = 1
      /\ TmsPath("TLR", "ShDR")[3] = 0 /\ TmsPath("TLR", "ShDR")[4] = 0
  <2>1. tms_cycle_lookup[1][5] = <<2, 4>>
    BY DEF tms_cycle_lookup
  <2>2. TmsPath("TLR", "ShDR") = [i \in 1 .. 4 |-> (2 \div 2 ^ (i - 1)) % 2]
    BY <2>1, Values DEF TmsPath
  <2>3. (2 \div 2 ^ (1 - 1)) % 2 = 0 /\ (2 \div 2 ^ (2 - 1)) % 2 = 1 /\ (2 \div 2 ^ (3 - 1)) % 2 = 0 /\ (2 \div 2 ^ (4 - 1)) % 2 = 0
    OBVIOUS
  <2>. QED
    BY <2>2, <2>3
<1>3. /\ Len(TmsPath("TLR", "ShIR")) = 5
      /\ TmsPath("TLR", "ShIR")[1] = 0 /\ TmsPath("TLR", "ShIR")[2] = 1
      /\ TmsPath("TLR", "ShIR")[3] = 1 /\ TmsPath("TLR", "ShIR")[4] = 0 /\ TmsPath("TLR", "ShIR")[5] = 0
  <2>1. tms_cycle_lookup[1][12] = <<6, 5>>
    BY DEF tms_cycle_lookup
  <2>2. TmsPath("TLR", "ShIR") = [i \in 1 .. 5 |-> (6 \div 2 ^ (i - 1)) % 2]
    BY <2>1, Values DEF TmsPath
  <2>3. (6 \div 2 ^ (1 - 1)) % 2 = 0 /\ (6 \div 2 ^ (2 - 1)) % 2 = 1 /\ (6 \div 2 ^ (3 - 1)) % 2 = 1 /\ (6 \div 2 ^ (4 - 1)) % 2 = 0 /\ (6 \div 2 ^ (5 - 1)) % 2 = 0
    OBVIOUS
  <2>. QED
    BY <2>2, <2>3
<1>4. /\ Len(TmsPath("RTI", "ShDR")) = 3
      /\ TmsPath("RTI", "ShDR")[1] = 1 /\ TmsPath("RTI", "ShDR")[2] = 0
      /\ TmsPath("RTI", "ShDR")[3] = 0
  <2>1. tms_cycle_lookup[2][5] = <<1, 3>>
    BY DEF tms_cycle_lookup
  <2>2. TmsPath("RTI", "ShDR") = [i \in 1 .. 3 |-> (1 \div 2 ^ (i - 1)) % 2]
    BY <2>1, Values DEF TmsPath
  <2>3. (1 \div 2 ^ (1 - 1)) % 2 = 1 /\ (1 \div 2 ^ (2 - 1)) % 2 = 0 /\ (1 \div 2 ^ (3 - 1)) % 2 = 0
    OBVIOUS
  <2>. QED
    BY <2>2, <2>3
<1>5. /\ Len(TmsPath("RTI", "ShIR")) = 4
      /\ TmsPath("RTI", "ShIR")[1] = 1 /\ TmsPath("RTI", "ShIR")[2] = 1
      /\ TmsPath("RTI", "ShIR")[3] = 0 /\ TmsPath("RTI", "ShIR")[4] = 0
  <2>1. tms_cycle_lookup[2][12] = <<3, 4>>
    BY DEF tms_cycle_lookup
  <2>2. TmsPath("RTI", "ShIR") = [i \in 1 .. 4 |-> (3 \div 2 ^ (i - 1)) % 2]
    BY <2>1, Values DEF TmsPath
  <2>3. (3 \div 2 ^ (1 - 1)) % 2 = 1 /\ (3 \div 2 ^ (2 - 1)) % 2 = 1 /\ (3 \div 2 ^ (3 - 1)) % 2 = 0 /\ (3 \div 2 ^ (4 - 1)) % 2 = 0
    OBVIOUS
  <2>. QED
    BY <2>2, <2>3
<1>6. /\ Len(TmsPath("PauDR", "ShDR")) = 2
      /\ TmsPath("PauDR", "ShDR")[1] = 1 /\ TmsPath("PauDR", "ShDR")[2] = 0
  <2>1. tms_cycle_lookup[7][5] = <<1, 2>>
    BY DEF tms_cycle_lookup
  <2>2. TmsPath("PauDR", "ShDR") = [i \in 1 .. 2 |-> (1 \div 2 ^ (i - 1)) % 2]
    BY <2>1, Values DEF TmsPath
  <2>3. (1 \div 2 ^ (1 - 1)) % 2 = 1 /\ (1 \div 2 ^ (2 - 1)) % 2 = 0
    OBVIOUS
  <2>. QED
    BY <2>2, <2>3
<1>7. /\ Len(TmsPath("PauIR", "ShIR")) = 2
      /\ TmsPath("PauIR", "ShIR")[1] = 1 /\ TmsPath("PauIR", "ShIR")[2] = 0
  <2>1. tms_cycle_lookup[14][12] = <<1, 2>>
    BY DEF tms_cycle_lookup
  <2>2. TmsPath("PauIR", "ShIR") = [i \in 1 .. 2 |-> (1 \div 2 ^ (i - 1)) % 2]
    BY <2>1, Values DEF TmsPath
  <2>3. (1 \div 2 ^ (1 - 1)) % 2 = 1 /\ (1 \div 2 ^ (2 - 1)) % 2 = 0
    OBVIOUS
  <2>. QED
    BY <2>2, <2>3
<1>8. /\ Len(TmsPath("Ex1DR", "PauDR")) = 1
      /\ TmsPath("Ex1DR", "PauDR")[1] = 0
  <2>1. tms_cycle_lookup[6][7] = <<0, 1>>
    BY DEF tms_cycle_lookup
  <2>2. TmsPath("Ex1DR", "PauDR") = [i \in 1 .. 1 |-> (0 \div 2 ^ (i - 1)) % 2]
    BY <2>1, Values DEF TmsPath
  <2>3. (0 \div 2 ^ (1 - 1)) % 2 = 0
    OBVIOUS
  <2>. QED
    BY <2>2, <2>3
<1>9. /\ Len(TmsPath("Ex1IR", "PauIR")) = 1
      /\ TmsPath("Ex1IR", "PauIR")[1] = 0
  <2>1. tms_cycle_lookup[13][14] = <<0, 1>>
    BY DEF tms_cycle_lookup
  <2>2. TmsPath("Ex1IR", "PauIR") = [i \in 1 .. 1 |-> (0 \div 2 ^ (i - 1)) % 2]
    BY <2>1, Values DEF TmsPath
  <2>3. (0 \div 2 ^ (1 - 1)) % 2 = 0
    OBVIOUS
  <2>. QED
    BY <2>2, <2>3
<1>. QED
  BY <1>1, <1>2, <1>3, <1>4, <1>5, <1>6, <1>7, <1>8, <1>9

\* The path from a state to itself is empty.
LEMMA SamePath ==
  ASSUME NEW t, NEW s \in TapStates
  PROVE  Walk(t, TmsPath(s, s)) = t
<1>1. tms_cycle_lookup[1][1] = <<0, 0>>
  BY DEF tms_cycle_lookup
<1>2. tms_cycle_lookup[2][2] = <<0, 0>>
  BY DEF tms_cycle_lookup
<1>3. tms_cycle_lookup[3][3] = <<0, 0>>
  BY DEF tms_cycle_lookup
<1>4. tms_cycle_lookup[4][4] = <<0, 0>>
  BY DEF tms_cycle_lookup
<1>5. tms_cycle_lookup[5][5] = <<0, 0>>
  BY DEF tms_cycle_lookup
<1>6. tms_cycle_lookup[6][6] = <<0, 0>>
  BY DEF tms_cycle_lookup
<1>7. tms_cycle_lookup[7][7] = <<0, 0>>
  BY DEF tms_cycle_lookup
<1>8. tms_cycle_lookup[8][8] = <<0, 0>>
  BY DEF tms_cycle_lookup
<1>9. tms_cycle_lookup[9][9] = <<0, 0>>
  BY DEF tms_cycle_lookup
<1>10. tms_cycle_lookup[10][10] = <<0, 0>>
  BY DEF tms_cycle_lookup
<1>11. tms_cycle_lookup[11][11] = <<0, 0>>
  BY DEF tms_cycle_lookup
<1>12. tms_cycle_lookup[12][12] = <<0, 0>>
  BY DEF tms_cycle_lookup
<1>13. tms_cycle_lookup[13][13] = <<0, 0>>
  BY DEF tms_cycle_lookup
<1>14. tms_cycle_lookup[14][14] = <<0, 0>>
  BY DEF tms_cycle_lookup
<1>15. tms_cycle_lookup[15][15] = <<0, 0>>
  BY DEF tms_cycle_lookup
<1>16. tms_cycle_lookup[16][16] = <<0, 0>>
  BY DEF tms_cycle_lookup
<1>17. tms_cycle_lookup[Value(s)][Value(s)] = <<0, 0>>
  BY <1>1, <1>2, <1>3, <1>4, <1>5, <1>6, <1>7, <1>8,
     <1>9, <1>10, <1>11, <1>12, <1>13, <1>14, <1>15, <1>16, StatesAre, Values
<1>18. Len(TmsPath(s, s)) = 0
  BY <1>17 DEF TmsPath
<1>. QED
  BY <1>18, NoClocks DEF Walk

\* The paths to Test-Logic-Reset hold TMS high.
LEMMA ResetPath ==
  ASSUME NEW s \in TapStates
  PROVE  \E n \in Nat : TmsPath(s, "TLR") = Repeat(1, n)
<1> DEFINE High == {<<0, 0>>, <<1, 1>>, <<3, 2>>, <<7, 3>>, <<15, 4>>, <<31, 5>>}
<1>1. tms_cycle_lookup[1][1] = <<0, 0>>
  BY DEF tms_cycle_lookup
<1>2. tms_cycle_lookup[2][1] = <<7, 3>>
  BY DEF tms_cycle_lookup
<1>3. tms_cycle_lookup[3][1] = <<3, 2>>
  BY DEF tms_cycle_lookup
<1>4. tms_cycle_lookup[4][1] = <<31, 5>>
  BY DEF tms_cycle_lookup
<1>5. tms_cycle_lookup[5][1] = <<31, 5>>
  BY DEF tms_cycle_lookup
<1>6. tms_cycle_lookup[6][1] = <<15, 4>>
  BY DEF tms_cycle_lookup
<1>7. tms_cycle_lookup[7][1] = <<31, 5>>
  BY DEF tms_cycle_lookup
<1>8. tms_cycle_lookup[8][1] = <<15, 4>>
  BY DEF tms_cycle_lookup
<1>9. tms_cycle_lookup[9][1] = <<7, 3>>
  BY DEF tms_cycle_lookup
<1>10. tms_cycle_lookup[10][1] = <<1, 1>>
  BY DEF tms_cycle_lookup
<1>11. tms_cycle_lookup[11][1] = <<31, 5>>
  BY DEF tms_cycle_lookup
<1>12. tms_cycle_lookup[12][1] = <<31, 5>>
  BY DEF tms_cycle_lookup
<1>13. tms_cycle_lookup[13][1] = <<15, 4>>
  BY DEF tms_cycle_lookup
<1>14. tms_cycle_lookup[14][1] = <<31, 5>>
  BY DEF tms_cycle_lookup
<1>15. tms_cycle_lookup[15][1] = <<15, 4>>
  BY DEF tms_cycle_lookup
<1>16. tms_cycle_lookup[16][1] = <<7, 3>>
  BY DEF tms_cycle_lookup
<1>17. tms_cycle_lookup[Value(s)][Value("TLR")] \in High
  BY ZenonT(60), <1>1, <1>2, <1>3, <1>4, <1>5, <1>6, <1>7, <1>8,
     <1>9, <1>10, <1>11, <1>12, <1>13, <1>14, <1>15, <1>16, StatesAre, Values
<1>18. PICK e \in High : e = tms_cycle_lookup[Value(s)][Value("TLR")]
  BY <1>17
<1>19. TmsPath(s, "TLR") = [i \in 1 .. e[2] |-> (e[1] \div 2 ^ (i - 1)) % 2]
  BY <1>18 DEF TmsPath
<1>20. e[2] \in Nat /\ \A i \in 1 .. e[2] : (e[1] \div 2 ^ (i - 1)) % 2 = 1
  <2>1. CASE e = <<0, 0>>
    BY <2>1
  <2>2. CASE e = <<1, 1>>
    <3>1. (1 \div 2 ^ (1 - 1)) % 2 = 1
      OBVIOUS
    <3>2. \A i \in 1 .. 1 : i \in {1}
      OBVIOUS
    <3>. QED
      BY <2>2, <3>1, <3>2
  <2>3. CASE e = <<3, 2>>
    <3>1. (3 \div 2 ^ (1 - 1)) % 2 = 1 /\ (3 \div 2 ^ (2 - 1)) % 2 = 1
      OBVIOUS
    <3>2. \A i \in 1 .. 2 : i \in {1, 2}
      OBVIOUS
    <3>. QED
      BY <2>3, <3>1, <3>2
  <2>4. CASE e = <<7, 3>>
    <3>1. (7 \div 2 ^ (1 - 1)) % 2 = 1 /\ (7 \div 2 ^ (2 - 1)) % 2 = 1 /\ (7 \div 2 ^ (3 - 1)) % 2 = 1
      OBVIOUS
    <3>2. \A i \in 1 .. 3 : i \in {1, 2, 3}
      OBVIOUS
    <3>. QED
      BY <2>4, <3>1, <3>2
  <2>5. CASE e = <<15, 4>>
    <3>1. (15 \div 2 ^ (1 - 1)) % 2 = 1 /\ (15 \div 2 ^ (2 - 1)) % 2 = 1 /\ (15 \div 2 ^ (3 - 1)) % 2 = 1 /\ (15 \div 2 ^ (4 - 1)) % 2 = 1
      OBVIOUS
    <3>2. \A i \in 1 .. 4 : i \in {1, 2, 3, 4}
      OBVIOUS
    <3>. QED
      BY <2>5, <3>1, <3>2
  <2>6. CASE e = <<31, 5>>
    <3>1. (31 \div 2 ^ (1 - 1)) % 2 = 1 /\ (31 \div 2 ^ (2 - 1)) % 2 = 1 /\ (31 \div 2 ^ (3 - 1)) % 2 = 1 /\ (31 \div 2 ^ (4 - 1)) % 2 = 1 /\ (31 \div 2 ^ (5 - 1)) % 2 = 1
      OBVIOUS
    <3>2. \A i \in 1 .. 5 : i \in {1, 2, 3, 4, 5}
      OBVIOUS
    <3>. QED
      BY <2>6, <3>1, <3>2
  <2>. QED
    BY <1>18, <2>1, <2>2, <2>3, <2>4, <2>5, <2>6
<1>21. TmsPath(s, "TLR") = Repeat(1, e[2])
  BY <1>19, <1>20 DEF Repeat
<1>. QED
  BY <1>20, <1>21

-------------------------------------------------------------------------------
(* The moves of the driver, as a whole.                                    *)

\* To Run-Test/Idle after a reset.
LEMMA LeaveReset ==
  ASSUME NEW b, NEW u
  PROVE  Walk(At("TLR", b, u), TmsPath("TLR", "RTI")) = At("RTI", b, u)
<1> DEFINE p == TmsPath("TLR", "RTI")
<1>1. Len(p) = 1 /\ p[1] = 0
  BY Paths
<1> HIDE DEF p
<1>2. Walk(At("TLR", b, u), p) = Clock(At("TLR", b, u), 0, "stray")
  BY <1>1, WalkOne
<1>3. TapNext("TLR", 0) = "RTI" /\ "RTI" \in Plain /\ "TLR" \notin ShiftStates
  BY StatesAre DEF TapNext, OnLow, Plain, ShiftStates
<1>. QED
  BY <1>2, <1>3, ClockPlain DEF p

\* From Exit1 to Pause.
LEMMA EndInPause ==
  ASSUME NEW s \in ShiftStates, NEW b, NEW u
  PROVE  Walk(At(Exit1(s), b, u), TmsPath(Exit1(s), Pause(s))) = At(Pause(s), b, u)
<1> DEFINE p == TmsPath(Exit1(s), Pause(s))
<1>1. Len(p) = 1 /\ p[1] = 0
  BY Paths DEF Exit1, Pause, ShiftStates
<1> HIDE DEF p
<1>2. Walk(At(Exit1(s), b, u), p) = Clock(At(Exit1(s), b, u), 0, "stray")
  BY <1>1, WalkOne
<1>3. TapNext(Exit1(s), 0) = Pause(s) /\ Pause(s) \in Plain /\ Exit1(s) \notin ShiftStates
  BY StatesAre DEF TapNext, OnLow, Plain, ShiftStates, Exit1, Pause
<1>. QED
  BY <1>2, <1>3, ClockPlain DEF p

\* From Pause back to Shift, over Exit2.
LEMMA ResumeScan ==
  ASSUME NEW s \in ShiftStates, NEW b, NEW u
  PROVE  Walk(At(Pause(s), b, u), TmsPath(Pause(s), s)) = At(s, b, u)
<1> DEFINE p == TmsPath(Pause(s), s)
<1>1. Len(p) = 2 /\ p[1] = 1 /\ p[2] = 0
  BY Paths DEF Pause, ShiftStates
<1> HIDE DEF p
<1>2. Walk(At(Pause(s), b, u), p) = Clock(Clock(At(Pause(s), b, u), 1, "stray"), 0, "stray")
  BY <1>1, WalkTwo
<1>3. PICK x : x = TapNext(Pause(s), 1)
  OBVIOUS
<1>4. /\ Pause(s) \notin ShiftStates /\ x \notin ShiftStates /\ x \in Plain
      /\ TapNext(x, 0) = s /\ s \in Plain
  BY <1>3, StatesAre DEF TapNext, OnLow, OnHigh, Plain, ShiftStates, Pause
<1>5. Clock(At(Pause(s), b, u), 1, "stray") = At(x, b, u)
  BY <1>3, <1>4, ClockPlain
<1>6. Clock(At(x, b, u), 0, "stray") = At(s, b, u)
  BY <1>4, ClockPlain
<1>. QED
  BY <1>2, <1>5, <1>6 DEF p

\* The cycles from Run-Test/Idle over Capture to Shift.
LEMMA IdleToShiftDR ==
  ASSUME NEW b, NEW u
  PROVE  Clock(Clock(Clock(At("RTI", b, u), 1, "stray"), 0, "stray"), 0, "stray")
           = At("ShDR", << >>, u)
<1>1. /\ TapNext("RTI", 1) = "SelDR" /\ TapNext("SelDR", 0) = "CapDR"
      /\ TapNext("CapDR", 0) = "ShDR"
  BY DEF TapNext, OnLow, OnHigh
<1>2. /\ "SelDR" \in Plain /\ "ShDR" \in Plain
      /\ "RTI" \notin ShiftStates /\ "SelDR" \notin ShiftStates /\ "CapDR" \notin ShiftStates
  BY StatesAre DEF Plain, ShiftStates
<1>3. Clock(At("RTI", b, u), 1, "stray") = At("SelDR", b, u)
  BY <1>1, <1>2, ClockPlain
<1>4. Clock(At("SelDR", b, u), 0, "stray") = At("CapDR", << >>, u)
  BY <1>1, <1>2, ClockCapture
<1>5. Clock(At("CapDR", << >>, u), 0, "stray") = At("ShDR", << >>, u)
  BY <1>1, <1>2, ClockPlain
<1>. QED
  BY <1>3, <1>4, <1>5

\* The same for the instruction register.
LEMMA IdleToShiftIR ==
  ASSUME NEW b, NEW u
  PROVE  Clock(Clock(Clock(Clock(At("RTI", b, u), 1, "stray"), 1, "stray"), 0, "stray"),
               0, "stray")
           = At("ShIR", << >>, u)
<1>1. /\ TapNext("RTI", 1) = "SelDR" /\ TapNext("SelDR", 1) = "SelIR"
      /\ TapNext("SelIR", 0) = "CapIR" /\ TapNext("CapIR", 0) = "ShIR"
  BY DEF TapNext, OnLow, OnHigh
<1>2. /\ "SelDR" \in Plain /\ "SelIR" \in Plain /\ "ShIR" \in Plain
      /\ "RTI" \notin ShiftStates /\ "SelDR" \notin ShiftStates
      /\ "SelIR" \notin ShiftStates /\ "CapIR" \notin ShiftStates
  BY StatesAre DEF Plain, ShiftStates
<1>3. Clock(At("RTI", b, u), 1, "stray") = At("SelDR", b, u)
  BY <1>1, <1>2, ClockPlain
<1>4. Clock(At("SelDR", b, u), 1, "stray") = At("SelIR", b, u)
  BY <1>1, <1>2, ClockPlain
<1>5. Clock(At("SelIR", b, u), 0, "stray") = At("CapIR", << >>, u)
  BY <1>1, <1>2, ClockCapture
<1>6. Clock(At("CapIR", << >>, u), 0, "stray") = At("ShIR", << >>, u)
  BY <1>1, <1>2, ClockPlain
<1>. QED
  BY <1>3, <1>4, <1>5, <1>6

\* A cycle with TMS low takes a TAP that is reset or idles to Run-Test/Idle.
LEMMA ToIdle ==
  ASSUME NEW r \in {"TLR", "RTI"}, NEW b, NEW u
  PROVE  Clock(At(r, b, u), 0, "stray") = At("RTI", b, u)
<1>1. TapNext(r, 0) = "RTI" /\ "RTI" \in Plain /\ r \notin ShiftStates
  BY StatesAre DEF TapNext, OnLow, Plain, ShiftStates
<1>. QED
  BY <1>1, ClockPlain

\* From Run-Test/Idle, and from Test-Logic-Reset, to Shift, by the path for
\* the state the TAP is in.  The one from Test-Logic-Reset also does it if the
\* TAP is in Run-Test/Idle, where the reset of hardware mode has left it.
LEMMA StartScan ==
  ASSUME NEW s \in ShiftStates, NEW b, NEW u,
         NEW from \in {"TLR", "RTI"}, NEW r \in {from, "RTI"}
  PROVE  Walk(At(r, b, u), TmsPath(from, s)) = At(s, << >>, u)
<1> DEFINE p == TmsPath(from, s)
<1>1. CASE from = "RTI" /\ s = "ShDR"
  <2>1. Len(p) = 3 /\ p[1] = 1 /\ p[2] = 0 /\ p[3] = 0
    BY <1>1, Paths
  <2> HIDE DEF p
  <2>2. Walk(At(r, b, u), p) = Clock(Clock(Clock(At(r, b, u), 1, "stray"), 0, "stray"), 0, "stray")
    BY <2>1, WalkThree
  <2>3. r = "RTI"
    BY <1>1
  <2>. QED
    BY <1>1, <2>2, <2>3, IdleToShiftDR DEF p
<1>2. CASE from = "RTI" /\ s = "ShIR"
  <2>1. Len(p) = 4 /\ p[1] = 1 /\ p[2] = 1 /\ p[3] = 0 /\ p[4] = 0
    BY <1>2, Paths
  <2> HIDE DEF p
  <2>2. Walk(At(r, b, u), p)
          = Clock(Clock(Clock(Clock(At(r, b, u), 1, "stray"), 1, "stray"), 0, "stray"), 0, "stray")
    BY <2>1, WalkFour
  <2>3. r = "RTI"
    BY <1>2
  <2>. QED
    BY <1>2, <2>2, <2>3, IdleToShiftIR DEF p
<1>3. CASE from = "TLR" /\ s = "ShDR"
  <2>1. Len(p) = 4 /\ p[1] = 0 /\ p[2] = 1 /\ p[3] = 0 /\ p[4] = 0
    BY <1>3, Paths
  <2> HIDE DEF p
  <2>2. Walk(At(r, b, u), p)
          = Clock(Clock(Clock(Clock(At(r, b, u), 0, "stray"), 1, "stray"), 0, "stray"), 0, "stray")
    BY <2>1, WalkFour
  <2>3. Clock(At(r, b, u), 0, "stray") = At("RTI", b, u)
    BY <1>3, ToIdle
  <2>. QED
    BY <1>3, <2>2, <2>3, IdleToShiftDR DEF p
<1>4. CASE from = "TLR" /\ s = "ShIR"
  <2>1. Len(p) = 5 /\ p[1] = 0 /\ p[2] = 1 /\ p[3] = 1 /\ p[4] = 0 /\ p[5] = 0
    BY <1>4, Paths
  <2> HIDE DEF p
  <2>2. Walk(At(r, b, u), p)
          = Clock(Clock(Clock(Clock(Clock(At(r, b, u), 0, "stray"), 1, "stray"), 1, "stray"),
                        0, "stray"), 0, "stray")
    BY <2>1, WalkFive
  <2>3. Clock(At(r, b, u), 0, "stray") = At("RTI", b, u)
    BY <1>4, ToIdle
  <2>. QED
    BY <1>4, <2>2, <2>3, IdleToShiftIR DEF p
<1>. QED
  BY <1>1, <1>2, <1>3, <1>4 DEF ShiftStates

-------------------------------------------------------------------------------
(* Shifting.                                                               *)

\* A cycle to a state that neither clears nor updates a register.
LEMMA ClockElsewhere ==
  ASSUME NEW t, NEW m, NEW x, NEW v, v = TapNext(t.state, m),
         v \notin {"TLR", "CapDR", "CapIR", "UpdDR", "UpdIR"}
  PROVE  Clock(t, m, x) = [state |-> v, bits |-> Shifted(t, x), updates |-> t.updates]
<1>1. Clock(t, m, x) = [state |-> v, bits |-> Kept(v, Shifted(t, x)),
                        updates |-> Updated(t, v, Shifted(t, x))]
  BY ClockIs
<1>2. Kept(v, Shifted(t, x)) = Shifted(t, x) /\ Updated(t, v, Shifted(t, x)) = t.updates
  BY DEF Kept, Updated
<1>. QED
  BY <1>1, <1>2

\* A cycle in Shift takes a bit in, whether the TAP stays or leaves.
LEMMA ClockShift ==
  ASSUME NEW s \in ShiftStates, NEW q \in Seq(Bits), Len(q) < HISTORY_MAX,
         NEW u \in UpdateSeqs, NEW x \in Bits
  PROVE  /\ Clock(At(s, q, u), 0, x) = At(s, Append(q, x), u)
         /\ Clock(At(s, q, u), 1, x) = At(Exit1(s), Append(q, x), u)
<1>1. /\ TapNext(s, 0) = s /\ TapNext(s, 1) = Exit1(s)
      /\ s \notin {"TLR", "CapDR", "CapIR", "UpdDR", "UpdIR"}
      /\ Exit1(s) \notin {"TLR", "CapDR", "CapIR", "UpdDR", "UpdIR"}
  BY DEF TapNext, OnLow, OnHigh, ShiftStates, Exit1
<1>2. PICK r : r = Append(q, x)
  OBVIOUS
<1>3. ASSUME NEW m \in {0, 1} PROVE Clock(At(s, q, u), m, x) = At(TapNext(s, m), r, u)
  <2>1. PICK t : t = At(s, q, u)
    OBVIOUS
  <2>2. t.state = s /\ t.bits = q /\ t.updates = u
    BY <2>1 DEF At
  <2>3. PICK v : v = TapNext(t.state, m)
    OBVIOUS
  <2>4. v \notin {"TLR", "CapDR", "CapIR", "UpdDR", "UpdIR"}
    BY <1>1, <2>2, <2>3
  <2>5. Shifted(t, x) = r
    BY <1>2, <2>2 DEF Shifted
  <2>6. Clock(t, m, x) = [state |-> v, bits |-> r, updates |-> t.updates]
    <3>1. s \in TapStates
      BY StatesAre DEF ShiftStates
    <3>2. t \in Taps
      <4>1. Len(q) <= HISTORY_MAX
        BY HistoryMaxAssumption
      <4>. QED
        BY <2>1, <3>1, <4>1, TapMade DEF At
    <3>3. Clock(t, m, x) = [state |-> v, bits |-> Shifted(t, x), updates |-> t.updates]
      BY <2>3, <2>4, <3>2, ClockElsewhere
    <3>. QED
      BY <2>5, <3>3
  <2>. QED
    BY <2>1, <2>2, <2>3, <2>6 DEF At
<1>. QED
  BY <1>1, <1>2, <1>3

\* The bits b and the first k of d.
Taken(b, d, k) == [i \in 1 .. Len(b) + k |-> IF i <= Len(b) THEN b[i] ELSE d[i - Len(b)]]

\* They are bits, and as many as said.
LEMMA TakenType ==
  ASSUME NEW b \in Seq(Bits), NEW d \in Seq(Bits), NEW k \in 0 .. Len(d)
  PROVE  Taken(b, d, k) \in Seq(Bits) /\ Len(Taken(b, d, k)) = Len(b) + k
<1>1. Taken(b, d, k) \in [1 .. Len(b) + k -> Bits]
  BY DEF Taken
<1>. QED
  BY <1>1

\* None taken.
LEMMA TakenNone ==
  ASSUME NEW b \in Seq(Bits), NEW d
  PROVE  Taken(b, d, 0) = b
BY DEF Taken

\* Taking one more.
LEMMA TakenNext ==
  ASSUME NEW b \in Seq(Bits), NEW d \in Seq(Bits), NEW k \in 0 .. (Len(d) - 1)
  PROVE  Append(Taken(b, d, k), d[k + 1]) = Taken(b, d, k + 1)
<1> DEFINE q == Taken(b, d, k)
<1>1. q \in Seq(Bits) /\ Len(q) = Len(b) + k
  BY DEF Taken
<1>2. \A i \in 1 .. Len(b) + k : q[i] = IF i <= Len(b) THEN b[i] ELSE d[i - Len(b)]
  BY DEF Taken
<1> HIDE DEF q
<1> DEFINE r == Append(q, d[k + 1])
<1>3. r = [i \in 1 .. Len(q) + 1 |-> IF i <= Len(q) THEN q[i] ELSE d[k + 1]]
  BY <1>1
<1> HIDE DEF r
<1>4. r = [i \in 1 .. Len(b) + (k + 1) |-> r[i]]
  BY <1>1, <1>3
<1>5. ASSUME NEW i \in 1 .. Len(b) + (k + 1)
      PROVE  r[i] = IF i <= Len(b) THEN b[i] ELSE d[i - Len(b)]
  <2>1. CASE i <= Len(b) + k
    <3>1. i \in 1 .. Len(b) + k /\ i \in 1 .. Len(q) + 1 /\ i <= Len(q)
      BY <1>1, <2>1
    <3>. QED
      BY <1>2, <1>3, <3>1
  <2>2. CASE i = Len(b) + k + 1
    <3>1. i \in 1 .. Len(q) + 1 /\ ~(i <= Len(q)) /\ ~(i <= Len(b)) /\ i - Len(b) = k + 1
      BY <1>1, <2>2
    <3>. QED
      BY <1>3, <3>1
  <2>. QED
    BY <2>1, <2>2
<1>6. r = Taken(b, d, k + 1)
  BY <1>4, <1>5 DEF Taken
<1>. QED
  BY <1>6 DEF r, q

\* All of them.
LEMMA TakenAll ==
  ASSUME NEW b \in Seq(Bits), NEW d \in Seq(Bits)
  PROVE  Taken(b, d, Len(d)) = b \o d
<1> DEFINE c == b \o d
<1>1. /\ c \in Seq(Bits) /\ Len(c) = Len(b) + Len(d)
      /\ \A i \in 1 .. Len(b) + Len(d) : c[i] = IF i <= Len(b) THEN b[i] ELSE d[i - Len(b)]
  BY ConcatProperties
<1> HIDE DEF c
<1>2. c = [i \in 1 .. Len(b) + Len(d) |-> c[i]]
  BY <1>1
<1>3. c = Taken(b, d, Len(d))
  BY <1>1, <1>2 DEF Taken
<1>. QED
  BY <1>3 DEF c

\* TMS is low for the first m cycles.
LowFor(tms, m) == Len(tms) \in Nat /\ m <= Len(tms) /\ \A k \in 1 .. m : tms[k] = 0

\* While TMS is low, the TAP stays in Shift and takes one bit after the other.
LEMMA ShiftSome ==
  ASSUME NEW s \in ShiftStates, NEW b \in Seq(Bits), NEW u \in UpdateSeqs, NEW d \in Seq(Bits),
         Len(b) + Len(d) <= HISTORY_MAX, NEW tms, NEW m \in 0 .. Len(d), LowFor(tms, m)
  PROVE  Run(At(s, b, u), tms, d)[m] = At(s, Taken(b, d, m), u)
<1> DEFINE t == At(s, b, u)
           f == Run(t, tms, d)
           G == {k \in 0 .. m : f[k] = At(s, Taken(b, d, k), u)}
<1>. /\ Len(tms) \in Nat /\ m <= Len(tms)
     /\ \A k \in 1 .. m : tms[k] = 0
  BY DEF LowFor
<1>1. IsWalk(f, t, tms, d)
  <2> HIDE DEF t
  <2>. QED
    BY RunIsWalk
<1> HIDE DEF f
<1>2. /\ f[0] = t
      /\ \A k \in 0 .. (Len(tms) - 1) : f[k + 1] = Clock(f[k], tms[k + 1], d[k + 1])
  BY <1>1 DEF IsWalk
<1>3. 0 \in G
  BY <1>2, TakenNone
<1>4. ASSUME NEW k \in 0 .. (m - 1), k \in G PROVE k + 1 \in G
  <2>1. PICK q : q = Taken(b, d, k)
    OBVIOUS
  <2>2. Len(q) < HISTORY_MAX
    <3>1. Len(q) = Len(b) + k
      BY <2>1 DEF Taken
    <3>. QED
      BY <3>1, HistoryMaxAssumption
  <2>3. k \in 0 .. (Len(tms) - 1) /\ k + 1 \in 1 .. m /\ k \in 0 .. (Len(d) - 1)
        /\ k + 1 \in 0 .. m
    OBVIOUS
  <2>4. f[k] = At(s, q, u)
    BY <1>4, <2>1
  <2>5. f[k + 1] = Clock(At(s, q, u), 0, d[k + 1])
    BY <1>2, <2>3, <2>4
  <2>6. PICK r : r = Append(q, d[k + 1])
    OBVIOUS
  <2>7. f[k + 1] = At(s, r, u)
    <3>1. q \in Seq(Bits)
      BY <2>1, <2>3, TakenType
    <3>2. d[k + 1] \in Bits
      BY <2>3
    <3>. QED
      BY <2>2, <2>5, <2>6, <3>1, <3>2, ClockShift
  <2>8. r = Taken(b, d, k + 1)
    BY <2>1, <2>3, <2>6, TakenNext
  <2>. QED
    BY <2>3, <2>7, <2>8
<1> HIDE DEF G
<1>5. 0 .. m \subseteq G
  <2>1. m \in Nat
    OBVIOUS
  <2>. QED
    BY <1>3, <1>4, <2>1, IntervalInduction
<1>6. m \in 0 .. m
  OBVIOUS
<1>7. f[m] = At(s, Taken(b, d, m), u)
  BY <1>5, <1>6 DEF G
<1>. QED
  BY <1>7 DEF f

\* All the bits, with the TAP to stay in Shift.
LEMMA ShiftStay ==
  ASSUME NEW s \in ShiftStates, NEW b \in Seq(Bits), NEW u \in UpdateSeqs,
         NEW d \in Seq(Bits), Len(b) + Len(d) <= HISTORY_MAX
  PROVE  Clocks(At(s, b, u), Repeat(0, Len(d)), d) = At(s, b \o d, u)
<1> DEFINE tms == Repeat(0, Len(d))
           t == At(s, b, u)
<1>1. Len(tms) = Len(d) /\ \A k \in 1 .. Len(d) : tms[k] = 0
  BY DEF Repeat
<1>2. Len(d) \in 0 .. Len(d) /\ Len(d) \in Nat
  OBVIOUS
<1> HIDE DEF tms
<1>3. Run(t, tms, d)[Len(d)] = At(s, Taken(b, d, Len(d)), u)
  <2>1. LowFor(tms, Len(d))
    BY <1>1, <1>2 DEF LowFor
  <2>. QED
    BY <1>2, <2>1, ShiftSome
<1> HIDE DEF t
<1>4. IsWalk(Run(t, tms, d), t, tms, d)
  BY <1>1, <1>2, RunIsWalk
<1>5. Clocks(t, tms, d) = Run(t, tms, d)[Len(d)]
  BY <1>1, <1>4 DEF IsWalk
<1>. QED
  BY <1>3, <1>5, TakenAll DEF tms, t

\* All the bits, the last one on the way out.
LEMMA ShiftLeave ==
  ASSUME NEW s \in ShiftStates, NEW b \in Seq(Bits), NEW u \in UpdateSeqs,
         NEW d \in Seq(Bits), Len(b) + Len(d) <= HISTORY_MAX, Len(d) >= 1
  PROVE  Clocks(At(s, b, u), Then(0, Len(d) - 1, 1), d) = At(Exit1(s), b \o d, u)
<1> DEFINE tms == Then(0, Len(d) - 1, 1)
           t == At(s, b, u)
<1>1. PICK m \in Nat : m = Len(d) - 1
  <2>1. Len(d) \in Nat
    OBVIOUS
  <2>2. Len(d) - 1 \in Nat
    BY <2>1
  <2>. QED
    BY <2>2
<1>2. Len(Then(0, m, 1)) = m + 1
  BY ThenLen
<1>3. \A k \in 1 .. m : Then(0, m, 1)[k] = 0
  BY ThenBody
<1>4. Then(0, m, 1)[m + 1] = 1
  BY ThenLast
<1>5. /\ Len(tms) = m + 1 /\ (\A k \in 1 .. m : tms[k] = 0) /\ tms[m + 1] = 1
  BY <1>1, <1>2, <1>3, <1>4
<1>6. m + 1 = Len(d) /\ m \in 0 .. Len(d) /\ m \in 0 .. (Len(d) - 1) /\ m <= m + 1
  BY <1>1
<1> HIDE DEF tms
<1>7. Run(t, tms, d)[m] = At(s, Taken(b, d, m), u)
  <2>1. LowFor(tms, m)
    BY <1>5 DEF LowFor
  <2>. QED
    BY <1>6, <2>1, ShiftSome
<1> HIDE DEF t
<1>8. IsWalk(Run(t, tms, d), t, tms, d)
  <2>1. Len(tms) \in Nat
    BY <1>5
  <2>. QED
    BY <2>1, RunIsWalk
<1>9. PICK q \in Seq(Bits) : q = Taken(b, d, m) /\ Len(q) < HISTORY_MAX
  <2>1. Taken(b, d, m) \in Seq(Bits) /\ Len(Taken(b, d, m)) = Len(b) + m
    BY <1>6, TakenType
  <2>. QED
    BY <1>6, <2>1, HistoryMaxAssumption
<1>10. /\ Run(t, tms, d)[m + 1] = Clock(Run(t, tms, d)[m], tms[m + 1], d[m + 1])
       /\ Clocks(t, tms, d) = Run(t, tms, d)[m + 1]
  BY <1>5, <1>8 DEF IsWalk
<1>11. Clocks(t, tms, d) = Clock(At(s, q, u), 1, d[m + 1])
  BY <1>5, <1>7, <1>9, <1>10
<1>12. PICK r : r = Append(q, d[m + 1])
  OBVIOUS
<1>13. d[m + 1] \in Bits
  BY <1>6
<1>14. Clock(At(s, q, u), 1, d[m + 1]) = At(Exit1(s), r, u)
  BY <1>9, <1>12, <1>13, ClockShift
<1>15. r = Taken(b, d, m + 1)
  BY <1>6, <1>9, <1>12, TakenNext
<1>16. r = b \o d
  BY <1>6, <1>15, TakenAll
<1>. QED
  BY <1>11, <1>14, <1>16 DEF tms, t

\* A transfer with room for its bits: they are appended to the ones there, and
\* the TAP stays in Shift or goes on from Exit1.
LEMMA XferEffect ==
  ASSUME NEW s \in ShiftStates, NEW b \in Seq(Bits), NEW u \in UpdateSeqs,
         NEW d \in Seq(Bits), Len(b) + Len(d) <= HISTORY_MAX, NEW end,
         end = s \/ Len(d) >= 1
  PROVE  xfer_sw(At(s, b, u), s, d, end) =
           IF end = s THEN At(s, b \o d, u)
           ELSE Walk(At(Exit1(s), b \o d, u), TmsPath(Exit1(s), end))
<1>1. CASE end = s
  BY <1>1, ShiftStay DEF xfer_sw
<1>2. CASE end # s
  <2>1. Clocks(At(s, b, u), Then(0, Len(d) - 1, 1), d) = At(Exit1(s), b \o d, u)
    BY <1>2, ShiftLeave
  <2>2. xfer_sw(At(s, b, u), s, d, end)
          = Walk(Clocks(At(s, b, u), Then(0, Len(d) - 1, 1), d), TmsPath(Exit1(s), end))
    BY <1>2, Zenon DEF xfer_sw, Then
  <2>. QED
    BY <1>2, <2>1, <2>2
<1>. QED
  BY <1>1, <1>2

\* While TMS is low, a TAP in Shift stays there.
LEMMA StayInShift ==
  ASSUME NEW t \in Taps, t.state \in ShiftStates, NEW d \in Seq(Bits)
  PROVE  /\ Clocks(t, Repeat(0, Len(d)), d) \in Taps
         /\ Clocks(t, Repeat(0, Len(d)), d).state = t.state
<1> DEFINE tms == Repeat(0, Len(d))
           P == {v \in Taps : v.state = t.state}
<1>1. Len(tms) = Len(d) /\ Len(tms) \in Nat /\ \A k \in 1 .. Len(tms) : tms[k] = 0
  BY DEF Repeat
<1>2. \A k \in 1 .. Len(tms) : d[k] \in Bits
  BY <1>1
<1> HIDE DEF tms
<1>3. ASSUME NEW v \in P, NEW k \in 1 .. Len(tms) PROVE Clock(v, tms[k], d[k]) \in P
  <2>1. v \in Taps /\ v.state = t.state
    OBVIOUS
  <2>2. Clock(v, tms[k], d[k]) \in Taps
    BY <1>2, <2>1, ClockType
  <2>3. Clock(v, tms[k], d[k]).state = TapNext(t.state, 0)
    BY <1>1, <2>1, ClockState
  <2>4. TapNext(t.state, 0) = t.state
    BY DEF TapNext, OnLow, ShiftStates
  <2>. QED
    BY <2>2, <2>3, <2>4
<1>4. t \in P
  OBVIOUS
<1> HIDE DEF P
<1>5. Clocks(t, tms, d) \in P
  BY <1>1, <1>3, <1>4, RunInduction
<1>. QED
  BY <1>5 DEF P, tms

\* With TMS high at last, it is in Exit1.
LEMMA LeaveShift ==
  ASSUME NEW t \in Taps, t.state \in ShiftStates, NEW d \in Seq(Bits), Len(d) >= 1
  PROVE  /\ Clocks(t, Then(0, Len(d) - 1, 1), d) \in Taps
         /\ Clocks(t, Then(0, Len(d) - 1, 1), d).state = Exit1(t.state)
<1>1. PICK m \in Nat : m = Len(d) - 1
  <2>1. Len(d) \in Nat
    OBVIOUS
  <2>2. Len(d) - 1 \in Nat
    BY <2>1
  <2>. QED
    BY <2>2
<1>2. Len(Then(0, m, 1)) = m + 1
  BY ThenLen
<1>3. \A k \in 1 .. m : Then(0, m, 1)[k] = 0
  BY ThenBody
<1>4. Then(0, m, 1)[m + 1] = 1
  BY ThenLast
<1> DEFINE tms == Then(0, m, 1)
           f == Run(t, tms, d)
           G == {k \in 0 .. m : f[k] \in Taps /\ f[k].state = t.state}
<1>5. Len(tms) = m + 1 /\ (\A k \in 1 .. m : tms[k] = 0) /\ tms[m + 1] = 1
  BY <1>2, <1>3, <1>4
<1>6. \A k \in 1 .. m + 1 : d[k] \in Bits
  BY <1>1
<1> HIDE DEF tms
<1>7. IsWalk(f, t, tms, d)
  <2>1. Len(tms) \in Nat
    BY <1>5
  <2>. QED
    BY <2>1, RunIsWalk
<1> HIDE DEF f
<1>8. /\ f[0] = t
      /\ \A k \in 0 .. m : f[k + 1] = Clock(f[k], tms[k + 1], d[k + 1])
      /\ Clocks(t, tms, d) = f[m + 1]
  BY <1>5, <1>7 DEF IsWalk
<1>9. 0 \in G
  BY <1>8
<1>10. ASSUME NEW k \in 0 .. (m - 1), k \in G PROVE k + 1 \in G
  <2>1. k + 1 \in 1 .. m /\ k \in 0 .. m /\ k + 1 \in 1 .. m + 1 /\ k + 1 \in 0 .. m
    OBVIOUS
  <2>2. f[k + 1] = Clock(f[k], 0, d[k + 1])
    BY <1>5, <1>8, <2>1
  <2>3. f[k] \in Taps /\ f[k].state = t.state
    BY <1>10
  <2>4. f[k + 1] \in Taps
    BY <1>6, <2>1, <2>2, <2>3, ClockType
  <2>5. f[k + 1].state = TapNext(t.state, 0)
    BY <2>2, <2>3, ClockState
  <2>6. TapNext(t.state, 0) = t.state
    BY DEF TapNext, OnLow, ShiftStates
  <2>. QED
    BY <2>1, <2>4, <2>5, <2>6
<1> HIDE DEF G
<1>11. 0 .. m \subseteq G
  BY <1>9, <1>10, IntervalInduction
<1>12. f[m] \in Taps /\ f[m].state = t.state
  <2>1. m \in 0 .. m
    OBVIOUS
  <2>. QED
    BY <1>11, <2>1 DEF G
<1>13. f[m + 1] = Clock(f[m], 1, d[m + 1]) /\ d[m + 1] \in Bits
  BY <1>5, <1>6, <1>8
<1>14. f[m + 1] \in Taps
  BY <1>12, <1>13, ClockType
<1>15. f[m + 1].state = TapNext(t.state, 1)
  BY <1>12, <1>13, ClockState
<1>16. TapNext(t.state, 1) = Exit1(t.state)
  BY DEF TapNext, OnHigh, ShiftStates, Exit1
<1>. QED
  BY <1>1, <1>8, <1>14, <1>15, <1>16 DEF tms

\* Any transfer ends in the state asked for.
LEMMA XferType ==
  ASSUME NEW t \in Taps, t.state \in ShiftStates, NEW d \in Seq(Bits),
         NEW end \in TapStates, end = t.state \/ Len(d) >= 1
  PROVE  /\ xfer_sw(t, t.state, d, end) \in Taps
         /\ xfer_sw(t, t.state, d, end).state = end
<1>1. CASE end = t.state
  BY <1>1, StayInShift DEF xfer_sw
<1>2. CASE end # t.state
  <2>1. PICK v : v = Clocks(t, Then(0, Len(d) - 1, 1), d)
    OBVIOUS
  <2>2. v \in Taps /\ v.state = Exit1(t.state)
    BY <1>2, <2>1, LeaveShift
  <2>3. xfer_sw(t, t.state, d, end) = Walk(v, TmsPath(Exit1(t.state), end))
    BY <1>2, <2>1, Zenon DEF xfer_sw, Then
  <2>4. v.state \in TapStates
    BY <2>2, TapParts
  <2>5. Walk(v, TmsPath(v.state, end)) \in Taps
    BY <2>2, <2>4, PathType
  <2>6. Walk(v, TmsPath(v.state, end)).state = end
    BY <2>4, PathLeads
  <2>. QED
    BY <2>2, <2>3, <2>5, <2>6
<1>. QED
  BY <1>1, <1>2

\* So does any transfer from a TAP that is elsewhere.
LEMMA XferTaps ==
  ASSUME NEW t \in Taps, NEW s \in ShiftStates, NEW d \in Seq(Bits),
         NEW end \in TapStates, end = s \/ Len(d) >= 1
  PROVE  xfer_sw(t, s, d, end) \in Taps
<1>1. CASE end = s
  <2>1. Len(Repeat(0, Len(d))) = Len(d) /\ Len(d) \in Nat /\ \A k \in 1 .. Len(d) : d[k] \in Bits
    BY DEF Repeat
  <2>2. Clocks(t, Repeat(0, Len(d)), d) \in Taps
    BY <2>1, ClocksType
  <2>. QED
    BY <1>1, <2>2 DEF xfer_sw
<1>2. CASE end # s
  <2>1. PICK m \in Nat : m = Len(d) - 1
    <3>1. Len(d) \in Nat
      OBVIOUS
    <3>2. Len(d) - 1 \in Nat
      BY <1>2, <3>1
    <3>. QED
      BY <3>2
  <2>2. PICK tms : tms = Then(0, m, 1)
    OBVIOUS
  <2>3. Len(tms) = m + 1
    BY <2>2, ThenLen
  <2>4. Len(tms) \in Nat /\ \A k \in 1 .. Len(tms) : d[k] \in Bits
    BY <2>1, <2>3
  <2>5. PICK v : v = Clocks(t, tms, d)
    OBVIOUS
  <2>6. v \in Taps
    BY <2>4, <2>5, ClocksType
  <2>7. xfer_sw(t, s, d, end) = Walk(v, TmsPath(Exit1(s), end))
    BY <1>2, <2>1, <2>2, <2>5, Zenon DEF xfer_sw, Then
  <2>8. Exit1(s) \in TapStates
    BY StatesAre DEF Exit1
  <2>. QED
    BY <2>6, <2>7, <2>8, PathType
<1>. QED
  BY <1>1, <1>2

-------------------------------------------------------------------------------
(* The operations of the driver.                                           *)

\* Cycles that carry no data lead from a TAP to a TAP.
LEMMA WalkType ==
  ASSUME NEW t \in Taps, NEW tms, Len(tms) \in Nat
  PROVE  Walk(t, tms) \in Taps
<1>1. \A k \in 1 .. Len(tms) : Repeat("stray", Len(tms))[k] \in Bits
  BY DEF Repeat, Bits
<1>. QED
  BY <1>1, ClocksType DEF Walk

\* Low cycles, as many as there are.
LEMMA LowType ==
  ASSUME NEW t \in Taps, NEW n \in Nat
  PROVE  Walk(t, Repeat(0, n)) \in Taps
<1>1. PICK tms : tms = Repeat(0, n)
  OBVIOUS
<1>2. Len(tms) \in Nat
  BY <1>1 DEF Repeat
<1>. QED
  BY <1>1, <1>2, WalkType

\* A reset in software mode, whatever state is named in it.
LEMMA ResetSw ==
  ASSUME NEW t \in Taps, NEW from \in TapStates
  PROVE  set_tap_state_sw(t, from, "TLR", TRUE) = NewTap
<1>1. Walk(t, Repeat(1, 10)) = NewTap
  BY TapParts, TenHigh
<1>2. PICK n \in Nat : TmsPath(from, "TLR") = Repeat(1, n)
  BY ResetPath
<1>3. Walk(NewTap, TmsPath(from, "TLR")) = NewTap
  BY <1>2, StayReset
<1>. QED
  BY <1>1, <1>3, Zenon DEF set_tap_state_sw

\* A reset in hardware mode.
LEMMA ResetHw ==
  ASSUME NEW t \in Taps
  PROVE  set_tap_state_hw2(t, TRUE) = At("RTI", << >>, << >>)
BY TapParts, FiveHighOneLow, Zenon DEF set_tap_state_hw2

\* Any other move in software mode.
LEMMA MoveSw ==
  ASSUME NEW t, NEW from, NEW end
  PROVE  set_tap_state_sw(t, from, end, FALSE) = Walk(t, TmsPath(from, end))
BY Zenon DEF set_tap_state_sw

\* Any other move in hardware mode.
LEMMA MoveHw ==
  ASSUME NEW t
  PROVE  set_tap_state_hw2(t, FALSE) = t
BY Zenon DEF set_tap_state_hw2

\* A TAP that is new.
LEMMA NewTapIs == NewTap = At("TLR", << >>, << >>) /\ NewTap \in Taps
<1>1. << >> \in Seq(Bits) /\ Len(<< >>) <= HISTORY_MAX /\ << >> \in UpdateSeqs
  BY HistoryMaxAssumption DEF UpdateSeqs
<1>2. "TLR" \in TapStates
  BY StatesAre
<1>. QED
  BY <1>1, <1>2 DEF NewTap, At, Taps

\* The parts of a TAP, put together again.
LEMMA TapAt ==
  ASSUME NEW t \in Taps
  PROVE  t = At(t.state, t.bits, t.updates)
BY TapParts DEF At

\* Their names.
LEMMA AtParts ==
  ASSUME NEW s, NEW b, NEW u
  PROVE  At(s, b, u).state = s /\ At(s, b, u).bits = b /\ At(s, b, u).updates = u
BY DEF At

\* Parts of the right types make a TAP.
LEMMA AtType ==
  ASSUME NEW s \in TapStates, NEW b \in Seq(Bits), Len(b) <= HISTORY_MAX, NEW u \in UpdateSeqs
  PROVE  At(s, b, u) \in Taps
BY TapMade DEF At

\* A TAP of which only the coming updates are looked at.
LEMMA QuietIs ==
  ASSUME NEW t \in Taps
  PROVE  Quiet(t) = At(t.state, t.bits, << >>) /\ Quiet(t) \in Taps
<1>1. Quiet(t) = At(t.state, t.bits, << >>)
  BY DEF Quiet, At, Taps
<1>2. << >> \in UpdateSeqs
  BY DEF UpdateSeqs
<1>3. At(t.state, t.bits, << >>) \in Taps
  BY <1>2, TapParts, AtType
<1>. QED
  BY <1>1, <1>3

\* A TAP that is not followed further.
LEMMA ForgetIs ==
  ASSUME NEW t \in Taps
  PROVE  Forget(t) = At(t.state, << >>, << >>) /\ Forget(t) \in Taps
<1>1. Forget(t) = At(t.state, << >>, << >>)
  <2>1. PICK s \in TapStates, b \in Seq(Bits), u \in UpdateSeqs :
            t = [state |-> s, bits |-> b, updates |-> u]
    BY DEF Taps
  <2>2. PICK e : e = << >>
    OBVIOUS
  <2>3. PICK q : q = [t EXCEPT !.updates = e]
    OBVIOUS
  <2>4. Forget(t) = [q EXCEPT !.bits = e]
    BY <2>2, <2>3 DEF Forget
  <2>5. q = [state |-> s, bits |-> b, updates |-> e]
    BY <2>1, <2>3
  <2>6. [q EXCEPT !.bits = e] = [state |-> s, bits |-> e, updates |-> e]
    BY <2>5
  <2>. QED
    BY <2>1, <2>2, <2>4, <2>6 DEF At
<1>2. << >> \in Seq(Bits) /\ Len(<< >>) <= HISTORY_MAX /\ << >> \in UpdateSeqs
  BY HistoryMaxAssumption DEF UpdateSeqs
<1>3. At(t.state, << >>, << >>) \in Taps
  BY <1>2, TapParts, AtType
<1>. QED
  BY <1>1, <1>3

-------------------------------------------------------------------------------
(* What a scan sends.                                                      *)

\* A client's TAP and its scan.
Ideals == [tap : Taps, open : BOOLEAN]

\* One sequence of bits after the other.
Cat(c, d) == c \o d

\* They make a sequence of bits, as long as both.
LEMMA CatSeq ==
  ASSUME NEW c \in Seq(Bits), NEW d \in Seq(Bits)
  PROVE  Cat(c, d) \in Seq(Bits)
BY ConcatProperties DEF Cat

\* Its length.
LEMMA CatLen ==
  ASSUME NEW c \in Seq(Bits), NEW d \in Seq(Bits)
  PROVE  Len(Cat(c, d)) = Len(c) + Len(d)
BY ConcatProperties DEF Cat

\* The order in which three are put together is not seen.
LEMMA CatCat ==
  ASSUME NEW c \in Seq(Bits), NEW d \in Seq(Bits), NEW e \in Seq(Bits)
  PROVE  Cat(Cat(c, d), e) = Cat(c, Cat(d, e))
<1>1. (c \o d) \o e = c \o (d \o e)
  BY ConcatAssociative
<1>. QED
  BY <1>1, Zenon DEF Cat

\* None after the others leaves those.
LEMMA CatNone ==
  ASSUME NEW c \in Seq(Bits)
  PROVE  Cat(c, << >>) = c
BY ConcatEmptySeq, Zenon DEF Cat

\* There is room for the bits d after b, and one of them leaves Shift if the
\* transfer is to leave it.
Room(b, d, s, end) == Len(b) + Len(d) <= HISTORY_MAX /\ (end = s \/ Len(d) >= 1)

\* The effect of a transfer, in these terms.
LEMMA XferCat ==
  ASSUME NEW s \in ShiftStates, NEW b \in Seq(Bits), NEW u \in UpdateSeqs,
         NEW d \in Seq(Bits), NEW end, Room(b, d, s, end)
  PROVE  xfer_sw(At(s, b, u), s, d, end) =
           IF end = s THEN At(s, Cat(b, d), u)
           ELSE Walk(At(Exit1(s), Cat(b, d), u), TmsPath(Exit1(s), end))
<1>1. Len(b) + Len(d) <= HISTORY_MAX /\ (end = s \/ Len(d) >= 1)
  BY DEF Room
<1>2. xfer_sw(At(s, b, u), s, d, end) =
           IF end = s THEN At(s, b \o d, u)
           ELSE Walk(At(Exit1(s), b \o d, u), TmsPath(Exit1(s), end))
  BY <1>1, XferEffect
<1>. QED
  BY <1>2, Zenon DEF Cat

\* The bits of a scan: padding, data, padding.
Sent(pre, length, post) ==
    Repeat("pad", pre) \o Repeat("data", length) \o Repeat("pad", post)

\* They are bits, and as many as their parts.
LEMMA SentSeq ==
  ASSUME NEW pre \in Nat, NEW length \in Nat, NEW post \in Nat
  PROVE  Sent(pre, length, post) \in Seq(Bits) /\ Len(Sent(pre, length, post)) = pre + length + post
<1>1. PICK p \in Seq(Bits) : p = Repeat("pad", pre) /\ Len(p) = pre
  BY RepeatSeq DEF Bits
<1>2. PICK d \in Seq(Bits) : d = Repeat("data", length) /\ Len(d) = length
  BY RepeatSeq DEF Bits
<1>3. PICK q \in Seq(Bits) : q = Repeat("pad", post) /\ Len(q) = post
  BY RepeatSeq DEF Bits
<1>4. PICK c \in Seq(Bits) : c = Cat(p, d) /\ Len(c) = pre + length
  <2>1. Cat(p, d) \in Seq(Bits)
    BY CatSeq
  <2>2. Len(Cat(p, d)) = Len(p) + Len(d)
    BY CatLen
  <2>. QED
    BY <1>1, <1>2, <2>1, <2>2
<1>5. Cat(c, q) \in Seq(Bits) /\ Len(Cat(c, q)) = pre + length + post
  BY <1>3, <1>4, CatSeq, CatLen
<1>. QED
  BY <1>1, <1>2, <1>3, <1>4, <1>5, Zenon DEF Sent, Cat

\* Nothing repeated is nothing.
LEMMA RepeatNone ==
  ASSUME NEW x
  PROVE  Repeat(x, 0) = << >>
BY DEF Repeat

\* Two transfers, the first of which stays in Shift, are one.
LEMMA TwoTransfers ==
  ASSUME NEW s \in ShiftStates, NEW b \in Seq(Bits), NEW u \in UpdateSeqs,
         NEW d \in Seq(Bits), NEW e \in Seq(Bits),
         NEW end, Room(Cat(b, d), e, s, end)
  PROVE  xfer_sw(xfer_sw(At(s, b, u), s, d, s), s, e, end) = xfer_sw(At(s, b, u), s, Cat(d, e), end)
<1>1. PICK c \in Seq(Bits) : c = Cat(b, d) /\ Len(c) = Len(b) + Len(d)
  BY CatSeq, CatLen
<1>2. PICK f \in Seq(Bits) : f = Cat(d, e) /\ Len(f) = Len(d) + Len(e)
  BY CatSeq, CatLen
<1>3. Cat(b, f) = Cat(c, e)
  BY <1>1, <1>2, CatCat
<1>4. Room(b, d, s, s) /\ Room(c, e, s, end) /\ Room(b, f, s, end)
  <2>1. Len(b) \in Nat /\ Len(d) \in Nat /\ Len(e) \in Nat
    OBVIOUS
  <2>2. Len(c) + Len(e) <= HISTORY_MAX /\ (end = s \/ Len(e) >= 1)
    BY <1>1 DEF Room
  <2>. QED
    BY <1>1, <1>2, <2>1, <2>2, HistoryMaxAssumption DEF Room
<1>5. xfer_sw(At(s, b, u), s, d, s) = At(s, c, u)
  BY <1>1, <1>4, XferCat
<1>6. xfer_sw(At(s, c, u), s, e, end) =
        IF end = s THEN At(s, Cat(c, e), u)
        ELSE Walk(At(Exit1(s), Cat(c, e), u), TmsPath(Exit1(s), end))
  BY <1>4, XferCat
<1>7. xfer_sw(At(s, b, u), s, f, end) =
        IF end = s THEN At(s, Cat(b, f), u)
        ELSE Walk(At(Exit1(s), Cat(b, f), u), TmsPath(Exit1(s), end))
  BY <1>4, XferCat
<1>. QED
  BY <1>2, <1>3, <1>5, <1>6, <1>7

\* The transfers of the handler in software mode without a postfix ...
LEMMA WithoutPostfix ==
  ASSUME NEW s \in ShiftStates, NEW b \in Seq(Bits), NEW u \in UpdateSeqs,
         NEW pre \in Nat, NEW length \in Nat, length >= 1,
         Len(b) + pre + length <= HISTORY_MAX, NEW end
  PROVE  xfer_sw(xfer_sw(At(s, b, u), s, Repeat("pad", pre), s), s, Repeat("data", length), end)
           = xfer_sw(At(s, b, u), s, Sent(pre, length, 0), end)
<1>1. PICK p \in Seq(Bits) : p = Repeat("pad", pre) /\ Len(p) = pre
  BY RepeatSeq DEF Bits
<1>2. PICK d \in Seq(Bits) : d = Repeat("data", length) /\ Len(d) = length
  BY RepeatSeq DEF Bits
<1>3. PICK c \in Seq(Bits) : c = Cat(p, d)
  BY CatSeq, CatLen
<1>4. Sent(pre, length, 0) = c
  <2>1. Cat(c, << >>) = c
    BY CatNone
  <2>. QED
    BY <1>1, <1>2, <1>3, <2>1, RepeatNone, Zenon DEF Sent, Cat
<1>5. xfer_sw(xfer_sw(At(s, b, u), s, p, s), s, d, end) = xfer_sw(At(s, b, u), s, Cat(p, d), end)
  <2>1. Len(b) \in Nat /\ Len(Cat(b, p)) = Len(b) + Len(p)
    BY CatLen
  <2>2. Room(Cat(b, p), d, s, end)
    BY <1>1, <1>2, <2>1 DEF Room
  <2>. QED
    BY <2>2, TwoTransfers
<1>. QED
  BY <1>1, <1>2, <1>3, <1>4, <1>5

\* ... and with one send the same as one transfer of all the bits.
LEMMA WithPostfix ==
  ASSUME NEW s \in ShiftStates, NEW b \in Seq(Bits), NEW u \in UpdateSeqs,
         NEW pre \in Nat, NEW length \in Nat, NEW post \in Nat, length >= 1, post >= 1,
         Len(b) + pre + length + post <= HISTORY_MAX, NEW end
  PROVE  xfer_sw(xfer_sw(xfer_sw(At(s, b, u), s, Repeat("pad", pre), s),
                         s, Repeat("data", length), s),
                 s, Repeat("pad", post), end)
           = xfer_sw(At(s, b, u), s, Sent(pre, length, post), end)
<1>1. PICK p \in Seq(Bits) : p = Repeat("pad", pre) /\ Len(p) = pre
  BY RepeatSeq DEF Bits
<1>2. PICK d \in Seq(Bits) : d = Repeat("data", length) /\ Len(d) = length
  BY RepeatSeq DEF Bits
<1>3. PICK q \in Seq(Bits) : q = Repeat("pad", post) /\ Len(q) = post
  BY RepeatSeq DEF Bits
<1>4. PICK c \in Seq(Bits) : c = Cat(p, d) /\ Len(c) = pre + length
  <2>1. Cat(p, d) \in Seq(Bits)
    BY CatSeq
  <2>2. Len(Cat(p, d)) = Len(p) + Len(d)
    BY CatLen
  <2>. QED
    BY <1>1, <1>2, <2>1, <2>2
<1>5. Sent(pre, length, post) = Cat(c, q)
  BY <1>1, <1>2, <1>3, <1>4, Zenon DEF Sent, Cat
<1>6. xfer_sw(xfer_sw(At(s, b, u), s, p, s), s, d, s) = xfer_sw(At(s, b, u), s, c, s)
  <2>1. Len(b) \in Nat /\ Len(Cat(b, p)) = Len(b) + Len(p)
    BY CatLen
  <2>2. Room(Cat(b, p), d, s, s)
    BY <1>1, <1>2, <2>1, HistoryMaxAssumption DEF Room
  <2>. QED
    BY <1>4, <2>2, TwoTransfers
<1>7. xfer_sw(xfer_sw(At(s, b, u), s, c, s), s, q, end) = xfer_sw(At(s, b, u), s, Cat(c, q), end)
  <2>1. Len(b) \in Nat /\ Len(Cat(b, c)) = Len(b) + Len(c)
    BY CatLen
  <2>2. Room(Cat(b, c), q, s, end)
    BY <1>3, <1>4, <2>1, HistoryMaxAssumption DEF Room
  <2>. QED
    BY <2>2, TwoTransfers
<1>. QED
  BY <1>1, <1>2, <1>3, <1>5, <1>6, <1>7

\* How many padding bits a client expects in a piece of a scan, for which there
\* is room.
Pieces(i, ch, length, end, pre, post) ==
  /\ pre \in Nat /\ length \in Nat /\ post \in Nat /\ length >= 1
  /\ Len(i.tap.bits) + pre + length + post <= HISTORY_MAX
  /\ pre = IF i.open THEN 0 ELSE prefix(ch)
  /\ post = IF end = ch.tap_state THEN 0 ELSE postfix(ch)

\* What the client expects of a scan is one transfer of all the bits to the
\* TAP it knows.
LEMMA IdealScanIs ==
  ASSUME NEW i \in Ideals, NEW s \in ShiftStates, i.tap.state = s, NEW ch, ch.tap_state = s,
         NEW length, NEW end, NEW pre, NEW post, Pieces(i, ch, length, end, pre, post)
  PROVE  /\ ideal_scan(i, ch, length, end).tap = xfer_sw(i.tap, s, Sent(pre, length, post), end)
         /\ ideal_scan(i, ch, length, end).open <=> end = s
<1>. /\ pre \in Nat /\ length \in Nat /\ post \in Nat /\ length >= 1
     /\ Len(i.tap.bits) + pre + length + post <= HISTORY_MAX
  BY DEF Pieces
<1>1. i.tap \in Taps
  BY DEF Ideals
<1>2. PICK b \in Seq(Bits), u \in UpdateSeqs : i.tap = At(s, b, u) /\ i.tap.bits = b
  BY <1>1, TapAt, TapParts
<1>3. PICK f \in Seq(Bits) : f = Sent(pre, length, post) /\ Len(f) = pre + length + post
  <2>1. Sent(pre, length, post) \in Seq(Bits) /\ Len(Sent(pre, length, post)) = pre + length + post
    BY SentSeq
  <2>. QED
    BY <2>1
<1>4. ideal_bits(i, ch, length, end) = f
  <2>1. (IF i.open THEN << >> ELSE Repeat("pad", prefix(ch))) = Repeat("pad", pre)
    BY RepeatNone DEF Pieces
  <2>2. (IF end = ch.tap_state THEN << >> ELSE Repeat("pad", postfix(ch))) = Repeat("pad", post)
    BY RepeatNone DEF Pieces
  <2>. QED
    BY <1>3, <2>1, <2>2, Zenon DEF ideal_bits, Sent
<1>5. PICK c : c = Cat(b, f)
  OBVIOUS
<1>6. [i.tap EXCEPT !.bits = @ \o ideal_bits(i, ch, length, end)] = At(s, c, u)
  <2>1. [i.tap EXCEPT !.bits = @ \o ideal_bits(i, ch, length, end)] = [i.tap EXCEPT !.bits = c]
    <3>1. c = i.tap.bits \o f
      BY <1>2, <1>5 DEF Cat
    <3>. QED
      BY <1>4, <3>1
  <2>2. [At(s, b, u) EXCEPT !.bits = c] = At(s, c, u)
    BY DEF At
  <2>. QED
    BY <1>2, <2>1, <2>2
<1>7. xfer_sw(At(s, b, u), s, f, end) =
        IF end = s THEN At(s, c, u) ELSE Walk(At(Exit1(s), c, u), TmsPath(Exit1(s), end))
  <2>1. Len(b) \in Nat
    OBVIOUS
  <2>2. Room(b, f, s, end)
    BY <1>2, <1>3, <2>1, HistoryMaxAssumption DEF Room
  <2>. QED
    BY <1>5, <2>2, XferCat
<1>8. [At(s, c, u) EXCEPT !.state = Exit1(s)] = At(Exit1(s), c, u)
  BY DEF At
<1>9. PICK full : full = [i.tap EXCEPT !.bits = @ \o ideal_bits(i, ch, length, end)]
  OBVIOUS
<1>10. ideal_scan(i, ch, length, end) =
         IF end = s THEN [tap |-> full, open |-> TRUE]
         ELSE [tap |-> Walk([full EXCEPT !.state = Exit1(s)], TmsPath(Exit1(s), end)),
               open |-> FALSE]
  BY <1>9, Zenon DEF ideal_scan
<1>11. full = At(s, c, u)
  BY <1>6, <1>9
<1>12. xfer_sw(i.tap, s, Sent(pre, length, post), end) = xfer_sw(At(s, b, u), s, f, end)
  BY <1>2, <1>3
<1>13. CASE end = s
  <2>1. ideal_scan(i, ch, length, end) = [tap |-> full, open |-> TRUE]
    BY <1>10, <1>13
  <2>2. ideal_scan(i, ch, length, end).tap = full /\ ideal_scan(i, ch, length, end).open
    BY <2>1
  <2>. QED
    BY <1>7, <1>11, <1>12, <1>13, <2>2
<1>14. CASE end # s
  <2>1. PICK w : w = Walk(At(Exit1(s), c, u), TmsPath(Exit1(s), end))
    OBVIOUS
  <2>2. ideal_scan(i, ch, length, end) = [tap |-> w, open |-> FALSE]
    BY <1>8, <1>10, <1>11, <1>14, <2>1
  <2>3. ideal_scan(i, ch, length, end).tap = w /\ ~ ideal_scan(i, ch, length, end).open
    BY <2>2
  <2>. QED
    BY <1>7, <1>12, <1>14, <2>1, <2>3
<1>. QED
  BY <1>13, <1>14

-------------------------------------------------------------------------------
(* What a chain used as supported looks like.                              *)

\* The handler's record of a chain.
ChainRecords == [padding : [PaddingTypes -> Nat], tap_state : TapStates,
                 scan_state : {"Run", "Done"}]

\* In hardware mode, with nothing under way: the TAP idles, and has yet to go
\* where the client has asked for.
AtRest(t, k, i) ==
  /\ t.state = "RTI"
  /\ k.tap_state \in {"TLR", "RTI"} \cup ShiftStates
  /\ i.tap.state = k.tap_state /\ ~ i.open
  /\ k.tap_state \in ShiftStates => i.tap.bits = << >>

\* In hardware mode, in the middle of a scan: the driver knows the state of
\* the TAP, which may be Pause where the client asked for Shift, and the TAP
\* holds the bits that the client has sent.
UnderWay(t, k, i, cur) ==
  /\ \E x \in ShiftStates : \/ k.tap_state = x /\ cur \in {x, Pause(x)}
                            \/ k.tap_state = Pause(x) /\ cur = Pause(x)
  /\ t.state = cur
  /\ i.tap.state = k.tap_state
  /\ t.bits = i.tap.bits

\* The updates of the TAP t are the ones the client's TAP i has seen, and the
\* handler's record k and the client agree on whether a scan is under way.
Common(t, k, i) == t.updates = i.tap.updates /\ (i.open <=> k.scan_state = "Run")

\* In software mode the TAP is what the client takes it to be.
AgreeSw(t, k, i) == Common(t, k, i) /\ t = i.tap

\* In hardware mode a chain that is not the active one is at rest, and the
\* active one too as long as the driver takes the state cur for an idle one.
AgreeAside(t, k, i) == Common(t, k, i) /\ AtRest(t, k, i)
AgreeHw(cur, t, k, i) ==
  /\ Common(t, k, i)
  /\ IF cur \in {"TLR", "RTI"} THEN AtRest(t, k, i) ELSE UnderWay(t, k, i, cur)

\* A client's TAP of which only the coming updates are looked at.
QuietIdeal(i) == [i EXCEPT !.tap = Quiet(@)]

\* Its parts.
LEMMA QuietIdealIs ==
  ASSUME NEW i \in Ideals
  PROVE  /\ QuietIdeal(i) \in Ideals
         /\ QuietIdeal(i).tap = Quiet(i.tap) /\ QuietIdeal(i).open = i.open
<1>1. i.tap \in Taps
  BY DEF Ideals
<1>2. PICK q \in Taps : q = Quiet(i.tap)
  BY <1>1, QuietIs
<1>. QED
  BY <1>2 DEF QuietIdeal, Ideals

\* Before an operation the TAP is looked at anew: in software mode, ...
LEMMA SwAnew ==
  ASSUME NEW t \in Taps, NEW k, NEW i \in Ideals, AgreeSw(t, k, i)
  PROVE  AgreeSw(Quiet(t), k, QuietIdeal(i))
<1>1. i.tap \in Taps
  BY DEF Ideals
<1>2. PICK q : /\ q = Quiet(t) /\ q.state = t.state /\ q.bits = t.bits
               /\ q.updates = << >>
  BY QuietIs, AtParts
<1>3. PICK p : /\ p = Quiet(i.tap) /\ p.state = i.tap.state /\ p.bits = i.tap.bits
               /\ p.updates = << >>
  BY <1>1, QuietIs, AtParts
<1>4. PICK j : j = QuietIdeal(i) /\ j.tap = p /\ j.open = i.open
  BY <1>3, QuietIdealIs
<1>5. AgreeSw(q, k, j)
  BY <1>2, <1>3, <1>4 DEF AgreeSw, Common
<1>. QED
  BY <1>2, <1>4, <1>5

\* ... on a chain that is not the active one, ...
LEMMA AsideAnew ==
  ASSUME NEW t \in Taps, NEW k, NEW i \in Ideals, AgreeAside(t, k, i)
  PROVE  AgreeAside(Quiet(t), k, QuietIdeal(i))
<1>1. i.tap \in Taps
  BY DEF Ideals
<1>2. PICK q : /\ q = Quiet(t) /\ q.state = t.state /\ q.bits = t.bits
               /\ q.updates = << >>
  BY QuietIs, AtParts
<1>3. PICK p : /\ p = Quiet(i.tap) /\ p.state = i.tap.state /\ p.bits = i.tap.bits
               /\ p.updates = << >>
  BY <1>1, QuietIs, AtParts
<1>4. PICK j : j = QuietIdeal(i) /\ j.tap = p /\ j.open = i.open
  BY <1>3, QuietIdealIs
<1>5. AgreeAside(q, k, j)
  BY <1>2, <1>3, <1>4, Zenon DEF AgreeAside, Common, AtRest
<1>. QED
  BY <1>2, <1>4, <1>5

\* ... and on the active one.
LEMMA HwAnew ==
  ASSUME NEW cur, NEW t \in Taps, NEW k, NEW i \in Ideals, AgreeHw(cur, t, k, i)
  PROVE  AgreeHw(cur, Quiet(t), k, QuietIdeal(i))
<1>1. i.tap \in Taps
  BY DEF Ideals
<1>2. PICK q : /\ q = Quiet(t) /\ q.state = t.state /\ q.bits = t.bits
               /\ q.updates = << >>
  BY QuietIs, AtParts
<1>3. PICK p : /\ p = Quiet(i.tap) /\ p.state = i.tap.state /\ p.bits = i.tap.bits
               /\ p.updates = << >>
  BY <1>1, QuietIs, AtParts
<1>4. PICK j : j = QuietIdeal(i) /\ j.tap = p /\ j.open = i.open
  BY <1>3, QuietIdealIs
<1>5. AgreeHw(cur, q, k, j)
  BY <1>2, <1>3, <1>4, Zenon DEF AgreeHw, Common, AtRest, UnderWay
<1>. QED
  BY <1>2, <1>4, <1>5

\* JTAG_set_tap_state holds Run-Test/Idle and Pause-DR.
Held(s, t) == IF s \in {"RTI", "PauDR"} THEN Walk(t, Repeat(0, 5)) ELSE t

\* Nothing happens to a TAP while it is held where it can be.
LEMMA HeldStays ==
  ASSUME NEW s, NEW t \in Taps, s \in {"RTI", "PauDR"} => t.state \in {"RTI"} \cup PauseStates
  PROVE  Held(s, t) = t
BY Hold DEF Held

\* A TAP held is a TAP.
LEMMA HeldType ==
  ASSUME NEW s, NEW t \in Taps
  PROVE  Held(s, t) \in Taps
BY LowType DEF Held

\* The client's TAP after a move.
LEMMA IdealMoveIs ==
  ASSUME NEW i \in Ideals, NEW s \in TapStates, s # "TLR"
  PROVE  /\ ideal_move(i, s) \in Ideals
         /\ ideal_move(i, s).tap = Walk(i.tap, TmsPath(i.tap.state, s))
         /\ ~ ideal_move(i, s).open
<1>1. i.tap \in Taps
  BY DEF Ideals
<1>2. PICK w \in Taps : w = Walk(i.tap, TmsPath(i.tap.state, s))
  <2>1. i.tap.state \in TapStates
    BY <1>1, TapParts
  <2>. QED
    BY <1>1, <2>1, PathType
<1>3. ideal_move(i, s) = [tap |-> w, open |-> FALSE]
  BY <1>2, Zenon DEF ideal_move
<1>. QED
  BY <1>2, <1>3 DEF Ideals

\* A reset of the client's TAP.
LEMMA IdealReset ==
  ASSUME NEW i
  PROVE  ideal_move(i, "TLR") = NewIdeal
BY Zenon DEF ideal_move, NewIdeal

\* A new client's TAP.
LEMMA NewIdealIs == NewIdeal \in Ideals /\ NewIdeal.tap = NewTap /\ ~ NewIdeal.open
<1>1. PICK t \in Taps : t = NewTap
  BY NewTapIs
<1>2. NewIdeal = [tap |-> t, open |-> FALSE]
  BY <1>1, Zenon DEF NewIdeal
<1>. QED
  BY <1>1, <1>2 DEF Ideals

\* In software mode a move keeps them agreed.
LEMMA MoveAgreesSw ==
  ASSUME NEW t \in Taps, NEW k, NEW i \in Ideals,
         AgreeSw(t, k, i), t.state = k.tap_state, ~ i.open,
         NEW s \in TapStates, s # "TLR", NEW k2, k2.scan_state = k.scan_state
  PROVE  AgreeSw(Held(s, Walk(t, TmsPath(k.tap_state, s))), k2,
               ideal_move(i, s))
<1>1. t = i.tap /\ k.scan_state # "Run"
  BY DEF AgreeSw, Common
<1>2. PICK w : w = Walk(t, TmsPath(t.state, s))
  OBVIOUS
<1>3. w.state = s
  BY <1>2, TapParts, PathLeads
<1>4. w \in Taps
  BY <1>2, TapParts, PathType
<1>5. Held(s, w) = w
  BY <1>3, <1>4, HeldStays DEF PauseStates
<1>6. PICK j : j = ideal_move(i, s) /\ j.tap = w /\ ~ j.open
  BY <1>1, <1>2, IdealMoveIs
<1>7. AgreeSw(w, k2, j)
  BY <1>1, <1>6 DEF AgreeSw, Common
<1>. QED
  BY <1>2, <1>5, <1>6, <1>7

\* In hardware mode a move that the next scan makes itself keeps an idle chain
\* agreed ...
LEMMA MoveFromRest ==
  ASSUME NEW t \in Taps, NEW k, NEW i \in Ideals, AtRest(t, k, i),
         NEW s \in TapStates, s # "TLR", hw_move(k.tap_state, s), NEW k2, k2.tap_state = s
  PROVE  AtRest(t, k2, ideal_move(i, s)) /\ ideal_move(i, s).tap.updates = i.tap.updates
<1>1. PICK f : f = k.tap_state
  OBVIOUS
<1>2. /\ t.state = "RTI" /\ f \in {"TLR", "RTI"} \cup ShiftStates
      /\ i.tap.state = f /\ (f \in ShiftStates => i.tap.bits = << >>)
  BY <1>1 DEF AtRest
<1>3. i.tap \in Taps
  BY DEF Ideals
<1>4. PICK b \in Seq(Bits), u \in UpdateSeqs : i.tap = At(f, b, u) /\ i.tap.bits = b /\ i.tap.updates = u
  BY <1>2, <1>3, TapAt, TapParts
<1>5. PICK j : j = ideal_move(i, s) /\ j.tap = Walk(At(f, b, u), TmsPath(f, s)) /\ ~ j.open
  BY <1>2, <1>4, IdealMoveIs
<1>6. CASE f = s
  <2>1. j.tap = At(f, b, u)
    BY <1>5, <1>6, SamePath
  <2>. QED
    BY <1>1, <1>2, <1>4, <1>5, <1>6, <2>1 DEF AtRest
<1>7. CASE f # s
  <2>1. f \in {"TLR", "RTI"} /\ s \in {"RTI"} \cup ShiftStates
    <3>1. \/ f \in {"TLR", "RTI"} /\ s \in {"RTI"} \cup ShiftStates
          \/ s \in ShiftStates /\ f = Pause(s)
      BY <1>1, <1>7 DEF hw_move
    <3>2. s \in ShiftStates => f # Pause(s)
      BY <1>2 DEF Pause, ShiftStates
    <3>. QED
      BY <3>1, <3>2
  <2>2. CASE s = "RTI"
    <3>1. f = "TLR"
      BY <1>7, <2>1, <2>2
    <3>2. j.tap = At("RTI", b, u)
      BY <1>5, <2>2, <3>1, LeaveReset
    <3>3. j.tap.state = "RTI" /\ j.tap.updates = u
      BY <3>2, AtParts
    <3>4. "RTI" \notin ShiftStates
      BY DEF ShiftStates
    <3>. QED
      BY <1>2, <1>4, <1>5, <2>2, <3>3, <3>4 DEF AtRest
  <2>3. CASE s \in ShiftStates
    <3>1. j.tap = At(s, << >>, u)
      BY <1>5, <2>1, <2>3, StartScan
    <3>2. j.tap.state = s /\ j.tap.updates = u /\ j.tap.bits = << >>
      BY <3>1, AtParts
    <3>. QED
      BY <1>2, <1>4, <1>5, <2>3, <3>2 DEF AtRest
  <2>. QED
    BY <2>1, <2>2, <2>3
<1>. QED
  BY <1>6, <1>7

\* ... and one in the middle of a scan.
LEMMA MoveUnderWay ==
  ASSUME NEW cur, NEW t \in Taps, NEW k, NEW i \in Ideals, UnderWay(t, k, i, cur),
         NEW s \in TapStates, s # "TLR", hw_move(k.tap_state, s), NEW k2, k2.tap_state = s
  PROVE  /\ UnderWay(t, k2, ideal_move(i, s), cur)
         /\ ideal_move(i, s).tap.updates = i.tap.updates
         /\ s \in {"RTI", "PauDR"} => t.state \in PauseStates
<1>1. PICK f : f = k.tap_state
  OBVIOUS
<1>2. PICK x \in ShiftStates : (f = x /\ cur \in {x, Pause(x)}) \/ (f = Pause(x) /\ cur = Pause(x))
  BY <1>1 DEF UnderWay
<1>3. t.state = cur /\ i.tap.state = f /\ t.bits = i.tap.bits
  BY <1>1 DEF UnderWay
<1>4. i.tap \in Taps
  BY DEF Ideals
<1>5. PICK b \in Seq(Bits), u \in UpdateSeqs : i.tap = At(f, b, u) /\ i.tap.bits = b /\ i.tap.updates = u
  BY <1>3, <1>4, TapAt, TapParts
<1>6. PICK j : j = ideal_move(i, s) /\ j.tap = Walk(At(f, b, u), TmsPath(f, s)) /\ ~ j.open
  BY <1>3, <1>5, IdealMoveIs
<1>7. CASE f = s
  <2>1. j.tap = At(f, b, u)
    BY <1>6, <1>7, SamePath
  <2>2. s \in {"RTI", "PauDR"} => t.state \in PauseStates
    BY <1>2, <1>3, <1>7 DEF ShiftStates, Pause, PauseStates
  <2>. QED
    BY <1>1, <1>2, <1>3, <1>5, <1>6, <1>7, <2>1, <2>2 DEF UnderWay
<1>8. CASE f # s
  <2>1. s \in ShiftStates /\ f = Pause(s)
    <3>1. \/ f \in {"TLR", "RTI"} /\ s \in {"RTI"} \cup ShiftStates
          \/ s \in ShiftStates /\ f = Pause(s)
      BY <1>1, <1>8 DEF hw_move
    <3>2. f \notin {"TLR", "RTI"}
      BY <1>2 DEF ShiftStates, Pause
    <3>. QED
      BY <3>1, <3>2
  <2>2. s = x /\ cur = Pause(x) /\ s \notin {"RTI", "PauDR"}
    BY <1>2, <2>1 DEF ShiftStates, Pause
  <2>3. j.tap = At(s, b, u)
    BY <1>6, <2>1, ResumeScan
  <2>4. j.tap.state = s /\ j.tap.updates = u /\ j.tap.bits = b
    BY <2>3, AtParts
  <2>. QED
    BY <1>3, <1>5, <1>6, <2>2, <2>4 DEF UnderWay
<1>. QED
  BY <1>7, <1>8

\* In hardware mode a move keeps them agreed.
LEMMA MoveAgreesHw ==
  ASSUME NEW cur, NEW t \in Taps, NEW k, NEW i \in Ideals, ~ i.open,
         AgreeHw(cur, t, k, i), NEW s \in TapStates, s # "TLR",
         hw_move(k.tap_state, s), NEW k2, k2.tap_state = s, k2.scan_state = k.scan_state
  PROVE  AgreeHw(cur, Held(s, t), k2, ideal_move(i, s))
<1>1. t.updates = i.tap.updates /\ k.scan_state # "Run"
  BY DEF AgreeHw, Common
<1>2. PICK j : j = ideal_move(i, s) /\ ~ j.open
  BY IdealMoveIs
<1>3. CASE cur \in {"TLR", "RTI"}
  <2>1. AtRest(t, k, i)
    BY <1>3 DEF AgreeHw, Common
  <2>2. AtRest(t, k2, j) /\ j.tap.updates = i.tap.updates
    BY <1>2, <2>1, MoveFromRest
  <2>3. Held(s, t) = t
    BY <2>1, HeldStays DEF AtRest
  <2>. QED
    BY <1>1, <1>2, <1>3, <2>2, <2>3 DEF AgreeHw, Common
<1>4. CASE cur \notin {"TLR", "RTI"}
  <2>1. UnderWay(t, k, i, cur)
    BY <1>4 DEF AgreeHw, Common
  <2>2. UnderWay(t, k2, j, cur) /\ j.tap.updates = i.tap.updates
    BY <1>2, <2>1, MoveUnderWay
  <2>3. s \in {"RTI", "PauDR"} => t.state \in PauseStates
    BY <2>1, MoveUnderWay
  <2>4. s \in {"RTI", "PauDR"} => t.state \in {"RTI"} \cup PauseStates
    BY <2>3
  <2>5. Held(s, t) = t
    BY <2>4, HeldStays
  <2>. QED
    BY <1>1, <1>2, <1>4, <2>2, <2>5 DEF AgreeHw, Common
<1>. QED
  BY <1>3, <1>4

\* Cycles with TMS low change nothing from the states JTAG_wait_cycles is
\* called in.
LEMMA WaitHw ==
  ASSUME NEW cur, NEW t \in Taps, NEW k, NEW i, AgreeHw(cur, t, k, i),
         k.tap_state \in {"RTI"} \cup PauseStates, NEW n \in Nat
  PROVE  Walk(t, Repeat(0, n)) = t
<1>1. CASE cur \in {"TLR", "RTI"}
  <2>1. t.state = "RTI"
    BY <1>1 DEF AgreeHw, AtRest
  <2>. QED
    BY <2>1, Hold
<1>2. CASE cur \notin {"TLR", "RTI"}
  <2>1. UnderWay(t, k, i, cur)
    BY <1>2 DEF AgreeHw
  <2>2. t.state \in PauseStates
    BY <2>1 DEF UnderWay, ShiftStates, Pause, PauseStates
  <2>. QED
    BY <2>2, Hold
<1>. QED
  BY <1>1, <1>2

\* The paddings of a scan are numbers, ...
LEMMA PadsType ==
  ASSUME NEW k \in ChainRecords
  PROVE  prefix(k) \in Nat /\ postfix(k) \in Nat
BY DEF prefix, postfix, ChainRecords, PaddingTypes

\* ... and the handler sends the ones the client expects if the two agree on
\* whether a scan is under way.
LEMMA PiecesAre ==
  ASSUME NEW k \in ChainRecords, NEW i, i.open <=> k.scan_state = "Run", NEW end,
         NEW length \in Nat, length >= 1,
         NEW pre, pre = IF first_piece(k) THEN prefix(k) ELSE 0,
         NEW post, post = IF end # k.tap_state THEN postfix(k) ELSE 0,
         Len(i.tap.bits) + pre + length + post <= HISTORY_MAX
  PROVE  Pieces(i, k, length, end, pre, post)
<1>1. first_piece(k) <=> ~ i.open
  BY DEF first_piece, ChainRecords
<1>2. pre \in Nat /\ post \in Nat
  BY PadsType
<1>. QED
  BY <1>1, <1>2 DEF Pieces

\* The client's TAP after a scan.
LEMMA IdealScanType ==
  ASSUME NEW i, NEW k, NEW length, NEW end, ideal_scan(i, k, length, end).tap \in Taps
  PROVE  ideal_scan(i, k, length, end) \in Ideals
<1>1. PICK full : full = [i.tap EXCEPT !.bits = @ \o ideal_bits(i, k, length, end)]
  OBVIOUS
<1>2. PICK w : w = Walk([full EXCEPT !.state = Exit1(k.tap_state)], TmsPath(Exit1(k.tap_state), end))
  OBVIOUS
<1>3. ideal_scan(i, k, length, end) = IF end = k.tap_state THEN [tap |-> full, open |-> TRUE]
                                      ELSE [tap |-> w, open |-> FALSE]
  BY <1>1, <1>2, Zenon DEF ideal_scan
<1>. QED
  BY <1>3 DEF Ideals

\* What the client expects of a scan: all the bits, and the state asked for.
LEMMA ScanExpected ==
  ASSUME NEW i \in Ideals, NEW k \in ChainRecords, k.tap_state \in ShiftStates,
         i.tap.state = k.tap_state,
         NEW length, NEW end \in TapStates, NEW pre, NEW post, Pieces(i, k, length, end, pre, post)
  PROVE  /\ ideal_scan(i, k, length, end) \in Ideals
         /\ ideal_scan(i, k, length, end).tap
              = xfer_sw(i.tap, k.tap_state, Sent(pre, length, post), end)
         /\ ideal_scan(i, k, length, end).tap.state = end
         /\ ideal_scan(i, k, length, end).open <=> end = k.tap_state
<1>1. i.tap \in Taps
  BY DEF Ideals
<1>2. PICK f \in Seq(Bits) : f = Sent(pre, length, post) /\ Len(f) >= 1
  <2>. pre \in Nat /\ length \in Nat /\ post \in Nat /\ length >= 1
    BY DEF Pieces
  <2>1. Sent(pre, length, post) \in Seq(Bits)
    BY SentSeq
  <2>2. Len(Sent(pre, length, post)) = pre + length + post
    BY SentSeq
  <2>3. Len(Sent(pre, length, post)) >= 1
    BY <2>2
  <2>. QED
    BY <2>1, <2>3
<1>3. PICK s \in ShiftStates : s = k.tap_state
  OBVIOUS
<1>4. PICK t \in Taps : t = i.tap /\ t.state = s
  BY <1>1, <1>3
<1>5. xfer_sw(t, t.state, f, end) \in Taps /\ xfer_sw(t, t.state, f, end).state = end
  <2>1. t.state \in ShiftStates
    BY <1>4
  <2>. QED
    BY <1>2, <2>1, XferType
<1>6. PICK j : j = ideal_scan(i, k, length, end) /\ j.tap = xfer_sw(t, s, f, end) /\ (j.open <=> end = s)
  <2>1. k.tap_state = s /\ i.tap.state = s
    BY <1>3
  <2>2. ideal_scan(i, k, length, end).tap = xfer_sw(i.tap, s, Sent(pre, length, post), end)
    BY <2>1, IdealScanIs
  <2>3. ideal_scan(i, k, length, end).open <=> end = s
    BY <2>1, IdealScanIs
  <2>. QED
    BY <1>2, <1>4, <2>2, <2>3
<1>7. j \in Ideals
  BY <1>4, <1>5, <1>6, IdealScanType
<1>. QED
  BY <1>2, <1>3, <1>4, <1>5, <1>6, <1>7

\* In software mode a scan sends what the client expects.
LEMMA ScanAgreesSw ==
  ASSUME NEW t \in Taps, NEW k \in ChainRecords, NEW i \in Ideals,
         AgreeSw(t, k, i), k.tap_state \in ShiftStates, t.state = k.tap_state,
         NEW length, NEW end \in TapStates, NEW pre, NEW post, Pieces(i, k, length, end, pre, post),
         NEW k2, k2.scan_state = "Run" <=> end = k.tap_state
  PROVE  /\ ideal_scan(i, k, length, end) \in Ideals
         /\ AgreeSw(xfer_sw(t, k.tap_state, Sent(pre, length, post), end), k2,
                  ideal_scan(i, k, length, end))
<1>1. t = i.tap /\ i.tap.state = k.tap_state
  BY DEF AgreeSw, Common
<1>2. PICK j : /\ j = ideal_scan(i, k, length, end) /\ j \in Ideals
               /\ j.tap = xfer_sw(t, k.tap_state, Sent(pre, length, post), end)
               /\ (j.open <=> end = k.tap_state)
  BY <1>1, ScanExpected
<1>. QED
  BY <1>2 DEF AgreeSw, Common

\* No update of the TAP has been noted yet.
Fresh(t) == t.updates = << >>

\* The TAP a transfer of hardware mode begins with.
Started(t, s, cur) == IF cur = s THEN t ELSE Walk(t, TmsPath(cur, s))

\* In hardware mode the driver brings the TAP to where the client takes it to
\* be before it sends a bit, and accepts the scan.
LEMMA HwStarted ==
  ASSUME NEW cur, NEW t \in Taps, NEW k, NEW i \in Ideals, AgreeHw(cur, t, k, i),
         Fresh(t), NEW s \in ShiftStates, k.tap_state = s
  PROVE  /\ Started(t, s, cur) = i.tap
         /\ i.tap.state = s
         /\ cur \in {s, "RTI", "TLR", Pause(s)}
<1>1. i.tap \in Taps /\ i.tap.updates = << >> /\ t.updates = << >>
  BY DEF Ideals, AgreeHw, Common, Fresh
<1>2. PICK e : e = << >>
  OBVIOUS
<1>3. CASE cur \in {"TLR", "RTI"}
  <2>1. t.state = "RTI" /\ i.tap.state = s /\ i.tap.bits = e
    BY <1>2, <1>3 DEF AgreeHw, Common, AtRest
  <2>2. t = At("RTI", t.bits, e) /\ i.tap = At(s, e, e)
    BY <1>1, <1>2, <2>1, TapAt
  <2>3. Walk(At("RTI", t.bits, e), TmsPath(cur, s)) = At(s, e, e)
    BY <1>2, <1>3, StartScan
  <2>4. cur # s
    BY <1>3 DEF ShiftStates
  <2>. QED
    BY <1>3, <2>1, <2>2, <2>3, <2>4 DEF Started
<1>4. CASE cur \notin {"TLR", "RTI"}
  <2>1. UnderWay(t, k, i, cur)
    BY <1>4 DEF AgreeHw, Common
  <2>2. /\ cur \in {s, Pause(s)} /\ t.state = cur
        /\ i.tap.state = s /\ t.bits = i.tap.bits
    BY <2>1 DEF UnderWay, ShiftStates, Pause
  <2>3. t = At(cur, t.bits, e) /\ i.tap = At(s, t.bits, e)
    BY <1>1, <1>2, <2>2, TapAt
  <2>4. Walk(At(Pause(s), t.bits, e), TmsPath(Pause(s), s)) = At(s, t.bits, e)
    BY ResumeScan
  <2>. QED
    BY <2>2, <2>3, <2>4 DEF Started
<1>. QED
  BY <1>3, <1>4

\* Where the driver goes in hardware mode.
LEMMA HwEndstate ==
  ASSUME NEW s \in ShiftStates, NEW length, NEW end \in {s, "RTI", Pause(s)}
  PROVE  hw2_endstate(s, length, end) = IF end = s /\ length = 1 THEN Pause(s) ELSE end
<1>1. end # Exit1(s)
  BY DEF ShiftStates, Exit1, Pause
<1>. QED
  BY <1>1, Zenon DEF hw2_endstate

\* It never has the single bit to shift that the controller gets wrong.
LEMMA NoSingleBit ==
  ASSUME NEW s \in ShiftStates, NEW length, NEW end
  PROVE  ~ (hw2_endstate(s, length, end) = s /\ length = 1)
<1>1. Pause(s) # s /\ "RTI" # s
  BY DEF ShiftStates, Pause
<1>2. CASE end = s
  BY <1>1, <1>2, Zenon DEF hw2_endstate
<1>3. CASE end # s
  <2>1. hw2_endstate(s, length, end) \in {"RTI", end}
    <3>1. CASE end = Exit1(s)
      BY <1>3, <3>1, Zenon DEF hw2_endstate
    <3>2. CASE end # Exit1(s)
      BY <1>3, <3>2, Zenon DEF hw2_endstate
    <3>. QED
      BY <3>1, <3>2
  <2>. QED
    BY <1>1, <1>3, <2>1
<1>. QED
  BY <1>2, <1>3

\* A transfer in hardware mode is one in software mode, begun where the TAP is.
LEMMA XferHwIs ==
  ASSUME NEW t, NEW s \in ShiftStates, NEW pre, NEW length, NEW post, NEW end
  PROVE  xfer_hw2(t, s, pre, length, post, end)
           = xfer_sw(Started(t, s, current_state), s, Sent(pre, length, post), hw2_endstate(s, length, end))
<1>1. ~ (hw2_endstate(s, length, end) = s /\ length = 1)
  BY NoSingleBit
<1>. QED
  BY <1>1, Zenon DEF xfer_hw2, Sent, Started

\* It leads to a TAP, whatever the driver takes the state to be.
LEMMA XferHwType ==
  ASSUME NEW t \in Taps, current_state \in TapStates, NEW s \in ShiftStates,
         NEW pre \in Nat, NEW length \in Nat, length >= 1, NEW post \in Nat,
         NEW end \in TapStates
  PROVE  /\ hw2_endstate(s, length, end) \in TapStates
         /\ xfer_hw2(t, s, pre, length, post, end) \in Taps
<1>1. s \in TapStates /\ "RTI" \in TapStates /\ Pause(s) \in TapStates
  BY StatesAre DEF ShiftStates, Pause
<1>2. PICK w \in Taps : w = Started(t, s, current_state)
  BY <1>1, PathType DEF Started
<1>3. PICK f \in Seq(Bits) : f = Sent(pre, length, post) /\ Len(f) >= 1
  <2>1. Sent(pre, length, post) \in Seq(Bits)
    BY SentSeq
  <2>2. Len(Sent(pre, length, post)) = pre + length + post
    BY SentSeq
  <2>3. Len(Sent(pre, length, post)) >= 1
    BY <2>2
  <2>. QED
    BY <2>1, <2>3
<1>4. hw2_endstate(s, length, end) \in {Pause(s), "RTI", end}
  <2>1. CASE end = s /\ length = 1
    BY <2>1, Zenon DEF hw2_endstate
  <2>2. CASE ~ (end = s /\ length = 1) /\ end = Exit1(s)
    BY <2>2, Zenon DEF hw2_endstate
  <2>3. CASE ~ (end = s /\ length = 1) /\ end # Exit1(s)
    BY <2>3, Zenon DEF hw2_endstate
  <2>. QED
    BY <2>1, <2>2, <2>3
<1>5. PICK e \in TapStates : e = hw2_endstate(s, length, end)
  BY <1>1, <1>4
<1>6. xfer_sw(w, s, f, e) \in Taps
  BY <1>3, XferTaps
<1>. QED
  BY <1>2, <1>3, <1>5, <1>6, XferHwIs

\* In hardware mode a scan sends what the client expects, and leaves the TAP
\* where the driver takes it to be.
LEMMA ScanAgreesHw ==
  ASSUME NEW t \in Taps, NEW k \in ChainRecords, NEW i \in Ideals,
         AgreeHw(current_state, t, k, i), Fresh(t),
         NEW s \in ShiftStates, k.tap_state = s,
         NEW length, NEW end \in {s, "RTI", Pause(s)}, NEW pre, NEW post,
         Pieces(i, k, length, end, pre, post),
         NEW k2, k2.tap_state = end, k2.scan_state = "Run" <=> end = s
  PROVE  /\ ideal_scan(i, k, length, end) \in Ideals
         /\ AgreeHw(hw2_endstate(s, length, end),
                  xfer_hw2(t, s, pre, length, post, end), k2, ideal_scan(i, k, length, end))
<1>1. PICK w : /\ w = Started(t, s, current_state)
               /\ w = i.tap /\ w.state = s
  <2>1. Started(t, s, current_state) = i.tap
    BY HwStarted
  <2>2. i.tap.state = s
    BY HwStarted
  <2>. QED
    BY <2>1, <2>2
<1>2. w \in Taps
  BY <1>1 DEF Ideals
<1>3. PICK b \in Seq(Bits), u \in UpdateSeqs : w = At(s, b, u) /\ w.bits = b
  BY <1>1, <1>2, TapAt, TapParts
<1>4. end \in TapStates
  BY StatesAre DEF ShiftStates, Pause
<1>5. PICK f : f = Sent(pre, length, post)
  OBVIOUS
<1>6. f \in Seq(Bits) /\ Room(b, f, s, Pause(s)) /\ Room(b, f, s, s)
  <2>1. /\ pre \in Nat /\ length \in Nat /\ post \in Nat /\ length >= 1
        /\ Len(b) + pre + length + post <= HISTORY_MAX
    BY <1>1, <1>3 DEF Pieces
  <2>2. Sent(pre, length, post) \in Seq(Bits)
    BY <2>1, SentSeq
  <2>3. Len(Sent(pre, length, post)) = pre + length + post
    BY <2>1, SentSeq
  <2>4. Len(b) \in Nat
    OBVIOUS
  <2>. QED
    BY <1>5, <2>1, <2>2, <2>3, <2>4, HistoryMaxAssumption DEF Room
<1>7. PICK e : e = hw2_endstate(s, length, end)
  OBVIOUS
<1>8. e = IF end = s /\ length = 1 THEN Pause(s) ELSE end
  BY <1>7, HwEndstate
<1>9. PICK v : v = xfer_hw2(t, s, pre, length, post, end)
  OBVIOUS
<1>10. v = xfer_sw(w, s, f, e)
  <2>1. xfer_hw2(t, s, pre, length, post, end)
          = xfer_sw(Started(t, s, current_state), s, Sent(pre, length, post),
                    hw2_endstate(s, length, end))
    BY XferHwIs
  <2>. QED
    BY <1>1, <1>5, <1>7, <1>9, <2>1
<1>11. PICK j : j = ideal_scan(i, k, length, end)
  OBVIOUS
<1>12. /\ j \in Ideals /\ j.tap = xfer_sw(w, s, f, end)
       /\ j.tap.state = end /\ (j.open <=> end = s)
  BY <1>1, <1>4, <1>5, <1>11, ScanExpected
<1>13. s \notin {"TLR", "RTI"} /\ Pause(s) \notin {"TLR", "RTI"} /\ Pause(s) # s
  BY DEF ShiftStates, Pause
<1>14. AgreeHw(e, v, k2, j)
  <2>1. CASE end = s /\ length = 1
    <3>1. PICK c : c = Cat(b, f)
      OBVIOUS
    <3>2. xfer_sw(At(s, b, u), s, f, Pause(s)) = Walk(At(Exit1(s), c, u), TmsPath(Exit1(s), Pause(s)))
      BY <1>6, <1>13, <3>1, XferCat
    <3>3. v = At(Pause(s), c, u)
      BY <1>3, <1>8, <1>10, <2>1, <3>2, EndInPause
    <3>4. xfer_sw(At(s, b, u), s, f, s) = At(s, c, u)
      BY <1>6, <3>1, XferCat
    <3>5. j.tap = At(s, c, u)
      BY <1>3, <1>12, <2>1, <3>4
    <3>6. /\ v.state = Pause(s) /\ v.bits = c /\ v.updates = u
          /\ j.tap.bits = c /\ j.tap.updates = u
      BY <3>3, <3>5, AtParts
    <3>7. e = Pause(s)
      BY <1>8, <2>1
    <3>8. UnderWay(v, k2, j, e)
      BY <1>12, <2>1, <3>6, <3>7 DEF UnderWay
    <3>. QED
      BY <1>12, <1>13, <2>1, <3>6, <3>7, <3>8 DEF AgreeHw, Common
  <2>2. CASE ~ (end = s /\ length = 1)
    <3>1. e = end /\ v = j.tap
      BY <1>8, <1>10, <1>12, <2>2
    <3>2. CASE end = "RTI"
      <4>1. AtRest(v, k2, j)
        BY <1>12, <1>13, <3>1, <3>2 DEF AtRest, ShiftStates
      <4>. QED
        BY <1>12, <3>1, <3>2, <4>1 DEF AgreeHw, Common
    <3>3. CASE end \in {s, Pause(s)}
      <4>1. UnderWay(v, k2, j, e)
        BY <1>12, <3>1, <3>3 DEF UnderWay
      <4>2. e \notin {"TLR", "RTI"}
        BY <1>13, <3>1, <3>3
      <4>. QED
        BY <1>12, <3>1, <4>1, <4>2 DEF AgreeHw, Common
    <3>. QED
      BY <3>2, <3>3
  <2>. QED
    BY <2>1, <2>2
<1>. QED
  BY <1>7, <1>9, <1>11, <1>12, <1>14

-------------------------------------------------------------------------------
(* The inductive invariant.                                                *)

\* The variables have their types, the bits and updates of the TAPs included.
Types ==
  /\ opened \in BOOLEAN /\ sw_mode \in BOOLEAN /\ active_chain \in Chains
  /\ chains \in [Chains -> ChainRecords]
  /\ \A c \in Chains : \A p \in PaddingTypes : chains[c].padding[p] <= MaxPad(p)
  /\ current_state \in TapStates
  /\ in_step \subseteq reset_done /\ reset_done \subseteq Chains
  /\ tap \in [Chains -> Taps] /\ ideal \in [Chains -> Ideals]

\* The three parties agree on every chain used as supported.
Agreed ==
  \A c \in in_step :
      IF sw_mode THEN AgreeSw(tap[c], chains[c], ideal[c])
      ELSE IF c = active_chain THEN AgreeHw(current_state, tap[c], chains[c], ideal[c])
      ELSE AgreeAside(tap[c], chains[c], ideal[c])

\* In software mode the handler knows the state of the TAPs it has reset.
Known == sw_mode => \A c \in reset_done : tap[c].state = chains[c].tap_state

IInv ==
  /\ Types
  /\ ~ opened => reset_done = {}
  /\ Known
  /\ Agreed

\* What an operation on the active chain comes to: TAP t, client's TAP i and
\* record k of the handler.
Outcome(t, i, k) ==
  /\ opened' = opened /\ sw_mode' = sw_mode /\ active_chain' = active_chain
  /\ current_state' \in TapStates
  /\ chains' = [c \in Chains |-> IF c # active_chain THEN chains[c] ELSE k]
  /\ tap' = [c \in Chains |-> IF c # active_chain THEN Quiet(tap[c]) ELSE t]
  /\ ideal' = [c \in Chains |-> IF c # active_chain THEN QuietIdeal(ideal[c]) ELSE i]
  /\ \A p \in PaddingTypes : k.padding[p] <= MaxPad(p)
  /\ reset_done' \subseteq reset_done \cup {active_chain}
  /\ in_step' \subseteq in_step \cup {active_chain} /\ in_step' \subseteq reset_done'
  /\ sw_mode /\ active_chain \in reset_done' => t.state = k.tap_state
  /\ active_chain \in in_step' => IF sw_mode THEN AgreeSw(t, k, i)
                                  ELSE AgreeHw(current_state', t, k, i)

\* It keeps the invariant.
LEMMA OutcomeKeeps ==
  ASSUME IInv, opened, NEW t \in Taps, NEW i \in Ideals, NEW k \in ChainRecords,
         Outcome(t, i, k)
  PROVE  IInv'
<1>. USE DEF IInv
<1>1. Types'
  <2>1. chains' \in [Chains -> ChainRecords]
    BY DEF Outcome, Types
  <2>2. tap' \in [Chains -> Taps]
    <3>1. \A c \in Chains : Quiet(tap[c]) \in Taps
      BY QuietIs DEF Types
    <3>. QED
      BY <3>1 DEF Outcome
  <2>3. ideal' \in [Chains -> Ideals]
    <3>1. \A c \in Chains : QuietIdeal(ideal[c]) \in Ideals
      BY QuietIdealIs DEF Types
    <3>. QED
      BY <3>1 DEF Outcome
  <2>4. \A c \in Chains : \A p \in PaddingTypes : chains'[c].padding[p] <= MaxPad(p)
    BY DEF Outcome, Types
  <2>. QED
    BY <2>1, <2>2, <2>3, <2>4 DEF Outcome, Types
<1>2. (~ opened => reset_done = {})'
  BY DEF Outcome
<1>3. Known'
  <2>1. ASSUME sw_mode', NEW c \in reset_done' PROVE tap'[c].state = chains'[c].tap_state
    <3>1. c \in Chains
      BY DEF Outcome, Types
    <3>2. CASE c = active_chain
      BY <2>1, <3>1, <3>2 DEF Outcome
    <3>3. CASE c # active_chain
      <4>1. c \in reset_done /\ tap[c] \in Taps
        BY <3>1, <3>3 DEF Outcome, Types
      <4>2. Quiet(tap[c]).state = tap[c].state
        BY <4>1, QuietIs, AtParts
      <4>. QED
        BY <2>1, <3>1, <3>3, <4>1, <4>2 DEF Outcome, Known
    <3>. QED
      BY <3>2, <3>3
  <2>. QED
    BY <2>1 DEF Known
<1>4. Agreed'
  <2>1. ASSUME NEW c \in in_step'
        PROVE  IF sw_mode' THEN AgreeSw(tap'[c], chains'[c], ideal'[c])
               ELSE IF c = active_chain'
                    THEN AgreeHw(current_state', tap'[c], chains'[c], ideal'[c])
               ELSE AgreeAside(tap'[c], chains'[c], ideal'[c])
    <3>1. c \in Chains
      BY DEF Outcome, Types
    <3>2. CASE c = active_chain
      <4>1. tap'[c] = t /\ chains'[c] = k /\ ideal'[c] = i /\ sw_mode' = sw_mode
            /\ c = active_chain'
        BY <3>1, <3>2 DEF Outcome
      <4>2. IF sw_mode THEN AgreeSw(t, k, i) ELSE AgreeHw(current_state', t, k, i)
        BY <3>2 DEF Outcome
      <4>. QED
        BY <4>1, <4>2
    <3>3. CASE c # active_chain
      <4>1. /\ c \in in_step /\ tap[c] \in Taps /\ ideal[c] \in Ideals
            /\ sw_mode' = sw_mode /\ active_chain' = active_chain
        BY <3>1, <3>3 DEF Outcome, Types
      <4>2. /\ tap'[c] = Quiet(tap[c]) /\ chains'[c] = chains[c]
            /\ ideal'[c] = QuietIdeal(ideal[c])
        BY <3>1, <3>3 DEF Outcome
      <4>3. CASE sw_mode
        <5>1. AgreeSw(tap[c], chains[c], ideal[c])
          BY <4>1, <4>3 DEF Agreed
        <5>. QED
          BY <4>1, <4>2, <4>3, <5>1, SwAnew
      <4>4. CASE ~ sw_mode
        <5>1. AgreeAside(tap[c], chains[c], ideal[c])
          BY <3>3, <4>1, <4>4 DEF Agreed
        <5>. QED
          BY <3>3, <4>1, <4>2, <4>4, <5>1, AsideAnew
      <4>. QED
        BY <4>3, <4>4
    <3>. QED
      BY <3>2, <3>3
  <2>. QED
    BY <2>1 DEF Agreed
<1>. QED
  BY <1>1, <1>2, <1>3, <1>4

\* What an operation on the active chain finds.
LEMMA ActiveChain ==
  ASSUME IInv
  PROVE  /\ Tap \in Taps /\ Fresh(Tap) /\ Tap.state = tap[active_chain].state
         /\ Ideal \in Ideals /\ Ideal = QuietIdeal(ideal[active_chain])
         /\ Chain \in ChainRecords
         /\ \A p \in PaddingTypes : Chain.padding[p] <= MaxPad(p)
         /\ sw_mode /\ active_chain \in reset_done => Tap.state = Chain.tap_state
         /\ active_chain \in in_step =>
                IF sw_mode THEN AgreeSw(Tap, Chain, Ideal)
                ELSE AgreeHw(current_state, Tap, Chain, Ideal)
<1>. active_chain \in Chains /\ tap[active_chain] \in Taps /\ ideal[active_chain] \in Ideals
  BY DEF IInv, Types
<1>1. Tap \in Taps /\ Fresh(Tap) /\ Tap.state = tap[active_chain].state
  BY QuietIs, AtParts DEF Tap, Fresh
<1>2. Ideal = QuietIdeal(ideal[active_chain])
  BY Zenon DEF Ideal, QuietIdeal
<1>3. Ideal \in Ideals
  BY <1>2, QuietIdealIs
<1>4. Chain \in ChainRecords /\ \A p \in PaddingTypes : Chain.padding[p] <= MaxPad(p)
  BY DEF Chain, IInv, Types
<1>5. sw_mode /\ active_chain \in reset_done => Tap.state = Chain.tap_state
  BY <1>1 DEF Chain, IInv, Known
<1>6. CASE active_chain \in in_step /\ sw_mode
  <2>1. AgreeSw(tap[active_chain], chains[active_chain], ideal[active_chain])
    BY <1>6 DEF IInv, Agreed
  <2>2. AgreeSw(Tap, Chain, Ideal)
    BY <1>2, <2>1, SwAnew DEF Tap, Chain
  <2>. QED
    BY <1>1, <1>2, <1>3, <1>4, <1>5, <1>6, <2>2
<1>7. CASE active_chain \in in_step /\ ~ sw_mode
  <2>1. AgreeHw(current_state, tap[active_chain], chains[active_chain], ideal[active_chain])
    BY <1>7 DEF IInv, Agreed
  <2>2. AgreeHw(current_state, Tap, Chain, Ideal)
    BY <1>2, <2>1, HwAnew DEF Tap, Chain
  <2>. QED
    BY <1>1, <1>2, <1>3, <1>4, <1>5, <1>7, <2>2
<1>. QED
  BY <1>1, <1>2, <1>3, <1>4, <1>5, <1>6, <1>7

-------------------------------------------------------------------------------
(* One lemma for each action.                                              *)

\* A new handler.
LEMMA InitIInv == Init => IInv
<1>. SUFFICES ASSUME Init PROVE IInv
  OBVIOUS
<1>1. "TLR" \in TapStates
  BY StatesAre
<1>2. FreshChain \in ChainRecords /\ \A p \in PaddingTypes : FreshChain.padding[p] <= MaxPad(p)
  BY <1>1, SizesAssumption DEF FreshChain, ChainRecords, MaxPad
<1>3. Types
  BY <1>1, <1>2, NewTapIs, NewIdealIs, ChainsAssumption DEF Init, Types
<1>. QED
  BY <1>3 DEF Init, IInv, Known, Agreed

\* A client comes.
LEMMA InitializeKeeps ==
  ASSUME IInv, NEW sw \in BOOLEAN, JTAG_initialize(sw)
  PROVE  IInv'
<1>. DEFINE a == SCAN_CHAIN_0
<1>1. "TLR" \in TapStates /\ "RTI" \in TapStates
  BY StatesAre
<1>2. FreshChain \in ChainRecords /\ \A p \in PaddingTypes : FreshChain.padding[p] <= MaxPad(p)
  BY <1>1, SizesAssumption DEF FreshChain, ChainRecords, MaxPad
<1>3. a \in Chains /\ tap[a] \in Taps
  BY ChainsAssumption DEF IInv, Types
<1>4. PICK t : t = IF sw THEN NewTap ELSE At("RTI", << >>, << >>)
  OBVIOUS
<1>5. tap' = [c \in Chains |-> IF c # a THEN tap[c] ELSE t]
  <2>1. CASE sw
    <3>1. set_tap_state_sw(tap[a], "TLR", "TLR", TRUE) = t
      BY <1>1, <1>3, <1>4, <2>1, ResetSw
    <3>. QED
      BY <2>1, <3>1 DEF JTAG_initialize
  <2>2. CASE ~ sw
    <3>1. set_tap_state_hw2(tap[a], TRUE) = t
      BY <1>3, <1>4, <2>2, ResetHw
    <3>. QED
      BY <2>2, <3>1 DEF JTAG_initialize
  <2>. QED
    BY <2>1, <2>2
<1>6. PICK e : e = << >>
  OBVIOUS
<1>7. /\ t.state = IF sw THEN "TLR" ELSE "RTI"
      /\ t.updates = e
      /\ sw => t = NewTap
  BY <1>4, <1>6, NewTapIs, AtParts
<1>8. t \in Taps
  <2>1. << >> \in Seq(Bits) /\ Len(<< >>) <= HISTORY_MAX /\ << >> \in UpdateSeqs
    BY HistoryMaxAssumption DEF UpdateSeqs
  <2>2. At("RTI", << >>, << >>) \in Taps
    BY <1>1, <2>1, AtType
  <2>. QED
    BY <1>4, <2>2, NewTapIs
<1>9. /\ sw_mode' = sw /\ opened' = TRUE /\ active_chain' = a /\ current_state' = "TLR"
      /\ reset_done' = {a} /\ in_step' = {a}
      /\ chains' = [c \in Chains |-> FreshChain] /\ ideal' = [c \in Chains |-> NewIdeal]
  BY DEF JTAG_initialize
<1>10. Types'
  <2>1. tap' \in [Chains -> Taps]
    BY <1>5, <1>8 DEF IInv, Types
  <2>. QED
    BY <1>1, <1>2, <1>3, <1>9, <2>1, NewIdealIs DEF Types
<1>11. tap'[a] = t /\ chains'[a] = FreshChain /\ ideal'[a] = NewIdeal
  BY <1>3, <1>5, <1>9
<1>12. /\ FreshChain.tap_state = "TLR" /\ FreshChain.scan_state = "Done"
       /\ "TLR" \notin ShiftStates
  BY DEF FreshChain, ShiftStates
<1>13. Common(t, FreshChain, NewIdeal)
  <2>1. NewTap.updates = e
    BY <1>6, NewTapIs, AtParts
  <2>. QED
    BY <1>7, <1>12, <2>1, NewIdealIs DEF Common
<1>14. IF sw THEN AgreeSw(t, FreshChain, NewIdeal) ELSE AgreeHw("TLR", t, FreshChain, NewIdeal)
  <2>1. CASE sw
    BY <1>7, <1>13, <2>1, NewIdealIs DEF AgreeSw
  <2>2. CASE ~ sw
    <3>1. NewTap.state = "TLR"
      BY NewTapIs, AtParts
    <3>2. AtRest(t, FreshChain, NewIdeal)
      BY <1>7, <1>12, <2>2, <3>1, NewIdealIs DEF AtRest
    <3>. QED
      BY <1>13, <2>2, <3>2 DEF AgreeHw
  <2>. QED
    BY <2>1, <2>2
<1>15. Agreed'
  BY <1>9, <1>11, <1>14 DEF Agreed
<1>16. Known'
  BY <1>7, <1>9, <1>11, <1>12 DEF Known
<1>. QED
  BY <1>9, <1>10, <1>15, <1>16 DEF IInv

\* A client leaves.
LEMMA DeinitializeKeeps ==
  ASSUME IInv, JTAG_deinitialize
  PROVE  IInv'
<1>1. "TLR" \in TapStates
  BY StatesAre
<1>2. FreshChain \in ChainRecords /\ \A p \in PaddingTypes : FreshChain.padding[p] <= MaxPad(p)
  BY <1>1, SizesAssumption DEF FreshChain, ChainRecords, MaxPad
<1>3. \A c \in Chains : Forget(tap[c]) \in Taps
  BY ForgetIs DEF IInv, Types
<1>4. tap' \in [Chains -> Taps]
  BY <1>3 DEF JTAG_deinitialize
<1>5. Types'
  BY <1>2, <1>4, NewIdealIs, ChainsAssumption DEF IInv, Types, JTAG_deinitialize
<1>. QED
  BY <1>5 DEF IInv, Known, Agreed, JTAG_deinitialize

\* A padding is set.
LEMMA PaddingKeeps ==
  ASSUME IInv, NEW p \in PaddingTypes, NEW v \in PadValues, JTAG_set_padding(p, v)
  PROVE  IInv'
<1>. DEFINE a == active_chain
<1>1. a \in Chains /\ chains \in [Chains -> ChainRecords] /\ v \in Nat /\ v <= MaxPad(p)
  BY SizesAssumption DEF IInv, Types, JTAG_set_padding, pad_ok
<1>2. PICK k : k = [chains[a] EXCEPT !.padding[p] = v]
  OBVIOUS
<1>3. PICK pads \in [PaddingTypes -> Nat] : pads = chains[a].padding
  BY <1>1 DEF ChainRecords
<1>4. /\ k \in ChainRecords /\ k.tap_state = chains[a].tap_state
      /\ k.scan_state = chains[a].scan_state /\ k.padding = [pads EXCEPT ![p] = v]
  BY <1>1, <1>2, <1>3 DEF ChainRecords
<1>5. \A q \in PaddingTypes : k.padding[q] <= MaxPad(q)
  BY <1>1, <1>3, <1>4 DEF IInv, Types
<1>6. chains' = [chains EXCEPT ![a] = k]
  BY <1>1, <1>2 DEF JTAG_set_padding
<1>7. /\ chains' \in [Chains -> ChainRecords]
      /\ \A c \in Chains : chains'[c] = IF c = a THEN k ELSE chains[c]
  BY <1>1, <1>4, <1>6
<1>8. /\ opened' = opened /\ sw_mode' = sw_mode /\ active_chain' = active_chain
      /\ current_state' = current_state /\ tap' = tap /\ reset_done' = reset_done
      /\ in_step' = in_step /\ ideal' = ideal
  BY DEF JTAG_set_padding
<1>9. Types'
  BY <1>5, <1>7, <1>8 DEF IInv, Types
<1>10. Known'
  BY <1>4, <1>7, <1>8 DEF IInv, Types, Known
<1>11. Agreed'
  <2>1. ASSUME NEW c \in in_step
        PROVE  IF sw_mode THEN AgreeSw(tap[c], chains'[c], ideal[c])
               ELSE IF c = active_chain THEN AgreeHw(current_state, tap[c], chains'[c], ideal[c])
               ELSE AgreeAside(tap[c], chains'[c], ideal[c])
    <3>1. c \in Chains
      BY DEF IInv, Types
    <3>2. PICK k1 : k1 = chains'[c] /\ k1.tap_state = chains[c].tap_state
                    /\ k1.scan_state = chains[c].scan_state
      BY <1>4, <1>7, <3>1
    <3>3. IF sw_mode THEN AgreeSw(tap[c], chains[c], ideal[c])
          ELSE IF c = active_chain THEN AgreeHw(current_state, tap[c], chains[c], ideal[c])
          ELSE AgreeAside(tap[c], chains[c], ideal[c])
      BY DEF IInv, Agreed
    <3>4. AgreeSw(tap[c], chains[c], ideal[c]) => AgreeSw(tap[c], k1, ideal[c])
      BY <3>2 DEF AgreeSw, Common
    <3>5. AgreeAside(tap[c], chains[c], ideal[c]) => AgreeAside(tap[c], k1, ideal[c])
      BY <3>2 DEF AgreeAside, Common, AtRest
    <3>6. AgreeHw(current_state, tap[c], chains[c], ideal[c])
            => AgreeHw(current_state, tap[c], k1, ideal[c])
      BY <3>2 DEF AgreeHw, Common, AtRest, UnderWay
    <3>. QED
      BY <3>2, <3>3, <3>4, <3>5, <3>6
  <2>. QED
    BY <1>8, <2>1 DEF Agreed
<1>. QED
  BY <1>8, <1>9, <1>10, <1>11 DEF IInv

\* The client turns to another chain.
LEMMA ActiveChainKeeps ==
  ASSUME IInv, NEW c \in Chains, JTAG_set_active_chain(c)
  PROVE  IInv'
<1>1. /\ opened' = opened /\ sw_mode' = sw_mode /\ active_chain' = c /\ c # active_chain
      /\ current_state' = current_state /\ chains' = chains /\ reset_done' = reset_done
      /\ opened
  BY DEF JTAG_set_active_chain
<1>2. /\ in_step' \subseteq in_step
      /\ \A d \in in_step' : \/ sw_mode
                             \/ current_state \in {"TLR", "RTI"}
                             \/ d # active_chain /\ d # c
  BY DEF JTAG_set_active_chain
<1>3. \A d \in Chains : /\ ideal'[d] = IF d \in in_step' THEN ideal[d] ELSE NewIdeal
                        /\ tap'[d] = IF d \in in_step' THEN tap[d] ELSE Forget(tap[d])
  BY DEF JTAG_set_active_chain
<1>4. \A d \in Chains : tap[d] \in Taps /\ ideal[d] \in Ideals
  BY DEF IInv, Types
<1>5. \A d \in Chains : Forget(tap[d]) \in Taps /\ Forget(tap[d]).state = tap[d].state
  BY <1>4, ForgetIs, AtParts
<1>6. tap' \in [Chains -> Taps]
  BY <1>4, <1>5 DEF JTAG_set_active_chain
<1>7. ideal' \in [Chains -> Ideals]
  BY <1>4, NewIdealIs DEF JTAG_set_active_chain
<1>8. Types'
  BY <1>1, <1>2, <1>6, <1>7 DEF IInv, Types
<1>9. Known'
  BY <1>1, <1>3, <1>5 DEF IInv, Types, Known
<1>10. Agreed'
  <2>1. ASSUME NEW d \in in_step'
        PROVE  IF sw_mode THEN AgreeSw(tap'[d], chains[d], ideal'[d])
               ELSE IF d = c THEN AgreeHw(current_state, tap'[d], chains[d], ideal'[d])
               ELSE AgreeAside(tap'[d], chains[d], ideal'[d])
    <3>1. d \in Chains /\ d \in in_step
      BY <1>2 DEF IInv, Types
    <3>2. tap'[d] = tap[d] /\ ideal'[d] = ideal[d]
      BY <1>3, <3>1
    <3>3. IF sw_mode THEN AgreeSw(tap[d], chains[d], ideal[d])
          ELSE IF d = active_chain THEN AgreeHw(current_state, tap[d], chains[d], ideal[d])
          ELSE AgreeAside(tap[d], chains[d], ideal[d])
      BY <3>1 DEF IInv, Agreed
    <3>4. CASE sw_mode
      BY <3>2, <3>3, <3>4
    <3>5. CASE ~ sw_mode /\ current_state \in {"TLR", "RTI"}
      <4>1. AgreeHw(current_state, tap[d], chains[d], ideal[d])
              <=> AgreeAside(tap[d], chains[d], ideal[d])
        BY <3>5 DEF AgreeHw, AgreeAside
      <4>. QED
        BY <3>2, <3>3, <3>5, <4>1
    <3>6. CASE ~ sw_mode /\ current_state \notin {"TLR", "RTI"}
      <4>1. d # active_chain /\ d # c
        BY <1>2, <3>6
      <4>. QED
        BY <3>2, <3>3, <3>6, <4>1
    <3>. QED
      BY <3>4, <3>5, <3>6
  <2>. QED
    BY <1>1, <2>1 DEF Agreed
<1>. QED
  BY <1>1, <1>8, <1>9, <1>10 DEF IInv

\* What an operation on the active chain must show: that its parts come to an
\* outcome, whether the client has kept to what is supported (keep) or not.
LEMMA TouchOutcome ==
  ASSUME IInv, opened, NEW t \in Taps, NEW i, NEW k \in ChainRecords,
         NEW keep \in BOOLEAN, Touch(t, i, keep), UNCHANGED <<opened, sw_mode, active_chain>>,
         current_state' \in TapStates,
         chains' = [c \in Chains |-> IF c # active_chain THEN chains[c] ELSE k],
         \A p \in PaddingTypes : k.padding[p] <= MaxPad(p),
         reset_done \subseteq reset_done', reset_done' \subseteq reset_done \cup {active_chain},
         sw_mode /\ active_chain \in reset_done' => t.state = k.tap_state,
         keep => /\ i \in Ideals /\ active_chain \in reset_done'
                 /\ IF sw_mode THEN AgreeSw(t, k, i) ELSE AgreeHw(current_state', t, k, i)
  PROVE  IInv'
<1>1. in_step \subseteq reset_done
  BY DEF IInv, Types
<1>2. CASE keep
  <2>1. /\ tap' = [c \in Chains |-> IF c # active_chain THEN Quiet(tap[c]) ELSE t]
        /\ in_step' = in_step \cup {active_chain}
        /\ ideal' = [c \in Chains |-> IF c # active_chain THEN QuietIdeal(ideal[c]) ELSE i]
    BY <1>2, Zenon DEF Touch, QuietIdeal
  <2>2. Outcome(t, i, k)
    BY <1>1, <1>2, <2>1 DEF Outcome
  <2>. QED
    BY <1>2, <2>2, OutcomeKeeps
<1>3. CASE ~ keep
  <2>1. PICK v : v = Forget(t) /\ v \in Taps /\ v.state = t.state
    BY ForgetIs, AtParts
  <2>2. PICK j : j = NewIdeal /\ j \in Ideals
    BY NewIdealIs
  <2>3. /\ tap' = [c \in Chains |-> IF c # active_chain THEN Quiet(tap[c]) ELSE v]
        /\ in_step' = in_step \ {active_chain}
        /\ ideal' = [c \in Chains |-> IF c # active_chain THEN QuietIdeal(ideal[c]) ELSE j]
    BY <1>3, <2>1, <2>2, Zenon DEF Touch, QuietIdeal
  <2>4. Outcome(v, j, k)
    BY <1>1, <2>1, <2>3 DEF Outcome
  <2>. QED
    BY <2>1, <2>2, <2>4, OutcomeKeeps
<1>. QED
  BY <1>2, <1>3

\* The TAP idles or pauses for a while.
LEMMA WaitKeeps ==
  ASSUME IInv, NEW n \in Lengths, JTAG_wait_cycles(n)
  PROVE  IInv'
<1>. DEFINE a == active_chain
<1>1. n \in Nat /\ opened /\ a \in Chains /\ chains \in [Chains -> ChainRecords]
  BY SizesAssumption DEF IInv, Types, JTAG_wait_cycles
<1>2. PICK k \in ChainRecords : k = Chain
  BY ActiveChain
<1>3. PICK t : t = Walk(Tap, Repeat(0, n))
  OBVIOUS
<1>4. t \in Taps
  BY <1>1, <1>3, LowType, ActiveChain
<1>5. k.tap_state \in {"RTI"} \cup PauseStates
  BY <1>2 DEF JTAG_wait_cycles
<1>6. ASSUME sw_mode, a \in reset_done PROVE t = Tap /\ t.state = k.tap_state
  <2>1. Tap \in Taps /\ Tap.state = k.tap_state
    BY <1>2, <1>6, ActiveChain
  <2>2. Tap.state \in {"RTI"} \cup PauseStates
    BY <1>5, <2>1
  <2>3. t = Tap
    BY <1>1, <1>3, <2>1, <2>2, Hold
  <2>. QED
    BY <2>1, <2>3
<1>7. ASSUME ~ sw_mode, a \in in_step PROVE t = Tap
  <2>1. Tap \in Taps /\ AgreeHw(current_state, Tap, k, Ideal)
    BY <1>2, <1>7, ActiveChain
  <2>. QED
    BY <1>1, <1>3, <1>5, <2>1, WaitHw
<1>8. PICK i \in Ideals : i = Ideal
  BY ActiveChain
<1>9. ASSUME a \in in_step
      PROVE  IF sw_mode THEN AgreeSw(t, k, i) ELSE AgreeHw(current_state, t, k, i)
  <2>1. a \in reset_done
    BY <1>9 DEF IInv, Types
  <2>2. t = Tap
    BY <1>6, <1>7, <1>9, <2>1
  <2>. QED
    BY <1>2, <1>8, <1>9, <2>2, ActiveChain
<1>10. PICK keep \in BOOLEAN : keep <=> a \in in_step
  OBVIOUS
<1>11. Touch(t, i, keep)
  BY <1>3, <1>8, <1>10 DEF JTAG_wait_cycles, Touch
<1>12. /\ opened' = opened /\ sw_mode' = sw_mode /\ active_chain' = active_chain
       /\ chains' = chains /\ current_state' = current_state /\ reset_done' = reset_done
  BY DEF JTAG_wait_cycles
<1>13. chains' = [c \in Chains |-> IF c # active_chain THEN chains[c] ELSE k]
  BY <1>1, <1>2, <1>12 DEF Chain
<1>14. (\A p \in PaddingTypes : k.padding[p] <= MaxPad(p)) /\ current_state' \in TapStates
  BY <1>2, <1>12, ActiveChain DEF IInv, Types
<1>15. keep => /\ i \in Ideals /\ active_chain \in reset_done'
               /\ IF sw_mode THEN AgreeSw(t, k, i) ELSE AgreeHw(current_state', t, k, i)
  BY <1>9, <1>10, <1>12 DEF IInv, Types
<1>. QED
  BY <1>1, <1>4, <1>6, <1>11, <1>12, <1>13, <1>14, <1>15, TouchOutcome

\* The record of the chain after a move.
LEMMA MovedRecord ==
  ASSUME NEW k \in ChainRecords, NEW s \in TapStates
  PROVE  /\ [k EXCEPT !.tap_state = s] \in ChainRecords
         /\ [k EXCEPT !.tap_state = s].tap_state = s
         /\ [k EXCEPT !.tap_state = s].scan_state = k.scan_state
         /\ [k EXCEPT !.tap_state = s].padding = k.padding
BY DEF ChainRecords

\* A reset: the TAP is where the handler and the driver believe it to be,
\* whatever was before.
LEMMA ResetKeeps ==
  ASSUME IInv, JTAG_set_tap_state("TLR")
  PROVE  IInv'
<1>. DEFINE a == active_chain
<1>1. opened /\ a \in Chains /\ chains \in [Chains -> ChainRecords] /\ sw_mode \in BOOLEAN
  BY DEF IInv, Types, JTAG_set_tap_state
<1>2. "TLR" \in TapStates /\ "RTI" \in TapStates
  BY StatesAre
<1>3. PICK k \in ChainRecords : /\ k = [Chain EXCEPT !.tap_state = "TLR"] /\ k.tap_state = "TLR"
                                /\ k.scan_state = Chain.scan_state
                                /\ k.padding = Chain.padding
  BY <1>2, ActiveChain, MovedRecord
<1>4. PICK e : e = << >>
  OBVIOUS
<1>5. PICK t : t = IF sw_mode THEN NewTap ELSE At("RTI", e, e)
  OBVIOUS
<1>6. (IF sw_mode THEN set_tap_state_sw(Tap, Chain.tap_state, "TLR", TRUE)
       ELSE set_tap_state_hw2(Tap, TRUE)) = t
  <2>1. Tap \in Taps /\ Chain.tap_state \in TapStates
    BY ActiveChain DEF ChainRecords
  <2>2. set_tap_state_sw(Tap, Chain.tap_state, "TLR", TRUE) = NewTap
    BY <2>1, ResetSw
  <2>3. set_tap_state_hw2(Tap, TRUE) = At("RTI", e, e)
    BY <1>4, <2>1, ResetHw
  <2>. QED
    BY <1>5, <2>2, <2>3
<1>7. /\ t.state = IF sw_mode THEN "TLR" ELSE "RTI"
      /\ t.updates = e
      /\ sw_mode => t = NewTap
  BY <1>4, <1>5, NewTapIs, AtParts
<1>8. t \in Taps
  <2>1. e \in Seq(Bits) /\ Len(e) <= HISTORY_MAX /\ e \in UpdateSeqs
    BY <1>4, HistoryMaxAssumption DEF UpdateSeqs
  <2>2. At("RTI", e, e) \in Taps
    BY <1>2, <2>1, AtType
  <2>. QED
    BY <1>5, <2>2, NewTapIs
<1>9. PICK i \in Ideals : i = NewIdeal /\ i.tap = NewTap /\ ~ i.open
  BY NewIdealIs
<1>10. NewTap.state = "TLR" /\ NewTap.updates = e
  BY <1>4, NewTapIs, AtParts
<1>11. PICK keep \in BOOLEAN : keep <=> Chain.scan_state = "Done"
  OBVIOUS
<1>12. Touch(t, i, keep)
  <2>1. ideal_move(Ideal, "TLR") = i
    BY <1>9, IdealReset
  <2>2. Touch(IF sw_mode THEN set_tap_state_sw(Tap, Chain.tap_state, "TLR", TRUE)
              ELSE set_tap_state_hw2(Tap, TRUE), ideal_move(Ideal, "TLR"),
              Chain.scan_state = "Done")
    BY DEF JTAG_set_tap_state, Touch
  <2>3. Touch(t, i, Chain.scan_state = "Done")
    BY <1>6, <2>1, <2>2
  <2>. QED
    BY <1>11, <2>3 DEF Touch
<1>13. /\ opened' = opened /\ sw_mode' = sw_mode /\ active_chain' = active_chain
       /\ current_state' = "TLR" /\ reset_done' = reset_done \cup {a}
  BY DEF JTAG_set_tap_state
<1>14. chains' = [c \in Chains |-> IF c # active_chain THEN chains[c] ELSE k]
  BY <1>1, <1>3 DEF JTAG_set_tap_state, Chain
<1>15. \A p \in PaddingTypes : k.padding[p] <= MaxPad(p)
  BY <1>3, ActiveChain
<1>16. keep => IF sw_mode THEN AgreeSw(t, k, i) ELSE AgreeHw(current_state', t, k, i)
  <2>1. keep => Common(t, k, i)
    BY <1>3, <1>7, <1>9, <1>10, <1>11 DEF Common
  <2>2. ~ sw_mode => AtRest(t, k, i)
    BY <1>3, <1>7, <1>9, <1>10 DEF AtRest, ShiftStates
  <2>3. CASE sw_mode
    BY <1>7, <1>9, <2>1, <2>3 DEF AgreeSw
  <2>4. CASE ~ sw_mode
    BY <1>13, <2>1, <2>2, <2>4 DEF AgreeHw
  <2>. QED
    BY <2>3, <2>4
<1>17. /\ reset_done \subseteq reset_done' /\ reset_done' \subseteq reset_done \cup {active_chain}
       /\ active_chain \in reset_done' /\ current_state' \in TapStates
       /\ (sw_mode => t.state = k.tap_state)
  BY <1>2, <1>3, <1>7, <1>13
<1>. QED
  BY <1>1, <1>8, <1>12, <1>13, <1>14, <1>15, <1>16, <1>17, TouchOutcome

\* Any other move.
LEMMA MoveKeeps ==
  ASSUME IInv, NEW s \in TapStates, s # "TLR", JTAG_set_tap_state(s)
  PROVE  IInv'
<1>. DEFINE a == active_chain
<1>1. opened /\ a \in Chains /\ chains \in [Chains -> ChainRecords] /\ sw_mode \in BOOLEAN
  BY DEF IInv, Types, JTAG_set_tap_state
<1>2. PICK k0 \in ChainRecords : k0 = Chain
  BY ActiveChain
<1>3. PICK k \in ChainRecords : /\ k = [Chain EXCEPT !.tap_state = s] /\ k.tap_state = s
                                /\ k.scan_state = k0.scan_state /\ k.padding = k0.padding
  BY <1>2, MovedRecord, ZenonT(60)
<1>4. PICK v : v = IF sw_mode THEN Walk(Tap, TmsPath(k0.tap_state, s)) ELSE Tap
  OBVIOUS
<1>5. v \in Taps
  BY <1>2, <1>4, ActiveChain, PathType DEF ChainRecords
<1>6. PICK t : t = Held(s, v)
  OBVIOUS
<1>7. t \in Taps
  BY <1>5, <1>6, HeldType
<1>8. PICK i : i = ideal_move(Ideal, s)
  OBVIOUS
<1>9. i \in Ideals
  BY <1>8, ActiveChain, IdealMoveIs
<1>10. PICK keep \in BOOLEAN :
         keep <=> /\ a \in in_step /\ ~ Ideal.open
                  /\ sw_mode \/ hw_move(k0.tap_state, s)
  OBVIOUS
<1>11. Touch(t, i, keep)
  <2>1. (IF sw_mode THEN set_tap_state_sw(Tap, Chain.tap_state, s, FALSE)
         ELSE set_tap_state_hw2(Tap, FALSE)) = v
    BY <1>2, <1>4, MoveSw, MoveHw
  <2>2. Touch(Held(s, IF sw_mode THEN set_tap_state_sw(Tap, Chain.tap_state, s, FALSE)
                      ELSE set_tap_state_hw2(Tap, FALSE)), ideal_move(Ideal, s),
              /\ a \in in_step /\ ~ Ideal.open
              /\ sw_mode \/ hw_move(Chain.tap_state, s))
    BY DEF JTAG_set_tap_state, Touch, Held
  <2>3. Touch(t, i, /\ a \in in_step /\ ~ Ideal.open
                    /\ sw_mode \/ hw_move(Chain.tap_state, s))
    BY <1>6, <1>8, <2>1, <2>2
  <2>. QED
    BY <1>2, <1>10, <2>3 DEF Touch
<1>12. /\ opened' = opened /\ sw_mode' = sw_mode /\ active_chain' = active_chain
       /\ current_state' = (IF sw_mode THEN s ELSE current_state)
       /\ reset_done' = reset_done
  BY DEF JTAG_set_tap_state
<1>13. chains' = [c \in Chains |-> IF c # active_chain THEN chains[c] ELSE k]
  BY <1>1, <1>3 DEF JTAG_set_tap_state, Chain
<1>14. \A p \in PaddingTypes : k.padding[p] <= MaxPad(p)
  BY <1>2, <1>3, ActiveChain
<1>15. ASSUME sw_mode, a \in reset_done PROVE t.state = k.tap_state
  <2>1. Tap \in Taps /\ Tap.state = k0.tap_state
    BY <1>2, <1>15, ActiveChain
  <2>2. v.state = s
    BY <1>4, <1>15, <2>1, TapParts, PathLeads
  <2>3. s \in {"RTI", "PauDR"} => v.state \in {"RTI"} \cup PauseStates
    BY <2>2 DEF PauseStates
  <2>4. t = v
    BY <1>5, <1>6, <2>3, HeldStays
  <2>. QED
    BY <1>3, <2>2, <2>4
<1>16. ASSUME keep
       PROVE  IF sw_mode THEN AgreeSw(t, k, i) ELSE AgreeHw(current_state', t, k, i)
  <2>1. a \in in_step /\ a \in reset_done /\ ~ Ideal.open
    BY <1>10, <1>16 DEF IInv, Types
  <2>2. Tap \in Taps /\ Ideal \in Ideals
    BY ActiveChain
  <2>3. CASE sw_mode
    <3>1. AgreeSw(Tap, k0, Ideal) /\ Tap.state = k0.tap_state
      BY <1>2, <2>1, <2>3, ActiveChain
    <3>2. AgreeSw(Held(s, Walk(Tap, TmsPath(k0.tap_state, s))), k, ideal_move(Ideal, s))
      BY <1>3, <2>1, <2>2, <3>1, MoveAgreesSw
    <3>. QED
      BY <1>4, <1>6, <1>8, <2>3, <3>2
  <2>4. CASE ~ sw_mode
    <3>1. AgreeHw(current_state, Tap, k0, Ideal) /\ hw_move(k0.tap_state, s)
      BY <1>2, <1>10, <1>16, <2>1, <2>4, ActiveChain
    <3>2. AgreeHw(current_state, Held(s, Tap), k, ideal_move(Ideal, s))
      BY <1>3, <2>1, <2>2, <3>1, MoveAgreesHw
    <3>. QED
      BY <1>4, <1>6, <1>8, <1>12, <2>4, <3>2
  <2>. QED
    BY <2>3, <2>4
<1>17. /\ reset_done \subseteq reset_done' /\ reset_done' \subseteq reset_done \cup {active_chain}
       /\ current_state' \in TapStates
       /\ (sw_mode /\ active_chain \in reset_done' => t.state = k.tap_state)
  BY <1>12, <1>15 DEF IInv, Types
<1>18. keep => /\ i \in Ideals /\ active_chain \in reset_done'
               /\ IF sw_mode THEN AgreeSw(t, k, i) ELSE AgreeHw(current_state', t, k, i)
  BY <1>9, <1>10, <1>12, <1>16 DEF IInv, Types
<1>. QED
  BY <1>1, <1>7, <1>11, <1>12, <1>13, <1>14, <1>17, <1>18, TouchOutcome

\* The handler's records after a scan.
Noted(f, a, x, y) == [f EXCEPT ![a].scan_state = x, ![a].tap_state = y]

\* The records with k in the place of the one for chain a.
Instead(f, a, k) == [c \in Chains |-> IF c # a THEN f[c] ELSE k]

\* Only the one of the active chain has changed.
LEMMA ScannedRecord ==
  ASSUME NEW f \in [Chains -> ChainRecords], NEW a \in Chains,
         NEW x \in {"Run", "Done"}, NEW y \in TapStates
  PROVE  \E k \in ChainRecords :
             /\ Noted(f, a, x, y) = Instead(f, a, k)
             /\ k.padding = f[a].padding /\ k.tap_state = y /\ k.scan_state = x
<1>1. PICK h : h = [f EXCEPT ![a].scan_state = x]
  OBVIOUS
<1>2. PICK k1 : k1 = [f[a] EXCEPT !.scan_state = x]
  OBVIOUS
<1>3. k1 \in ChainRecords /\ k1.padding = f[a].padding /\ k1.scan_state = x
  BY <1>2 DEF ChainRecords
<1>4. h = [c \in Chains |-> IF c # a THEN f[c] ELSE k1]
  BY <1>1, <1>2
<1>5. PICK k : k = [k1 EXCEPT !.tap_state = y]
  OBVIOUS
<1>6. /\ k \in ChainRecords /\ k.padding = f[a].padding
      /\ k.tap_state = y /\ k.scan_state = x
  BY <1>3, <1>5 DEF ChainRecords
<1>7. PICK g : g = [h EXCEPT ![a].tap_state = y]
  OBVIOUS
<1>8. g = [c \in Chains |-> IF c # a THEN f[c] ELSE k]
  BY <1>4, <1>5, <1>7
<1>9. Noted(f, a, x, y) = g
  BY <1>1, <1>7 DEF Noted
<1>. QED
  BY <1>6, <1>8, <1>9 DEF Instead

\* A transfer that stays in Shift, from a TAP anywhere.
LEMMA StayType ==
  ASSUME NEW t \in Taps, NEW s \in ShiftStates, NEW x \in Bits, NEW n \in Nat
  PROVE  /\ xfer_sw(t, s, Repeat(x, n), s) \in Taps
         /\ t.state = s => xfer_sw(t, s, Repeat(x, n), s).state = s
<1>1. PICK d \in Seq(Bits) : d = Repeat(x, n)
  BY RepeatSeq
<1>2. s \in TapStates
  BY StatesAre DEF ShiftStates
<1>3. xfer_sw(t, s, d, s) \in Taps
  BY <1>2, XferTaps
<1>4. ASSUME t.state = s PROVE xfer_sw(t, s, d, s).state = s
  <2>1. t.state \in ShiftStates
    BY <1>4
  <2>2. xfer_sw(t, t.state, d, t.state).state = t.state
    BY <1>2, <1>4, <2>1, XferType
  <2>. QED
    BY <1>4, <2>2
<1>. QED
  BY <1>1, <1>3, <1>4

\* The last transfer of a piece, from a TAP anywhere.
LEMMA LastType ==
  ASSUME NEW t \in Taps, NEW s \in ShiftStates, NEW x \in Bits, NEW n \in Nat, n >= 1,
         NEW end \in TapStates
  PROVE  /\ xfer_sw(t, s, Repeat(x, n), end) \in Taps
         /\ t.state = s => xfer_sw(t, s, Repeat(x, n), end).state = end
<1>1. PICK d \in Seq(Bits) : d = Repeat(x, n) /\ Len(d) >= 1
  <2>1. Repeat(x, n) \in Seq(Bits)
    BY RepeatSeq
  <2>2. Len(Repeat(x, n)) >= 1
    BY RepeatSeq
  <2>. QED
    BY <2>1, <2>2
<1>2. xfer_sw(t, s, d, end) \in Taps
  BY <1>1, XferTaps
<1>3. ASSUME t.state = s PROVE xfer_sw(t, s, d, end).state = end
  <2>1. t.state \in ShiftStates
    BY <1>3
  <2>2. xfer_sw(t, t.state, d, end).state = end
    BY <1>1, <2>1, XferType
  <2>. QED
    BY <1>3, <2>2
<1>. QED
  BY <1>1, <1>2, <1>3

\* The transfers of a scan in software mode.
Padded(t, s, pre) == xfer_sw(t, s, Repeat("pad", pre), s)
Filled(t, s, pre, length) == xfer_sw(Padded(t, s, pre), s, Repeat("data", length), s)
Final(t, s, pre, length, post, end) ==
    IF post > 0 THEN xfer_sw(Filled(t, s, pre, length), s, Repeat("pad", post), end)
    ELSE xfer_sw(Padded(t, s, pre), s, Repeat("data", length), end)

\* Their types, and their states if the TAP is where the handler takes it to
\* be.
LEMMA TransfersType ==
  ASSUME NEW t \in Taps, NEW s \in ShiftStates, NEW pre \in Nat,
         NEW length \in Nat, length >= 1, NEW post \in Nat, NEW end \in TapStates
  PROVE  /\ Padded(t, s, pre) \in Taps /\ Filled(t, s, pre, length) \in Taps
         /\ Final(t, s, pre, length, post, end) \in Taps
         /\ t.state = s => /\ Padded(t, s, pre).state = s
                           /\ Filled(t, s, pre, length).state = s
                           /\ Final(t, s, pre, length, post, end).state = end
<1>1. "pad" \in Bits /\ "data" \in Bits
  BY DEF Bits
<1>2. Padded(t, s, pre) \in Taps /\ (t.state = s => Padded(t, s, pre).state = s)
  BY <1>1, StayType DEF Padded
<1>3. PICK p \in Taps : p = Padded(t, s, pre) /\ (t.state = s => p.state = s)
  BY <1>2
<1>4. xfer_sw(p, s, Repeat("data", length), s) \in Taps
      /\ (p.state = s => xfer_sw(p, s, Repeat("data", length), s).state = s)
  BY <1>1, StayType
<1>5. PICK q \in Taps : q = Filled(t, s, pre, length) /\ (t.state = s => q.state = s)
  BY <1>3, <1>4 DEF Filled
<1>6. CASE post > 0
  <2>1. post >= 1
    BY <1>6
  <2>2. xfer_sw(q, s, Repeat("pad", post), end) \in Taps
        /\ (q.state = s => xfer_sw(q, s, Repeat("pad", post), end).state = end)
    BY <1>1, <2>1, LastType
  <2>. QED
    BY <1>3, <1>5, <1>6, <2>2 DEF Final
<1>7. CASE ~ (post > 0)
  <2>1. xfer_sw(p, s, Repeat("data", length), end) \in Taps
        /\ (p.state = s => xfer_sw(p, s, Repeat("data", length), end).state = end)
    BY <1>1, LastType
  <2>. QED
    BY <1>3, <1>5, <1>7, <2>1 DEF Final
<1>. QED
  BY <1>6, <1>7

\* Together they are one transfer of all the bits.
LEMMA FinalIs ==
  ASSUME NEW t \in Taps, NEW s \in ShiftStates, t.state = s, NEW i, t = i.tap,
         NEW ch, NEW length, NEW end, NEW pre, NEW post, Pieces(i, ch, length, end, pre, post)
  PROVE  Final(t, s, pre, length, post, end) = xfer_sw(t, s, Sent(pre, length, post), end)
<1>1. PICK b \in Seq(Bits), u \in UpdateSeqs : t = At(s, b, u) /\ t.bits = b
  BY TapAt, TapParts
<1>2. /\ pre \in Nat /\ length \in Nat /\ post \in Nat /\ length >= 1
      /\ Len(b) + pre + length + post <= HISTORY_MAX
  BY <1>1 DEF Pieces
<1>3. CASE post > 0
  <2>1. post >= 1
    BY <1>2, <1>3
  <2>2. xfer_sw(xfer_sw(xfer_sw(At(s, b, u), s, Repeat("pad", pre), s),
                        s, Repeat("data", length), s), s, Repeat("pad", post), end)
          = xfer_sw(At(s, b, u), s, Sent(pre, length, post), end)
    BY <1>2, <2>1, WithPostfix
  <2>. QED
    BY <1>1, <1>3, <2>2 DEF Final, Filled, Padded
<1>4. CASE ~ (post > 0)
  <2>1. post = 0
    BY <1>2, <1>4
  <2>2. Len(b) + pre + length <= HISTORY_MAX
    BY <1>2, <2>1, HistoryMaxAssumption
  <2>3. xfer_sw(xfer_sw(At(s, b, u), s, Repeat("pad", pre), s), s, Repeat("data", length), end)
          = xfer_sw(At(s, b, u), s, Sent(pre, length, 0), end)
    BY <1>2, <2>2, WithoutPostfix
  <2>. QED
    BY <1>1, <1>4, <2>1, <2>3 DEF Final, Padded
<1>. QED
  BY <1>3, <1>4

\* A scan in software mode, whichever of its transfers fails.
LEMMA ShiftKeeps ==
  ASSUME IInv, NEW length \in Lengths, NEW end \in Goals,
         NEW failed \in {"no", "prefix", "data", "postfix"}, JTAG_shift(length, end, failed)
  PROVE  IInv'
<1>. DEFINE a == active_chain
<1>1. /\ opened /\ sw_mode /\ a \in Chains /\ chains \in [Chains -> ChainRecords]
      /\ length \in Nat /\ length >= 1 /\ end \in TapStates
  BY SizesAssumption, GoalsAssumption DEF IInv, Types, JTAG_shift
<1>2. PICK k0 \in ChainRecords : k0 = Chain
  BY ActiveChain
<1>3. PICK s \in ShiftStates : s = k0.tap_state
  BY <1>2 DEF JTAG_shift
<1>4. PICK pre \in Nat : pre = IF first_piece(k0) THEN prefix(k0) ELSE 0
  BY PadsType
<1>5. PICK post \in Nat : post = IF end # s THEN postfix(k0) ELSE 0
  BY PadsType
<1>6. Tap \in Taps /\ Ideal \in Ideals
  BY ActiveChain
<1>7. PICK padded : padded = Padded(Tap, s, pre)
  OBVIOUS
<1>8. PICK filled : filled = Filled(Tap, s, pre, length)
  OBVIOUS
<1>9. PICK final : final = Final(Tap, s, pre, length, post, end)
  OBVIOUS
<1>10. /\ padded \in Taps /\ filled \in Taps /\ final \in Taps
       /\ Tap.state = s => padded.state = s /\ filled.state = s /\ final.state = end
  BY <1>1, <1>6, <1>7, <1>8, <1>9, TransfersType
<1>11. PICK t : t = CASE failed = "prefix"  -> Tap
                      [] failed = "data"    -> padded
                      [] failed = "postfix" -> filled
                      [] OTHER -> final
  OBVIOUS
<1>12. t \in Taps
  BY <1>6, <1>10, <1>11
<1>13. PICK done : done = IF failed = "no" THEN end # s ELSE failed # "prefix" /\ post > 0
  OBVIOUS
<1>14. PICK x \in {"Run", "Done"} : x = IF done THEN "Done" ELSE "Run"
  OBVIOUS
<1>15. PICK y \in TapStates : y = IF failed = "no" THEN end ELSE s
  BY <1>1, StatesAre DEF ShiftStates
<1>16. PICK i : i = ideal_scan(Ideal, k0, length, end)
  OBVIOUS
<1>17. /\ (failed = "prefix") => pre > 0
       /\ (failed = "postfix") => post > 0
       /\ Len(Ideal.tap.bits) + pre + length + post <= HISTORY_MAX
       /\ opened' = opened /\ sw_mode' = sw_mode /\ active_chain' = active_chain
       /\ reset_done' = reset_done
  BY <1>2, <1>3, <1>4, <1>5 DEF JTAG_shift
<1>18. chains' = Noted(chains, a, x, y)
  BY <1>2, <1>3, <1>5, <1>13, <1>14, <1>15 DEF JTAG_shift, tap_state_after, Noted
<1>19. current_state' = y
  BY <1>2, <1>3, <1>15 DEF JTAG_shift
<1>20. PICK keep \in BOOLEAN : keep <=> failed = "no" /\ a \in in_step
  OBVIOUS
<1>21. Touch(t, i, keep)
  <2>1. (CASE failed = "prefix"  -> Tap
           [] failed = "data"    -> padded
           [] failed = "postfix" -> filled
           [] failed = "no" /\ post > 0 -> xfer_sw(filled, s, Repeat("pad", post), end)
           [] OTHER -> xfer_sw(padded, s, Repeat("data", length), end)) = t
    <3>1. PICK w1 : w1 = xfer_sw(filled, s, Repeat("pad", post), end)
      OBVIOUS
    <3>2. PICK w2 : w2 = xfer_sw(padded, s, Repeat("data", length), end)
      OBVIOUS
    <3>3. final = IF post > 0 THEN w1 ELSE w2
      BY <1>7, <1>8, <1>9, <3>1, <3>2, Zenon DEF Final
    <3>. QED
      BY <1>11, <3>1, <3>2, <3>3
  <2>2. Touch(CASE failed = "prefix"  -> Tap
                [] failed = "data"    -> padded
                [] failed = "postfix" -> filled
                [] failed = "no" /\ post > 0 -> xfer_sw(filled, s, Repeat("pad", post), end)
                [] OTHER -> xfer_sw(padded, s, Repeat("data", length), end),
              ideal_scan(Ideal, Chain, length, end), failed = "no" /\ a \in in_step)
    BY <1>2, <1>3, <1>4, <1>5, <1>7, <1>8, Zenon DEF JTAG_shift, Padded, Filled
  <2>3. Touch(t, i, failed = "no" /\ a \in in_step)
    BY <1>2, <1>16, <2>1, <2>2
  <2>. QED
    BY <1>20, <2>3 DEF Touch
<1>22. PICK k \in ChainRecords : /\ chains' = [c \in Chains |-> IF c # a THEN chains[c] ELSE k]
                                 /\ k.padding = k0.padding /\ k.tap_state = y
                                 /\ k.scan_state = x
  <2>1. \E k \in ChainRecords :
            /\ Noted(chains, a, x, y) = Instead(chains, a, k)
            /\ k.padding = chains[a].padding /\ k.tap_state = y /\ k.scan_state = x
    BY <1>1, ScannedRecord
  <2>. QED
    BY <1>2, <1>18, <2>1 DEF Chain, Instead
<1>23. \A p \in PaddingTypes : k.padding[p] <= MaxPad(p)
  BY <1>2, <1>22, ActiveChain
<1>24. ASSUME a \in reset_done PROVE t.state = k.tap_state
  <2>1. Tap.state = s
    BY <1>1, <1>2, <1>3, <1>24, ActiveChain
  <2>. QED
    BY <1>10, <1>11, <1>15, <1>22, <2>1
<1>25. ASSUME keep PROVE i \in Ideals /\ AgreeSw(t, k, i)
  <2>1. failed = "no" /\ a \in in_step
    BY <1>20, <1>25
  <2>2. AgreeSw(Tap, k0, Ideal)
    BY <1>1, <1>2, <2>1, ActiveChain
  <2>3. Tap = Ideal.tap /\ (Ideal.open <=> k0.scan_state = "Run")
    BY <2>2 DEF AgreeSw, Common
  <2>4. Tap.state = s
    BY <1>1, <1>2, <1>3, <2>1, ActiveChain DEF IInv, Types
  <2>5. Pieces(Ideal, k0, length, end, pre, post)
    BY <1>1, <1>3, <1>4, <1>5, <1>17, <2>3, PiecesAre
  <2>6. t = final
    BY <1>11, <2>1
  <2>7. final = xfer_sw(Tap, s, Sent(pre, length, post), end)
    BY <1>6, <1>9, <2>3, <2>4, <2>5, FinalIs
  <2>8. k.scan_state = "Run" <=> end = k0.tap_state
    BY <1>3, <1>13, <1>14, <1>22, <2>1
  <2>9. /\ ideal_scan(Ideal, k0, length, end) \in Ideals
        /\ AgreeSw(xfer_sw(Tap, k0.tap_state, Sent(pre, length, post), end), k,
                   ideal_scan(Ideal, k0, length, end))
    BY <1>1, <1>3, <1>6, <2>2, <2>4, <2>5, <2>8, ScanAgreesSw
  <2>. QED
    BY <1>3, <1>16, <2>6, <2>7, <2>9
<1>26. keep => /\ i \in Ideals /\ active_chain \in reset_done'
               /\ IF sw_mode THEN AgreeSw(t, k, i) ELSE AgreeHw(current_state', t, k, i)
  BY <1>1, <1>17, <1>20, <1>25 DEF IInv, Types
<1>27. /\ reset_done \subseteq reset_done' /\ reset_done' \subseteq reset_done \cup {active_chain}
       /\ current_state' \in TapStates
       /\ (sw_mode /\ active_chain \in reset_done' => t.state = k.tap_state)
  BY <1>17, <1>19, <1>24
<1>. QED
  BY <1>1, <1>12, <1>17, <1>21, <1>22, <1>23, <1>26, <1>27, TouchOutcome

\* A scan in hardware mode, which may fail or be refused.
LEMMA ShiftHwKeeps ==
  ASSUME IInv, NEW length \in Lengths, NEW end \in Goals, NEW failed \in BOOLEAN,
         JTAG_shift_hw(length, end, failed)
  PROVE  IInv'
<1>. DEFINE a == active_chain
<1>1. /\ opened /\ ~ sw_mode /\ a \in Chains /\ chains \in [Chains -> ChainRecords]
      /\ length \in Nat /\ length >= 1 /\ end \in TapStates /\ current_state \in TapStates
  BY SizesAssumption, GoalsAssumption DEF IInv, Types, JTAG_shift_hw
<1>2. PICK k0 \in ChainRecords : k0 = Chain
  BY ActiveChain
<1>3. PICK s \in ShiftStates : s = k0.tap_state
  BY <1>2 DEF JTAG_shift_hw
<1>4. PICK pre \in Nat : pre = IF first_piece(k0) THEN prefix(k0) ELSE 0
  BY PadsType
<1>5. PICK post \in Nat : post = IF end # s THEN postfix(k0) ELSE 0
  BY PadsType
<1>6. Tap \in Taps /\ Ideal \in Ideals /\ Fresh(Tap)
  BY ActiveChain
<1>7. PICK ok \in BOOLEAN : ok <=> ~ failed /\ xfer_hw2_ok(s, end)
  OBVIOUS
<1>8. PICK v \in Taps : v = xfer_hw2(Tap, s, pre, length, post, end)
  BY <1>1, <1>6, XferHwType
<1>9. PICK t : t = IF ok THEN v ELSE Tap
  OBVIOUS
<1>10. t \in Taps
  BY <1>6, <1>9
<1>11. PICK x \in {"Run", "Done"} : x = IF end = s THEN "Run" ELSE "Done"
  OBVIOUS
<1>12. PICK y \in TapStates : y = IF ok THEN end ELSE s
  BY <1>1, StatesAre DEF ShiftStates
<1>13. PICK e \in TapStates : e = hw2_endstate(s, length, end)
  BY <1>1, <1>6, XferHwType
<1>14. PICK i : i = ideal_scan(Ideal, k0, length, end)
  OBVIOUS
<1>15. /\ Len(Ideal.tap.bits) + pre + length + post <= HISTORY_MAX
       /\ opened' = opened /\ sw_mode' = sw_mode /\ active_chain' = active_chain
       /\ reset_done' = reset_done
  BY <1>2, <1>3, <1>4, <1>5 DEF JTAG_shift_hw
<1>16. chains' = Noted(chains, a, x, y)
  BY <1>2, <1>3, <1>7, <1>11, <1>12 DEF JTAG_shift_hw, tap_state_after, Noted
<1>17. current_state' = IF ok THEN e ELSE current_state
  BY <1>2, <1>3, <1>7, <1>13 DEF JTAG_shift_hw
<1>18. PICK keep \in BOOLEAN : keep <=> ok /\ a \in in_step /\ end # Exit1(s)
  OBVIOUS
<1>19. Touch(t, i, keep)
  <2>1. Touch(IF ~ failed /\ xfer_hw2_ok(s, end)
              THEN xfer_hw2(Tap, s, pre, length, post, end) ELSE Tap,
              ideal_scan(Ideal, Chain, length, end),
              (~ failed /\ xfer_hw2_ok(s, end)) /\ a \in in_step /\ end # Exit1(s))
    BY <1>2, <1>3, <1>4, <1>5, Zenon DEF JTAG_shift_hw
  <2>2. (IF ~ failed /\ xfer_hw2_ok(s, end)
         THEN xfer_hw2(Tap, s, pre, length, post, end) ELSE Tap) = t
    BY <1>7, <1>8, <1>9
  <2>3. Touch(t, i, (~ failed /\ xfer_hw2_ok(s, end)) /\ a \in in_step /\ end # Exit1(s))
    BY <1>2, <1>14, <2>1, <2>2
  <2>. QED
    BY <1>7, <1>18, <2>3 DEF Touch
<1>20. PICK k \in ChainRecords : /\ chains' = [c \in Chains |-> IF c # a THEN chains[c] ELSE k]
                                 /\ k.padding = k0.padding /\ k.tap_state = y
                                 /\ k.scan_state = x
  <2>1. \E k \in ChainRecords :
            /\ Noted(chains, a, x, y) = Instead(chains, a, k)
            /\ k.padding = chains[a].padding /\ k.tap_state = y /\ k.scan_state = x
    BY <1>1, ScannedRecord
  <2>. QED
    BY <1>2, <1>16, <2>1 DEF Chain, Instead
<1>21. \A p \in PaddingTypes : k.padding[p] <= MaxPad(p)
  BY <1>2, <1>20, ActiveChain
<1>22. ASSUME keep PROVE i \in Ideals /\ AgreeHw(e, t, k, i)
  <2>1. ok /\ a \in in_step /\ end # Exit1(s)
    BY <1>18, <1>22
  <2>2. AgreeHw(current_state, Tap, k0, Ideal)
    BY <1>1, <1>2, <2>1, ActiveChain
  <2>3. Ideal.open <=> k0.scan_state = "Run"
    BY <2>2 DEF AgreeHw, Common
  <2>4. Pieces(Ideal, k0, length, end, pre, post)
    BY <1>1, <1>3, <1>4, <1>5, <1>15, <2>3, PiecesAre
  <2>5. end \in {s, "RTI", Pause(s)}
    BY <1>7, <2>1 DEF xfer_hw2_ok
  <2>6. t = xfer_hw2(Tap, s, pre, length, post, end)
    BY <1>8, <1>9, <2>1
  <2>7. k.tap_state = end /\ (k.scan_state = "Run" <=> end = s)
    BY <1>11, <1>12, <1>20, <2>1
  <2>8. /\ ideal_scan(Ideal, k0, length, end) \in Ideals
        /\ AgreeHw(hw2_endstate(s, length, end), xfer_hw2(Tap, s, pre, length, post, end), k,
                   ideal_scan(Ideal, k0, length, end))
    BY <1>3, <1>6, <2>2, <2>4, <2>5, <2>7, ScanAgreesHw
  <2>. QED
    BY <1>13, <1>14, <2>6, <2>8
<1>23. keep => /\ i \in Ideals /\ active_chain \in reset_done'
               /\ IF sw_mode THEN AgreeSw(t, k, i) ELSE AgreeHw(current_state', t, k, i)
  BY <1>1, <1>15, <1>17, <1>18, <1>22 DEF IInv, Types
<1>24. /\ reset_done \subseteq reset_done' /\ reset_done' \subseteq reset_done \cup {active_chain}
       /\ current_state' \in TapStates
       /\ (sw_mode /\ active_chain \in reset_done' => t.state = k.tap_state)
  BY <1>1, <1>15, <1>17
<1>. QED
  BY <1>1, <1>10, <1>15, <1>19, <1>20, <1>21, <1>23, <1>24, TouchOutcome

\* A step that changes nothing.
LEMMA StutterKeeps ==
  ASSUME IInv, UNCHANGED vars
  PROVE  IInv'
<1>1. /\ opened' = opened /\ sw_mode' = sw_mode /\ active_chain' = active_chain
      /\ chains' = chains /\ current_state' = current_state /\ tap' = tap
      /\ reset_done' = reset_done /\ in_step' = in_step /\ ideal' = ideal
  BY DEF vars, handlerVars
<1>2. Types'
  BY <1>1 DEF IInv, Types
<1>3. (~ opened => reset_done = {})'
  BY <1>1 DEF IInv
<1>4. Known'
  BY <1>1 DEF IInv, Known
<1>5. Agreed'
  BY <1>1 DEF IInv, Agreed
<1>. QED
  BY <1>2, <1>3, <1>4, <1>5 DEF IInv

\* Every step keeps the invariant.
LEMMA NextKeeps == IInv /\ [Next]_vars => IInv'
<1>. SUFFICES ASSUME IInv, [Next]_vars PROVE IInv'
  OBVIOUS
<1>1. ASSUME NEW sw \in BOOLEAN, JTAG_initialize(sw) PROVE IInv'
  BY <1>1, InitializeKeeps
<1>2. CASE JTAG_deinitialize
  BY <1>2, DeinitializeKeeps
<1>3. ASSUME NEW p \in PaddingTypes, NEW v \in PadValues, JTAG_set_padding(p, v)
      PROVE  IInv'
  BY <1>3, PaddingKeeps
<1>4. ASSUME NEW s \in Goals, JTAG_set_tap_state(s) PROVE IInv'
  <2>1. s \in TapStates
    BY GoalsAssumption
  <2>2. CASE s = "TLR"
    BY <1>4, <2>2, ResetKeeps
  <2>3. CASE s # "TLR"
    BY <1>4, <2>1, <2>3, MoveKeeps
  <2>. QED
    BY <2>2, <2>3
<1>5. ASSUME NEW n \in Lengths, JTAG_wait_cycles(n) PROVE IInv'
  BY <1>5, WaitKeeps
<1>6. ASSUME NEW c \in Chains, JTAG_set_active_chain(c) PROVE IInv'
  BY <1>6, ActiveChainKeeps
<1>7. ASSUME NEW n \in Lengths, NEW e \in Goals,
             NEW f \in {"no", "prefix", "data", "postfix"}, JTAG_shift(n, e, f)
      PROVE  IInv'
  BY <1>7, ShiftKeeps
<1>8. ASSUME NEW n \in Lengths, NEW e \in Goals, NEW f \in BOOLEAN, JTAG_shift_hw(n, e, f)
      PROVE  IInv'
  BY <1>8, ShiftHwKeeps
<1>9. CASE UNCHANGED vars
  BY <1>9, StutterKeeps
<1>. QED
  BY <1>1, <1>2, <1>3, <1>4, <1>5, <1>6, <1>7, <1>8, <1>9 DEF Next

-------------------------------------------------------------------------------
(* What the invariant implies.                                             *)

\* The types.
LEMMA ImpliesTypes == IInv => TypeOK
<1>. SUFFICES ASSUME IInv PROVE TypeOK
  OBVIOUS
<1>1. ASSUME NEW c \in Chains
      PROVE  /\ tap[c].state \in TapStates /\ Len(tap[c].bits) <= HISTORY_MAX
             /\ Len(ideal[c].tap.bits) <= HISTORY_MAX
             /\ \A p \in PaddingTypes : chains[c].padding[p] <= MaxPad(p)
  <2>1. tap[c] \in Taps /\ ideal[c] \in Ideals
    BY DEF IInv, Types
  <2>2. ideal[c].tap \in Taps
    BY <2>1 DEF Ideals
  <2>3. tap[c].state \in TapStates /\ Len(tap[c].bits) <= HISTORY_MAX
    BY <2>1, TapParts
  <2>4. Len(ideal[c].tap.bits) <= HISTORY_MAX
    BY <2>2, TapParts
  <2>. QED
    BY <2>3, <2>4 DEF IInv, Types
<1>. QED
  BY <1>1 DEF IInv, Types, TypeOK, ChainRecords

\* In software mode, the state of the TAPs.
LEMMA ImpliesTracked == IInv => TapTracked
BY DEF IInv, Known, TapTracked

\* In hardware mode, what the driver takes the active TAP for.
LEMMA ImpliesDriver == IInv => DriverTracksTap
<1>. SUFFICES ASSUME IInv, opened, ~ sw_mode, active_chain \in in_step
              PROVE  /\ \/ current_state = tap[active_chain].state
                        \/ {current_state, tap[active_chain].state} \subseteq {"TLR", "RTI"}
                     /\ Chain.tap_state \in ShiftStates =>
                            \A e \in {Chain.tap_state, "RTI", Pause(Chain.tap_state)} :
                                xfer_hw2_ok(Chain.tap_state, e)
  BY DEF DriverTracksTap
<1>1. AgreeHw(current_state, tap[active_chain], Chain, ideal[active_chain])
  BY DEF IInv, Agreed, Chain
<1>2. CASE current_state \in {"TLR", "RTI"}
  <2>1. tap[active_chain].state = "RTI"
    BY <1>1, <1>2 DEF AgreeHw, AtRest
  <2>. QED
    BY <1>2, <2>1 DEF xfer_hw2_ok
<1>3. CASE current_state \notin {"TLR", "RTI"}
  <2>1. UnderWay(tap[active_chain], Chain, ideal[active_chain], current_state)
    BY <1>1, <1>3 DEF AgreeHw
  <2>2. current_state = tap[active_chain].state
    BY <2>1 DEF UnderWay
  <2>3. ASSUME Chain.tap_state \in ShiftStates
        PROVE  current_state \in {Chain.tap_state, Pause(Chain.tap_state)}
    BY <2>1, <2>3 DEF UnderWay, ShiftStates, Pause
  <2>. QED
    BY <2>2, <2>3 DEF xfer_hw2_ok
<1>. QED
  BY <1>2, <1>3

\* What the registers are updated with.
LEMMA ImpliesUpdates == IInv => UpdatesAsAsked
<1>. SUFFICES ASSUME IInv, NEW c \in in_step
              PROVE  tap[c].updates = ideal[c].tap.updates
  BY DEF UpdatesAsAsked
<1>1. Common(tap[c], chains[c], ideal[c])
  BY DEF IInv, Agreed, AgreeSw, AgreeHw, AgreeAside
<1>. QED
  BY <1>1 DEF Common

-------------------------------------------------------------------------------
(* The theorems.                                                           *)

\* The handler, the driver and the TAPs agree as IInv says after every call
\* of the handler, however it ends: JTAG_initialize, JTAG_set_padding,
\* JTAG_set_tap_state, JTAG_wait_cycles, JTAG_set_active_chain, JTAG_shift
\* and JTAG_shift_hw, for any number of chains, lengths and padding sizes.
THEOREM ScanInvariant == Spec => []IInv
BY InitIInv, NextKeeps, PTL DEF Spec

\* The types of the handler's and the driver's variables, and every padding
\* that JTAG_set_padding accepts fits the buffer its bits are taken from.
THEOREM ScanTypeOK == Spec => []TypeOK
<1>1. IInv => TypeOK
  BY ImpliesTypes
<1>. QED
  BY <1>1, ScanInvariant, PTL

\* In software mode tap_state of the handler is the state of the TAP on every
\* chain reset by JTAG_initialize or JTAG_tap_reset, whichever transfer of
\* perform_shift failed.
THEOREM ScanTapTracked == Spec => []TapTracked
<1>1. IInv => TapTracked
  BY ImpliesTracked
<1>. QED
  BY <1>1, ScanInvariant, PTL

\* In hardware mode current_state of the driver is where the active TAP is,
\* the single-bit workaround of aspeed_jtag_xfer_hw2 included, and the driver
\* refuses none of the scans that the client may ask for.  A scan is one chunk
\* of the driver, as the scans of the daemon are.
THEOREM ScanDriverTracksTap == Spec => []DriverTracksTap
<1>1. IInv => DriverTracksTap
  BY ImpliesDriver
<1>. QED
  BY <1>1, ScanInvariant, PTL

\* A register is updated with the prefix, the data of all the pieces and the
\* postfix of the scans that JTAG_shift and JTAG_shift_hw were asked for, and
\* by nothing else, on every chain used as supported.
THEOREM ScanUpdatesAsAsked == Spec => []UpdatesAsAsked
<1>1. IInv => UpdatesAsAsked
  BY ImpliesUpdates
<1>. QED
  BY <1>1, ScanInvariant, PTL

===============================================================================
