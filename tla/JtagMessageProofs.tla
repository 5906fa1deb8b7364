-------------------------- MODULE JtagMessageProofs ---------------------------
(***************************************************************************)
(* The walk of process_jtag_message over a packet, for packets of any      *)
(* length and commands: what a scan looks ahead at it reads again, every   *)
(* command is carried out once, the response has the size expected, and    *)
(* the TAP of every chain is where the packet's commands have put it.      *)
(***************************************************************************)
EXTENDS JtagMessage, FiniteSetTheorems, SequenceTheorems, WellFoundedInduction, TLAPS

B == 0 .. 255

-------------------------------------------------------------------------------
(* Induction over natural numbers, stated with a set for what is to be     *)
(* shown, and recursion from the end of a packet.                          *)

\* A non-empty set of natural numbers has a least element.
LEMMA LeastNat ==
  ASSUME NEW T, T \subseteq Nat, T # {}
  PROVE  \E i \in T : \A j \in T : i =< j
<1>1. PICK i \in T : \A j \in T : ~ (<<j, i>> \in OpToRel(<, Nat))
  BY NatLessThanWellFounded, WFMin
<1>2. \A j \in T : ~ (j < i)
  BY <1>1 DEF OpToRel
<1>. QED
  BY <1>2

\* A set that holds 0 and, with k, also k + 1 holds the whole interval.
LEMMA IntervalInduction ==
  ASSUME NEW N \in Nat, NEW G, 0 \in G,
         \A k \in 0 .. (N - 1) : k \in G => k + 1 \in G
  PROVE  0 .. N \subseteq G
<1> DEFINE T == (0 .. N) \ G
<1>. SUFFICES ASSUME T # {} PROVE FALSE
  OBVIOUS
<1>1. T \subseteq Nat
  OBVIOUS
<1> HIDE DEF T
<1>2. PICK k \in T : \A j \in T : k =< j
  BY <1>1, LeastNat
<1> USE DEF T
<1>3. k \in 1 .. N /\ k - 1 \in 0 .. (N - 1)
  BY <1>2
<1>4. k - 1 \in G
  BY <1>2, <1>3
<1>5. (k - 1) + 1 = k
  BY <1>3
<1>. QED
  BY <1>2, <1>3, <1>4, <1>5

\* A set that holds the numbers from N on and, with all the numbers above i, also
\* i holds them all.
LEMMA BackwardInduction ==
  ASSUME NEW N \in Nat, NEW G, \A i \in Nat : i >= N => i \in G,
         \A i \in 0 .. (N - 1) : (\A j \in Nat : j > i => j \in G) => i \in G
  PROVE  Nat \subseteq G
<1> DEFINE H == {k \in Nat : \A i \in Nat : i >= N - k => i \in G}
<1>1. 0 \in H
  OBVIOUS
<1>2. ASSUME NEW k \in 0 .. (N - 1), k \in H PROVE k + 1 \in H
  <2>1. ASSUME NEW i \in Nat, i >= N - (k + 1) PROVE i \in G
    <3>1. CASE i >= N - k
      BY <1>2, <3>1
    <3>2. CASE ~(i >= N - k)
      <4>1. i \in 0 .. (N - 1) /\ \A j \in Nat : j > i => j >= N - k
        BY <2>1, <3>2
      <4>. QED
        BY <1>2, <4>1
    <3>. QED
      BY <3>1, <3>2
  <2>. QED
    BY <2>1
<1>3. 0 .. N \subseteq H
  <2> HIDE DEF H
  <2>. QED
    BY <1>1, <1>2, IntervalInduction
<1>4. N \in H /\ \A i \in Nat : i >= N - N
  BY <1>3
<1>. QED
  BY <1>4

\* The value of g at i is made of i and of the value at a later place.
Backward(g, N, v, next, comb) ==
  /\ \A i \in Nat : i >= N => g[i] = v
  /\ \A i \in 0 .. (N - 1) : g[i] = comb[i][g[next[i]]]

\* Functions can be defined from the end.
LEMMA BackwardRecursion ==
  ASSUME NEW N \in Nat, NEW V, NEW v \in V, NEW next \in [0 .. (N - 1) -> Nat],
         NEW comb \in [0 .. (N - 1) -> [V -> V]],
         \A i \in 0 .. (N - 1) : next[i] > i
  PROVE  \E g \in [Nat -> V] : Backward(g, N, v, next, comb)
<1> DEFINE F(g, i) == IF i >= N THEN v ELSE comb[i][g[next[i]]]
           G == {i \in Nat : \E g \in [Nat -> V] : \A j \in Nat : j >= i => g[j] = F(g, j)}
<1>1. \A i \in Nat : i >= N => i \in G
  <2>1. [j \in Nat |-> v] \in [Nat -> V]
    OBVIOUS
  <2>2. ASSUME NEW i \in Nat, i >= N, NEW j \in Nat, j >= i
        PROVE  [x \in Nat |-> v][j] = F([x \in Nat |-> v], j)
    <3>1. j >= N
      BY <2>2
    <3>. QED
      BY <3>1
  <2> HIDE DEF F
  <2>. QED
    BY <2>1, <2>2
<1>2. ASSUME NEW i \in 0 .. (N - 1), \A j \in Nat : j > i => j \in G
      PROVE  i \in G
  <2>1. i + 1 \in Nat /\ i + 1 > i /\ i \in Nat
    OBVIOUS
  <2>2. PICK g \in [Nat -> V] : \A j \in Nat : j >= i + 1 => g[j] = F(g, j)
    BY <1>2, <2>1
  <2> DEFINE h == [g EXCEPT ![i] = F(g, i)]
  <2>3. F(g, i) \in V
    OBVIOUS
  <2>4. h \in [Nat -> V] /\ h[i] = F(g, i) /\ \A j \in Nat : j # i => h[j] = g[j]
    <3> HIDE DEF F
    <3>. QED
      BY <2>1, <2>3
  <2> HIDE DEF h
  <2>5. ASSUME NEW j \in Nat, j >= i PROVE F(h, j) = F(g, j)
    <3>1. CASE j >= N
      BY <3>1
    <3>2. CASE ~(j >= N)
      <4>1. j \in 0 .. (N - 1)
        BY <3>2
      <4>2. next[j] \in Nat /\ next[j] > j
        BY <4>1
      <4>3. next[j] # i
        BY <2>1, <2>5, <4>2
      <4>. QED
        BY <2>4, <3>2, <4>2, <4>3
    <3>. QED
      BY <3>1, <3>2
  <2> HIDE DEF F
  <2>6. \A j \in Nat : j >= i => h[j] = F(h, j)
    <3>1. ASSUME NEW j \in Nat, j >= i PROVE h[j] = F(h, j)
      <4>1. j = i \/ (j >= i + 1 /\ j # i)
        BY <2>1, <3>1
      <4>. QED
        BY <2>2, <2>4, <2>5, <3>1, <4>1
    <3>. QED
      BY <3>1
  <2>. QED
    BY <2>1, <2>4, <2>6
<1>3. Nat \subseteq G
  <2> HIDE DEF G
  <2>. QED
    BY <1>1, <1>2, BackwardInduction
<1>4. PICK g \in [Nat -> V] : \A j \in Nat : j >= 0 => g[j] = F(g, j)
  <2> HIDE DEF F
  <2>1. 0 \in G
    <3> HIDE DEF G
    <3>. QED
      BY <1>3
  <2>. QED
    BY <2>1
<1>5. /\ \A j \in Nat : j >= 0
      /\ \A j \in 0 .. (N - 1) : j \in Nat /\ ~(j >= N)
  OBVIOUS
<1>6. \A i \in Nat : i >= N => g[i] = v
  BY <1>4, <1>5
<1>7. \A i \in 0 .. (N - 1) : g[i] = comb[i][g[next[i]]]
  BY <1>4, <1>5
<1>. QED
  BY <1>6, <1>7 DEF Backward
-------------------------------------------------------------------------------
(* The bytes of a command.                                                 *)

\* A scan of L bits takes the bytes that hold them, 64 bits being written as 0.
LEMMA ScanLength ==
  ASSUME NEW b \in B
  PROVE  /\ get_scan_length(b) \in 1 .. 8
         /\ LET bits == IF b % 64 = 0 THEN 64 ELSE b % 64
            IN  /\ 8 * (get_scan_length(b) - 1) < bits
                /\ bits <= 8 * get_scan_length(b)
<1>1. b % 64 \in 0 .. 63
  BY DEF B
<1>2. PICK x \in 0 .. 63 : x = b % 64
  BY <1>1
<1>3. CASE x = 0
  BY <1>2, <1>3 DEF get_scan_length
<1>4. CASE x # 0
  <2>1. PICK n : n = (x + 7) \div 8
    OBVIOUS
  <2>2. n \in Int /\ 8 * n =< x + 7 /\ x + 7 < 8 * n + 8
    BY <2>1
  <2>3. n \in 1 .. 8 /\ 8 * (n - 1) < x /\ x =< 8 * n
    BY <1>4, <2>2
  <2>4. get_scan_length(b) = n
    BY <1>2, <1>4, <2>1 DEF get_scan_length
  <2>. QED
    BY <1>2, <1>4, <2>3, <2>4
<1>. QED
  BY <1>3, <1>4

\* The bytes a command takes are the ones the table of commands says.
LEMMA OperandsBehind ==
  ASSUME NEW b \in B
  PROVE  Behind(b) = operands(b) /\ operands(b) \in 0 .. 8
<1>1. CASE b \in WriteScan \cup ReadWriteScan
  <2>1. operands(b) = get_scan_length(b)
    BY <1>1 DEF operands, WriteScan, ReadWriteScan, WRITE_EVENT_CONFIG, JTAG_FREQ, DR_PREFIX,
         DR_POSTFIX, PRDY_TIMEOUT, WRITE_PINS, ReadStatus, WaitCycles, IR_PREFIX, IR_POSTFIX,
         WAIT_SYNC
  <2> DEFINE bits == IF b % 64 = 0 THEN 64 ELSE b % 64
  <2>2. bits \in Nat
    BY DEF B
  <2>3. /\ get_scan_length(b) \in 1 .. 8
        /\ 8 * (get_scan_length(b) - 1) < bits /\ bits <= 8 * get_scan_length(b)
    BY ScanLength
  <2>4. Behind(b) = CHOOSE n \in 1 .. 8 : 8 * (n - 1) < bits /\ bits <= 8 * n
    BY <1>1 DEF Behind
  <2> HIDE DEF bits
  <2>5. \A m, n \in 1 .. 8 : (/\ 8 * (n - 1) < bits /\ bits <= 8 * n
                              /\ 8 * (m - 1) < bits /\ bits <= 8 * m) => m = n
    BY <2>2
  <2>6. Behind(b) = get_scan_length(b)
    <3>1. /\ Behind(b) \in 1 .. 8
          /\ 8 * (Behind(b) - 1) < bits /\ bits <= 8 * Behind(b)
      BY <2>3, <2>4
    <3>. QED
      BY <2>3, <2>5, <3>1
  <2>. QED
    BY <2>1, <2>3, <2>6
<1>2. CASE b \notin WriteScan \cup ReadWriteScan
  <2>1. Behind(b) = operands(b)
    BY <1>2 DEF Behind
  <2>2. operands(b) \in {0, 1, 2, 4}
    BY <1>2 DEF operands
  <2>. QED
    BY <2>1, <2>2
<1>. QED
  BY <1>1, <1>2

-------------------------------------------------------------------------------
(* Where the commands of a packet start, and what they answer.             *)

Rest(p, i) == i + 1 + Behind(p[i + 1])

StartsFrom(p) ==
  CHOOSE f : f = [i \in Nat |-> IF i >= Len(p) THEN {} ELSE {i} \cup f[Rest(p, i)]]

\* Starts is the value of StartsFrom at the start of the packet.
LEMMA StartsIs == \A p : Starts(p) = StartsFrom(p)[0]
BY DEF Starts, StartsFrom, Rest

AnswerSize(b) ==
  CASE b \in ReadStatus -> 2
    [] b \in ReadScan \cup ReadWriteScan -> 1 + Behind(b - (b \div 64) * 64 + 64)
    [] OTHER -> 0

ExpectedFrom(p) ==
  CHOOSE f : f = [i \in Nat |-> IF i >= Len(p) THEN 0 ELSE AnswerSize(p[i + 1]) + f[Rest(p, i)]]

\* So is Expected.
LEMMA ExpectedIs == \A p : Expected(p) = ExpectedFrom(p)[0]
BY DEF Expected, ExpectedFrom, Rest, AnswerSize

\* The next command starts behind the operands.
LEMMA RestLater ==
  ASSUME NEW p \in Seq(B), NEW i \in 0 .. (Len(p) - 1)
  PROVE  /\ p[i + 1] \in B /\ Rest(p, i) = i + 1 + operands(p[i + 1])
         /\ Rest(p, i) \in Nat /\ Rest(p, i) > i
<1>1. i + 1 \in 1 .. Len(p)
  OBVIOUS
<1>2. p[i + 1] \in B
  BY <1>1
<1>3. Behind(p[i + 1]) = operands(p[i + 1]) /\ operands(p[i + 1]) \in 0 .. 8
  BY <1>2, OperandsBehind
<1>. QED
  BY <1>2, <1>3 DEF Rest

\* The recursion of Starts has a solution.
LEMMA StartsEquation ==
  ASSUME NEW p \in Seq(B)
  PROVE  /\ \A i \in Nat : i >= Len(p) => StartsFrom(p)[i] = {}
         /\ \A i \in 0 .. (Len(p) - 1) : StartsFrom(p)[i] = {i} \cup StartsFrom(p)[Rest(p, i)]
<1> DEFINE N == Len(p)
           V == SUBSET Nat
           next == [i \in 0 .. (N - 1) |-> Rest(p, i)]
           comb == [i \in 0 .. (N - 1) |-> [x \in V |-> {i} \cup x]]
<1>1. N \in Nat /\ {} \in V
  OBVIOUS
<1>2. \A i \in 0 .. (N - 1) : next[i] \in Nat /\ next[i] > i /\ next[i] = Rest(p, i)
  BY RestLater
<1>3. \A i \in 0 .. (N - 1) : \A x \in V : comb[i][x] \in V /\ comb[i][x] = {i} \cup x
  OBVIOUS
<1>4. PICK g \in [Nat -> V] : Backward(g, N, {}, next, comb)
  <2>1. next \in [0 .. (N - 1) -> Nat] /\ \A i \in 0 .. (N - 1) : next[i] > i
    BY <1>2
  <2>2. comb \in [0 .. (N - 1) -> [V -> V]]
    BY <1>3
  <2> HIDE DEF N, V, next, comb
  <2>. QED
    BY <1>1, <2>1, <2>2, BackwardRecursion, Zenon
<1>13. /\ \A i \in Nat : i >= N => g[i] = {}
       /\ \A i \in 0 .. (N - 1) : g[i] = comb[i][g[next[i]]]
  <2> HIDE DEF N, V, next, comb
  <2>. QED
    BY <1>4 DEF Backward
<1>5. \A i \in Nat : g[i] = IF i >= N THEN {} ELSE {i} \cup g[Rest(p, i)]
  <2>1. ASSUME NEW i \in Nat, ~(i >= N) PROVE g[i] = {i} \cup g[Rest(p, i)]
    <3>1. i \in 0 .. (N - 1)
      BY <1>1, <2>1
    <3>2. next[i] = Rest(p, i) /\ g[next[i]] \in V
      BY <1>2, <3>1
    <3> HIDE DEF N, V, next, comb
    <3>. QED
      BY <1>3, <1>13, <2>1, <3>1, <3>2
  <2>. QED
    BY <1>13, <2>1
<1>6. g = [i \in Nat |-> IF i >= Len(p) THEN {} ELSE {i} \cup g[Rest(p, i)]]
  BY <1>5
<1>7. StartsFrom(p) = [i \in Nat |-> IF i >= Len(p) THEN {} ELSE {i} \cup StartsFrom(p)[Rest(p, i)]]
  BY <1>6 DEF StartsFrom
<1>8. PICK f : f = StartsFrom(p)
  OBVIOUS
<1>9. f = [i \in Nat |-> IF i >= Len(p) THEN {} ELSE {i} \cup f[Rest(p, i)]]
  BY <1>7, <1>8
<1>10. \A i \in Nat : f[i] = IF i >= Len(p) THEN {} ELSE {i} \cup f[Rest(p, i)]
  BY <1>9
<1>11. \A i \in 0 .. (Len(p) - 1) : i \in Nat /\ ~(i >= Len(p))
  BY <1>1
<1>. QED
  BY <1>8, <1>10, <1>11

\* The client expects two bytes for a status and the command with its data for a
\* scan that reads.
LEMMA AnswerSizeIs ==
  ASSUME NEW b \in B
  PROVE  /\ AnswerSize(b) = IF b \in ReadStatus THEN 2
                            ELSE IF b \in ReadScan \cup ReadWriteScan THEN 1 + get_scan_length(b)
                            ELSE 0
         /\ AnswerSize(b) \in Nat
<1>1. PICK c : c = b - (b \div 64) * 64 + 64
  OBVIOUS
<1>2. c \in WriteScan /\ c \in B /\ c % 64 = b % 64
  BY <1>1 DEF WriteScan, B
<1>3. get_scan_length(c) = get_scan_length(b)
  BY <1>2 DEF get_scan_length
<1>4. operands(c) = get_scan_length(c)
  BY <1>2 DEF operands, WriteScan, WRITE_EVENT_CONFIG, JTAG_FREQ, DR_PREFIX,
       DR_POSTFIX, PRDY_TIMEOUT, WRITE_PINS, ReadStatus, WaitCycles, IR_PREFIX, IR_POSTFIX,
       WAIT_SYNC
<1>5. Behind(c) = get_scan_length(b)
  BY <1>2, <1>3, <1>4, OperandsBehind
<1>6. get_scan_length(b) \in 1 .. 8
  BY ScanLength
<1>7. b \in ReadStatus => b \notin ReadScan \cup ReadWriteScan
  BY DEF ReadStatus, ReadScan, ReadWriteScan
<1>8. AnswerSize(b) = IF b \in ReadStatus THEN 2
                      ELSE IF b \in ReadScan \cup ReadWriteScan THEN 1 + Behind(c) ELSE 0
  BY <1>1, <1>7 DEF AnswerSize
<1>. QED
  BY <1>5, <1>6, <1>8

\* The recursion of Expected has one, too.
LEMMA ExpectedEquation ==
  ASSUME NEW p \in Seq(B)
  PROVE  /\ \A i \in Nat : ExpectedFrom(p)[i] \in Nat
         /\ \A i \in Nat : i >= Len(p) => ExpectedFrom(p)[i] = 0
         /\ \A i \in 0 .. (Len(p) - 1) :
               ExpectedFrom(p)[i] = AnswerSize(p[i + 1]) + ExpectedFrom(p)[Rest(p, i)]
<1> DEFINE N == Len(p)
           V == Nat
           next == [i \in 0 .. (N - 1) |-> Rest(p, i)]
           comb == [i \in 0 .. (N - 1) |-> [x \in V |-> AnswerSize(p[i + 1]) + x]]
<1>0. \A i \in 0 .. (N - 1) : AnswerSize(p[i + 1]) \in Nat
  BY RestLater, AnswerSizeIs
<1>1. N \in Nat /\ 0 \in V
  OBVIOUS
<1>2. \A i \in 0 .. (N - 1) : next[i] \in Nat /\ next[i] > i /\ next[i] = Rest(p, i)
  BY RestLater
<1>3. \A i \in 0 .. (N - 1) : \A x \in V : comb[i][x] \in V /\ comb[i][x] = AnswerSize(p[i + 1]) + x
  BY <1>0
<1>4. PICK g \in [Nat -> V] : Backward(g, N, 0, next, comb)
  <2>1. next \in [0 .. (N - 1) -> Nat] /\ \A i \in 0 .. (N - 1) : next[i] > i
    BY <1>2
  <2>2. comb \in [0 .. (N - 1) -> [V -> V]]
    BY <1>3
  <2> HIDE DEF N, V, next, comb
  <2>. QED
    BY <1>1, <2>1, <2>2, BackwardRecursion, Zenon
<1>13. /\ \A i \in Nat : i >= N => g[i] = 0
       /\ \A i \in 0 .. (N - 1) : g[i] = comb[i][g[next[i]]]
  <2> HIDE DEF N, V, next, comb
  <2>. QED
    BY <1>4 DEF Backward
<1>5. \A i \in Nat : g[i] = IF i >= N THEN 0 ELSE AnswerSize(p[i + 1]) + g[Rest(p, i)]
  <2>1. ASSUME NEW i \in Nat, ~(i >= N) PROVE g[i] = AnswerSize(p[i + 1]) + g[Rest(p, i)]
    <3>1. i \in 0 .. (N - 1)
      BY <1>1, <2>1
    <3>2. next[i] = Rest(p, i) /\ g[next[i]] \in V
      BY <1>2, <3>1
    <3> HIDE DEF N, V, next, comb
    <3>. QED
      BY <1>3, <1>13, <2>1, <3>1, <3>2
  <2>. QED
    BY <1>13, <2>1
<1>6. g = [i \in Nat |-> IF i >= Len(p) THEN 0 ELSE AnswerSize(p[i + 1]) + g[Rest(p, i)]]
  BY <1>5
<1>7. ExpectedFrom(p) =
        [i \in Nat |-> IF i >= Len(p) THEN 0
                       ELSE AnswerSize(p[i + 1]) + ExpectedFrom(p)[Rest(p, i)]]
  BY <1>6 DEF ExpectedFrom
<1>8. PICK f : f = ExpectedFrom(p)
  OBVIOUS
<1>9. f = [i \in Nat |-> IF i >= Len(p) THEN 0 ELSE AnswerSize(p[i + 1]) + f[Rest(p, i)]]
  BY <1>7, <1>8
<1>10. \A i \in Nat : f[i] = IF i >= Len(p) THEN 0 ELSE AnswerSize(p[i + 1]) + f[Rest(p, i)]
  BY <1>9
<1>11. \A i \in 0 .. (Len(p) - 1) : i \in Nat /\ ~(i >= Len(p))
  BY <1>1
<1>12. \A i \in Nat : f[i] \in Nat
  <2> DEFINE G == {i \in Nat : f[i] \in Nat}
  <2>1. \A i \in Nat : i >= Len(p) => i \in G
    BY <1>10
  <2>2. \A i \in 0 .. (Len(p) - 1) : (\A j \in Nat : j > i => j \in G) => i \in G
    <3>1. ASSUME NEW i \in 0 .. (Len(p) - 1), \A j \in Nat : j > i => j \in G
          PROVE  i \in G
      <4>1. f[Rest(p, i)] \in Nat
        BY <3>1, RestLater
      <4>2. f[i] = AnswerSize(p[i + 1]) + f[Rest(p, i)]
        BY <1>10, <1>11
      <4>3. AnswerSize(p[i + 1]) \in Nat
        BY <1>0
      <4>4. \A x, y \in Nat : x + y \in Nat
        OBVIOUS
      <4>5. f[i] \in Nat
        BY <4>1, <4>2, <4>3, <4>4
      <4>. QED
        BY <1>11, <4>5
    <3>. QED
      BY <3>1
  <2>3. Nat \subseteq G
    <3> HIDE DEF G
    <3>. QED
      BY <1>1, <2>1, <2>2, BackwardInduction, Zenon
  <2>. QED
    BY <2>3
<1>. QED
  BY <1>8, <1>10, <1>11, <1>12

\* The commands behind a place in the packet are finitely many and start there or
\* later.
LEMMA StartsLater ==
  ASSUME NEW p \in Seq(B), NEW i \in Nat
  PROVE  IsFiniteSet(StartsFrom(p)[i]) /\ \A j \in StartsFrom(p)[i] : j \in Nat /\ j >= i
<1>1. PICK f : f = StartsFrom(p)
  OBVIOUS
<1>2. /\ \A k \in Nat : k >= Len(p) => f[k] = {}
      /\ \A k \in 0 .. (Len(p) - 1) : f[k] = {k} \cup f[Rest(p, k)]
  BY <1>1, StartsEquation
<1> DEFINE G == {k \in Nat : IsFiniteSet(f[k]) /\ \A j \in f[k] : j \in Nat /\ j >= k}
<1>3. \A k \in Nat : k >= Len(p) => k \in G
  BY <1>2, FS_EmptySet
<1>4. \A k \in 0 .. (Len(p) - 1) : (\A j \in Nat : j > k => j \in G) => k \in G
  <2>1. ASSUME NEW k \in 0 .. (Len(p) - 1), \A j \in Nat : j > k => j \in G
        PROVE  k \in G
    <3>1. PICK r : r = Rest(p, k)
      OBVIOUS
    <3>2. r \in Nat /\ r > k /\ r \in G /\ k \in Nat
      BY <2>1, <3>1, RestLater
    <3>3. f[k] = {k} \cup f[r]
      BY <1>2, <3>1
    <3>4. IsFiniteSet(f[r]) /\ \A j \in f[r] : j \in Nat /\ j >= r
      BY <3>2
    <3>5. f[k] = f[r] \cup {k}
      BY <3>3
    <3>6. IsFiniteSet(f[k])
      BY <3>4, <3>5, FS_AddElement
    <3>7. \A j \in f[k] : j \in Nat /\ j >= k
      BY <3>2, <3>3, <3>4
    <3>. QED
      BY <3>2, <3>6, <3>7
  <2>. QED
    BY <2>1
<1>5. Nat \subseteq G
  <2>1. Len(p) \in Nat
    OBVIOUS
  <2> HIDE DEF G
  <2>. QED
    BY <1>3, <1>4, <2>1, BackwardInduction, Zenon
<1>. QED
  BY <1>1, <1>5

\* One command more than behind the next one.
LEMMA StartsCount ==
  ASSUME NEW p \in Seq(B), NEW i \in 0 .. (Len(p) - 1)
  PROVE  /\ i \in StartsFrom(p)[i] /\ StartsFrom(p)[Rest(p, i)] \subseteq StartsFrom(p)[i]
         /\ Cardinality(StartsFrom(p)[i]) = Cardinality(StartsFrom(p)[Rest(p, i)]) + 1
         /\ Cardinality(StartsFrom(p)[Rest(p, i)]) \in Nat
<1>1. PICK r, S : r = Rest(p, i) /\ S = StartsFrom(p)[r]
  OBVIOUS
<1>2. r \in Nat /\ r > i
  BY <1>1, RestLater
<1>3. IsFiniteSet(S) /\ \A j \in S : j \in Nat /\ j >= r
  BY <1>1, <1>2, StartsLater
<1>4. i \notin S
  BY <1>2, <1>3
<1>5. StartsFrom(p)[i] = {i} \cup S
  BY <1>1, StartsEquation
<1>6. StartsFrom(p)[i] = S \cup {i}
  BY <1>5
<1>7. Cardinality(S \cup {i}) = Cardinality(S) + 1 /\ Cardinality(S) \in Nat
  BY <1>3, <1>4, FS_AddElement, FS_CardinalityType
<1>. QED
  BY <1>1, <1>5, <1>6, <1>7

-------------------------------------------------------------------------------
(* The lookahead.                                                          *)

Narrow == {WRITE_EVENT_CONFIG, DR_PREFIX, DR_POSTFIX, JTAG_FREQ} \cup WaitCycles
Wide == {IR_PREFIX, IR_POSTFIX}

LookStep(p, f, c, u) ==
  IF u >= Len(p) \/ c = 0 \/ p[c] \in TapState THEN <<c, u>>
  ELSE IF p[c] \in Narrow THEN f[u + 1][u + 1]
  ELSE IF p[c] \in Wide
       THEN IF u + 2 > Len(p) THEN <<0, u>> ELSE f[u + 2][u + 1]
  ELSE <<c, u>>

Look(p) ==
  CHOOSE f : f = [u \in 0 .. Len(p) |-> [c \in 0 .. Len(p) |-> LookStep(p, f, c, u)]]

\* next_cmd2 looks from behind the TAP_STATE command on.
LEMMA LookIs ==
  \A n : next_cmd2(n) =
           IF n + 1 > Len(packet) THEN <<0, n>> ELSE Look(packet)[n + 1][n + 1]
BY DEF next_cmd2, Look, LookStep, Narrow, Wide

\* The lookahead at one place uses the lookahead further on only.
LEMMA LookStepLocal ==
  ASSUME NEW T \in Nat, NEW p, Len(p) = T, NEW g, NEW h,
         NEW c \in 0 .. T, NEW u \in 0 .. T,
         \A w \in 0 .. T : w > u => g[w] = h[w]
  PROVE  LookStep(p, g, c, u) = LookStep(p, h, c, u)
<1>1. CASE u >= T
  BY <1>1 DEF LookStep
<1>2. CASE ~(u >= T)
  <2>1. u + 1 \in 0 .. T /\ u + 1 > u
    BY <1>2
  <2>2. ~(u + 2 > T) => u + 2 \in 0 .. T /\ u + 2 > u
    BY <1>2
  <2>3. g[u + 1] = h[u + 1] /\ (~(u + 2 > T) => g[u + 2] = h[u + 2])
    BY <2>1, <2>2
  <2>. QED
    BY <2>3 DEF LookStep
<1>. QED
  BY <1>1, <1>2

\* Its value is a place in the packet.
LEMMA LookStepType ==
  ASSUME NEW T \in Nat, NEW p, Len(p) = T, NEW g,
         NEW c \in 0 .. T, NEW u \in 0 .. T,
         \A w \in 0 .. T : w > u => \A d \in 0 .. T : g[w][d] \in (0 .. T) \X (w .. T)
  PROVE  LookStep(p, g, c, u) \in (0 .. T) \X (u .. T)
<1>1. <<c, u>> \in (0 .. T) \X (u .. T) /\ <<0, u>> \in (0 .. T) \X (u .. T)
  OBVIOUS
<1>2. CASE u >= T
  BY <1>1, <1>2 DEF LookStep
<1>3. CASE ~(u >= T)
  <2>1. u + 1 \in 0 .. T /\ u + 1 > u
    BY <1>3
  <2>2. ~(u + 2 > T) => u + 2 \in 0 .. T /\ u + 2 > u
    BY <1>3
  <2>3. \A w \in 0 .. T : w > u => (0 .. T) \X (w .. T) \subseteq (0 .. T) \X (u .. T)
    OBVIOUS
  <2>4. g[u + 1][u + 1] \in (0 .. T) \X (u .. T)
    BY <2>1, <2>3
  <2>5. ~(u + 2 > T) => g[u + 2][u + 1] \in (0 .. T) \X (u .. T)
    BY <2>1, <2>2, <2>3
  <2>. QED
    BY <1>1, <2>4, <2>5 DEF LookStep
<1>. QED
  BY <1>2, <1>3

\* The recursion of the lookahead has a solution.
LEMMA LookExists ==
  ASSUME NEW p \in Seq(B)
  PROVE  Look(p) = [u \in 0 .. Len(p) |-> [c \in 0 .. Len(p) |-> LookStep(p, Look(p), c, u)]]
<1>1. PICK T \in Nat : T = Len(p)
  OBVIOUS
<1> DEFINE D == 0 .. T
           Solves(g, i) == \A u \in D : u >= i =>
                              g[u] = [c \in D |-> LookStep(p, g, c, u)]
           G == {i \in Nat : \E g : DOMAIN g = D /\ g = [u \in D |-> g[u]] /\ Solves(g, i)}
<1>2. \A i \in Nat : i >= T + 1 => i \in G
  <2>1. \A g : \A i \in Nat : i >= T + 1 => Solves(g, i)
    OBVIOUS
  <2>2. PICK g : g = [u \in D |-> 0]
    OBVIOUS
  <2>3. DOMAIN g = D /\ g = [u \in D |-> g[u]]
    BY <2>2
  <2> HIDE DEF Solves, D
  <2>. QED
    BY <2>1, <2>3
<1>3. ASSUME NEW i \in 0 .. ((T + 1) - 1), \A j \in Nat : j > i => j \in G
      PROVE  i \in G
  <2>1. i \in Nat /\ i + 1 \in Nat /\ i + 1 > i /\ i \in D
    OBVIOUS
  <2>2. PICK g : DOMAIN g = D /\ g = [u \in D |-> g[u]] /\ Solves(g, i + 1)
    <3>1. i + 1 \in G
      BY <1>3, <2>1
    <3> HIDE DEF Solves, D
    <3>. QED
      BY <3>1
  <2>3. PICK h : h = [u \in D |-> IF u = i THEN [c \in D |-> LookStep(p, g, c, i)] ELSE g[u]]
    OBVIOUS
  <2>4. /\ DOMAIN h = D /\ h = [u \in D |-> h[u]]
        /\ h[i] = [c \in D |-> LookStep(p, g, c, i)]
        /\ \A u \in D : u # i => h[u] = g[u]
    BY <2>1, <2>3
  <2>5. ASSUME NEW u \in D, u >= i PROVE h[u] = [c \in D |-> LookStep(p, h, c, u)]
    <3>1. \A w \in D : w > u => g[w] = h[w]
      BY <2>1, <2>4, <2>5
    <3>2. \A c \in D : LookStep(p, g, c, u) = LookStep(p, h, c, u)
      BY <1>1, <3>1, LookStepLocal
    <3>3. h[u] = [c \in D |-> LookStep(p, g, c, u)]
      <4>1. CASE u = i
        BY <2>4, <4>1
      <4>2. CASE u # i
        <5>1. u >= i + 1
          BY <2>1, <2>5, <4>2
        <5>. QED
          BY <2>2, <2>4, <4>2, <5>1
      <4>. QED
        BY <4>1, <4>2
    <3>. QED
      BY <3>2, <3>3
  <2>6. Solves(h, i)
    BY <2>5
  <2> HIDE DEF Solves, D
  <2>. QED
    BY <2>1, <2>4, <2>6
<1>4. Nat \subseteq G
  <2>1. T + 1 \in Nat
    OBVIOUS
  <2> HIDE DEF G
  <2>. QED
    BY <1>2, <1>3, <2>1, BackwardInduction
<1>5. PICK g : DOMAIN g = D /\ g = [u \in D |-> g[u]] /\ Solves(g, 0)
  <2>1. 0 \in G
    <3> HIDE DEF G
    <3>. QED
      BY <1>4
  <2> HIDE DEF Solves, D
  <2>. QED
    BY <2>1
<1>6. \A u \in D : g[u] = [c \in D |-> LookStep(p, g, c, u)]
  BY <1>5
<1>7. g = [u \in D |-> [c \in D |-> LookStep(p, g, c, u)]]
  BY <1>5, <1>6
<1>8. g = [u \in 0 .. Len(p) |-> [c \in 0 .. Len(p) |-> LookStep(p, g, c, u)]]
  BY <1>1, <1>7
<1>. QED
  BY <1>8 DEF Look

\* The same, place by place.
LEMMA LookAt ==
  ASSUME NEW T, NEW p, NEW f, f = [u \in T |-> [c \in T |-> LookStep(p, f, c, u)]]
  PROVE  \A u \in T : \A c \in T : f[u][c] = LookStep(p, f, c, u)
OBVIOUS

\* What the lookahead leaves packet.used at is within the packet and not before
\* the place it started at.
LEMMA LookType ==
  ASSUME packet \in Seq(B), NEW n \in 1 .. Len(packet)
  PROVE  next_cmd2(n)[1] \in 0 .. Len(packet) /\ next_cmd2(n)[2] \in n .. Len(packet)
<1>1. PICK p, T : p = packet /\ T = Len(packet)
  OBVIOUS
<1>2. p \in Seq(B) /\ T \in Nat /\ T = Len(p) /\ n \in Nat /\ n \in 0 .. T
  BY <1>1
<1>3. PICK f : f = Look(p)
  OBVIOUS
<1>4. f = [u \in 0 .. T |-> [c \in 0 .. T |-> LookStep(p, f, c, u)]]
  BY <1>2, <1>3, LookExists
<1>5. \A u \in 0 .. T : \A c \in 0 .. T : f[u][c] = LookStep(p, f, c, u)
  <2>1. PICK D : D = 0 .. T
    OBVIOUS
  <2>2. f = [u \in D |-> [c \in D |-> LookStep(p, f, c, u)]]
    BY <1>4, <2>1
  <2>3. \A u \in D : \A c \in D : f[u][c] = LookStep(p, f, c, u)
    BY <2>2, LookAt
  <2>. QED
    BY <2>1, <2>3
<1> DEFINE G == {u \in Nat : u \in 0 .. T =>
                    \A c \in 0 .. T : f[u][c] \in (0 .. T) \X (u .. T)}
<1>6. \A u \in Nat : u >= T + 1 => u \in G
  BY <1>2
<1>7. ASSUME NEW u \in 0 .. ((T + 1) - 1), \A w \in Nat : w > u => w \in G
      PROVE  u \in G
  <2>1. u \in 0 .. T /\ u \in Nat
    BY <1>2
  <2>2. \A w \in 0 .. T : w > u => \A d \in 0 .. T : f[w][d] \in (0 .. T) \X (w .. T)
    BY <1>2, <1>7
  <2>3. \A c \in 0 .. T : LookStep(p, f, c, u) \in (0 .. T) \X (u .. T)
    BY <1>2, <2>1, <2>2, LookStepType
  <2>. QED
    BY <1>5, <2>1, <2>3
<1>8. Nat \subseteq G
  <2>1. T + 1 \in Nat
    BY <1>2
  <2> HIDE DEF G
  <2>. QED
    BY <1>6, <1>7, <2>1, BackwardInduction
<1>9. CASE n + 1 > T
  <2>1. next_cmd2(n) = <<0, n>>
    BY <1>1, <1>9, LookIs
  <2>2. 0 \in 0 .. T /\ n \in n .. T
    BY <1>2
  <2>. QED
    BY <1>1, <2>1, <2>2
<1>10. CASE ~(n + 1 > T)
  <2>1. n + 1 \in 0 .. T /\ n + 1 \in Nat
    BY <1>2, <1>10
  <2>2. next_cmd2(n) = f[n + 1][n + 1]
    BY <1>1, <1>3, <1>10, LookIs
  <2>3. f[n + 1][n + 1] \in (0 .. T) \X ((n + 1) .. T)
    BY <1>8, <2>1
  <2>4. (n + 1) .. T \subseteq n .. T
    BY <1>2
  <2>5. PICK x : x = next_cmd2(n)
    OBVIOUS
  <2>6. x \in (0 .. T) \X ((n + 1) .. T)
    BY <2>2, <2>3, <2>5
  <2>7. x[1] \in 0 .. T /\ x[2] \in n .. T
    BY <2>4, <2>6
  <2>. QED
    BY <1>1, <2>5, <2>7
<1>. QED
  BY <1>2, <1>9, <1>10

-------------------------------------------------------------------------------
(* The packet.                                                             *)

JoinedFrom(s) ==
  CHOOSE f : f = [i \in 0 .. Len(s) |-> IF i = 0 THEN <<>> ELSE f[i - 1] \o s[i]]

\* Joined is the last value of JoinedFrom.
LEMMA JoinedIs == \A s : Joined(s) = JoinedFrom(s)[Len(s)]
BY DEF Joined, JoinedFrom

\* Commands put together are a sequence of bytes.
LEMMA JoinedBytes ==
  ASSUME NEW n \in Nat, NEW s \in [1 .. n -> Commands]
  PROVE  Joined(s) \in Seq(B)
<1>1. Len(s) = n
  OBVIOUS
<1>2. \A i \in 1 .. n : s[i] \in Seq(B)
  BY CommandsAssumption DEF B
<1> DEFINE D == 0 .. n
           F(g, i) == IF i = 0 THEN <<>> ELSE g[i - 1] \o s[i]
           G == {k \in Nat : \E g \in [D -> Seq(B)] : \A i \in D : i =< k => g[i] = F(g, i)}
<1>3. 0 \in G
  <2>1. PICK g : g = [i \in D |-> <<>>]
    OBVIOUS
  <2>2. g \in [D -> Seq(B)]
    BY <2>1
  <2>3. \A i \in D : i =< 0 => g[i] = F(g, i)
    BY <2>1
  <2> HIDE DEF F, D
  <2>. QED
    BY <2>2, <2>3
<1>4. ASSUME NEW k \in 0 .. (n - 1), k \in G PROVE k + 1 \in G
  <2>1. PICK g \in [D -> Seq(B)] : \A i \in D : i =< k => g[i] = F(g, i)
    <3> HIDE DEF F, D
    <3>. QED
      BY <1>4
  <2>2. k \in D /\ k + 1 \in D /\ k + 1 \in 1 .. n /\ (k + 1) - 1 = k /\ k + 1 # 0
    OBVIOUS
  <2>3. PICK x : x = g[k] \o s[k + 1]
    OBVIOUS
  <2>4. x \in Seq(B)
    <3>1. g[k] \in Seq(B) /\ s[k + 1] \in Seq(B)
      BY <1>2, <2>2
    <3>. QED
      BY <2>3, <3>1, ConcatProperties
  <2>5. PICK h : h = [g EXCEPT ![k + 1] = x]
    OBVIOUS
  <2>6. /\ h \in [D -> Seq(B)] /\ h[k + 1] = x
        /\ \A i \in D : i # k + 1 => h[i] = g[i]
    BY <2>2, <2>4, <2>5
  <2>7. ASSUME NEW i \in D, i =< k + 1 PROVE h[i] = F(h, i)
    <3>1. CASE i = k + 1
      <4>1. h[k] = g[k]
        BY <2>2, <2>6
      <4>2. F(h, i) = h[k] \o s[k + 1]
        BY <2>2, <3>1
      <4>. QED
        BY <2>3, <2>6, <3>1, <4>1, <4>2
    <3>2. CASE i # k + 1
      <4>1. i =< k /\ (i # 0 => i - 1 \in D /\ i - 1 # k + 1)
        BY <2>7, <3>2
      <4>2. h[i] = g[i] /\ (i # 0 => h[i - 1] = g[i - 1])
        BY <2>6, <3>2, <4>1
      <4>3. g[i] = F(g, i)
        BY <2>1, <4>1
      <4>. QED
        BY <4>2, <4>3
    <3>. QED
      BY <3>1, <3>2
  <2>8. k + 1 \in Nat
    OBVIOUS
  <2> HIDE DEF F, D
  <2>. QED
    BY <2>6, <2>7, <2>8
<1>5. 0 .. n \subseteq G
  <2> HIDE DEF G
  <2>. QED
    BY <1>3, <1>4, IntervalInduction
<1>6. PICK g \in [D -> Seq(B)] : \A i \in D : i =< n => g[i] = F(g, i)
  <2>1. n \in G
    <3> HIDE DEF G
    <3>. QED
      BY <1>5
  <2> HIDE DEF F, D
  <2>. QED
    BY <2>1
<1>7. g = [i \in D |-> F(g, i)]
  <2>0. \A i \in D : i =< n
    OBVIOUS
  <2> HIDE DEF F, D
  <2>1. \A i \in D : g[i] = F(g, i)
    BY <1>6, <2>0
  <2>. QED
    BY <2>1
<1>8. g = [i \in 0 .. Len(s) |-> IF i = 0 THEN <<>> ELSE g[i - 1] \o s[i]]
  BY <1>1, <1>7
<1>9. PICK f : f = JoinedFrom(s)
  OBVIOUS
<1>10. f = [i \in 0 .. Len(s) |-> IF i = 0 THEN <<>> ELSE f[i - 1] \o s[i]]
  BY <1>8, <1>9 DEF JoinedFrom
<1>11. \A i \in D : f[i] = F(f, i)
  BY <1>1, <1>10
<1> DEFINE H == {k \in Nat : f[k] \in Seq(B)}
<1>12. 0 \in H
  <2>1. f[0] = <<>>
    BY <1>11
  <2>2. <<>> \in Seq(B)
    OBVIOUS
  <2>. QED
    BY <2>1, <2>2
<1>13. ASSUME NEW k \in 0 .. (n - 1), k \in H PROVE k + 1 \in H
  <2>1. k + 1 \in D /\ k + 1 \in 1 .. n /\ (k + 1) - 1 = k /\ k + 1 # 0 /\ k + 1 \in Nat
    OBVIOUS
  <2>2. f[k + 1] = f[k] \o s[k + 1]
    BY <1>11, <2>1
  <2>3. f[k] \in Seq(B) /\ s[k + 1] \in Seq(B)
    BY <1>2, <1>13, <2>1
  <2>4. f[k] \o s[k + 1] \in Seq(B)
    BY <2>3, ConcatProperties
  <2>. QED
    BY <2>1, <2>2, <2>4
<1>14. 0 .. n \subseteq H
  <2> HIDE DEF H
  <2>. QED
    BY <1>12, <1>13, IntervalInduction
<1>15. f[n] \in Seq(B)
  <2>1. n \in H
    <3> HIDE DEF H
    <3>. QED
      BY <1>14
  <2>. QED
    BY <2>1
<1>. QED
  BY <1>1, <1>9, <1>15, JoinedIs

-------------------------------------------------------------------------------
(* What is left to do and what has been done make up the packet.           *)

\* At place u of packet p, with e commands carried out and r bytes of response.
Counted(p, u, e, r) ==
  /\ StartsFrom(p)[u] \subseteq StartsFrom(p)[0]
  /\ e + Cardinality(StartsFrom(p)[u]) = Cardinality(StartsFrom(p)[0])
  /\ r + ExpectedFrom(p)[u] = ExpectedFrom(p)[0]

\* Nothing is done at the start.
LEMMA CountedStart ==
  ASSUME NEW p \in Seq(B)
  PROVE  Counted(p, 0, 0, 0)
<1>1. IsFiniteSet(StartsFrom(p)[0])
  BY StartsLater
<1>2. Cardinality(StartsFrom(p)[0]) \in Nat
  BY <1>1, FS_CardinalityType
<1>3. ExpectedFrom(p)[0] \in Nat
  BY ExpectedEquation
<1>. QED
  BY <1>2, <1>3 DEF Counted

\* A command carried out brings the walk to the next one.
LEMMA CountedStep ==
  ASSUME NEW p \in Seq(B), NEW u \in 0 .. (Len(p) - 1), NEW e \in Nat, NEW r \in Nat,
         Counted(p, u, e, r)
  PROVE  Counted(p, Rest(p, u), e + 1, r + AnswerSize(p[u + 1]))
<1>1. PICK w, a : w = Rest(p, u) /\ a = AnswerSize(p[u + 1])
  OBVIOUS
<1>2. w \in Nat /\ a \in Nat
  BY <1>1, RestLater, AnswerSizeIs
<1>3. PICK S, T, Z : S = StartsFrom(p)[u] /\ T = StartsFrom(p)[w] /\ Z = StartsFrom(p)[0]
  OBVIOUS
<1>4. PICK x, y, z : x = ExpectedFrom(p)[u] /\ y = ExpectedFrom(p)[w] /\ z = ExpectedFrom(p)[0]
  OBVIOUS
<1>5. S \subseteq Z /\ e + Cardinality(S) = Cardinality(Z) /\ r + x = z
  BY <1>3, <1>4 DEF Counted
<1>6. T \subseteq S /\ Cardinality(S) = Cardinality(T) + 1 /\ Cardinality(T) \in Nat
  BY <1>1, <1>3, StartsCount
<1>7. x = a + y /\ y \in Nat
  BY <1>1, <1>2, <1>4, ExpectedEquation
<1>8. (e + 1) + Cardinality(T) = Cardinality(Z)
  BY <1>5, <1>6
<1>9. (r + a) + y = z
  BY <1>2, <1>5, <1>7
<1>10. T \subseteq Z
  BY <1>5, <1>6
<1>. QED
  BY <1>1, <1>3, <1>4, <1>8, <1>9, <1>10 DEF Counted

\* A place the walk comes to is the start of a command.
LEMMA CountedStarts ==
  ASSUME NEW p \in Seq(B), NEW u \in 0 .. (Len(p) - 1), NEW e, NEW r, Counted(p, u, e, r)
  PROVE  u \in Starts(p)
BY StartsCount, StartsIs DEF Counted

\* At the end of the packet everything is done.
LEMMA CountedEnd ==
  ASSUME NEW p \in Seq(B), NEW e \in Nat, NEW r \in Nat, Counted(p, Len(p), e, r)
  PROVE  e = Cardinality(Starts(p)) /\ r = Expected(p)
<1>1. Len(p) \in Nat /\ Len(p) >= Len(p)
  OBVIOUS
<1>2. StartsFrom(p)[Len(p)] = {} /\ ExpectedFrom(p)[Len(p)] = 0
  BY <1>1, StartsEquation, ExpectedEquation
<1>3. Cardinality({}) = 0
  BY FS_EmptySet
<1>. QED
  BY <1>2, <1>3, StartsIs, ExpectedIs DEF Counted

-------------------------------------------------------------------------------
(* The end state of a scan.                                                *)

\* What determine_shift_end_state finds for the scan at packet.used: with the
\* lookahead within the packet it gives back all it looked at, and a scan that
\* moves the TAP has a TAP_STATE command behind it.
LEMMA EndState ==
  ASSUME packet \in Seq(B), NEW n \in Nat, n - 1 \in (used + 1) .. Len(packet), used \in Nat,
         JTAG_get_tap_state \in ShiftStates
  PROVE  LET d == determine_shift_end_state(n)
         IN  /\ d.used \in (used + 1) .. Len(packet)
             /\ d.end \in 0 .. 15 /\ d.lost \in BOOLEAN
             /\ ~ d.lost => d.used = n - 1
             /\ d.end # JTAG_get_tap_state => n <= Len(packet) /\ packet[n] \in TapState
<1>1. JTAG_get_tap_state \in 0 .. 15
  BY DEF ShiftStates, jtag_shf_dr, jtag_shf_ir
<1> DEFINE next == packet[n]
           c == IF hw_mode THEN next_cmd2(n)[1] ELSE 0
           u == IF hw_mode THEN next_cmd2(n)[2] ELSE n
           goal == IF c # 0 /\ packet[c] \in TapState THEN tap_of(packet[c]) ELSE jtag_tlr
           same == \E kind \in {WriteScan, ReadScan, ReadWriteScan} : cmd \in kind /\ next \in kind
           d == determine_shift_end_state(n)
<1>2. CASE n > Len(packet)
  <2>1. d = [ok |-> TRUE, end |-> JTAG_get_tap_state, used |-> n - 1, lost |-> FALSE]
    BY <1>2 DEF determine_shift_end_state
  <2>. QED
    BY <1>1, <1>2, <2>1
<1>3. CASE n <= Len(packet) /\ next \in TapState
  <2>1. d = [ok |-> TRUE,
             end |-> IF goal \in {jtag_pau_dr, jtag_pau_ir, jtag_rti} THEN goal ELSE tap_of(next),
             used |-> unpeek(n, c, u), lost |-> c = 0 /\ u # n]
    BY <1>3 DEF determine_shift_end_state
  <2>2. n \in 1 .. Len(packet)
    BY <1>3
  <2>3. u \in n .. Len(packet)
    BY <2>2, LookType
  <2> HIDE DEF c, u
  <2>4. d.end = (IF goal \in {jtag_pau_dr, jtag_pau_ir, jtag_rti} THEN goal ELSE tap_of(next))
        /\ d.used = unpeek(n, c, u) /\ d.lost = (c = 0 /\ u # n)
    BY <2>1
  <2> HIDE DEF d, goal
  <2>5. d.used \in (used + 1) .. Len(packet)
    <3>1. CASE c # 0
      BY <2>4, <3>1 DEF unpeek
    <3>2. CASE c = 0
      <4>1. d.used = u - 1
        BY <2>4, <3>2 DEF unpeek
      <4>. QED
        BY <2>2, <2>3, <4>1
    <3>. QED
      BY <3>1, <3>2
  <2>6. d.lost \in BOOLEAN
    BY <2>4
  <2>7. ASSUME ~ d.lost PROVE d.used = n - 1
    <3>1. c # 0 \/ u = n
      BY <2>4, <2>7
    <3>. QED
      BY <2>4, <3>1 DEF unpeek
  <2>8. tap_of(next) \in 0 .. 15
    BY <1>3, SMTT(30) DEF TapState, tap_of
  <2>9. d.end \in 0 .. 15
    BY <2>4, <2>8 DEF jtag_pau_dr, jtag_pau_ir, jtag_rti
  <2>. QED
    BY <1>3, <2>5, <2>6, <2>7, <2>9 DEF d
<1>4. CASE n <= Len(packet) /\ next \notin TapState
  <2>1. d = [ok |-> same, end |-> JTAG_get_tap_state, used |-> n - 1, lost |-> FALSE]
    BY <1>4 DEF determine_shift_end_state
  <2> HIDE DEF same, d
  <2>2. d.end = JTAG_get_tap_state /\ d.used = n - 1 /\ d.lost = FALSE
    BY <2>1
  <2>. QED
    BY <1>1, <2>2 DEF d
<1>. QED
  BY <1>2, <1>3, <1>4

-------------------------------------------------------------------------------
(* The invariant.                                                          *)

Idle ==
  pc = "idle" => /\ packet = <<>> /\ used = 0 /\ response_cnt = 0 /\ executed = 0
                 /\ lost = FALSE

\* The inductive invariant: unless the lookahead ran out of the packet, what has
\* been carried out and what starts from packet.used on make up the packet.
MsgInv ==
  /\ TypeOK /\ Idle
  /\ executed =< used
  /\ pc # "idle" /\ ~ lost => Counted(packet, used, executed, response_cnt)
  /\ pc = "answered" => used = Len(packet)

\* It holds at the start.
LEMMA MsgInvInit == Init => MsgInv
<1>. SUFFICES ASSUME Init PROVE MsgInv
  OBVIOUS
<1>1. packet \in Seq(0 .. 255) /\ 0 \in 0 .. Len(packet)
  BY DEF Init
<1>2. 0 \in 0 .. MAX_DATA_SIZE /\ 0 \in Chains
  BY MaxDataSizeAssumption DEF Chains, MAX_SCAN_CHAINS
<1>3. used = 0 /\ executed = 0 /\ response_cnt = 0 /\ active_chain = 0
      /\ tap_state \in [Chains -> 0 .. 15] /\ start = [chain |-> active_chain, tap |-> tap_state]
  BY DEF Init, jtag_tlr
<1>4. hw_mode \in BOOLEAN /\ pc \in {"idle", "loop", "answered"} /\ lost \in BOOLEAN
  BY DEF Init
<1>5. TypeOK
  BY <1>1, <1>2, <1>3, <1>4 DEF TypeOK
<1>6. Idle /\ executed =< used
  BY DEF Init, Idle
<1>. QED
  BY <1>5, <1>6 DEF Init, MsgInv

\* Leaving the packet restores the idle state.
LEMMA MsgInvEnd ==
  ASSUME MsgInv, EndMessage, active_chain' \in Chains, tap_state' \in [Chains -> 0 .. 15]
  PROVE  MsgInv'
<1>1. packet' \in Seq(0 .. 255) /\ 0 \in 0 .. Len(packet')
  BY DEF EndMessage
<1>2. 0 \in 0 .. MAX_DATA_SIZE
  BY MaxDataSizeAssumption
<1>3. used' = 0 /\ executed' = 0 /\ response_cnt' = 0 /\ UNCHANGED <<hw_mode, start>>
  BY DEF EndMessage
<1>4. pc' \in {"idle", "loop", "answered"} /\ lost' \in BOOLEAN
  BY DEF EndMessage
<1>5. hw_mode \in BOOLEAN /\ start \in [chain : Chains, tap : [Chains -> 0 .. 15]]
  BY DEF MsgInv, TypeOK
<1>6. TypeOK'
  BY <1>1, <1>2, <1>3, <1>4, <1>5 DEF TypeOK
<1>7. Idle' /\ (executed =< used)'
  BY DEF EndMessage, Idle
<1>. QED
  BY <1>6, <1>7 DEF EndMessage, MsgInv

\* The chains being left alone.
LEMMA MsgInvLeave ==
  ASSUME MsgInv, Leave
  PROVE  MsgInv'
<1>1. EndMessage /\ active_chain' \in Chains /\ tap_state' \in [Chains -> 0 .. 15]
  BY DEF Leave, jtag, MsgInv, TypeOK
<1>. QED
  BY <1>1, MsgInvEnd

\* So does carrying out a command that is not a scan.
LEMMA MsgInvAdvance ==
  ASSUME MsgInv, pc = "loop", used < Len(packet), HasOperands, Advance,
         response_cnt' = response_cnt + AnswerSize(cmd),
         response_cnt' \in 0 .. MAX_DATA_SIZE,
         active_chain' \in Chains, tap_state' \in [Chains -> 0 .. 15],
         UNCHANGED <<hw_mode, pc, packet, start, lost>>
  PROVE  MsgInv'
<1>1. packet \in Seq(B) /\ used \in 0 .. (Len(packet) - 1) /\ executed \in Nat /\ executed =< used
      /\ response_cnt \in Nat /\ Len(packet) \in Nat
  BY DEF MsgInv, TypeOK, B
<1>2. cmd \in B /\ operands(cmd) \in 0 .. 8
  BY <1>1, OperandsBehind, RestLater DEF cmd
<1>3. used' = Rest(packet, used)
  BY <1>1, RestLater DEF Advance, cmd
<1>4. used' \in 0 .. Len(packet) /\ used' >= used + 1 /\ executed' = executed + 1
  BY <1>1, <1>2, SMTT(30) DEF Advance, HasOperands
<1>5. executed' =< used' /\ executed' \in 0 .. Len(packet)
  BY <1>1, <1>4
<1>6. TypeOK'
  BY <1>4, <1>5 DEF MsgInv, TypeOK
<1>7. ~ lost => Counted(packet, used', executed', response_cnt')
  <2>1. ASSUME ~ lost PROVE Counted(packet, used, executed, response_cnt)
    BY <2>1 DEF MsgInv
  <2>. QED
    BY <1>1, <1>3, <1>4, <2>1, CountedStep DEF cmd
<1>8. Idle' /\ ((pc = "answered") => used = Len(packet))'
  BY DEF Idle
<1>. QED
  BY <1>5, <1>6, <1>7, <1>8 DEF MsgInv

\* A packet comes in.
LEMMA MsgInvReceive ==
  ASSUME MsgInv, Receive
  PROVE  MsgInv'
<1>1. packet' \in Seq(B)
  <2>1. PICK n \in 1 .. MAX_COMMANDS : \E s \in [1 .. n -> Commands], cut \in 0 .. 1 :
            packet' = SubSeq(Joined(s), 1, Len(Joined(s)) - cut)
    BY DEF Receive
  <2>2. PICK s \in [1 .. n -> Commands], cut \in 0 .. 1 :
            packet' = SubSeq(Joined(s), 1, Len(Joined(s)) - cut)
    BY <2>1
  <2>3. PICK j : j = Joined(s)
    OBVIOUS
  <2>4. j \in Seq(B)
    BY <2>3, JoinedBytes
  <2>5. Len(j) - cut \in Int /\ 1 \in Int /\ \A i \in 1 .. (Len(j) - cut) : j[i] \in B
    BY <2>4
  <2>6. SubSeq(j, 1, Len(j) - cut) \in Seq(B)
    BY <2>5, SubSeqProperties
  <2>. QED
    BY <2>2, <2>3, <2>6
<1>2. /\ used' = 0 /\ executed' = 0 /\ response_cnt' = 0 /\ lost' = FALSE
      /\ pc' = "loop" /\ UNCHANGED <<hw_mode, active_chain, tap_state>>
      /\ start' = [chain |-> active_chain, tap |-> tap_state]
  BY DEF MsgInv, Idle, Receive, jtag
<1>3. 0 \in 0 .. Len(packet') /\ 0 \in 0 .. MAX_DATA_SIZE
  BY <1>1, MaxDataSizeAssumption
<1>4. TypeOK'
  BY <1>1, <1>2, <1>3 DEF MsgInv, TypeOK, B
<1>5. Counted(packet', used', executed', response_cnt')
  BY <1>1, <1>2, CountedStart
<1>. QED
  BY <1>2, <1>4, <1>5 DEF MsgInv, Idle

\* WRITE_PINS that is carried out selects one of the chains, if it selects any.
LEMMA PinsStep ==
  ASSUME MsgInv, write_pins, ~ Leave
  PROVE  LET x == packet[used + 2]
         IN  /\ At({WRITE_PINS}) /\ HasOperands /\ Advance
             /\ x \in B /\ used + 2 <= Len(packet)
             /\ active_chain' = IF x % 128 >= SCAN_CHAIN_SELECT THEN x % 16 ELSE active_chain
             /\ active_chain' \in Chains
             /\ UNCHANGED <<hw_mode, pc, packet, response_cnt, tap_state, start, lost>>
<1> DEFINE x == packet[used + 2]
<1>1. /\ At({WRITE_PINS}) /\ HasOperands /\ Advance
      /\ \/ x % 128 < PIN_MAX /\ UNCHANGED active_chain
         \/ /\ x % 128 >= SCAN_CHAIN_SELECT /\ (x % 128) % 16 < MAX_SCAN_CHAINS
            /\ active_chain' = (x % 128) % 16
      /\ UNCHANGED <<hw_mode, pc, packet, response_cnt, tap_state, start, lost>>
  BY DEF write_pins
<1>2. packet \in Seq(B) /\ used \in Nat /\ Len(packet) \in Nat /\ active_chain \in Chains
  BY DEF MsgInv, TypeOK, B
<1>3. operands(cmd) = 1
  <2>1. operands(WRITE_PINS) = 1
    BY DEF operands, WriteScan, ReadWriteScan,
       WRITE_EVENT_CONFIG, JTAG_FREQ, DR_PREFIX, DR_POSTFIX, PRDY_TIMEOUT, WRITE_PINS,
       ReadStatus, WaitCycles, IR_PREFIX, IR_POSTFIX, WAIT_SYNC
  <2>2. cmd = WRITE_PINS
    BY <1>1 DEF At
  <2>. QED
    BY <2>1, <2>2
<1>4. used + 2 <= Len(packet)
  BY <1>1, <1>2, <1>3 DEF HasOperands
<1>5. x \in B
  BY <1>2, <1>4
<1> HIDE DEF x
<1>6. (x % 128) % 16 = x % 16 /\ x % 16 \in 0 .. 15
  BY <1>5 DEF B
<1>7. active_chain' = IF x % 128 >= SCAN_CHAIN_SELECT THEN x % 16 ELSE active_chain
  <2>1. x % 128 \in 0 .. 127
    BY <1>5 DEF B
  <2>. QED
    BY <1>1, <1>6, <2>1 DEF PIN_MAX, SCAN_CHAIN_SELECT
<1>8. active_chain' \in Chains
  BY <1>1, <1>2, <1>6 DEF Chains, MAX_SCAN_CHAINS
<1>. QED
  BY <1>1, <1>4, <1>5, <1>7, <1>8 DEF x

\* A TAP_STATE or TAP_RESET command is complete with its one byte.
LEMMA MoveOperands ==
  ASSUME NEW b, b \in TapState \cup {TAP_RESET}
  PROVE  operands(b) = 0
BY DEF TapState, TAP_RESET, operands, WriteScan, ReadWriteScan,
   WRITE_EVENT_CONFIG, JTAG_FREQ, DR_PREFIX, DR_POSTFIX, PRDY_TIMEOUT, WRITE_PINS,
   ReadStatus, WaitCycles, IR_PREFIX, IR_POSTFIX, WAIT_SYNC

\* It has all its bytes as soon as it has been reached.
LEMMA MoveHasOperands ==
  ASSUME used \in 0 .. Len(packet), Len(packet) \in Nat, used < Len(packet),
         cmd \in TapState \cup {TAP_RESET}
  PROVE  HasOperands
<1>1. operands(cmd) = 0
  BY MoveOperands
<1>. QED
  BY <1>1 DEF HasOperands

\* A command that neither answers nor scans.
LEMMA MsgInvConfigure ==
  ASSUME MsgInv, Configure \/ write_pins \/ read_status \/ tap_command
  PROVE  MsgInv'
<1>0. CASE Leave
  BY <1>0, MsgInvLeave
<1>1. ASSUME pc = "loop", used < Len(packet) PROVE cmd \in B
  <2>1. packet \in Seq(B) /\ used \in 0 .. (Len(packet) - 1)
    BY <1>1 DEF MsgInv, TypeOK, B
  <2>. QED
    BY <2>1, RestLater DEF cmd
<1>2. /\ response_cnt \in 0 .. MAX_DATA_SIZE /\ response_cnt \in Nat
      /\ active_chain \in Chains /\ tap_state \in [Chains -> 0 .. 15]
  BY DEF MsgInv, TypeOK
<1>3. CASE Configure /\ ~ Leave
  <2>1. /\ At(0 .. 6 \cup WaitCycles \cup {WAIT_PRDY, CLEAR_TIMEOUT, WAIT_SYNC})
        /\ HasOperands /\ Advance
        /\ UNCHANGED <<hw_mode, pc, packet, response_cnt, active_chain, tap_state, start, lost>>
    BY <1>3 DEF Configure, jtag
  <2>2. pc = "loop" /\ used < Len(packet)
        /\ cmd \in 0 .. 6 \cup WaitCycles \cup {WAIT_PRDY, CLEAR_TIMEOUT, WAIT_SYNC}
    BY <2>1 DEF At
  <2>3. AnswerSize(cmd) = 0
    <3>1. cmd \notin ReadStatus /\ cmd \notin ReadScan \cup ReadWriteScan
      BY <2>2 DEF WaitCycles, WAIT_PRDY, CLEAR_TIMEOUT, WAIT_SYNC, ReadStatus, ReadScan,
           ReadWriteScan
    <3>. QED
      BY <3>1 DEF AnswerSize
  <2>4. response_cnt' = response_cnt + AnswerSize(cmd)
    BY <1>2, <2>1, <2>3
  <2>. QED
    BY <1>2, <2>1, <2>2, <2>4, MsgInvAdvance
<1>4. CASE read_status /\ ~ Leave
  <2>1. /\ At(ReadStatus) /\ HasOperands /\ Advance
        /\ response_cnt + 2 <= MAX_DATA_SIZE /\ response_cnt' = response_cnt + 2
        /\ UNCHANGED <<hw_mode, pc, packet, active_chain, tap_state, start, lost>>
    BY <1>4 DEF read_status, jtag
  <2>2. pc = "loop" /\ used < Len(packet) /\ cmd \in ReadStatus
    BY <2>1 DEF At
  <2>3. AnswerSize(cmd) = 2
    BY <1>1, <2>2, AnswerSizeIs
  <2>4. response_cnt' \in 0 .. MAX_DATA_SIZE
    BY <1>2, <2>1, MaxDataSizeAssumption
  <2>. QED
    BY <1>2, <2>1, <2>2, <2>3, <2>4, MsgInvAdvance
<1>5. CASE tap_command /\ ~ Leave
  <2>1. /\ At(TapState \cup {TAP_RESET})
        /\ \/ EndMessage
           \/ /\ Advance
              /\ UNCHANGED <<hw_mode, pc, packet, response_cnt, active_chain, start, lost>>
        /\ UNCHANGED active_chain
        /\ tap_state' = [tap_state EXCEPT ![active_chain] =
                            IF cmd = TAP_RESET THEN jtag_tlr ELSE tap_of(cmd)]
    BY <1>5 DEF tap_command
  <2>2. pc = "loop" /\ used < Len(packet) /\ cmd \in TapState \cup {TAP_RESET}
    BY <2>1 DEF At
  <2>3. AnswerSize(cmd) = 0
    <3>1. cmd \notin ReadStatus /\ cmd \notin ReadScan \cup ReadWriteScan
      BY <2>2 DEF TapState, TAP_RESET, ReadStatus, ReadScan, ReadWriteScan
    <3>. QED
      BY <3>1 DEF AnswerSize
  <2>5. HasOperands
    <3>1. used \in 0 .. Len(packet) /\ Len(packet) \in Nat
      BY DEF MsgInv, TypeOK
    <3>. QED
      BY <2>2, <3>1, MoveHasOperands
  <2>6. tap_state' \in [Chains -> 0 .. 15]
    <3>1. cmd \in B
      BY <1>1, <2>2
    <3>2. \A b \in B : b % 16 \in 0 .. 15
      BY DEF B
    <3>3. tap_of(cmd) \in 0 .. 15 /\ jtag_tlr \in 0 .. 15
      BY <3>1, <3>2 DEF tap_of, jtag_tlr
    <3>. QED
      BY <1>2, <2>1, <3>3
  <2>7. CASE EndMessage
    BY <1>2, <2>1, <2>6, <2>7, MsgInvEnd
  <2>8. CASE ~ EndMessage
    <3>1. response_cnt' = response_cnt + AnswerSize(cmd)
      BY <1>2, <2>1, <2>3, <2>8
    <3>. QED
      BY <1>2, <2>1, <2>2, <2>5, <2>6, <2>8, <3>1, MsgInvAdvance
  <2>. QED
    BY <2>7, <2>8
<1>6. CASE write_pins /\ ~ Leave
  <2>1. /\ At({WRITE_PINS}) /\ HasOperands /\ Advance /\ active_chain' \in Chains
        /\ UNCHANGED <<hw_mode, pc, packet, response_cnt, tap_state, start, lost>>
    BY <1>6, PinsStep
  <2>2. pc = "loop" /\ used < Len(packet) /\ cmd = WRITE_PINS
    BY <2>1 DEF At
  <2>3. AnswerSize(cmd) = 0
    BY <2>2 DEF AnswerSize, WRITE_PINS, ReadStatus, ReadScan, ReadWriteScan
  <2>4. response_cnt' = response_cnt + AnswerSize(cmd)
    BY <1>2, <2>1, <2>3
  <2>. QED
    BY <1>2, <2>1, <2>2, <2>4, MsgInvAdvance
<1>. QED
  BY <1>0, <1>3, <1>4, <1>5, <1>6

\* A scan.
LEMMA MsgInvScan ==
  ASSUME MsgInv, scan_command
  PROVE  MsgInv'
<1>0. CASE Leave
  BY <1>0, MsgInvLeave
<1>1. CASE ~ Leave
  <2> DEFINE length == get_scan_length(cmd)
             answers == cmd \notin WriteScan
             n == used + operands(cmd) + 2
             d == determine_shift_end_state(n)
  <2>1. /\ At(Scans) /\ HasOperands /\ (answers => response_fits(length))
        /\ d.ok /\ JTAG_get_tap_state \in ShiftStates
        /\ used' = d.used /\ executed' = executed + 1
        /\ response_cnt' = response_cnt + (IF answers THEN 1 + length ELSE 0)
        /\ tap_state' = [tap_state EXCEPT ![active_chain] = d.end]
        /\ lost' = (lost \/ d.lost)
        /\ UNCHANGED <<hw_mode, pc, packet, active_chain, start>>
    BY <1>1 DEF scan_command
  <2>2. pc = "loop" /\ used < Len(packet) /\ cmd \in Scans
    BY <2>1 DEF At
  <2>3. /\ packet \in Seq(B) /\ used \in 0 .. (Len(packet) - 1) /\ executed \in Nat
        /\ executed =< used /\ Len(packet) \in Nat
        /\ response_cnt \in 0 .. MAX_DATA_SIZE /\ response_cnt \in Nat
    BY <2>2 DEF MsgInv, TypeOK, B
  <2>4. cmd \in B /\ operands(cmd) \in 0 .. 8 /\ length \in 1 .. 8
    BY <2>3, OperandsBehind, RestLater, ScanLength DEF cmd
  <2>5. n \in Nat /\ n - 1 \in (used + 1) .. Len(packet) /\ n - 1 = used + 1 + operands(cmd)
    <3>1. PICK o : o = operands(cmd)
      OBVIOUS
    <3>2. o \in 0 .. 8 /\ used + 1 + o <= Len(packet) /\ n = used + o + 2
      BY <2>1, <2>4, <3>1 DEF HasOperands
    <3> HIDE DEF n
    <3>3. n \in Nat /\ n - 1 \in (used + 1) .. Len(packet) /\ n - 1 = used + 1 + o
      BY <2>3, <3>2
    <3>. QED
      BY <3>1, <3>3
  <2>6. Rest(packet, used) = n - 1
    BY <2>3, <2>5, RestLater DEF cmd
  <2> HIDE DEF n
  <2>7. /\ d.used \in (used + 1) .. Len(packet)
        /\ d.end \in 0 .. 15 /\ d.lost \in BOOLEAN
        /\ ~ d.lost => d.used = n - 1
    BY <2>1, <2>3, <2>5, EndState
  <2> HIDE DEF d
  <2>8. used' \in 0 .. Len(packet) /\ executed' =< used' /\ executed' \in 0 .. Len(packet)
    BY <2>1, <2>3, <2>7
  <2>9. AnswerSize(cmd) = IF answers THEN 1 + length ELSE 0
    <3>1. cmd \notin ReadStatus /\ (answers <=> cmd \in ReadScan \cup ReadWriteScan)
      BY <2>2 DEF Scans, ReadStatus, WriteScan, ReadScan, ReadWriteScan
    <3>. QED
      BY <2>4, <3>1, AnswerSizeIs
  <2>10. response_cnt' \in 0 .. MAX_DATA_SIZE
    <3>1. CASE answers
      <4>1. response_cnt' = response_cnt + (1 + length)
        BY <2>1, <3>1
      <4>2. response_cnt + 1 + length <= MAX_DATA_SIZE
        BY <2>1, <3>1 DEF response_fits
      <4> HIDE DEF length
      <4>. QED
        BY <2>3, <2>4, <4>1, <4>2, MaxDataSizeAssumption
    <3>2. CASE ~ answers
      <4>1. response_cnt' = response_cnt + 0
        BY <2>1, <3>2
      <4>. QED
        BY <2>3, <4>1
    <3>. QED
      BY <3>1, <3>2
  <2>11. TypeOK'
    <3>1. tap_state' \in [Chains -> 0 .. 15] /\ lost' \in BOOLEAN
      BY <2>1, <2>7 DEF MsgInv, TypeOK
    <3>. QED
      BY <2>1, <2>8, <2>10, <3>1 DEF MsgInv, TypeOK
  <2>12. ASSUME ~ lost' PROVE Counted(packet', used', executed', response_cnt')
    <3>1. ~ lost /\ used' = Rest(packet, used)
      BY <2>1, <2>6, <2>7, <2>12
    <3>2. Counted(packet, used, executed, response_cnt)
      BY <2>2, <3>1 DEF MsgInv
    <3>3. Counted(packet, Rest(packet, used), executed + 1,
                  response_cnt + AnswerSize(packet[used + 1]))
      BY <2>3, <3>2, CountedStep
    <3>4. response_cnt' = response_cnt + AnswerSize(packet[used + 1])
      BY <2>1, <2>9 DEF cmd
    <3>. QED
      BY <2>1, <3>1, <3>3, <3>4
  <2>13. pc' = "loop"
    BY <2>1, <2>2
  <2>. QED
    BY <2>8, <2>11, <2>12, <2>13 DEF MsgInv, Idle
<1>. QED
  BY <1>0, <1>1

\* The end of the packet.
LEMMA MsgInvAnswer ==
  ASSUME MsgInv, Answer
  PROVE  MsgInv'
<1>1. CASE Leave
  BY <1>1, MsgInvLeave
<1>2. CASE ~ Leave
  <2>1. /\ pc = "loop" /\ used = Len(packet) /\ pc' = "answered"
        /\ UNCHANGED <<hw_mode, packet, used, response_cnt, active_chain, tap_state, executed,
                       start, lost>>
    BY <1>2 DEF Answer, jtag
  <2>2. TypeOK'
    BY <2>1 DEF MsgInv, TypeOK
  <2>3. ~ lost => Counted(packet, used, executed, response_cnt)
    BY <2>1 DEF MsgInv
  <2>4. executed =< used
    BY DEF MsgInv
  <2>. QED
    BY <2>1, <2>2, <2>3, <2>4 DEF MsgInv, Idle
<1>. QED
  BY <1>1, <1>2

\* Every step keeps it.
LEMMA MsgInvNext == MsgInv /\ [Next]_vars => MsgInv'
<1>. SUFFICES ASSUME MsgInv, [Next]_vars PROVE MsgInv'
  OBVIOUS
<1>1. CASE Receive
  BY <1>1, MsgInvReceive
<1>2. CASE Configure \/ write_pins \/ read_status \/ tap_command
  BY <1>2, MsgInvConfigure
<1>3. CASE scan_command
  BY <1>3, MsgInvScan
<1>4. CASE unknown_command \/ Return
  <2>1. Leave
    BY <1>4 DEF unknown_command, Return
  <2>. QED
    BY <2>1, MsgInvLeave
<1>5. CASE Answer
  BY <1>5, MsgInvAnswer
<1>6. CASE UNCHANGED vars
  BY <1>6 DEF vars, jtag, MsgInv, TypeOK, Idle
<1>. QED
  BY <1>1, <1>2, <1>3, <1>4, <1>5, <1>6 DEF Next

\* The invariant of the walk holds throughout.
LEMMA MsgInvAlways == Spec => []MsgInv
<1>. QED
  BY MsgInvInit, MsgInvNext, PTL DEF Spec

-------------------------------------------------------------------------------
(* What process_jtag_message keeps.                                        *)

\* The response stays within its buffer, packet.used within the packet, and the
\* other variables have their types.
THEOREM MessageTypeOK == Spec => []TypeOK
<1>1. MsgInv => TypeOK
  BY DEF MsgInv
<1>. QED
  BY <1>1, MsgInvAlways, PTL

\* Between two commands packet.used is at the start of a command as the client
\* wrote the packet, unless the lookahead in hardware mode ran out of it.
THEOREM MessageStartsOnCommand == Spec => []StartsOnCommand
<1>1. MsgInv => StartsOnCommand
  <2>1. SUFFICES ASSUME MsgInv, pc = "loop", ~ lost, used < Len(packet)
                 PROVE  used \in Starts(packet)
    BY DEF StartsOnCommand
  <2>2. packet \in Seq(B) /\ used \in 0 .. (Len(packet) - 1)
    BY <2>1 DEF MsgInv, TypeOK, B
  <2>3. Counted(packet, used, executed, response_cnt)
    BY <2>1 DEF MsgInv
  <2>. QED
    BY <2>2, <2>3, CountedStarts
<1>. QED
  BY <1>1, MsgInvAlways, PTL

\* A packet answered with success had every command carried out exactly once,
\* and the response has the size the packet asks for.
THEOREM MessageAnsweredWhole == Spec => []AnsweredWhole
<1>1. MsgInv => AnsweredWhole
  <2>1. SUFFICES ASSUME MsgInv, pc = "answered", ~ lost
                 PROVE  executed = Cardinality(Starts(packet)) /\ response_cnt = Expected(packet)
    BY DEF AnsweredWhole
  <2>2. packet \in Seq(B) /\ executed \in Nat /\ response_cnt \in Nat /\ used = Len(packet)
    BY <2>1 DEF MsgInv, TypeOK, B
  <2>3. Counted(packet, used, executed, response_cnt)
    BY <2>1 DEF MsgInv
  <2>. QED
    BY <2>2, <2>3, CountedEnd
<1>. QED
  BY <1>1, MsgInvAlways, PTL


-------------------------------------------------------------------------------
(* The chains.                                                             *)

\* At place u the walk has the commands before u behind it and those that start
\* from u on before it.
Parted(p, u) ==
  \A j \in Nat : j >= u => (j \in StartsFrom(p)[0] <=> j \in StartsFrom(p)[u])

\* At the start all commands are before it.
LEMMA PartedStart ==
  ASSUME NEW p \in Seq(B)
  PROVE  Parted(p, 0)
BY DEF Parted

\* A command carried out brings it to the next one; between the two places
\* no other command starts.
LEMMA PartedStep ==
  ASSUME NEW p \in Seq(B), NEW u \in 0 .. (Len(p) - 1), Parted(p, u)
  PROVE  /\ Parted(p, Rest(p, u)) /\ u \in Starts(p)
         /\ \A j \in Starts(p) : j \in Nat /\ (j < Rest(p, u) <=> j < u \/ j = u)
<1>1. PICK w, S, T, Z : w = Rest(p, u) /\ S = StartsFrom(p)[u] /\ T = StartsFrom(p)[w]
                        /\ Z = StartsFrom(p)[0]
  OBVIOUS
<1>2. w \in Nat /\ u \in Nat /\ w > u
  BY <1>1, RestLater
<1>3. S = {u} \cup T
  BY <1>1, StartsEquation
<1>4. /\ \A j \in S : j \in Nat /\ j >= u
      /\ \A j \in T : j \in Nat /\ j >= w
  BY <1>1, <1>2, StartsLater
<1>5. \A j \in Z : j \in Nat
  BY <1>1, StartsLater
<1>6. \A j \in Nat : j >= u => (j \in Z <=> j \in S)
  BY <1>1 DEF Parted
<1>7. \A j \in Nat : j >= w => (j \in Z <=> j \in T)
  BY <1>2, <1>3, <1>6
<1>8. u \in Z /\ \A j \in Z : j < w <=> j < u \/ j = u
  BY <1>2, <1>3, <1>4, <1>5, <1>6
<1>9. Starts(p) = Z
  BY <1>1, StartsIs
<1>. QED
  BY <1>1, <1>5, <1>7, <1>8, <1>9 DEF Parted

\* Of the places before the next command the present one is the latest, if it is
\* among them; if not they are the ones before it.
LEMMA BeforeStep ==
  ASSUME NEW p \in Seq(B), NEW u \in 0 .. (Len(p) - 1), Parted(p, u),
         NEW S, S \subseteq Starts(p)
  PROVE  /\ u \notin S => Before(S, Rest(p, u)) = Before(S, u)
         /\ u \in S => Before(S, Rest(p, u)) # {} /\ Latest(Before(S, Rest(p, u))) = u
<1>1. PICK w : w = Rest(p, u)
  OBVIOUS
<1>2. \A j \in S : j \in Nat /\ (j < w <=> j < u \/ j = u)
  BY <1>1, PartedStep
<1>3. u \notin S => Before(S, w) = Before(S, u)
  BY <1>2 DEF Before
<1>4. ASSUME u \in S PROVE Before(S, w) # {} /\ Latest(Before(S, w)) = u
  <2>1. u \in Before(S, w) /\ \A j \in Before(S, w) : j \in Nat /\ j =< u
    BY <1>2, <1>4 DEF Before
  <2>2. \A i \in Before(S, w) : (\A j \in Before(S, w) : j =< i) => i = u
    BY <2>1
  <2>. QED
    BY <2>1, <2>2 DEF Latest
<1>. QED
  BY <1>1, <1>3, <1>4

\* The chain meant at the next command.
LEMMA ChainStep ==
  ASSUME NEW p \in Seq(B), NEW u \in 0 .. (Len(p) - 1), Parted(p, u), NEW h
  PROVE  ChainAt(h, p, Rest(p, u)) = IF u \in Selects(p) THEN p[u + 2] % 16 ELSE ChainAt(h, p, u)
<1>1. PICK S : S = Selects(p)
  OBVIOUS
<1>2. S \subseteq Starts(p)
  BY <1>1 DEF Selects
<1>3. /\ u \notin S => Before(S, Rest(p, u)) = Before(S, u)
      /\ u \in S => Before(S, Rest(p, u)) # {} /\ Latest(Before(S, Rest(p, u))) = u
  BY <1>2, BeforeStep
<1>4. \A v : ChainAt(h, p, v) = IF Before(S, v) = {} THEN h.chain
                                ELSE p[Latest(Before(S, v)) + 2] % 16
  BY <1>1 DEF ChainAt
<1>. QED
  BY <1>1, <1>3, <1>4

\* The state meant for a chain at the next command.
LEMMA AskedStep ==
  ASSUME NEW p \in Seq(B), NEW u \in 0 .. (Len(p) - 1), Parted(p, u), NEW h, NEW c
  PROVE  AskedAt(h, p, Rest(p, u), c) =
           IF p[u + 1] \in TapState \cup {TAP_RESET} /\ ChainAt(h, p, u) = c
           THEN (IF p[u + 1] = TAP_RESET THEN jtag_tlr ELSE tap_of(p[u + 1]))
           ELSE AskedAt(h, p, u, c)
<1>1. PICK S : S = Moves(h, p, c)
  OBVIOUS
<1>2. S \subseteq Starts(p)
  BY <1>1 DEF Moves
<1>3. /\ u \notin S => Before(S, Rest(p, u)) = Before(S, u)
      /\ u \in S => Before(S, Rest(p, u)) # {} /\ Latest(Before(S, Rest(p, u))) = u
  BY <1>2, BeforeStep
<1>4. \A v : AskedAt(h, p, v, c) =
               IF Before(S, v) = {} THEN h.tap[c]
               ELSE IF p[Latest(Before(S, v)) + 1] = TAP_RESET THEN jtag_tlr
               ELSE tap_of(p[Latest(Before(S, v)) + 1])
  BY <1>1 DEF AskedAt
<1>5. u \in Starts(p)
  BY PartedStep
<1>6. u \in S <=> p[u + 1] \in TapState \cup {TAP_RESET} /\ ChainAt(h, p, u) = c
  BY <1>1, <1>5 DEF Moves
<1>. QED
  BY <1>3, <1>4, <1>6

\* Before its first command a packet has selected and moved nothing.
LEMMA AskedStart ==
  ASSUME NEW p \in Seq(B), NEW h
  PROVE  ChainAt(h, p, 0) = h.chain /\ \A c : AskedAt(h, p, 0, c) = h.tap[c]
<1>1. \A j \in Starts(p) : j \in Nat
  <2>1. \A j \in StartsFrom(p)[0] : j \in Nat
    BY StartsLater
  <2>. QED
    BY <2>1, StartsIs
<1>2. \A S : S \subseteq Starts(p) => Before(S, 0) = {}
  BY <1>1 DEF Before
<1>3. Before(Selects(p), 0) = {} /\ \A c : Before(Moves(h, p, c), 0) = {}
  <2>1. Selects(p) \subseteq Starts(p) /\ \A c : Moves(h, p, c) \subseteq Starts(p)
    BY DEF Selects, Moves
  <2>. QED
    BY <1>2, <2>1
<1>. QED
  BY <1>3 DEF ChainAt, AskedAt

\* The chains are where the packet means them to be, apart from the active one if
\* a scan has just left Shift for the TAP_STATE command that follows.
TapInv ==
  pc # "idle" /\ ~ lost =>
    /\ Parted(packet, used)
    /\ active_chain = ChainAt(start, packet, used)
    /\ \A c \in Chains :
         \/ tap_state[c] = AskedAt(start, packet, used, c)
         \/ c = active_chain /\ used < Len(packet) /\ cmd \in TapState

\* A command carried out leaves the chains where the packet means them to be.
LEMMA TapInvStep ==
  ASSUME MsgInv, TapInv, pc = "loop", used < Len(packet), ~ lost,
         used' = Rest(packet, used), UNCHANGED <<packet, start>>,
         active_chain' = IF used \in Selects(packet) THEN packet[used + 2] % 16 ELSE active_chain,
         \A c \in Chains :
           \/ c = active_chain' /\ used' < Len(packet') /\ cmd' \in TapState
           \/ tap_state'[c] = IF cmd \in TapState \cup {TAP_RESET} /\ c = active_chain
                              THEN (IF cmd = TAP_RESET THEN jtag_tlr ELSE tap_of(cmd))
                              ELSE tap_state[c]
  PROVE  TapInv'
<1>1. packet \in Seq(B) /\ used \in 0 .. (Len(packet) - 1)
  BY DEF MsgInv, TypeOK, B
<1>2. /\ Parted(packet, used) /\ active_chain = ChainAt(start, packet, used)
      /\ \A c \in Chains :
           \/ tap_state[c] = AskedAt(start, packet, used, c)
           \/ c = active_chain /\ used < Len(packet) /\ cmd \in TapState
  BY DEF TapInv
<1>3. Parted(packet', used')
  BY <1>1, <1>2, PartedStep
<1>4. active_chain' = ChainAt(start', packet', used')
  BY <1>1, <1>2, ChainStep
<1>5. ASSUME NEW c \in Chains
      PROVE  \/ tap_state'[c] = AskedAt(start', packet', used', c)
             \/ c = active_chain' /\ used' < Len(packet') /\ cmd' \in TapState
  <2>1. AskedAt(start', packet', used', c) =
           IF cmd \in TapState \cup {TAP_RESET} /\ active_chain = c
           THEN (IF cmd = TAP_RESET THEN jtag_tlr ELSE tap_of(cmd))
           ELSE AskedAt(start, packet, used, c)
    <3>1. AskedAt(start, packet, Rest(packet, used), c) =
             IF packet[used + 1] \in TapState \cup {TAP_RESET} /\ ChainAt(start, packet, used) = c
             THEN (IF packet[used + 1] = TAP_RESET THEN jtag_tlr ELSE tap_of(packet[used + 1]))
             ELSE AskedAt(start, packet, used, c)
      BY <1>1, <1>2, AskedStep
    <3>. QED
      BY <1>2, <3>1 DEF cmd
  <2>. QED
    BY <1>2, <2>1
<1>6. Parted(packet, used)' /\ active_chain' = ChainAt(start, packet, used)'
      /\ \A c \in Chains :
           \/ tap_state'[c] = AskedAt(start, packet, used, c)'
           \/ c = active_chain' /\ used' < Len(packet') /\ cmd' \in TapState
  BY <1>3, <1>4, <1>5
<1>. QED
  BY <1>6 DEF TapInv

\* Every step keeps it.
LEMMA TapInvNext == MsgInv /\ TapInv /\ [Next]_vars => TapInv'
<1>. SUFFICES ASSUME MsgInv, TapInv, [Next]_vars PROVE TapInv'
  OBVIOUS
<1>0. /\ packet \in Seq(B) /\ used \in 0 .. Len(packet) /\ active_chain \in Chains
      /\ tap_state \in [Chains -> 0 .. 15]
  BY DEF MsgInv, TypeOK, B
<1>1. CASE EndMessage
  BY <1>1 DEF EndMessage, TapInv
<1>2. CASE UNCHANGED vars
  BY <1>2 DEF vars, jtag, TapInv, Parted, cmd, ChainAt, AskedAt, Moves
<1>3. CASE Receive
  <2>1. MsgInv'
    BY <1>3, MsgInvReceive
  <2>2. packet' \in Seq(B)
    BY <2>1 DEF MsgInv, TypeOK, B
  <2>3. used' = 0 /\ UNCHANGED jtag /\ start' = [chain |-> active_chain, tap |-> tap_state]
    BY <1>3 DEF MsgInv, Idle, Receive
  <2>4. Parted(packet', used')
    BY <2>2, <2>3, PartedStart
  <2>5. ChainAt(start', packet', 0) = start'.chain
        /\ \A c : AskedAt(start', packet', 0, c) = start'.tap[c]
    BY <2>2, AskedStart
  <2>6. active_chain' = ChainAt(start', packet', used')
        /\ \A c \in Chains : tap_state'[c] = AskedAt(start', packet', used', c)
    BY <2>3, <2>5 DEF jtag
  <2>. QED
    BY <2>4, <2>6 DEF TapInv
<1>4. CASE Answer /\ ~ EndMessage
  <2>1. /\ pc = "loop" /\ UNCHANGED <<packet, used, active_chain, tap_state, start, lost>>
    BY <1>4 DEF Answer, Leave, jtag
  <2>. QED
    BY <2>1 DEF TapInv, Parted, cmd, ChainAt, AskedAt, Moves
<1>5. ASSUME pc = "loop", used < Len(packet), HasOperands, Advance
      PROVE  used' = Rest(packet, used)
  <2>1. used \in 0 .. (Len(packet) - 1)
    BY <1>0, <1>5
  <2>. QED
    BY <1>0, <1>5, <2>1, RestLater DEF Advance, cmd
<1>6. ASSUME cmd # WRITE_PINS PROVE used \notin Selects(packet)
  BY <1>6 DEF Selects, cmd
<1>7. CASE (Configure \/ read_status) /\ ~ EndMessage
  <2>1. /\ pc = "loop" /\ used < Len(packet) /\ HasOperands /\ Advance
        /\ UNCHANGED <<packet, active_chain, tap_state, start, lost>>
        /\ cmd \in 0 .. 6 \cup WaitCycles \cup {WAIT_PRDY, CLEAR_TIMEOUT, WAIT_SYNC} \cup ReadStatus
    BY <1>7 DEF Configure, read_status, At, Leave, jtag
  <2>2. cmd # WRITE_PINS /\ cmd \notin TapState \cup {TAP_RESET}
    BY <2>1 DEF WRITE_PINS, WaitCycles, WAIT_PRDY, CLEAR_TIMEOUT, WAIT_SYNC, ReadStatus, TapState,
       TAP_RESET
  <2>3. CASE lost
    BY <2>1, <2>3 DEF TapInv
  <2>4. CASE ~ lost
    <3>1. used' = Rest(packet, used) /\ used \notin Selects(packet)
      BY <1>5, <1>6, <2>1, <2>2
    <3>. QED
      BY <2>1, <2>2, <2>4, <3>1, TapInvStep
  <2>. QED
    BY <2>3, <2>4
<1>8. CASE write_pins /\ ~ EndMessage
  <2>1. /\ At({WRITE_PINS}) /\ HasOperands /\ Advance
        /\ packet[used + 2] \in B /\ used + 2 <= Len(packet)
        /\ active_chain' = IF packet[used + 2] % 128 >= SCAN_CHAIN_SELECT THEN packet[used + 2] % 16
                           ELSE active_chain
        /\ UNCHANGED <<hw_mode, pc, packet, response_cnt, tap_state, start, lost>>
    BY <1>8, PinsStep DEF Leave
  <2>2. pc = "loop" /\ used < Len(packet) /\ cmd = WRITE_PINS
    BY <2>1 DEF At
  <2>3. cmd \notin TapState \cup {TAP_RESET}
    BY <2>2 DEF WRITE_PINS, TapState, TAP_RESET
  <2>4. CASE lost
    BY <2>1, <2>4 DEF TapInv
  <2>5. CASE ~ lost
    <3>1. used' = Rest(packet, used)
      BY <1>5, <2>1, <2>2
    <3>2. used \in Starts(packet)
      <4>1. used \in 0 .. (Len(packet) - 1) /\ Parted(packet, used)
        BY <1>0, <2>2, <2>5 DEF TapInv
      <4>. QED
        BY <1>0, <4>1, PartedStep
    <3>3. used \in Selects(packet) <=> packet[used + 2] % 128 >= SCAN_CHAIN_SELECT
      BY <2>1, <2>2, <3>2 DEF Selects, cmd
    <3>4. active_chain' = IF used \in Selects(packet) THEN packet[used + 2] % 16 ELSE active_chain
      BY <2>1, <3>3
    <3>. QED
      BY <2>1, <2>2, <2>3, <2>5, <3>1, <3>4, TapInvStep
  <2>. QED
    BY <2>4, <2>5
<1>9. CASE tap_command /\ ~ EndMessage
  <2>1. /\ At(TapState \cup {TAP_RESET}) /\ Advance
        /\ tap_state' = [tap_state EXCEPT ![active_chain] =
                            IF cmd = TAP_RESET THEN jtag_tlr ELSE tap_of(cmd)]
        /\ UNCHANGED <<hw_mode, pc, packet, response_cnt, active_chain, start, lost>>
    BY <1>9 DEF tap_command, Leave
  <2>2. pc = "loop" /\ used < Len(packet) /\ cmd \in TapState \cup {TAP_RESET}
    BY <2>1 DEF At
  <2>3. cmd # WRITE_PINS
    BY <2>2 DEF WRITE_PINS, TapState, TAP_RESET
  <2>4. HasOperands
    BY <1>0, <2>2, MoveHasOperands
  <2>5. CASE lost
    BY <2>1, <2>5 DEF TapInv
  <2>6. CASE ~ lost
    <3>1. used' = Rest(packet, used) /\ used \notin Selects(packet)
      BY <1>5, <1>6, <2>1, <2>2, <2>3, <2>4
    <3>2. \A c \in Chains : tap_state'[c] =
              IF cmd \in TapState \cup {TAP_RESET} /\ c = active_chain
              THEN (IF cmd = TAP_RESET THEN jtag_tlr ELSE tap_of(cmd)) ELSE tap_state[c]
      BY <1>0, <2>1, <2>2
    <3>. QED
      BY <2>1, <2>2, <2>6, <3>1, <3>2, TapInvStep
  <2>. QED
    BY <2>5, <2>6
<1>10. CASE scan_command /\ ~ EndMessage
  <2> DEFINE n == used + operands(cmd) + 2
             d == determine_shift_end_state(n)
  <2>1. /\ At(Scans) /\ HasOperands /\ JTAG_get_tap_state \in ShiftStates
        /\ used' = d.used
        /\ tap_state' = [tap_state EXCEPT ![active_chain] = d.end]
        /\ lost' = (lost \/ d.lost)
        /\ UNCHANGED <<hw_mode, pc, packet, active_chain, start>>
    BY <1>10 DEF scan_command, Leave
  <2>2. pc = "loop" /\ used < Len(packet) /\ cmd \in Scans
    BY <2>1 DEF At
  <2>3. used \in 0 .. (Len(packet) - 1) /\ Len(packet) \in Nat
    BY <1>0, <2>2
  <2>4. cmd \in B /\ operands(cmd) \in 0 .. 8
        /\ Rest(packet, used) = used + 1 + operands(cmd)
    BY <1>0, <2>3, OperandsBehind, RestLater DEF cmd
  <2>5. n \in Nat /\ n - 1 \in (used + 1) .. Len(packet) /\ n - 1 = Rest(packet, used)
    <3>1. PICK o : o = operands(cmd)
      OBVIOUS
    <3>2. o \in 0 .. 8 /\ used + 1 + o <= Len(packet) /\ n = used + o + 2
          /\ Rest(packet, used) = used + 1 + o
      BY <2>1, <2>4, <3>1 DEF HasOperands
    <3> HIDE DEF n
    <3>. QED
      BY <2>3, <3>2
  <2> HIDE DEF n
  <2>6. /\ ~ d.lost => d.used = n - 1
        /\ d.end # JTAG_get_tap_state => n <= Len(packet) /\ packet[n] \in TapState
    BY <1>0, <2>1, <2>3, <2>5, EndState
  <2> HIDE DEF d
  <2>7. CASE lost'
    BY <2>7 DEF TapInv
  <2>8. CASE ~ lost'
    <3>1. ~ lost /\ ~ d.lost
      BY <2>1, <2>8
    <3>2. used' = n - 1 /\ used' = Rest(packet, used)
      BY <2>1, <2>5, <2>6, <3>1
    <3>3. cmd \notin TapState \cup {TAP_RESET} /\ cmd # WRITE_PINS
      BY <2>2 DEF Scans, WriteScan, ReadScan, ReadWriteScan, TapState, TAP_RESET, WRITE_PINS
    <3>4. used \notin Selects(packet)
      BY <1>6, <3>3
    <3>5. CASE d.end = JTAG_get_tap_state
      <4>1. tap_state' = tap_state
        BY <1>0, <2>1, <3>5 DEF JTAG_get_tap_state
      <4>. QED
        BY <2>1, <2>2, <3>1, <3>2, <3>3, <3>4, <4>1, TapInvStep
    <3>6. CASE d.end # JTAG_get_tap_state
      <4>1. used' < Len(packet') /\ cmd' \in TapState
        <5>1. n <= Len(packet) /\ packet[n] \in TapState
          BY <2>6, <3>6
        <5>2. used' + 1 = n /\ used' < Len(packet)
          BY <2>3, <2>5, <3>2, <5>1
        <5>. QED
          BY <2>1, <5>1, <5>2 DEF cmd
      <4>2. \A c \in Chains : c # active_chain => tap_state'[c] = tap_state[c]
        BY <1>0, <2>1
      <4>. QED
        BY <2>1, <2>2, <3>1, <3>2, <3>3, <3>4, <4>1, <4>2, TapInvStep
    <3>. QED
      BY <3>5, <3>6
  <2>. QED
    BY <2>7, <2>8
<1>11. CASE unknown_command \/ Return
  BY <1>1, <1>11 DEF unknown_command, Return, Leave
<1>. QED
  BY <1>1, <1>2, <1>3, <1>4, <1>7, <1>8, <1>9, <1>10, <1>11 DEF Next

\* It holds throughout.
LEMMA TapInvAlways == Spec => []TapInv
<1>1. Init => TapInv
  BY DEF Init, TapInv
<1>. QED
  BY <1>1, MsgInvAlways, TapInvNext, PTL DEF Spec

\* Scans leave the TAP of every chain where the client's TAP_STATE and TAP_RESET
\* commands have put it, for packets of any length that switch chains as they
\* like: only while the very next command is a TAP_STATE may the active chain be
\* ahead of them.
THEOREM MessageTapAsAsked == Spec => []TapAsAsked
<1>1. TapInv /\ MsgInv => TapAsAsked
  <2>1. SUFFICES ASSUME TapInv, pc # "idle", ~ lost, used < Len(packet) => cmd \notin TapState,
                        NEW c \in Chains
                 PROVE  tap_state[c] = AskedAt(start, packet, used, c)
    BY DEF TapAsAsked
  <2>. QED
    BY <2>1 DEF TapInv
<1>. QED
  BY <1>1, MsgInvAlways, TapInvAlways, PTL

===============================================================================
