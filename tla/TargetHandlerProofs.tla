------------------------- MODULE TargetHandlerProofs --------------------------
(***************************************************************************)
(* The pins and the events of the target handler, for every set of wired   *)
(* pins, every number of edges and every number of faults: the pins are    *)
(* given back, the client knows the levels, a PRDY pulse is reported once. *)
(***************************************************************************)
EXTENDS TargetHandler, FiniteSetTheorems, TLAPS

USE TargetHandlerAssumption

\* The names of the pins; none that is polled is an output.
LEMMA PinNames ==
  /\ Pins = {"PREQ_N", "PRDY_N", "CPU_PWRGD", "PLTRST_B", "DEBUG_EN_N", "XDP_PRST_IN"}
  /\ Polled \subseteq Pins /\ Outputs \subseteq Pins /\ Levels \subseteq Polled
  /\ Polled \cap Outputs = {}
<1>1. DOMAIN Gpios = 1 .. 6
  BY DEF Gpios
<1>2. Pins = {Gpios[i] : i \in 1 .. 6}
  BY <1>1 DEF Pins, ToSet
<1>3. 1 .. 6 = {1, 2, 3, 4, 5, 6}
  OBVIOUS
<1>4. Pins = {"PREQ_N", "PRDY_N", "CPU_PWRGD", "PLTRST_B", "DEBUG_EN_N", "XDP_PRST_IN"}
  BY <1>2, <1>3 DEF Gpios
<1>. QED
  BY <1>4 DEF Polled, Outputs, Levels

\* Target_Control_GPIOS is finite, and target_get_fds lists at most four pins.
LEMMA PinsFinite == IsFiniteSet(Pins) /\ Cardinality(Polled) = 4
<1>1. IsFiniteSet({}) /\ Cardinality({}) = 0
  BY FS_EmptySet
<1> DEFINE A == {"PRDY_N"} B == A \cup {"PLTRST_B"} C == B \cup {"CPU_PWRGD"}
           D == C \cup {"XDP_PRST_IN"}
<1>2. IsFiniteSet(A) /\ Cardinality(A) = 1
  BY FS_Singleton
<1>3. IsFiniteSet(B) /\ Cardinality(B) = 2
  BY <1>2, FS_AddElement
<1>4. IsFiniteSet(C) /\ Cardinality(C) = 3
  <2>1. "CPU_PWRGD" \notin B
    OBVIOUS
  <2> HIDE DEF B
  <2>. QED
    BY <1>3, <2>1, FS_AddElement
<1>5. IsFiniteSet(D) /\ Cardinality(D) = 4
  <2>1. "XDP_PRST_IN" \notin C
    OBVIOUS
  <2> HIDE DEF C
  <2>. QED
    BY <1>4, <2>1, FS_AddElement
<1>6. Polled = D
  BY DEF Polled
<1>7. Pins = D \cup {"PREQ_N"} \cup {"DEBUG_EN_N"}
  BY PinNames
<1> HIDE DEF D
<1>8. IsFiniteSet(D \cup {"PREQ_N"})
  BY <1>5, FS_AddElement
<1>9. IsFiniteSet(D \cup {"PREQ_N"} \cup {"DEBUG_EN_N"})
  BY <1>8, FS_AddElement
<1>. QED
  BY <1>5, <1>6, <1>7, <1>9

\* The faults a call meets are counted: one per pin.
LEMMA FaultCount ==
  ASSUME NEW S \in SUBSET Wired
  PROVE  Cardinality(S) \in Nat
BY PinsFinite, FS_Subset, FS_CardinalityType

\* The list poll() gets: pins of the set only, and PRDY nowhere but at the head.
LEMMA InPollOrderType ==
  ASSUME NEW S
  PROVE  /\ InPollOrder(S) \in Seq(Polled)
         /\ Len(InPollOrder(S)) =< 4
         /\ \A i \in 1 .. Len(InPollOrder(S)) :
               /\ InPollOrder(S)[i] \in S
               /\ i > 1 => InPollOrder(S)[i] # "PRDY_N"
<1> DEFINE entry(p) == IF p \in S THEN <<p>> ELSE << >>
           a == entry("PRDY_N") b == entry("PLTRST_B") c == entry("CPU_PWRGD")
           d == entry("XDP_PRST_IN")
<1>1. InPollOrder(S) = ((a \o b) \o c) \o d
  BY DEF InPollOrder
<1>2. ASSUME NEW p \in Polled
      PROVE  /\ entry(p) \in Seq(Polled) /\ Len(entry(p)) =< 1
             /\ \A i \in 1 .. Len(entry(p)) : entry(p)[i] \in S /\ entry(p)[i] = p
  <2>1. CASE p \in S
    BY <1>2, <2>1
  <2>2. CASE p \notin S
    BY <2>2
  <2>. QED
    BY <2>1, <2>2
<1>3. /\ a \in Seq(Polled) /\ Len(a) =< 1 /\ \A i \in 1 .. Len(a) : a[i] \in S
      /\ b \in Seq(Polled) /\ Len(b) =< 1 /\ \A i \in 1 .. Len(b) : b[i] \in S /\ b[i] # "PRDY_N"
      /\ c \in Seq(Polled) /\ Len(c) =< 1 /\ \A i \in 1 .. Len(c) : c[i] \in S /\ c[i] # "PRDY_N"
      /\ d \in Seq(Polled) /\ Len(d) =< 1 /\ \A i \in 1 .. Len(d) : d[i] \in S /\ d[i] # "PRDY_N"
  BY <1>2 DEF Polled
<1> HIDE DEF a, b, c, d
<1>4. ASSUME NEW s \in Seq(Polled), NEW t \in Seq(Polled),
             \A i \in 1 .. Len(s) : s[i] \in S /\ (i > 1 => s[i] # "PRDY_N"),
             \A i \in 1 .. Len(t) : t[i] \in S /\ t[i] # "PRDY_N"
      PROVE  /\ s \o t \in Seq(Polled) /\ Len(s \o t) = Len(s) + Len(t)
             /\ \A i \in 1 .. Len(s \o t) : (s \o t)[i] \in S /\ (i > 1 => (s \o t)[i] # "PRDY_N")
  <2>1. s \o t \in Seq(Polled) /\ Len(s \o t) = Len(s) + Len(t)
    OBVIOUS
  <2>2. ASSUME NEW i \in 1 .. Len(s \o t)
        PROVE  (s \o t)[i] \in S /\ (i > 1 => (s \o t)[i] # "PRDY_N")
    <3>1. CASE i \in 1 .. Len(s)
      <4>1. (s \o t)[i] = s[i]
        BY <3>1
      <4>. QED
        BY <1>4, <3>1, <4>1
    <3>2. CASE i \notin 1 .. Len(s)
      <4>1. i - Len(s) \in 1 .. Len(t) /\ (s \o t)[i] = t[i - Len(s)]
        BY <2>1, <3>2
      <4>. QED
        BY <1>4, <4>1
    <3>. QED
      BY <3>1, <3>2
  <2>. QED
    BY <2>1, <2>2
<1>5. /\ a \o b \in Seq(Polled) /\ Len(a \o b) =< 2
      /\ \A i \in 1 .. Len(a \o b) : (a \o b)[i] \in S /\ (i > 1 => (a \o b)[i] # "PRDY_N")
  BY <1>3, <1>4
<1> DEFINE ab == a \o b
<1> HIDE DEF ab
<1>6. /\ ab \o c \in Seq(Polled) /\ Len(ab \o c) =< 3
      /\ \A i \in 1 .. Len(ab \o c) : (ab \o c)[i] \in S /\ (i > 1 => (ab \o c)[i] # "PRDY_N")
  BY <1>3, <1>4, <1>5 DEF ab
<1> DEFINE abc == ab \o c
<1> HIDE DEF abc
<1>7. /\ abc \o d \in Seq(Polled) /\ Len(abc \o d) =< 4
      /\ \A i \in 1 .. Len(abc \o d) : (abc \o d)[i] \in S /\ (i > 1 => (abc \o d)[i] # "PRDY_N")
  BY <1>3, <1>4, <1>6 DEF abc
<1>. QED
  BY <1>1, <1>7 DEF ab, abc

-------------------------------------------------------------------------------
(* The inductive invariant, by what it is about.                               *)

PinInv ==
  /\ level \in [Pins -> BOOLEAN]
  /\ exported \subseteq Wired
  /\ driven \subseteq Wired \cap Outputs
  /\ left \subseteq driven
  /\ initialized => Wired \subseteq exported
  /\ PinsReleased

HandleInv ==
  /\ fd \in [Pins -> {"none", "both", "write"}]
  /\ unread \subseteq {p \in Polled : fd[p] # "none"}
  /\ initialized \in BOOLEAN
  /\ initialized \/ (event_cfg = {} /\ \A p \in Pins : fd[p] = "none")
  /\ event_cfg \subseteq Options

LoopInv ==
  /\ ctl \in BOOLEAN
  /\ pc \in {"poll", "event", "handler", "pulse", "message"}
  /\ todo \in Seq(Polled) /\ Len(todo) =< 4
  /\ todo = << >> <=> pc \in {"poll", "message"}
  /\ pc = "pulse" => Head(todo) = "PRDY_N"
  /\ initialized \/ pc \in {"poll", "message"}
  /\ \A i \in 2 .. Len(todo) : todo[i] # "PRDY_N"

BudgetInv == budget \in [edges : 0 .. MAX_EDGES, faults : 0 .. MAX_FAULTS]

ToldInv ==
  /\ told \in [Levels -> SUBSET BOOLEAN]
  /\ ~initialized => \A p \in Levels : told[p] = {}
  /\ LevelKnown

\* A pulse still to be reported is unread, and the one whose handler runs is
\* not: prdy counts both.
Waiting == "PRDY_N" \in unread /\ "REPORT_PRDY" \in event_cfg
Handled == pc \in {"handler", "pulse"} /\ Head(todo) = "PRDY_N"

PrdyInv ==
  /\ prdy \in Nat
  /\ fd["PRDY_N"] = "both" => /\ Waiting \/ Handled => prdy >= 1
                              /\ Waiting /\ Handled => prdy >= 2
  /\ pc = "event" /\ Head(todo) = "PRDY_N" => "PRDY_N" \in unread /\ "REPORT_PRDY" \in event_cfg

Inv == PinInv /\ HandleInv /\ LoopInv /\ BudgetInv /\ ToldInv /\ PrdyInv

-------------------------------------------------------------------------------
(* The steps: the ones that end a handle, and the others.                      *)

HandleGone == FreshHandle /\ pc' = "poll" /\ todo' = << >> /\ \E n \in Nat : Faults(n)

PinsFreed ==
  \E exp \in SUBSET Wired, set \in SUBSET (Wired \cap Outputs),
     stuck \in SUBSET (Wired \cap Outputs), kept \in SUBSET Wired :
       /\ exported \subseteq exp /\ set \subseteq exp
       /\ deinitialize_gpios(exp, set, stuck, kept)

PinsGone ==
  \/ ~initialized /\ UNCHANGED <<pins, left>>
  \/ left' = left \cup driven /\ UNCHANGED pins
  \/ PinsFreed

Initialize ==
  pc = "message" /\ ~initialized /\ initialize_ok /\ ctl' = FALSE /\ UNCHANGED <<pc, todo>>

XdpIgnored ==
  /\ pc = "handler" /\ Head(todo) = "XDP_PRST_IN"
  /\ NextEvent /\ UNCHANGED <<handle, pins, ctl, budget, ghosts>>

\* target_deinitialize ends the handle: of one that was never initialised it
\* leaves the pins alone.
LEMMA DeinitializeEnds ==
  ASSUME PinInv, HandleInv, target_deinitialize
  PROVE  FreshHandle /\ (\E n \in Nat : Faults(n)) /\ PinsGone
<1>1. PICK stuck \in SUBSET (Wired \cap Outputs), kept \in SUBSET Wired :
        /\ Faults(Cardinality(stuck) + Cardinality(kept))
        /\ IF initialized
           THEN deinitialize_gpios(exported, {}, stuck, kept)
           ELSE UNCHANGED <<pins, left>>
        /\ FreshHandle
  BY DEF target_deinitialize
<1>2. Cardinality(stuck) + Cardinality(kept) \in Nat
  <2>1. Cardinality(stuck) \in Nat /\ Cardinality(kept) \in Nat
    BY FaultCount
  <2>. QED
    BY <2>1
<1>3. \E n \in Nat : Faults(n)
  BY <1>1, <1>2
<1>4. PinsGone
  <2>1. CASE ~initialized
    BY <1>1, <2>1 DEF PinsGone
  <2>2. CASE initialized
    <3>1. deinitialize_gpios(exported, {}, stuck, kept)
      BY <1>1, <2>2
    <3>2. PinsFreed
      BY <3>1 DEF PinsFreed, PinInv
    <3>. QED
      BY <3>2 DEF PinsGone
  <2>. QED
    BY <2>1, <2>2
<1>. QED
  BY <1>1, <1>3, <1>4

\* initialize_gpios that fails half way frees what it took.
LEMMA InitializeFails ==
  ASSUME PinInv, NEW stuck \in SUBSET (Wired \cap Outputs), NEW kept \in SUBSET Wired,
         initialize_failed(stuck, kept)
  PROVE  FreshHandle /\ (\E n \in Nat : Faults(n)) /\ PinsGone
<1>1. PICK n \in 0 .. Len(Gpios), m \in {0, 1} :
        /\ m <= n
        /\ \/ Faults(Cardinality(stuck) + Cardinality(kept))
           \/ Faults(1 + Cardinality(stuck) + Cardinality(kept))
        /\ deinitialize_gpios(exported \cup First(n), First(n - m) \cap Outputs, stuck, kept)
        /\ FreshHandle
  BY DEF initialize_failed
<1>2. \E k \in Nat : Faults(k)
  <2>1. Cardinality(stuck) \in Nat /\ Cardinality(kept) \in Nat
    BY FaultCount
  <2>2. /\ Cardinality(stuck) + Cardinality(kept) \in Nat
        /\ 1 + Cardinality(stuck) + Cardinality(kept) \in Nat
    BY <2>1
  <2>. QED
    BY <1>1, <2>2
<1>3. First(n) \subseteq Wired /\ First(n - m) \subseteq First(n)
  <2>1. 1 .. (n - m) \subseteq 1 .. n
    <3>1. Len(Gpios) = 6
      BY DEF Gpios
    <3>. QED
      BY <1>1, <3>1
  <2>. QED
    BY <2>1 DEF First
<1>4. PinsFreed
  <2>1. /\ exported \cup First(n) \in SUBSET Wired
        /\ First(n - m) \cap Outputs \in SUBSET (Wired \cap Outputs)
        /\ exported \subseteq exported \cup First(n)
        /\ First(n - m) \cap Outputs \subseteq exported \cup First(n)
    BY <1>3 DEF PinInv
  <2>. QED
    BY <1>1, <2>1 DEF PinsFreed
<1>. QED
  BY <1>1, <1>2, <1>4 DEF PinsGone

\* Every step ends the handle or is one of the others.
LEMMA NextCases ==
  ASSUME Inv, Next
  PROVE  \/ HandleGone /\ PinsGone
         \/ Poll \/ target_event \/ XdpIgnored
         \/ on_power_event \/ on_platform_reset_event \/ on_prdy_event \/ PulseEnds
         \/ MessagesDone \/ AgentControl \/ Initialize
         \/ \E option \in Options, enable \in BOOLEAN : target_write_event_config(option, enable)
         \/ \E value \in BOOLEAN : target_write(value)
         \/ target_write_power_button
         \/ \E p \in {"PRDY_N", "CPU_PWRGD"} : target_read(p)
         \/ \E p \in Polled : Edge(p)
<1>1. ASSUME target_deinitialize, pc' = "poll", todo' = << >>
      PROVE  HandleGone /\ PinsGone
  BY <1>1, DeinitializeEnds DEF HandleGone, Inv
<1>2. CASE EventFails
  BY <1>1, <1>2 DEF EventFails, Close
<1>3. CASE on_xdp_present_event
  BY <1>1, <1>3 DEF on_xdp_present_event, Close, XdpIgnored
<1>4. CASE target_initialize
  <2>1. CASE initialize_ok /\ ctl' = FALSE /\ UNCHANGED <<pc, todo>>
    BY <1>4, <2>1 DEF target_initialize, Initialize
  <2>2. ASSUME NEW stuck \in SUBSET (Wired \cap Outputs), NEW kept \in SUBSET Wired,
               initialize_failed(stuck, kept), pc' = "poll", UNCHANGED todo
        PROVE  HandleGone /\ PinsGone
    <3>1. todo' = << >>
      BY <1>4, <2>2 DEF Inv, LoopInv, target_initialize
    <3>. QED
      BY <2>2, <3>1, InitializeFails DEF HandleGone, Inv
  <2>. QED
    BY <1>4, <2>1, <2>2 DEF target_initialize
<1>5. CASE Disconnect
  <2>1. todo' = << >> /\ pc' = "poll" /\ target_deinitialize
    BY <1>5 DEF Disconnect, Inv, LoopInv
  <2>. QED
    BY <1>1, <2>1
<1>6. CASE Killed
  <2>1. HandleGone
    <3>1. Faults(1) /\ FreshHandle /\ pc' = "poll" /\ todo' = << >>
      BY <1>6 DEF Killed
    <3>2. 1 \in Nat
      OBVIOUS
    <3>. QED
      BY <3>1, <3>2 DEF HandleGone
  <2>2. PinsGone
    BY <1>6 DEF Killed, PinsGone
  <2>. QED
    BY <2>1, <2>2
<1>. QED
  BY <1>2, <1>3, <1>4, <1>5, <1>6 DEF Next, Loop

-------------------------------------------------------------------------------
(* Each part of the invariant is kept.                                         *)

\* What the commands and the handlers change of the pins: the level of PREQ.
LEMMA WritePreq ==
  ASSUME level \in [Pins -> BOOLEAN], NEW v \in BOOLEAN, write_pin_value("PREQ_N", v)
  PROVE  /\ level' \in [Pins -> BOOLEAN]
         /\ \A p \in Levels : level'[p] = level[p]
BY PinNames DEF write_pin_value, Levels

\* deinitialize_gpios goes on over failures, so a pin it leaves driven was
\* stuck, or was left by an earlier daemon.
LEMMA FreedPins ==
  ASSUME PinInv, HandleInv, HandleGone, PinsFreed
  PROVE  PinInv'
<1>1. PICK exp \in SUBSET Wired, set \in SUBSET (Wired \cap Outputs),
           stuck \in SUBSET (Wired \cap Outputs), kept \in SUBSET Wired :
        /\ exported \subseteq exp /\ set \subseteq exp
        /\ deinitialize_gpios(exp, set, stuck, kept)
  BY DEF PinsFreed
<1> DEFINE released == (Wired \cap exp) \ stuck
<1>2. /\ exported' = exp \ (Wired \ kept)
      /\ driven' = (driven \cup set) \ released
      /\ level' = [p \in Pins |-> level[p] /\ p \notin set \cup (Outputs \cap released)]
      /\ left' = (left \cup stuck) \cap ((driven \cup set) \ released)
  BY <1>1 DEF deinitialize_gpios, Releasable
<1> HIDE DEF released
<1>3. level' \in [Pins -> BOOLEAN]
  BY <1>2, Zenon DEF PinInv
<1>4. exported' \subseteq Wired /\ driven' \subseteq Wired \cap Outputs /\ left' \subseteq driven'
  BY <1>2 DEF PinInv
<1>5. ~initialized'
  BY DEF HandleGone, FreshHandle
<1>6. driven' \subseteq left'
  <2>1. SUFFICES ASSUME NEW x \in driven' PROVE x \in left \cup stuck
    BY <1>2
  <2>2. x \in driven \cup set /\ x \in Wired /\ (x \in stuck \/ x \notin exp)
    BY <1>2, <1>4 DEF released
  <2>3. CASE x \notin stuck
    <3>1. x \in driven /\ x \notin exported
      BY <1>1, <2>2, <2>3
    <3>2. ~initialized
      BY <2>2, <3>1 DEF PinInv
    <3>. QED
      BY <3>1, <3>2 DEF PinInv, PinsReleased
  <2>. QED
    BY <2>3
<1>. QED
  BY <1>3, <1>4, <1>5, <1>6 DEF PinInv, PinsReleased

\* Every step keeps the pins as PinInv says.
LEMMA PinStep ==
  ASSUME Inv, Next
  PROVE  PinInv'
<1>0. PinInv /\ HandleInv /\ LoopInv
  BY DEF Inv
<1>1. CASE HandleGone /\ PinsGone
  <2>1. CASE PinsFreed
    BY <1>0, <1>1, <2>1, FreedPins
  <2>2. CASE ~initialized /\ UNCHANGED <<pins, left>>
    BY <1>0, <1>1, <2>2 DEF HandleGone, FreshHandle, PinInv, PinsReleased, pins
  <2>3. CASE left' = left \cup driven /\ UNCHANGED pins
    BY <1>0, <1>1, <2>3 DEF HandleGone, FreshHandle, PinInv, PinsReleased, pins
  <2>. QED
    BY <1>1, <2>1, <2>2, <2>3 DEF PinsGone
<1>2. ASSUME UNCHANGED <<exported, driven, left, initialized>>, level' \in [Pins -> BOOLEAN]
      PROVE  PinInv'
  BY <1>0, <1>2 DEF PinInv, PinsReleased
<1>3. ASSUME UNCHANGED <<exported, driven, left, initialized>>, UNCHANGED level
      PROVE  PinInv'
  BY <1>0, <1>3 DEF PinInv, PinsReleased
<1>4. ASSUME UNCHANGED <<exported, driven, left, initialized>>,
             NEW v \in BOOLEAN, write_pin_value("PREQ_N", v)
      PROVE  PinInv'
  <2>1. level' \in [Pins -> BOOLEAN]
    BY <1>0, <1>4, WritePreq DEF PinInv
  <2>. QED
    BY <1>2, <1>4, <2>1
<1>5. CASE Poll
  BY <1>3, <1>5 DEF Poll, handle, pins, ghosts
<1>6. CASE target_event
  BY <1>3, <1>6 DEF target_event, pins, ghosts
<1>7. CASE XdpIgnored
  BY <1>3, <1>7 DEF XdpIgnored, handle, pins, ghosts
<1>8. CASE on_power_event
  BY <1>3, <1>8 DEF on_power_event, pins
<1>9. CASE on_platform_reset_event
  <2>1. UNCHANGED <<exported, driven, left, initialized>>
    BY <1>9 DEF on_platform_reset_event
  <2>2. UNCHANGED level \/ write_pin_value("PREQ_N", TRUE)
    BY <1>9 DEF on_platform_reset_event
  <2>. QED
    BY <1>3, <1>4, <2>1, <2>2
<1>10. CASE on_prdy_event
  <2>1. UNCHANGED <<exported, driven, left, initialized>>
    BY <1>10 DEF on_prdy_event, handle
  <2>2. UNCHANGED level \/ write_pin_value("PREQ_N", TRUE)
    BY <1>10 DEF on_prdy_event
  <2>. QED
    BY <1>3, <1>4, <2>1, <2>2
<1>11. CASE PulseEnds
  BY <1>4, <1>11 DEF PulseEnds, handle
<1>12. CASE MessagesDone
  BY <1>3, <1>12 DEF MessagesDone, handle, pins, ghosts
<1>13. CASE AgentControl
  BY <1>3, <1>13 DEF AgentControl, handle, pins, ghosts
<1>14. CASE Initialize
  <2>1. /\ initialized' = TRUE /\ exported' = exported \cup Wired
        /\ driven' = driven \cup (Wired \cap Outputs) /\ left' = left \ Wired
        /\ level' = [p \in Pins |-> IF p \in Wired \cap Outputs THEN p = "DEBUG_EN_N" ELSE level[p]]
    BY <1>14 DEF Initialize, initialize_ok
  <2>2. level' \in [Pins -> BOOLEAN]
    <3>1. \A p \in Pins : level[p] \in BOOLEAN /\ (p = "DEBUG_EN_N") \in BOOLEAN
      BY <1>0, Zenon DEF PinInv
    <3>2. \A p \in Pins : (IF p \in Wired \cap Outputs THEN p = "DEBUG_EN_N" ELSE level[p]) \in BOOLEAN
      BY <3>1, Zenon
    <3>. QED
      BY <2>1, <3>2, Zenon
  <2>. QED
    BY <1>0, <2>1, <2>2 DEF PinInv, PinsReleased
<1>15. ASSUME NEW option \in Options, NEW enable \in BOOLEAN, target_write_event_config(option, enable)
       PROVE  PinInv'
  BY <1>3, <1>15 DEF target_write_event_config, pins
<1>16. ASSUME NEW value \in BOOLEAN, target_write(value)
       PROVE  PinInv'
  BY <1>4, <1>16 DEF target_write, handle, ghosts
<1>17. CASE target_write_power_button
  BY <1>3, <1>17 DEF target_write_power_button, pins
<1>18. ASSUME NEW p \in {"PRDY_N", "CPU_PWRGD"}, target_read(p)
       PROVE  PinInv'
  BY <1>3, <1>18 DEF target_read, pins
<1>19. ASSUME NEW p \in Polled, Edge(p)
       PROVE  PinInv'
  <2>1. UNCHANGED <<exported, driven, left, initialized>>
    BY <1>19 DEF Edge
  <2>2. UNCHANGED level \/ level' = [level EXCEPT ![p] = ~@]
    BY <1>19 DEF Edge
  <2>3. CASE level' = [level EXCEPT ![p] = ~@]
    <3>1. level' \in [Pins -> BOOLEAN]
      BY <1>0, <2>3, PinNames, Zenon DEF PinInv
    <3>. QED
      BY <1>2, <2>1, <3>1
  <2>. QED
    BY <1>3, <2>1, <2>2, <2>3
<1>. QED
  BY <1>1, <1>5, <1>6, <1>7, <1>8, <1>9, <1>10, <1>11, <1>12, <1>13, <1>14, <1>15, <1>16,
     <1>17, <1>18, <1>19, NextCases

\* Reading a pin takes no event of another pin away, and adds none.
LEMMA ReadEffect ==
  ASSUME NEW p
  PROVE  /\ Read(p) \subseteq unread /\ unread \subseteq Read(p) \cup {p}
         /\ fd[p] = "both" => p \notin Read(p)
BY DEF Read

\* Every step keeps the handle as HandleInv says.
LEMMA HandleStep ==
  ASSUME Inv, Next
  PROVE  HandleInv'
<1>0. HandleInv
  BY DEF Inv
<1>1. CASE HandleGone /\ PinsGone
  BY <1>1, PinNames DEF HandleGone, FreshHandle, HandleInv, Options
<1>2. ASSUME UNCHANGED <<fd, initialized, event_cfg>>, unread' \subseteq unread
      PROVE  HandleInv'
  BY <1>0, <1>2 DEF HandleInv
<1>5. CASE Poll
  BY <1>2, <1>5 DEF Poll, handle
<1>6. CASE target_event
  BY <1>2, <1>6, ReadEffect DEF target_event
<1>7. CASE XdpIgnored
  BY <1>2, <1>7 DEF XdpIgnored, handle
<1>8. CASE on_power_event
  BY <1>2, <1>8, ReadEffect DEF on_power_event
<1>9. CASE on_platform_reset_event
  BY <1>2, <1>9, ReadEffect DEF on_platform_reset_event
<1>10. CASE on_prdy_event
  BY <1>2, <1>10 DEF on_prdy_event, handle
<1>11. CASE PulseEnds
  BY <1>2, <1>11 DEF PulseEnds, handle
<1>12. CASE MessagesDone
  BY <1>2, <1>12 DEF MessagesDone, handle
<1>13. CASE AgentControl
  BY <1>2, <1>13 DEF AgentControl, handle
<1>14. CASE Initialize
  <2>1. /\ initialized' = TRUE /\ fd' = opened /\ event_cfg' = event_cfg
        /\ unread' = {p \in Polled : opened[p] = "write"}
    BY <1>14 DEF Initialize, initialize_ok
  <2>2. opened \in [Pins -> {"none", "both", "write"}]
    BY DEF opened, gpio_export
  <2>. QED
    BY <1>0, <2>1, <2>2 DEF HandleInv
<1>15. ASSUME NEW option \in Options, NEW enable \in BOOLEAN, target_write_event_config(option, enable)
       PROVE  HandleInv'
  <2>1. /\ UNCHANGED <<fd, initialized>> /\ initialized
        /\ event_cfg' \subseteq event_cfg \cup {option}
        /\ unread' \subseteq unread
    BY <1>15, ReadEffect DEF target_write_event_config, Command
  <2>. QED
    BY <1>0, <2>1 DEF HandleInv
<1>16. ASSUME NEW value \in BOOLEAN, target_write(value)
       PROVE  HandleInv'
  BY <1>2, <1>16 DEF target_write, handle
<1>17. CASE target_write_power_button
  BY <1>2, <1>17, ReadEffect DEF target_write_power_button
<1>18. ASSUME NEW p \in {"PRDY_N", "CPU_PWRGD"}, target_read(p)
       PROVE  HandleInv'
  BY <1>2, <1>18, ReadEffect DEF target_read
<1>19. ASSUME NEW p \in Polled, Edge(p)
       PROVE  HandleInv'
  BY <1>0, <1>19 DEF Edge, HandleInv
<1>. QED
  BY <1>1, <1>5, <1>6, <1>7, <1>8, <1>9, <1>10, <1>11, <1>12, <1>13, <1>14, <1>15, <1>16,
     <1>17, <1>18, <1>19, NextCases

\* The rest of a list of pending events is one.
LEMMA TailOfEvents ==
  ASSUME todo \in Seq(Polled), todo # << >>, Len(todo) =< 4,
         \A i \in 2 .. Len(todo) : todo[i] # "PRDY_N"
  PROVE  /\ Tail(todo) \in Seq(Polled) /\ Len(Tail(todo)) =< 4
         /\ \A i \in 1 .. Len(Tail(todo)) : Tail(todo)[i] # "PRDY_N"
<1>1. /\ Tail(todo) \in Seq(Polled) /\ Len(Tail(todo)) = Len(todo) - 1 /\ Len(todo) \in Nat
      /\ \A i \in 1 .. Len(Tail(todo)) : Tail(todo)[i] = todo[i + 1]
  OBVIOUS
<1>2. ASSUME NEW i \in 1 .. Len(Tail(todo)) PROVE i + 1 \in 2 .. Len(todo)
  BY <1>1
<1>. QED
  BY <1>1, <1>2

\* NextEvent leaves the loop with the events after the first.
LEMMA NextEventLoop ==
  ASSUME LoopInv, pc \in {"handler", "pulse"}, NextEvent
  PROVE  /\ pc' \in {"event", "message"}
         /\ todo' \in Seq(Polled) /\ Len(todo') =< 4
         /\ todo' = << >> <=> pc' = "message"
         /\ \A i \in 1 .. Len(todo') : todo'[i] # "PRDY_N"
<1>1. todo # << >>
  BY DEF LoopInv
<1>. QED
  BY <1>1, TailOfEvents DEF LoopInv, NextEvent, Proceed

\* Every step keeps the loop as LoopInv says.
LEMMA LoopStep ==
  ASSUME Inv, Next
  PROVE  LoopInv'
<1>0. LoopInv
  BY DEF Inv
<1>1. CASE HandleGone /\ PinsGone
  <2>1. ctl' = FALSE /\ pc' = "poll" /\ todo' = << >>
    BY <1>1 DEF HandleGone, FreshHandle
  <2>2. << >> \in Seq(Polled) /\ Len(<< >>) = 0 /\ 2 .. 0 = {}
    OBVIOUS
  <2>3. todo' \in Seq(Polled) /\ Len(todo') = 0
    BY <2>1, <2>2
  <2>4. Len(todo') =< 4 /\ \A i \in 2 .. Len(todo') : todo'[i] # "PRDY_N"
    BY <2>2, <2>3
  <2>. QED
    BY <2>1, <2>3, <2>4 DEF LoopInv
<1>2. ASSUME UNCHANGED <<pc, todo, initialized>>, ctl' \in BOOLEAN
      PROVE  LoopInv'
  BY <1>0, <1>2 DEF LoopInv
<1>3. ASSUME pc \in {"handler", "pulse"}, NextEvent, UNCHANGED <<ctl, initialized>>
      PROVE  LoopInv'
  BY <1>0, <1>3, NextEventLoop DEF LoopInv
<1>5. CASE Poll
  <2> DEFINE s == InPollOrder(target_get_fds \cap unread)
  <2>1. s \in Seq(Polled) /\ Len(s) =< 4 /\ \A i \in 2 .. Len(s) : s[i] # "PRDY_N"
    <3>1. /\ s \in Seq(Polled) /\ Len(s) =< 4
          /\ \A i \in 1 .. Len(s) : i > 1 => s[i] # "PRDY_N"
      BY InPollOrderType
    <3> HIDE DEF s
    <3>2. Len(s) \in Nat
      BY <3>1
    <3>3. \A i \in 2 .. Len(s) : i \in 1 .. Len(s) /\ i > 1
      BY <3>2
    <3>. QED
      BY <3>1, <3>3
  <2>2. todo' = s /\ pc' = (IF s = << >> THEN "message" ELSE "event") /\ ctl' = ctl
    BY <1>5 DEF Poll, Proceed
  <2>3. initialized \/ s = << >>
    <3>1. SUFFICES ASSUME s # << >> PROVE initialized
      OBVIOUS
    <3>2. s \in Seq(Polled) /\ \A i \in 1 .. Len(s) : s[i] \in target_get_fds
      BY InPollOrderType
    <3> HIDE DEF s
    <3>3. s[1] \in target_get_fds
      BY <3>1, <3>2
    <3>. QED
      BY <3>3 DEF target_get_fds
  <2>4. UNCHANGED initialized
    BY <1>5 DEF Poll, handle
  <2> HIDE DEF s
  <2>. QED
    BY <1>0, <2>1, <2>2, <2>3, <2>4 DEF LoopInv
<1>6. CASE target_event
  BY <1>0, <1>6 DEF target_event, LoopInv
<1>7. CASE XdpIgnored
  BY <1>3, <1>7 DEF XdpIgnored, handle
<1>8. CASE on_power_event
  BY <1>3, <1>8 DEF on_power_event
<1>9. CASE on_platform_reset_event
  BY <1>3, <1>9 DEF on_platform_reset_event
<1>10. CASE on_prdy_event
  <2>1. CASE NextEvent
    BY <1>3, <1>10, <2>1 DEF on_prdy_event, handle
  <2>2. CASE ~ NextEvent
    <3>1. /\ pc = "handler" /\ Head(todo) = "PRDY_N" /\ pc' = "pulse" /\ todo' = todo /\ ctl' = ctl
          /\ UNCHANGED initialized
      BY <1>10, <2>2 DEF on_prdy_event, handle
    <3>. QED
      BY <1>0, <3>1 DEF LoopInv
  <2>. QED
    BY <2>1, <2>2
<1>11. CASE PulseEnds
  BY <1>3, <1>11 DEF PulseEnds, handle
<1>12. CASE MessagesDone
  BY <1>0, <1>12 DEF MessagesDone, handle, LoopInv
<1>13. CASE AgentControl
  BY <1>2, <1>13 DEF AgentControl, handle
<1>14. CASE Initialize
  BY <1>0, <1>14 DEF Initialize, initialize_ok, LoopInv
<1>15. ASSUME NEW option \in Options, NEW enable \in BOOLEAN, target_write_event_config(option, enable)
       PROVE  LoopInv'
  BY <1>2, <1>15 DEF target_write_event_config, Command
<1>16. ASSUME NEW value \in BOOLEAN, target_write(value)
       PROVE  LoopInv'
  BY <1>2, <1>16 DEF target_write, Command, handle
<1>17. CASE target_write_power_button
  BY <1>2, <1>17 DEF target_write_power_button, Command
<1>18. ASSUME NEW p \in {"PRDY_N", "CPU_PWRGD"}, target_read(p)
       PROVE  LoopInv'
  BY <1>2, <1>18 DEF target_read, Command
<1>19. ASSUME NEW p \in Polled, Edge(p)
       PROVE  LoopInv'
  BY <1>0, <1>2, <1>19 DEF Edge, loop, LoopInv
<1>. QED
  BY <1>1, <1>5, <1>6, <1>7, <1>8, <1>9, <1>10, <1>11, <1>12, <1>13, <1>14, <1>15, <1>16,
     <1>17, <1>18, <1>19, NextCases

\* No step overdraws the budget.
LEMMA BudgetStep ==
  ASSUME Inv, Next
  PROVE  BudgetInv'
<1>0. BudgetInv
  BY DEF Inv
<1>1. CASE HandleGone /\ PinsGone
  <2>1. PICK n \in Nat : n <= budget.faults /\ budget' = [budget EXCEPT !.faults = @ - n]
    BY <1>1 DEF HandleGone, Faults
  <2>2. budget.faults - n \in 0 .. MAX_FAULTS
    BY <1>0, <2>1 DEF BudgetInv
  <2>. QED
    BY <1>0, <2>1, <2>2 DEF BudgetInv
<1>2. ASSUME UNCHANGED budget PROVE BudgetInv'
  BY <1>0, <1>2 DEF BudgetInv
<1>3. ASSUME NEW p \in Polled, Edge(p)
       PROVE  BudgetInv'
  <2>1. budget.edges > 0 /\ budget' = [budget EXCEPT !.edges = @ - 1]
    BY <1>3 DEF Edge
  <2>2. budget.edges - 1 \in 0 .. MAX_EDGES
    BY <1>0, <2>1 DEF BudgetInv
  <2>. QED
    BY <1>0, <2>1, <2>2 DEF BudgetInv
<1>4. CASE Poll \/ target_event \/ XdpIgnored \/ on_power_event \/ on_platform_reset_event
  BY <1>2, <1>4
  DEF Poll, target_event, XdpIgnored, on_power_event, on_platform_reset_event
<1>5. CASE on_prdy_event \/ PulseEnds \/ MessagesDone \/ AgentControl \/ Initialize
  BY <1>2, <1>5 DEF on_prdy_event, PulseEnds, MessagesDone, AgentControl, Initialize, initialize_ok
<1>6. CASE \/ \E option \in Options, enable \in BOOLEAN : target_write_event_config(option, enable)
           \/ \E value \in BOOLEAN : target_write(value)
           \/ target_write_power_button
           \/ \E p \in {"PRDY_N", "CPU_PWRGD"} : target_read(p)
  BY <1>2, <1>6
  DEF target_write_event_config, target_write, target_write_power_button, target_read
<1>. QED
  BY <1>1, <1>3, <1>4, <1>5, <1>6, NextCases

\* Every step keeps what the client was told true: a level changes with an
\* event, and the event goes with a read whose value is told, or forgotten.
LEMMA ToldStep ==
  ASSUME Inv, Next
  PROVE  ToldInv'
<1>0. ToldInv /\ HandleInv /\ LoopInv /\ PinInv
  BY DEF Inv
<1>1. CASE HandleGone /\ PinsGone
  <2>1. told' = [p \in Levels |-> {}] /\ initialized' = FALSE
    BY <1>1 DEF HandleGone, FreshHandle
  <2>. QED
    BY <2>1 DEF ToldInv, LevelKnown
\* A step that changes no level, takes no event away and leaves no handler of a level.
<1>2. ASSUME UNCHANGED <<told, fd, initialized>>,
             \A p \in Levels : level'[p] = level[p] \/ p \in unread' \/ fd[p] = "none",
             \A p \in Levels : p \in unread => (p \in unread' \/ (pc' = "handler" /\ Head(todo') = p)),
             \A p \in Levels : (pc = "handler" /\ Head(todo) = p) => (pc' = "handler" /\ Head(todo') = p)
      PROVE  ToldInv'
  BY <1>0, <1>2 DEF ToldInv, LevelKnown
<1>3. ASSUME UNCHANGED <<told, fd, initialized, unread>>,
             \A p \in Levels : level'[p] = level[p],
             pc = "handler" => Head(todo) \notin Levels
      PROVE  ToldInv'
  BY <1>0, <1>3 DEF ToldInv, LevelKnown
\* A step that reads a level pin and tells it.
<1>4. ASSUME NEW q \in Levels, UNCHANGED <<fd, initialized>>,
             NEW value \in gpio_get_value(q), told' = [told EXCEPT ![q] = {value}],
             unread' = Read(q), \A p \in Levels : level'[p] = level[p],
             initialized, pc = "handler" => Head(todo) = q
      PROVE  ToldInv'
  <2>1. gpio_get_value(q) \subseteq BOOLEAN
    BY <1>0, PinNames DEF gpio_get_value, PinInv
  <2>2. told' \in [Levels -> SUBSET BOOLEAN]
    BY <1>0, <1>4, <2>1 DEF ToldInv
  <2>3. ASSUME NEW p \in Levels, fd[p] = "both", p \notin unread', ~(pc' = "handler" /\ Head(todo') = p)
        PROVE  told'[p] \subseteq {level'[p]}
    <3>1. CASE p = q
      BY <1>0, <1>4, <2>3, <3>1 DEF gpio_get_value, ToldInv
    <3>2. CASE p # q
      <4>1. p \notin unread
        BY <1>4, <2>3, <3>2, ReadEffect
      <4>. QED
        BY <1>0, <1>4, <2>3, <3>2, <4>1 DEF ToldInv, LevelKnown
    <3>. QED
      BY <3>1, <3>2
  <2>. QED
    BY <1>4, <2>2, <2>3 DEF ToldInv, LevelKnown
<1>5. CASE Poll
  BY <1>3, <1>5 DEF Poll, handle, pins, ghosts
<1>6. CASE target_event
  <2>1. /\ UNCHANGED <<told, fd, initialized, level, todo>> /\ unread' = Read(Head(todo))
        /\ pc = "event" /\ pc' = "handler"
    BY <1>6 DEF target_event, pins, ghosts
  <2>. QED
    BY <1>2, <2>1, ReadEffect
<1>7. CASE XdpIgnored
  BY <1>3, <1>7 DEF XdpIgnored, handle, pins, ghosts, Levels
<1>8. CASE on_power_event
  <2>1. initialized
    BY <1>0, <1>8 DEF on_power_event, LoopInv
  <2>. QED
    BY <1>4, <1>8, <2>1 DEF on_power_event, pins, Levels
<1>9. CASE on_platform_reset_event
  <2>1. initialized
    BY <1>0, <1>9 DEF on_platform_reset_event, LoopInv
  <2>2. PICK value \in gpio_get_value("PLTRST_B") :
          /\ told' = [told EXCEPT !["PLTRST_B"] = {value}]
          /\ write_pin_value("PREQ_N", TRUE) \/ UNCHANGED level
    BY <1>9 DEF on_platform_reset_event
  <2>3. \A p \in Levels : level'[p] = level[p]
    BY <1>0, <2>2, WritePreq DEF PinInv
  <2>4. /\ UNCHANGED <<fd, initialized>> /\ unread' = Read("PLTRST_B") /\ Head(todo) = "PLTRST_B"
    BY <1>9 DEF on_platform_reset_event
  <2>5. "PLTRST_B" \in Levels
    BY DEF Levels
  <2>. QED
    BY <1>4, <2>1, <2>2, <2>3, <2>4, <2>5
<1>10. CASE on_prdy_event
  <2>1. \A p \in Levels : level'[p] = level[p]
    <3>1. UNCHANGED level \/ write_pin_value("PREQ_N", TRUE)
      BY <1>10 DEF on_prdy_event
    <3>. QED
      BY <1>0, <3>1, WritePreq DEF PinInv
  <2>. QED
    BY <1>3, <1>10, <2>1 DEF on_prdy_event, handle, Levels
<1>11. CASE PulseEnds
  <2>1. \A p \in Levels : level'[p] = level[p]
    BY <1>0, <1>11, WritePreq DEF PulseEnds, PinInv
  <2>. QED
    BY <1>3, <1>11, <2>1 DEF PulseEnds, handle
<1>12. CASE MessagesDone
  BY <1>3, <1>12 DEF MessagesDone, handle, pins, ghosts
<1>13. CASE AgentControl
  BY <1>3, <1>13 DEF AgentControl, handle, pins, ghosts
<1>14. CASE Initialize
  <2>1. told' = told /\ ~initialized /\ initialized' = TRUE
    BY <1>14 DEF Initialize, initialize_ok
  <2>. QED
    BY <1>0, <2>1 DEF ToldInv, LevelKnown
<1>15. ASSUME NEW option \in Options, NEW enable \in BOOLEAN, target_write_event_config(option, enable)
       PROVE  ToldInv'
  <2>1. /\ UNCHANGED <<told, fd, initialized, level, pc, todo>> /\ unread \subseteq unread' \cup {"PRDY_N"}
    BY <1>15, ReadEffect DEF target_write_event_config, pins
  <2>. QED
    BY <1>2, <2>1 DEF Levels
<1>16. ASSUME NEW value \in BOOLEAN, target_write(value)
       PROVE  ToldInv'
  <2>1. /\ UNCHANGED <<told, fd, initialized, unread, pc, todo>> /\ write_pin_value("PREQ_N", value)
    BY <1>16 DEF target_write, handle, ghosts
  <2>2. \A p \in Levels : level'[p] = level[p]
    BY <1>0, <2>1, WritePreq DEF PinInv
  <2>. QED
    BY <1>2, <2>1, <2>2
<1>17. CASE target_write_power_button
  <2>1. /\ UNCHANGED <<fd, initialized, level, pc, todo>> /\ unread' = Read("CPU_PWRGD") /\ initialized
        /\ told' = IF unread' # unread THEN [told EXCEPT !["CPU_PWRGD"] = {}] ELSE told
    BY <1>17 DEF target_write_power_button, Command, pins
  <2>2. CASE unread' = unread
    BY <1>2, <2>1, <2>2
  <2>3. CASE unread' # unread
    <3>1. told' = [told EXCEPT !["CPU_PWRGD"] = {}]
      BY <2>1, <2>3
    <3>2. \A p \in Levels : p # "CPU_PWRGD" => (p \in unread' <=> p \in unread)
      BY <2>1, ReadEffect
    <3>. QED
      BY <1>0, <2>1, <3>1, <3>2 DEF ToldInv, LevelKnown
  <2>. QED
    BY <2>2, <2>3
<1>18. ASSUME NEW p \in {"PRDY_N", "CPU_PWRGD"}, target_read(p)
       PROVE  ToldInv'
  <2>1. /\ UNCHANGED <<fd, initialized, level, pc, todo>> /\ unread' = Read(p) /\ initialized
        /\ pc = "message"
    BY <1>18 DEF target_read, Command, pins
  <2>2. CASE p \in Levels
    BY <1>4, <1>18, <2>1, <2>2 DEF target_read
  <2>3. CASE p \notin Levels
    BY <1>2, <1>18, <2>1, <2>3, ReadEffect DEF target_read
  <2>. QED
    BY <2>2, <2>3
<1>19. ASSUME NEW p \in Polled, Edge(p)
       PROVE  ToldInv'
  <2>1. /\ UNCHANGED <<told, fd, initialized, pc, todo>>
        /\ unread' = IF fd[p] # "none" THEN unread \cup {p} ELSE unread
        /\ \A q \in Levels : q # p => level'[q] = level[q]
    BY <1>0, <1>19, PinNames DEF Edge, loop, PinInv
  <2>. QED
    BY <1>2, <2>1
<1>. QED
  BY <1>1, <1>5, <1>6, <1>7, <1>8, <1>9, <1>10, <1>11, <1>12, <1>13, <1>14, <1>15, <1>16,
     <1>17, <1>18, <1>19, NextCases

\* A pulse is counted when it is seen, is unread until target_event reads it,
\* and is given back when its handler reports it.
LEMMA PrdyStep ==
  ASSUME Inv, Next
  PROVE  PrdyInv'
<1>0. PrdyInv /\ HandleInv /\ LoopInv
  BY DEF Inv
\* Where nothing more is owed, and no PRDY event is at the head of the list.
<1>1. ASSUME prdy' \in Nat, fd'["PRDY_N"] = "both" => ~ Waiting', ~ Handled',
             ~(pc' = "event" /\ Head(todo') = "PRDY_N")
      PROVE  PrdyInv'
  BY <1>1 DEF Waiting, Handled, PrdyInv
<1>2. ASSUME UNCHANGED <<prdy, fd>>, Waiting' => Waiting, Handled' => Handled,
             pc' = "event" /\ Head(todo') = "PRDY_N"
               => "PRDY_N" \in unread' /\ "REPORT_PRDY" \in event_cfg'
      PROVE  PrdyInv'
  BY <1>0, <1>2 DEF Waiting, Handled, PrdyInv
\* The other handlers end, and with the next event it is not PRDY.
<1>3. ASSUME pc \in {"handler", "pulse"}, NextEvent
      PROVE  ~ Handled' /\ ~(pc' = "event" /\ Head(todo') = "PRDY_N")
  <2>1. /\ pc' \in {"event", "message"} /\ todo' \in Seq(Polled)
        /\ todo' = << >> <=> pc' = "message"
        /\ \A i \in 1 .. Len(todo') : todo'[i] # "PRDY_N"
    BY <1>0, <1>3, NextEventLoop
  <2>2. todo' # << >> => Head(todo') # "PRDY_N"
    BY <2>1
  <2>. QED
    BY <2>1, <2>2 DEF Waiting, Handled
<1>4. ASSUME UNCHANGED <<prdy, fd, event_cfg>>, unread' \subseteq unread,
             pc \in {"handler", "pulse"}, NextEvent
      PROVE  PrdyInv'
  <2>1. (Waiting' => Waiting) /\ (Handled' => Handled)
    BY <1>3, <1>4 DEF Waiting, Handled
  <2>. QED
    BY <1>2, <1>3, <1>4, <2>1
\* A step while the loop is at the messages.
<1>5. ASSUME UNCHANGED <<prdy, fd, event_cfg, todo>>, unread' \subseteq unread,
             pc \in {"poll", "message"}, pc' \in {"poll", "message"}
      PROVE  PrdyInv'
  <2>1. (Waiting' => Waiting) /\ (Handled' => Handled)
    BY <1>5 DEF Waiting, Handled
  <2>. QED
    BY <1>2, <1>5, <2>1
\* The report.
<1>6. ASSUME UNCHANGED <<fd, event_cfg, unread>>, Reported,
             pc \in {"handler", "pulse"}, Head(todo) = "PRDY_N", NextEvent
      PROVE  PrdyInv'
  <2>1. Handled /\ ~ Handled' /\ (Waiting' <=> Waiting)
    BY <1>3, <1>6 DEF Waiting, Handled
  <2>2. CASE fd["PRDY_N"] = "both"
    <3>1. prdy' = prdy - 1 /\ prdy \in Nat /\ prdy >= 1 /\ (Waiting => prdy >= 2)
      BY <1>0, <1>6, <2>1, <2>2 DEF Reported, PrdyInv
    <3>. QED
      BY <1>3, <1>6, <2>1, <2>2, <3>1 DEF Waiting, Handled, PrdyInv
  <2>3. CASE fd["PRDY_N"] # "both"
    BY <1>0, <1>3, <1>6, <2>3 DEF Reported, PrdyInv
  <2>. QED
    BY <2>2, <2>3
<1>7. CASE HandleGone /\ PinsGone
  <2>1. prdy' = 0 /\ unread' = {} /\ pc' = "poll"
    BY <1>7 DEF HandleGone, FreshHandle
  <2>. QED
    BY <1>1, <2>1 DEF Waiting, Handled
<1>8. CASE Poll
  <2> DEFINE s == InPollOrder(target_get_fds \cap unread)
  <2>1. /\ UNCHANGED <<prdy, fd, unread, event_cfg>> /\ todo' = s
        /\ pc' = (IF s = << >> THEN "message" ELSE "event")
    BY <1>8 DEF Poll, Proceed, handle, ghosts
  <2>2. s \in Seq(Polled) /\ \A i \in 1 .. Len(s) : s[i] \in target_get_fds \cap unread
    BY InPollOrderType
  <2> HIDE DEF s
  <2>3. s # << >> => Head(s) \in target_get_fds \cap unread
    BY <2>2
  <2>4. "PRDY_N" \in target_get_fds => "REPORT_PRDY" \in event_cfg
    BY DEF target_get_fds, Reportable
  <2>5. (Waiting' => Waiting) /\ (Handled' => Handled)
    BY <2>1 DEF Waiting, Handled
  <2>. QED
    BY <1>2, <2>1, <2>3, <2>4, <2>5
<1>9. CASE target_event
  <2>1. /\ UNCHANGED <<prdy, fd, event_cfg, todo>> /\ unread' = Read(Head(todo))
        /\ pc = "event" /\ pc' = "handler"
    BY <1>9 DEF target_event, ghosts
  <2>2. unread' \subseteq unread /\ (fd[Head(todo)] = "both" => Head(todo) \notin unread')
    BY <2>1, ReadEffect
  <2>3. CASE Head(todo) = "PRDY_N"
    <3>1. Waiting /\ ~ Handled
      BY <1>0, <2>1, <2>3 DEF PrdyInv, Waiting, Handled
    <3>2. fd["PRDY_N"] = "both" => ~ Waiting'
      BY <2>2, <2>3 DEF Waiting
    <3>. QED
      BY <1>0, <2>1, <3>1, <3>2 DEF PrdyInv
  <2>4. CASE Head(todo) # "PRDY_N"
    <3>1. ~ Handled' /\ (Waiting' => Waiting)
      BY <2>1, <2>2, <2>4 DEF Waiting, Handled
    <3>. QED
      BY <1>2, <2>1, <3>1
  <2>. QED
    BY <2>3, <2>4
<1>10. CASE XdpIgnored
  BY <1>4, <1>10 DEF XdpIgnored, handle, ghosts
<1>11. CASE on_power_event
  BY <1>4, <1>11, ReadEffect DEF on_power_event
<1>12. CASE on_platform_reset_event
  BY <1>4, <1>12, ReadEffect DEF on_platform_reset_event
<1>13. CASE on_prdy_event
  <2>1. /\ UNCHANGED <<fd, event_cfg, unread>> /\ pc = "handler" /\ Head(todo) = "PRDY_N"
        /\ \/ NextEvent /\ Reported
           \/ pc' = "pulse" /\ UNCHANGED <<todo, prdy>>
    BY <1>13 DEF on_prdy_event, handle
  <2>2. CASE pc' = "pulse" /\ UNCHANGED <<todo, prdy>>
    <3>1. (Waiting' => Waiting) /\ (Handled' => Handled)
      BY <2>1, <2>2 DEF Waiting, Handled
    <3>. QED
      BY <1>2, <2>1, <2>2, <3>1
  <2>. QED
    BY <1>6, <2>1, <2>2
<1>14. CASE PulseEnds
  <2>1. Head(todo) = "PRDY_N"
    BY <1>0, <1>14 DEF PulseEnds, LoopInv
  <2>. QED
    BY <1>6, <1>14, <2>1 DEF PulseEnds, handle
<1>15. CASE MessagesDone
  BY <1>5, <1>15 DEF MessagesDone, handle, ghosts
<1>16. CASE AgentControl
  BY <1>5, <1>16 DEF AgentControl, handle, ghosts
<1>17. CASE Initialize
  <2>1. prdy' = prdy /\ event_cfg' = event_cfg /\ ~initialized /\ pc = "message" /\ pc' = pc
    BY <1>17 DEF Initialize, initialize_ok
  <2>2. ~ Waiting' /\ ~ Handled'
    BY <1>0, <2>1 DEF Waiting, Handled, HandleInv
  <2>. QED
    BY <1>0, <1>1, <2>1, <2>2 DEF PrdyInv
<1>18. ASSUME NEW option \in Options, NEW enable \in BOOLEAN, target_write_event_config(option, enable)
       PROVE  PrdyInv'
  <2>1. /\ UNCHANGED <<fd, todo, pc>> /\ pc = "message"
        /\ event_cfg' = IF enable THEN event_cfg \cup {option} ELSE event_cfg \ {option}
        /\ IF option = "REPORT_PRDY"
           THEN unread' = Read("PRDY_N") /\ prdy' = 0
           ELSE UNCHANGED <<unread, prdy>>
    BY <1>18 DEF target_write_event_config, Command
  <2>2. CASE option = "REPORT_PRDY"
    <3>1. prdy' = 0 /\ (fd["PRDY_N"] = "both" => "PRDY_N" \notin unread')
      BY <2>1, <2>2, ReadEffect
    <3>. QED
      BY <1>1, <2>1, <3>1 DEF Waiting, Handled
  <2>3. CASE option # "REPORT_PRDY"
    <3>1. UNCHANGED <<unread, prdy>> /\ ("REPORT_PRDY" \in event_cfg' <=> "REPORT_PRDY" \in event_cfg)
      BY <2>1, <2>3
    <3>2. (Waiting' => Waiting) /\ (Handled' => Handled)
      BY <2>1, <3>1 DEF Waiting, Handled
    <3>. QED
      BY <1>2, <2>1, <3>1, <3>2
  <2>. QED
    BY <2>2, <2>3
<1>19. ASSUME NEW value \in BOOLEAN, target_write(value)
       PROVE  PrdyInv'
  BY <1>5, <1>19 DEF target_write, Command, handle, ghosts
<1>20. CASE target_write_power_button
  BY <1>5, <1>20, ReadEffect DEF target_write_power_button, Command
<1>21. ASSUME NEW p \in {"PRDY_N", "CPU_PWRGD"}, target_read(p)
       PROVE  PrdyInv'
  BY <1>5, <1>21, ReadEffect DEF target_read, Command
<1>22. ASSUME NEW p \in Polled, Edge(p)
       PROVE  PrdyInv'
  <2>1. /\ UNCHANGED <<fd, event_cfg, pc, todo>>
        /\ unread \subseteq unread' /\ unread' \subseteq unread \cup {p}
        /\ \/ p # "PRDY_N" /\ prdy' = prdy
           \/ p = "PRDY_N" /\ prdy' = IF "REPORT_PRDY" \in event_cfg THEN prdy + 1 ELSE prdy
    BY <1>22 DEF Edge, loop
  <2>2. Handled' <=> Handled
    BY <2>1 DEF Waiting, Handled
  <2>3. CASE p # "PRDY_N" \/ "REPORT_PRDY" \notin event_cfg
    <3>1. Waiting' => Waiting
      BY <2>1, <2>3 DEF Waiting, Handled
    <3>. QED
      BY <1>0, <1>2, <2>1, <2>2, <2>3, <3>1 DEF Waiting, Handled, PrdyInv
  <2>4. CASE p = "PRDY_N" /\ "REPORT_PRDY" \in event_cfg
    <3>1. prdy' = prdy + 1
      BY <2>1, <2>4
    <3>. QED
      BY <1>0, <2>1, <2>2, <3>1 DEF PrdyInv, Waiting
  <2>. QED
    BY <2>3, <2>4
<1>. QED
  BY <1>7, <1>8, <1>9, <1>10, <1>11, <1>12, <1>13, <1>14, <1>15, <1>16, <1>17, <1>18, <1>19,
     <1>20, <1>21, <1>22, NextCases

-------------------------------------------------------------------------------
(* The theorems.                                                               *)

\* The invariant holds at first.
LEMMA InvInit == Init => Inv
<1>. SUFFICES ASSUME Init PROVE Inv
  OBVIOUS
<1>1. PinInv
  BY DEF Init, PinInv, PinsReleased
<1>2. HandleInv
  BY DEF Init, HandleInv
<1>3. LoopInv
  <2>1. << >> \in Seq(Polled) /\ Len(<< >>) = 0 /\ 2 .. 0 = {}
    OBVIOUS
  <2>2. todo = << >> /\ pc = "poll" /\ ctl = FALSE
    BY DEF Init
  <2>3. todo \in Seq(Polled) /\ Len(todo) = 0
    BY <2>1, <2>2
  <2>4. Len(todo) =< 4 /\ \A i \in 2 .. Len(todo) : todo[i] # "PRDY_N"
    BY <2>1, <2>3
  <2>. QED
    BY <2>2, <2>3, <2>4 DEF LoopInv
<1>4. BudgetInv
  BY DEF Init, BudgetInv
<1>5. ToldInv
  BY DEF Init, ToldInv, LevelKnown
<1>6. PrdyInv
  BY DEF Init, PrdyInv, Waiting, Handled
<1>. QED
  BY <1>1, <1>2, <1>3, <1>4, <1>5, <1>6 DEF Inv

\* The invariant is inductive.
LEMMA InvNext == Inv /\ [Next]_vars => Inv'
<1>1. ASSUME Inv, Next PROVE Inv'
  BY <1>1, PinStep, HandleStep, LoopStep, BudgetStep, ToldStep, PrdyStep DEF Inv
<1>2. ASSUME Inv, UNCHANGED vars PROVE Inv'
  <2>1. UNCHANGED <<fd, unread, initialized, event_cfg, level, exported, driven, ctl, pc, todo,
                    budget, told, prdy, left, xdp_fail_enable>>
    BY <1>2 DEF vars, handle, pins, loop, ghosts
  <2>2. PinInv'
    BY <1>2, <2>1 DEF Inv, PinInv, PinsReleased
  <2>3. HandleInv'
    BY <1>2, <2>1 DEF Inv, HandleInv
  <2>4. LoopInv'
    BY <1>2, <2>1 DEF Inv, LoopInv
  <2>5. BudgetInv'
    BY <1>2, <2>1 DEF Inv, BudgetInv
  <2>6. ToldInv'
    BY <1>2, <2>1 DEF Inv, ToldInv, LevelKnown
  <2>7. PrdyInv'
    BY <1>2, <2>1 DEF Inv, PrdyInv, Waiting, Handled
  <2>. QED
    BY <2>2, <2>3, <2>4, <2>5, <2>6, <2>7 DEF Inv
<1>. QED
  BY <1>1, <1>2

\* The invariant holds in every state.
LEMMA InvAlways == Spec => []Inv
BY InvInit, InvNext, PTL DEF Spec

\* An event list of Seq(Polled) that has no more than four entries is bounded
\* by the number of pins target_get_fds can list.
LEMMA TypesFollow == Inv /\ xdp_fail_enable \in BOOLEAN => TypeOK
<1>. SUFFICES ASSUME Inv, xdp_fail_enable \in BOOLEAN PROVE TypeOK
  OBVIOUS
<1>1. todo \in BoundedSeq(Polled, Cardinality(Polled))
  <2>1. Cardinality(Polled) = 4 /\ todo \in Seq(Polled) /\ Len(todo) =< 4
    BY PinsFinite DEF Inv, LoopInv
  <2>2. Len(todo) \in Nat
    BY <2>1
  <2>3. todo \in [1 .. Len(todo) -> Polled]
    BY <2>1
  <2>4. Len(todo) \in 0 .. Cardinality(Polled)
    <3>1. \A n \in Nat : n =< 4 => n \in 0 .. 4
      OBVIOUS
    <3>. QED
      BY <2>1, <2>2, <3>1
  <2>. QED
    BY <2>3, <2>4 DEF BoundedSeq, SeqOf
<1>. QED
  BY <1>1 DEF Inv, PinInv, HandleInv, LoopInv, BudgetInv, ToldInv, PrdyInv, TypeOK

\* Type correctness for every set of wired pins and every bound: a handle that
\* is not initialised has no option and no descriptor, no more pins wait for
\* their event than target_get_fds can list, and the budget is never overdrawn.
THEOREM TargetTypeOK == Spec => []TypeOK
<1>1. Init => xdp_fail_enable \in BOOLEAN
  BY DEF Init
<1>2. xdp_fail_enable \in BOOLEAN /\ [Next]_vars => (xdp_fail_enable \in BOOLEAN)'
  BY DEF Next, vars
<1>. QED
  BY <1>1, <1>2, InvAlways, TypesFollow, PTL DEF Spec

\* Whatever fails while the pins are taken or given back, and wherever the
\* session ends, without an initialised handle the daemon drives only the pins
\* that it could not make inputs and those of a daemon that was killed.
THEOREM TargetPinsReleased == Spec => []PinsReleased
<1>1. Inv => PinsReleased
  BY DEF Inv, PinInv
<1>. QED
  BY <1>1, InvAlways, PTL

\* Edges may come at any moment: with no event unread or in its handler, the
\* client was last told what the pin carries, or nothing.
THEOREM TargetLevelKnown == Spec => []LevelKnown
<1>1. Inv => LevelKnown
  BY DEF Inv, ToldInv
<1>. QED
  BY <1>1, InvAlways, PTL

\* No pulse of PRDY is reported twice, and none that came before the client
\* wrote REPORT_PRDY, for any number of pulses.
THEOREM TargetPrdyReportedOnce == Spec => []PrdyReportedOnce
<1>1. Inv => PrdyReportedOnce
  BY DEF Inv, PrdyInv, PrdyReportedOnce
<1>. QED
  BY <1>1, InvAlways, PTL
===============================================================================
