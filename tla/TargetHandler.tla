---------------------------- MODULE TargetHandler ----------------------------
(***************************************************************************)
(* The pins of the target (target_handler.c and gpio.c, SPX_BMC build) and *)
(* the part of the server loop that uses them: target_get_fds and poll(),  *)
(* then the events of the pins poll() reported, then the commands of the   *)
(* client. The target moves its pins between any two steps.                *)
(*                                                                         *)
(* Values are logical: TRUE is asserted (the configuration library gives   *)
(* polarity, edges and an initial level that is deasserted for outputs).   *)
(* The client is a party of one: its session is the subject of AsdServer.  *)
(***************************************************************************)
EXTENDS Integers, Sequences, FiniteSets, SequencesExt

CONSTANTS
    Wired,             \* the pins of type PIN_GPIO; the others are PIN_NONE
    MAX_EDGES,         \* bound on the edges the target makes
    MAX_FAULTS         \* bound on failing GPIO calls, and on kills of the daemon

\* In the order of Target_Control_GPIOS, which is that of initialize_gpios.
\* TCK_MUX_SEL, SYSPWROK and PWR_DEBUG_N are outputs like PREQ_N.
Gpios == <<"PREQ_N", "PRDY_N", "CPU_PWRGD", "PLTRST_B", "DEBUG_EN_N", "XDP_PRST_IN">>
Pins == ToSet(Gpios)
Outputs == {"PREQ_N", "DEBUG_EN_N"}

\* The pins target_get_fds can list.
Polled == {"PRDY_N", "PLTRST_B", "CPU_PWRGD", "XDP_PRST_IN"}
\* The pins whose events tell the client a level.
Levels == {"PLTRST_B", "CPU_PWRGD"}

ASSUME TargetHandlerAssumption ==
    /\ Wired \subseteq Pins
    /\ MAX_EDGES \in Nat /\ MAX_FAULTS \in Nat

VARIABLES
    level,         \* what every pin carries
    exported,      \* the pins sysfs has a directory for
    driven,        \* the exported pins that are outputs
    fd,            \* per pin: "none", open read-write or open write-only
    unread,        \* polled pins with an event that was not read through fd
    initialized,
    event_cfg,     \* the options that are set
    xdp_fail_enable,   \* option of the daemon: an XDP probe ends the session
    ctl,           \* whether the last message was an AGENT_CONTROL one
    pc,            \* where the loop is
    todo,          \* pins poll() reported whose event is still to be handled
    budget,        \* edges, faults still to come
    told,          \* history: per level pin, the level last told to the client, if any
    prdy,          \* history: pulses of PRDY less reports, since REPORT_PRDY
    left           \* history: outputs that a failed call or a kill left driven

handle == <<fd, unread, initialized, event_cfg>>
pins   == <<level, exported, driven>>
loop   == <<ctl, pc, todo>>
ghosts == <<told, prdy, left>>
vars   == <<handle, pins, loop, budget, ghosts, xdp_fail_enable>>

Options == {"BREAK_ALL", "RESET_BREAK", "REPORT_PRDY"}

\* Mutant: the options of the previous client survive.
FreshHandle_keeps_options ==
    /\ fd' = [p \in Pins |-> "none"] /\ unread' = {}
    /\ initialized' = FALSE /\ UNCHANGED event_cfg
    /\ ctl' = FALSE
    /\ told' = [p \in Levels |-> {}] /\ prdy' = 0
\* A handle as TargetHandler() returns it.
FreshHandle ==
    /\ fd' = [p \in Pins |-> "none"] /\ unread' = {}
    /\ initialized' = FALSE /\ event_cfg' = {}
    /\ ctl' = FALSE
    /\ told' = [p \in Levels |-> {}] /\ prdy' = 0

Init ==
    /\ level \in [Pins -> BOOLEAN] /\ \A p \in Outputs \cup {"PRDY_N"} : ~level[p]
    /\ exported = {} /\ driven = {}
    /\ fd = [p \in Pins |-> "none"] /\ unread = {}
    /\ initialized = FALSE /\ event_cfg = {} /\ xdp_fail_enable \in BOOLEAN
    /\ ctl = FALSE /\ pc = "poll" /\ todo = << >>
    /\ budget = [edges |-> MAX_EDGES, faults |-> MAX_FAULTS]
    /\ told = [p \in Levels |-> {}] /\ prdy = 0 /\ left = {}

Faults(n) == /\ n <= budget.faults
             /\ budget' = [budget EXCEPT !.faults = @ - n]

----------------------------------------------------------------------------
(* gpio.c: the calls on one pin.                                           *)

\* gpio_export opens the value of a pin that is exported already for writing
\* only; the others it exports and opens for both.
gpio_export(p) == IF p \in exported THEN "write" ELSE "both"

\* What a read through the descriptor can return: it fails on one that is
\* write-only, unnoticed, and the value is that of an uninitialised variable.
\* The read of a pin that is not wired leaves its caller's variable as it was.
gpio_get_value(p) == IF fd[p] = "both" THEN {level[p]} ELSE BOOLEAN

\* The events left when a pin has been read.
Read(p) == IF fd[p] = "both" THEN unread \ {p} ELSE unread

\* write_pin_value answers ST_OK and does nothing for a pin that is not wired.
write_pin_value(p, value) ==
    level' = IF p \in Wired THEN [level EXCEPT ![p] = value] ELSE level

----------------------------------------------------------------------------
(* Taking the pins and giving them back.                                   *)

\* Mutant: deinitialize_gpios stops at the first pin that fails.
Releasable_stops(exp, stuck) ==
    {p \in Wired \cap exp : \A i, j \in DOMAIN Gpios : (Gpios[i] = p /\ Gpios[j] \in stuck) => i < j}
\* deinitialize_gpios goes on over failures: stuck pins cannot be made inputs,
\* kept ones cannot be unexported. A pin that is not exported has no direction
\* to set. An output made an input is pulled to deasserted by the board, and
\* deasserted is the level at which initialize_gpio makes one (of set) an output.
Releasable(exp, stuck) == (Wired \cap exp) \ stuck

deinitialize_gpios(exp, set, stuck, kept) ==
    LET released == Releasable(exp, stuck)
    IN  /\ exported' = exp \ (Wired \ kept)
        /\ driven' = (driven \cup set) \ released
        /\ level' = [p \in Pins |-> level[p] /\ p \notin set \cup (Outputs \cap released)]
        /\ left' = (left \cup stuck) \cap ((driven \cup set) \ released)

\* asd_msg_free: target_deinitialize, which refuses a handle that was never
\* initialised, and the handle is gone.
target_deinitialize ==
    \E stuck \in SUBSET (Wired \cap Outputs), kept \in SUBSET Wired :
        /\ Faults(Cardinality(stuck) + Cardinality(kept))
        /\ initialized \/ stuck \cup kept = {}
        /\ IF initialized
           THEN deinitialize_gpios(exported, {}, stuck, kept)
           ELSE UNCHANGED <<pins, left>>
        /\ FreshHandle

\* The pins initialize_gpios has exported after n of them, and the wired one
\* among the first n.
First(n) == Wired \cap {Gpios[i] : i \in 1..n}

\* What initialize_gpios and the read of the XDP pin find. The events that an
\* open descriptor shows at first are read away, where reading works.
opened == [p \in Pins |-> IF p \in Wired THEN gpio_export(p) ELSE "none"]
xdp_values == CASE "XDP_PRST_IN" \notin Wired -> {FALSE}
                [] opened["XDP_PRST_IN"] = "both" -> {level["XDP_PRST_IN"]}
                [] OTHER -> BOOLEAN

initialize_ok ==
    /\ \E xdp \in xdp_values : ~(xdp /\ xdp_fail_enable)
    /\ initialized' = TRUE
    /\ fd' = opened
    /\ unread' = {p \in Polled : opened[p] = "write"}
    /\ exported' = exported \cup Wired
    /\ driven' = driven \cup (Wired \cap Outputs)
    /\ level' = [p \in Pins |-> IF p \in Wired \cap Outputs THEN p = "DEBUG_EN_N" ELSE level[p]]
    /\ left' = left \ Wired
    /\ UNCHANGED <<event_cfg, budget, told, prdy>>

\* It fails at a pin, of which it may have set the direction already; or all
\* are initialised and XDP is present, or DEBUG_EN_N cannot be written. The
\* answer ends the connection, and with it the handle.
initialize_failed(stuck, kept) ==
    \E n \in 0..Len(Gpios), m \in {0, 1} :
        /\ m <= n
        /\ IF n = Len(Gpios) /\ m = 0
           THEN \/ xdp_fail_enable /\ TRUE \in xdp_values /\ Faults(Cardinality(stuck) + Cardinality(kept))
                \/ "DEBUG_EN_N" \in Wired /\ Faults(1 + Cardinality(stuck) + Cardinality(kept))
           ELSE Faults(1 + Cardinality(stuck) + Cardinality(kept))
        /\ deinitialize_gpios(exported \cup First(n), First(n - m) \cap Outputs, stuck, kept)
        /\ FreshHandle

target_initialize ==
    /\ pc = "message" /\ ~initialized
    /\ \/ initialize_ok /\ ctl' = FALSE /\ UNCHANGED <<pc, todo>>
       \/ /\ \E stuck \in SUBSET (Wired \cap Outputs), kept \in SUBSET Wired :
                initialize_failed(stuck, kept)
          /\ pc' = "poll" /\ UNCHANGED todo

\* The daemon is killed and started again: sysfs and the pins stay as they are.
Killed ==
    /\ Faults(1) /\ FreshHandle
    /\ pc' = "poll" /\ todo' = << >>
    /\ left' = left \cup driven
    /\ UNCHANGED pins

----------------------------------------------------------------------------
(* The loop: poll(), the events of the pins.                               *)

\* Mutant: PLTRST_B is polled only under REPORT_PLTRST.
Reportable_as_configured(p) ==
    /\ fd[p] # "none"
    /\ p = "PRDY_N" => "REPORT_PRDY" \in event_cfg
    /\ p = "PLTRST_B" => "REPORT_PLTRST" \in event_cfg
\* target_get_fds, which is not asked while the last message is an
\* AGENT_CONTROL one. REPORT_PLTRST and REPORT_MBP are stored and never read.
Reportable(p) == fd[p] # "none" /\ (p = "PRDY_N" => "REPORT_PRDY" \in event_cfg)

target_get_fds == IF initialized /\ ~ctl THEN {p \in Polled : Reportable(p)} ELSE {}

\* The pins of a set in the order of the tests of target_get_fds.
InPollOrder(S) ==
    LET entry(p) == IF p \in S THEN <<p>> ELSE << >>
    IN  entry("PRDY_N") \o entry("PLTRST_B") \o entry("CPU_PWRGD") \o entry("XDP_PRST_IN")

\* The events of the pins come before the messages of the client.
Proceed(pending) ==
    /\ todo' = pending
    /\ pc' = IF pending = << >> THEN "message" ELSE "event"

Poll ==
    /\ pc = "poll"
    /\ Proceed(InPollOrder(target_get_fds \cap unread))
    /\ UNCHANGED <<handle, pins, ctl, budget, ghosts>>

\* target_event reads the pin to clear the event, then calls its handler.
target_event ==
    /\ pc = "event"
    /\ unread' = Read(Head(todo))
    /\ pc' = "handler"
    /\ UNCHANGED <<fd, initialized, event_cfg, pins, ctl, todo, budget, ghosts>>

NextEvent == Proceed(Tail(todo))

\* process_all_gpio_events stops and close_connection frees the context.
Close == target_deinitialize /\ pc' = "poll" /\ todo' = << >>

\* A handler cannot write its pin, or send_pin_event fails.
EventFails ==
    /\ pc = "pulse" \/ (pc = "handler" /\ Head(todo) # "XDP_PRST_IN")
    /\ Close

on_xdp_present_event ==
    /\ pc = "handler" /\ Head(todo) = "XDP_PRST_IN"
    /\ IF xdp_fail_enable
       THEN Close
       ELSE NextEvent /\ UNCHANGED <<handle, pins, ctl, budget, ghosts>>

\* Mutant: an event is taken for a change of what was told last.
on_power_event_toggles ==
    /\ pc = "handler" /\ Head(todo) = "CPU_PWRGD"
    /\ told' = [told EXCEPT !["CPU_PWRGD"] = IF @ = {} THEN {level["CPU_PWRGD"]} ELSE BOOLEAN \ @]
    /\ unread' = Read("CPU_PWRGD")
    /\ NextEvent
    /\ UNCHANGED <<fd, initialized, event_cfg, pins, ctl, budget, prdy, left>>
\* The pin is read again, and the client is told what this read returned.
on_power_event ==
    /\ pc = "handler" /\ Head(todo) = "CPU_PWRGD"
    /\ \E value \in gpio_get_value("CPU_PWRGD") : told' = [told EXCEPT !["CPU_PWRGD"] = {value}]
    /\ unread' = Read("CPU_PWRGD")
    /\ NextEvent
    /\ UNCHANGED <<fd, initialized, event_cfg, pins, ctl, budget, prdy, left>>

on_platform_reset_event ==
    /\ pc = "handler" /\ Head(todo) = "PLTRST_B"
    /\ \E value \in gpio_get_value("PLTRST_B") :
        /\ told' = [told EXCEPT !["PLTRST_B"] = {value}]
        /\ IF ~value /\ "RESET_BREAK" \in event_cfg
           THEN write_pin_value("PREQ_N", TRUE)
           ELSE UNCHANGED level
    /\ unread' = Read("PLTRST_B")
    /\ NextEvent
    /\ UNCHANGED <<fd, initialized, event_cfg, exported, driven, ctl, budget, prdy, left>>

\* A PRDY event is sent. Through a write-only descriptor every poll() has one.
Reported == prdy' = IF fd["PRDY_N"] = "both" THEN prdy - 1 ELSE prdy

\* Every PRDY is answered with PREQ under BREAK_ALL: held with RESET_BREAK,
\* otherwise for 10 ms. The event is sent when the handler is done.
on_prdy_event ==
    /\ pc = "handler" /\ Head(todo) = "PRDY_N"
    /\ IF "BREAK_ALL" \in event_cfg THEN write_pin_value("PREQ_N", TRUE) ELSE UNCHANGED level
    /\ IF "BREAK_ALL" \in event_cfg /\ "RESET_BREAK" \notin event_cfg
       THEN pc' = "pulse" /\ UNCHANGED <<todo, prdy>>
       ELSE NextEvent /\ Reported
    /\ UNCHANGED <<handle, exported, driven, ctl, budget, told, left>>

PulseEnds ==
    /\ pc = "pulse"
    /\ write_pin_value("PREQ_N", FALSE)
    /\ NextEvent /\ Reported
    /\ UNCHANGED <<handle, exported, driven, ctl, budget, told, left>>

----------------------------------------------------------------------------
(* The messages of the client. target_wait_PRDY and target_wait_sync only  *)
(* wait: the first polls PRDY and leaves its event unread.                 *)

Command == pc = "message" /\ initialized /\ ctl' = FALSE

\* Mutant: an outstanding PRDY is not read away.
target_write_event_config_unread(option, enable) ==
    /\ Command
    /\ event_cfg' = IF enable THEN event_cfg \cup {option} ELSE event_cfg \ {option}
    /\ prdy' = IF option = "REPORT_PRDY" THEN 0 ELSE prdy
    /\ UNCHANGED <<fd, unread, initialized, pins, pc, todo, budget, told, left>>
target_write_event_config(option, enable) ==
    /\ Command
    /\ event_cfg' = IF enable THEN event_cfg \cup {option} ELSE event_cfg \ {option}
    /\ IF option = "REPORT_PRDY"
       THEN unread' = Read("PRDY_N") /\ prdy' = 0
       ELSE UNCHANGED <<unread, prdy>>
    /\ UNCHANGED <<fd, initialized, pins, pc, todo, budget, told, left>>

\* WRITE_PINS of PREQ; the other outputs are alike.
target_write(value) ==
    /\ Command
    /\ write_pin_value("PREQ_N", value)
    /\ UNCHANGED <<handle, exported, driven, pc, todo, budget, ghosts>>

\* WRITE_PINS of the power button reads CPU_PWRGD: an event that was pending
\* is cleared, and the client is not told of it.
target_write_power_button ==
    /\ Command
    /\ unread' = Read("CPU_PWRGD")
    /\ told' = IF unread' # unread THEN [told EXCEPT !["CPU_PWRGD"] = {}] ELSE told
    /\ UNCHANGED <<fd, initialized, event_cfg, pins, pc, todo, budget, prdy, left>>

\* READ_STATUS without the IPMI interface: the read clears a pending event.
target_read(p) ==
    /\ Command
    /\ unread' = Read(p)
    /\ IF p \in Levels
       THEN \E value \in gpio_get_value(p) : told' = [told EXCEPT ![p] = {value}]
       ELSE UNCHANGED told
    /\ UNCHANGED <<fd, initialized, event_cfg, pins, pc, todo, budget, prdy, left>>

AgentControl ==
    /\ pc = "message" /\ ctl' = TRUE
    /\ UNCHANGED <<handle, pins, pc, todo, budget, ghosts>>

Disconnect ==
    /\ pc = "message" /\ target_deinitialize
    /\ pc' = "poll" /\ UNCHANGED todo

MessagesDone ==
    /\ pc = "message" /\ pc' = "poll"
    /\ UNCHANGED <<handle, pins, ctl, todo, budget, ghosts>>

\* The target: an edge of a level or of XDP, a pulse of PRDY.
Edge(p) ==
    /\ budget.edges > 0 /\ budget' = [budget EXCEPT !.edges = @ - 1]
    /\ IF p = "PRDY_N"
       THEN prdy' = (IF "REPORT_PRDY" \in event_cfg THEN prdy + 1 ELSE prdy) /\ UNCHANGED level
       ELSE level' = [level EXCEPT ![p] = ~@] /\ UNCHANGED prdy
    /\ unread' = IF fd[p] # "none" THEN unread \cup {p} ELSE unread
    /\ UNCHANGED <<fd, initialized, event_cfg, exported, driven, loop, told, left>>

\* What the loop does on its own.
Loop ==
    \/ Poll \/ target_event
    \/ on_power_event \/ on_platform_reset_event \/ on_prdy_event \/ PulseEnds
    \/ on_xdp_present_event
    \/ MessagesDone

Next ==
    /\ UNCHANGED xdp_fail_enable
    /\ \/ Loop \/ EventFails
       \/ target_initialize \/ AgentControl \/ Disconnect
       \/ \E option \in Options, enable \in BOOLEAN : target_write_event_config(option, enable)
       \/ \E value \in BOOLEAN : target_write(value)
       \/ target_write_power_button
       \/ \E p \in {"PRDY_N", "CPU_PWRGD"} : target_read(p)
       \/ \E p \in Polled : Edge(p)
       \/ Killed

\* The loop is one thread that never blocks on the client: poll() returns at an
\* event, and the messages of a round end.
Spec == Init /\ [][Next]_vars /\ WF_vars(Loop /\ UNCHANGED xdp_fail_enable)

----------------------------------------------------------------------------

\* Type correctness; a handle that is not initialised has no option set and no
\* descriptor, and pins wait for their event only in the event phase of a round.
TypeOK ==
    /\ level \in [Pins -> BOOLEAN]
    /\ exported \subseteq Wired /\ driven \subseteq Wired \cap Outputs /\ left \subseteq driven
    /\ fd \in [Pins -> {"none", "both", "write"}]
    /\ unread \subseteq {p \in Polled : fd[p] # "none"}
    /\ initialized \in BOOLEAN /\ (initialized \/ (event_cfg = {} /\ \A p \in Pins : fd[p] = "none"))
    /\ event_cfg \subseteq Options /\ xdp_fail_enable \in BOOLEAN
    /\ ctl \in BOOLEAN /\ pc \in {"poll", "event", "handler", "pulse", "message"}
    /\ todo \in BoundedSeq(Polled, Cardinality(Polled)) /\ (todo = << >> <=> pc \in {"poll", "message"})
    /\ budget \in [edges : 0..MAX_EDGES, faults : 0..MAX_FAULTS]
    /\ told \in [Levels -> SUBSET BOOLEAN] /\ prdy \in Int

\* When no handle is initialised the daemon drives no pin of the target: not
\* after a disconnect, and not after an initialisation that failed half way
\* (target_initialize, deinitialize_gpios). Exceptions are a pin whose own
\* direction could not be set and the pins of a daemon that was killed.
PinsReleased == ~initialized => driven \subseteq left

\* An edge is never lost between poll(), the read that clears the event and the
\* read of the handler: as soon as no event of the pin is unread or in its
\* handler, what the client was last told of power and reset is what the pin
\* carries.
LevelKnown ==
    \A p \in Levels :
        /\ initialized /\ fd[p] = "both"
        /\ p \notin unread /\ ~(pc = "handler" /\ Head(todo) = p)
        => told[p] \subseteq {level[p]}

\* Every PRDY event the client gets is about a pulse of its own that came after
\* the client last wrote REPORT_PRDY ("do a read to ensure no outstanding prdys
\* are present"), whatever poll() had seen before (a descriptor that can be read).
PrdyReportedOnce == prdy >= 0

\* With RESET_BREAK, a target that leaves reset and stays out of it gets PREQ
\* asserted, whatever else happens on the pins, as long as the client stays and
\* its last message is not an AGENT_CONTROL one (on_platform_reset_event).
ResetBreakAsserts ==
    /\ initialized /\ fd["PLTRST_B"] = "both" /\ "PREQ_N" \in Wired
    /\ "RESET_BREAK" \in event_cfg
    /\ "PLTRST_B" \in unread /\ ~level["PLTRST_B"]
    ~> \/ level["PREQ_N"] \/ level["PLTRST_B"]
       \/ ~initialized \/ "RESET_BREAK" \notin event_cfg \/ ctl
=============================================================================
