------------------------------- MODULE AsdI2c -------------------------------
(***************************************************************************)
(* I2C and I3C messages of the ASD daemon: how a message takes the lock of *)
(* a bus, selects another one, queues reads and writes, flushes them to    *)
(* the driver and gives the lock back (process_message and                 *)
(* process_i2c_messages in asd_msg.c, i2c_handler.c, i3c_handler.c).       *)
(*                                                                         *)
(* Other programs of the BMC use the same buses and protect each transfer  *)
(* with the same advisory locks, flock() on the device files: one file for *)
(* an I2C bus, i3C_MAX_DEV_HANDLERS files for an I3C bus, which            *)
(* i3c_bus_flock locks one after the other.  They run between any two      *)
(* steps of the daemon, and any flock() may fail.  A message arrives       *)
(* command by command here: the bytes behind a command are not looked at   *)
(* before it is done, so nothing is lost by choosing the next one late.    *)
(***************************************************************************)
EXTENDS Naturals

CONSTANTS Buses,          \* bus_config_map: the buses given to -i and -c
          BusTypes,       \* what bus_config_type may be
          OTHER_BUS,      \* a bus number that is not in the map
          DEFAULT_BUS,    \* the first bus of the list given to -i or -c
          i3C_MAX_DEV_HANDLERS,  \* the device files of an I3C bus
          MAX_COMMANDS    \* bound: commands in one message

\* UNINITIALIZED_I2C_DRIVER_HANDLE, UNINITIALIZED_I3C_DRIVER_HANDLE.
NO_HANDLE == "no handle"
\* The value i3c_initialize gives to i3c_bus.
I3C_BUS_ADDRESS_RESERVED == "reserved"

HandlerTypes == {"BUS_CONFIG_I2C", "BUS_CONFIG_I3C"}

ASSUME BusesAssumption ==
    /\ BusTypes \subseteq [Buses -> HandlerTypes]
    /\ OTHER_BUS \notin Buses
    /\ DEFAULT_BUS \in Buses
    /\ {OTHER_BUS, NO_HANDLE, I3C_BUS_ADDRESS_RESERVED} \cap Buses = {}

ASSUME FilesAssumption == i3C_MAX_DEV_HANDLERS \in Nat \ {0}

ASSUME MaxCommandsAssumption == MAX_COMMANDS \in Nat \ {0}

VARIABLES
    bus_config_type,  \* the configuration, fixed when the daemon starts
    dev,          \* the two handlers, buscfg->default_bus, and the locks
    initialized,  \* state->handlers_initialized
    pc,           \* where process_message is
    msg,          \* the locals of process_i2c_messages
    selected,     \* history: the bus of the last select answered ST_OK
    failed        \* history: what flock() failed at and left undone

vars == <<bus_config_type, dev, initialized, pc, msg, selected, failed>>

Files == 0 .. i3C_MAX_DEV_HANDLERS - 1
Owners == {"free", "asd", "other"}

Handler == [bus : Buses \cup {OTHER_BUS, I3C_BUS_ADDRESS_RESERVED},
            handle : Buses \cup {NO_HANDLE}]
Dev == [handler : [HandlerTypes -> Handler],
        default_bus : Buses,
        lock : [Buses -> [Files -> Owners]]]
Msg == [n : 0 .. MAX_COMMANDS,        \* commands taken from the packet
        last : BOOLEAN,               \* packet.used = packet.total
        queued : 0 .. MAX_COMMANDS,   \* nmsgs of the builder
        pending : BOOLEAN,            \* i2c_command_pending
        stop : BOOLEAN,               \* force_stop
        file : Files,                 \* the next device file to lock
        bus : Buses \cup {OTHER_BUS}, \* the bus being selected
        switched : BOOLEAN]           \* history: a select left the first bus

(***************************************************************************)
(* The handlers.                                                           *)
(***************************************************************************)
i2c_enabled == \E b \in Buses : bus_config_type[b] = "BUS_CONFIG_I2C"
i3c_enabled == \E b \in Buses : bus_config_type[b] = "BUS_CONFIG_I3C"

\* Mutant: a bus that is not in the map is taken for an I2C bus.
bus_type_unlisted(b) ==
    IF b \in Buses THEN bus_config_type[b] ELSE "BUS_CONFIG_I2C"

bus_type(b) ==
    IF b \in Buses THEN bus_config_type[b] ELSE "BUS_CONFIG_NOT_ALLOWED"

\* What opening the device files of a bus comes to.  The eight files of an
\* I3C bus are opened one after the other; one that fails closes them all.
OpenOutcomes(t) ==
    IF t = "BUS_CONFIG_I3C" THEN {"opened", "failed", "partial"}
    ELSE {"opened", "failed"}

\* The locks when owner takes, or gives back, those of some files of a bus.
LockAfter(d, bus, files, owner) ==
    [b \in Buses |-> [f \in Files |->
        IF b = bus /\ f \in files /\ d.lock[b][f] # "other" THEN owner
        ELSE d.lock[b][f]]]

\* close() drops the locks held through the handle.
close_driver(d, t) ==
    [d EXCEPT !.lock = LockAfter(d, d.handler[t].handle, Files, "free"),
              !.handler[t].handle = NO_HANDLE]

\* Mutant: the handler does not note the bus it has opened.
open_driver_unnoted(d, t, b, outcome) ==
    IF outcome = "opened"
    THEN [d EXCEPT !.handler[t].handle = b, !.default_bus = b] ELSE d

open_driver(d, t, b, outcome) ==
    CASE outcome = "opened"  ->
            [d EXCEPT !.handler[t] = [bus |-> b, handle |-> b], !.default_bus = b]
      [] outcome = "partial" ->
            [d EXCEPT !.handler[t].bus = b, !.default_bus = b]
      [] outcome = "failed"  -> d

bus_allowed(t, b) == bus_type(b) = t

bus_select(d, t, b, outcome) ==
    IF b = d.handler[t].bus \/ ~ bus_allowed(t, b) THEN d
    ELSE open_driver(close_driver(d, t), t, b, outcome)

bus_select_ok(d, t, b, outcome) ==
    \/ b = d.handler[t].bus
    \/ bus_allowed(t, b) /\ outcome = "opened"

\* i3c_bus_flock opens the bus first if none has been selected since
\* i3c_initialize; i2c_bus_flock does not.
Opened(d, b, outcome) ==
    IF /\ bus_type(b) = "BUS_CONFIG_I3C"
       /\ d.handler["BUS_CONFIG_I3C"].bus = I3C_BUS_ADDRESS_RESERVED
    THEN bus_select(d, "BUS_CONFIG_I3C", b, outcome) ELSE d

\* The bus whose device files dev_flock(b) locks: the one the handler has
\* open, which need not be b.
FlockBus(d, b) ==
    IF bus_type(b) \in HandlerTypes THEN d.handler[bus_type(b)].handle
    ELSE NO_HANDLE

FileCount(b) == IF bus_type(b) = "BUS_CONFIG_I3C" THEN i3C_MAX_DEV_HANDLERS ELSE 1

\* dev_flock(b) has come to some files.
dev_flock(d, b, files, owner) ==
    [d EXCEPT !.lock = LockAfter(d, FlockBus(d, b), files, owner)]

\* Mutant: of an I3C bus only the first file is unlocked.
Unlocked_first(d, b, n) == dev_flock(d, b, {0}, "free")

\* dev_flock(b, LOCK_UN) stops behind the first n files.
Unlocked(d, b, n) == dev_flock(d, b, 0 .. n - 1, "free")

\* Mutant: flock is called with LOCK_NB and its result ignored.
Blocked_never(d, b, f) == FALSE

\* flock(LOCK_EX) waits while another program has the file locked.
Blocked(d, b, f) ==
    FlockBus(d, b) # NO_HANDLE /\ d.lock[FlockBus(d, b)][f] = "other"

NoneHeld(d) == \A b \in Buses, f \in Files : d.lock[b][f] # "asd"

\* Keeps the history of what flock() failed at, until nothing is held.
Note(op, ok) ==
    failed' = IF NoneHeld(dev') THEN {} ELSE IF ok THEN failed ELSE failed \cup {op}

(***************************************************************************)
(* A message.                                                              *)
(***************************************************************************)
\* I2CHandler and I3CHandler leave the bus number uninitialised.
FreshHandlers ==
    {h \in [HandlerTypes -> Handler] :
        \A t \in HandlerTypes : h[t].handle = NO_HANDLE}

NoMessage == [n |-> 0, last |-> FALSE, queued |-> 0, pending |-> FALSE,
              stop |-> FALSE, file |-> 0, bus |-> DEFAULT_BUS, switched |-> FALSE]

Init ==
    /\ bus_config_type \in BusTypes
    /\ \E h \in FreshHandlers :
          dev = [handler |-> h, default_bus |-> DEFAULT_BUS,
                 lock |-> [b \in Buses |-> [f \in Files |-> "free"]]]
    /\ initialized = FALSE
    /\ pc = "idle"
    /\ msg = NoMessage
    /\ selected = DEFAULT_BUS
    /\ failed = {}

\* The first message of a connection sets up the handlers.  A failure of the
\* bus or of the target handler ends the connection.
InitializeHandlers(outcome, targetOk) ==
    LET t   == "BUS_CONFIG_I2C"
        i2c == IF i2c_enabled THEN bus_select(dev, t, dev.default_bus, outcome)
               ELSE dev
        ok  == i2c_enabled => bus_select_ok(dev, t, dev.default_bus, outcome)
    IN  /\ pc = "idle"
        /\ ~ initialized
        /\ dev' = IF ok /\ i3c_enabled
                  THEN [i2c EXCEPT !.handler["BUS_CONFIG_I3C"].bus =
                                        I3C_BUS_ADDRESS_RESERVED]
                  ELSE i2c
        /\ initialized' = (ok /\ targetOk)
        /\ pc' = IF ok /\ targetOk THEN "lock" ELSE "closed"
        /\ UNCHANGED <<msg, selected, failed>>

ReceiveMessage ==
    /\ pc = "idle"
    /\ initialized
    /\ pc' = "lock"
    /\ UNCHANGED <<dev, initialized, msg, selected, failed>>

\* dev_flock(default_bus, LOCK_EX) in process_message, file by file; if it
\* fails the message is answered with an error and not looked at, and the
\* files locked so far stay locked.
LockDefaultBus(opening) ==
    LET b == dev.default_bus
        d == IF msg.file = 0 THEN Opened(dev, b, opening) ELSE dev
        more == msg.file + 1 < FileCount(b)
    IN  /\ pc = "lock"
        /\ \/ /\ FlockBus(d, b) # NO_HANDLE /\ ~ Blocked(d, b, msg.file)
              /\ dev' = dev_flock(d, b, {msg.file}, "asd")
              /\ msg' = [msg EXCEPT !.file = IF more THEN @ + 1 ELSE 0]
              /\ pc' = IF more THEN "lock" ELSE "command"
              /\ UNCHANGED failed
           \/ /\ dev' = d
              /\ msg' = [msg EXCEPT !.file = 0]
              /\ pc' = "idle"
              /\ Note("LOCK_EX", FALSE)
        /\ UNCHANGED <<initialized, selected>>

\* The end of an iteration of the loop that went well.
AfterCommand(m) ==
    IF m.pending /\ (m.last \/ m.stop) THEN "flush"
    ELSE IF m.last THEN "finish" ELSE "command"

NextCommand(last) == [msg EXCEPT !.n = @ + 1, !.last = last]

InLoop(last) ==
    /\ pc = "command"
    /\ ~ msg.last
    /\ msg.n < MAX_COMMANDS
    /\ msg.n + 1 = MAX_COMMANDS => last

\* A message without commands is answered at once.
EmptyMessage ==
    /\ pc = "command"
    /\ msg.n = 0
    /\ pc' = "finish"
    /\ UNCHANGED <<dev, initialized, msg, selected, failed>>

\* I2C_WRITE_CFG_BUS_SELECT for the bus that is the default already.
SelectDefaultBus(last, outcome) ==
    LET b == dev.default_bus
        t == bus_type(b)
        m == NextCommand(last)
    IN  /\ InLoop(last)
        /\ dev' = bus_select(dev, t, b, outcome)
        /\ selected' = IF bus_select_ok(dev, t, b, outcome) THEN b ELSE selected
        /\ msg' = m
        /\ pc' = AfterCommand(m)
        /\ UNCHANGED <<initialized, failed>>

\* I2C_WRITE_CFG_BUS_SELECT for another bus: the lock is given back, ...
SelectBus(b, last, n) ==
    /\ InLoop(last)
    /\ b # dev.default_bus
    /\ dev' = Unlocked(dev, dev.default_bus, n)
    /\ msg' = [NextCommand(last) EXCEPT !.bus = b, !.switched = TRUE]
    /\ pc' = "relock"
    /\ Note("LOCK_UN", n = FileCount(dev.default_bus))
    /\ UNCHANGED <<initialized, selected>>

\* ... taken again, file by file, and then the bus is selected.  A failure of
\* either is not a failure of the message.
RelockAndSelect(opening, outcome) ==
    LET b == msg.bus
        t == bus_type(b)
        o == IF msg.file = 0 THEN Opened(dev, b, opening) ELSE dev
        d == dev_flock(o, b, {msg.file}, "asd")
        done == [msg EXCEPT !.file = 0]
    IN  /\ pc = "relock"
        /\ \/ /\ FlockBus(o, b) # NO_HANDLE /\ ~ Blocked(o, b, msg.file)
              /\ \/ /\ msg.file + 1 < FileCount(b)
                    /\ dev' = d
                    /\ msg' = [msg EXCEPT !.file = @ + 1]
                    /\ UNCHANGED <<pc, selected>>
                 \/ /\ msg.file + 1 = FileCount(b)
                    /\ dev' = bus_select(d, t, b, outcome)
                    /\ selected' = IF bus_select_ok(d, t, b, outcome) THEN b ELSE selected
                    /\ msg' = done /\ pc' = AfterCommand(done)
              /\ UNCHANGED failed
           \/ /\ dev' = o
              /\ msg' = done /\ pc' = AfterCommand(done)
              /\ failed' = failed \cup {"LOCK_EX"}
              /\ UNCHANGED selected
        /\ UNCHANGED initialized

\* The packet ends behind the command byte: not a failure of the message.
SelectShort ==
    LET m == NextCommand(TRUE)
    IN  /\ InLoop(TRUE)
        /\ msg' = m
        /\ pc' = AfterCommand(m)
        /\ UNCHANGED <<dev, initialized, selected, failed>>

\* I2C_WRITE_CFG_SCLK: both handlers accept any clock and ignore it.
SetSclk(last) ==
    LET m == NextCommand(last)
    IN  /\ InLoop(last)
        /\ msg' = m
        /\ pc' = AfterCommand(m)
        /\ UNCHANGED <<dev, initialized, selected, failed>>

\* do_read_command and do_write_command queue one transfer.
QueueReadWrite(last, stop) ==
    LET m == [NextCommand(last) EXCEPT !.queued = @ + 1, !.pending = TRUE,
                                       !.stop = stop]
    IN  /\ InLoop(last)
        /\ msg' = m
        /\ pc' = AfterCommand(m)
        /\ UNCHANGED <<dev, initialized, selected, failed>>

\* An unknown command, or a read, a write or a clock cut short by the end of
\* the packet, ends the message with an error.
CommandFails ==
    /\ InLoop(TRUE)
    /\ msg' = NextCommand(TRUE)
    /\ pc' = "unlock"
    /\ UNCHANGED <<dev, initialized, selected, failed>>

\* do_read_write, build_responses and i2c_msg_reset.  A transfer that fails
\* is answered as not acknowledged; only a response that is too long for the
\* buffer and cannot be sent ends the message.
Flush(sent) ==
    LET m == [msg EXCEPT !.queued = 0, !.pending = FALSE, !.stop = FALSE]
    IN  /\ pc = "flush"
        /\ \/ /\ sent
              /\ msg' = m
              /\ pc' = AfterCommand(m)
           \/ /\ ~ sent
              /\ msg' = [m EXCEPT !.queued = msg.queued]
              /\ pc' = "unlock"
        /\ UNCHANGED <<dev, initialized, selected, failed>>

\* send_response; a failure is logged.
Finish ==
    /\ pc = "finish"
    /\ pc' = "unlock"
    /\ UNCHANGED <<dev, initialized, msg, selected, failed>>

\* Mutant: a message whose response could not be sent keeps the lock.
UnlockDefaultBus_on_success(opening, n) ==
    /\ pc = "unlock"
    /\ dev' = IF msg.queued > 0 THEN dev
              ELSE Unlocked(Opened(dev, dev.default_bus, opening), dev.default_bus, n)
    /\ msg' = NoMessage
    /\ pc' = "idle"
    /\ Note("LOCK_UN", n = FileCount(dev.default_bus))
    /\ UNCHANGED <<initialized, selected>>

\* dev_flock(default_bus, LOCK_UN) at the end of process_message; a failure is
\* reported to the client.
UnlockDefaultBus(opening, n) ==
    /\ pc = "unlock"
    /\ dev' = Unlocked(Opened(dev, dev.default_bus, opening), dev.default_bus, n)
    /\ msg' = NoMessage
    /\ pc' = "idle"
    /\ Note("LOCK_UN", n = FileCount(dev.default_bus))
    /\ UNCHANGED <<initialized, selected>>

\* The client leaves: asd_msg_free closes both handlers, the next client gets
\* new ones.  The configuration, and so the default bus, stays as it is.
NewClient(h) ==
    /\ pc \in {"idle", "closed"}
    /\ pc' = "idle"
    /\ dev' = [close_driver(close_driver(dev, "BUS_CONFIG_I2C"),
                            "BUS_CONFIG_I3C") EXCEPT !.handler = h]
    /\ initialized' = FALSE
    /\ selected' = dev.default_bus
    /\ failed' = {}
    /\ UNCHANGED msg

(***************************************************************************)
(* The other programs (external).                                          *)
(***************************************************************************)
OtherLocks(b, f) ==
    /\ f < FileCount(b) /\ dev.lock[b][f] = "free"
    /\ dev' = [dev EXCEPT !.lock[b][f] = "other"]
    /\ UNCHANGED <<initialized, pc, msg, selected, failed>>

OtherUnlocks(b, f) ==
    /\ dev.lock[b][f] = "other"
    /\ dev' = [dev EXCEPT !.lock[b][f] = "free"]
    /\ UNCHANGED <<initialized, pc, msg, selected, failed>>

Step ==
    \/ \E o \in OpenOutcomes("BUS_CONFIG_I2C"), ok \in BOOLEAN :
          InitializeHandlers(o, ok)
    \/ ReceiveMessage
    \/ \E o \in OpenOutcomes(bus_type(dev.default_bus)) :
          \/ LockDefaultBus(o)
          \/ \E n \in 0 .. FileCount(dev.default_bus) : UnlockDefaultBus(o, n)
          \/ \E last \in BOOLEAN : SelectDefaultBus(last, o)
    \/ EmptyMessage
    \/ \E last \in BOOLEAN, b \in Buses \cup {OTHER_BUS}, n \in 0 .. FileCount(dev.default_bus) :
          SelectBus(b, last, n)
    \/ \E p, o \in OpenOutcomes(bus_type(msg.bus)) : RelockAndSelect(p, o)
    \/ SelectShort
    \/ \E last \in BOOLEAN : SetSclk(last)
    \/ \E last, stop \in BOOLEAN : QueueReadWrite(last, stop)
    \/ CommandFails
    \/ \E sent \in BOOLEAN : Flush(sent)
    \/ Finish
    \/ \E h \in FreshHandlers : NewClient(h)
    \/ \E b \in Buses, f \in Files : OtherLocks(b, f) \/ OtherUnlocks(b, f)

Next == Step /\ UNCHANGED bus_config_type

Spec == Init /\ [][Next]_vars

(***************************************************************************)
(* Properties.                                                             *)
(***************************************************************************)
\* The handlers, the locks and the message keep their types; the response
\* of a message covers no more commands than it has.
TypeOK ==
    /\ bus_config_type \in BusTypes
    /\ dev \in Dev
    /\ initialized \in BOOLEAN
    /\ pc \in {"idle", "closed", "lock", "command", "relock", "flush", "finish", "unlock"}
    /\ msg \in Msg
    /\ msg.queued =< msg.n
    /\ selected \in Buses
    /\ failed \subseteq {"LOCK_EX", "LOCK_UN"}

\* The device do_read_write would use now.
TransferBus == FlockBus(dev, dev.default_bus)

TransferBusLocked ==
    \A f \in 0 .. FileCount(TransferBus) - 1 : dev.lock[TransferBus][f] = "asd"

\* Between two messages the daemon has no file locked, however the last one
\* ended: the other programs can go on (process_message, asd_msg.c).  Only a
\* flock() that failed half way through the files of a bus leaves some locked.
IdleHoldsNothing == pc \in {"idle", "closed"} /\ failed = {} => NoneHeld(dev)

\* While the daemon waits for a file it holds only files of the same bus, and
\* only those before it, whatever selects and failed locks came before: among
\* programs that lock the files in this order none waits in a circle
\* (i3c_bus_flock and do_bus_select_command).  A failed unlock is the exception.
WaitsInOrder ==
    LET b == IF pc = "lock" THEN dev.default_bus ELSE msg.bus
    IN  pc \in {"lock", "relock"} /\ "LOCK_UN" \notin failed =>
            \A o \in OpenOutcomes(bus_type(b)) :
                LET d == IF msg.file = 0 THEN Opened(dev, b, o) ELSE dev
                IN  Blocked(d, b, msg.file) =>
                        \A x \in Buses, f \in Files : d.lock[x][f] = "asd"
                            => x = FlockBus(d, b) /\ f < msg.file

\* Reads and writes go to the bus of the last select that was answered ST_OK
\* (i2c_bus_select and default_bus against do_read_write), if any is open.
TransferOnSelectedBus ==
    pc = "flush" /\ TransferBus # NO_HANDLE => TransferBus = selected

\* A message that stays on one bus transfers with all files of that bus locked
\* (process_message and dev_flock).
TransferLockedOnFirstBus ==
    pc = "flush" /\ TransferBus # NO_HANDLE /\ ~ msg.switched
        => TransferBusLocked

\* If no flock() fails, every transfer is made with its bus locked: what the
\* comment "Release lock on previous bus and lock selected bus if required." in
\* do_bus_select_command promises.
TransferLocked ==
    pc = "flush" /\ TransferBus # NO_HANDLE /\ failed = {} => TransferBusLocked

=============================================================================
