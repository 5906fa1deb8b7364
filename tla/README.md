# A verification of the At-Scale Debug daemon

The repository is the open-source part of a BMC firmware: patches for third-party
programs, vendored libraries, kernel modules and a few programs of its own.  The
program with the most logic of its own is the At-Scale Debug (ASD) daemon in
`src/TechnologyPack/ASD/v13-update-4.00/Modified_OpenSource/jtag_intel_socket_svr-src/`
(`asd/` below).  A debugger connects over TLS, authenticates with a password and
drives JTAG, I2C, I3C and the GPIOs of the host through it.  This directory models
the daemon in TLA+, checks the models with TLC and proves with TLAPS, for all eight of
them, every safety property that TLC checks.

Tools: `tlc -config X.cfg M` for a run, `tlapm M.tla` for the proofs of a module.
`PROJECT.json` lists the components, runs, mutants, findings, hazards, theorems and
the source lines of every definition.

## 1. The system

### Components of the daemon

| component | state | operations | interacts with |
|---|---|---|---|
| Session table, `session.c` | up to 5 slots (descriptor, authenticated flag, deadline, data-pending hint), `n_authenticated_id` | open, close, close all, close expired, auth complete, get descriptors and timeout, set and get the hint | called by the loop and by the PAM handshake; closes sockets through `ext_network.c` |
| PAM authentication, `auth_pam.c` | array of the last invalid attempts, end of the lockout | one handshake per client | session table (is somebody authenticated?), PAM, the clock |
| Server loop, `asd_main.c` | the poll set, the message context `asd_msg` | poll, accept, GPIO events, expiry, one handler per readable client | everything else |
| Transports, `ext_network.c`, `ext_tls.c`, `ext_tcp.c` | what the TLS layer has read ahead | accept, receive, send, close | loop, handshake, message reader |
| Message reader, `asd_msg_read` in `asd_msg.c` | read state, index, size, the message in memory | one call per readable event | transport, message processing |
| I2C and I3C messages, `asd_msg.c`, `i2c_handler.c`, `i3c_handler.c` | two handlers (bus and device), `default_bus`, the locks on the device files, the queue of commands | initialise, lock, select, clock, read, write, flush, unlock | other programs that use the same buses |
| JTAG messages, `asd_msg.c` | packet position, lookahead, response buffer | one command after the other | JTAG handler, target handler |
| JTAG handler, `jtag_handler.c` | TAP state, scan state and padding of each chain, the active chain | set TAP state, reset, shift (software and hardware mode), wait, select a chain | JTAG kernel driver |
| JTAG kernel driver, `jtag-aspeed.c`, `jtag.h` in `jtag_intel-ARM-AST-src/` | the TAP state it assumes | set TAP state, transfer, bit banging | the TAPs of the target, which nobody can read back |
| Target handler, `target_handler.c`, `gpio.c` | pins and their descriptors, event options | take and release the pins, events, writes, reads, waits | sysfs, `poll()` in the loop, the target |

The daemon is one thread.  What makes it hard is not preemption but staleness:
`poll()` reports a set of descriptors, and between the report and its use other
handlers run, sessions expire or are closed and the kernel may hand a descriptor
number to a new client; TLS reads ahead of `poll()`; `recv()` cuts messages
anywhere; other programs lock and unlock the same buses; the target moves its pins
between `poll()` and every read of them; handler, driver and TAP each keep their own
idea of one TAP state; every operation can fail half way.

Everything else in the repository (boot loader and kernel patches, video, USB, PECI,
ipmitool, web libraries, ...) is listed in `PROJECT.json` with the reason it is not
modelled: third-party code, patches, thin command encoders, or register sequences
whose state is in the hardware.

### What makes each part correct

- Session table: at most one client owns the debug port, flag and id agree, no socket
  leaks or stays recorded after it was closed, every open session has a deadline.
- Authentication: more than the allowed number of invalid attempts within the period
  always locks out, nothing else does, nobody is accepted during a lockout, although
  the array remembers only as many attempts as the limit.
- Loop: the message context exists exactly while its client is authenticated; the
  client that is read is the one that is answered; others cannot take the port away;
  input is read, silent clients leave, waiting connections are accepted.
- Reader: the messages handled are the messages sent, in order, and reads stay inside
  the message.
- Buses: no lock is kept between messages, the files of a bus are locked in one order
  and with no other bus locked, transfers go to the selected bus and are made under its
  lock.
- JTAG messages: every command of a packet is carried out once, at its own place in the
  packet, the response fits its buffer, and the TAP of each chain is where the client's
  own commands put it, although scans look ahead and may leave Shift early.
- JTAG handler and driver: they know where the TAP is, and a register of the target is
  updated with the bits the client sent, padding included, and nothing else.
- Target handler: pins are driven only for a client, no edge is lost, no stale PRDY is
  reported, and a target that leaves reset under a reset break is stopped.

## 2. Modules

| module | models | notes |
|---|---|---|
| `SessionTable` | the functions of `session.c` as operators on the struct | no state of its own, shared by the next two |
| `Session` | the table as a state machine: every call in every order, with the clock | extends `SessionTable` |
| `DebugAccess` | abstract: clients wait, at most one owns the port, ownership ends only when the owner leaves | refined by `Session` |
| `AuthPam` | `auth_pam.c`: attempts, lockout, time | `history` is a history variable: the attempts the array stands for |
| `AsdServer` | `asd_main.c` with the session table, the transports and the context | refines `Session` |
| `AsdMsgRead` | `asd_msg_read` with the memory of `struct asd_message` | |
| `AsdI2c` | `process_message` and `process_i2c_messages` with both handlers and the locks | |
| `JtagTap` | the TAP controller and the driver's table of TMS cycles | constant operators |
| `JtagScan` | `jtag_handler.c` over `jtag-aspeed.c` over the TAPs | extends `JtagTap` |
| `JtagMessage` | `process_jtag_message`, the lookahead and the response buffer | |
| `TargetHandler` | `target_handler.c`, `gpio.c` and the part of the loop that polls the pins | |
| `SessionProofs`, `AsdServerProofs`, `AuthPamProofs`, `AsdMsgReadProofs`, `AsdI2cProofs`, `JtagMessageProofs`, `JtagScanProofs`, `TargetHandlerProofs` | the theorems about the module of that name (section 4) | each extends its module |
| `MC...` | values of the constants for TLC | |

**SessionTable, Session.**  A slot is a record with the four fields of `session_t`.
`session_find_private` is the first slot with a descriptor, as the scan in the code;
looking for `UNUSED_SOCKET_FD` finds a free slot.  A function that returns a status
has an operator `..._ok` for it.  An action is one call with the socket operation
that belongs to it: closing a slot closes its socket.  A call that fails changes
nothing and is a stutter.

**AsdServer.**  `pc` is the place in `request_processing_loop`; a step is one handler
or the part of one between two calls that can fail.  Clients, the clock and the
target act between any two steps.  `rx` is what the kernel holds, `ssl` what the TLS
layer has read ahead; only the first makes `poll()` report a descriptor.  A TLS read
blocks for at most three seconds, so silence fails a read (`ReadFails`); plain TCP
waits.  `mode` is chosen at the start from `Modes` and never changes: `"unsecure"` is the
`-u` mode (TCP, `auth_none`), where a new client is handled in the same round, and with
`"free_can_fail"` freeing the context may report an error.  The context `asd_msg` is
`NULL`, fresh, or initialised with the kind of the last message, which decides whether
its GPIOs are polled.  The loops over the table and over what `poll()` returned keep the
order of the slots (`Selected`); so does `InPollOrder` in `TargetHandler` for the pins.  Whatever
message processing does otherwise is one outcome here and is modelled on its own in the
modules for messages.

**AuthPam.**  A handshake is one action, because it runs to its end without going back
to the loop.  PAM, the random password used during a lockout, and the transport are
outcomes.

**AsdMsgRead.**  Memory is modelled by byte, because the address arithmetic is what
could be wrong: the header at 0, the buffer at 4.  `recv()` returns any non-empty
part of what it is asked for.

**AsdI2c.**  The commands of a message are chosen as they are read.  A lock belongs to
an open device file, as with `flock(2)`; closing the file drops it.  An I2C bus has one
file, an I3C bus `i3C_MAX_DEV_HANDLERS`, and `i3c_bus_flock` locks them one after the
other and waits for each: `lock[b][f]` says who has file `f` of bus `b`, and `msg.file` is
the next one to lock.  `flock()` may fail at any file; it returns at once then and leaves
locked what it has locked.  Unlocking does not wait and is one step, which may stop behind
any number of files.  `failed` remembers such failures until the daemon holds nothing.  Opening a bus may
fail; opening the eight files of an I3C bus may fail half way, after the bus has been
noted.  The bus number of a new handler is whatever `malloc` returned.  Other programs
lock and unlock any file at any time.  The bytes of a transfer and its response are
left out.

**JtagTap, JtagScan.**  A TAP is its controller state, the bits shifted in since the last
Capture and the registers it has updated.  A bit is its origin (`data`, `pad` or
`stray`), which is all that tells a wrong scan from a right one.  An action is one call
of the handler with every driver call it makes; a driver call is clocked into the TAP
cycle by cycle.  The driver sends a scan of more than 512 bits in chunks
(`jtag-aspeed.c:1159`); a scan of the daemon has at most 64 (`asd_msg.c:1600-1611`), so that
its loop runs once, and chunks are not modelled.  `tap_state` is the handler's opinion (one for each chain),
`current_state` the driver's (one for all chains), `tap` the truth.  In software mode a
scan is up to three transfers and each may fail; in hardware mode a TAP move does
nothing and the next scan starts from `current_state`.  Two history variables state the
requirement: `ideal` is a TAP that does what the client asked for, `in_step` the chains
on which the client kept to the sequences the code supports.  A chain leaves `in_step`
when a scan is left open (moved away from, reset or abandoned), when a transfer fails,
and in hardware mode when the client asks for a move that the next scan does not make
itself, ends a scan in Exit1, or changes chains while the driver is not in
Test-Logic-Reset or Run-Test/Idle; a reset with no scan open brings it back.  Section 5
says what the code does in those cases.  Assumed of the hardware: the TCK multiplexer
clocks the active chain only, the reset of the AST2600 ends in Run-Test/Idle ("x TMS high
+ 1 TMS low"), and a transfer that fails in software mode has clocked nothing (the
ioctl refuses its arguments).

**JtagMessage.**  A packet is a sequence of bytes with the values of `asd_common.h`,
because the lookahead is about taking one byte for another.  The handlers' answers are
nondeterministic.  `Starts` and `Expected` are the reference: the packet as its author
wrote it, parsed without a lookahead.  `tap_state` is the handler's state of each chain, as
its calls change it; WRITE_PINS selects a chain or writes a pin.  `AskedAt` is the reference
for it: the last TAP_STATE or TAP_RESET of the packet that was meant for the chain, taken
from `Starts` as well.

**TargetHandler.**  The model is the `SPX_BMC` build (`gpio.c` over sysfs; D-Bus and
libgpiod are not in it).  Values are logical.  `unread` are the events `poll()` would
report; reading a pin through its descriptor clears its event.  `target_event` and the
handler it calls are two steps, since both read the pin and the target may move it in
between; `on_prdy_event` is two, since PREQ is held for 10 ms.  Taking the pins may fail
at each of them, before or after its direction is set, and releasing them may fail for
any of them.  `Killed` ends the daemon at any point and starts another: sysfs stays as it
is, and `gpio_export` opens a pin that is exported already for writing only, so that
reads of it return what was on the stack.  Assumed of what is not in the repository: the
configuration library gives outputs a deasserted initial level and inputs both edges,
the board pulls a released output to deasserted, and a new sysfs descriptor is reported
by `poll()` until it is read.

Abstractions that hold everywhere: logging and formatting are left out, allocation
does not fail, and system calls other than the ones named above succeed.

## 3. Runs

| run | instance | distinct states | shows |
|---|---|---|---|
| `session` | 3 slots, 3 descriptors, timeout 2, clock to 3 | 33,632 | one owner, sockets tracked, deadlines, implements `DebugAccess` |
| `auth_pam` | limit 2, period 3, lockout 2, clock from 3 to 11, 6 attempts | 58,509 | the array of attempts is enough |
| `server` | 2 slots, 3 descriptors, 3 connections, 3 records, 1 GPIO event; TLS, and plain TCP with a context that may fail to be freed | 1,229,232, up to symmetry | context and owner agree, the port stays with its owner, implements `Session` |
| `server_live` | 2 slots, 2 descriptors, 2 connections, 3 records of one message | 151,918 | liveness |
| `msg_read` | 4 messages of 5 kinds, bodies cut anywhere, headers whole | 9,812 | framing |
| `i2c_bus` | two buses, both I2C or both I3C, 3 commands a message, two files an I3C bus, any number of messages and clients | 71,088 | locks and transfers |
| `jtag_scan` | 2 chains, 6 TAP states to ask for, scans of 1 and 2 bits, up to 4 bits a register, padding 0 and 1 | 718,343 | handler, driver and TAP agree; registers get what was sent |
| `jtag_msg` | packets of up to 3 of 15 commands, the last one whole or cut, one after another, 2 chains, response buffer of 10 bytes, both modes | 941,288 | packets, responses, and each TAP where the client's commands put it |
| `target` | all six pins, 2 edges, 1 failing call or kill | 714,164 | pins, events and the reset break, with liveness |

and three runs with an expected violation, one for each finding (section 5):
`pending_unread`, `split_header` and `i2c_unlocked`.

Why the bounds are enough.  The table needs three slots for an owner, a client that
waits and a free slot.  The server needs more connections than slots (a full table),
a descriptor that is used again, an owner whose record holds two messages and a rival
that logs in.  The attempts need a limit of two, so that an old, a new and a forgotten
attempt differ, and time for a burst, its lockout, an attempt that prolongs it and a
second burst after it.  Three commands are a select, a transfer and a second select or
an error after it; two files are the least with which the daemon waits for one while it
holds another.  Two chains are needed because the driver has one state for all of
them; the six states are a reset, the two idle points, both Shift states (a scan of
either register), a Pause and an Exit1; lengths of one and two bits are the case of the
controller's workaround and the other one; four bits hold a prefix, two pieces and a
postfix.  Three commands are a scan, the TAP state or a command behind it, and
a command whose operand looks like another one, as far as the lookahead goes; the packets
before have selected the chain and moved the TAPs; ten bytes of
response hold one 64-bit scan and nothing more.  Two edges are one in each of any two
windows between `poll()`, the clearing read and the read of the handler; one fault is
enough because `deinitialize_gpios` and `target_initialize` look at each result on its
own.  `CHECK_DEADLOCK FALSE` stands where the system stops: the daemon
has ended, or no client sends anything more.

Symmetry is used for descriptors in the server's safety runs only: the daemon compares
descriptors and nothing else.

**Fairness.**  `FairSpec` assumes that the daemon takes its next step whenever it can
(it is one thread of an operating system that schedules it) and that time passes.
Nothing is assumed of clients, of the target or of the order in which they act.  The
failure of `poll()` is not part of the fair steps.  The expiry of a session is promised
only when its deadline lies within the bound on the clock.
`TargetHandler` assumes weak fairness of what the loop does on its own (`Loop`): it is
one thread, `poll()` returns when a pin has an event, handlers run to their end and the
messages of a round are finitely many.  The client, the target, failures and kills are
not fair.

**Mutants.**  For every property of a passing run the module holds a mutated definition
(its comment begins with "Mutant:"), and TLC finds the property violated with it.

## 4. Proofs

Eight modules prove what the runs check on small instances for every value of the
constants.  `tlapm X.tla` checks a module.

| theorem | statement | module |
|---|---|---|
| `SessionTypeOK` | `Spec => []TypeOK` | `SessionProofs` |
| `SessionOnlyOneAuthenticated` | `Spec => []OnlyOneAuthenticated` | |
| `SessionSocketsTracked` | `Spec => []SocketsTracked` | |
| `SessionDeadlines` | `Spec => []DeadlinesFollowOccupancy` | |
| `SessionOwnership` | `Spec => OwnershipIsExclusive` | |
| `SessionImplementsDebugAccess` | `Spec => ImplementsDebugAccess` | |
| `ServerTypeOK` | `Spec => []TypeOK` | `AsdServerProofs` |
| `ServerContextFollowsOwner` | `Spec => []ContextFollowsOwner` | |
| `ServerNoOrphanContext` | `Spec => []NoOrphanContext` | |
| `ServerReaderIsOwner` | `Spec => []ReaderIsOwner` | |
| `ServerOwnerKeepsPort` | `Spec => OwnerKeepsPort` | |
| `ServerImplementsSession` | `Spec => ImplementsSession` | |
| `ServerImplementsDebugAccess` | `Spec => Table!ImplementsDebugAccess` | |
| `AuthTypeOK` | `Spec => []TypeOK` | `AuthPamProofs` |
| `AuthBurstLocksOut` | `Spec => []BurstLocksOut` | |
| `AuthLockoutJustified` | `Spec => []LockoutJustified` | |
| `AuthNoAcceptDuringLockout` | `Spec => NoAcceptDuringLockout` | |
| `ReadTypeOK` | `Spec => []TypeOK` | `AsdMsgReadProofs` |
| `ReadStaysInBounds` | `Spec => []ReadInBounds` | |
| `ReadFramingExact` | `~ SPLIT_HEADER` gives `Spec => []FramingExact` | |
| `I2cTypeOK` | `Spec => []TypeOK` | `AsdI2cProofs` |
| `I2cIdleHoldsNothing` | `Homogeneous` gives `Spec => []IdleHoldsNothing` | |
| `I2cWaitsInOrder` | `Homogeneous` gives `Spec => []WaitsInOrder` | |
| `I2cTransferOnSelectedBus` | `Homogeneous` gives `Spec => []TransferOnSelectedBus` | |
| `I2cTransferLockedOnFirstBus` | `Homogeneous` gives `Spec => []TransferLockedOnFirstBus` | |
| `MessageTypeOK` | `Spec => []TypeOK` | `JtagMessageProofs` |
| `MessageStartsOnCommand` | `Spec => []StartsOnCommand` | |
| `MessageAnsweredWhole` | `Spec => []AnsweredWhole` | |
| `MessageTapAsAsked` | `Spec => []TapAsAsked` | |
| `ScanInvariant` | `Spec => []IInv` | `JtagScanProofs` |
| `ScanTypeOK` | `Spec => []TypeOK` | |
| `ScanTapTracked` | `Spec => []TapTracked` | |
| `ScanDriverTracksTap` | `Spec => []DriverTracksTap` | |
| `ScanUpdatesAsAsked` | `Spec => []UpdatesAsAsked` | |
| `TargetTypeOK` | `Spec => []TypeOK` | `TargetHandlerProofs` |
| `TargetPinsReleased` | `Spec => []PinsReleased` | |
| `TargetLevelKnown` | `Spec => []LevelKnown` | |
| `TargetPrdyReportedOnce` | `Spec => []PrdyReportedOnce` | |

Assumptions are the named `ASSUME`s of the modules, which TLC evaluates in every run:
numbers are natural numbers, positive where the code needs it, special values are no
descriptors and no buses.  Those that say more are about the environment:
`START_TIME >= INVALID_AUTH_PERIOD_NSECS` (the zeros of the array of attempts are no
attempts; section 5), messages whose size field is their size or over the limit
(`AsdMsgReadAssumption`), and commands that are not empty (`CommandsAssumption`).  One,
`TmsCycleLookupAssumption`, is about the code and not its environment: each of the 256
paths of the driver's table leads where it should and is shortest.  It has no parameter
but the number of bits remembered, TLC evaluates it in full, and the proofs about
`JtagScan` take from it where a path ends.  Two
theorem hypotheses are not assumptions of the model, because the code does not keep what
the theorem says without them:

- `~ SPLIT_HEADER`: the run `split_header` is the counterexample.  `ReadTypeOK` and
  `ReadStaysInBounds` need no such hypothesis: with headers in pieces the reader
  misunderstands the stream, but stays within its message.
- `Homogeneous`: all buses of a board are I2C or all are I3C.  On a mixed board TLC finds
  the lock invariants violated (section 5).

**Induction.**  The library states induction for an operator, which the provers cannot
instantiate.  The modules that need it state it for a set: `IntervalInduction` (a set that
holds 0 and is closed under successors below N holds `0 .. N`), `BackwardInduction`
(downwards from N) and, from that, `BackwardRecursion` (functions defined from the end of
a sequence exist).  They are proved from `LeastNat` (a set of natural numbers has a least
element) and that from the well-foundedness of the order, and carry every proof about a
recursive function below.

**Session.**  The inductive invariant `SessionInv` is the conjunction of the four
invariants.  They are carried together because the steps lean on each other: every step
needs the types of the table, and that the slot `session_open` takes is not the
authenticated one uses that a free slot carries no flag (`DeadlinesFollowOccupancy`).
The refinement needs more than the invariant it looks like: that a granted or closed
client is one client and not two slots with one descriptor is `SocketsTracked`, and that
an expiry never touches the owner is `OnlyOneAuthenticated`.  The proof first states what
each operation leaves in the table, slot by slot (`OpenEffect`, `CloseEffect`,
`AuthCompleteEffect`, `SetDataPendingEffect`), from the fact that a non-empty set of
slots has a least element (`LeastSlot`).  Each action then has a lemma that it preserves
`SessionInv`, and one that it is a step of `DebugAccess` or a stutter and satisfies
`OwnershipStep`.

**Server.**  Every handler is shown to make one step of `Session` or none (`TableStep`),
so that `SessionInv` and the effect on the owner are taken from `SessionProofs` and not
proved again.  `ServerInv` adds the context: it exists only with an owner, an owner has
one unless freeing may fail, the connection being read is the owner's, and between a
handshake that succeeded and `session_auth_complete` the session is still there and not
authenticated (`HandshakePending`, without which the step that completes it cannot be
shown to be one of `Session`).  The types need the descriptors `poll()` reported to come from
the table, which is an induction over `Selected`.  `ServerImplementsDebugAccess` composes
the two refinements.

**Authentication.**  The array has one entry per allowed attempt and forgets the rest,
yet it must answer as if it had them all.  The invariant that makes this work (`Tracks`)
says, for every threshold of time, that the array and the history have equally many
entries from that time on, or the array is all recent and the history has at least as
many as the array.  Replacing the oldest entry keeps it (`TrackingKept`): for a threshold
above the oldest entry both counts grow by one, below it the array was full already.
`LockInv` adds that a burst anywhere in the history has pushed the end of the lockout
to its full time after, and that a lockout still running has a burst behind it.

**Message reader.**  `BoundsInv` relates state, index and size, which is enough for
`ReadStaysInBounds`.  `FrameInv` says where the reader is in the stream: there are
offsets at which the messages end (`Aligned`), the messages handed on are a prefix of
those sent, and what memory holds is the beginning of the next one (`Frame`), which with
its last byte is the message itself (`Complete`).

**Buses.**  `LockInv` says that only files of the open device are held (`OnlyDevice`) and,
unless an unlock failed, none without those before it (`Prefix`); that while a bus is
being locked the files before `msg.file` are held (`Held`), and all of them until the first
select of the message; that device, selection and `default_bus` agree (`Consistent`); and
that once a bus was locked the I3C handler has left its reserved number (`Used`), so that
no later `flock` opens a device.  `WaitsInOrder` follows: a file that another program has
is not held, so by `Prefix` none behind it is, and by `OnlyDevice` none of another bus.
`UnlockLocks` and `LockNext` are what an unlock and the next file do to them.  What the
property gives up is named in it: after an unlock that failed half way the daemon may hold
a later file without an earlier one, and after a lock that failed half way it is idle with
files locked (`IdleHoldsNothing` speaks of `failed = {}`).

**JTAG messages.**  A packet is read from the front by the daemon and defined from the
back by `Starts` and `Expected`.  `StartsFrom` and `ExpectedFrom` are the recursive
functions inside those, at every place of the packet; `BackwardRecursion` shows that they
exist, so that their equations may be used.  `MsgInv` says that what has been carried out
and what starts from `packet.used` on make up the packet (`Counted`), each command of
which moves one element from the second part to the first (`CountedStep`).  For a scan,
`EndState` shows that the lookahead gives back what it took, from the type of `next_cmd2`
(`LookType`, again by `BackwardInduction`: it recurses towards the end of the packet).
`TapInv` carries `TapAsAsked`.  `AskedAt` looks back from `packet.used` over the whole packet,
so `Parted` says that no command starts between the places where one did, from which
`ChainStep` and `AskedStep` tell what one command changes in it.  Between a scan that left
Shift and the TAP_STATE behind it the active chain is ahead of the client; that command is
then the very next one and sets it right, which is why the invariant excepts this place
only.

**Target handler.**  `Inv` is the conjunction of `PinInv` (pins), `HandleInv` (a handle
that is not initialised has no descriptor and no option), `LoopInv` (the events of one
round, PRDY first and at most once), `BudgetInv`, `ToldInv` (the levels the client was
told) and `PrdyInv`.  The last counts pulses: `prdy` is at least one for an unread pulse
the client asked for, one for a pulse in its handler and two when both are there.  The
budgets are the bounds of the model; since they are constants without a value, the
theorems hold for any number of edges, failures and kills.

**JTAG handler.**  The proof is in three layers.

- *Cycles.*  `Clocks` is a recursive function over the cycles; `RunExists` and `RunIsWalk`
  make its equations usable, and from them follow what a sequence of any length keeps.
  Where a walk leads comes from `TmsCycleLookupAssumption`; what it leaves of the bits and
  of the updates is read off the table for the states it starts from.
- *Operations.*  Every operation of the driver is shown to take a TAP to a TAP that is
  given in closed form: a reset ends in `"TLR"` or `"RTI"` from any state (`ResetSw`,
  `ResetHw`), a move of the bit-banged driver where the table says, and a transfer appends its
  bits and, at the end of a scan, updates the register with all of them.  `PiecesAre` and
  `IdealScanIs` are the same for the TAP of the client, so that prefix, data and postfix
  in up to three transfers (`ScanAgreesSw`), or in one (`ScanAgreesHw`), come to what was
  asked for.
- *Agreement.*  `IInv` is the types, the state of the TAPs that were reset (`Known`), and
  `Agreed`, which is what makes the properties inductive: `UpdatesAsAsked` compares only
  the updates of the last operation and says nothing of the bits of a scan that is still
  open, and `DriverTracksTap` says nothing of a chain that is not the active one, although
  it may be next.  In software mode `Agreed` says that the TAP of a chain used as supported
  is `ideal`, bits included.  In hardware mode a chain is `AtRest` (its TAP in
  Run-Test/Idle, and a Shift state that was asked for has yet to be entered, with no bits)
  or `UnderWay` (the TAP is where the driver takes it to be, which after the single-bit
  workaround is Pause where the client asked for Shift, and holds the client's bits).  A
  chain that is not active is `AtRest`, which is why changing chains while the driver is
  elsewhere leaves `in_step`.  In both modes the record that a scan is open is
  `scan_state`, on which `first_piece` decides whether to send the prefix (`Common`).

Each action has a lemma that it keeps `IInv` (`OutcomeKeeps` holds what they share), for
any number of chains, lengths, padding sizes and bits remembered; with `PauIR` added to the
states a client asks for, TLC checks `IInv` too on the constants of `MCJtagScan`.  `WaitKeeps`,
`MoveKeeps`, `ShiftKeeps` and `ShiftHwKeeps` hold the cases in which a transfer fails or is
refused: the handler's `tap_state` is then still right in software mode, and the chain
leaves `in_step`.

**Only model-checked.**  Liveness under fairness (`InputIsRead`, `ListenerServed`,
`UnauthenticatedLeaves`, `ResetBreakAsserts`) and `ENABLED` are outside what the prover
does; these four are the only properties of the passing runs without a theorem.  The three
findings are counterexamples and stay with TLC, and so does the evaluation of the table of
TMS cycles (`TmsCycleLookupAssumption`).

## 5. Findings and observations

Each finding has a run in which TLC finds the violation; `PROJECT.json` quotes the
line of the repository it disagrees with.

- `pending_unread`: the loop passes only descriptors that `poll()` reported to the
  handler that looks at the data-pending hint.  The second message of a TLS record stays
  unread until the client sends again, and the loop spins meanwhile.
- `split_header`: the rest of a header is stored at `&header + read_index`, which counts
  in headers instead of bytes.
- `i2c_unlocked`: after a bus select transfers run without the lock of the new bus, since
  the lock was taken on the device that the select closes.

Observations without a run of their own: most because no text of the repository says
otherwise or because they need a configuration that nothing in it describes.

Sessions and buses:

- The handshake asks `session_get_authenticated_conn` with a `NULL` pointer, which
  answers `ST_ERR` whatever the table holds (`session.c:388-412`), although
  `auth_pam.c:427-428` takes `ST_ERR` for "there is no current session".  A second client
  with the right password is told that it succeeded and is then disconnected; the answer
  "session already in progress" (`auth_pam.h:75`) is never given.  The port stays with its
  owner (`OwnerKeepsPort`).
- `close_connection` (`asd_main.c:580`) frees the context in every case and closes the
  session only if freeing it reported success; `tests/asd_main_tests.c:1228` says of this
  case "session will be closed".  When releasing a GPIO fails, the client stays
  authenticated without a context and its next message stores through a `NULL` pointer
  (`asd_main.c:722`).  `ContextFollowsOwner` therefore speaks of the modes in which freeing
  succeeds; `NoOrphanContext`, `ReaderIsOwner` and `OwnerKeepsPort` hold in both.
- `poll()` is given `n_gpios` entries more than were filled in (`asd_main.c:535`), entries
  of an earlier round; the array is large enough, and the effect is a spurious wake-up.
- While the clock shows less than a period after the epoch, the zeros of the array of
  attempts count as attempts (`auth_pam.c:230`); an assumption on `START_TIME` excludes it.
- Commands queued without a force stop are flushed after a later bus select and go to
  the newly selected bus (`asd_msg.c:2590`).
- `b_data_pending` is reset neither when a session is closed nor when a slot is taken
  again; the loop spins until the new client has sent a message.
- On a board that mixes I2C and I3C buses, selecting a bus that its handler still has
  open succeeds without changing `default_bus`: the transfers go to the other bus and
  the lock of the selected one is not given back.  With `BusTypes` extended to such
  boards TLC finds `IdleHoldsNothing` and `TransferOnSelectedBus` violated.  A mixed
  board whose first bus is an I3C bus cannot initialise I2C at all.
- When `flock()` fails half way through the files of an I3C bus (`i3c_handler.c:136-144`),
  the files locked so far stay locked: `process_message` returns without unlocking
  (`asd_msg.c:806-812`), and other programs wait until a later message or the end of the
  connection.  The files may also stay locked when an unlock fails.
- When the target handler cannot be initialised, only JTAG is closed (`asd_msg.c:675`); the
  failed message makes the loop close the connection (`asd_main.c:723`), and freeing the
  context closes the buses.
- When opening a selected bus fails, the handler has no device, and every later message
  of the connection fails at the lock, before it could select another bus.
- `do_bus_select_command` passes the address of its pointer to `send_error_message`,
  so the header of that error response is not taken from the request.
- `default_bus` is part of the configuration: a client starts on the bus on which the
  previous one stopped.
- In the `-u` mode a silent client blocks the daemon.

JTAG; all but the last are behaviours of the models, outside what the properties promise:

- A scan that stays in Shift and is not continued (a TAP reset, a TAP move at the start of
  the next packet, a failed transfer) leaves `scan_state` at Run: the next scan on the
  chain goes without its prefix, and leaving Shift by a TAP move shifts one stray bit.
- A multi-part scan that passes through Pause between its parts gets postfix and prefix
  in the middle, since a piece that leaves Shift counts as the last one.
- In hardware mode a TAP move does nothing.  Moves that the next scan does not make itself
  (to Pause, Exit or Update, or from Pause to Run-Test/Idle) never happen although the
  handler notes them, and a scan that is to end in Exit1 ends in Run-Test/Idle.
- The driver keeps one `current_state` for all chains.  In hardware mode, selecting another
  chain while it is a Shift or Pause state makes the next scan start from a state the TAP
  of that chain is not in.
- `JTAG_initialize` resets the active chain and takes all chains to be reset.
- The lookahead of hardware mode (`asd_msg.c:1653-1680`) steps over the commands it skips but
  not over their operands.  An operand with the value of a TAP state command decides the end
  state of the scan, and one with the value of `IR_PREFIX` skips two bytes more.
- In software mode a scan followed by a TAP_STATE that names the state it is in stays there,
  and a TAP_STATE out of Shift behind that is accepted: it shifts one stray bit.
- In hardware mode a scan followed by TAP_STATE Update-DR and TAP_STATE Pause-DR ends in
  Pause-DR straight away, and the register is not updated in between.
- When the packet ends inside the lookahead, `next_cmd2_ptr` is `NULL`, and what was looked
  at is not given back (`asd_msg.c:1742`): those commands are not carried out although the
  packet is answered with success (history variable `lost`).
- The comment on `JTAG_FREQ` (`asd_msg.c:1413-1415`) has the prescale in bits 7:6 and the
  divisor in bits 5:0; the code takes three bits and five.  The product is kept in eight
  bits, and zero reaches the division in `JTAG_set_jtag_tck`.

Target handler:

- A pin that is still exported, after a daemon was killed or an unexport failed, is opened
  for writing only (`gpio.c:116`): reads fail unnoticed, values come from the stack, events
  are never cleared and the loop spins.  The properties about events are stated for
  descriptors that can be read.
- Reading a pin clears its event: a write of the power button swallows a power event that
  `poll()` had yet to report, and the client is not told.
- `REPORT_PLTRST` and `REPORT_MBP` are stored and never read.
- While the last message is an AGENT_CONTROL one, the pins are not polled, and neither
  events nor the reset break are served.
- `target_wait_PRDY` leaves the event it waited for unread, so it is also reported by the
  loop; `1 << log2time` (`target_handler.c:1716`) is undefined from 31 on.
- A failed initialisation does not close the descriptors of the pins it had taken, and
  `target_deinitialize` does not clear `initialized`.
- The read of a pin that is not wired succeeds without a value.

## 6. Not modelled, and the plan

Of the daemon, every part that keeps state is modelled.  Left out for good: set-up of
sockets and of the SSL context, parsing of the command line, logging, the bytes of I2C
and I3C transfers with the continuation of their responses, the multi-chain select mode,
the clock rate of JTAG, the helpers for vProbe and IPMI, D-Bus and libgpiod (not in the
SPX build), the test tool and the vendored C library.  Of the JTAG kernel driver the
first generation of the hardware mode, interrupts, registers and probing are left out:
their state is in the controller.

The rest of the repository, more than nine tenths of its lines, has little logic of its
own to model: patches of the kernel, of U-Boot and of BusyBox; third-party programs and
libraries that are shipped with small changes (ipmitool, openssl, lua, nlohmann/json,
cJSON, libwebsockets, iniparser, qdecoder, nss_ldap); ciphers and checksums over bytes;
encoders of PECI and IPMI commands around one ioctl; and drivers that are register
sequences of the video, USB and UART hardware.  The USB device stack and the network
monitor do keep state, most of it in the hardware or in the kernel; they share nothing
with the daemon and are left out for size.  `PROJECT.json` lists each with its reason.

Every invariant and action property of the passing runs has its theorem.  What could
follow: a composition of `JtagMessage` with `JtagScan`, in which the operations of the
handler come from packets instead of from any client; and, with a prover for fairness, the
four liveness properties.
