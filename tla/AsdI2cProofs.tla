----------------------------- MODULE AsdI2cProofs -----------------------------
(***************************************************************************)
(* The locks of the device files and the bus of a transfer, for any set of *)
(* buses, any number of files of a bus and messages of any length.         *)
(***************************************************************************)
EXTENDS AsdI2c, TLAPS

USE BusesAssumption, FilesAssumption, MaxCommandsAssumption

Outcomes == {"opened", "failed", "partial"}

\* The locks when a handler closes its device.
LockAfterClose(d, t) == LockAfter(d, d.handler[t].handle, Files, "free")

\* bus_config_type answers I2C or I3C for the buses of the map and no others.
LEMMA BusType ==
  ASSUME bus_config_type \in BusTypes
  PROVE  /\ \A b \in Buses : bus_type(b) = bus_config_type[b] /\ bus_type(b) \in HandlerTypes
         /\ \A b : bus_type(b) \in HandlerTypes => b \in Buses
         /\ \A t : OpenOutcomes(t) \subseteq Outcomes
<1>1. bus_config_type \in [Buses -> HandlerTypes]
  OBVIOUS
<1>2. "BUS_CONFIG_NOT_ALLOWED" \notin HandlerTypes
  BY DEF HandlerTypes
<1>. QED
  BY <1>1, <1>2 DEF bus_type, OpenOutcomes, Outcomes

\* A record of Dev, by its parts.
LEMMA DevParts ==
  ASSUME NEW d \in Dev
  PROVE  /\ d.handler \in [HandlerTypes -> Handler]
         /\ d.default_bus \in Buses
         /\ d.lock \in [Buses -> [Files -> Owners]]
BY DEF Dev

\* A bus has one device file or i3C_MAX_DEV_HANDLERS of them.
LEMMA FileCountType ==
  ASSUME NEW b
  PROVE  FileCount(b) \in Nat /\ FileCount(b) \in 1 .. i3C_MAX_DEV_HANDLERS
BY DEF FileCount

\* The locks that some files of a bus being taken or given back leave.
LEMMA LockAfterIs ==
  ASSUME NEW d \in Dev, NEW bus, NEW files, NEW owner \in {"free", "asd"}
  PROVE  /\ LockAfter(d, bus, files, owner) \in [Buses -> [Files -> Owners]]
         /\ \A x \in Buses, f \in Files :
              LockAfter(d, bus, files, owner)[x][f] =
                IF x = bus /\ f \in files /\ d.lock[x][f] # "other" THEN owner ELSE d.lock[x][f]
BY DevParts DEF LockAfter, Owners

\* close_driver: the handle is gone, and with it the lock.
LEMMA CloseEffect ==
  ASSUME NEW d \in Dev, NEW t \in HandlerTypes
  PROVE  /\ close_driver(d, t) \in Dev
         /\ close_driver(d, t).default_bus = d.default_bus
         /\ close_driver(d, t).lock = LockAfterClose(d, t)
         /\ close_driver(d, t).handler =
              [d.handler EXCEPT ![t] = [bus |-> d.handler[t].bus, handle |-> NO_HANDLE]]
<1>1. d.handler[t] \in Handler
  BY DevParts
<1>2. [d.handler[t] EXCEPT !.handle = NO_HANDLE] = [bus |-> d.handler[t].bus, handle |-> NO_HANDLE]
  BY <1>1 DEF Handler
<1>3. LockAfterClose(d, t) \in [Buses -> [Files -> Owners]]
  BY LockAfterIs DEF LockAfterClose
<1>4. [bus |-> d.handler[t].bus, handle |-> NO_HANDLE] \in Handler
  BY <1>1 DEF Handler
<1>5. close_driver(d, t) =
        [handler |-> [d.handler EXCEPT ![t] = [bus |-> d.handler[t].bus, handle |-> NO_HANDLE]],
         default_bus |-> d.default_bus, lock |-> LockAfterClose(d, t)]
  <2>1. close_driver(d, t) =
          [d EXCEPT !.lock = LockAfterClose(d, t),
                    !.handler = [d.handler EXCEPT ![t] = [d.handler[t] EXCEPT !.handle = NO_HANDLE]]]
    BY DEF close_driver, LockAfterClose
  <2>. QED
    BY <1>2, <2>1 DEF Dev
<1>6. [d.handler EXCEPT ![t] = [bus |-> d.handler[t].bus, handle |-> NO_HANDLE]]
        \in [HandlerTypes -> Handler]
  BY <1>4, DevParts
<1>. QED
  BY <1>3, <1>5, <1>6, DevParts DEF Dev

\* bus_select leaves all as it is, or closes the bus that was open and then
\* opens the other, or fails to.
LEMMA SelectEffect ==
  ASSUME NEW d \in Dev, NEW t \in HandlerTypes, NEW b, NEW o \in Outcomes,
         bus_config_type \in BusTypes
  PROVE  /\ bus_select(d, t, b, o) \in Dev
         /\ b = d.handler[t].bus \/ ~ bus_allowed(t, b) => bus_select(d, t, b, o) = d
         /\ b # d.handler[t].bus /\ bus_allowed(t, b) =>
              /\ b \in Buses
              /\ bus_select(d, t, b, o).lock = LockAfterClose(d, t)
              /\ o = "opened" =>
                   /\ bus_select(d, t, b, o).handler[t] = [bus |-> b, handle |-> b]
                   /\ bus_select(d, t, b, o).default_bus = b
              /\ o = "partial" =>
                   /\ bus_select(d, t, b, o).handler[t] = [bus |-> b, handle |-> NO_HANDLE]
                   /\ bus_select(d, t, b, o).default_bus = b
              /\ o = "failed" =>
                   /\ bus_select(d, t, b, o).handler[t] =
                        [bus |-> d.handler[t].bus, handle |-> NO_HANDLE]
                   /\ bus_select(d, t, b, o).default_bus = d.default_bus
<1>1. CASE b = d.handler[t].bus \/ ~ bus_allowed(t, b)
  BY <1>1 DEF bus_select
<1>2. CASE b # d.handler[t].bus /\ bus_allowed(t, b)
  <2> DEFINE c == close_driver(d, t)
             h == [bus |-> d.handler[t].bus, handle |-> NO_HANDLE]
  <2>1. b \in Buses
    BY <1>2, BusType DEF bus_allowed
  <2>2. /\ c \in Dev /\ c.default_bus = d.default_bus /\ c.lock = LockAfterClose(d, t)
        /\ c.handler = [d.handler EXCEPT ![t] = h]
    BY CloseEffect
  <2>3. bus_select(d, t, b, o) = open_driver(c, t, b, o)
    BY <1>2 DEF bus_select
  <2> HIDE DEF c
  <2>4. c.handler[t] = h /\ c.handler \in [HandlerTypes -> Handler]
    BY <2>2, DevParts
  <2>5. CASE o = "opened"
    <3>1. open_driver(c, t, b, o) =
            [handler |-> [c.handler EXCEPT ![t] = [bus |-> b, handle |-> b]],
             default_bus |-> b, lock |-> c.lock]
      BY <2>2, <2>5 DEF open_driver, Dev
    <3>2. [bus |-> b, handle |-> b] \in Handler
      BY <2>1 DEF Handler
    <3>3. [c.handler EXCEPT ![t] = [bus |-> b, handle |-> b]] \in [HandlerTypes -> Handler]
      BY <2>4, <3>2
    <3>4. open_driver(c, t, b, o) \in Dev
      BY <2>1, <2>2, <3>1, <3>3 DEF Dev
    <3>5. /\ open_driver(c, t, b, o).handler[t] = [bus |-> b, handle |-> b]
          /\ open_driver(c, t, b, o).default_bus = b
          /\ open_driver(c, t, b, o).lock = LockAfterClose(d, t)
      BY <2>2, <2>4, <3>1
    <3>. QED
      BY <1>2, <2>1, <2>3, <2>5, <3>4, <3>5
  <2>6. CASE o = "partial"
    <3>1. [h EXCEPT !.bus = b] = [bus |-> b, handle |-> NO_HANDLE]
      OBVIOUS
    <3>2. open_driver(c, t, b, o) =
            [handler |-> [c.handler EXCEPT ![t] = [bus |-> b, handle |-> NO_HANDLE]],
             default_bus |-> b, lock |-> c.lock]
      <4>1. open_driver(c, t, b, o) =
              [c EXCEPT !.handler = [c.handler EXCEPT ![t] = [c.handler[t] EXCEPT !.bus = b]],
                        !.default_bus = b]
        BY <2>6 DEF open_driver
      <4>2. [c.handler[t] EXCEPT !.bus = b] = [bus |-> b, handle |-> NO_HANDLE]
        BY <2>4, <3>1
      <4>3. c \in Dev
        BY <2>2
      <4> HIDE DEF h
      <4>. QED
        BY <4>1, <4>2, <4>3 DEF Dev
    <3>3. [bus |-> b, handle |-> NO_HANDLE] \in Handler
      BY <2>1 DEF Handler
    <3>4. [c.handler EXCEPT ![t] = [bus |-> b, handle |-> NO_HANDLE]] \in [HandlerTypes -> Handler]
      BY <2>4, <3>3
    <3>5. open_driver(c, t, b, o) \in Dev
      BY <2>1, <2>2, <3>2, <3>4 DEF Dev
    <3>6. /\ open_driver(c, t, b, o).handler[t] = [bus |-> b, handle |-> NO_HANDLE]
          /\ open_driver(c, t, b, o).default_bus = b
          /\ open_driver(c, t, b, o).lock = LockAfterClose(d, t)
      BY <2>2, <2>4, <3>2
    <3>. QED
      BY <1>2, <2>1, <2>3, <2>6, <3>5, <3>6
  <2>7. CASE o = "failed"
    <3>1. open_driver(c, t, b, o) = c
      BY <2>7 DEF open_driver
    <3>. QED
      BY <1>2, <2>1, <2>2, <2>3, <2>4, <2>7, <3>1
  <2>. QED
    BY <2>5, <2>6, <2>7 DEF Outcomes
<1>. QED
  BY <1>1, <1>2

\* dev_flock changes locks of the device that the handler of the bus has open.
LEMMA FlockEffect ==
  ASSUME NEW d \in Dev, NEW b, NEW files, NEW owner \in {"free", "asd"}
  PROVE  /\ dev_flock(d, b, files, owner) \in Dev
         /\ dev_flock(d, b, files, owner).handler = d.handler
         /\ dev_flock(d, b, files, owner).default_bus = d.default_bus
         /\ \A x \in Buses, f \in Files :
              dev_flock(d, b, files, owner).lock[x][f] =
                IF x = FlockBus(d, b) /\ f \in files /\ d.lock[x][f] # "other" THEN owner
                ELSE d.lock[x][f]
<1> DEFINE l == LockAfter(d, FlockBus(d, b), files, owner)
<1>1. /\ l \in [Buses -> [Files -> Owners]]
      /\ \A x \in Buses, f \in Files :
           l[x][f] = IF x = FlockBus(d, b) /\ f \in files /\ d.lock[x][f] # "other" THEN owner
                     ELSE d.lock[x][f]
  BY LockAfterIs
<1>2. dev_flock(d, b, files, owner) = [d EXCEPT !.lock = l]
  BY DEF dev_flock
<1> HIDE DEF l
<1>3. dev_flock(d, b, files, owner) = [handler |-> d.handler, default_bus |-> d.default_bus, lock |-> l]
  BY <1>2 DEF Dev
<1>4. dev_flock(d, b, files, owner) \in Dev
  BY <1>1, <1>3, DevParts DEF Dev
<1>. QED
  BY <1>1, <1>3, <1>4

\* Opened selects the bus on the I3C handler, or does nothing.
LEMMA OpenedEffect ==
  ASSUME NEW d \in Dev, NEW b, NEW o \in Outcomes, bus_config_type \in BusTypes
  PROVE  /\ Opened(d, b, o) \in Dev
         /\ \/ Opened(d, b, o) = d
            \/ /\ bus_type(b) = "BUS_CONFIG_I3C" /\ b \in Buses
               /\ d.handler["BUS_CONFIG_I3C"].bus = I3C_BUS_ADDRESS_RESERVED
               /\ Opened(d, b, o) = bus_select(d, "BUS_CONFIG_I3C", b, o)
<1>1. "BUS_CONFIG_I3C" \in HandlerTypes
  BY DEF HandlerTypes
<1>2. bus_select(d, "BUS_CONFIG_I3C", b, o) \in Dev
  BY <1>1, SelectEffect
<1>3. bus_type(b) = "BUS_CONFIG_I3C" => b \in Buses
  BY <1>1, BusType
<1>. QED
  BY <1>2, <1>3 DEF Opened

-------------------------------------------------------------------------------
(* Types.                                                                      *)

\* A message that goes on takes one more command.
LEMMA NextCommandType ==
  ASSUME TypeOK, NEW last \in BOOLEAN, InLoop(last)
  PROVE  /\ NextCommand(last) \in Msg
         /\ NextCommand(last).queued =< NextCommand(last).n
         /\ NextCommand(last).switched = msg.switched /\ NextCommand(last).file = msg.file
         /\ NextCommand(last).queued + 1 =< NextCommand(last).n
         /\ NextCommand(last) = [msg EXCEPT !.n = msg.n + 1, !.last = last]
<1>1. msg \in Msg /\ msg.queued =< msg.n /\ msg.n < MAX_COMMANDS
  BY DEF TypeOK, InLoop
<1>2. msg.n \in Nat /\ msg.queued \in Nat /\ msg.n + 1 \in 0 .. MAX_COMMANDS
  BY <1>1 DEF Msg
<1>3. NextCommand(last) = [msg EXCEPT !.n = msg.n + 1, !.last = last]
  BY DEF NextCommand
<1>4. NextCommand(last) \in Msg
  BY <1>1, <1>2, <1>3 DEF Msg
<1>5. /\ NextCommand(last).n = msg.n + 1 /\ NextCommand(last).queued = msg.queued
      /\ NextCommand(last).switched = msg.switched /\ NextCommand(last).file = msg.file
  BY <1>1, <1>3 DEF Msg
<1>. QED
  BY <1>1, <1>2, <1>3, <1>4, <1>5

AtFile(f) == [msg EXCEPT !.file = f]

\* A message goes on to another device file.
LEMMA FileType ==
  ASSUME msg \in Msg, NEW f \in Files
  PROVE  /\ AtFile(f) \in Msg
         /\ AtFile(f).file = f
         /\ AtFile(f).switched = msg.switched
         /\ AtFile(f).bus = msg.bus
         /\ AtFile(f).queued = msg.queued
         /\ AtFile(f).n = msg.n
BY DEF Msg, AtFile

\* The next file is one if it is below the number of files of some bus.
LEMMA NextFile ==
  ASSUME msg \in Msg, NEW b
  PROVE  /\ msg.file \in Files /\ msg.file \in Nat /\ 0 \in Files
         /\ msg.file + 1 < FileCount(b) => msg.file + 1 \in Files
<1>1. msg.file \in Files
  BY DEF Msg
<1>2. PICK c \in 1 .. i3C_MAX_DEV_HANDLERS : c = FileCount(b)
  BY FileCountType
<1>. QED
  BY <1>1, <1>2 DEF Files

\* The loop goes on at one of three places.
LEMMA AfterCommandType ==
  ASSUME NEW m
  PROVE  AfterCommand(m) \in {"flush", "finish", "command"}
BY DEF AfterCommand

Places == {"idle", "closed", "lock", "command", "relock", "flush", "finish", "unlock"}

\* The actions that change nothing but the message.
LEMMA QuietTypes ==
  ASSUME TypeOK, UNCHANGED <<bus_config_type, dev, initialized, selected, failed>>,
         msg' \in Msg, msg'.queued =< msg'.n, pc' \in Places
  PROVE  TypeOK'
BY DEF TypeOK, Places

Ops == {"LOCK_EX", "LOCK_UN"}

\* The history of failures holds operations of flock().
LEMMA NoteType ==
  ASSUME failed \subseteq Ops, NEW op \in Ops, NEW ok, Note(op, ok)
  PROVE  failed' \subseteq Ops
BY DEF Note

\* The locks when another program takes or gives back one.
OtherLock(d, b, f, owner) == [d.lock EXCEPT ![b] = [d.lock[b] EXCEPT ![f] = owner]]

\* Every step keeps the types.
LEMMA TypeOKStep ==
  ASSUME TypeOK, Next
  PROVE  TypeOK'
<1>0. /\ bus_config_type \in BusTypes /\ UNCHANGED bus_config_type
      /\ dev \in Dev /\ dev.default_bus \in Buses
      /\ msg \in Msg /\ msg.queued =< msg.n /\ initialized \in BOOLEAN /\ selected \in Buses
      /\ pc \in Places /\ failed \subseteq Ops
  BY DevParts DEF TypeOK, Next, Places, Ops
<1>1. ASSUME dev' \in Dev, initialized' \in BOOLEAN, selected' \in Buses, pc' \in Places,
             msg' \in Msg, msg'.queued =< msg'.n, failed' \subseteq Ops
      PROVE  TypeOK'
  BY <1>0, <1>1 DEF TypeOK, Places, Ops
<1>2. ASSUME NEW o \in OpenOutcomes("BUS_CONFIG_I2C"), NEW ok \in BOOLEAN, InitializeHandlers(o, ok)
      PROVE  TypeOK'
  <2> DEFINE t == "BUS_CONFIG_I2C"
             i2c == IF i2c_enabled THEN bus_select(dev, t, dev.default_bus, o) ELSE dev
             good == i2c_enabled => bus_select_ok(dev, t, dev.default_bus, o)
  <2>1. i2c \in Dev
    <3>1. o \in Outcomes /\ t \in HandlerTypes
      BY <1>0, BusType DEF HandlerTypes
    <3>. QED
      BY <1>0, <3>1, SelectEffect
  <2>2. [i2c EXCEPT !.handler["BUS_CONFIG_I3C"].bus = I3C_BUS_ADDRESS_RESERVED] \in Dev
    <3> DEFINE h == i2c.handler["BUS_CONFIG_I3C"]
    <3> HIDE DEF i2c
    <3>1. "BUS_CONFIG_I3C" \in HandlerTypes
      BY DEF HandlerTypes
    <3>2. [h EXCEPT !.bus = I3C_BUS_ADDRESS_RESERVED] \in Handler
      <4>1. h \in Handler
        BY <2>1, <3>1, DevParts
      <4> HIDE DEF h
      <4>. QED
        BY <4>1 DEF Handler
    <3>3. [i2c.handler EXCEPT !["BUS_CONFIG_I3C"] = [h EXCEPT !.bus = I3C_BUS_ADDRESS_RESERVED]]
            \in [HandlerTypes -> Handler]
      BY <2>1, <3>2, DevParts
    <3>4. [i2c EXCEPT !.handler["BUS_CONFIG_I3C"].bus = I3C_BUS_ADDRESS_RESERVED] =
            [i2c EXCEPT !.handler =
               [i2c.handler EXCEPT !["BUS_CONFIG_I3C"] = [h EXCEPT !.bus = I3C_BUS_ADDRESS_RESERVED]]]
      OBVIOUS
    <3>. QED
      BY <2>1, <3>3, <3>4 DEF Dev
  <2>3. /\ dev' = IF good /\ i3c_enabled
                  THEN [i2c EXCEPT !.handler["BUS_CONFIG_I3C"].bus = I3C_BUS_ADDRESS_RESERVED]
                  ELSE i2c
        /\ initialized' = (good /\ ok) /\ pc' = (IF good /\ ok THEN "lock" ELSE "closed")
        /\ UNCHANGED <<msg, selected, failed>>
    BY <1>2 DEF InitializeHandlers
  <2>4. dev' \in Dev
    BY <2>1, <2>2, <2>3
  <2> HIDE DEF good
  <2>. QED
    BY <1>0, <1>1, <2>3, <2>4 DEF Places
<1>3. CASE ReceiveMessage \/ EmptyMessage \/ Finish
  BY <1>0, <1>3, QuietTypes DEF ReceiveMessage, EmptyMessage, Finish, Places
<1>4. ASSUME NEW o \in OpenOutcomes(bus_type(dev.default_bus)), LockDefaultBus(o)
      PROVE  TypeOK'
  <2> DEFINE b == dev.default_bus
             d == IF msg.file = 0 THEN Opened(dev, b, o) ELSE dev
             more == msg.file + 1 < FileCount(b)
  <2>1. o \in Outcomes
    BY <1>0, BusType
  <2>2. d \in Dev
    BY <1>0, <2>1, OpenedEffect
  <2> HIDE DEF d
  <2>3. dev_flock(d, b, {msg.file}, "asd") \in Dev
    BY <2>2, FlockEffect
  <2>4. /\ UNCHANGED <<initialized, selected>>
        /\ \/ /\ dev' = dev_flock(d, b, {msg.file}, "asd")
              /\ msg' = AtFile(IF more THEN msg.file + 1 ELSE 0)
              /\ pc' = (IF more THEN "lock" ELSE "command") /\ failed' = failed
           \/ dev' = d /\ msg' = AtFile(0) /\ pc' = "idle" /\ Note("LOCK_EX", FALSE)
    BY <1>4 DEF LockDefaultBus, d, AtFile
  <2>5. PICK f \in Files : msg' = AtFile(f)
    <3>1. (more => msg.file + 1 \in Files) /\ 0 \in Files
      BY <1>0, NextFile
    <3> HIDE DEF more
    <3>. QED
      BY <2>4, <3>1
  <2> HIDE DEF more, b
  <2>6. msg' \in Msg /\ msg'.queued =< msg'.n
    BY <1>0, <2>5, FileType
  <2>7. dev' \in Dev /\ pc' \in Places
    BY <2>2, <2>3, <2>4 DEF Places
  <2>8. failed' \subseteq Ops
    BY <1>0, <2>4, NoteType DEF Ops
  <2>. QED
    BY <1>0, <1>1, <2>4, <2>6, <2>7, <2>8
<1>5. ASSUME NEW o \in OpenOutcomes(bus_type(dev.default_bus)),
             NEW n \in 0 .. FileCount(dev.default_bus), UnlockDefaultBus(o, n)
      PROVE  TypeOK'
  <2>1. o \in Outcomes
    BY <1>0, BusType
  <2>2. Opened(dev, dev.default_bus, o) \in Dev
    BY <1>0, <2>1, OpenedEffect
  <2>3. Unlocked(Opened(dev, dev.default_bus, o), dev.default_bus, n) \in Dev
    BY <2>2, FlockEffect DEF Unlocked
  <2>4. NoMessage \in Msg /\ NoMessage.queued =< NoMessage.n
    BY NextFile DEF NoMessage, Msg, Files
  <2>5. failed' \subseteq Ops
    BY <1>0, <1>5, NoteType DEF UnlockDefaultBus, Ops
  <2>. QED
    BY <1>0, <1>1, <1>5, <2>3, <2>4, <2>5 DEF UnlockDefaultBus, Places
<1>6. ASSUME NEW o \in OpenOutcomes(bus_type(dev.default_bus)), NEW last \in BOOLEAN,
             SelectDefaultBus(last, o)
      PROVE  TypeOK'
  <2>1. o \in Outcomes /\ bus_type(dev.default_bus) \in HandlerTypes
    BY <1>0, BusType
  <2>2. bus_select(dev, bus_type(dev.default_bus), dev.default_bus, o) \in Dev
    BY <1>0, <2>1, SelectEffect
  <2>3. NextCommand(last) \in Msg /\ NextCommand(last).queued =< NextCommand(last).n
    BY <1>6, NextCommandType DEF SelectDefaultBus
  <2>4. /\ dev' = bus_select(dev, bus_type(dev.default_bus), dev.default_bus, o)
        /\ selected' \in {dev.default_bus, selected} /\ msg' = NextCommand(last)
        /\ pc' = AfterCommand(NextCommand(last)) /\ UNCHANGED <<initialized, failed>>
    BY <1>6 DEF SelectDefaultBus
  <2>5. pc' \in Places
    BY <2>4, AfterCommandType DEF Places
  <2>. QED
    BY <1>0, <1>1, <2>2, <2>3, <2>4, <2>5
<1>7. ASSUME NEW last \in BOOLEAN, NEW b \in Buses \cup {OTHER_BUS},
             NEW n \in 0 .. FileCount(dev.default_bus), SelectBus(b, last, n)
      PROVE  TypeOK'
  <2>1. Unlocked(dev, dev.default_bus, n) \in Dev
    BY <1>0, FlockEffect DEF Unlocked
  <2>2. NextCommand(last) \in Msg /\ NextCommand(last).queued =< NextCommand(last).n
    BY <1>7, NextCommandType DEF SelectBus
  <2>3. /\ [NextCommand(last) EXCEPT !.bus = b, !.switched = TRUE] \in Msg
        /\ [NextCommand(last) EXCEPT !.bus = b, !.switched = TRUE].queued
              =< [NextCommand(last) EXCEPT !.bus = b, !.switched = TRUE].n
    BY <2>2 DEF Msg
  <2>4. failed' \subseteq Ops
    BY <1>0, <1>7, NoteType DEF SelectBus, Ops
  <2>. QED
    BY <1>0, <1>1, <1>7, <2>1, <2>3, <2>4 DEF SelectBus, Places
<1>8. ASSUME NEW p \in OpenOutcomes(bus_type(msg.bus)), NEW o \in OpenOutcomes(bus_type(msg.bus)),
             RelockAndSelect(p, o)
      PROVE  TypeOK'
  <2> DEFINE b == msg.bus
             e == IF msg.file = 0 THEN Opened(dev, b, p) ELSE dev
             d == dev_flock(e, b, {msg.file}, "asd")
             done == AtFile(0)
             next == AtFile(msg.file + 1)
  <2>1. o \in Outcomes /\ p \in Outcomes
    BY <1>0, BusType
  <2>2. e \in Dev
    BY <1>0, <2>1, OpenedEffect
  <2>3. /\ UNCHANGED initialized
        /\ \/ /\ FlockBus(e, b) # NO_HANDLE /\ failed' = failed
              /\ \/ /\ msg.file + 1 < FileCount(b) /\ dev' = d /\ msg' = next
                    /\ UNCHANGED <<pc, selected>>
                 \/ /\ dev' = bus_select(d, bus_type(b), b, o)
                    /\ selected' = IF bus_select_ok(d, bus_type(b), b, o) THEN b ELSE selected
                    /\ msg' = done /\ pc' = AfterCommand(done)
           \/ /\ dev' = e /\ msg' = done /\ pc' = AfterCommand(done)
              /\ failed' = failed \cup {"LOCK_EX"} /\ UNCHANGED selected
    BY <1>8 DEF RelockAndSelect, AtFile
  <2> HIDE DEF e
  <2>4. d \in Dev
    BY <2>2, FlockEffect
  <2> HIDE DEF d
  <2>5. FlockBus(e, b) # NO_HANDLE => bus_type(b) \in HandlerTypes /\ b \in Buses
    BY <1>0, BusType DEF FlockBus
  <2>6. dev' \in Dev /\ selected' \in Buses
    <3>1. FlockBus(e, b) # NO_HANDLE => bus_select(d, bus_type(b), b, o) \in Dev
      BY <1>0, <2>1, <2>4, <2>5, SelectEffect
    <3> HIDE DEF b
    <3>. QED
      BY <1>0, <2>2, <2>3, <2>4, <2>5, <3>1
  <2>7. /\ 0 \in Files
        /\ msg.file + 1 < FileCount(b) => msg.file + 1 \in Files
    BY <1>0, NextFile
  <2>8. /\ done \in Msg /\ done.queued = msg.queued /\ done.n = msg.n
        /\ msg.file + 1 < FileCount(b) => next \in Msg /\ next.queued = msg.queued /\ next.n = msg.n
    <3>1. done \in Msg /\ done.queued = msg.queued /\ done.n = msg.n
      BY <1>0, <2>7, FileType
    <3>2. ASSUME msg.file + 1 < FileCount(b)
          PROVE  next \in Msg /\ next.queued = msg.queued /\ next.n = msg.n
      <4>1. PICK f \in Files : f = msg.file + 1
        BY <2>7, <3>2
      <4>2. AtFile(f) \in Msg /\ AtFile(f).queued = msg.queued /\ AtFile(f).n = msg.n
        BY <1>0, FileType
      <4>. QED
        BY <4>1, <4>2
    <3>. QED
      BY <3>1, <3>2
  <2> HIDE DEF done, next, b
  <2>9. msg' \in Msg /\ msg'.queued =< msg'.n
    BY <1>0, <2>3, <2>8
  <2>10. pc' \in Places
    BY <1>0, <2>3, AfterCommandType DEF Places
  <2>11. failed' \subseteq Ops
    BY <1>0, <2>3 DEF Ops
  <2>. QED
    BY <1>0, <1>1, <2>3, <2>6, <2>9, <2>10, <2>11
<1>9. CASE SelectShort \/ \E last \in BOOLEAN : SetSclk(last)
  <2>1. PICK last \in BOOLEAN :
          /\ InLoop(last) /\ msg' = NextCommand(last) /\ pc' = AfterCommand(NextCommand(last))
          /\ UNCHANGED <<dev, initialized, selected, failed>>
    BY <1>9 DEF SelectShort, SetSclk
  <2>2. msg' \in Msg /\ msg'.queued =< msg'.n
    BY <2>1, NextCommandType
  <2>3. pc' \in Places
    BY <2>1, AfterCommandType DEF Places
  <2>. QED
    BY <1>0, <1>1, <2>1, <2>2, <2>3
<1>10. ASSUME NEW last \in BOOLEAN, NEW stop \in BOOLEAN, QueueReadWrite(last, stop)
       PROVE  TypeOK'
  <2> DEFINE n == NextCommand(last)
             m == [n EXCEPT !.queued = @ + 1, !.pending = TRUE, !.stop = stop]
  <2>1. n \in Msg /\ n.queued + 1 =< n.n
    BY <1>10, NextCommandType DEF QueueReadWrite
  <2>2. msg' = m /\ pc' = AfterCommand(m) /\ UNCHANGED <<dev, initialized, selected, failed>>
    BY <1>10 DEF QueueReadWrite
  <2> HIDE DEF n
  <2>3. n.queued \in Nat /\ n.n \in 0 .. MAX_COMMANDS
    BY <2>1 DEF Msg
  <2>4. n.queued + 1 \in 0 .. MAX_COMMANDS
    BY <2>1, <2>3
  <2>5. m \in Msg /\ m.queued = n.queued + 1 /\ m.n = n.n
    BY <2>1, <2>4 DEF Msg
  <2> HIDE DEF m
  <2>6. pc' \in Places
    BY <2>2, AfterCommandType DEF Places
  <2>. QED
    BY <1>0, <1>1, <2>1, <2>2, <2>5, <2>6
<1>11. CASE CommandFails
  <2>1. NextCommand(TRUE) \in Msg /\ NextCommand(TRUE).queued =< NextCommand(TRUE).n
    BY <1>11, NextCommandType DEF CommandFails
  <2>. QED
    BY <1>0, <1>1, <1>11, <2>1 DEF CommandFails, Places
<1>12. ASSUME NEW sent \in BOOLEAN, Flush(sent)
       PROVE  TypeOK'
  <2> DEFINE m == [msg EXCEPT !.queued = 0, !.pending = FALSE, !.stop = FALSE]
  <2>1. m \in Msg /\ m.queued = 0 /\ m.n \in Nat
    <3>1. 0 \in 0 .. MAX_COMMANDS /\ msg.n \in Nat
      BY <1>0 DEF Msg
    <3>2. m.n = msg.n /\ m.queued = 0
      BY <1>0 DEF Msg
    <3>3. m \in Msg
      BY <1>0, <3>1 DEF Msg
    <3>. QED
      BY <3>1, <3>2, <3>3
  <2>2. [m EXCEPT !.queued = msg.queued] \in Msg /\ [m EXCEPT !.queued = msg.queued].queued = msg.queued
        /\ [m EXCEPT !.queued = msg.queued].n = msg.n
    BY <1>0 DEF Msg
  <2>3. /\ UNCHANGED <<dev, initialized, selected, failed>>
        /\ \/ msg' = m /\ pc' = AfterCommand(m)
           \/ msg' = [m EXCEPT !.queued = msg.queued] /\ pc' = "unlock"
    BY <1>12 DEF Flush
  <2> HIDE DEF m
  <2>4. pc' \in Places
    BY <2>3, AfterCommandType DEF Places
  <2>5. m.queued =< m.n
    BY <2>1
  <2>. QED
    BY <1>0, <1>1, <2>1, <2>2, <2>3, <2>4, <2>5
<1>13. ASSUME NEW h \in FreshHandlers, NewClient(h)
       PROVE  TypeOK'
  <2> DEFINE c == close_driver(close_driver(dev, "BUS_CONFIG_I2C"), "BUS_CONFIG_I3C")
  <2>1. c \in Dev
    BY <1>0, CloseEffect DEF HandlerTypes
  <2>2. h \in [HandlerTypes -> Handler]
    BY DEF FreshHandlers
  <2>3. dev' = [c EXCEPT !.handler = h] /\ initialized' = FALSE /\ selected' = dev.default_bus
        /\ UNCHANGED msg /\ pc' = "idle" /\ failed' = {}
    BY <1>13 DEF NewClient
  <2> HIDE DEF c
  <2>4. dev' \in Dev
    BY <2>1, <2>2, <2>3 DEF Dev
  <2>5. pc' \in Places /\ failed' \subseteq Ops
    BY <2>3 DEF Places
  <2>. QED
    BY <1>0, <1>1, <2>3, <2>4, <2>5
<1>14. ASSUME NEW b \in Buses, NEW f \in Files, OtherLocks(b, f) \/ OtherUnlocks(b, f)
       PROVE  TypeOK'
  <2>1. PICK owner \in Owners : dev' = [dev EXCEPT !.lock = OtherLock(dev, b, f, owner)]
    BY <1>14 DEF OtherLocks, OtherUnlocks, OtherLock, Owners
  <2>2. OtherLock(dev, b, f, owner) \in [Buses -> [Files -> Owners]]
    BY <1>0, DevParts DEF OtherLock
  <2>3. dev' \in Dev
    BY <1>0, <2>1, <2>2 DEF Dev
  <2>. QED
    BY <1>0, <1>1, <1>14, <2>3 DEF OtherLocks, OtherUnlocks
<1>. QED
  BY <1>2, <1>3, <1>4, <1>5, <1>6, <1>7, <1>8, <1>9, <1>10, <1>11, <1>12, <1>13, <1>14
  DEF Next, Step

\* Type correctness, for any set of buses of any types: whatever fails, the
\* daemon has a default bus of its map, each lock has one owner and a message
\* never has more transfers queued than it has commands.
THEOREM I2cTypeOK == Spec => []TypeOK
<1>1. Init => TypeOK
  <2>. SUFFICES ASSUME Init PROVE TypeOK
    OBVIOUS
  <2>1. PICK h \in FreshHandlers :
          dev = [handler |-> h, default_bus |-> DEFAULT_BUS,
                 lock |-> [b \in Buses |-> [f \in Files |-> "free"]]]
    BY DEF Init
  <2>2. dev \in Dev
    BY <2>1 DEF FreshHandlers, Dev, Owners
  <2>3. NoMessage \in Msg /\ NoMessage.queued =< NoMessage.n
    BY DEF NoMessage, Msg, Files
  <2>. QED
    BY <2>2, <2>3 DEF Init, TypeOK
<1>2. TypeOK /\ [Next]_vars => TypeOK'
  <2>1. TypeOK /\ UNCHANGED vars => TypeOK'
    BY DEF TypeOK, vars
  <2>. QED
    BY <2>1, TypeOKStep
<1>. QED
  BY <1>1, <1>2, PTL DEF Spec

-------------------------------------------------------------------------------
(* The locks. A board has buses of one type: with both, a select that finds    *)
(* its bus open already leaves default_bus on the handler of the other type,   *)
(* and the files that were locked are not those given back.                    *)

Homogeneous == \A c \in BusTypes : \A a, b \in Buses : c[a] = c[b]

Kind == bus_config_type[DEFAULT_BUS]
Device(d) == d.handler[Kind]

\* The device files of a bus of the board.
Count == IF Kind = "BUS_CONFIG_I3C" THEN i3C_MAX_DEV_HANDLERS ELSE 1

\* The daemon has only files of the device it has open.
OnlyDevice(d) ==
  \A b \in Buses, f \in Files : d.lock[b][f] = "asd" => b = Device(d).handle /\ f < Count

\* With a file the daemon has those before it.
Prefix(d) ==
  \A b \in Buses, f \in Files :
    d.lock[b][f] = "asd" => \A g \in Files : g < f => d.lock[b][g] = "asd"

\* The daemon has the first n files of the open device.
Held(d, n) ==
  n > 0 => /\ Device(d).handle # NO_HANDLE
           /\ \A f \in Files : f < n => d.lock[Device(d).handle][f] = "asd"

\* An open device is that of default_bus, and of the last select; i3c_bus is
\* reserved only as long as no select came.
Consistent(d, s) ==
  /\ Device(d).handle # NO_HANDLE =>
       /\ Device(d).handle = d.default_bus
       /\ Device(d).bus = d.default_bus
       /\ s = d.default_bus
  /\ Kind = "BUS_CONFIG_I3C" /\ Device(d).bus = I3C_BUS_ADDRESS_RESERVED => s = d.default_bus

\* A bus has been selected on the device.
Used(d) == Kind = "BUS_CONFIG_I3C" => Device(d).bus # I3C_BUS_ADDRESS_RESERVED

LockInv ==
  /\ OnlyDevice(dev)
  /\ "LOCK_UN" \notin failed => Prefix(dev)
  /\ pc \in {"idle", "closed"} /\ failed = {} => NoneHeld(dev)
  /\ Consistent(dev, selected)
  /\ pc \notin {"idle", "closed", "lock"} => Used(dev)
  /\ pc = "relock" => msg.switched
  /\ ~ initialized => /\ pc \in {"idle", "closed"}
                      /\ selected = dev.default_bus
                      /\ NoneHeld(dev)
                      /\ Kind = "BUS_CONFIG_I3C" => Device(dev).handle = NO_HANDLE
  /\ msg.file < Count /\ Held(dev, msg.file)
  /\ pc \notin {"lock", "relock"} => msg.file = 0
  /\ pc \in {"command", "flush"} /\ ~ msg.switched => Held(dev, Count)

\* With buses of one type every handler call goes to one handler.
LEMMA OneKind ==
  ASSUME Homogeneous, bus_config_type \in BusTypes
  PROVE  /\ Kind \in HandlerTypes
         /\ \A b \in Buses : bus_type(b) = Kind /\ bus_allowed(Kind, b)
         /\ \A d, b : FlockBus(d, b) = IF b \in Buses THEN Device(d).handle ELSE NO_HANDLE
         /\ i2c_enabled <=> Kind = "BUS_CONFIG_I2C"
         /\ i3c_enabled <=> Kind = "BUS_CONFIG_I3C"
<1>1. bus_config_type \in [Buses -> HandlerTypes] /\ \A b \in Buses : bus_config_type[b] = Kind
  BY DEF Homogeneous, Kind
<1>2. Kind \in HandlerTypes
  BY <1>1 DEF Kind
<1>3. \A b \in Buses : bus_type(b) = Kind /\ bus_allowed(Kind, b)
  BY <1>1 DEF bus_type, bus_allowed
<1>4. \A b : b \notin Buses => bus_type(b) \notin HandlerTypes
  BY BusType
<1>5. \A d, b : FlockBus(d, b) = IF b \in Buses THEN Device(d).handle ELSE NO_HANDLE
  BY <1>2, <1>3, <1>4 DEF FlockBus, Device
<1>. QED
  BY <1>1, <1>2, <1>3, <1>5 DEF i2c_enabled, i3c_enabled

\* All buses of the board have as many device files.
LEMMA KindFiles ==
  ASSUME Homogeneous, bus_config_type \in BusTypes
  PROVE  /\ \A b \in Buses : FileCount(b) = Count
         /\ Count \in Nat \ {0} /\ Count =< i3C_MAX_DEV_HANDLERS
<1>1. \A b \in Buses : bus_type(b) = Kind
  BY OneKind
<1>. QED
  BY <1>1 DEF FileCount, Count

\* bus_select on the one handler, with its answer.
LEMMA KindSelect ==
  ASSUME Homogeneous, bus_config_type \in BusTypes,
         NEW d \in Dev, NEW b \in Buses, NEW o \in Outcomes
  PROVE  /\ b = Device(d).bus => bus_select(d, Kind, b, o) = d /\ bus_select_ok(d, Kind, b, o)
         /\ b # Device(d).bus =>
              /\ bus_select(d, Kind, b, o).lock = LockAfterClose(d, Kind)
              /\ bus_select_ok(d, Kind, b, o) <=> o = "opened"
              /\ o = "opened" =>
                   /\ Device(bus_select(d, Kind, b, o)) = [bus |-> b, handle |-> b]
                   /\ bus_select(d, Kind, b, o).default_bus = b
              /\ o = "partial" =>
                   /\ Device(bus_select(d, Kind, b, o)) = [bus |-> b, handle |-> NO_HANDLE]
                   /\ bus_select(d, Kind, b, o).default_bus = b
              /\ o = "failed" =>
                   /\ Device(bus_select(d, Kind, b, o)) =
                        [bus |-> Device(d).bus, handle |-> NO_HANDLE]
                   /\ bus_select(d, Kind, b, o).default_bus = d.default_bus
<1>1. Kind \in HandlerTypes /\ bus_allowed(Kind, b)
  BY OneKind
<1>2. PICK t \in HandlerTypes : t = Kind
  BY <1>1
<1>3. bus_allowed(t, b) /\ Device(d) = d.handler[t]
  BY <1>1, <1>2 DEF Device
<1>4. CASE b = d.handler[t].bus
  <2>1. bus_select(d, t, b, o) = d /\ bus_select_ok(d, t, b, o)
    BY <1>4 DEF bus_select, bus_select_ok
  <2>. QED
    BY <1>2, <1>3, <1>4, <2>1
<1>5. CASE b # d.handler[t].bus
  <2> DEFINE e == bus_select(d, t, b, o)
  <2>1. /\ e.lock = LockAfterClose(d, t)
        /\ o = "opened" => e.handler[t] = [bus |-> b, handle |-> b] /\ e.default_bus = b
        /\ o = "partial" => e.handler[t] = [bus |-> b, handle |-> NO_HANDLE] /\ e.default_bus = b
        /\ o = "failed" => /\ e.handler[t] = [bus |-> d.handler[t].bus, handle |-> NO_HANDLE]
                           /\ e.default_bus = d.default_bus
    BY <1>3, <1>5, SelectEffect
  <2>2. bus_select_ok(d, t, b, o) <=> o = "opened"
    BY <1>3, <1>5 DEF bus_select_ok
  <2>3. e = bus_select(d, Kind, b, o) /\ Device(e) = e.handler[t]
        /\ (bus_select_ok(d, Kind, b, o) <=> bus_select_ok(d, t, b, o))
        /\ LockAfterClose(d, Kind) = LockAfterClose(d, t)
    BY <1>2 DEF Device
  <2> HIDE DEF e
  <2>. QED
    BY <1>3, <1>5, <2>1, <2>2, <2>3
<1>. QED
  BY <1>4, <1>5

\* Closing a device gives back all that was locked through it.
LEMMA ClosedLocks ==
  ASSUME NEW d \in Dev, NEW t \in HandlerTypes
  PROVE  \A x \in Buses, f \in Files :
           LockAfterClose(d, t)[x][f] = "asd" => d.lock[x][f] = "asd" /\ x # d.handler[t].handle
<1>1. \A x \in Buses, f \in Files :
        LockAfter(d, d.handler[t].handle, Files, "free")[x][f] =
          IF x = d.handler[t].handle /\ f \in Files /\ d.lock[x][f] # "other" THEN "free"
          ELSE d.lock[x][f]
  BY LockAfterIs
<1>. QED
  BY <1>1 DEF LockAfterClose

\* bus_select does nothing, or leaves the daemon with no lock.
LEMMA SelectLocks ==
  ASSUME Homogeneous, bus_config_type \in BusTypes,
         NEW d \in Dev, NEW b \in Buses, NEW o \in Outcomes, OnlyDevice(d)
  PROVE  bus_select(d, Kind, b, o) = d \/ NoneHeld(bus_select(d, Kind, b, o))
<1> DEFINE e == bus_select(d, Kind, b, o)
<1>1. CASE b = Device(d).bus
  BY <1>1, KindSelect
<1>2. CASE b # Device(d).bus
  <2>1. e.lock = LockAfterClose(d, Kind)
    BY <1>2, KindSelect
  <2> HIDE DEF e
  <2>2. \A x \in Buses, f \in Files :
          e.lock[x][f] = "asd" => d.lock[x][f] = "asd" /\ x # Device(d).handle
    <3>1. PICK t \in HandlerTypes : t = Kind
      BY OneKind
    <3>2. \A x \in Buses, f \in Files :
            LockAfterClose(d, t)[x][f] = "asd" => d.lock[x][f] = "asd" /\ x # d.handler[t].handle
      BY ClosedLocks
    <3>. QED
      BY <2>1, <3>1, <3>2 DEF Device
  <2>. QED
    BY <2>2 DEF NoneHeld, OnlyDevice, e
<1>. QED
  BY <1>1, <1>2

\* bus_select, with the answer it gives, keeps default_bus, the open device and
\* the bus of the last select together.
LEMMA SelectConsistent ==
  ASSUME Homogeneous, bus_config_type \in BusTypes,
         NEW d \in Dev, NEW b \in Buses, NEW o \in Outcomes, NEW s, Consistent(d, s)
  PROVE  Consistent(bus_select(d, Kind, b, o), IF bus_select_ok(d, Kind, b, o) THEN b ELSE s)
<1> DEFINE e == bus_select(d, Kind, b, o)
<1>0. b # NO_HANDLE /\ b # I3C_BUS_ADDRESS_RESERVED
  OBVIOUS
<1>1. CASE b = Device(d).bus
  <2>1. e = d /\ bus_select_ok(d, Kind, b, o)
    BY <1>1, KindSelect
  <2>. QED
    BY <1>0, <1>1, <2>1 DEF Consistent
<1>2. CASE b # Device(d).bus
  <2>1. /\ o = "opened" => Device(e) = [bus |-> b, handle |-> b] /\ e.default_bus = b
        /\ o = "partial" => Device(e) = [bus |-> b, handle |-> NO_HANDLE] /\ e.default_bus = b
        /\ o = "failed" => /\ Device(e) = [bus |-> Device(d).bus, handle |-> NO_HANDLE]
                           /\ e.default_bus = d.default_bus
    BY <1>2, KindSelect
  <2>2. bus_select_ok(d, Kind, b, o) <=> o = "opened"
    BY <1>2, KindSelect
  <2> HIDE DEF e
  <2>3. Consistent(e, IF o = "opened" THEN b ELSE s)
    BY <1>0, <2>1 DEF Consistent, Outcomes
  <2>. QED
    BY <2>2, <2>3 DEF e
<1>. QED
  BY <1>1, <1>2

\* bus_select leaves a device that had a bus with one.
LEMMA SelectUsed ==
  ASSUME Homogeneous, bus_config_type \in BusTypes,
         NEW d \in Dev, NEW b \in Buses, NEW o \in Outcomes, Used(d)
  PROVE  Used(bus_select(d, Kind, b, o))
<1> DEFINE e == bus_select(d, Kind, b, o)
<1>1. e = d \/ Device(e).bus \in {b, Device(d).bus}
  <2>1. /\ b = Device(d).bus => e = d
        /\ b # Device(d).bus =>
             /\ o = "opened" => Device(e) = [bus |-> b, handle |-> b]
             /\ o = "partial" => Device(e) = [bus |-> b, handle |-> NO_HANDLE]
             /\ o = "failed" => Device(e) = [bus |-> Device(d).bus, handle |-> NO_HANDLE]
    BY KindSelect
  <2> HIDE DEF e
  <2>. QED
    BY <2>1 DEF Outcomes
<1> HIDE DEF e
<1>. QED
  BY <1>1 DEF Used, e

\* The flock that opens an I3C bus does nothing more, or leaves the daemon with
\* no lock.
LEMMA OpenedLocks ==
  ASSUME Homogeneous, bus_config_type \in BusTypes,
         NEW d \in Dev, NEW b, NEW o \in Outcomes, OnlyDevice(d)
  PROVE  Opened(d, b, o) = d \/ NoneHeld(Opened(d, b, o))
<1>1. CASE Opened(d, b, o) = d
  BY <1>1
<1>2. CASE Opened(d, b, o) # d
  <2>1. /\ bus_type(b) = "BUS_CONFIG_I3C" /\ b \in Buses
        /\ Opened(d, b, o) = bus_select(d, "BUS_CONFIG_I3C", b, o)
    BY <1>2, OpenedEffect
  <2>2. Opened(d, b, o) = bus_select(d, Kind, b, o)
    BY <2>1, OneKind
  <2>. QED
    BY <2>1, <2>2, SelectLocks
<1>. QED
  BY <1>1, <1>2

\* It opens nothing once a bus has been selected.
LEMMA OpenedUsed ==
  ASSUME Homogeneous, bus_config_type \in BusTypes,
         NEW d \in Dev, NEW b, NEW o \in Outcomes, Used(d)
  PROVE  Opened(d, b, o) = d
<1>1. CASE Opened(d, b, o) = d
  BY <1>1
<1>2. CASE Opened(d, b, o) # d
  <2>1. /\ bus_type(b) = "BUS_CONFIG_I3C" /\ b \in Buses
        /\ d.handler["BUS_CONFIG_I3C"].bus = I3C_BUS_ADDRESS_RESERVED
    BY <1>2, OpenedEffect
  <2>2. Kind = "BUS_CONFIG_I3C"
    BY <2>1, OneKind
  <2>. QED
    BY <2>1, <2>2 DEF Used, Device
<1>. QED
  BY <1>1, <1>2

\* Opening the default bus on the first flock changes neither the default
\* bus nor what the device is to the last select.
LEMMA OpenedConsistent ==
  ASSUME Homogeneous, bus_config_type \in BusTypes,
         NEW d \in Dev, NEW o \in Outcomes, NEW s, Consistent(d, s)
  PROVE  /\ Consistent(Opened(d, d.default_bus, o), s)
         /\ Opened(d, d.default_bus, o).default_bus = d.default_bus
<1> DEFINE b == d.default_bus
           e == Opened(d, b, o)
<1>0. b \in Buses
  BY DevParts
<1>1. CASE e = d
  BY <1>1
<1>2. CASE e # d
  <2>1. /\ bus_type(b) = "BUS_CONFIG_I3C" /\ e = bus_select(d, "BUS_CONFIG_I3C", b, o)
        /\ d.handler["BUS_CONFIG_I3C"].bus = I3C_BUS_ADDRESS_RESERVED
    BY <1>2, OpenedEffect
  <2>2. Kind = "BUS_CONFIG_I3C" /\ e = bus_select(d, Kind, b, o) /\ s = b
    BY <1>0, <2>1, OneKind DEF Consistent, Device
  <2>3. Consistent(e, IF bus_select_ok(d, Kind, b, o) THEN b ELSE s)
    BY <1>0, <2>2, SelectConsistent
  <2>4. e.default_bus = b
    <3>1. b # Device(d).bus
      BY <1>0, <2>1, <2>2 DEF Device
    <3>. QED
      BY <1>0, <2>2, <3>1, KindSelect DEF Outcomes
  <2>. QED
    BY <2>2, <2>3, <2>4
<1>. QED
  BY <1>1, <1>2

\* The handle of the device is a bus or none.
LEMMA DeviceType ==
  ASSUME Homogeneous, bus_config_type \in BusTypes, NEW d \in Dev
  PROVE  Device(d).handle \in Buses \cup {NO_HANDLE}
<1>1. Kind \in HandlerTypes
  BY OneKind
<1>. QED
  BY <1>1, DevParts DEF Device, Handler

\* Without locks there is nothing to keep in order.
LEMMA NoneInOrder ==
  ASSUME NEW d, NoneHeld(d)
  PROVE  OnlyDevice(d) /\ Prefix(d)
BY DEF NoneHeld, OnlyDevice, Prefix

\* flock changes files of the open device, and not the device.
LEMMA KindFlock ==
  ASSUME Homogeneous, bus_config_type \in BusTypes,
         NEW d \in Dev, NEW b \in Buses, NEW files, NEW owner \in {"free", "asd"}
  PROVE  /\ Device(dev_flock(d, b, files, owner)) = Device(d)
         /\ dev_flock(d, b, files, owner).default_bus = d.default_bus
         /\ \A x \in Buses, f \in Files :
              dev_flock(d, b, files, owner).lock[x][f] =
                IF x = Device(d).handle /\ f \in files /\ d.lock[x][f] # "other" THEN owner
                ELSE d.lock[x][f]
<1>1. FlockBus(d, b) = Device(d).handle
  BY OneKind
<1>2. /\ dev_flock(d, b, files, owner).handler = d.handler
      /\ dev_flock(d, b, files, owner).default_bus = d.default_bus
      /\ \A x \in Buses, f \in Files :
              dev_flock(d, b, files, owner).lock[x][f] =
                IF x = FlockBus(d, b) /\ f \in files /\ d.lock[x][f] # "other" THEN owner
                ELSE d.lock[x][f]
  BY FlockEffect
<1>. QED
  BY <1>1, <1>2 DEF Device

\* So it keeps the device, the default bus and the last select together.
LEMMA FlockConsistent ==
  ASSUME Homogeneous, bus_config_type \in BusTypes,
         NEW d \in Dev, NEW b \in Buses, NEW files, NEW owner \in {"free", "asd"}
  PROVE  /\ \A s : Consistent(d, s) => Consistent(dev_flock(d, b, files, owner), s)
         /\ Used(d) => Used(dev_flock(d, b, files, owner))
<1>1. /\ Device(dev_flock(d, b, files, owner)) = Device(d)
      /\ dev_flock(d, b, files, owner).default_bus = d.default_bus
  BY KindFlock
<1>. QED
  BY <1>1 DEF Consistent, Used

\* Unlocking leaves nothing locked but files of the open device, and nothing at
\* all if no flock() fails.
LEMMA UnlockLocks ==
  ASSUME Homogeneous, bus_config_type \in BusTypes,
         NEW d \in Dev, NEW b \in Buses, NEW n \in Nat, OnlyDevice(d)
  PROVE  /\ OnlyDevice(Unlocked(d, b, n))
         /\ n = Count => NoneHeld(Unlocked(d, b, n))
<1> DEFINE files == 0 .. n - 1
           e == dev_flock(d, b, files, "free")
<1>1. /\ Device(e) = Device(d)
      /\ \A x \in Buses, f \in Files :
           e.lock[x][f] = IF x = Device(d).handle /\ f \in files /\ d.lock[x][f] # "other"
                          THEN "free" ELSE d.lock[x][f]
  BY KindFlock
<1>2. e = Unlocked(d, b, n)
  BY DEF Unlocked
<1> HIDE DEF e
<1>3. OnlyDevice(e)
  BY <1>1 DEF OnlyDevice
<1>4. ASSUME n = Count PROVE NoneHeld(e)
  <2>1. \A f \in Files : f < Count => f \in files
    BY <1>4 DEF Files
  <2>. QED
    BY <1>1, <2>1 DEF NoneHeld, OnlyDevice
<1>. QED
  BY <1>2, <1>3, <1>4

\* Locking the file behind those held keeps the order.
LEMMA LockNext ==
  ASSUME Homogeneous, bus_config_type \in BusTypes,
         NEW d \in Dev, NEW b \in Buses, NEW f \in Files, f < Count,
         OnlyDevice(d), Held(d, f), Device(d).handle # NO_HANDLE, ~ Blocked(d, b, f)
  PROVE  /\ OnlyDevice(dev_flock(d, b, {f}, "asd"))
         /\ Prefix(d) => Prefix(dev_flock(d, b, {f}, "asd"))
         /\ Held(dev_flock(d, b, {f}, "asd"), f + 1)
<1> DEFINE e == dev_flock(d, b, {f}, "asd")
           h == Device(d).handle
<1>1. /\ Device(e) = Device(d)
      /\ \A x \in Buses, g \in Files :
           e.lock[x][g] = IF x = h /\ g \in {f} /\ d.lock[x][g] # "other" THEN "asd" ELSE d.lock[x][g]
  BY KindFlock
<1>2. h \in Buses /\ d.lock[h][f] # "other"
  <2>1. h \in Buses
    BY DeviceType
  <2>2. FlockBus(d, b) = h
    BY OneKind
  <2>. QED
    BY <2>1, <2>2 DEF Blocked
<1> HIDE DEF e
<1>3. \A x \in Buses, g \in Files : e.lock[x][g] = "asd" <=> d.lock[x][g] = "asd" \/ (x = h /\ g = f)
  BY <1>1, <1>2
<1>4. \A g \in Files : g < f => d.lock[h][g] = "asd"
  BY DEF Held, Files
<1>5. OnlyDevice(e)
  BY <1>1, <1>3 DEF OnlyDevice
<1>6. Prefix(d) => Prefix(e)
  BY <1>3, <1>4 DEF Prefix
<1>7. Held(e, f + 1)
  <2>1. \A g \in Files : g < f + 1 => g = f \/ g < f
    BY DEF Files
  <2>. QED
    BY <1>1, <1>2, <1>3, <1>4, <2>1 DEF Held
<1>. QED
  BY <1>5, <1>6, <1>7 DEF e

\* Each step keeps the locks.
LEMMA LockInvStep ==
  ASSUME Homogeneous, TypeOK, LockInv, Next
  PROVE  LockInv'
<1>0. /\ bus_config_type \in BusTypes /\ bus_config_type' = bus_config_type
      /\ dev \in Dev /\ dev.default_bus \in Buses /\ msg \in Msg
      /\ initialized \in BOOLEAN /\ msg.file \in Files /\ msg.file \in Nat
  <2>1. msg \in Msg
    BY DEF TypeOK
  <2>. QED
    BY <2>1, DevParts, NextFile DEF TypeOK, Next
<1>K. /\ Kind \in HandlerTypes /\ \A b \in Buses : bus_type(b) = Kind /\ FileCount(b) = Count
      /\ Count \in Nat \ {0}
  BY <1>0, OneKind, KindFiles
<1>1. /\ Kind' = Kind /\ Count' = Count /\ Device(dev)' = Device(dev')
      /\ (NoneHeld(dev)' <=> NoneHeld(dev')) /\ (OnlyDevice(dev)' <=> OnlyDevice(dev'))
      /\ (Prefix(dev)' <=> Prefix(dev')) /\ (Used(dev)' <=> Used(dev'))
      /\ (Consistent(dev, selected)' <=> Consistent(dev', selected'))
      /\ (Held(dev, msg.file)' <=> Held(dev', msg'.file)) /\ (Held(dev, Count)' <=> Held(dev', Count))
  BY <1>0 DEF Kind, Count, Device, NoneHeld, OnlyDevice, Prefix, Used, Consistent, Held
<1>2. ASSUME OnlyDevice(dev'), "LOCK_UN" \notin failed' => Prefix(dev'),
             pc' \in {"idle", "closed"} /\ failed' = {} => NoneHeld(dev'),
             Consistent(dev', selected'),
             pc' \notin {"idle", "closed", "lock"} => Used(dev'),
             pc' = "relock" => msg'.switched,
             ~ initialized' => /\ pc' \in {"idle", "closed"} /\ selected' = dev'.default_bus
                               /\ NoneHeld(dev')
                               /\ Kind = "BUS_CONFIG_I3C" => Device(dev').handle = NO_HANDLE,
             msg'.file < Count, Held(dev', msg'.file),
             pc' \notin {"lock", "relock"} => msg'.file = 0,
             pc' \in {"command", "flush"} /\ ~ msg'.switched => Held(dev', Count)
      PROVE  LockInv'
  BY <1>1, <1>2 DEF LockInv
<1>H. \A d : Held(d, 0) /\ 0 < Count
  BY <1>K DEF Held
\* A step that leaves the device alone and stays in the message.
<1>3. ASSUME UNCHANGED <<dev, initialized, selected, failed>>,
             pc \in {"command", "flush", "finish", "unlock"},
             pc' \in {"command", "flush", "finish", "unlock"}, msg'.file = msg.file,
             pc' \in {"command", "flush"} =>
               pc \in {"command", "flush"} /\ msg'.switched = msg.switched
      PROVE  LockInv'
  BY <1>2, <1>3 DEF LockInv
<1>4. ASSUME NEW o \in OpenOutcomes("BUS_CONFIG_I2C"), NEW ok \in BOOLEAN, InitializeHandlers(o, ok)
      PROVE  LockInv'
  <2>1. /\ pc = "idle" /\ ~ initialized /\ NoneHeld(dev) /\ selected = dev.default_bus
        /\ selected' = selected /\ Consistent(dev, selected)
        /\ Kind = "BUS_CONFIG_I3C" => Device(dev).handle = NO_HANDLE
        /\ OnlyDevice(dev) /\ msg'.file = 0
    BY <1>4 DEF InitializeHandlers, LockInv
  <2>2. pc' \in {"closed", "lock"} /\ (~ initialized' => pc' = "closed")
    BY <1>4 DEF InitializeHandlers
  <2>3. ASSUME NoneHeld(dev'), Consistent(dev', selected'), dev'.default_bus = dev.default_bus,
               Kind = "BUS_CONFIG_I3C" => Device(dev').handle = NO_HANDLE
        PROVE  LockInv'
    BY <1>2, <1>H, <2>1, <2>2, <2>3, NoneInOrder
  <2>4. CASE Kind = "BUS_CONFIG_I2C"
    <3> DEFINE e == bus_select(dev, Kind, dev.default_bus, o)
    <3>1. i2c_enabled /\ ~ i3c_enabled
      BY <1>0, <2>4, OneKind
    <3>2. dev' = e
      BY <1>4, <2>4, <3>1 DEF InitializeHandlers
    <3>3. o \in Outcomes
      BY <1>0, BusType
    <3>4. NoneHeld(e)
      BY <1>0, <2>1, <3>3, SelectLocks
    <3>5. Consistent(e, selected)
      BY <1>0, <2>1, <3>3, SelectConsistent
    <3>6. e.default_bus = dev.default_bus
      BY <1>0, <3>3, KindSelect DEF Outcomes
    <3> HIDE DEF e
    <3>. QED
      BY <2>1, <2>3, <2>4, <3>2, <3>4, <3>5, <3>6
  <2>5. CASE Kind = "BUS_CONFIG_I3C"
    <3>1. ~ i2c_enabled /\ i3c_enabled
      BY <1>0, <2>5, OneKind
    <3>2. dev' = [dev EXCEPT !.handler["BUS_CONFIG_I3C"].bus = I3C_BUS_ADDRESS_RESERVED]
      BY <1>4, <3>1 DEF InitializeHandlers
    <3>3. dev' = [dev EXCEPT !.handler =
                    [dev.handler EXCEPT ![Kind] = [Device(dev) EXCEPT !.bus = I3C_BUS_ADDRESS_RESERVED]]]
      BY <2>5, <3>2 DEF Device
    <3>4. /\ dev'.handler = [dev.handler EXCEPT ![Kind] =
                               [Device(dev) EXCEPT !.bus = I3C_BUS_ADDRESS_RESERVED]]
          /\ dev'.lock = dev.lock /\ dev'.default_bus = dev.default_bus
      BY <1>0, <3>3 DEF Dev
    <3>5. Device(dev') = [Device(dev) EXCEPT !.bus = I3C_BUS_ADDRESS_RESERVED]
      BY <1>0, <1>K, <3>4, DevParts DEF Device
    <3>6. Device(dev) \in Handler
      BY <1>0, <1>K, DevParts DEF Device
    <3>7. Device(dev').handle = Device(dev).handle
      BY <3>5, <3>6 DEF Handler
    <3>8. Device(dev').handle = NO_HANDLE
      BY <2>1, <2>5, <3>7
    <3>9. NoneHeld(dev')
      BY <2>1, <3>4 DEF NoneHeld
    <3>10. Consistent(dev', selected')
      BY <2>1, <3>4, <3>8 DEF Consistent
    <3>. QED
      BY <2>3, <3>4, <3>8, <3>9, <3>10
  <2>. QED
    BY <1>K, <2>4, <2>5 DEF HandlerTypes
<1>5. CASE ReceiveMessage
  BY <1>2, <1>5 DEF ReceiveMessage, LockInv
<1>6. CASE EmptyMessage
  BY <1>3, <1>6 DEF EmptyMessage
<1>7. CASE Finish
  BY <1>3, <1>7 DEF Finish
<1>8. ASSUME NEW o \in OpenOutcomes(bus_type(dev.default_bus)), LockDefaultBus(o)
      PROVE  LockInv'
  <2> DEFINE b == dev.default_bus
             d == IF msg.file = 0 THEN Opened(dev, b, o) ELSE dev
             f == msg.file
             more == f + 1 < Count
  <2>1. b \in Buses /\ FileCount(b) = Count /\ o \in Outcomes
    BY <1>0, <1>K, BusType
  <2>2. /\ pc = "lock" /\ UNCHANGED <<initialized, selected>>
        /\ \/ /\ FlockBus(d, b) # NO_HANDLE /\ ~ Blocked(d, b, f)
              /\ dev' = dev_flock(d, b, {f}, "asd")
              /\ msg' = AtFile(IF more THEN f + 1 ELSE 0)
              /\ pc' = (IF more THEN "lock" ELSE "command") /\ failed' = failed
           \/ dev' = d /\ msg' = AtFile(0) /\ pc' = "idle" /\ Note("LOCK_EX", FALSE)
    BY <1>8, <2>1 DEF LockDefaultBus, AtFile
  <2>3. initialized /\ f < Count /\ ("LOCK_UN" \notin failed => Prefix(dev)) /\ OnlyDevice(dev)
    BY <2>2 DEF LockInv
  <2>4. /\ d \in Dev /\ OnlyDevice(d) /\ Consistent(d, selected) /\ Held(d, f)
        /\ "LOCK_UN" \notin failed => Prefix(d)
    <3>1. CASE f = 0
      <4> DEFINE e == Opened(dev, b, o)
      <4>1. d = e
        BY <3>1
      <4>2. e \in Dev
        BY <1>0, <2>1, OpenedEffect
      <4>3. e = dev \/ NoneHeld(e)
        BY <1>0, <2>1, <2>3, OpenedLocks
      <4>4. Consistent(e, selected)
        BY <1>0, <2>1, OpenedConsistent DEF LockInv
      <4>5. OnlyDevice(e) /\ ("LOCK_UN" \notin failed => Prefix(e))
        <5> HIDE DEF e
        <5>. QED
          BY <2>3, <4>3, NoneInOrder
      <4> HIDE DEF e, d
      <4>. QED
        BY <1>H, <3>1, <4>1, <4>2, <4>4, <4>5
    <3>2. CASE f # 0
      <4>1. d = dev
        BY <3>2
      <4> HIDE DEF d
      <4>. QED
        BY <1>0, <2>3, <4>1 DEF LockInv
    <3>. QED
      BY <3>1, <3>2
  <2> HIDE DEF d, b
  <2>5. CASE /\ FlockBus(d, b) # NO_HANDLE /\ ~ Blocked(d, b, f)
             /\ dev' = dev_flock(d, b, {f}, "asd")
             /\ msg' = AtFile(IF more THEN f + 1 ELSE 0)
             /\ pc' = (IF more THEN "lock" ELSE "command") /\ failed' = failed
    <3>1. Device(d).handle # NO_HANDLE
      BY <1>0, <2>1, <2>5, OneKind
    <3>2. /\ OnlyDevice(dev') /\ (Prefix(d) => Prefix(dev')) /\ Held(dev', f + 1)
      BY <1>0, <2>1, <2>3, <2>4, <2>5, <3>1, LockNext
    <3>3. Consistent(dev', selected) /\ (Used(d) => Used(dev'))
      BY <1>0, <2>1, <2>4, <2>5, FlockConsistent
    <3>4. Used(d)
      BY <1>0, <2>4, <3>1, DevParts DEF Used, Consistent
    <3>5. CASE more
      <4>1. f + 1 \in Files
        BY <1>0, <2>1, <3>5, NextFile
      <4>2. msg'.file = f + 1
        <5>1. PICK g \in Files : g = f + 1
          BY <4>1
        <5>2. AtFile(g).file = g
          BY <1>0, FileType
        <5>. QED
          BY <2>5, <3>5, <5>1, <5>2
      <4>. QED
        BY <1>2, <2>2, <2>3, <2>4, <2>5, <3>2, <3>3, <3>5, <4>2
    <3>6. CASE ~ more
      <4>1. msg'.file = 0
        BY <1>0, <2>5, <3>6, FileType, NextFile
      <4>2. f + 1 = Count
        BY <1>0, <1>K, <2>3, <3>6
      <4>. QED
        BY <1>2, <1>H, <2>2, <2>3, <2>4, <2>5, <3>2, <3>3, <3>4, <3>6, <4>1, <4>2
    <3>. QED
      BY <3>5, <3>6
  <2>6. CASE dev' = d /\ msg' = AtFile(0) /\ pc' = "idle" /\ Note("LOCK_EX", FALSE)
    <3>1. msg'.file = 0
      BY <1>0, <2>6, FileType, NextFile
    <3>2. failed' = IF NoneHeld(dev') THEN {} ELSE failed \cup {"LOCK_EX"}
      BY <2>6 DEF Note
    <3>3. "LOCK_UN" \notin failed' => Prefix(dev')
      BY <2>4, <2>6, <3>2, NoneInOrder
    <3>. QED
      BY <1>2, <1>H, <2>2, <2>3, <2>4, <2>6, <3>1, <3>2, <3>3
  <2>. QED
    BY <2>2, <2>5, <2>6
<1>9. ASSUME NEW o \in OpenOutcomes(bus_type(dev.default_bus)),
             NEW n \in 0 .. FileCount(dev.default_bus), UnlockDefaultBus(o, n)
      PROVE  LockInv'
  <2> DEFINE b == dev.default_bus
  <2>1. b \in Buses /\ FileCount(b) = Count /\ o \in Outcomes /\ n \in Nat
    BY <1>0, <1>K, BusType
  <2>2. /\ pc = "unlock" /\ dev' = Unlocked(Opened(dev, b, o), b, n) /\ msg' = NoMessage
        /\ pc' = "idle" /\ UNCHANGED <<initialized, selected>> /\ Note("LOCK_UN", n = FileCount(b))
    BY <1>9 DEF UnlockDefaultBus
  <2>3. initialized /\ Used(dev) /\ OnlyDevice(dev) /\ Consistent(dev, selected)
    BY <2>2 DEF LockInv
  <2>4. dev' = Unlocked(dev, b, n)
    BY <1>0, <2>1, <2>2, <2>3, OpenedUsed
  <2> HIDE DEF b
  <2>5. OnlyDevice(dev') /\ (n = Count => NoneHeld(dev'))
    BY <1>0, <2>1, <2>3, <2>4, UnlockLocks
  <2>6. Consistent(dev', selected')
    BY <1>0, <2>1, <2>2, <2>3, <2>4, FlockConsistent DEF Unlocked
  <2>7. failed' = IF NoneHeld(dev') THEN {} ELSE IF n = Count THEN failed ELSE failed \cup {"LOCK_UN"}
    BY <2>1, <2>2 DEF Note
  <2>8. /\ "LOCK_UN" \notin failed' => Prefix(dev')
        /\ failed' = {} => NoneHeld(dev')
    BY <2>5, <2>7, NoneInOrder
  <2>9. msg'.file = 0
    BY <2>2 DEF NoMessage
  <2>. QED
    BY <1>2, <1>H, <2>2, <2>3, <2>5, <2>6, <2>8, <2>9
<1>10. ASSUME NEW o \in OpenOutcomes(bus_type(dev.default_bus)), NEW last \in BOOLEAN,
              SelectDefaultBus(last, o)
       PROVE  LockInv'
  <2> DEFINE b == dev.default_bus
             e == bus_select(dev, Kind, b, o)
  <2>0. o \in Outcomes /\ bus_type(b) = Kind /\ b \in Buses
    BY <1>0, <1>K, BusType
  <2>1. /\ pc = "command" /\ dev' = e /\ UNCHANGED <<initialized, failed>>
        /\ selected' = (IF bus_select_ok(dev, Kind, b, o) THEN b ELSE selected)
        /\ msg' = NextCommand(last) /\ pc' = AfterCommand(NextCommand(last))
    BY <1>10, <2>0 DEF SelectDefaultBus, InLoop
  <2>2. msg'.switched = msg.switched /\ msg'.file = 0
    <3>1. InLoop(last)
      BY <1>10 DEF SelectDefaultBus
    <3>. QED
      BY <2>1, <3>1, NextCommandType DEF LockInv
  <2>3. /\ initialized /\ Used(dev) /\ OnlyDevice(dev)
        /\ "LOCK_UN" \notin failed => Prefix(dev)
    BY <2>1 DEF LockInv
  <2>4. e = dev \/ NoneHeld(e)
    BY <1>0, <2>0, <2>3, SelectLocks
  <2>5. Consistent(dev', selected') /\ Used(e)
    BY <1>0, <2>0, <2>1, <2>3, SelectConsistent, SelectUsed DEF LockInv
  <2>6. pc' \in {"flush", "finish", "command"}
    BY <2>1, AfterCommandType
  <2>7. ~ msg.switched => Held(dev, Count) /\ e = dev
    <3>. SUFFICES ASSUME ~ msg.switched PROVE Held(dev, Count) /\ e = dev
      OBVIOUS
    <3>1. Held(dev, Count)
      BY <2>1 DEF LockInv
    <3>2. Device(dev).handle # NO_HANDLE
      BY <1>K, <3>1 DEF Held
    <3>3. Device(dev).bus = b
      BY <3>2 DEF LockInv, Consistent
    <3>. QED
      BY <1>0, <2>0, <3>1, <3>3, KindSelect
  <2> HIDE DEF e, b
  <2>8. OnlyDevice(dev') /\ ("LOCK_UN" \notin failed => Prefix(dev'))
    BY <2>1, <2>3, <2>4, NoneInOrder
  <2>. QED
    BY <1>2, <1>H, <2>1, <2>2, <2>3, <2>5, <2>6, <2>7, <2>8
<1>11. ASSUME NEW last \in BOOLEAN, NEW b \in Buses \cup {OTHER_BUS},
              NEW n \in 0 .. FileCount(dev.default_bus), SelectBus(b, last, n)
       PROVE  LockInv'
  <2> DEFINE c == dev.default_bus
  <2>0. c \in Buses /\ FileCount(c) = Count /\ n \in Nat
    BY <1>0, <1>K
  <2>1. /\ pc = "command" /\ pc' = "relock" /\ UNCHANGED <<initialized, selected>>
        /\ dev' = Unlocked(dev, c, n) /\ Note("LOCK_UN", n = FileCount(c))
    BY <1>11 DEF SelectBus, InLoop
  <2>2. msg'.switched /\ msg'.file = 0
    <3>1. NextCommand(last) \in Msg /\ NextCommand(last).file = msg.file
          /\ msg' = [NextCommand(last) EXCEPT !.bus = b, !.switched = TRUE]
      BY <1>11, NextCommandType DEF SelectBus
    <3>2. msg.file = 0
      BY <2>1 DEF LockInv
    <3>. QED
      BY <3>1, <3>2 DEF Msg
  <2>3. initialized /\ Used(dev) /\ OnlyDevice(dev) /\ Consistent(dev, selected)
    BY <2>1 DEF LockInv
  <2> HIDE DEF c
  <2>4. OnlyDevice(dev')
    BY <1>0, <2>0, <2>1, <2>3, UnlockLocks
  <2>5. Consistent(dev', selected') /\ Used(dev')
    BY <1>0, <2>0, <2>1, <2>3, FlockConsistent DEF Unlocked
  <2>6. n = Count => NoneHeld(dev')
    BY <1>0, <2>0, <2>1, <2>3, UnlockLocks
  <2>7. failed' = IF NoneHeld(dev') THEN {} ELSE IF n = Count THEN failed ELSE failed \cup {"LOCK_UN"}
    BY <2>0, <2>1 DEF Note
  <2>8. "LOCK_UN" \notin failed' => Prefix(dev')
    BY <2>6, <2>7, NoneInOrder
  <2>. QED
    BY <1>2, <1>H, <2>1, <2>2, <2>3, <2>4, <2>5, <2>8
<1>12. ASSUME NEW p \in OpenOutcomes(bus_type(msg.bus)), NEW o \in OpenOutcomes(bus_type(msg.bus)),
              RelockAndSelect(p, o)
       PROVE  LockInv'
  <2> DEFINE b == msg.bus
             f == msg.file
             e == IF f = 0 THEN Opened(dev, b, p) ELSE dev
             d == dev_flock(dev, b, {f}, "asd")
  <2>1. p \in Outcomes /\ o \in Outcomes
    BY <1>0, BusType
  <2>2. pc = "relock"
    BY <1>12 DEF RelockAndSelect
  <2>3. /\ initialized /\ msg.switched /\ Used(dev) /\ OnlyDevice(dev) /\ Consistent(dev, selected)
        /\ f < Count /\ Held(dev, f) /\ ("LOCK_UN" \notin failed => Prefix(dev))
    BY <2>2 DEF LockInv
  <2>4. e = dev
    BY <1>0, <2>1, <2>3, OpenedUsed
  <2>5. /\ UNCHANGED initialized
        /\ \/ /\ FlockBus(e, b) # NO_HANDLE /\ ~ Blocked(e, b, f) /\ failed' = failed
              /\ \/ /\ f + 1 < FileCount(b) /\ dev' = dev_flock(e, b, {f}, "asd")
                    /\ msg' = AtFile(f + 1) /\ UNCHANGED <<pc, selected>>
                 \/ /\ dev' = bus_select(dev_flock(e, b, {f}, "asd"), bus_type(b), b, o)
                    /\ selected' = IF bus_select_ok(dev_flock(e, b, {f}, "asd"), bus_type(b), b, o)
                                   THEN b ELSE selected
                    /\ msg' = AtFile(0) /\ pc' = AfterCommand(AtFile(0))
           \/ /\ dev' = e /\ msg' = AtFile(0) /\ pc' = AfterCommand(AtFile(0))
              /\ failed' = failed \cup {"LOCK_EX"} /\ UNCHANGED selected
    BY <1>12 DEF RelockAndSelect, AtFile
  <2> HIDE DEF e
  <2>6. /\ AtFile(0).file = 0 /\ AtFile(0).switched = msg.switched
        /\ AfterCommand(AtFile(0)) \in {"flush", "finish", "command"}
    BY <1>0, FileType, NextFile, AfterCommandType
  <2>7. CASE /\ FlockBus(dev, b) # NO_HANDLE /\ ~ Blocked(dev, b, f)
             /\ failed' = failed
             /\ \/ /\ f + 1 < FileCount(b) /\ dev' = d
                   /\ msg' = AtFile(f + 1) /\ UNCHANGED <<pc, selected>>
                \/ /\ dev' = bus_select(d, bus_type(b), b, o)
                   /\ selected' = IF bus_select_ok(d, bus_type(b), b, o) THEN b ELSE selected
                   /\ msg' = AtFile(0) /\ pc' = AfterCommand(AtFile(0))
    <3>1. b \in Buses /\ Device(dev).handle # NO_HANDLE
      BY <1>0, <2>7, OneKind
    <3>2. bus_type(b) = Kind /\ FileCount(b) = Count
      BY <1>K, <3>1
    <3>3. d \in Dev
      BY <1>0, FlockEffect
    <3>4. OnlyDevice(d) /\ (Prefix(dev) => Prefix(d)) /\ Held(d, f + 1)
      BY <1>0, <2>3, <2>7, <3>1, LockNext
    <3>5. Consistent(d, selected) /\ Used(d)
      BY <1>0, <2>3, <3>1, FlockConsistent
    <3> HIDE DEF d, b, f
    <3>6. CASE f + 1 < FileCount(b) /\ dev' = d /\ msg' = AtFile(f + 1) /\ UNCHANGED <<pc, selected>>
      <4>1. PICK g \in Files : g = f + 1
        BY <1>0, <3>6, NextFile DEF f
      <4>2. AtFile(g).file = g /\ AtFile(g).switched = msg.switched
        BY <1>0, FileType
      <4>. QED
        BY <1>2, <2>2, <2>3, <2>5, <2>7, <3>2, <3>4, <3>5, <3>6, <4>1, <4>2
    <3>7. CASE /\ dev' = bus_select(d, bus_type(b), b, o)
               /\ selected' = IF bus_select_ok(d, bus_type(b), b, o) THEN b ELSE selected
               /\ msg' = AtFile(0) /\ pc' = AfterCommand(AtFile(0))
      <4>1. /\ dev' = bus_select(d, Kind, b, o)
            /\ selected' = IF bus_select_ok(d, Kind, b, o) THEN b ELSE selected
        BY <3>2, <3>7
      <4>2. Consistent(dev', selected') /\ Used(dev')
        BY <1>0, <2>1, <3>1, <3>3, <3>5, <4>1, SelectConsistent, SelectUsed
      <4>3. dev' = d \/ NoneHeld(dev')
        BY <1>0, <2>1, <3>1, <3>3, <3>4, <4>1, SelectLocks
      <4>4. OnlyDevice(dev') /\ ("LOCK_UN" \notin failed' => Prefix(dev'))
        BY <2>3, <2>7, <3>4, <4>3, NoneInOrder
      <4>. QED
        BY <1>2, <1>H, <2>3, <2>5, <2>6, <3>7, <4>2, <4>4
    <3>. QED
      BY <2>7, <3>6, <3>7
  <2>8. CASE /\ dev' = dev /\ msg' = AtFile(0) /\ pc' = AfterCommand(AtFile(0))
             /\ failed' = failed \cup {"LOCK_EX"} /\ UNCHANGED selected
    BY <1>2, <1>H, <2>3, <2>5, <2>6, <2>8
  <2>. QED
    BY <2>4, <2>5, <2>7, <2>8
<1>13. CASE SelectShort \/ \E last \in BOOLEAN : SetSclk(last)
  <2>1. PICK last \in BOOLEAN :
          /\ InLoop(last) /\ msg' = NextCommand(last) /\ pc' = AfterCommand(NextCommand(last))
          /\ UNCHANGED <<dev, initialized, selected, failed>>
    BY <1>13 DEF SelectShort, SetSclk
  <2>2. msg'.switched = msg.switched /\ msg'.file = msg.file /\ pc = "command"
    BY <2>1, NextCommandType DEF InLoop
  <2>3. pc' \in {"flush", "finish", "command"}
    BY <2>1, AfterCommandType
  <2>. QED
    BY <1>3, <2>1, <2>2, <2>3
<1>14. ASSUME NEW last \in BOOLEAN, NEW stop \in BOOLEAN, QueueReadWrite(last, stop)
       PROVE  LockInv'
  <2> DEFINE n == NextCommand(last)
             m == [n EXCEPT !.queued = @ + 1, !.pending = TRUE, !.stop = stop]
  <2>1. n \in Msg /\ n.switched = msg.switched /\ n.file = msg.file
    BY <1>14, NextCommandType DEF QueueReadWrite
  <2>2. /\ msg' = m /\ pc' = AfterCommand(m) /\ UNCHANGED <<dev, initialized, selected, failed>>
        /\ pc = "command"
    BY <1>14 DEF QueueReadWrite, InLoop
  <2> HIDE DEF n
  <2>3. m.switched = n.switched /\ m.file = n.file
    BY <2>1 DEF Msg
  <2> HIDE DEF m
  <2>4. pc' \in {"flush", "finish", "command"}
    BY <2>2, AfterCommandType
  <2>. QED
    BY <1>3, <2>1, <2>2, <2>3, <2>4
<1>15. CASE CommandFails
  <2>1. InLoop(TRUE) /\ msg' = NextCommand(TRUE) /\ pc' = "unlock"
        /\ UNCHANGED <<dev, initialized, selected, failed>>
    BY <1>15 DEF CommandFails
  <2>2. msg'.file = msg.file /\ pc = "command"
    BY <2>1, NextCommandType DEF InLoop
  <2>. QED
    BY <1>3, <2>1, <2>2
<1>16. ASSUME NEW sent \in BOOLEAN, Flush(sent)
       PROVE  LockInv'
  <2> DEFINE m == [msg EXCEPT !.queued = 0, !.pending = FALSE, !.stop = FALSE]
             l == [m EXCEPT !.queued = msg.queued]
  <2>1. m.switched = msg.switched /\ m.file = msg.file /\ l.file = msg.file
    BY <1>0 DEF Msg
  <2>2. /\ UNCHANGED <<dev, initialized, selected, failed>> /\ pc = "flush"
        /\ \/ msg' = m /\ pc' = AfterCommand(m)
           \/ msg' = l /\ pc' = "unlock"
    BY <1>16 DEF Flush
  <2> HIDE DEF m, l
  <2>3. \/ msg' = m /\ pc' \in {"flush", "finish", "command"}
        \/ msg' = l /\ pc' = "unlock"
    BY <2>2, AfterCommandType
  <2>. QED
    BY <1>3, <2>1, <2>2, <2>3
<1>17. ASSUME NEW h \in FreshHandlers, NewClient(h)
       PROVE  LockInv'
  <2> DEFINE c == close_driver(dev, "BUS_CONFIG_I2C")
             e == close_driver(c, "BUS_CONFIG_I3C")
  <2>0. "BUS_CONFIG_I2C" \in HandlerTypes /\ "BUS_CONFIG_I3C" \in HandlerTypes
    BY DEF HandlerTypes
  <2>1. /\ c \in Dev /\ c.default_bus = dev.default_bus /\ c.lock = LockAfterClose(dev, "BUS_CONFIG_I2C")
        /\ c.handler = [dev.handler EXCEPT !["BUS_CONFIG_I2C"] =
                          [bus |-> dev.handler["BUS_CONFIG_I2C"].bus, handle |-> NO_HANDLE]]
    BY <1>0, <2>0, CloseEffect
  <2>2. /\ pc \in {"idle", "closed"} /\ pc' = "idle" /\ dev' = [e EXCEPT !.handler = h]
        /\ initialized' = FALSE /\ selected' = dev.default_bus /\ failed' = {} /\ msg' = msg
    BY <1>17 DEF NewClient
  <2>3. \A x \in Buses, f \in Files :
          c.lock[x][f] = "asd" => dev.lock[x][f] = "asd" /\ x # dev.handler["BUS_CONFIG_I2C"].handle
    BY <1>0, <2>0, <2>1, ClosedLocks
  <2>4. c.handler["BUS_CONFIG_I3C"] = dev.handler["BUS_CONFIG_I3C"]
    BY <1>0, <2>0, <2>1, DevParts
  <2> HIDE DEF c
  <2>5. e \in Dev /\ e.default_bus = c.default_bus /\ e.lock = LockAfterClose(c, "BUS_CONFIG_I3C")
    BY <2>0, <2>1, CloseEffect
  <2>6. \A x \in Buses, f \in Files :
          e.lock[x][f] = "asd" => c.lock[x][f] = "asd" /\ x # dev.handler["BUS_CONFIG_I3C"].handle
    <3>1. \A x \in Buses, f \in Files :
            LockAfterClose(c, "BUS_CONFIG_I3C")[x][f] = "asd" =>
              c.lock[x][f] = "asd" /\ x # c.handler["BUS_CONFIG_I3C"].handle
      BY <2>0, <2>1, ClosedLocks
    <3> HIDE DEF e
    <3>. QED
      BY <2>4, <2>5, <3>1
  <2> HIDE DEF e
  <2>7. dev'.handler = h /\ dev'.lock = e.lock /\ dev'.default_bus = e.default_bus
    BY <2>2, <2>5 DEF Dev
  <2>8. NoneHeld(dev')
    <3>1. \A x \in Buses, f \in Files : dev.lock[x][f] = "asd" => x = dev.handler[Kind].handle
      BY DEF LockInv, OnlyDevice, Device
    <3>2. Kind = "BUS_CONFIG_I2C" \/ Kind = "BUS_CONFIG_I3C"
      BY <1>K DEF HandlerTypes
    <3>. QED
      BY <2>3, <2>6, <2>7, <3>1, <3>2 DEF NoneHeld
  <2>9. Device(dev').handle = NO_HANDLE
    BY <1>K, <2>7 DEF Device, FreshHandlers
  <2>10. selected' = dev'.default_bus /\ msg'.file = 0
    BY <2>1, <2>2, <2>5, <2>7 DEF LockInv
  <2>11. Consistent(dev', selected')
    BY <2>9, <2>10 DEF Consistent
  <2>. QED
    BY <1>2, <1>H, <2>2, <2>8, <2>9, <2>10, <2>11, NoneInOrder
<1>18. ASSUME NEW b \in Buses, NEW f \in Files, OtherLocks(b, f) \/ OtherUnlocks(b, f)
       PROVE  LockInv'
  <2>1. PICK owner \in {"free", "other"} : dev' = [dev EXCEPT !.lock = OtherLock(dev, b, f, owner)]
    BY <1>18 DEF OtherLocks, OtherUnlocks, OtherLock
  <2>2. dev.lock[b][f] # "asd" /\ UNCHANGED <<initialized, pc, msg, selected, failed>>
    BY <1>18 DEF OtherLocks, OtherUnlocks
  <2>3. /\ dev'.handler = dev.handler /\ dev'.default_bus = dev.default_bus
        /\ dev'.lock = OtherLock(dev, b, f, owner)
    BY <1>0, <2>1 DEF Dev
  <2>4. \A x \in Buses, g \in Files : dev'.lock[x][g] = "asd" <=> dev.lock[x][g] = "asd"
    BY <1>0, <2>2, <2>3, DevParts DEF OtherLock
  <2>5. Device(dev') = Device(dev) /\ Device(dev).handle \in Buses \cup {NO_HANDLE}
    BY <1>0, <2>3, DeviceType DEF Device
  <2>6. /\ OnlyDevice(dev) => OnlyDevice(dev')
        /\ Prefix(dev) => Prefix(dev')
        /\ NoneHeld(dev) => NoneHeld(dev')
    BY <2>4, <2>5 DEF NoneHeld, OnlyDevice, Prefix
  <2>7. /\ Consistent(dev, selected) => Consistent(dev', selected')
        /\ Used(dev) => Used(dev')
    BY <2>2, <2>3, <2>5 DEF Consistent, Used
  <2>8. /\ Held(dev, msg.file) => Held(dev', msg'.file)
        /\ Held(dev, Count) => Held(dev', Count)
    BY <2>2, <2>4, <2>5 DEF Held
  <2>. QED
    BY <1>2, <2>2, <2>3, <2>5, <2>6, <2>7, <2>8 DEF LockInv
<1>. QED
  BY <1>4, <1>5, <1>6, <1>7, <1>8, <1>9, <1>10, <1>11, <1>12, <1>13, <1>14, <1>15, <1>16, <1>17, <1>18
  DEF Next, Step

\* The lock invariant holds in every state of a board of one bus type.
LEMMA LockInvAlways ==
  ASSUME Homogeneous
  PROVE  Spec => []LockInv
<1>1. Init => LockInv
  <2>. SUFFICES ASSUME Init PROVE LockInv
    OBVIOUS
  <2>1. PICK h \in FreshHandlers :
          dev = [handler |-> h, default_bus |-> DEFAULT_BUS,
                 lock |-> [b \in Buses |-> [f \in Files |-> "free"]]]
    BY DEF Init
  <2>2. Kind \in HandlerTypes /\ Count \in Nat \ {0}
    BY OneKind, KindFiles DEF Init
  <2>3. Device(dev).handle = NO_HANDLE
    BY <2>1, <2>2 DEF Device, FreshHandlers
  <2>4. NoneHeld(dev) /\ dev.default_bus = DEFAULT_BUS
    BY <2>1 DEF NoneHeld
  <2>5. pc = "idle" /\ selected = DEFAULT_BUS /\ msg.file = 0
    BY DEF Init, NoMessage
  <2>6. Consistent(dev, selected)
    BY <2>3, <2>4, <2>5 DEF Consistent
  <2>7. Held(dev, msg.file) /\ msg.file < Count
    BY <2>2, <2>5 DEF Held
  <2>. QED
    BY <2>3, <2>4, <2>5, <2>6, <2>7, NoneInOrder DEF LockInv
<1>2. TypeOK /\ LockInv /\ [Next]_vars => LockInv'
  <2>1. TypeOK /\ LockInv /\ UNCHANGED vars => LockInv'
    BY DEF LockInv, OnlyDevice, NoneHeld, Prefix, Held, Used, Consistent, Device, Kind, Count, vars
  <2>. QED
    BY <2>1, LockInvStep
<1>. QED
  BY <1>1, <1>2, I2cTypeOK, PTL DEF Spec

\* Between two messages the daemon has no file locked, whatever went wrong in
\* the last one but a flock() half way through the files of a bus, on a board
\* with buses of one type.
THEOREM I2cIdleHoldsNothing ==
  ASSUME Homogeneous
  PROVE  Spec => []IdleHoldsNothing
<1>1. LockInv => IdleHoldsNothing
  BY DEF LockInv, IdleHoldsNothing
<1>. QED
  BY <1>1, LockInvAlways, PTL

\* While the daemon waits for a device file it holds only earlier files of the
\* same bus, unless an unlock failed, on a board with buses of one type, with any
\* number of files of a bus: no circle of programs that lock the files in this
\* order goes through it.
THEOREM I2cWaitsInOrder ==
  ASSUME Homogeneous
  PROVE  Spec => []WaitsInOrder
<1>1. TypeOK /\ LockInv => WaitsInOrder
  <2> DEFINE b == IF pc = "lock" THEN dev.default_bus ELSE msg.bus
  <2>. SUFFICES ASSUME TypeOK, LockInv, "LOCK_UN" \notin failed, NEW o \in OpenOutcomes(bus_type(b)),
                       NEW d, d = IF msg.file = 0 THEN Opened(dev, b, o) ELSE dev,
                       Blocked(d, b, msg.file), NEW x \in Buses, NEW f \in Files,
                       d.lock[x][f] = "asd"
                PROVE  x = FlockBus(d, b) /\ f < msg.file
    BY DEF WaitsInOrder
  <2>1. bus_config_type \in BusTypes /\ dev \in Dev /\ msg.file \in Files /\ o \in Outcomes
    BY BusType, NextFile DEF TypeOK
  <2>2. OnlyDevice(d) /\ Prefix(d)
    <3>1. Opened(dev, b, o) = dev \/ NoneHeld(Opened(dev, b, o))
      BY <2>1, OpenedLocks DEF LockInv
    <3>2. d = dev \/ NoneHeld(d)
      BY <3>1
    <3>. QED
      BY <3>2, NoneInOrder DEF LockInv
  <2> HIDE DEF b
  <2>3. b \in Buses /\ FlockBus(d, b) = Device(d).handle /\ d.lock[Device(d).handle][msg.file] = "other"
    BY <2>1, OneKind DEF Blocked
  <2>4. x = Device(d).handle
    BY <2>2 DEF OnlyDevice
  <2>5. f # msg.file /\ ~ (msg.file < f)
    BY <2>1, <2>2, <2>3, <2>4 DEF Prefix
  <2>. QED
    BY <2>1, <2>3, <2>4, <2>5 DEF Files
<1>. QED
  BY <1>1, I2cTypeOK, LockInvAlways, PTL

\* Reads and writes go to the bus of the last select that was answered ST_OK,
\* on a board with buses of one type.
THEOREM I2cTransferOnSelectedBus ==
  ASSUME Homogeneous
  PROVE  Spec => []TransferOnSelectedBus
<1>1. TypeOK /\ LockInv => TransferOnSelectedBus
  <2>. SUFFICES ASSUME TypeOK, LockInv PROVE TransferOnSelectedBus
    OBVIOUS
  <2>1. TransferBus = Device(dev).handle
    BY OneKind, DevParts DEF TypeOK, TransferBus
  <2>. QED
    BY <2>1 DEF LockInv, Consistent, TransferOnSelectedBus
<1>. QED
  BY <1>1, I2cTypeOK, LockInvAlways, PTL

\* A message that stays on its first bus transfers with all files of that bus
\* locked, on a board with buses of one type.
THEOREM I2cTransferLockedOnFirstBus ==
  ASSUME Homogeneous
  PROVE  Spec => []TransferLockedOnFirstBus
<1>1. TypeOK /\ LockInv => TransferLockedOnFirstBus
  <2>. SUFFICES ASSUME TypeOK, LockInv, pc = "flush", TransferBus # NO_HANDLE, ~ msg.switched
                PROVE  TransferBusLocked
    BY DEF TransferLockedOnFirstBus
  <2>1. bus_config_type \in BusTypes /\ dev \in Dev
    BY DEF TypeOK
  <2>2. TransferBus = Device(dev).handle /\ TransferBus \in Buses
    BY <2>1, OneKind, DevParts, DeviceType DEF TransferBus
  <2>3. FileCount(TransferBus) = Count /\ Count \in Nat \ {0} /\ Count =< i3C_MAX_DEV_HANDLERS
    BY <2>1, <2>2, KindFiles
  <2>4. \A f \in Files : f < Count => dev.lock[TransferBus][f] = "asd"
    BY <2>2, <2>3 DEF LockInv, Held
  <2>5. \A f \in 0 .. Count - 1 : f \in Files /\ f < Count
    BY <2>3 DEF Files
  <2>. QED
    BY <2>3, <2>4, <2>5 DEF TransferBusLocked
<1>. QED
  BY <1>1, I2cTypeOK, LockInvAlways, PTL
===============================================================================
