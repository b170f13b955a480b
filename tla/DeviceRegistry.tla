----------------------------- MODULE DeviceRegistry -----------------------------
(***************************************************************************)
(* The sensors of the I2C bus and the registry that knows them             *)
(* (src/src/devices.rs and the drivers it calls), as the set of things a   *)
(* command can do: an operator takes the board and returns every pair of   *)
(* the board it can leave and the reply it can give.  One task executes    *)
(* the commands, one at a time (I2cService), so that nobody sees a command *)
(* half done; but any of its bus transfers may fail, and what had been     *)
(* written by then stays written.                                          *)
(*                                                                         *)
(* A sensor is "asleep" until it is initialised, "started" afterwards, and *)
(* "unknown" when a command was broken off in the middle or somebody wrote *)
(* to it without its driver.  Measured values are left out.                *)
(***************************************************************************)
EXTENDS Integers

CONSTANTS
  MAX_DEVICES,
  Sensors,         \* the sensors wired to the bus: [address -> kind]
  CapacityInputs   \* battery capacities a client may ask for, in mAh

DeviceKinds == {"AMG8833", "BME688", "BNO08X", "LC709203F", "PCT2075",
                "SEESAW_ENCODER", "VL53L4CD"}

DeviceAddresses == 8..119

ASSUME RegistryAssumption ==
  /\ MAX_DEVICES \in Nat \ {0}
  /\ DOMAIN Sensors \subseteq DeviceAddresses
  /\ \A a \in DOMAIN Sensors : Sensors[a] \in DeviceKinds
  /\ CapacityInputs \subseteq Nat \ {0}

DeviceSlots == 1..MAX_DEVICES

EmptyEntry == [kind |-> "NONE", address |-> 0]

NoCapacity == 0

\* The addresses the add arm of a kind accepts, once the range is checked.
AddressesOf(kind) ==
  CASE kind = "BME688" -> {118, 119}
    [] kind = "BNO08X" -> {74, 75}
    [] kind = "LC709203F" -> {11}
    [] kind = "SEESAW_ENCODER" -> 54..61
    [] OTHER -> DeviceAddresses

\* The drivers that look at an identity while they initialise their sensor.
ChecksIdentity(kind) == kind \notin {"AMG8833", "PCT2075"}

\* What the driver of a kind can fail with once its sensor is running.
TransferErrors(kind) ==
  {"Bus"} \cup
  (IF kind = "BME688" THEN {"MeasurementInvalid"} ELSE {}) \cup
  (IF kind \in {"BNO08X", "VL53L4CD"} THEN {"MeasurementInvalid", "Timeout"} ELSE {})

\* The first heater cycle of a BME688 may be invalid, and is ignored.
InitErrors(kind) ==
  (TransferErrors(kind) \ (IF kind = "BME688" THEN {"MeasurementInvalid"} ELSE {}))
    \cup (IF ChecksIdentity(kind) THEN {"InvalidIdentity"} ELSE {})

\* The board at power-on: an empty registry, sensors as they came up.
FreshBoard ==
  [entries     |-> [s \in DeviceSlots |-> EmptyEntry],
   capacity    |-> [s \in DeviceSlots |-> NoCapacity],
   calibration |-> [s \in DeviceSlots |-> FALSE],
   power       |-> [a \in DOMAIN Sensors |-> "asleep"],
   profile     |-> [a \in DOMAIN Sensors |-> NoCapacity]]

Boards ==
  [entries     : [DeviceSlots -> {EmptyEntry} \cup
                    [kind : DeviceKinds, address : DeviceAddresses]],
   capacity    : [DeviceSlots -> {NoCapacity} \cup CapacityInputs],
   calibration : [DeviceSlots -> BOOLEAN],
   power       : [DOMAIN Sensors -> {"asleep", "started", "unknown"}],
   profile     : [DOMAIN Sensors -> {NoCapacity, -1} \cup CapacityInputs]]

Torn == -1   \* the profile of a gauge that was written in part

Done(b, type, value) == [board |-> b, reply |-> [type |-> type, value |-> value]]

Failed(b, error) == Done(b, "DeviceError", error)

\* DeviceRegistry::get: the error of a slot that names no device.
SlotError(b, slot) ==
  IF slot \notin DeviceSlots THEN "InvalidSlot"
  ELSE IF b.entries[slot] = EmptyEntry THEN "SlotEmpty" ELSE "none"

\* Mutant: an address may be registered twice.
AddErrorShared(b, slot, kind, address) ==
  IF slot \notin DeviceSlots THEN "InvalidSlot"
  ELSE IF b.entries[slot] # EmptyEntry THEN "SlotOccupied"
  ELSE IF address \notin AddressesOf(kind) THEN "InvalidAddress" ELSE "none"

\* validate_add, and the address check in the arm of the kind.
AddError(b, slot, kind, address) ==
  IF slot \notin DeviceSlots THEN "InvalidSlot"
  ELSE IF b.entries[slot] # EmptyEntry THEN "SlotOccupied"
  ELSE IF address \notin DeviceAddresses THEN "InvalidAddress"
  ELSE IF \E s \in DeviceSlots : b.entries[s].address = address THEN "AddressInUse"
  ELSE IF address \notin AddressesOf(kind) THEN "InvalidAddress" ELSE "none"

\* DeviceRegistry::insert, with the calibration a BME688 has handed over.
Insert(b, slot, kind, address) ==
  [b EXCEPT !.entries[slot] = [kind |-> kind, address |-> address],
            !.calibration[slot] = (kind = "BME688")]

\* What f becomes when the given elements of its domain are set to value.
Reset(f, elements, value) == [x \in DOMAIN f |-> IF x \in elements THEN value ELSE f[x]]

\* Mutant: the battery capacity stays with the slot.
ForgetEntry(b, slots) ==
  [b EXCEPT !.entries = Reset(@, slots, EmptyEntry),
            !.calibration = Reset(@, slots, FALSE)]

\* DeviceRegistry::remove, of each of the slots: the entry goes, and what was
\* kept for its device.
Forget(b, slots) ==
  [b EXCEPT !.entries = Reset(@, slots, EmptyEntry),
            !.capacity = Reset(@, slots, NoCapacity),
            !.calibration = Reset(@, slots, FALSE)]

\* The boards a driver can leave that gave up: the sensor as it was, or
\* somewhere between two states.
GivenUp(b, address) == {b, [b EXCEPT !.power[address] = "unknown"]}

\* initialize of the driver of the kind: a sensor of another kind is noticed by
\* the drivers that check the identity, a missing one by all of them.
InitializedBoards(b, kind, address) ==
  IF address \notin DOMAIN Sensors THEN {}
  ELSE IF Sensors[address] = kind THEN {[b EXCEPT !.power[address] = "started"]}
  ELSE IF ChecksIdentity(kind) THEN {} ELSE {[b EXCEPT !.power[address] = "unknown"]}

FailedInitBoards(b, kind, address) ==
  IF address \notin DOMAIN Sensors THEN {Failed(b, "Bus")}
  ELSE {Failed(left, e) : left \in GivenUp(b, address), e \in InitErrors(kind)}

\* add: the entry is inserted once the sensor has been initialised.
DeviceAdd(b, slot, kind, address) ==
  LET error == AddError(b, slot, kind, address)
  IN  IF error # "none" THEN {Failed(b, error)}
      ELSE {Done(Insert(i, slot, kind, address), "DeviceConfig", kind) :
              i \in InitializedBoards(b, kind, address)}
           \cup FailedInitBoards(b, kind, address)

\* The board after the sensors of the slots have been sent to sleep.
Asleep(b, slots) ==
  [b EXCEPT !.power = Reset(@, {b.entries[s].address : s \in slots}, "asleep")]

SleepFailures(b, slot) ==
  {Failed(left, "Bus") :
     left \in IF b.entries[slot].kind \in {"BME688", "VL53L4CD"}
                /\ b.entries[slot].address \in DOMAIN Sensors
             THEN GivenUp(b, b.entries[slot].address) ELSE {b}}

\* remove: the sensor is sent to sleep before the entry goes, and stays
\* registered when that fails.  Most drivers do it in a single write.
DeviceRemove(b, slot) ==
  IF SlotError(b, slot) # "none" THEN {Failed(b, SlotError(b, slot))}
  ELSE {Done(Forget(Asleep(b, {slot}), {slot}), "DeviceRemoved", b.entries[slot].kind)}
       \cup SleepFailures(b, slot)

\* clear: remove of the slots in order, up to the first that fails.
DeviceClear(b) ==
  LET used == {s \in DeviceSlots : b.entries[s] # EmptyEntry}
      without(slots) == Forget(Asleep(b, slots), slots)
  IN  {Done(without(used), "DeviceCleared", "none")} \cup
      UNION {SleepFailures(without({s \in used : s < f}), f) : f \in used}

\* The measurements, with the kinds of device each of them is for.
MeasuredKinds ==
  [MeasureDistance            |-> {"VL53L4CD"},
   MeasureThermalFrame        |-> {"AMG8833"},
   MeasureExternalTemperature |-> {"BME688", "PCT2075"},
   MeasureEnvironment         |-> {"BME688"},
   MeasureImu                 |-> {"BNO08X"},
   EncoderPositionGet         |-> {"SEESAW_ENCODER"},
   EncoderPositionSet         |-> {"SEESAW_ENCODER"},
   EncoderDelta               |-> {"SEESAW_ENCODER"},
   EncoderButton              |-> {"SEESAW_ENCODER"},
   MeasureBatteryVoltage      |-> {"LC709203F"},
   MeasureBatterySoc          |-> {"LC709203F"}]

\* A measurement needs a device of its kind in the slot, a BME688 its
\* calibration, and the state of charge a battery capacity.
MeasureError(b, type, slot) ==
  IF SlotError(b, slot) # "none" THEN SlotError(b, slot)
  ELSE IF b.entries[slot].kind \notin MeasuredKinds[type] THEN "WrongDevice"
  ELSE IF \/ b.entries[slot].kind = "BME688" /\ ~b.calibration[slot]
          \/ type = "MeasureBatterySoc" /\ b.capacity[slot] = NoCapacity
       THEN "NotConfigured" ELSE "none"

\* The encoder's position is read and set with one type of reply.
MeasureReply(type) ==
  IF type \in {"EncoderPositionGet", "EncoderPositionSet"} THEN "EncoderPosition" ELSE type

Measure(b, type, slot) ==
  LET error == MeasureError(b, type, slot)
  IN  IF error # "none" THEN {Failed(b, error)}
      ELSE {Done(b, MeasureReply(type), "none")} \cup
           {Failed(b, e) : e \in TransferErrors(b.entries[slot].kind)}

\* The capacities lc709203f::set_capacity knows a parameter for.
KnownCapacities == {100, 200, 500, 1000, 2000, 3000}

\* set_battery_capacity: three writes to the gauge, then the registry.
BatteryCapacitySet(b, slot, capacity) ==
  IF SlotError(b, slot) # "none" THEN {Failed(b, SlotError(b, slot))}
  ELSE IF b.entries[slot].kind # "LC709203F" THEN {Failed(b, "WrongDevice")}
  ELSE IF capacity \notin KnownCapacities THEN {Failed(b, "InvalidCapacity")}
  ELSE LET address == b.entries[slot].address
           written == [b EXCEPT !.profile[address] = capacity]
       IN  {Done([written EXCEPT !.capacity[slot] = capacity],
                 "BatteryCapacity", "none"),
            Failed(b, "Bus"),
            Failed([b EXCEPT !.profile[address] = Torn], "Bus")}

BatteryCapacityGet(b, slot) ==
  IF SlotError(b, slot) # "none" THEN {Failed(b, SlotError(b, slot))}
  ELSE IF b.entries[slot].kind # "LC709203F" THEN {Failed(b, "WrongDevice")}
  ELSE IF b.capacity[slot] = NoCapacity THEN {Failed(b, "NotConfigured")}
  ELSE {Done(b, "BatteryCapacity", "none")}

\* A write of a WebSocket client goes to the sensor without its driver.
RawWrite(b, address) ==
  {Done(b, "Error", "i2c_nack")} \cup
  IF address \notin DOMAIN Sensors THEN {}
  ELSE {Done([b EXCEPT !.power[address] = "unknown", !.profile[address] = Torn],
             "Write", "none"),
        Done(b, "Write", "none"), Done(b, "Error", "i2c_bus_error")}
================================================================================
