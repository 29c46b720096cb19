---------------------------- MODULE GpioFrames ----------------------------
(***************************************************************************)
(* The vocabulary of the serial GPIO firmware: protocol enumerations,      *)
(* request and response frames, the request semantics, the two session     *)
(* banks of the pin registry and the decision tables of the four pin       *)
(* drivers.  Pure operators only; every state machine of the project that  *)
(* talks about frames extends this module.                                 *)
(*                                                                         *)
(* Enumerators keep the names of codec.h, as strings.                      *)
(***************************************************************************)
EXTENDS Integers

\* The value and pin_number fields, uint16_t and uint8_t.
UInt16 == 0 .. 65535
UInt8  == 0 .. 255

FrameType == {"kRead", "kWrite", "kDebug"}
PinType   == {"kDigital", "kAnalog", "kServo", "kMCP4725"}
Priority  == {"kLow", "kHigh"}
ErrorCode == {"kBadPin", "kBadFunction", "kUnsupported", "kQueueFull",
              "kCancelled", "kNone"}

\* The characters of the decimal digits.
DigitName == <<"0", "1", "2", "3", "4", "5", "6", "7", "8", "9">>

\* What a decoded request says, without its request_id.
RequestBody(pins, values) ==
    [value: values, type: FrameType, priority: Priority,
     pin_type: PinType, pin_number: pins]

RequestFrame(ids, pins, values) ==
    [request_id: ids, value: values, type: FrameType, priority: Priority,
     pin_type: PinType, pin_number: pins]

\* A body with the id the host gave it.
WithId(id, body) ==
    [request_id |-> id, value |-> body.value, type |-> body.type,
     priority |-> body.priority, pin_type |-> body.pin_type,
     pin_number |-> body.pin_number]

ResponseFrame(ids, values) ==
    [request_id: ids, value: values, type: {"kResponse", "kError"},
     error: ErrorCode]

OkResponse(id, value) ==
    [request_id |-> id, value |-> value, type |-> "kResponse",
     error |-> "kNone"]

ErrorResponse(id, error) ==
    [request_id |-> id, value |-> 0, type |-> "kError", error |-> error]

---------------------------------------------------------------------------
(* Request semantics and pin registry.                                     *)

IsValidRequest(frameType, pinType) ==
    \/ frameType = "kRead" /\ pinType \in {"kDigital", "kAnalog"}
    \/ frameType = "kWrite" /\ pinType \in PinType

kMinPhysicalPinNumber == 1
kMaxPhysicalPinNumber == 41
kMinI2cAddress == 1
kMaxI2cAddress == 127

IsI2cPinType(pinType) == pinType = "kMCP4725"

IsValidPinNumber(pinType, n) ==
    IF IsI2cPinType(pinType)
    THEN n \in kMinI2cAddress .. kMaxI2cAddress
    ELSE n \in kMinPhysicalPinNumber .. kMaxPhysicalPinNumber

\* Length of each session array; a slot <<bank, n>> is in bounds when n is
\* below it.
RegistrySize ==
    [pinSessions |-> kMaxPhysicalPinNumber + 1,
     i2cSessions |-> kMaxI2cAddress + 1]

Bank == {"pinSessions", "i2cSessions"}

SlotOf(request) ==
    << IF IsI2cPinType(request.pin_type) THEN "i2cSessions" ELSE "pinSessions",
       request.pin_number >>

---------------------------------------------------------------------------
(* Sessions are identified with their PinModeConfig; NoSession is nullptr. *)

PinMode == {"kInput", "kOutput"}
Config  == [pinType: PinType, pinMode: PinMode]
NoSession   == [pinType |-> "null", pinMode |-> "null"]
EmptyConfig == [pinType |-> "kNone", pinMode |-> "kNone"]

ModeOf(frameType) == IF frameType = "kRead" THEN "kInput" ELSE "kOutput"

\* The config builder of the driver the factory registry holds for the
\* request's pin type: does it accept, and what does it build.
FactoryAccepts(request) ==
    CASE request.pin_type = "kDigital" -> request.type \in {"kRead", "kWrite"}
      [] request.pin_type = "kAnalog"  -> request.type \in {"kRead", "kWrite"}
      [] request.pin_type = "kServo"   -> request.type = "kWrite"
      [] request.pin_type = "kMCP4725" -> request.type = "kWrite"

FactoryConfig(request) ==
    [pinType |-> request.pin_type, pinMode |-> ModeOf(request.type)]

\* The session's own reading of a later request.  The DAC driver is the only
\* one that answers an empty config to what it cannot do.
PinConfigFromRequest(session, request) ==
    IF /\ session.pinType = "kMCP4725"
       /\ request.pin_type # "kMCP4725" \/ request.type # "kWrite"
    THEN EmptyConfig
    ELSE [pinType |-> request.pin_type, pinMode |-> ModeOf(request.type)]

SupportsRequest(session, request) ==
    session = PinConfigFromRequest(session, request)

kMcp4725MaxMillivolts == 5000

\* What handleRequest of each driver really drives, and reports, for a write.
AppliedValue(pinType, value) ==
    IF pinType = "kDigital" /\ value # 0 THEN 1
    ELSE IF pinType = "kMCP4725" /\ value > kMcp4725MaxMillivolts
         THEN kMcp4725MaxMillivolts
         ELSE value
===========================================================================
