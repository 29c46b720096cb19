------------------------------ MODULE HostLine ------------------------------
(***************************************************************************)
(* The line the host writes for a request: stringFromFrame and the line    *)
(* feed that TeensySerialHandler.send adds.                                *)
(***************************************************************************)
EXTENDS GpioFrames, Sequences

Letter ==
    [kRead |-> "R", kWrite |-> "W", kDebug |-> "B",
     kDigital |-> "D", kAnalog |-> "A", kServo |-> "S", kMCP4725 |-> "G",
     kLow |-> "L", kHigh |-> "H"]

PowerOfTen == <<1, 10, 100, 1000, 10000, 100000>>

DigitCount(n) == CHOOSE d \in 1 .. 5 :
    /\ n < PowerOfTen[d + 1]
    /\ d > 1 => n >= PowerOfTen[d]

\* f"{n}" of a number that fits a uint16.
Decimal(n) ==
    LET d == DigitCount(n)
    IN [i \in 1 .. d |-> DigitName[((n \div PowerOfTen[d - i + 1]) % 10) + 1]]

HostPayload(frame) ==
    <<Letter[frame.type]>> \o <<",">> \o Decimal(frame.request_id) \o <<",">>
      \o <<Letter[frame.pin_type]>> \o <<",">> \o <<Letter[frame.priority]>> \o <<",">>
      \o Decimal(frame.pin_number) \o <<",">> \o Decimal(frame.value)

LineOf(frame) == <<"@">> \o HostPayload(frame) \o <<";", "LF">>
=============================================================================
