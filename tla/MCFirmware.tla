---------------------------- MODULE MCFirmware ----------------------------
(***************************************************************************)
(* Small workloads for the firmware runs.                                  *)
(***************************************************************************)
EXTENDS FirmwareRefinement

Body(type, pinType, priority, pin, value) ==
    [value |-> value, type |-> type, priority |-> priority,
     pin_type |-> pinType, pin_number |-> pin]

\* One digital output, both priorities: cancellation against a busy worker.
PriorityWorkload ==
    { Body("kWrite", "kDigital", "kLow",  13, 7),
      Body("kWrite", "kDigital", "kHigh", 13, 0) }

\* Pin 5 as a physical pin in two modes and as an I2C address, pin 0, which
\* no bank accepts, and two frames the parser refuses.
RoutingWorkload ==
    { Body("kWrite", "kDigital", "kLow",  5, 1),
      Body("kRead",  "kDigital", "kHigh", 5, 0),
      Body("kWrite", "kServo",   "kLow",  5, 90),
      Body("kWrite", "kMCP4725", "kHigh", 5, 6000),
      Body("kWrite", "kAnalog",  "kLow",  0, 1),
      Body("kRead",  "kServo",   "kLow",  5, 0),
      Body("kDebug", "kDigital", "kLow",  5, 0) }
===========================================================================
