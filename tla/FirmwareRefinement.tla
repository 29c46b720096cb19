------------------------- MODULE FirmwareRefinement -------------------------
(***************************************************************************)
(* The firmware runtime implements GpioDevice.  A request counts as        *)
(* answered when its answer is on the serial port; before that it is done  *)
(* when its worker has touched the pin, and pending otherwise, whichever   *)
(* queue or task holds it.                                                 *)
(***************************************************************************)
EXTENDS FirmwareSafety

AnswerTo(id) ==
    serialOut[CHOOSE i \in DOMAIN serialOut : serialOut[i].request_id = id]

OutcomeOf(id) ==
    IF id \in dropped THEN "lost"
    ELSE IF id \in IdsIn(serialOut)
         THEN IF AnswerTo(id).type = "kResponse" THEN "confirmed" ELSE "refused"
         ELSE IF id \in executed THEN "done" ELSE "pending"

Device == INSTANCE GpioDevice WITH
    Request <- Request,
    Slot    <- SlotOf,
    Ids     <- Ids,
    input   <- received,
    outcome <- [id \in 1 .. Len(received) |-> OutcomeOf(id)],
    answers <- [i \in 1 .. Len(serialOut) |->
                  [id |-> serialOut[i].request_id,
                   ok |-> serialOut[i].type = "kResponse"]]

\* The tasks and queues of the firmware, fairly scheduled, behave as the
\* device the host relies on: no answer without its effect, no effect after
\* a refusal, no effect out of order, no request left without an answer.
DeviceImplemented == Device!DeviceSpec

=============================================================================
