----------------------------- MODULE GpioDevice -----------------------------
(***************************************************************************)
(* What the host may rely on: the GPIO device as one object, without its   *)
(* tasks and queues.  A request it receives is lost at once or pending.  A *)
(* pending request is either refused, with no effect, or carried out once  *)
(* and then confirmed; requests of one slot are carried out in the order   *)
(* they came; each request that is not lost gets one answer.               *)
(***************************************************************************)
EXTENDS Naturals, Sequences

CONSTANTS Request,   \* requests the host may send
          Slot(_),   \* the pin or I2C address a request is for
          Ids        \* positions of requests in the input: 1..n for some n

VARIABLES input,     \* requests received, in order
          outcome,   \* id -> what became of it
          answers    \* answers given, in order: [id, ok]

deviceVars == <<input, outcome, answers>>

Outcome == {"lost", "pending", "done", "confirmed", "refused"}

DeviceInit ==
    /\ input = <<>>
    /\ outcome = <<>>
    /\ answers = <<>>

Receive(request) ==
    /\ Len(input) + 1 \in Ids
    /\ input' = Append(input, request)
    /\ \E first \in {"pending", "lost"} : outcome' = Append(outcome, first)
    /\ UNCHANGED answers

Becomes(id, from, to) ==
    /\ id \in DOMAIN outcome
    /\ outcome[id] = from
    /\ outcome' = [outcome EXCEPT ![id] = to]
    /\ UNCHANGED input

CarryOut(id) ==
    /\ Becomes(id, "pending", "done")
    /\ \A later \in id + 1 .. Len(input) :
          Slot(input[later]) = Slot(input[id]) =>
             outcome[later] \notin {"done", "confirmed"}
    /\ UNCHANGED answers

Confirm(id) ==
    /\ Becomes(id, "done", "confirmed")
    /\ answers' = Append(answers, [id |-> id, ok |-> TRUE])

Refuse(id) ==
    /\ Becomes(id, "pending", "refused")
    /\ answers' = Append(answers, [id |-> id, ok |-> FALSE])

Settle(id) == CarryOut(id) \/ Confirm(id) \/ Refuse(id)

DeviceNext ==
    \/ \E request \in Request : Receive(request)
    \/ \E id \in Ids : Settle(id)

\* A received request is not left pending, nor a done one unconfirmed.
DeviceSpec ==
    /\ DeviceInit /\ [][DeviceNext]_deviceVars
    /\ \A id \in Ids : WF_deviceVars(Settle(id))
=============================================================================
