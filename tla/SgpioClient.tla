---------------------------- MODULE SgpioClient ----------------------------
(***************************************************************************)
(* The client library: what SGPIO does with one operation, from the call   *)
(* that sends its goal to the one call of its done_callback.               *)
(*                                                                         *)
(* The action server is what ActionContract says of it (GpioServer         *)
(* implements that), reached through futures that rclpy completes while    *)
(* the server process lives.  Operations are numbered by their request     *)
(* ids.  An action here is one callback of the client's executor, which    *)
(* runs one at a time; what the node that uses the library does in the     *)
(* same callback is in ClientNodes.                                        *)
(***************************************************************************)
EXTENDS Naturals, FiniteSets

CONSTANTS
    MaxOperations,     \* bound on the operations a node starts
    MaxRequestId,      \* largest value of the goal's uint16 request_id
    MaxServerDeaths    \* bound on how often the server process ends

ASSUME ClientAssumption ==
    {MaxOperations, MaxRequestId, MaxServerDeaths} \subseteq Nat

Operations == 1 .. MaxOperations

VARIABLES
    status, applied,   \* the server, as in ActionContract
    latest,     \* history: the operation that was carried out last
    reqId,      \* _req_id
    stage,      \* operation -> which future of it the library waits for
    calls,      \* history: operation -> how often its callback was called
    outcome,    \* operation -> what the callback was called with
    serverUp,   \* the action server can be reached
    orphans,    \* operations whose server died with their future pending
    deaths,     \* how often the server has died
    alive       \* the node's executor still spins

serverVars == <<status, applied, latest, serverUp, orphans, deaths>>
libraryVars == <<reqId, stage, calls, outcome>>
clientVars == <<serverVars, libraryVars, alive>>

Server == INSTANCE ActionContract WITH Goals <- Operations, MalformedGoals <- {}

ClientInit ==
    /\ Server!Init
    /\ latest = 0
    /\ reqId = 0
    /\ stage = [r \in Operations |-> "none"]
    /\ calls = [r \in Operations |-> 0]
    /\ outcome = [r \in Operations |-> "none"]
    /\ serverUp \in BOOLEAN
    /\ orphans = {}
    /\ deaths = 0
    /\ alive = TRUE

Pending(r) == stage[r] \in {"goal", "result"}

\* done_callback(result), where "nothing" is None.
CallsBack(r, result) ==
    /\ stage' = [stage EXCEPT ![r] = "called"]
    /\ calls' = [calls EXCEPT ![r] = @ + 1]
    /\ outcome' = [outcome EXCEPT ![r] = result]

---------------------------------------------------------------------------
(* An operation and _send_goal.                                            *)

\* Mutant: the counter is not advanced.
TakesSameId(r) ==
    /\ alive
    /\ reqId < MaxOperations
    /\ r = reqId + 1
    /\ reqId' = reqId

\* _next_id.
TakesId(r) ==
    /\ alive
    /\ reqId < MaxOperations
    /\ r = reqId + 1
    /\ reqId' = r

SendsGoal(r) ==
    /\ TakesId(r)
    /\ serverUp
    /\ stage' = [stage EXCEPT ![r] = "goal"]
    /\ UNCHANGED <<calls, outcome, serverVars, alive>>

\* Mutant: the goal is sent although no server was found.
FailsAndSends(r) ==
    /\ TakesId(r)
    /\ stage' = [stage EXCEPT ![r] = "goal"]
    /\ calls' = [calls EXCEPT ![r] = @ + 1]
    /\ outcome' = [outcome EXCEPT ![r] = "nothing"]
    /\ UNCHANGED <<serverVars, alive>>

\* No server within two seconds, or send_goal_async raised: the callback is
\* called before the operation returns.
FailsAtOnce(r) ==
    /\ TakesId(r)
    /\ CallsBack(r, "nothing")
    /\ UNCHANGED <<serverVars, alive>>

\* goal.request_id = ... of a number that is no uint16 raises outside any try
\* block, unless the generated message does not check it: the exception goes
\* through the timer callback that started the operation and ends the spin.
RaisesOnId(r) ==
    /\ TakesId(r)
    /\ serverUp
    /\ r > MaxRequestId
    /\ alive' = FALSE
    /\ UNCHANGED <<stage, calls, outcome, serverVars>>

---------------------------------------------------------------------------
(* _on_goal_response and _on_result.                                       *)

Completes(r, future) == alive /\ stage[r] = future /\ r \notin orphans

AcceptedGoal(r) ==
    /\ Completes(r, "goal")
    /\ status[r] # "unknown"
    /\ stage' = [stage EXCEPT ![r] = "result"]
    /\ UNCHANGED <<reqId, calls, outcome, serverVars, alive>>

\* The goal was rejected, or the future or get_result_async raised.
FailsGoalResponse(r) ==
    /\ Completes(r, "goal")
    /\ CallsBack(r, "nothing")
    /\ UNCHANGED <<reqId, serverVars, alive>>

\* The future raised, or its result is empty.
FailsResult(r) ==
    /\ Completes(r, "result")
    /\ CallsBack(r, "nothing")
    /\ UNCHANGED <<reqId, serverVars, alive>>

\* Mutant: a result without success is dropped.
DeliversSuccess(r) ==
    /\ Completes(r, "result")
    /\ status[r] = "succeeded"
    /\ CallsBack(r, "success")
    /\ UNCHANGED <<reqId, serverVars, alive>>

DeliversResult(r) ==
    /\ Completes(r, "result")
    /\ status[r] \in Server!Ended
    /\ CallsBack(r, IF status[r] = "succeeded" THEN "success" ELSE "failure")
    /\ UNCHANGED <<reqId, serverVars, alive>>

---------------------------------------------------------------------------
(* The server process.                                                     *)

Serves(r) ==
    /\ stage[r] # "none" /\ r \notin orphans
    /\ Server!Accept(r) \/ Server!Succeed(r) \/ Server!Refuse(r) \/ Server!Abandon(r)
    /\ status[r] = "unknown" => stage[r] = "goal"
    /\ serverUp
    /\ UNCHANGED <<latest, serverUp, orphans, deaths, libraryVars, alive>>

\* A frame that is on its way is carried out even if its server has died.
CarriesOut(r) ==
    /\ Server!Apply(r)
    /\ latest' = r
    /\ UNCHANGED <<serverUp, orphans, deaths, libraryVars, alive>>

ServerDies ==
    /\ serverUp /\ deaths < MaxServerDeaths
    /\ deaths' = deaths + 1
    /\ serverUp' = FALSE
    /\ orphans' = orphans \cup {r \in Operations : stage[r] # "none"}
    /\ UNCHANGED <<status, applied, latest, libraryVars, alive>>

ServerStarts ==
    /\ ~serverUp
    /\ serverUp' = TRUE
    /\ UNCHANGED <<status, applied, latest, orphans, deaths, libraryVars, alive>>
=============================================================================
