---------------------------- MODULE ClientSafety ----------------------------
(***************************************************************************)
(* What the client library and the nodes that use it rely on.              *)
(***************************************************************************)
EXTENDS ClientNodes

TypeOK ==
    /\ Server!TypeOK
    /\ reqId \in 0 .. MaxOperations
    /\ latest \in 0 .. reqId
    /\ stage \in [Operations -> {"none", "goal", "result", "called"}]
    /\ calls \in [Operations -> Nat]
    /\ outcome \in [Operations -> {"none", "nothing", "success", "failure"}]
    /\ serverUp \in BOOLEAN
    /\ orphans \subseteq 1 .. reqId
    /\ deaths \in 0 .. MaxServerDeaths
    /\ alive \in BOOLEAN
    /\ program \in Programs
    /\ inFlight \in BOOLEAN
    /\ startedBy \in 0 .. reqId
    /\ ledState \in BOOLEAN
    /\ written \in [Operations -> BOOLEAN]
    /\ burst \in {"before", "sending", "waiting", "finished"}
    /\ completed \in 0 .. BurstSize
    /\ printed \in Nat

\* A callback is called at most once, by whichever of the library's paths,
\* and never while a future of its operation is still pending; what it is
\* told is true of the operation's goal.
CallbackOnce ==
    \A r \in Operations :
        /\ calls[r] = (IF stage[r] = "called" THEN 1 ELSE 0)
        /\ outcome[r] = "success" => status[r] = "succeeded" /\ r \in applied
        /\ outcome[r] = "failure" => status[r] \in {"refused", "abandoned"}

\* The latency test measures each request from its own start: start_time is
\* not taken again while a request is pending.
PingMeasuresItsRequest ==
    program = "ping" =>
        \A r \in Operations : Pending(r) => r = startedBy /\ inFlight

\* The level of the LED pin, as the last write that was carried out left it.
Level == IF latest = 0 THEN FALSE ELSE written[latest]

\* When no write is in flight and the last one was confirmed, led_state is
\* the level of the pin, although writes before it may have failed, been
\* refused, or been carried out after their goals were given up.  Only a write
\* whose future failed can come after it and set the pin behind its back.
LedStateIsLevel ==
    program = "led" /\ ~inFlight /\ alive /\ reqId > 0
        /\ outcome[reqId] = "success" =>
            ledState = Level \/ outcome[latest] = "nothing"

\* The burst test reports once, and all requests it counts were answered.
BurstReportsOnce ==
    program = "burst" =>
        /\ printed = (IF burst = "finished" THEN 1 ELSE 0)
        /\ completed <= Cardinality({r \in Operations : stage[r] = "called"})
        /\ burst # "finished" /\ burst # "before" =>
              completed = Cardinality({r \in Operations : stage[r] = "called"})

\* Every operation's callback is called, unless the server process died
\* under it, or the node itself did or was shut down.
EveryOperationAnswered ==
    \A r \in Operations :
        Pending(r) ~> (stage[r] = "called" \/ r \in orphans \/ ~alive)

\* The burst test shuts itself down although the server may die, or never
\* come up, with requests pending.
BurstEnds == (program = "burst") ~> ~alive
=============================================================================
