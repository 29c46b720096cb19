---------------------------- MODULE ClientNodes ----------------------------
(***************************************************************************)
(* The nodes that use the client library: the latency test (ping_node.py), *)
(* the LED blinker and the timers without a guard of the example node      *)
(* (node_example.py), and the burst test (brust_test.py).  One of them     *)
(* runs, chosen in the initial state.                                      *)
(*                                                                         *)
(* An action is one callback of the node's executor: a timer with the      *)
(* operation it starts, or the completion of a future with the             *)
(* done_callback it calls.  A done_callback that the library calls before  *)
(* the operation returns runs inside the timer's action.                   *)
(***************************************************************************)
EXTENDS SgpioClient

CONSTANT BurstSize
ASSUME BurstAssumption == BurstSize \in 1 .. MaxOperations

Programs == {"ping", "led", "poll", "burst"}

VARIABLES
    program,     \* the node that runs
    inFlight,    \* request_in_flight, led_write_in_flight
    startedBy,   \* ping: the operation start_time was taken for
    ledState,    \* led: led_state
    written,     \* led: operation -> value it writes
    burst,       \* burst: "before", "sending", "waiting", "finished"
    completed,   \* burst: completed
    printed      \* history of burst: how often statistics were printed

nodeVars == <<inFlight, startedBy, ledState, written, burst, completed, printed>>
vars == <<clientVars, program, nodeVars>>

Init ==
    /\ ClientInit
    /\ program \in Programs
    /\ inFlight = FALSE
    /\ startedBy = 0
    /\ ledState = FALSE
    /\ written = [r \in Operations |-> FALSE]
    /\ burst = "before"
    /\ completed = 0
    /\ printed = 0

\* An operation that does not call its callback before it returns.
StartsAsync(r) == SendsGoal(r) \/ RaisesOnId(r)

---------------------------------------------------------------------------
(* LatencyTestNode                                                         *)

\* Mutant: the timer does not look at request_in_flight.
PingTimerUnguarded(r) ==
    /\ program = "ping"
    /\ startedBy' = r
    /\ \/ StartsAsync(r) /\ inFlight' = TRUE
       \/ FailsAtOnce(r) /\ inFlight' = FALSE
    /\ UNCHANGED <<program, ledState, written, burst, completed, printed>>

\* run_test, from __init__ or _maybe_run_test.
PingTimer(r) ==
    /\ program = "ping"
    /\ ~inFlight
    /\ startedBy' = r
    /\ \/ StartsAsync(r) /\ inFlight' = TRUE
       \/ FailsAtOnce(r) /\ inFlight' = FALSE
    /\ UNCHANGED <<program, ledState, written, burst, completed, printed>>

PingDone ==
    /\ inFlight' = FALSE
    /\ UNCHANGED <<startedBy, ledState, written, burst, completed, printed>>

---------------------------------------------------------------------------
(* MultiClientNode                                                         *)

\* Mutant: the timer does not look at led_write_in_flight.
LedTimerUnguarded(r) ==
    /\ program = "led"
    /\ written' = [written EXCEPT ![r] = ~ledState]
    /\ \/ StartsAsync(r) /\ inFlight' = TRUE
       \/ FailsAtOnce(r) /\ inFlight' = FALSE
    /\ UNCHANGED <<program, startedBy, ledState, burst, completed, printed>>

\* trigger_led_blink.
LedTimer(r) ==
    /\ program = "led"
    /\ ~inFlight
    /\ written' = [written EXCEPT ![r] = ~ledState]
    /\ \/ StartsAsync(r) /\ inFlight' = TRUE
       \/ FailsAtOnce(r) /\ inFlight' = FALSE
    /\ UNCHANGED <<program, startedBy, ledState, burst, completed, printed>>

\* on_led_write.
LedDone(r, result) ==
    /\ inFlight' = FALSE
    /\ ledState' = IF result = "success" THEN written[r] ELSE ledState
    /\ UNCHANGED <<startedBy, written, burst, completed, printed>>

\* The sensor, analog, servo and DAC timers: an operation every time, however
\* many are pending; their callbacks only log.
PollTimer(r) ==
    /\ program = "poll"
    /\ StartsAsync(r) \/ FailsAtOnce(r)
    /\ UNCHANGED <<program, nodeVars>>

---------------------------------------------------------------------------
(* BurstTestNode                                                           *)

\* _start_once and the first lines of run.
BurstStarts ==
    /\ program = "burst" /\ alive
    /\ burst = "before"
    /\ burst' = "sending"
    /\ UNCHANGED <<clientVars, program, inFlight, startedBy, ledState, written,
                   completed, printed>>

\* Mutant: a callback does not look at finished.
BurstDoneLate ==
    /\ completed' = completed + 1
    /\ IF completed' = BurstSize
       THEN printed' = printed + 1 /\ burst' = "finished"
       ELSE UNCHANGED <<printed, burst>>
    /\ UNCHANGED <<inFlight, startedBy, ledState, written>>

\* The callback of one request, with _print_stats after the last.
BurstDone ==
    /\ IF burst = "finished" THEN UNCHANGED <<completed, printed, burst>>
       ELSE /\ completed' = completed + 1
            /\ IF completed' = BurstSize
               THEN printed' = printed + 1 /\ burst' = "finished"
               ELSE UNCHANGED <<printed, burst>>
    /\ UNCHANGED <<inFlight, startedBy, ledState, written>>

\* One turn of run's loop.  Nothing else of the node runs until it ends.
BurstSends(r) ==
    /\ program = "burst"
    /\ burst = "sending" /\ reqId < BurstSize
    /\ \/ StartsAsync(r) /\ UNCHANGED nodeVars
       \/ FailsAtOnce(r) /\ BurstDone
    /\ UNCHANGED program

BurstSent ==
    /\ burst = "sending" /\ alive
    /\ reqId = BurstSize
    /\ burst' = "waiting"
    /\ UNCHANGED <<clientVars, program, inFlight, startedBy, ledState, written,
                   completed, printed>>

\* Mutant: the timeout is only armed once an answer has come.
BurstTimesOutAfterFirst ==
    /\ burst = "waiting" /\ alive /\ completed > 0
    /\ burst' = "finished"
    /\ printed' = printed + 1
    /\ UNCHANGED <<clientVars, program, inFlight, startedBy, ledState, written,
                   completed>>

\* _on_timeout before the burst is finished; later it does nothing.
BurstTimesOut ==
    /\ burst = "waiting" /\ alive
    /\ burst' = "finished"
    /\ printed' = printed + 1
    /\ UNCHANGED <<clientVars, program, inFlight, startedBy, ledState, written,
                   completed>>

\* rclpy.shutdown() of _print_stats takes effect, at once or after callbacks
\* that were ready by then.
BurstShutsDown ==
    /\ burst = "finished" /\ alive
    /\ alive' = FALSE
    /\ UNCHANGED <<serverVars, libraryVars, program, nodeVars>>

---------------------------------------------------------------------------
(* The done_callback the library calls for r.                              *)

NodeCallback(r, result) ==
    /\ CASE program = "ping"  -> PingDone
         [] program = "led"   -> LedDone(r, result)
         [] program = "poll"  -> UNCHANGED nodeVars
         [] program = "burst" -> BurstDone
    /\ UNCHANGED program

Spinning == burst # "sending"

FutureCompletes(r) ==
    /\ Spinning
    /\ \/ AcceptedGoal(r) /\ UNCHANGED <<program, nodeVars>>
       \/ DeliversResult(r) /\ NodeCallback(r, outcome'[r])

FutureFails(r) ==
    /\ Spinning
    /\ FailsGoalResponse(r) \/ FailsResult(r)
    /\ NodeCallback(r, "nothing")

Timer(r) == PingTimer(r) \/ LedTimer(r) \/ PollTimer(r) \/ BurstSends(r)

\* A write whose goal has ended had its frame in the sender's queue before the
\* next write was sent, and a pin keeps that order on the board
\* (ExecutedInOrder).  One whose future failed may still wait for a thread of
\* the server, and later writes may overtake it there.
CarriesOutInOrder(r) ==
    /\ CarriesOut(r)
    /\ program = "led" /\ outcome[r] # "nothing" => \A later \in applied : later < r
    /\ UNCHANGED <<program, nodeVars>>

Next ==
    \/ \E r \in Operations :
          \/ Timer(r) \/ FutureCompletes(r) \/ FutureFails(r)
          \/ CarriesOutInOrder(r)
          \/ Serves(r) /\ UNCHANGED <<program, nodeVars>>
    \/ BurstStarts \/ BurstSent \/ BurstTimesOut \/ BurstShutsDown
    \/ ServerDies /\ UNCHANGED <<program, nodeVars>>
    \/ ServerStarts /\ UNCHANGED <<program, nodeVars>>

Spec == Init /\ [][Next]_vars

\* The executor runs what is ready and timers fire; the server ends the goals
\* it has (EveryGoalEnds of GpioServer) while it lives, and nobody has to
\* start it again.
Fairness ==
    /\ \A r \in Operations :
          /\ WF_vars(Timer(r))
          /\ WF_vars(FutureCompletes(r))
          /\ WF_vars(Serves(r) /\ UNCHANGED <<program, nodeVars>>)
    /\ WF_vars(BurstStarts \/ BurstSent)
    /\ WF_vars(BurstTimesOut)
    /\ WF_vars(BurstShutsDown)

FairSpec == Spec /\ Fairness
=============================================================================
