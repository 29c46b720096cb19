--------------------------- MODULE ActionContract ---------------------------
(***************************************************************************)
(* What a client may rely on when it sends a goal to the action server,    *)
(* without threads, ids, queues or frames.  A goal's operation is carried  *)
(* out at most once and only after the goal was accepted.  The goal ends   *)
(* once: it succeeds if and only if its operation had been carried out and *)
(* the board said so, it is refused only if the operation never is, and it *)
(* is abandoned when no answer came: then the operation may have been      *)
(* carried out, or be carried out later, or never.                         *)
(***************************************************************************)
CONSTANTS
    Goals,
    MalformedGoals    \* goals no request can be made of

VARIABLES
    status,    \* goal -> where it stands for its client
    applied    \* goals whose operation was carried out

vars == <<status, applied>>

Ended == {"succeeded", "refused", "abandoned"}

TypeOK ==
    /\ status \in [Goals -> {"unknown", "accepted"} \cup Ended]
    /\ applied \subseteq Goals

Init ==
    /\ status = [g \in Goals |-> "unknown"]
    /\ applied = {}

Turns(g, from, to) ==
    /\ status[g] = from
    /\ status' = [status EXCEPT ![g] = to]
    /\ UNCHANGED applied

Accept(g) == Turns(g, "unknown", "accepted")

\* A late request may still reach the board, but never one that was refused.
Apply(g) ==
    /\ status[g] \in {"accepted", "abandoned"}
    /\ g \notin MalformedGoals
    /\ g \notin applied
    /\ applied' = applied \cup {g}
    /\ UNCHANGED status

Succeed(g) == g \in applied /\ Turns(g, "accepted", "succeeded")
Refuse(g) == g \notin applied /\ Turns(g, "accepted", "refused")
Abandon(g) == Turns(g, "accepted", "abandoned")

Next ==
    \E g \in Goals :
        Accept(g) \/ Apply(g) \/ Succeed(g) \/ Refuse(g) \/ Abandon(g)

Spec == Init /\ [][Next]_vars
=============================================================================
