-------------------------- MODULE ServerRefinement --------------------------
(***************************************************************************)
(* The action server implements ActionContract.  The client sees a goal's  *)
(* result only when execute_callback has returned it.                      *)
(***************************************************************************)
EXTENDS GpioServerSafety

StatusOf(g) ==
    CASE goalPc[g] = "idle" -> "unknown"
      [] goalPc[g] = "done" /\ result[g].why = "response" ->
            IF result[g].response.ok THEN "succeeded" ELSE "refused"
      [] goalPc[g] = "done" /\ result[g].why = "exception" -> "refused"
      [] goalPc[g] = "done" /\ result[g].why = "timeout" -> "abandoned"
      [] OTHER -> "accepted"

Contract == INSTANCE ActionContract WITH status <- [g \in Goals |-> StatusOf(g)]

\* While serial ids do not repeat, every goal keeps the contract, whichever
\* frames are lost, whoever answers late and whenever the server is shut
\* down: a success means done, a refusal means never, a timeout means
\* neither.
ContractImplemented == Contract!Spec
=============================================================================
