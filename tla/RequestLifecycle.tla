-------------------------- MODULE RequestLifecycle --------------------------
(***************************************************************************)
(* What control.fetch_request and the queue promise their readers,         *)
(* whatever processes stand behind them: the state machine of              *)
(* docs/workflows/ingestion_workflow.md, section 3, the rule that an       *)
(* instrument is not queued again before its unfinished requests are       *)
(* through, and the rule that a request is given up only when nobody can   *)
(* find its manifest in the queue.  An action moves any number of rows at  *)
(* once, as the set-based statements do.                                   *)
(***************************************************************************)
EXTENDS Integers

CONSTANT Batch

VARIABLES
    status,  \* <<batch, instrument, seq>> -> status, one entry per row
    queued   \* the requests whose manifest waits for the agent

Unfinished == { k \in DOMAIN status : status[k] \in {"PENDING", "LANDED"} }
Queued     == { k[2] : k \in Unfinished }

LifecycleInit == status = <<>> /\ queued = {}

\* The rows of batch b join the table.
Adds(b) ==
    /\ DOMAIN status \subseteq DOMAIN status'
    /\ \A k \in DOMAIN status : status'[k] = status[k] /\ k[1] # b
    /\ \A k \in DOMAIN status' \ DOMAIN status :
         k[1] = b /\ k[2] \notin Queued /\ status'[k] = "PENDING"

\* Rows with status `from`, and no others, may take a status in `to`.
Move(from, to) ==
    /\ DOMAIN status' = DOMAIN status
    /\ \A k \in DOMAIN status :
         status'[k] # status[k] => status[k] = from /\ status'[k] \in to

\* A planner run commits its rows, and then puts manifests of PENDING ones.
Emit(b) == Adds(b) /\ UNCHANGED queued
Enqueue == /\ queued \subseteq queued'
           /\ \A k \in queued' \ queued : k \in DOMAIN status /\ status[k] = "PENDING"
           /\ UNCHANGED status

\* The agent takes manifests off the queue; its receipts arrive in the table.
Take      == queued' \subseteq queued /\ UNCHANGED status
Reconcile == Move("PENDING", {"LANDED", "FAILED"}) /\ UNCHANGED queued

\* PENDING rows are given up unless their manifest is in the queue.  This is
\* what the code guarantees; the drawing in the document promises more, that
\* the manifest was never written.
Repair == /\ Move("PENDING", {"ORPHANED"})
          /\ \A k \in queued \cap DOMAIN status : status'[k] = status[k]
          /\ UNCHANGED queued

\* Requests that are in Bronze.
Complete == Move("LANDED", {"INGESTED"}) /\ UNCHANGED queued

LifecycleNext == (\E b \in Batch : Emit(b)) \/ Enqueue \/ Take \/ Reconcile \/ Repair \/ Complete

LifecycleSpec == LifecycleInit /\ [][LifecycleNext]_<<status, queued>>
=============================================================================
