------------------------------ MODULE MCRetries ------------------------------
(* What must happen in the end although it fails again and again: the          *)
(* requests of proposals, which this module extends, lose their locks to one   *)
(* another, and the deletions of objects fail.  A behaviour of this module is  *)
(* one of the component `focus` names; the other stays where it starts.        *)
EXTENDS ProposalSubmission

VARIABLES
    focus,
    row, stored, job, cleanup, run, running, lost    \* DocumentDeletion

queue == <<row, stored, job, cleanup, run, running, lost>>

\* Whose key it is.
PersonOf(k) == IF k = "b1" THEN "b" ELSE "a"

\* Two jobs that fail for ever, a third, and one job per tick.
Deletion == INSTANCE DocumentDeletion WITH
    Documents <- {"d1", "d2", "d3"}, NoDocument <- "none", Runs <- {"t1"}, Limit <- 1,
    MaxWait <- 3, AttemptsCap <- 2, MaxFaults <- 0, Poison <- {"d1", "d2"}, Prompt <- TRUE,
    document <- row, faults <- lost

Start == focus \in {"proposals", "queue"} /\ Init /\ Deletion!Init

ProposalStep == focus = "proposals" /\ Next /\ UNCHANGED <<focus, queue>>
DeletionStep == focus = "queue" /\ Deletion!Next /\ UNCHANGED <<focus, vars>>

\* The fairness of each component, of the one a behaviour is about.
Fairness ==
    /\ WF_vars(focus = "proposals" /\ BreakDeadlock)
    /\ \A r \in Requests : SF_vars(focus = "proposals" /\ Step(r))
    /\ WF_queue(focus = "queue" /\ Deletion!Tick)
    /\ WF_queue(focus = "queue" /\ Deletion!WorkerStep("t1"))
    /\ \A batch \in SUBSET {"d1", "d2", "d3"} :
          WF_queue(focus = "queue" /\ batch \in cleanup /\ Deletion!FinishCleanup(batch, {}))
    /\ SF_queue(focus = "queue" /\ run["t1"].doc = "d3" /\ Deletion!DeleteSucceeds("t1"))

RetriesSpec ==
    Start /\ [][ProposalStep \/ DeletionStep]_<<focus, vars, queue>> /\ Fairness

------------------------------------------------------------------------------
\* Every object removed on request is erased, although the oldest job is taken
\* first and two fail for ever (the backoff of markDeletionJobFailed).
RemovedIsErased == Deletion!RemovedIsErased
=============================================================================
