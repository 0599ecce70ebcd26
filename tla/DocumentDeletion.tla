-------------------------- MODULE DocumentDeletion --------------------------
(***************************************************************************)
(* Documents of negotiations: a row in `negotiation_documents`, an object  *)
(* in R2, and the queue that erases the objects whose rows are gone        *)
(* (`negotiation_document_deletion_jobs`, drained by a worker that a timer *)
(* starts every 15 seconds).  A storage key is random and never used       *)
(* again, so a document and its object share one identifier.               *)
(*                                                                         *)
(* Database transactions are steps; the storage is not part of any.        *)
(***************************************************************************)
EXTENDS Naturals, FiniteSets

CONSTANTS
    Documents,      \* documents ever uploaded, and the objects that hold them
    NoDocument,     \* what an idle run works on
    Runs,           \* runs of the worker that may overlap
    Limit,          \* jobs one run takes (10 in the code)
    MaxWait,        \* longest backoff, in ticks of the timer (240 in the code)
    AttemptsCap,    \* bound on attempts; the backoff no longer grows there
    MaxFaults,      \* bound on crashes and failing database calls
    Poison,         \* objects the storage never agrees to delete
    Prompt          \* TRUE when every run ends before the next tick

ASSUME QueueConstants ==
    /\ IsFiniteSet(Documents) /\ NoDocument \notin Documents
    /\ Limit \in Nat \ {0} /\ MaxWait \in Nat \ {0} /\ AttemptsCap \in Nat \ {0}
    /\ MaxFaults \in Nat
    /\ Poison \subseteq Documents
    /\ Prompt \in BOOLEAN

VARIABLES
    document,   \* document -> its row: being written, live, gone
    stored,     \* the objects R2 holds
    job,        \* document -> its row in the queue
    cleanup,    \* batches that committed handlers still have to enqueue
    run,        \* run of the worker -> where it is
    running,    \* the flag deletionWorkerRunning
    faults      \* crashes and failed database calls so far

rowVars == <<document, stored>>
workerVars == <<run, running>>
vars == <<document, stored, job, cleanup, run, running, faults>>

-----------------------------------------------------------------------------
\* "removed": a handler deleted the row and means the object to go.
\* "abandoned": the upload failed, or the proposal was deleted with its rows.
RowState == {"none", "uploading", "live", "removed", "abandoned"}
Waiting == {"PENDING", "FAILED"}
JobStatus == Waiting \cup {"PROCESSING", "DONE"}
Phase == {"idle", "checking", "claiming", "deleting", "deleted", "failed"}

JobRow == [status : JobStatus \cup {"NONE"}, attempts : 0 .. AttemptsCap,
           wait : 0 .. MaxWait, id : Nat]
RunState == [phase : Phase, doc : Documents \cup {NoDocument},
             attempt : 0 .. AttemptsCap, left : 0 .. Limit]

Row(s, a, w, i) == [status |-> s, attempts |-> a, wait |-> w, id |-> i]
At(phase, d, attempt, left) ==
    [phase |-> phase, doc |-> d, attempt |-> attempt, left |-> left]
Idle == At("idle", NoDocument, 0, 0)

Queued == {d \in Documents : job[d].status # "NONE"}
Holds(t, d) == run[t].phase \in {"deleting", "deleted", "failed"} /\ run[t].doc = d

\* The backoff starts at 30 s, two ticks, and doubles up to its maximum.
\* Faulty variant: it does not grow.
BackoffFlat(attempts) == IF 2 < MaxWait THEN 2 ELSE MaxWait
Backoff(attempts) == IF 2 ^ attempts \in 0 .. MaxWait THEN 2 ^ attempts ELSE MaxWait

Fault == faults < MaxFaults /\ faults' = faults + 1

-----------------------------------------------------------------------------
(* The handlers.                                                           *)

\* storeNegotiationDocumentToR2 sends the object before it writes the row.
PutObject(d) ==
    /\ document[d] = "none"
    /\ document' = [document EXCEPT ![d] = "uploading"]
    /\ stored' = stored \cup {d}
    /\ UNCHANGED <<job, cleanup, workerVars, faults>>

StoreRow(d) ==
    /\ document[d] = "uploading"
    /\ document' = [document EXCEPT ![d] = "live"]
    /\ UNCHANGED <<stored, job, cleanup, workerVars, faults>>

\* The INSERT fails and the object is deleted, unless that fails too; or a
\* later statement rolls the row back and nobody deletes the object.
UploadFails(d) ==
    /\ document[d] = "uploading"
    /\ document' = [document EXCEPT ![d] = "abandoned"]
    /\ stored' \in {stored, stored \ {d}}
    /\ UNCHANGED <<job, cleanup, workerVars, faults>>

\* INSERT ... ON DUPLICATE KEY UPDATE for every document of a batch, in any
\* order: a job there is keeps its id and starts afresh.
Enqueue(batch) ==
    LET new == batch \ Queued
        used == Cardinality(Queued)
    IN \E id \in [new -> used + 1 .. used + Cardinality(new)] :
          /\ \A d, e \in new : id[d] = id[e] => d = e
          /\ job' = [d \in Documents |->
                IF d \notin batch THEN job[d]
                ELSE Row("PENDING", 0, 0, IF d \in new THEN id[d] ELSE job[d].id)]

\* Faulty variant: the job is written outside the transaction that deletes
\* the row, which then rolls back.
EnqueueBeforeRollback(d, again) ==
    /\ document[d] = "live"
    /\ Enqueue({d})
    /\ UNCHANGED <<document, stored, cleanup, workerVars, faults>>

\* A deletion by request: the row goes and the job comes in one transaction.
\* For a contract's document the controller enqueues it `again` once that has
\* committed.
DeleteDocument(d, again) ==
    /\ document[d] = "live"
    /\ document' = [document EXCEPT ![d] = "removed"]
    /\ Enqueue({d})
    /\ cleanup' = IF again THEN cleanup \cup {{d}} ELSE cleanup
    /\ UNCHANGED <<stored, workerVars, faults>>

\* Faulty variant: the documents read before the DELETE are not kept.
ReplaceAndForget(batch) ==
    /\ \A d \in batch : document[d] = "live"
    /\ document' = [d \in Documents |-> IF d \in batch THEN "removed" ELSE document[d]]
    /\ UNCHANGED <<stored, job, cleanup, workerVars, faults>>

\* A new draft, a step back or a reopening deletes a batch of rows and keeps
\* in memory what is to be enqueued after the commit.
ReplaceDocuments(batch) ==
    /\ \A d \in batch : document[d] = "live"
    /\ document' = [d \in Documents |-> IF d \in batch THEN "removed" ELSE document[d]]
    /\ cleanup' = cleanup \cup {batch}
    /\ UNCHANGED <<stored, job, workerVars, faults>>

\* cleanupContractDocumentAssets, a transaction of its own.  What cannot be
\* enqueued is logged and dropped.
FinishCleanup(batch, dropped) ==
    /\ dropped \subseteq batch
    /\ Enqueue(batch \ dropped)
    /\ cleanup' = cleanup \ {batch}
    /\ IF dropped = {} THEN UNCHANGED faults ELSE Fault
    /\ UNCHANGED <<document, stored, workerVars>>

\* deleteMyProposal: ON DELETE CASCADE takes the rows, nothing is enqueued.
CascadeDelete(batch) ==
    /\ \A d \in batch : document[d] = "live"
    /\ document' = [d \in Documents |-> IF d \in batch THEN "abandoned" ELSE document[d]]
    /\ UNCHANGED <<stored, job, cleanup, workerVars, faults>>

HandlerNext ==
    \/ \E d \in Documents : PutObject(d) \/ StoreRow(d) \/ UploadFails(d)
    \/ \E d \in Documents, again \in BOOLEAN : DeleteDocument(d, again)
    \/ \E batch \in SUBSET Documents \ {{}} : ReplaceDocuments(batch) \/ CascadeDelete(batch)
    \/ \E batch \in cleanup, dropped \in SUBSET Documents : FinishCleanup(batch, dropped)

-----------------------------------------------------------------------------
(* The worker.                                                             *)

MoveRun(t, state) == run' = [run EXCEPT ![t] = state]

\* 15 seconds pass and the timer calls the worker, which looks at the flag;
\* then it awaits hasDeletionJobsTable before it sets the flag.
Tick ==
    /\ Prompt => \A t \in Runs : run[t].phase = "idle"
    /\ job' = [d \in Documents |->
          Row(job[d].status, job[d].attempts,
              IF job[d].wait = 0 THEN 0 ELSE job[d].wait - 1, job[d].id)]
    /\ \/ running /\ UNCHANGED run
       \/ ~running /\ \E t \in Runs :
             run[t].phase = "idle" /\ MoveRun(t, At("checking", NoDocument, 0, 0))
    /\ UNCHANGED <<rowVars, cleanup, running, faults>>

BeginRun(t) ==
    /\ run[t].phase = "checking"
    /\ MoveRun(t, At("claiming", NoDocument, 0, Limit))
    /\ running' = TRUE
    /\ UNCHANGED <<rowVars, job, cleanup, faults>>

Due(d) == job[d].status \in Waiting /\ job[d].wait = 0
NextAttempt(d) ==
    IF job[d].attempts = AttemptsCap THEN AttemptsCap ELSE job[d].attempts + 1

\* Faulty variant: the limit of a run is not looked at.
ClaimBeyondLimit(t, d) ==
    /\ run[t].phase = "claiming"
    /\ Due(d) /\ \A e \in Documents : Due(e) => job[d].id <= job[e].id
    /\ MoveRun(t, At("deleting", d, NextAttempt(d), run[t].left - 1))
    /\ job' = [job EXCEPT ![d] = Row("PROCESSING", NextAttempt(d), @.wait, @.id)]
    /\ UNCHANGED <<rowVars, cleanup, running, faults>>

\* The oldest job that is due, under FOR UPDATE.
Claim(t, d) ==
    /\ run[t].phase = "claiming" /\ run[t].left > 0
    /\ Due(d) /\ \A e \in Documents : Due(e) => job[d].id <= job[e].id
    /\ MoveRun(t, At("deleting", d, NextAttempt(d), run[t].left - 1))
    /\ job' = [job EXCEPT ![d] = Row("PROCESSING", NextAttempt(d), @.wait, @.id)]
    /\ UNCHANGED <<rowVars, cleanup, running, faults>>

\* However a run ends, it clears the flag, also the flag of another run.
EndRun(t) ==
    /\ run[t].phase = "claiming"
    /\ run[t].left = 0 \/ \A d \in Documents : ~Due(d)
    /\ MoveRun(t, Idle)
    /\ running' = FALSE
    /\ UNCHANGED <<rowVars, job, cleanup, faults>>

DeleteSucceeds(t) ==
    /\ run[t].phase = "deleting"
    /\ run[t].doc \notin Poison
    /\ stored' = stored \ {run[t].doc}
    /\ MoveRun(t, At("deleted", run[t].doc, run[t].attempt, run[t].left))
    /\ UNCHANGED <<document, job, cleanup, running, faults>>

\* Faulty variant: an error of the storage is swallowed.
DeleteErrorIgnored(t) ==
    /\ run[t].phase = "deleting"
    /\ MoveRun(t, At("deleted", run[t].doc, run[t].attempt, run[t].left))
    /\ UNCHANGED <<rowVars, job, cleanup, running, faults>>

\* The call fails; the storage may have deleted the object all the same.
DeleteFails(t) ==
    /\ run[t].phase = "deleting"
    /\ \/ UNCHANGED stored
       \/ run[t].doc \notin Poison /\ stored' = stored \ {run[t].doc}
    /\ MoveRun(t, At("failed", run[t].doc, run[t].attempt, run[t].left))
    /\ UNCHANGED <<document, job, cleanup, running, faults>>

\* Written by id, whatever became of the job in the meantime.
MarkDone(t) ==
    /\ run[t].phase = "deleted"
    /\ job' = [job EXCEPT ![run[t].doc] = Row("DONE", @.attempts, @.wait, @.id)]
    /\ MoveRun(t, At("claiming", NoDocument, 0, run[t].left))
    /\ UNCHANGED <<rowVars, cleanup, running, faults>>

\* Faulty variant: the worker gives up after the last attempt.
MarkFailedOrGiveUp(t) ==
    /\ run[t].phase = "failed"
    /\ \/ run[t].attempt = AttemptsCap /\ UNCHANGED job
       \/ run[t].attempt < AttemptsCap /\ job' = [job EXCEPT ![run[t].doc] =
             Row("FAILED", @.attempts, Backoff(run[t].attempt), @.id)]
    /\ MoveRun(t, At("claiming", NoDocument, 0, run[t].left))
    /\ UNCHANGED <<rowVars, cleanup, running, faults>>

\* The backoff is that of the attempt the run claimed, though the job may have
\* been enqueued afresh since.
MarkFailed(t) ==
    /\ run[t].phase = "failed"
    /\ job' = [job EXCEPT ![run[t].doc] =
          Row("FAILED", @.attempts, Backoff(run[t].attempt), @.id)]
    /\ MoveRun(t, At("claiming", NoDocument, 0, run[t].left))
    /\ UNCHANGED <<rowVars, cleanup, running, faults>>

WorkerStep(t) ==
    \/ BeginRun(t)
    \/ \E d \in Documents : Claim(t, d)
    \/ EndRun(t)
    \/ DeleteSucceeds(t) \/ DeleteFails(t)
    \/ MarkDone(t) \/ MarkFailed(t)

-----------------------------------------------------------------------------
(* Failing database calls of the worker, and the process going down.       *)

\* The look for the table fails: the flag was not set yet.
CheckFails(t) ==
    /\ run[t].phase = "checking" /\ Fault
    /\ MoveRun(t, Idle)
    /\ UNCHANGED <<rowVars, job, cleanup, running>>

\* The claim fails and ends the run.  A COMMIT that fails may have been made.
ClaimFails(t) ==
    /\ run[t].phase = "claiming" /\ run[t].left > 0 /\ Fault
    /\ \/ UNCHANGED job
       \/ \E d \in Documents :
             /\ Due(d) /\ \A e \in Documents : Due(e) => job[d].id <= job[e].id
             /\ job' = [job EXCEPT ![d] = Row("PROCESSING", NextAttempt(d), @.wait, @.id)]
    /\ MoveRun(t, Idle)
    /\ running' = FALSE
    /\ UNCHANGED <<rowVars, cleanup>>

\* An object that was deleted and cannot be marked is marked as failed.
MarkDoneFails(t) ==
    /\ run[t].phase = "deleted" /\ Fault
    /\ MoveRun(t, At("failed", run[t].doc, run[t].attempt, run[t].left))
    /\ UNCHANGED <<rowVars, job, cleanup, running>>

\* Nothing catches a failing UPDATE here: the run ends, the job stays as it is.
MarkFailedFails(t) ==
    /\ run[t].phase = "failed" /\ Fault
    /\ MoveRun(t, Idle)
    /\ running' = FALSE
    /\ UNCHANGED <<rowVars, job, cleanup>>

\* Open transactions roll back; what handlers and runs had in memory is lost.
Crash ==
    /\ Fault
    /\ document' = [d \in Documents |->
          IF document[d] = "uploading" THEN "abandoned" ELSE document[d]]
    /\ cleanup' = {}
    /\ run' = [t \in Runs |-> Idle]
    /\ running' = FALSE
    /\ UNCHANGED <<stored, job>>

FaultStep(t) ==
    CheckFails(t) \/ ClaimFails(t) \/ MarkDoneFails(t) \/ MarkFailedFails(t)

-----------------------------------------------------------------------------
Init ==
    /\ document = [d \in Documents |-> "none"]
    /\ stored = {}
    /\ job = [d \in Documents |-> Row("NONE", 0, 0, 0)]
    /\ cleanup = {}
    /\ run = [t \in Runs |-> Idle]
    /\ running = FALSE
    /\ faults = 0

Next ==
    \/ HandlerNext
    \/ Tick
    \/ \E t \in Runs : WorkerStep(t) \/ FaultStep(t)
    \/ Crash

Spec == Init /\ [][Next]_vars

\* The timer keeps ticking, a handler and a run go on, and an object the
\* storage does not refuse for good is deleted when it is tried often enough.
Fairness ==
    /\ WF_vars(Tick)
    /\ \A t \in Runs : WF_vars(WorkerStep(t))
    /\ \A batch \in SUBSET Documents : WF_vars(batch \in cleanup /\ FinishCleanup(batch, {}))
    /\ \A d \in Documents \ Poison :
          SF_vars(\E t \in Runs : run[t].doc = d /\ DeleteSucceeds(t))

FairSpec == Spec /\ Fairness

-----------------------------------------------------------------------------
TypeOK ==
    /\ document \in [Documents -> RowState]
    /\ stored \subseteq Documents
    /\ job \in [Documents -> JobRow]
    /\ cleanup \subseteq SUBSET Documents
    /\ run \in [Runs -> RunState]
    /\ running \in BOOLEAN
    /\ faults \in 0 .. MaxFaults

\* A row that readers may follow always leads to an object: neither a queue
\* entry written too early nor a run that holds an old job erases it.
LiveIsReadable == \A d \in Documents : document[d] = "live" => d \in stored

\* A job marked DONE has erased its object, whichever of several overlapping
\* runs marked it last.
DoneIsErased == \A d \in Documents : job[d].status = "DONE" => d \notin stored

\* A job in PROCESSING is in the hands of a run.  claimNextDeletionJob never
\* looks at it again, so otherwise it is stuck: only a fault may cause that.
StuckByFault ==
    \A d \in Documents :
        job[d].status = "PROCESSING" /\ (\A t \in Runs : ~Holds(t, d)) => faults > 0

\* An object whose row was deleted on request is queued or about to be; it is
\* forgotten only when a crash or a failed enqueue comes between the two
\* transactions.
ForgottenByFault ==
    \A d \in Documents :
        document[d] = "removed" /\ d \in stored
        => d \in Queued \/ (\E batch \in cleanup : d \in batch) \/ faults > 0

\* Every object removed on request is erased, although the oldest job is taken
\* first and some jobs fail for ever: the growing backoff leaves them behind.
RemovedIsErased ==
    \A d \in Documents \ Poison : document[d] = "removed" ~> d \notin stored
=============================================================================
