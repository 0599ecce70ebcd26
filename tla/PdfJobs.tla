------------------------------ MODULE PdfJobs ------------------------------
(***************************************************************************)
(* The PDF of one negotiation's proposal, made by a queue in Redis: the    *)
(* handler generateProposal writes the client's details and adds a job,    *)
(* and a worker reads the negotiation again, has the PDF made, saves it    *)
(* and notifies the job's user.  A failing attempt notifies too, and the   *)
(* queue tries three times.  Without a queue the handler makes the PDF     *)
(* itself, of what the request said.                                       *)
(*                                                                         *)
(* A negotiation without a capturing broker has no name for the PDF's      *)
(* required field.                                                         *)
(***************************************************************************)
EXTENDS Naturals, Sequences

CONSTANTS
    Users, Nobody,
    MaxDocuments,   \* bound on requests and on the PDFs ever saved
    MaxFaults       \* bound on failing calls, lost connections and crashes

\* What the values of the constants must satisfy; an instance assumes it.
JobConstants ==
    Nobody \notin Users /\ MaxDocuments \in Nat \ {0} /\ MaxFaults \in Nat

VARIABLES
    exists,     \* the negotiation
    captor,     \* it has a capturing broker
    client,     \* the user whose details its row holds
    asked,      \* requests made so far
    handler,    \* user -> where the request is
    owed,       \* users promised a notice since they last got one
    job,        \* the queue's job proposal:<negotiation>
    worker,     \* where the attempt is, and the data it read
    documents,  \* PDFs saved, by whose details they show
    notices,    \* user -> whether a success or a failure was the last notice
    faults

queueVars == <<job, worker>>
vars == <<exists, captor, client, asked, handler, owed, job, worker, documents, notices, faults>>

-----------------------------------------------------------------------------
Attempts == 3

\* `saved` and `told`: this job saved a PDF, its user got a notice of it.
Job == [state : {"none", "waiting", "active"}, user : Users \cup {Nobody},
        failed : 0 .. Attempts - 1, stalled : BOOLEAN, saved : BOOLEAN, told : BOOLEAN]
NoJob == [state |-> "none", user |-> Nobody, failed |-> 0, stalled |-> FALSE,
          saved |-> FALSE, told |-> FALSE]
Worker == [phase : {"idle", "read", "saved", "notified", "caught", "thrown"},
           data : Users \cup {Nobody}]
Resting == [phase |-> "idle", data |-> Nobody]

TypeOK ==
    /\ exists \in BOOLEAN /\ captor \in BOOLEAN
    /\ client \in Users \cup {Nobody} /\ asked \in 0 .. MaxDocuments
    /\ handler \in [Users -> {"idle", "checked", "updated", "generated"}]
    /\ owed \subseteq Users
    /\ job \in Job /\ worker \in Worker
    /\ job.state # "active" => worker = Resting
    /\ documents \in Seq(Users \cup {Nobody})
    /\ notices \in [Users -> {"none", "ready", "error"}]
    /\ faults \in 0 .. MaxFaults

Init ==
    /\ exists = TRUE /\ captor \in BOOLEAN /\ client = Nobody /\ asked = 0
    /\ handler = [u \in Users |-> "idle"] /\ owed = {}
    /\ job = NoJob /\ worker = Resting
    /\ documents = << >> /\ notices = [u \in Users |-> "none"] /\ faults = 0

-----------------------------------------------------------------------------
(* generateProposal: a check, an update and a job, in no transaction.      *)

Go(u, phase) == handler' = [handler EXCEPT ![u] = phase]

Ask(u) ==
    /\ handler[u] = "idle" /\ exists /\ asked < MaxDocuments
    /\ asked' = asked + 1
    /\ Go(u, "checked")
    /\ UNCHANGED <<exists, captor, client, owed, job, worker, documents, notices, faults>>

UpdateClient(u) ==
    /\ handler[u] = "checked"
    /\ client' = IF exists THEN u ELSE client
    /\ Go(u, "updated")
    /\ UNCHANGED <<exists, captor, asked, owed, job, worker, documents, notices, faults>>

\* A job with the same identifier that is still in the queue stays as it is.
AddPdfJob(u) ==
    /\ handler[u] = "updated"
    /\ job' = IF job.state = "none"
              THEN [NoJob EXCEPT !.state = "waiting", !.user = u] ELSE job
    /\ owed' = owed \cup {u}
    /\ Go(u, "idle")
    /\ UNCHANGED <<exists, captor, client, asked, worker, documents, notices, faults>>

\* No queue, or no connection to Redis.
FallBack(u) ==
    /\ handler[u] = "updated" /\ faults < MaxFaults
    /\ faults' = faults + 1
    /\ Go(u, "generated")
    /\ UNCHANGED <<exists, captor, client, asked, owed, job, worker, documents, notices>>

\* The request names a broker itself.  Rows of a negotiation that is gone are
\* refused, and the client is told in the answer.
SaveFallback(u) ==
    /\ handler[u] = "generated"
    /\ documents' = IF exists THEN Append(documents, u) ELSE documents
    /\ Go(u, "idle")
    /\ UNCHANGED <<exists, captor, client, asked, owed, job, worker, notices, faults>>

\* A failing update, an error of the queue that is not one of the connection, a
\* failing fallback: the answer is an error, and what was written stays.
GenerationFails(u) ==
    /\ handler[u] # "idle" /\ faults < MaxFaults
    /\ faults' = faults + 1
    /\ Go(u, "idle")
    /\ UNCHANGED <<exists, captor, client, asked, owed, job, worker, documents, notices>>

-----------------------------------------------------------------------------
(* An attempt of the worker.                                               *)

At(phase) == job.state = "active" /\ worker.phase = phase
Turn(phase) == worker' = [worker EXCEPT !.phase = phase]

TakeJob ==
    /\ job.state = "waiting"
    /\ job' = [job EXCEPT !.state = "active"]
    /\ worker' = Resting
    /\ UNCHANGED <<exists, captor, client, asked, handler, owed, documents, notices, faults>>

\* A negotiation that is gone, or has no broker to name, throws.
ReadNegotiation ==
    /\ At("idle")
    /\ worker' = [phase |-> IF exists /\ captor THEN "read" ELSE "caught", data |-> client]
    /\ UNCHANGED <<exists, captor, client, asked, handler, owed, job, documents, notices, faults>>

PdfServiceFails ==
    /\ At("read") /\ faults < MaxFaults
    /\ faults' = faults + 1
    /\ Turn("caught")
    /\ UNCHANGED <<exists, captor, client, asked, handler, owed, job, documents, notices>>

SaveProposal ==
    /\ At("read")
    /\ IF exists
       THEN /\ documents' = Append(documents, worker.data)
            /\ job' = [job EXCEPT !.saved = TRUE]
            /\ Turn("saved")
       ELSE UNCHANGED <<documents, job>> /\ Turn("caught")
    /\ UNCHANGED <<exists, captor, client, asked, handler, owed, notices, faults>>

Tell(notice) ==
    /\ notices' = [notices EXCEPT ![job.user] = notice]
    /\ owed' = owed \ {job.user}
    /\ job' = [job EXCEPT !.told = TRUE]

NotifyReady ==
    /\ At("saved")
    /\ Tell("ready")
    /\ Turn("notified")
    /\ UNCHANGED <<exists, captor, client, asked, handler, documents, faults>>

\* The notice of success is inside the try: when it fails, the catch sends the
\* notice of failure.
NotifyReadyFails ==
    /\ At("saved") /\ faults < MaxFaults
    /\ faults' = faults + 1
    /\ Turn("caught")
    /\ UNCHANGED <<exists, captor, client, asked, handler, owed, job, documents, notices>>

\* Faulty variant: nobody hears of a failure.
LogError ==
    /\ At("caught")
    /\ Turn("thrown")
    /\ UNCHANGED <<exists, captor, client, asked, handler, owed, job, documents, notices, faults>>

NotifyError ==
    /\ At("caught")
    /\ Tell("error")
    /\ Turn("thrown")
    /\ UNCHANGED <<exists, captor, client, asked, handler, documents, faults>>

NotifyErrorFails ==
    /\ At("caught") /\ faults < MaxFaults
    /\ faults' = faults + 1
    /\ Turn("thrown")
    /\ UNCHANGED <<exists, captor, client, asked, handler, owed, job, documents, notices>>

-----------------------------------------------------------------------------
(* The queue.                                                              *)

\* removeOnComplete and removeOnFail free the identifier.
Complete ==
    /\ At("notified")
    /\ job' = NoJob /\ worker' = Resting
    /\ UNCHANGED <<exists, captor, client, asked, handler, owed, documents, notices, faults>>

\* Faulty variant: nothing is repeated for a PDF that was saved.
RetryUnlessSaved ==
    /\ At("thrown")
    /\ job' = IF job.failed + 1 = Attempts \/ (job.saved /\ job.told) THEN NoJob
              ELSE [job EXCEPT !.state = "waiting", !.failed = @ + 1]
    /\ worker' = Resting
    /\ UNCHANGED <<exists, captor, client, asked, handler, owed, documents, notices, faults>>

Retry ==
    /\ At("thrown")
    /\ job' = IF job.failed + 1 = Attempts THEN NoJob
              ELSE [job EXCEPT !.state = "waiting", !.failed = @ + 1]
    /\ worker' = Resting
    /\ UNCHANGED <<exists, captor, client, asked, handler, owed, documents, notices, faults>>

\* A worker that dies leaves a stalled job, which another takes.  Bound: once
\* for a job; the queue's library drops one that stalls again.
WorkerCrash ==
    /\ job.state = "active" /\ ~job.stalled /\ faults < MaxFaults
    /\ faults' = faults + 1
    /\ job' = [job EXCEPT !.state = "waiting", !.stalled = TRUE] /\ worker' = Resting
    /\ UNCHANGED <<exists, captor, client, asked, handler, owed, documents, notices>>

\* deleteMyProposal takes the rows of the PDFs along.
DeleteProposal ==
    /\ exists
    /\ exists' = FALSE /\ documents' = << >>
    /\ UNCHANGED <<captor, client, asked, handler, owed, job, worker, notices, faults>>

Work == \/ TakeJob \/ ReadNegotiation \/ SaveProposal \/ NotifyReady \/ NotifyError
        \/ Complete \/ Retry

Next ==
    \/ \E u \in Users : \/ Ask(u) \/ UpdateClient(u) \/ AddPdfJob(u)
                        \/ FallBack(u) \/ SaveFallback(u) \/ GenerationFails(u)
    \/ Work
    \/ PdfServiceFails \/ NotifyReadyFails \/ NotifyErrorFails \/ WorkerCrash
    \/ DeleteProposal

Spec == Init /\ [][Next]_vars

\* Some worker runs, and its calls end: the PDF service has a timeout.
FairSpec == Spec /\ WF_vars(Work)

-----------------------------------------------------------------------------
(* What the queue promises.                                                *)

\* A job leaves the queue only after its user was told how it ended: with fewer
\* failing calls than attempts, the catch of the worker gets a notice through.
JobEndsWithNotice ==
    [][job.state # "none" /\ job'.state = "none" => job.told]_vars

\* Every job ends, one way or the other: its identifier is free for the next
\* request of the negotiation.
JobsEnd == job.state # "none" ~> job.state = "none"

\* A PDF that was saved is announced in the end, unless the negotiation goes:
\* an attempt that fails after the save is followed by another.
SavedIsAnnounced ==
    \A u \in Users : job.saved /\ job.user = u ~> (notices[u] = "ready" \/ ~exists)

\* Refuted: whoever was promised a notice gets one.
PromisedIsTold ==
    \A u \in Users : u \in owed ~> u \notin owed

\* Refuted: a user is told of an error while generating when no attempt of the
\* job saved the proposal.
ErrorMeansNoProposal ==
    [][\A u \in Users : notices[u] # "error" /\ notices'[u] = "error" => ~job.saved]_vars

\* Refuted: as long as every call succeeds, the PDF of a proposal that exists
\* can be made.
ErrorsHaveACause ==
    faults = 0 /\ exists => \A u \in Users : notices[u] # "error"
=============================================================================
