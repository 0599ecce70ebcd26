---------------------------- MODULE SignedProposal ----------------------------
(***************************************************************************)
(* The upload of a negotiation's signed proposal                           *)
(* (negotiationSignedProposalService.uploadSignedProposal): the negotiation*)
(* is locked and checked, the PDF goes to the object storage, its row and  *)
(* the new status are committed, and the administrators are notified after *)
(* that.  A client that is told of a failure sends it again; an            *)
(* administrator may remove the PDF, whose object goes through the queue   *)
(* of module DocumentDeletion (here one step).  Where ProposalSubmission    *)
(* has a name too, the one here says "signed".                             *)
(***************************************************************************)
EXTENDS Naturals, FiniteSets

CONSTANTS Uploads,      \* requests; each stores an object of its own
          Nobody,
          MaxFailures     \* bound: failures and crashes

ASSUME SignedProposalAssumption == Nobody \notin Uploads /\ MaxFailures \in Nat

VARIABLES status,       \* negotiations.status
          row,          \* the upload that the row of the signed PDF is of
          objects,      \* uploads whose object is stored
          queued,       \* objects in the deletion queue
          lock,         \* the upload that holds the negotiation's row
          at,           \* where each upload is, or how it was answered
          notified,         \* uploads the administrators were notified of
          failures

signedVars == <<status, row, objects, queued, lock, at, notified, failures>>

Statuses == {"PROPOSAL_SENT", "DOCUMENTATION_PHASE", "REFUSED"}
InTransaction == {"locked", "stored", "inserted"}
Refusals == {"notWaiting", "alreadySent"}
Places == {"idle", "committed", "sent", "failed", "lost"} \cup InTransaction \cup Refusals

SignedInit ==
  /\ status = "PROPOSAL_SENT" /\ row = Nobody
  /\ objects = {} /\ queued = {} /\ lock = Nobody
  /\ at = [r \in Uploads |-> "idle"]
  /\ notified = {} /\ failures = 0

Move(r, p) == at' = [at EXCEPT ![r] = p]

\* SELECT ... FOR UPDATE and the two refusals.
Lock(r) ==
  /\ at[r] = "idle" /\ lock = Nobody
  /\ \/ /\ status = "REFUSED"
        /\ Move(r, "notWaiting") /\ UNCHANGED lock
     \/ /\ status # "REFUSED" /\ row # Nobody
        /\ Move(r, "alreadySent") /\ UNCHANGED lock
     \/ /\ status # "REFUSED" /\ row = Nobody
        /\ Move(r, "locked") /\ lock' = r
  /\ UNCHANGED <<status, row, objects, queued, notified, failures>>

\* storeNegotiationDocumentToR2: the object first, then the row.
PutObject(r) ==
  /\ at[r] = "locked"
  /\ objects' = objects \cup {r}
  /\ Move(r, "stored")
  /\ UNCHANGED <<status, row, queued, lock, notified, failures>>

InsertRow(r) ==
  /\ at[r] = "stored"
  /\ Move(r, "inserted")
  /\ UNCHANGED <<status, row, objects, queued, lock, notified, failures>>

\* The row is visible, the status is in review, the lock is free.
CommitSigned(r) ==
  /\ at[r] = "inserted"
  /\ row' = r
  /\ status' = "DOCUMENTATION_PHASE"
  /\ lock' = Nobody
  /\ Move(r, "committed")
  /\ UNCHANGED <<objects, queued, notified, failures>>

\* createAdminNotification, and the answer 201.
Notify(r) ==
  /\ at[r] = "committed"
  /\ notified' = notified \cup {r}
  /\ Move(r, "sent")
  /\ UNCHANGED <<status, row, objects, queued, lock, failures>>

\* Faulty variant: every error path deletes the object.
ObjectsAfterErrorAnywhere(r) == objects \ {r}

\* The insert that fails deletes the object, if the storage does so; an error
\* after it leaves the object.
ObjectsAfterError(r) == IF at[r] = "stored" THEN objects \ {r} ELSE objects

\* An error: rollback (of what was not committed) and the answer 500.
Fail(r) ==
  /\ failures < MaxFailures
  /\ at[r] \in InTransaction \cup {"committed"}
  /\ objects' \in {objects, ObjectsAfterError(r)}
  /\ lock' = IF lock = r THEN Nobody ELSE lock
  /\ Move(r, "failed")
  /\ failures' = failures + 1
  /\ UNCHANGED <<status, row, queued, notified>>

\* The process stops: the database rolls back, nobody answers.
CrashUploads ==
  /\ failures < MaxFailures
  /\ \E r \in Uploads : at[r] \in InTransaction \cup {"committed"}
  /\ at' = [r \in Uploads |-> IF at[r] \in InTransaction \cup {"committed"} THEN "lost" ELSE at[r]]
  /\ lock' = Nobody
  /\ failures' = failures + 1
  /\ UNCHANGED <<status, row, objects, queued, notified>>

\* Faulty variant: the row goes and its object is forgotten.
AdminDeleteRowOnly ==
  /\ lock = Nobody /\ row # Nobody
  /\ row' = Nobody
  /\ status' = IF status = "DOCUMENTATION_PHASE" THEN "PROPOSAL_SENT" ELSE status
  /\ UNCHANGED <<objects, queued, lock, at, notified, failures>>

\* deleteSignedProposal: the row goes and its object is queued, in one transaction.
AdminDelete ==
  /\ lock = Nobody /\ row # Nobody
  /\ queued' = queued \cup {row}
  /\ row' = Nobody
  /\ status' = IF status = "DOCUMENTATION_PHASE" THEN "PROPOSAL_SENT" ELSE status
  /\ UNCHANGED <<objects, lock, at, notified, failures>>

\* rejectNegotiation.
Reject ==
  /\ lock = Nobody /\ status # "REFUSED"
  /\ status' = "REFUSED"
  /\ UNCHANGED <<row, objects, queued, lock, at, notified, failures>>

\* The deletion queue.
DeleteObject(r) ==
  /\ r \in queued
  /\ objects' = objects \ {r}
  /\ queued' = queued \ {r}
  /\ UNCHANGED <<status, row, lock, at, notified, failures>>

SignedNext ==
  \/ \E r \in Uploads :
       Lock(r) \/ PutObject(r) \/ InsertRow(r) \/ CommitSigned(r) \/ Notify(r) \/ Fail(r)
         \/ DeleteObject(r)
  \/ CrashUploads \/ AdminDelete \/ Reject

SignedSpec == SignedInit /\ [][SignedNext]_signedVars

-----------------------------------------------------------------------------
SignedTypes ==
  /\ status \in Statuses /\ row \in Uploads \cup {Nobody}
  /\ objects \subseteq Uploads /\ queued \subseteq Uploads /\ notified \subseteq Uploads
  /\ at \in [Uploads -> Places]
  /\ lock \in Uploads \cup {Nobody}
  /\ lock # Nobody <=> \E r \in Uploads : at[r] \in InTransaction
  /\ failures \in 0..MaxFailures

\* The row of the signed PDF names an object that is stored, whatever failed,
\* crashed or was removed and sent again.
RowHasObject == row # Nobody => row \in objects \ queued

\* An object that no row names and no queue holds is of an upload that ended in
\* an error or a crash.
StrayObjectsFailed ==
  \A r \in objects \ (queued \cup {row}) : at[r] \in {"stored", "inserted", "failed", "lost"}

\* The signed PDF of a negotiation can be read, and only failed uploads leave
\* objects that nothing names; the row is locked just while a transaction is open.
SignedSafety == SignedTypes /\ RowHasObject /\ StrayObjectsFailed

\* An upload that is answered "failed" did not send the signed proposal.
\* (negotiationSignedProposalService.ts:245: "Falha ao enviar proposta assinada.")
FailedWasNotSent == \A r \in Uploads : at[r] = "failed" => row # r
=============================================================================
