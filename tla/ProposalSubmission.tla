------------------------- MODULE ProposalSubmission -------------------------
(***************************************************************************)
(* Proposals for one listing, sent from the wizard with an idempotency     *)
(* key, while earlier ones are edited, deleted and decided, their          *)
(* contracts bring them back, and their PDFs are replaced.                 *)
(*                                                                         *)
(* A submission is one transaction that calls the PDF service and the      *)
(* storage while it holds the locks on its key, the listing and the        *)
(* negotiations it read.  A step of a request is one statement; what the   *)
(* transaction wrote becomes visible with Commit, and the objects it       *)
(* stored outlive its rollback.  Two ends that the database forces, a      *)
(* duplicate key and a deadlock, are steps; a deadlock rolls one           *)
(* transaction back, as InnoDB does.  A decision holds no lock while it    *)
(* waits and is one step; whether a proposal has its signed PDF and how    *)
(* far its contract is, which module Deals follows, is left open here.     *)
(***************************************************************************)
EXTENDS Naturals, FiniteSets

CONSTANTS
    Requests,       \* requests that may overlap
    Keys,           \* idempotency keys, each of one person
    Person(_),      \* the person whose key it is
    MaxProposals,   \* bound on the proposals ever made
    MaxDocuments,   \* bound on the PDFs ever stored
    MaxFaults       \* bound on crashes, failing services and failing statements

ASSUME SubmissionConstants ==
    /\ Keys # {}
    /\ MaxProposals \in Nat \ {0} /\ MaxDocuments \in Nat \ {0} /\ MaxFaults \in Nat

VARIABLES
    approved,   \* whether the listing is approved
    proposal,   \* negotiations, by number
    made,       \* how many were made
    document,   \* PDFs: negotiation_documents of type proposal, by number
    uploads,    \* how many objects were stored
    key,        \* negotiation_proposal_idempotency
    request,    \* request -> where it is
    told,       \* request -> what its client was answered last
    faults

vars == <<approved, proposal, made, document, uploads, key, request, told, faults>>

-----------------------------------------------------------------------------
Proposals == 1 .. MaxProposals
Documents == 1 .. MaxDocuments

\* Refused and cancelled are not told apart by any guard, nor sold and rented.
ActiveStatus == {"PROPOSAL_SENT", "DOCUMENTATION_PHASE", "IN_NEGOTIATION"}
\* In its history an administrator `rejected` it.
Proposal == [status : ActiveStatus \cup {"none", "closed", "dealt", "deleted"},
             key : Keys, contract : BOOLEAN, rejected : BOOLEAN]
Sent(k) == [status |-> "PROPOSAL_SENT", key |-> k, contract |-> FALSE, rejected |-> FALSE]

\* A stored PDF belongs to a negotiation while it has a row, which it gets when
\* its request commits; without one nothing will ever erase it unless it is queued.
Document == [state : {"none", "stored", "queued"}, of : {0}] \cup [state : {"live"}, of : Proposals]
Orphan == [state |-> "stored", of |-> 0]
NoKeyRow == [state |-> "none", proposal |-> 0, document |-> 0]
KeyRow == {NoKeyRow} \cup [state : {"complete"}, proposal : Proposals, document : Documents]

Phase == {"idle", "keyed", "inserted", "listing", "checked", "generated",
          "editing", "edited"}
\* A request is refused because a proposal exists, or it is not: accepted,
\* replayed, refused for another reason, failed, or not answered yet.
Answer == {"exists", "other"}
Request == [phase : Phase, key : Keys, on : 0 .. MaxProposals, upload : 0 .. MaxDocuments]
Idle == [phase |-> "idle", key |-> CHOOSE k \in Keys : TRUE, on |-> 0, upload |-> 0]

\* A negotiation that is not there, yet or any more.
NoProposal(status) == [Sent(Idle.key) EXCEPT !.status = status]

TypeOK ==
    /\ approved \in BOOLEAN
    /\ proposal \in [Proposals -> Proposal] /\ made \in 0 .. MaxProposals
    /\ document \in [Documents -> Document] /\ uploads \in 0 .. MaxDocuments
    /\ key \in [Keys -> KeyRow]
    /\ request \in [Requests -> Request] /\ told \in [Requests -> Answer]
    /\ faults \in 0 .. MaxFaults

Init ==
    /\ approved = TRUE
    /\ proposal = [n \in Proposals |-> NoProposal("none")]
    /\ made = 0
    /\ document = [d \in Documents |-> [state |-> "none", of |-> 0]]
    /\ uploads = 0
    /\ key = [k \in Keys |-> NoKeyRow]
    /\ request = [r \in Requests |-> Idle]
    /\ told = [r \in Requests |-> "other"]
    /\ faults = 0

-----------------------------------------------------------------------------
(* Locks: what a transaction holds follows from where it is.               *)

At(r, phases) == request[r].phase \in phases

\* An inserted key row is locked; one that was not found is not.
HoldsKey(r, k) ==
    /\ request[r].key = k
    /\ At(r, {"inserted", "listing", "checked", "generated"})
HoldsListing(r) == At(r, {"listing", "checked", "generated", "edited"})
HoldsProposal(r, n) == At(r, {"editing", "edited"}) /\ request[r].on = n

KeyIsFree(r, k) == \A o \in Requests \ {r} : ~HoldsKey(o, k)
ListingIsFree(r) == \A o \in Requests \ {r} : ~HoldsListing(o)
ProposalIsFree(r, n) == \A o \in Requests \ {r} : ~HoldsProposal(o, n)

Active == {n \in Proposals : proposal[n].status \in ActiveStatus}
Existing == {n \in Proposals : proposal[n].status \notin {"none", "deleted"}}

Go(r, phase) == request' = [request EXCEPT ![r].phase = phase]

\* The end of a transaction: its locks are gone.
Finish(r, answer) ==
    /\ request' = [request EXCEPT ![r] = Idle]
    /\ told' = [told EXCEPT ![r] = answer]

\* Faulty variant: the connection goes back to the pool with its transaction.
RefuseHoldingLocks(r, answer) ==
    /\ told' = [told EXCEPT ![r] = answer]
    /\ UNCHANGED <<approved, proposal, made, document, uploads, key, request, faults>>

\* A refusal rolls back first.
Refuse(r, answer) ==
    /\ Finish(r, answer)
    /\ UNCHANGED <<approved, proposal, made, document, uploads, key, faults>>

-----------------------------------------------------------------------------
(* generateProposalFromProperty                                            *)

\* The bounds leave room for those that run.
Running == {r \in Requests : At(r, {"keyed", "inserted", "listing", "checked"})}
Room == made + Cardinality(Running \cup {r \in Requests : At(r, {"generated"})}) < MaxProposals
        /\ uploads + Cardinality(Running) < MaxDocuments

Begin(r, k) ==
    /\ At(r, {"idle"})
    /\ request' = [request EXCEPT ![r] = [Idle EXCEPT !.phase = "keyed", !.key = k]]
    /\ told' = [told EXCEPT ![r] = "other"]

\* The PDF that the key's row names, if its negotiation still has it.
Stored(k) == document[key[k].document].of = key[k].proposal

\* SELECT ... FOR UPDATE of the key waits for whoever has just inserted it.  A
\* known key changes nothing: its proposal is replayed if its PDF is stored, and
\* said to be in progress otherwise.
Submit(r, k) ==
    /\ At(r, {"idle"}) /\ KeyIsFree(r, k)
    /\ IF key[k].state = "none"
       THEN Room /\ Begin(r, k)
       ELSE /\ told' = [told EXCEPT ![r] = "other"]
            /\ UNCHANGED request
    /\ UNCHANGED <<approved, proposal, made, document, uploads, key, faults>>

\* Faulty variant: ON DUPLICATE KEY UPDATE, and the request goes on.
InsertOverKey(r) ==
    /\ At(r, {"keyed"}) /\ KeyIsFree(r, request[r].key)
    /\ Go(r, "inserted")
    /\ UNCHANGED <<approved, proposal, made, document, uploads, key, told, faults>>

InsertKey(r) ==
    LET k == request[r].key IN
    /\ At(r, {"keyed"}) /\ KeyIsFree(r, k)
    /\ \/ /\ key[k].state = "none"
          /\ Go(r, "inserted")
          /\ UNCHANGED <<approved, proposal, made, document, uploads, key, told, faults>>
       \/ key[k].state = "complete" /\ Refuse(r, "other")

\* Faulty variant: the listing is read without a lock.
ReadListing(r) ==
    /\ At(r, {"inserted"})
    /\ \/ /\ approved
          /\ Go(r, "listing")
          /\ UNCHANGED <<approved, proposal, made, document, uploads, key, told, faults>>
       \/ ~approved /\ Refuse(r, "other")

LockListing(r) ==
    /\ At(r, {"inserted"}) /\ ListingIsFree(r)
    /\ \/ /\ approved
          /\ Go(r, "listing")
          /\ UNCHANGED <<approved, proposal, made, document, uploads, key, told, faults>>
       \/ ~approved /\ Refuse(r, "other")

\* The listing is the person's own, the payments are not its value to the cent,
\* the broker or the CPF is wrong: none of it is kept, and the key is free again.
RefuseData(r) == At(r, {"listing"}) /\ Refuse(r, "other")

\* Any active negotiation of the listing, whoever's: SELECT ... FOR UPDATE.
CheckActive(r) ==
    /\ At(r, {"listing"})
    /\ \A n \in Active : ProposalIsFree(r, n)
    /\ \/ /\ Active = {}
          /\ Go(r, "checked")
          /\ UNCHANGED <<approved, proposal, made, document, uploads, key, told, faults>>
       \/ Active # {} /\ Refuse(r, "exists")

Generate(r) ==
    /\ At(r, {"checked"})
    /\ uploads' = uploads + 1
    /\ document' = [document EXCEPT ![uploads + 1] = Orphan]
    /\ request' = [request EXCEPT ![r] =
          [phase |-> "generated", key |-> @.key, on |-> 0, upload |-> uploads + 1]]
    /\ UNCHANGED <<approved, proposal, made, key, told, faults>>

\* The PDF service refuses the connection, or answers with an error.
PdfFails(r) ==
    /\ At(r, {"checked"}) /\ faults < MaxFaults
    /\ faults' = faults + 1
    /\ Finish(r, "other")
    /\ UNCHANGED <<approved, proposal, made, document, uploads, key>>

Commit(r) ==
    /\ At(r, {"generated"})
    /\ made' = made + 1
    /\ proposal' = [proposal EXCEPT ![made + 1] = Sent(request[r].key)]
    /\ document' = [document EXCEPT ![request[r].upload] = [state |-> "live", of |-> made + 1]]
    /\ key' = [key EXCEPT ![request[r].key] =
          [state |-> "complete", proposal |-> made + 1, document |-> request[r].upload]]
    /\ Finish(r, "other")
    /\ UNCHANGED <<approved, uploads, faults>>

-----------------------------------------------------------------------------
(* The listing's other requests.                                           *)

\* What may still be edited or deleted, if it has no signed PDF.
PreSigned == {n \in Proposals : proposal[n].status \in {"PROPOSAL_SENT", "IN_NEGOTIATION"}}

\* updateProposal locks the negotiation, and then the listing.
LockProposal(r, n) ==
    /\ At(r, {"idle"}) /\ n \in PreSigned /\ ProposalIsFree(r, n)
    /\ request' = [request EXCEPT ![r] = [Idle EXCEPT !.phase = "editing", !.on = n]]
    /\ told' = [told EXCEPT ![r] = "other"]
    /\ UNCHANGED <<approved, proposal, made, document, uploads, key, faults>>

\* The listing must be approved, and the person have no other active proposal.
EditProposal(r) ==
    /\ At(r, {"editing"}) /\ ListingIsFree(r)
    /\ \/ /\ approved
          /\ Go(r, "edited")
          /\ UNCHANGED <<approved, proposal, made, document, uploads, key, told, faults>>
       \/ ~approved /\ Refuse(r, "other")

Others(n) == {m \in Active \ {n} : Person(proposal[m].key) = Person(proposal[n].key)}

SaveProposal(r) ==
    LET n == request[r].on IN
    /\ At(r, {"edited"})
    /\ \A m \in Others(n) : ProposalIsFree(r, m)
    /\ IF Others(n) # {} THEN Refuse(r, "exists")
       ELSE /\ proposal' = [proposal EXCEPT ![n].status = "PROPOSAL_SENT"]
            /\ Finish(r, "other")
            /\ UNCHANGED <<approved, made, document, uploads, key, faults>>

Unlocked(n) == \A r \in Requests : ~HoldsProposal(r, n)
ListingUnlocked == \A r \in Requests : ~HoldsListing(r)

ForgetKeys(n) == [k \in Keys |-> IF key[k].proposal = n THEN NoKeyRow ELSE key[k]]

\* The rows of the PDFs go with the negotiation, and nothing queues their objects.
DeleteMyProposal(n) ==
    /\ n \in PreSigned /\ Unlocked(n)
    /\ key' = ForgetKeys(n)
    /\ proposal' = [proposal EXCEPT ![n] = NoProposal("deleted")]
    /\ document' = [d \in Documents |-> IF document[d].of = n THEN Orphan ELSE document[d]]
    /\ UNCHANGED <<approved, made, uploads, request, told, faults>>

\* The signed PDF comes, and an administrator removes it.
UploadSigned(n) ==
    /\ proposal[n].status \in {"PROPOSAL_SENT", "DOCUMENTATION_PHASE"}
    /\ Unlocked(n) /\ ListingUnlocked
    /\ proposal' = [proposal EXCEPT ![n].status = "DOCUMENTATION_PHASE"]
    /\ UNCHANGED <<approved, made, document, uploads, key, request, told, faults>>

RemoveSigned(n) ==
    /\ proposal[n].status = "DOCUMENTATION_PHASE" /\ Unlocked(n)
    /\ proposal' = [proposal EXCEPT ![n].status = "PROPOSAL_SENT"]
    /\ UNCHANGED <<approved, made, document, uploads, key, request, told, faults>>

-----------------------------------------------------------------------------
(* Decisions lock the negotiation and its listing in one statement.        *)

Undecided == {n \in Proposals : proposal[n].status \in {"PROPOSAL_SENT", "DOCUMENTATION_PHASE"}}

\* Undecided rivals are refused and their keys stay; one in negotiation is left alone.
ApproveNegotiation(n) ==
    /\ n \in Active /\ ListingUnlocked
    /\ \A m \in {n} \cup Undecided : Unlocked(m)
    /\ approved' = FALSE
    /\ proposal' = [m \in Proposals |->
          IF m = n THEN [proposal[m] EXCEPT !.status = "IN_NEGOTIATION", !.contract = TRUE]
          ELSE IF m \in Undecided THEN [proposal[m] EXCEPT !.status = "closed"]
          ELSE proposal[m]]
    /\ UNCHANGED <<made, document, uploads, key, request, told, faults>>

\* Faulty variant: the key of a rejected proposal is kept.
RejectKeepingKey(n) ==
    /\ n \in Existing /\ proposal[n].status # "dealt" /\ Unlocked(n) /\ ListingUnlocked
    /\ approved' \in IF Cardinality(Undecided) <= 1 THEN {approved, TRUE} ELSE {approved}
    /\ proposal' = [proposal EXCEPT ![n].status = "closed", ![n].rejected = TRUE]
    /\ UNCHANGED <<made, document, uploads, key, request, told, faults>>

\* The listing is on sale again unless another is undecided or it was sold.
RejectNegotiation(n) ==
    /\ n \in Existing /\ proposal[n].status # "dealt" /\ Unlocked(n) /\ ListingUnlocked
    /\ key' = ForgetKeys(n)
    /\ approved' \in IF Cardinality(Undecided) <= 1 THEN {approved, TRUE} ELSE {approved}
    /\ proposal' = [proposal EXCEPT ![n].status = "closed", ![n].rejected = TRUE]
    /\ UNCHANGED <<made, document, uploads, request, told, faults>>

CancelNegotiation(n) ==
    /\ proposal[n].status = "IN_NEGOTIATION" /\ ~approved /\ Unlocked(n) /\ ListingUnlocked
    /\ approved' = TRUE
    /\ proposal' = [proposal EXCEPT ![n].status = "closed"]
    /\ UNCHANGED <<made, document, uploads, key, request, told, faults>>

-----------------------------------------------------------------------------
(* The contract's handlers lock it with its negotiation and listing.  One  *)
(* that was deleted may be created again, so that the deletion is left out.*)

CreateContract(n) ==
    /\ proposal[n].status \in {"DOCUMENTATION_PHASE", "IN_NEGOTIATION", "dealt"}
    /\ Unlocked(n) /\ ListingUnlocked
    /\ proposal' = [proposal EXCEPT ![n].contract = TRUE]
    /\ UNCHANGED <<approved, made, document, uploads, key, request, told, faults>>

\* Whatever the status of the negotiation is.
FinalizeContract(n) ==
    /\ n \in Existing /\ proposal[n].contract /\ Unlocked(n) /\ ListingUnlocked
    /\ approved' = FALSE
    /\ proposal' = [proposal EXCEPT ![n].status = "dealt"]
    /\ UNCHANGED <<made, document, uploads, key, request, told, faults>>

\* A finalized contract is reopened, ...
ReopenContract(n) ==
    /\ proposal[n].contract /\ proposal[n].status = "dealt" /\ Unlocked(n) /\ ListingUnlocked
    /\ approved' = FALSE
    /\ proposal' = [proposal EXCEPT ![n].status = "IN_NEGOTIATION"]
    /\ UNCHANGED <<made, document, uploads, key, request, told, faults>>

\* ... or a side of one is rejected, again whatever the status of the negotiation.
RejectSide(n) ==
    /\ n \in Existing /\ proposal[n].contract /\ Unlocked(n) /\ ListingUnlocked
    /\ approved' \in {approved, TRUE}
    /\ proposal' = [proposal EXCEPT ![n].status = "IN_NEGOTIATION"]
    /\ UNCHANGED <<made, document, uploads, key, request, told, faults>>

-----------------------------------------------------------------------------
\* The administrator removes the latest PDF of a proposal, ...
DeleteProposalDraft(n) ==
    /\ \E d \in Documents :
           /\ document[d].of = n /\ \A e \in d + 1 .. MaxDocuments : document[e].of # n
           /\ document' = [document EXCEPT ![d] = [state |-> "queued", of |-> 0]]
    /\ UNCHANGED <<approved, proposal, made, uploads, key, request, told, faults>>

\* ... or generates another.
GenerateDraft(n) ==
    /\ n \in Existing /\ Unlocked(n)
    /\ uploads + Cardinality(Running) < MaxDocuments
    /\ uploads' = uploads + 1
    /\ document' = [document EXCEPT ![uploads + 1] = [state |-> "live", of |-> n]]
    /\ UNCHANGED <<approved, proposal, made, key, request, told, faults>>

\* The listing is sold, rejected, or approved again by other requests.
ListingChanges ==
    /\ ListingUnlocked
    /\ approved' = ~approved
    /\ UNCHANGED <<proposal, made, document, uploads, key, request, told, faults>>

-----------------------------------------------------------------------------
(* The database and the process.                                           *)

WaitsForProposal(r) ==
    \/ At(r, {"listing"}) /\ \E n \in Active : ~ProposalIsFree(r, n)
    \/ At(r, {"edited"}) /\ \E n \in Others(request[r].on) : ~ProposalIsFree(r, n)

\* A submission or an edit that holds the listing waits for an editor's
\* negotiation, and that editor for the listing.  The victim's catch rolls back
\* and answers 500.
BreakDeadlock ==
    \E r, e \in Requests :
        /\ WaitsForProposal(r) /\ At(e, {"editing"})
        /\ \E victim \in {r, e} : Refuse(victim, "other")

StatementFails(r) ==
    /\ ~At(r, {"idle"}) /\ faults < MaxFaults
    /\ faults' = faults + 1
    /\ Finish(r, "other")
    /\ UNCHANGED <<approved, proposal, made, document, uploads, key>>

\* MySQL rolls back the transactions of connections that are gone.
Crash ==
    /\ faults < MaxFaults /\ \E r \in Requests : ~At(r, {"idle"})
    /\ faults' = faults + 1
    /\ request' = [r \in Requests |-> Idle]
    /\ UNCHANGED <<approved, proposal, made, document, uploads, key, told>>

Step(r) ==
    \/ InsertKey(r) \/ LockListing(r) \/ RefuseData(r) \/ CheckActive(r) \/ Generate(r) \/ Commit(r)
    \/ EditProposal(r) \/ SaveProposal(r)

Next ==
    \/ \E r \in Requests :
          \/ \E k \in Keys : Submit(r, k)
          \/ \E n \in Proposals : LockProposal(r, n)
          \/ Step(r) \/ PdfFails(r) \/ StatementFails(r)
    \/ \E n \in Proposals :
          \/ DeleteMyProposal(n) \/ UploadSigned(n) \/ RemoveSigned(n)
          \/ ApproveNegotiation(n) \/ RejectNegotiation(n) \/ CancelNegotiation(n)
          \/ CreateContract(n) \/ FinalizeContract(n) \/ ReopenContract(n) \/ RejectSide(n)
          \/ DeleteProposalDraft(n) \/ GenerateDraft(n)
    \/ ListingChanges \/ BreakDeadlock \/ Crash

Spec == Init /\ [][Next]_vars

\* Statements end, a lock is granted in the order it was asked for, and the
\* database finds deadlocks.
FairSpec == Spec /\ WF_vars(BreakDeadlock) /\ \A r \in Requests : SF_vars(Step(r))

-----------------------------------------------------------------------------
(* What the submission promises.                                           *)

Says(r, answer) == told'[r] = answer /\ told[r] # answer

\* Of a listing's active proposals at most one has no contract yet, however
\* submissions, edits and decisions overlap: the lock on the listing covers the
\* check of generateProposalFromProperty and its insert.  Only their contracts
\* bring others back beside it.
Open == {n \in Active : ~proposal[n].contract}
OneOpenProposal == Cardinality(Open) <= 1

\* Keys and proposals name each other until an administrator rejects the
\* proposal or its person deletes it, which frees the key for another try; an
\* approval, the refusal of a rival, a cancellation and a sale do not.
Kept == {n \in Existing : ~proposal[n].rejected}
KeysNameProposals ==
    /\ \A k \in Keys : key[k].state = "complete" =>
           key[k].proposal \in Kept /\ proposal[key[k].proposal].key = k
    /\ \A n \in Kept : key[proposal[n].key].proposal = n

\* The rows are of the shapes the code gives them, a listing has one open
\* proposal without a contract at most, and a completed key names the proposal
\* made with it while that was neither rejected nor deleted.
SubmissionsHold == TypeOK /\ OneOpenProposal /\ KeysNameProposals

\* A retry is never told that a proposal exists when it is the very one that its
\* key made: the key's row is read before, and written with the proposal.  One
\* that was rejected lost its key, and its contract may have brought it back.
RetryIsNoConflict ==
    [][\A r \in Requests : Says(r, "exists") /\ At(r, {"listing"}) =>
           \A n \in Active : proposal[n].key = request[r].key => proposal[n].rejected]_vars

\* Every request is answered: submissions and edits take the locks in opposite
\* orders, and each way out of either gives them back.
EveryRequestEnds ==
    \A r \in Requests : ~At(r, {"idle"}) ~> At(r, {"idle"})

\* Refuted: the PDF that a completed key names stays.  Without it a retry is
\* answered that the proposal is in progress, for ever.
CompleteIsStored == \A k \in Keys : key[k].state = "complete" => Stored(k)

\* Refuted: a submission is refused as a duplicate when the same person has an
\* open proposal.
DuplicateIsOwn ==
    [][\A r \in Requests : Says(r, "exists") /\ At(r, {"listing"}) =>
           \E n \in Active : Person(proposal[n].key) = Person(request[r].key)]_vars
=============================================================================
