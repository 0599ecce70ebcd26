----------------------------- MODULE ContractOps -----------------------------
(***************************************************************************)
(* The transactions on a negotiation's one contract: its creation, the     *)
(* review of both sides' documents, the draft, the signatures, the         *)
(* finalization and the administrator's operations on finalized contracts. *)
(* A contract's party data, commission and signature method are no         *)
(* handler's guard here and are left out.                                  *)
(***************************************************************************)
EXTENDS DealState

\* Every document of kinds K is gone from negotiation n.
Without(n, K) ==
    [docs EXCEPT ![n] = [k \in DocKinds |-> IF k \in K THEN 0 ELSE docs[n][k]]]

OneMore(n, k) == [docs EXCEPT ![n][k] = @ + 1]
OneLess(n, k) == [docs EXCEPT ![n][k] = @ - 1]

-----------------------------------------------------------------------------
\* Statuses from which a contract may be opened by request.  A negotiation
\* under review is one of them, and so is one whose finalized contract was
\* deleted.
AllowedForContract == {"DOCUMENTATION_PHASE", "IN_NEGOTIATION"} \cup Dealt

CreateContract(n) ==
    /\ negotiation[n] \in AllowedForContract
    /\ contract[n] = NONE
    /\ contract' = [contract EXCEPT ![n] = "AWAITING_DOCS"]
    /\ approval' = [approval EXCEPT ![n] = NoApproval]
    /\ UNCHANGED <<property, negotiationVars, pending>>

\* Faulty variant: the review is open in every stage.
EvaluateSideAnyStage(n, side, decision) ==
    /\ contract[n] # NONE
    /\ approval' = [approval EXCEPT ![n][side] = decision]
    /\ contract' = [contract EXCEPT ![n] =
          IF @ = "AWAITING_DOCS" /\ BothGrantProgress(approval'[n]) THEN "IN_DRAFT" ELSE @]
    /\ UNCHANGED <<property, negotiationVars, pending>>

\* The administrator decides on one side.  The second side to be approved
\* moves the contract on; a rejection puts the negotiation back in progress
\* and the listing back on sale.
EvaluateSide(n, side, decision) ==
    /\ contract[n] = "AWAITING_DOCS"
    /\ approval' = [approval EXCEPT ![n][side] = decision]
    /\ contract' = [contract EXCEPT ![n] =
          IF BothGrantProgress(approval'[n]) THEN "IN_DRAFT" ELSE @]
    /\ IF decision = "REJECTED"
       THEN /\ negotiation' = [negotiation EXCEPT ![n] = "IN_NEGOTIATION"]
            /\ property' = [property EXCEPT ![PropertyOf[n]] = Relisted(@)]
       ELSE UNCHANGED <<negotiation, property>>
    /\ UNCHANGED <<docs, pending>>

\* The administrator decides on one category.  Both approvals are computed
\* again from all the categories, whatever was decided side by side: they are
\* any pair `a`.  The contract moves when both sides may and every required
\* category is approved, which two full approvals imply.
EvaluateCategory(n, a, everyCategory) ==
    /\ contract[n] = "AWAITING_DOCS"
    /\ (\A s \in Sides : a[s] = "APPROVED") => everyCategory
    /\ approval' = [approval EXCEPT ![n] = a]
    /\ contract' = [contract EXCEPT ![n] =
          IF BothGrantProgress(a) /\ everyCategory THEN "IN_DRAFT" ELSE @]
    /\ UNCHANGED <<property, negotiationVars, pending>>

-----------------------------------------------------------------------------
\* The draft: a new file replaces the one there is, or that one is reused.
UploadDraft(n) ==
    /\ contract[n] = "IN_DRAFT"
    /\ \/ docs' = [docs EXCEPT ![n]["contrato_minuta"] = 1]
       \/ /\ docs[n]["contrato_minuta"] > 0
          /\ UNCHANGED docs
    /\ contract' = [contract EXCEPT ![n] = "AWAITING_SIGNATURES"]
    /\ UNCHANGED <<property, negotiation, approval, pending>>

TransitionNext(n) ==
    /\ contract[n] = "IN_DRAFT"
    /\ docs[n]["contrato_minuta"] > 0
    /\ contract' = [contract EXCEPT ![n] = "AWAITING_SIGNATURES"]
    /\ UNCHANGED <<property, negotiationVars, approval, pending>>

\* Faulty variant: a step back to the draft keeps the signed documents.
RollbackDraftOnly(target) ==
    IF target = "AWAITING_DOCS" THEN DocKinds ELSE {"signed_proposal"}

\* What a step back to a stage deletes.  The query also takes the documents
\* that carry no contractId, and the signed proposal is one of them.
RollbackDocs(target) ==
    {"signed_proposal"} \cup
    IF target = "AWAITING_DOCS" THEN ContractDocs ELSE SignedEvidence

TransitionPrevious(n) ==
    \/ /\ contract[n] = "AWAITING_SIGNATURES"
       /\ contract' = [contract EXCEPT ![n] = "IN_DRAFT"]
       /\ docs' = Without(n, RollbackDocs("IN_DRAFT"))
       /\ UNCHANGED <<property, negotiation, approval, pending>>
    \/ /\ contract[n] = "IN_DRAFT"
       /\ contract' = [contract EXCEPT ![n] = "AWAITING_DOCS"]
       /\ approval' = [approval EXCEPT ![n] = NoApproval]
       /\ docs' = Without(n, RollbackDocs("AWAITING_DOCS"))
       /\ UNCHANGED <<property, negotiation, pending>>

\* Signed contract and payment proof, from the administrator or a party.
UploadSignedDoc(n, k) ==
    /\ contract[n] = "AWAITING_SIGNATURES"
    /\ k \in SignedEvidence
    /\ docs[n][k] < MaxDocs
    /\ docs' = OneMore(n, k)
    /\ UNCHANGED <<property, negotiation, contractVars, pending>>

\* Faulty variant: the approvals do not protect the draft.
DeleteAnyContractDocument(n, k) ==
    /\ contract[n] # NONE
    /\ docs[n][k] > 0
    /\ docs' = OneLess(n, k)
    /\ UNCHANGED <<property, negotiation, contractVars, pending>>

\* A signed document may go at any stage, the signed proposal included.  The
\* draft belongs to no side: it may go while either side is still editable.
DeleteContractDocument(n, k) ==
    /\ contract[n] # NONE
    /\ docs[n][k] > 0
    /\ k = "contrato_minuta" => \E s \in Sides : approval[n][s] \in AllowsEditing
    /\ docs' = OneLess(n, k)
    /\ UNCHANGED <<property, negotiation, contractVars, pending>>

-----------------------------------------------------------------------------
PropertyStatusOfDeal(deal) == IF deal = "SOLD" THEN "sold" ELSE "rented"

\* Faulty variant: the signed contract or the payment proof is enough.
FinalizeOnAnyEvidence(n, deal) ==
    /\ contract[n] = "AWAITING_SIGNATURES"
    /\ \E k \in SignedEvidence : docs[n][k] > 0
    /\ contract' = [contract EXCEPT ![n] = "FINALIZED"]
    /\ negotiation' = [negotiation EXCEPT ![n] = deal]
    /\ property' = [property EXCEPT ![PropertyOf[n]] =
          Columns(PropertyStatusOfDeal(deal), @.visibility, deal)]
    /\ UNCHANGED <<approval, docs, pending>>

\* The negotiation and the listing are closed whatever their status was.
Finalize(n, deal) ==
    /\ contract[n] = "AWAITING_SIGNATURES"
    /\ \A k \in SignedEvidence : docs[n][k] > 0
    /\ contract' = [contract EXCEPT ![n] = "FINALIZED"]
    /\ negotiation' = [negotiation EXCEPT ![n] = deal]
    /\ property' = [property EXCEPT ![PropertyOf[n]] =
          Columns(PropertyStatusOfDeal(deal), @.visibility, deal)]
    /\ UNCHANGED <<approval, docs, pending>>

\* Faulty variant: of the listing only the status column is reset.
ReopenKeepingLifecycle(n) ==
    /\ contract[n] = "FINALIZED"
    /\ contract' = [contract EXCEPT ![n] = "AWAITING_DOCS"]
    /\ approval' = [approval EXCEPT ![n] = NoApproval]
    /\ docs' = Without(n, DocKinds)
    /\ negotiation' = [negotiation EXCEPT ![n] = "IN_NEGOTIATION"]
    /\ property' = [property EXCEPT ![PropertyOf[n]] =
          Columns("negociacao", @.visibility, @.lifecycle)]
    /\ UNCHANGED pending

ReopenFinalized(n) ==
    /\ contract[n] = "FINALIZED"
    /\ contract' = [contract EXCEPT ![n] = "AWAITING_DOCS"]
    /\ approval' = [approval EXCEPT ![n] = NoApproval]
    /\ docs' = Without(n, DocKinds)
    /\ negotiation' = [negotiation EXCEPT ![n] = "IN_NEGOTIATION"]
    /\ property' = [property EXCEPT ![PropertyOf[n]] = UnderNegotiation]
    /\ UNCHANGED pending

DeleteFinalized(n) ==
    /\ contract[n] = "FINALIZED"
    /\ contract' = [contract EXCEPT ![n] = NONE]
    /\ approval' = [approval EXCEPT ![n] = NoApproval]
    /\ docs' = Without(n, DocKinds)
    /\ UNCHANGED <<property, negotiation, pending>>

UploadFinalizedDocument(n, k) ==
    /\ contract[n] = "FINALIZED"
    /\ k \in ContractDocs
    /\ docs[n][k] < MaxDocs
    /\ docs' = OneMore(n, k)
    /\ UNCHANGED <<property, negotiation, contractVars, pending>>

DeleteFinalizedDocument(n, k) ==
    /\ contract[n] = "FINALIZED"
    /\ docs[n][k] > 0
    /\ docs' = OneLess(n, k)
    /\ UNCHANGED <<property, negotiation, contractVars, pending>>

ContractStep(n) ==
    \/ CreateContract(n)
    \/ \E side \in Sides, decision \in Decisions : EvaluateSide(n, side, decision)
    \/ \E a \in [Sides -> Decisions], everyCategory \in BOOLEAN :
          EvaluateCategory(n, a, everyCategory)
    \/ UploadDraft(n)
    \/ TransitionNext(n)
    \/ TransitionPrevious(n)
    \/ \E k \in DocKinds :
          \/ UploadSignedDoc(n, k)
          \/ DeleteContractDocument(n, k)
          \/ UploadFinalizedDocument(n, k)
          \/ DeleteFinalizedDocument(n, k)
    \/ \E deal \in Dealt : Finalize(n, deal)
    \/ ReopenFinalized(n)
    \/ DeleteFinalized(n)

ContractNext == \E n \in Negotiations : ContractStep(n)
=============================================================================
