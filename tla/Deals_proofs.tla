----------------------------- MODULE Deals_proofs -----------------------------
(***************************************************************************)
(* Proofs about Deals, for every set of listings, negotiations and         *)
(* requests.  First the types, then the invariants in the order in which   *)
(* each relies on the ones before it.                                      *)
(***************************************************************************)
EXTENDS Deals, TLAPS

\* Initially every variable has its type.
LEMMA InitTypes == Init => TypeOK
  BY DealConstants
  DEF Init, TypeOK, Listing, Visibility, Lifecycle, NoApproval, NoDocs,
      ApprovalStatus, NONE

\* Setting the count of one kind of document keeps the documents' type.
LEMMA OneCountSet ==
    ASSUME NEW D \in [Negotiations -> [DocKinds -> 0 .. MaxDocs]],
           NEW n \in Negotiations, NEW k \in DocKinds, NEW v \in 0 .. MaxDocs
    PROVE  [D EXCEPT ![n][k] = v] \in [Negotiations -> [DocKinds -> 0 .. MaxDocs]]
  OBVIOUS

\* Proposals and decisions on negotiations keep every variable in its type.
LEMMA NegotiationTypes == TypeOK /\ NegotiationNext => TypeOK'
<1> SUFFICES ASSUME TypeOK, NEW n \in Negotiations, NegotiationStep(n)
             PROVE  TypeOK'
  BY DEF NegotiationNext
<1> USE DealConstants
    DEF TypeOK, NegotiationStatus, Active, Closed, Refused, Dealt
<1>a. PropertyOf[n] \in Properties
  OBVIOUS
<1>l. /\ OnSale \in Listing
      /\ UnderNegotiation \in Listing
      /\ \A x \in Listing : Relisted(x) \in Listing
  BY DEF OnSale, UnderNegotiation, Columns, Relisted, Listing, PropertyStatus, Visibility, Lifecycle
<1>d. [docs EXCEPT ![n]["signed_proposal"] = 1]
        \in [Negotiations -> [DocKinds -> 0 .. MaxDocs]]
  <2>1. "signed_proposal" \in DocKinds /\ 1 \in 0 .. MaxDocs
    BY DEF DocKinds
  <2>2. docs \in [Negotiations -> [DocKinds -> 0 .. MaxDocs]]
    OBVIOUS
  <2>3. QED
    BY ONLY <2>1, <2>2, n \in Negotiations, OneCountSet
<1>1. CASE GenerateProposal(n)
  BY <1>1 DEF GenerateProposal, contractVars
<1>2. CASE UpdateProposal(n)
  BY <1>2 DEF UpdateProposal, contractVars
<1>3. CASE DeleteMyProposal(n)
  <2>1. NoApproval \in [Sides -> ApprovalStatus] /\ NoDocs \in [DocKinds -> 0 .. MaxDocs]
    BY DEF NoApproval, NoDocs, ApprovalStatus
  <2>2. QED
    BY <1>3, <2>1 DEF DeleteMyProposal, NONE
<1>4. CASE UploadSignedProposal(n)
  BY <1>4, <1>d DEF UploadSignedProposal, contractVars
<1>5. CASE AdminUploadSignedProposal(n)
  BY <1>5, <1>d DEF AdminUploadSignedProposal, contractVars
<1>6. CASE AdminDeleteSignedProposal(n)
  <2>1. docs[n]["signed_proposal"] - 1 \in 0 .. MaxDocs
    BY <1>6 DEF AdminDeleteSignedProposal, SignedProposal, DocKinds
  <2>2. docs' \in [Negotiations -> [DocKinds -> 0 .. MaxDocs]]
    BY <1>6, <2>1, OneCountSet DEF AdminDeleteSignedProposal, DocKinds
  <2>3. QED
    BY <1>6, <2>2 DEF AdminDeleteSignedProposal, contractVars
<1>7. CASE ApproveNegotiation(n)
  <2>1. NoApproval \in [Sides -> ApprovalStatus]
    BY DEF NoApproval, ApprovalStatus
  <2>2. negotiation' \in [Negotiations -> NegotiationStatus \cup {NONE}]
    BY <1>7 DEF ApproveNegotiation
  <2>3. contract' \in [Negotiations -> ContractStage \cup {NONE}]
    BY <1>7 DEF ApproveNegotiation, ContractStage
  <2>4. QED
    BY <1>7, <1>a, <1>l, <2>1, <2>2, <2>3 DEF ApproveNegotiation
<1>8. CASE RejectNegotiation(n)
  BY <1>8, <1>a, <1>l DEF RejectNegotiation, contractVars
<1>9. CASE CancelNegotiation(n)
  BY <1>9, <1>a, <1>l DEF CancelNegotiation, contractVars
<1> QED
  BY <1>1, <1>2, <1>3, <1>4, <1>5, <1>6, <1>7, <1>8, <1>9 DEF NegotiationStep

\* Removing kinds of document keeps the documents' type.
LEMMA WithoutTypes ==
    ASSUME TypeOK, NEW n \in Negotiations, NEW K
    PROVE  Without(n, K) \in [Negotiations -> [DocKinds -> 0 .. MaxDocs]]
  BY DealConstants DEF TypeOK, Without

\* Adding a document below the bound, or removing one there is, keeps the
\* documents' type.
LEMMA OneMoreOrLess ==
    ASSUME TypeOK, NEW n \in Negotiations, NEW k \in DocKinds
    PROVE  /\ docs[n][k] < MaxDocs =>
                 OneMore(n, k) \in [Negotiations -> [DocKinds -> 0 .. MaxDocs]]
           /\ docs[n][k] > 0 =>
                 OneLess(n, k) \in [Negotiations -> [DocKinds -> 0 .. MaxDocs]]
<1>1. docs \in [Negotiations -> [DocKinds -> 0 .. MaxDocs]] /\ docs[n][k] \in 0 .. MaxDocs
  BY DEF TypeOK
<1>2. /\ docs[n][k] < MaxDocs => docs[n][k] + 1 \in 0 .. MaxDocs
      /\ docs[n][k] > 0 => docs[n][k] - 1 \in 0 .. MaxDocs
  BY <1>1, DealConstants
<1>3. QED
  BY <1>1, <1>2, OneCountSet DEF OneMore, OneLess

\* The contract's operations keep every variable in its type.
LEMMA ContractTypes == TypeOK /\ ContractNext => TypeOK'
<1> SUFFICES ASSUME TypeOK, NEW n \in Negotiations, ContractStep(n)
             PROVE  TypeOK'
  BY DEF ContractNext
<1> USE DealConstants
    DEF TypeOK, NegotiationStatus, Active, Closed, Refused, Dealt, ContractStage
<1>a. PropertyOf[n] \in Properties /\ NoApproval \in [Sides -> ApprovalStatus]
  BY DEF NoApproval, ApprovalStatus
<1>l. /\ UnderNegotiation \in Listing
      /\ \A x \in Listing : Relisted(x) \in Listing
  BY DEF OnSale, UnderNegotiation, Columns, Relisted, Listing, PropertyStatus, Visibility, Lifecycle
<1>1. CASE CreateContract(n)
  BY <1>1, <1>a DEF CreateContract, negotiationVars
<1>2. ASSUME NEW side \in Sides, NEW decision \in Decisions, EvaluateSide(n, side, decision)
      PROVE  TypeOK'
  <2>1. approval' \in [Negotiations -> [Sides -> ApprovalStatus]]
    BY <1>2 DEF EvaluateSide
  <2>2. contract' \in [Negotiations -> ContractStage \cup {NONE}]
    BY <1>2 DEF EvaluateSide
  <2>3. CASE decision = "REJECTED"
    <3>1. Relisted(property[PropertyOf[n]]) \in Listing
      BY <1>a, <1>l
    <3>2. property' \in [Properties -> Listing]
      BY <1>2, <1>a, <2>3, <3>1 DEF EvaluateSide
    <3>3. negotiation' \in [Negotiations -> NegotiationStatus \cup {NONE}]
      BY <1>2, <2>3 DEF EvaluateSide
    <3>4. QED
      BY <1>2, <2>1, <2>2, <3>2, <3>3 DEF EvaluateSide
  <2>4. CASE decision # "REJECTED"
    BY <1>2, <2>1, <2>2, <2>4 DEF EvaluateSide
  <2>5. QED
    BY <2>3, <2>4
<1>3. ASSUME NEW a \in [Sides -> Decisions], NEW everyCategory \in BOOLEAN,
             EvaluateCategory(n, a, everyCategory)
      PROVE  TypeOK'
  <2>1. a \in [Sides -> ApprovalStatus]
    OBVIOUS
  <2>2. QED
    BY <1>3, <2>1 DEF EvaluateCategory, negotiationVars
<1>4. CASE UploadDraft(n)
  <2>1. "contrato_minuta" \in DocKinds /\ 1 \in 0 .. MaxDocs
    BY DEF DocKinds, ContractDocs
  <2>2. [docs EXCEPT ![n]["contrato_minuta"] = 1]
          \in [Negotiations -> [DocKinds -> 0 .. MaxDocs]]
    BY <2>1, OneCountSet
  <2>3. QED
    BY <1>4, <2>2 DEF UploadDraft
<1>5. CASE TransitionNext(n)
  BY <1>5 DEF TransitionNext, negotiationVars
<1>6. CASE TransitionPrevious(n)
  <2>1. docs' \in [Negotiations -> [DocKinds -> 0 .. MaxDocs]]
    BY <1>6, WithoutTypes DEF TransitionPrevious
  <2>2. QED
    BY <1>6, <1>a, <2>1 DEF TransitionPrevious
<1>7. ASSUME NEW k \in DocKinds,
             \/ UploadSignedDoc(n, k) \/ DeleteContractDocument(n, k)
             \/ UploadFinalizedDocument(n, k) \/ DeleteFinalizedDocument(n, k)
      PROVE  TypeOK'
  <2>1. docs' \in [Negotiations -> [DocKinds -> 0 .. MaxDocs]]
    BY <1>7, OneMoreOrLess DEF UploadSignedDoc, DeleteContractDocument,
       UploadFinalizedDocument, DeleteFinalizedDocument
  <2>2. UNCHANGED <<property, negotiation, contract, approval, pending>>
    BY <1>7 DEF UploadSignedDoc, DeleteContractDocument,
       UploadFinalizedDocument, DeleteFinalizedDocument, contractVars
  <2>3. QED
    BY <2>1, <2>2
<1>8. ASSUME NEW deal \in Dealt, Finalize(n, deal)
      PROVE  TypeOK'
  <2>1. property' \in [Properties -> Listing]
    BY <1>8, <1>a DEF Finalize, PropertyStatusOfDeal, Columns, Listing, PropertyStatus, Lifecycle
  <2>2. QED
    BY <1>8, <2>1 DEF Finalize
<1>9. CASE ReopenFinalized(n)
  BY <1>9, <1>a, <1>l, WithoutTypes DEF ReopenFinalized
<1>10. CASE DeleteFinalized(n)
  BY <1>10, <1>a, WithoutTypes DEF DeleteFinalized
<1> QED
  BY <1>1, <1>2, <1>3, <1>4, <1>5, <1>6, <1>7, <1>8, <1>9, <1>10 DEF ContractStep

\* The operations on a listing keep every variable in its type.
LEMMA PropertyTypes == TypeOK /\ PropertyNext => TypeOK'
<1> SUFFICES ASSUME TypeOK, PropertyNext
             PROVE  TypeOK'
  OBVIOUS
<1> USE DEF TypeOK
<1>1. ASSUME NEW p \in Properties,
             \/ ApproveProperty(p) \/ RejectProperty(p) \/ RelistProperty(p)
             \/ DeleteProperty(p) \/ SubmitEditRequest(p)
             \/ \E status \in PropertyStatus \ {"negociacao"} : UpdatePropertyStatus(p, status)
      PROVE  TypeOK'
  <2>1. property' \in [Properties -> Listing]
    BY <1>1 DEF ApproveProperty, RejectProperty, RelistProperty, DeleteProperty,
       SubmitEditRequest, UpdatePropertyStatus, OnSale, Columns, Listing, PropertyStatus,
       Visibility, Lifecycle
  <2>2. UNCHANGED <<negotiation, contract, approval, docs, pending>>
    BY <1>1 DEF ApproveProperty, RejectProperty, RelistProperty, DeleteProperty,
       SubmitEditRequest, UpdatePropertyStatus, negotiationVars, contractVars
  <2>3. QED
    BY <2>1, <2>2
<1>2. ASSUME NEW r \in Requests, NEW p \in Properties,
             \/ BeginResubmit(r, p) \/ BeginCancelDeal(r, p)
             \/ \E status \in PropertyStatus \ {"negociacao"} :
                   BeginCloseDeal(r, p, status) \/ BeginUpdateProperty(r, p, status)
      PROVE  TypeOK'
  <2>1. PICK handler \in Handler, status \in PropertyStatus \ {"negociacao"}, hide \in BOOLEAN :
              Decide(r, handler, p, status, hide)
    BY <1>2 DEF BeginResubmit, BeginCancelDeal, BeginCloseDeal, BeginUpdateProperty,
       Handler, PropertyStatus
  <2>2. pending' \subseteq PropertyWrite
    BY <2>1 DEF Decide, PropertyWrite
  <2>3. QED
    BY <2>1, <2>2 DEF Decide, negotiationVars, contractVars
<1>3. ASSUME NEW w \in pending, CompleteWrite(w)
      PROVE  TypeOK'
  <2>1. w.property \in Properties /\ w.status \in PropertyStatus
    BY DEF PropertyWrite
  <2>2. property' \in [Properties -> Listing]
    BY <1>3, <2>1 DEF CompleteWrite, Columns, Listing, Visibility
  <2>3. QED
    BY <1>3, <2>2 DEF CompleteWrite, negotiationVars, contractVars
<1> QED
  BY <1>1, <1>2, <1>3 DEF PropertyNext

\* Whatever the step, every variable keeps its type.
LEMMA TypeStep == TypeOK /\ [Next]_vars => TypeOK'
<1>1. ASSUME TypeOK, UNCHANGED vars
      PROVE  TypeOK'
  BY <1>1 DEF TypeOK, vars
<1>2. QED
  BY <1>1, NegotiationTypes, ContractTypes, PropertyTypes DEF Next

\* Every variable keeps its type in every run of the system.
THEOREM TypeCorrectness == Spec => []TypeOK
  BY InitTypes, TypeStep, PTL DEF Spec

-----------------------------------------------------------------------------
\* No operation on negotiations or listings moves a contract that exists to
\* another stage or touches its approvals: it may only open or remove it.
LEMMA OutsideContract ==
    ASSUME TypeOK, NegotiationNext \/ PropertyNext, NEW m \in Negotiations
    PROVE  \/ contract'[m] = contract[m] /\ approval'[m] = approval[m]
           \/ contract'[m] \in {NONE, "AWAITING_DOCS"} /\ approval'[m] = NoApproval
<1>1. CASE PropertyNext
  BY <1>1 DEF PropertyNext, ApproveProperty, RejectProperty, RelistProperty,
     DeleteProperty, SubmitEditRequest, UpdatePropertyStatus, BeginResubmit,
     BeginCancelDeal, BeginCloseDeal, BeginUpdateProperty, Decide, CompleteWrite,
     contractVars
<1>2. CASE NegotiationNext
  <2> PICK n \in Negotiations : NegotiationStep(n)
    BY <1>2 DEF NegotiationNext
  <2>1. CASE ApproveNegotiation(n)
    BY <2>1 DEF ApproveNegotiation, TypeOK
  <2>2. CASE DeleteMyProposal(n)
    BY <2>2 DEF DeleteMyProposal, TypeOK
  <2>3. CASE UNCHANGED contractVars
    BY <2>3 DEF contractVars
  <2>4. QED
    BY <2>1, <2>2, <2>3 DEF NegotiationStep, GenerateProposal, UpdateProposal, UploadSignedProposal,
       AdminUploadSignedProposal, AdminDeleteSignedProposal, RejectNegotiation,
       CancelNegotiation
<1>3. QED
  BY <1>1, <1>2

\* A contract's own operations keep its approvals behind its stage.
LEMMA ApprovalsStep ==
    TypeOK /\ ApprovalsBehindStage /\ [Next]_vars => ApprovalsBehindStage'
<1> SUFFICES ASSUME TypeOK, ApprovalsBehindStage, [Next]_vars, NEW m \in Negotiations,
                    contract'[m] \in {"IN_DRAFT", "AWAITING_SIGNATURES", "FINALIZED"}
             PROVE  BothGrantProgress(approval'[m])
  BY DEF ApprovalsBehindStage
<1>1. CASE UNCHANGED vars
  BY <1>1 DEF vars, ApprovalsBehindStage
<1>2. CASE NegotiationNext \/ PropertyNext
  BY <1>2, OutsideContract DEF ApprovalsBehindStage, NONE
<1>3. CASE ContractNext
  <2> PICK n \in Negotiations : ContractStep(n)
    BY <1>3 DEF ContractNext
  <2> USE DEF TypeOK, ApprovalsBehindStage
  <2>1. CASE CreateContract(n) \/ ReopenFinalized(n) \/ DeleteFinalized(n)
    BY <2>1 DEF CreateContract, ReopenFinalized, DeleteFinalized, NONE
  <2>2. ASSUME NEW side \in Sides, NEW decision \in Decisions, EvaluateSide(n, side, decision)
        PROVE  BothGrantProgress(approval'[m])
    BY <2>2 DEF EvaluateSide
  <2>3. ASSUME NEW a \in [Sides -> Decisions], NEW everyCategory \in BOOLEAN,
               EvaluateCategory(n, a, everyCategory)
        PROVE  BothGrantProgress(approval'[m])
    BY <2>3 DEF EvaluateCategory
  <2>4. CASE UploadDraft(n) \/ TransitionNext(n)
    BY <2>4 DEF UploadDraft, TransitionNext
  <2>5. CASE TransitionPrevious(n)
    BY <2>5 DEF TransitionPrevious
  <2>6. ASSUME NEW deal \in Dealt, Finalize(n, deal)
        PROVE  BothGrantProgress(approval'[m])
    BY <2>6 DEF Finalize
  <2>7. ASSUME NEW k \in DocKinds,
               \/ UploadSignedDoc(n, k) \/ DeleteContractDocument(n, k)
               \/ UploadFinalizedDocument(n, k) \/ DeleteFinalizedDocument(n, k)
        PROVE  BothGrantProgress(approval'[m])
    BY <2>7 DEF UploadSignedDoc, DeleteContractDocument, UploadFinalizedDocument,
       DeleteFinalizedDocument, contractVars
  <2>8. QED
    BY <2>1, <2>2, <2>3, <2>4, <2>5, <2>6, <2>7 DEF ContractStep
<1>4. QED
  BY <1>1, <1>2, <1>3 DEF Next

-----------------------------------------------------------------------------
\* A draft is there while a contract is out for signature, and no draft or
\* signed document is older than the stage it belongs to.
DocsFollowStage == DraftBehindSignatures /\ NoStaleEvidence

\* What DocsFollowStage says of one contract, given its stage and documents.
StageHasDocs(stage, d) ==
    /\ stage = "AWAITING_SIGNATURES" => d["contrato_minuta"] > 0
    /\ stage \notin {"AWAITING_SIGNATURES", "FINALIZED"}
          => \A k \in SignedEvidence : d[k] = 0
    /\ stage \in {NONE, "AWAITING_DOCS"} => d["contrato_minuta"] = 0

\* The invariant is that statement of every contract.
LEMMA DocsFollowStageAll ==
    DocsFollowStage <=> \A n \in Negotiations : StageHasDocs(contract[n], docs[n])
  BY DEF DocsFollowStage, DraftBehindSignatures, NoStaleEvidence, StageHasDocs

\* The negotiation's handlers touch the signed proposal alone, or remove the
\* contract with all its documents, or open it where there was none.
LEMMA NegotiationDocs ==
    TypeOK /\ DocsFollowStage /\ NegotiationNext => DocsFollowStage'
<1> SUFFICES ASSUME TypeOK, NEW n \in Negotiations, NegotiationStep(n),
                    \A i \in Negotiations : StageHasDocs(contract[i], docs[i]),
                    NEW m \in Negotiations
             PROVE  StageHasDocs(contract'[m], docs'[m])
  BY DocsFollowStageAll DEF NegotiationNext, DocsFollowStage, DraftBehindSignatures,
     NoStaleEvidence, StageHasDocs
<1> USE DEF TypeOK, StageHasDocs, SignedEvidence, DocKinds, ContractDocs, NONE
<1>1. CASE DeleteMyProposal(n)
  BY <1>1 DEF DeleteMyProposal, NoDocs
<1>2. CASE UploadSignedProposal(n) \/ AdminUploadSignedProposal(n)
  <2>1. contract' = contract /\ docs' = [docs EXCEPT ![n]["signed_proposal"] = 1]
    BY <1>2 DEF UploadSignedProposal, AdminUploadSignedProposal, contractVars
  <2>2. \A k \in ContractDocs : docs'[m][k] = docs[m][k]
    BY <2>1
  <2> QED BY <2>1, <2>2
<1>3. CASE AdminDeleteSignedProposal(n)
  <2>1. contract' = contract /\ \A k \in ContractDocs : docs'[m][k] = docs[m][k]
    BY <1>3 DEF AdminDeleteSignedProposal, contractVars
  <2> QED BY <2>1
<1>4. CASE ApproveNegotiation(n)
  BY <1>4 DEF ApproveNegotiation
<1>5. CASE UNCHANGED <<contract, docs>>
  BY <1>5
<1>6. QED
  BY <1>1, <1>2, <1>3, <1>4, <1>5 DEF NegotiationStep, GenerateProposal, UpdateProposal,
     RejectNegotiation, CancelNegotiation, contractVars

\* The contract's handlers: a step back empties what it undoes, and the draft
\* of a contract both of whose approvals stand cannot be deleted.
LEMMA ContractDocuments ==
    TypeOK /\ ApprovalsBehindStage /\ DocsFollowStage /\ ContractNext => DocsFollowStage'
<1> SUFFICES ASSUME TypeOK, ApprovalsBehindStage, NEW n \in Negotiations, ContractStep(n),
                    \A i \in Negotiations : StageHasDocs(contract[i], docs[i]),
                    NEW m \in Negotiations
             PROVE  StageHasDocs(contract'[m], docs'[m])
  BY DocsFollowStageAll DEF ContractNext, DocsFollowStage, DraftBehindSignatures,
     NoStaleEvidence, StageHasDocs
<1> USE DEF TypeOK, StageHasDocs, SignedEvidence, DocKinds, ContractDocs, NONE
<1>1. CASE CreateContract(n)
  BY <1>1 DEF CreateContract, negotiationVars
<1>2. ASSUME NEW side \in Sides, NEW decision \in Decisions, EvaluateSide(n, side, decision)
      PROVE  StageHasDocs(contract'[m], docs'[m])
  BY <1>2 DEF EvaluateSide
<1>3. ASSUME NEW a \in [Sides -> Decisions], NEW everyCategory \in BOOLEAN,
             EvaluateCategory(n, a, everyCategory)
      PROVE  StageHasDocs(contract'[m], docs'[m])
  BY <1>3 DEF EvaluateCategory, negotiationVars
<1>4. CASE UploadDraft(n)
  BY <1>4 DEF UploadDraft
<1>5. CASE TransitionNext(n)
  BY <1>5 DEF TransitionNext, negotiationVars
<1>6. CASE TransitionPrevious(n)
  BY <1>6 DEF TransitionPrevious, Without, RollbackDocs
<1>7. ASSUME NEW k \in DocKinds, UploadSignedDoc(n, k)
      PROVE  StageHasDocs(contract'[m], docs'[m])
  BY <1>7 DEF UploadSignedDoc, OneMore, contractVars
<1>8. ASSUME NEW k \in DocKinds, DeleteContractDocument(n, k)
      PROVE  StageHasDocs(contract'[m], docs'[m])
  <2>1. contract[n] = "AWAITING_SIGNATURES" => k # "contrato_minuta"
    BY <1>8 DEF DeleteContractDocument, ApprovalsBehindStage, BothGrantProgress,
       GrantsProgress, AllowsEditing
  <2>2. QED
    BY <1>8, <2>1 DEF DeleteContractDocument, OneLess, contractVars
<1>9. ASSUME NEW k \in DocKinds, UploadFinalizedDocument(n, k) \/ DeleteFinalizedDocument(n, k)
      PROVE  StageHasDocs(contract'[m], docs'[m])
  BY <1>9 DEF UploadFinalizedDocument, DeleteFinalizedDocument, OneMore, OneLess, contractVars
<1>10. ASSUME NEW deal \in Dealt, Finalize(n, deal)
       PROVE  StageHasDocs(contract'[m], docs'[m])
  BY <1>10 DEF Finalize
<1>11. CASE ReopenFinalized(n) \/ DeleteFinalized(n)
  BY <1>11 DEF ReopenFinalized, DeleteFinalized, Without
<1> QED
  BY <1>1, <1>2, <1>3, <1>4, <1>5, <1>6, <1>7, <1>8, <1>9, <1>10, <1>11 DEF ContractStep

\* No operation on a listing touches a negotiation or its contract.
LEMMA PropertyAlone ==
    PropertyNext => UNCHANGED <<negotiation, contract, approval, docs>>
  BY DEF PropertyNext, ApproveProperty, RejectProperty, RelistProperty,
     DeleteProperty, SubmitEditRequest, UpdatePropertyStatus, BeginResubmit,
     BeginCancelDeal, BeginCloseDeal, BeginUpdateProperty, Decide, CompleteWrite,
     contractVars, negotiationVars

\* Whatever the step, the documents follow the stage.
LEMMA DocumentsStep ==
    TypeOK /\ ApprovalsBehindStage /\ DocsFollowStage /\ [Next]_vars => DocsFollowStage'
<1>1. DocsFollowStage /\ UNCHANGED <<contract, docs>> => DocsFollowStage'
  BY DEF DocsFollowStage, DraftBehindSignatures, NoStaleEvidence
<1>2. QED
  BY <1>1, NegotiationDocs, ContractDocuments, PropertyAlone DEF Next, vars

-----------------------------------------------------------------------------
\* A finalized contract keeps its deal, a negotiation in progress keeps its
\* contract, and a listing keeps at most one proposal without a contract: the
\* first two say which negotiations a removed contract may leave behind.
DealsHold == FinalizedIsDealt /\ InProgressHasContract /\ AtMostOneOpenProposal

\* A negotiation's handlers leave every other negotiation alone, except that an
\* approval refuses rivals, so no negotiation but n becomes active, and n only
\* where it was, where it gets a contract, or where none was active.
LEMMA NegotiationDeals ==
    TypeOK /\ DealsHold /\ NegotiationNext => DealsHold'
<1> SUFFICES ASSUME TypeOK, DealsHold, NEW n \in Negotiations, NegotiationStep(n)
             PROVE  DealsHold'
  BY DEF NegotiationNext
<1> USE DEF TypeOK, DealsHold, FinalizedIsDealt, InProgressHasContract,
            AtMostOneOpenProposal, Active, Dealt, NONE
<1>1. CASE GenerateProposal(n)
  BY <1>1 DEF GenerateProposal, OnProperty, contractVars
<1>2. CASE UpdateProposal(n)
  BY <1>2 DEF UpdateProposal, PreSigned, contractVars
<1>3. CASE DeleteMyProposal(n)
  BY <1>3 DEF DeleteMyProposal
<1>4. CASE UploadSignedProposal(n)
  BY <1>4 DEF UploadSignedProposal, contractVars
<1>5. CASE AdminUploadSignedProposal(n)
  BY <1>5 DEF AdminUploadSignedProposal, contractVars
<1>6. CASE AdminDeleteSignedProposal(n)
  BY <1>6 DEF AdminDeleteSignedProposal, contractVars
<1>7. CASE ApproveNegotiation(n)
  BY <1>7 DEF ApproveNegotiation, Competing, OnProperty, Closed, Refused, ContractStage
<1>8. CASE RejectNegotiation(n)
  BY <1>8 DEF RejectNegotiation, contractVars
<1>9. CASE CancelNegotiation(n)
  BY <1>9 DEF CancelNegotiation, contractVars
<1> QED
  BY <1>1, <1>2, <1>3, <1>4, <1>5, <1>6, <1>7, <1>8, <1>9 DEF NegotiationStep

\* The contract's handlers make a negotiation active only where its contract
\* stays, and remove only a contract whose negotiation is dealt.
LEMMA ContractDeals ==
    TypeOK /\ DealsHold /\ ContractNext => DealsHold'
<1> SUFFICES ASSUME TypeOK, DealsHold, NEW n \in Negotiations, ContractStep(n)
             PROVE  DealsHold'
  BY DEF ContractNext
<1> USE DEF TypeOK, DealsHold, FinalizedIsDealt, InProgressHasContract,
            AtMostOneOpenProposal, Active, Dealt, NONE
<1>1. CASE CreateContract(n)
  BY <1>1 DEF CreateContract, negotiationVars
<1>2. ASSUME NEW side \in Sides, NEW decision \in Decisions, EvaluateSide(n, side, decision)
      PROVE  DealsHold'
  BY <1>2 DEF EvaluateSide
<1>3. ASSUME NEW a \in [Sides -> Decisions], NEW everyCategory \in BOOLEAN,
             EvaluateCategory(n, a, everyCategory)
      PROVE  DealsHold'
  BY <1>3 DEF EvaluateCategory, negotiationVars
<1>4. CASE UploadDraft(n)
  BY <1>4 DEF UploadDraft
<1>5. CASE TransitionNext(n)
  BY <1>5 DEF TransitionNext, negotiationVars
<1>6. CASE TransitionPrevious(n)
  <2>1. /\ negotiation' = negotiation
        /\ contract[n] # NONE /\ contract'[n] \notin {NONE, "FINALIZED"}
        /\ \A i \in Negotiations \ {n} : contract'[i] = contract[i]
    BY <1>6 DEF TransitionPrevious
  <2> QED BY <2>1
<1>7. ASSUME NEW k \in DocKinds,
             \/ UploadSignedDoc(n, k) \/ DeleteContractDocument(n, k)
             \/ UploadFinalizedDocument(n, k) \/ DeleteFinalizedDocument(n, k)
      PROVE  DealsHold'
  BY <1>7 DEF UploadSignedDoc, DeleteContractDocument, UploadFinalizedDocument,
     DeleteFinalizedDocument, contractVars
<1>8. ASSUME NEW deal \in Dealt, Finalize(n, deal)
      PROVE  DealsHold'
  BY <1>8 DEF Finalize
<1>9. CASE ReopenFinalized(n)
  BY <1>9 DEF ReopenFinalized
<1>10. CASE DeleteFinalized(n)
  BY <1>10 DEF DeleteFinalized
<1> QED
  BY <1>1, <1>2, <1>3, <1>4, <1>5, <1>6, <1>7, <1>8, <1>9, <1>10 DEF ContractStep

\* Whatever the step, deals hold.
LEMMA DealsStep == TypeOK /\ DealsHold /\ [Next]_vars => DealsHold'
<1>1. DealsHold /\ UNCHANGED <<negotiation, contract>> => DealsHold'
  BY DEF DealsHold, FinalizedIsDealt, InProgressHasContract, AtMostOneOpenProposal
<1>2. QED
  BY <1>1, NegotiationDeals, ContractDeals, PropertyAlone DEF Next, vars

-----------------------------------------------------------------------------
\* Only an approval and a reopening put a listing under negotiation, and both
\* set its three columns; whatever else writes the status column takes the
\* listing out of it.
LEMMA HeldStep ==
    TypeOK /\ UnderNegotiationIsHeld /\ [Next]_vars => UnderNegotiationIsHeld'
<1> SUFFICES ASSUME TypeOK, UnderNegotiationIsHeld, [Next]_vars, NEW p \in Properties,
                    property'[p].status = "negociacao"
             PROVE  property'[p] = UnderNegotiation
  BY DEF UnderNegotiationIsHeld
<1> USE DEF TypeOK, UnderNegotiationIsHeld
<1>r. \A x \in Listing : Relisted(x) = x \/ Relisted(x).status # "negociacao"
  BY DEF Relisted, OnSale, Columns
<1>1. CASE UNCHANGED property
  BY <1>1
<1>2. ASSUME NEW n \in Negotiations,
             \/ ApproveNegotiation(n) \/ RejectNegotiation(n) \/ CancelNegotiation(n)
             \/ ReopenFinalized(n)
      PROVE  property'[p] = UnderNegotiation
  BY <1>2, <1>r DEF ApproveNegotiation, RejectNegotiation, CancelNegotiation, ReopenFinalized
<1>3. ASSUME NEW n \in Negotiations, NEW side \in Sides, NEW decision \in Decisions,
             EvaluateSide(n, side, decision)
      PROVE  property'[p] = UnderNegotiation
  BY <1>3, <1>r DEF EvaluateSide
<1>4. ASSUME NEW n \in Negotiations, NEW deal \in Dealt, Finalize(n, deal)
      PROVE  property'[p] = UnderNegotiation
  BY <1>4 DEF Finalize, PropertyStatusOfDeal, Columns
<1>5. ASSUME NEW q \in Properties,
             \/ ApproveProperty(q) \/ RejectProperty(q) \/ RelistProperty(q)
             \/ DeleteProperty(q) \/ SubmitEditRequest(q)
             \/ \E status \in PropertyStatus \ {"negociacao"} : UpdatePropertyStatus(q, status)
      PROVE  property'[p] = UnderNegotiation
  BY <1>5 DEF ApproveProperty, RejectProperty, RelistProperty, DeleteProperty,
     SubmitEditRequest, UpdatePropertyStatus, OnSale, Columns
<1>6. ASSUME NEW w \in pending, CompleteWrite(w)
      PROVE  property'[p] = UnderNegotiation
  <2>1. w.status # "negociacao"
    BY DEF PropertyWrite
  <2>2. QED
    BY <1>6, <2>1 DEF CompleteWrite, Columns
<1>7. CASE PropertyNext
  BY <1>1, <1>5, <1>6, <1>7 DEF PropertyNext, BeginResubmit, BeginCancelDeal,
     BeginCloseDeal, BeginUpdateProperty, Decide
<1>8. CASE NegotiationNext
  BY <1>1, <1>2, <1>8 DEF NegotiationNext, NegotiationStep, GenerateProposal, UpdateProposal,
     DeleteMyProposal, UploadSignedProposal, AdminUploadSignedProposal,
     AdminDeleteSignedProposal
<1>9. CASE ContractNext
  BY <1>1, <1>2, <1>3, <1>4, <1>9 DEF ContractNext, ContractStep, CreateContract,
     EvaluateCategory, UploadDraft, TransitionNext, TransitionPrevious, UploadSignedDoc,
     DeleteContractDocument, UploadFinalizedDocument, DeleteFinalizedDocument, DeleteFinalized
<1> QED
  BY <1>1, <1>7, <1>8, <1>9 DEF Next, vars

-----------------------------------------------------------------------------
\* The inductive invariant.  The types bound what a handler reads; the documents
\* need the approvals; the deals' three parts need one another.
DealInv ==
    /\ TypeOK
    /\ ApprovalsBehindStage
    /\ DocsFollowStage
    /\ DealsHold
    /\ UnderNegotiationIsHeld

\* It holds at first, when there is neither negotiation nor contract.
LEMMA InitInv == Init => DealInv
<1> SUFFICES ASSUME Init PROVE DealInv
  OBVIOUS
<1>1. ApprovalsBehindStage /\ UnderNegotiationIsHeld
  BY DEF Init, ApprovalsBehindStage, UnderNegotiationIsHeld, NONE
<1>2. DocsFollowStage
  BY DEF Init, DocsFollowStage, DraftBehindSignatures, NoStaleEvidence, NONE, NoDocs,
     SignedEvidence, ContractDocs, DocKinds
<1>3. DealsHold
  BY DEF Init, DealsHold, FinalizedIsDealt, InProgressHasContract, AtMostOneOpenProposal,
     Active, NONE
<1>4. QED
  BY <1>1, <1>2, <1>3, InitTypes DEF DealInv

\* In every run of the system, of whatever size, the invariant holds.
THEOREM DealsSafety == Spec => []DealInv
<1>1. DealInv /\ [Next]_vars => DealInv'
  BY TypeStep, ApprovalsStep, DocumentsStep, DealsStep, HeldStep DEF DealInv
<1>2. QED
  BY <1>1, InitInv, PTL DEF Spec

\* No contract is ahead of its approvals, ever.
THEOREM ApprovalsAlwaysBehind == Spec => []ApprovalsBehindStage
<1>1. DealInv => ApprovalsBehindStage
  BY DEF DealInv
<1>2. QED
  BY <1>1, DealsSafety, PTL

\* Every contract out for signature has its draft.
THEOREM DraftAlwaysBehind == Spec => []DraftBehindSignatures
<1>1. DealInv => DraftBehindSignatures
  BY DEF DealInv, DocsFollowStage
<1>2. QED
  BY <1>1, DealsSafety, PTL

\* No document of an earlier round is ever on file.
THEOREM EvidenceNeverStale == Spec => []NoStaleEvidence
<1>1. DealInv => NoStaleEvidence
  BY DEF DealInv, DocsFollowStage
<1>2. QED
  BY <1>1, DealsSafety, PTL

\* A finalized contract's negotiation is sold or rented, ever.
THEOREM FinalizedAlwaysDealt == Spec => []FinalizedIsDealt
<1>1. DealInv => FinalizedIsDealt
  BY DEF DealInv, DealsHold
<1>2. QED
  BY <1>1, DealsSafety, PTL

\* A negotiation in progress always has its contract.
THEOREM InProgressAlwaysHasContract == Spec => []InProgressHasContract
<1>1. DealInv => InProgressHasContract
  BY DEF DealInv, DealsHold
<1>2. QED
  BY <1>1, DealsSafety, PTL

\* Never two active negotiations of a listing without a contract.
THEOREM OneOpenProposal == Spec => []AtMostOneOpenProposal
<1>1. DealInv => AtMostOneOpenProposal
  BY DEF DealInv, DealsHold
<1>2. QED
  BY <1>1, DealsSafety, PTL

\* A listing under negotiation is always hidden and available.
THEOREM AlwaysHeld == Spec => []UnderNegotiationIsHeld
<1>1. DealInv => UnderNegotiationIsHeld
  BY DEF DealInv
<1>2. QED
  BY <1>1, DealsSafety, PTL

-----------------------------------------------------------------------------
\* A contract is finalized by `finalize` alone, and whole.
THEOREM FinalizedWhole == Spec => FinalizationIsComplete
<1> DEFINE Whole ==
      \A n \in Negotiations :
          contract[n] # "FINALIZED" /\ contract'[n] = "FINALIZED"
          => /\ contract[n] = "AWAITING_SIGNATURES"
             /\ \A k \in ContractDocs : docs[n][k] > 0
             /\ BothGrantProgress(approval[n])
<1>1. ASSUME DealInv, [Next]_vars, NEW m \in Negotiations,
             contract[m] # "FINALIZED", contract'[m] = "FINALIZED"
      PROVE  /\ contract[m] = "AWAITING_SIGNATURES"
             /\ \A k \in ContractDocs : docs[m][k] > 0
             /\ BothGrantProgress(approval[m])
  <2>1. TypeOK
    BY <1>1 DEF DealInv
  <2>2. PICK n \in Negotiations : ContractStep(n)
    <3>1. contract'[m] \notin {contract[m], NONE, "AWAITING_DOCS"}
      BY <1>1 DEF NONE
    <3>2. QED
      BY <1>1, <2>1, <3>1, OutsideContract DEF Next, vars, ContractNext
  <2>3. PICK deal \in Dealt : Finalize(n, deal)
    BY <1>1, <2>1, <2>2 DEF ContractStep, CreateContract, EvaluateSide, EvaluateCategory,
       UploadDraft, TransitionNext, TransitionPrevious, UploadSignedDoc,
       DeleteContractDocument, UploadFinalizedDocument, DeleteFinalizedDocument,
       ReopenFinalized, DeleteFinalized, contractVars, TypeOK, NONE
  <2>4. n = m
    BY <1>1, <2>1, <2>3 DEF Finalize, TypeOK
  <2>5. contract[m] = "AWAITING_SIGNATURES" /\ \A k \in SignedEvidence : docs[m][k] > 0
    BY <2>3, <2>4 DEF Finalize
  <2>6. QED
    BY <1>1, <2>5 DEF DealInv, DocsFollowStage, DraftBehindSignatures, ApprovalsBehindStage,
       ContractDocs
<1>2. DealInv /\ [Next]_vars => [Whole]_vars
  BY <1>1
<1>3. QED
  BY <1>2, DealsSafety, PTL DEF Spec, FinalizationIsComplete

\* A cancellation gives the listing back, and only cancelNegotiation cancels.
THEOREM CancelledRelists == Spec => CancellationRelists
<1> DEFINE GivenBack ==
      \A n \in Negotiations :
          negotiation[n] = "IN_NEGOTIATION" /\ negotiation'[n] = "CANCELLED"
          => property'[PropertyOf[n]] = OnSale
<1>1. ASSUME DealInv, [Next]_vars, NEW m \in Negotiations,
             negotiation[m] = "IN_NEGOTIATION", negotiation'[m] = "CANCELLED"
      PROVE  property'[PropertyOf[m]] = OnSale
  <2>1. TypeOK
    BY <1>1 DEF DealInv
  <2>2. PropertyOf[m] \in Properties
    BY DealConstants
  <2>3. CASE ContractNext
    BY <1>1, <2>1, <2>3 DEF ContractNext, ContractStep, CreateContract, EvaluateSide,
       EvaluateCategory, UploadDraft, TransitionNext, TransitionPrevious, UploadSignedDoc,
       DeleteContractDocument, UploadFinalizedDocument, DeleteFinalizedDocument,
       Finalize, Dealt, ReopenFinalized, DeleteFinalized, negotiationVars, TypeOK
  <2>4. CASE NegotiationNext
    <3>1. PICK n \in Negotiations : NegotiationStep(n)
      BY <2>4 DEF NegotiationNext
    <3>2. CancelNegotiation(n) /\ n = m
      BY <1>1, <2>1, <3>1 DEF NegotiationStep, GenerateProposal, UpdateProposal,
         DeleteMyProposal, UploadSignedProposal, AdminUploadSignedProposal,
         AdminDeleteSignedProposal, ApproveNegotiation, RejectNegotiation,
         CancelNegotiation, NONE, TypeOK
    <3>3. property[PropertyOf[m]] = UnderNegotiation
      BY <1>1, <2>2, <3>2 DEF CancelNegotiation, DealInv, UnderNegotiationIsHeld
    <3>4. ~IsDealt(UnderNegotiation)
      BY DEF IsDealt, UnderNegotiation, Columns, Dealt
    <3>5. QED
      BY <2>1, <2>2, <3>2, <3>3, <3>4 DEF CancelNegotiation, Relisted, TypeOK
  <2>5. QED
    BY <1>1, <2>3, <2>4, PropertyAlone DEF Next, vars
<1>2. DealInv /\ [Next]_vars => [GivenBack]_vars
  BY <1>1
<1>3. QED
  BY <1>2, DealsSafety, PTL DEF Spec, CancellationRelists

\* No decision on a negotiation or a contract puts a dealt listing on sale.
THEOREM SalesKept == Spec => DecisionsKeepSales
<1> DEFINE Kept ==
      \A p \in Properties :
          IsDealt(property[p]) /\ property[p].status # "approved"
              /\ property'[p].status = "approved"
          => UNCHANGED <<negotiation, contract, approval>>
<1>1. ASSUME TypeOK, [Next]_vars, NEW p \in Properties,
             IsDealt(property[p]), property[p].status # "approved",
             property'[p].status = "approved"
      PROVE  UNCHANGED <<negotiation, contract, approval>>
  <2>1. Relisted(property[p]) = property[p]
    BY <1>1 DEF Relisted
  <2>2. ~ContractNext
    <3> SUFFICES ASSUME NEW n \in Negotiations, ContractStep(n)
                 PROVE  FALSE
      BY DEF ContractNext
    <3>1. property'[p] # property[p]
      BY <1>1
    <3>2. ASSUME NEW side \in Sides, NEW decision \in Decisions,
                 EvaluateSide(n, side, decision)
          PROVE  FALSE
      <4>1. property' \in {property,
              [property EXCEPT ![PropertyOf[n]] = Relisted(property[PropertyOf[n]])]}
        BY <3>2 DEF EvaluateSide
      <4>2. property \in [Properties -> Listing]
        BY <1>1 DEF TypeOK
      <4>3. QED
        BY <2>1, <3>1, <4>1, <4>2
    <3>3. ASSUME NEW deal \in Dealt, Finalize(n, deal)
          PROVE  FALSE
      BY <1>1, <3>3 DEF Finalize, PropertyStatusOfDeal, Columns, TypeOK
    <3>4. ~ReopenFinalized(n)
      BY <1>1 DEF ReopenFinalized, UnderNegotiation, Columns, TypeOK
    <3>5. QED
      BY <3>1, <3>2, <3>3, <3>4 DEF ContractStep, CreateContract, EvaluateCategory,
         UploadDraft, TransitionNext, TransitionPrevious, UploadSignedDoc,
         DeleteContractDocument, UploadFinalizedDocument, DeleteFinalizedDocument,
         DeleteFinalized
  <2>3. ~NegotiationNext
    BY <1>1, <2>1 DEF NegotiationNext, NegotiationStep, GenerateProposal, UpdateProposal,
       DeleteMyProposal, UploadSignedProposal, AdminUploadSignedProposal,
       AdminDeleteSignedProposal, ApproveNegotiation, UnderNegotiation, Columns,
       RejectNegotiation, CancelNegotiation, TypeOK
  <2>4. QED
    BY <1>1, <2>2, <2>3, PropertyAlone DEF Next, vars
<1>2. TypeOK /\ [Next]_vars => [Kept]_vars
  BY <1>1
<1>3. QED
  BY <1>2, TypeCorrectness, PTL DEF Spec, DecisionsKeepSales

\* While its contract is finalized a negotiation keeps its deal; only a
\* reopening takes it, and holds the listing.
THEOREM DealKept == Spec => DealtIsKept
<1> DEFINE Kept ==
      \A n \in Negotiations :
          contract[n] = "FINALIZED" /\ negotiation'[n] # negotiation[n]
          => /\ negotiation'[n] = "IN_NEGOTIATION"
             /\ contract'[n] = "AWAITING_DOCS"
             /\ property'[PropertyOf[n]] = UnderNegotiation
<1>1. ASSUME DealInv, [Next]_vars, NEW m \in Negotiations,
             contract[m] = "FINALIZED", negotiation'[m] # negotiation[m]
      PROVE  /\ negotiation'[m] = "IN_NEGOTIATION"
             /\ contract'[m] = "AWAITING_DOCS"
             /\ property'[PropertyOf[m]] = UnderNegotiation
  <2>1. TypeOK /\ negotiation[m] \in Dealt /\ PropertyOf[m] \in Properties
    BY <1>1, DealConstants DEF DealInv, DealsHold, FinalizedIsDealt
  <2>2. ~NegotiationNext
    BY <1>1, <2>1 DEF NegotiationNext, NegotiationStep, GenerateProposal, UpdateProposal,
       DeleteMyProposal, UploadSignedProposal, AdminUploadSignedProposal,
       AdminDeleteSignedProposal, ApproveNegotiation, Competing, RejectNegotiation,
       CancelNegotiation, PreSigned, Dealt, Closed, NONE, TypeOK
  <2>3. PICK n \in Negotiations : ContractStep(n)
    BY <1>1, <2>2, PropertyAlone DEF Next, vars, ContractNext
  <2>4. ReopenFinalized(n) /\ n = m
    BY <1>1, <2>1, <2>3 DEF ContractStep, CreateContract, EvaluateSide,
       EvaluateCategory, UploadDraft, TransitionNext, TransitionPrevious, UploadSignedDoc,
       DeleteContractDocument, UploadFinalizedDocument, DeleteFinalizedDocument,
       Finalize, ReopenFinalized, DeleteFinalized, negotiationVars, TypeOK
  <2>5. QED
    BY <2>1, <2>4 DEF ReopenFinalized, TypeOK
<1>2. DealInv /\ [Next]_vars => [Kept]_vars
  BY <1>1
<1>3. QED
  BY <1>2, DealsSafety, PTL DEF Spec, DealtIsKept

-----------------------------------------------------------------------------
(* The deployed services keep to the stages a contract goes through: Deals *)
(* implements ContractStages.                                              *)

\* A step that leaves every other negotiation's contract and documents alone
\* is a step of the abstract contract n alone.
LEMMA OneContract ==
    ASSUME TypeOK, TypeOK', NEW n \in Negotiations,
           \A m \in Negotiations \ {n} : contract'[m] = contract[m] /\ docs'[m] = docs[m]
    PROVE  ContractWorkflow!Becomes(n, contract'[n], OnFile(docs'[n]))
<1>1. contract' = [contract EXCEPT ![n] = contract'[n]]
  BY DEF TypeOK
<1>2. [m \in Negotiations |-> OnFile(docs'[m])]
        = [[m \in Negotiations |-> OnFile(docs[m])] EXCEPT ![n] = OnFile(docs'[n])]
  OBVIOUS
<1>3. QED
  BY <1>1, <1>2 DEF ContractWorkflow!Becomes

\* Likewise for the approvals: the step clears contract n or unclears it.
LEMMA OneClearance ==
    ASSUME TypeOK, NEW n \in Negotiations,
           \A m \in Negotiations \ {n} : approval'[m] = approval[m]
    PROVE  /\ BothGrantProgress(approval'[n]) => ContractWorkflow!Clears(n)
           /\ ~BothGrantProgress(approval'[n]) => ContractWorkflow!Unclears(n)
  BY DEF ContractWorkflow!Clears, ContractWorkflow!Unclears, ClearedSet

\* A blank contract clears nothing.
LEMMA BlankIsUncleared == ~BothGrantProgress(NoApproval)
  BY DEF BothGrantProgress, NoApproval, Sides, GrantsProgress

-----------------------------------------------------------------------------
\* Where there is no contract there are no approvals either.
NoApprovalsAlone ==
    \A n \in Negotiations : contract[n] = NONE => approval[n] = NoApproval

\* Only handlers that have the contract write its approvals.
LEMMA NoApprovalsStep ==
    TypeOK /\ NoApprovalsAlone /\ [Next]_vars => NoApprovalsAlone'
<1> SUFFICES ASSUME TypeOK, NoApprovalsAlone, [Next]_vars, NEW m \in Negotiations,
                    contract'[m] = NONE
             PROVE  approval'[m] = NoApproval
  BY DEF NoApprovalsAlone
<1>1. CASE UNCHANGED vars
  BY <1>1 DEF vars, NoApprovalsAlone
<1>2. CASE NegotiationNext \/ PropertyNext
  BY <1>2, OutsideContract DEF NoApprovalsAlone
<1>3. CASE ContractNext
  <2> PICK n \in Negotiations : ContractStep(n)
    BY <1>3 DEF ContractNext
  <2> USE DEF TypeOK, NoApprovalsAlone, NONE
  <2>1. CASE CreateContract(n) \/ ReopenFinalized(n) \/ DeleteFinalized(n)
    BY <2>1 DEF CreateContract, ReopenFinalized, DeleteFinalized
  <2>2. ASSUME NEW side \in Sides, NEW decision \in Decisions, EvaluateSide(n, side, decision)
        PROVE  approval'[m] = NoApproval
    BY <2>2 DEF EvaluateSide
  <2>3. ASSUME NEW a \in [Sides -> Decisions], NEW everyCategory \in BOOLEAN,
               EvaluateCategory(n, a, everyCategory)
        PROVE  approval'[m] = NoApproval
    BY <2>3 DEF EvaluateCategory
  <2>4. CASE TransitionPrevious(n)
    BY <2>4 DEF TransitionPrevious
  <2>5. CASE /\ approval' = approval
             /\ contract'[m] = contract[m] \/ contract'[m] # NONE
    BY <2>5
  <2>6. QED
    BY <2>1, <2>2, <2>3, <2>4, <2>5 DEF ContractStep, UploadDraft, TransitionNext,
       UploadSignedDoc, DeleteContractDocument, UploadFinalizedDocument,
       DeleteFinalizedDocument, Finalize, contractVars
<1>4. QED
  BY <1>1, <1>2, <1>3 DEF Next

-----------------------------------------------------------------------------
\* The first state is the abstract specification's.
LEMMA InitRefines == Init => ContractWorkflow!NothingOnFile
<1> SUFFICES ASSUME Init PROVE ContractWorkflow!NothingOnFile
  OBVIOUS
<1>1. ClearedSet = {}
  BY BlankIsUncleared DEF Init, ClearedSet
<1>2. \A n \in Negotiations : OnFile(docs[n]) = {}
  BY DEF Init, OnFile, NoDocs, ContractDocs, DocKinds, SignedEvidence
<1>3. QED
  BY <1>1, <1>2 DEF Init, ContractWorkflow!NothingOnFile, NONE

\* A step that leaves every contract, its approvals and its papers alone is a
\* stutter of the abstract specification.
LEMMA Stutters ==
    ASSUME UNCHANGED <<contract, approval>>,
           \A m \in Negotiations : OnFile(docs'[m]) = OnFile(docs[m])
    PROVE  UNCHANGED ContractWorkflow!stageVars
  BY DEF ContractWorkflow!stageVars, ClearedSet

\* Every handler of the contract is a step of the abstract specification on
\* its contract, or a stutter (the deletion of a signed proposal).
LEMMA ContractRefines ==
    ASSUME DealInv, TypeOK', NEW n \in Negotiations, ContractStep(n)
    PROVE  ContractWorkflow!StageStep(n) \/ UNCHANGED ContractWorkflow!stageVars
<1> USE DEF ContractWorkflow!ContractPaper
<1>0. /\ TypeOK
      /\ contract[n] \in ContractStage \cup {NONE}
      /\ \A k \in DocKinds : docs[n][k] \in Nat /\ docs'[n][k] \in Nat
      /\ StageHasDocs(contract[n], docs[n])
      /\ contract[n] \in {"IN_DRAFT", "AWAITING_SIGNATURES", "FINALIZED"}
            => BothGrantProgress(approval[n])
  BY DealConstants, DocsFollowStageAll DEF DealInv, TypeOK, ApprovalsBehindStage
<1>b. ContractWorkflow!Becomes(n, contract'[n], OnFile(docs'[n]))
  <2>1. \A m \in Negotiations \ {n} : contract'[m] = contract[m] /\ docs'[m] = docs[m]
    BY <1>0 DEF ContractStep, CreateContract, EvaluateSide, EvaluateCategory, UploadDraft,
       TransitionNext, TransitionPrevious, Without, UploadSignedDoc, DeleteContractDocument,
       UploadFinalizedDocument, DeleteFinalizedDocument, OneMore, OneLess, Finalize,
       ReopenFinalized, DeleteFinalized, negotiationVars, contractVars, TypeOK
  <2>2. QED
    BY <1>0, <2>1, OneContract
<1>c. /\ BothGrantProgress(approval'[n]) => ContractWorkflow!Clears(n)
      /\ ~BothGrantProgress(approval'[n]) => ContractWorkflow!Unclears(n)
  <2>1. \A m \in Negotiations \ {n} : approval'[m] = approval[m]
    BY <1>0 DEF ContractStep, CreateContract, EvaluateSide, EvaluateCategory, UploadDraft,
       TransitionNext, TransitionPrevious, UploadSignedDoc, DeleteContractDocument,
       UploadFinalizedDocument, DeleteFinalizedDocument, Finalize,
       ReopenFinalized, DeleteFinalized, contractVars, TypeOK
  <2>2. QED
    BY <1>0, <2>1, OneClearance
<1>d. approval' = approval => ClearedSet' = ClearedSet
  BY DEF ClearedSet
<1>1. CASE CreateContract(n)
  <2>1. /\ contract[n] = "NONE" /\ contract'[n] = "AWAITING_DOCS"
        /\ approval'[n] = NoApproval /\ docs' = docs
    BY <1>0, <1>1 DEF CreateContract, negotiationVars, TypeOK, NONE
  <2>2. OnFile(docs'[n]) = {}
    BY <1>0, <2>1 DEF OnFile, StageHasDocs, ContractDocs, NONE
  <2>3. QED
    BY <1>b, <1>c, <2>1, <2>2, BlankIsUncleared
       DEF ContractWorkflow!Becomes, ContractWorkflow!Clears, ContractWorkflow!Unclears,
           ContractWorkflow!StageStep, ContractWorkflow!Open
<1>2. CASE \/ \E side \in Sides, decision \in Decisions : EvaluateSide(n, side, decision)
           \/ \E a \in [Sides -> Decisions], everyCategory \in BOOLEAN :
                 EvaluateCategory(n, a, everyCategory)
  <2>1. /\ contract[n] = "AWAITING_DOCS" /\ docs' = docs
        /\ \/ contract'[n] = "AWAITING_DOCS"
           \/ contract'[n] = "IN_DRAFT" /\ BothGrantProgress(approval'[n])
    BY <1>0, <1>2 DEF EvaluateSide, EvaluateCategory, negotiationVars, TypeOK
  <2>2. QED
    BY <1>b, <1>c, <2>1 
       DEF ContractWorkflow!Becomes, ContractWorkflow!Clears, ContractWorkflow!Unclears,
           ContractWorkflow!StageStep, ContractWorkflow!Review
<1>3. CASE UploadDraft(n) \/ TransitionNext(n)
  <2>1. /\ contract[n] = "IN_DRAFT" /\ contract'[n] = "AWAITING_SIGNATURES"
        /\ approval' = approval
    BY <1>0, <1>3 DEF UploadDraft, TransitionNext, TypeOK
  <2>2. OnFile(docs'[n]) = OnFile(docs[n]) \cup {"contrato_minuta"}
    BY <1>0, <1>3 DEF OnFile, UploadDraft, TransitionNext, TypeOK, ContractDocs, DocKinds,
       negotiationVars
  <2>3. QED
    BY <1>b, <1>d, <2>1, <2>2 
       DEF ContractWorkflow!Becomes, ContractWorkflow!Clears, ContractWorkflow!Unclears,
           ContractWorkflow!StageStep, ContractWorkflow!SendForSignature
<1>4. CASE TransitionPrevious(n)
  <2>1. CASE contract[n] = "AWAITING_SIGNATURES"
    <3>1. contract'[n] = "IN_DRAFT" /\ approval' = approval
      BY <1>0, <1>4, <2>1 DEF TransitionPrevious, TypeOK
    <3>2. OnFile(docs'[n]) = OnFile(docs[n]) \ SignedEvidence
      BY <1>0, <1>4, <2>1 DEF OnFile, TransitionPrevious, Without, RollbackDocs, TypeOK,
         ContractDocs, SignedEvidence, DocKinds
    <3>3. QED
      BY <1>b, <1>d, <2>1, <3>1, <3>2 
       DEF ContractWorkflow!Becomes, ContractWorkflow!Clears, ContractWorkflow!Unclears,
           ContractWorkflow!StageStep, ContractWorkflow!StepBack
  <2>2. CASE contract[n] = "IN_DRAFT"
    <3>1. contract'[n] = "AWAITING_DOCS" /\ approval'[n] = NoApproval
      BY <1>0, <1>4, <2>2 DEF TransitionPrevious, TypeOK
    <3>2. OnFile(docs'[n]) = {}
      BY <1>0, <1>4, <2>2 DEF OnFile, TransitionPrevious, Without, RollbackDocs, TypeOK,
         ContractDocs, SignedEvidence, DocKinds
    <3>3. QED
      BY <1>b, <1>c, <2>2, <3>1, <3>2, BlankIsUncleared
       DEF ContractWorkflow!Becomes, ContractWorkflow!Clears, ContractWorkflow!Unclears,
           ContractWorkflow!StageStep, ContractWorkflow!StepBack
  <2>3. QED
    BY <1>4, <2>1, <2>2 DEF TransitionPrevious
<1>5. ASSUME NEW k \in DocKinds, UploadSignedDoc(n, k)
      PROVE  ContractWorkflow!StageStep(n)
  <2>1. /\ contract[n] = "AWAITING_SIGNATURES" /\ contract' = contract
        /\ approval' = approval /\ k \in SignedEvidence
    BY <1>5 DEF UploadSignedDoc, contractVars
  <2>2. OnFile(docs'[n]) = (OnFile(docs[n]) \ SignedEvidence)
                             \cup (OnFile(docs'[n]) \cap SignedEvidence)
    BY <1>0, <1>5, <2>1 DEF OnFile, UploadSignedDoc, OneMore, TypeOK, ContractDocs, SignedEvidence
  <2>3. QED
    BY <1>b, <1>d, <2>1, <2>2 
       DEF ContractWorkflow!Becomes, ContractWorkflow!Clears, ContractWorkflow!Unclears,
           ContractWorkflow!StageStep, ContractWorkflow!CollectEvidence
<1>6. ASSUME NEW k \in DocKinds, DeleteContractDocument(n, k)
      PROVE  ContractWorkflow!StageStep(n) \/ UNCHANGED ContractWorkflow!stageVars
  <2>1. /\ contract[n] # NONE /\ contract' = contract /\ approval' = approval
        /\ docs[n][k] > 0 /\ docs' = OneLess(n, k)
    BY <1>6 DEF DeleteContractDocument, contractVars
  <2>2. CASE contract[n] = "FINALIZED"
    BY <1>b, <1>d, <2>1, <2>2 
       DEF ContractWorkflow!Becomes, ContractWorkflow!Clears, ContractWorkflow!Unclears,
           ContractWorkflow!StageStep, ContractWorkflow!AmendClosed,
       OnFile, ContractDocs
  <2>3. CASE contract[n] = "AWAITING_SIGNATURES"
    <3>1. k # "contrato_minuta"
      BY <1>0, <1>6, <2>3 DEF DeleteContractDocument, BothGrantProgress, GrantsProgress,
         AllowsEditing
    <3>2. OnFile(docs'[n]) = (OnFile(docs[n]) \ SignedEvidence)
                               \cup (OnFile(docs'[n]) \cap SignedEvidence)
      BY <1>0, <2>1, <3>1 DEF OnFile, OneLess, TypeOK, ContractDocs, SignedEvidence
    <3>3. QED
      BY <1>b, <1>d, <2>1, <2>3, <3>2
       DEF ContractWorkflow!Becomes, ContractWorkflow!Clears, ContractWorkflow!Unclears,
           ContractWorkflow!StageStep, ContractWorkflow!CollectEvidence
  <2>4. CASE contract[n] \in {"AWAITING_DOCS", "IN_DRAFT"}
    <3>1. k = "signed_proposal"
      BY <1>0, <1>6, <2>1, <2>4 DEF DeleteContractDocument, BothGrantProgress,
         GrantsProgress, AllowsEditing, StageHasDocs, DocKinds, ContractDocs
    <3>2. \A m \in Negotiations : OnFile(docs'[m]) = OnFile(docs[m])
      BY <1>0, <2>1, <3>1 DEF OnFile, OneLess, TypeOK, ContractDocs, SignedEvidence
    <3>3. QED
      BY <2>1, <3>2, Stutters
  <2>5. QED
    BY <1>0, <2>1, <2>2, <2>3, <2>4 DEF ContractStage
<1>7. ASSUME NEW k \in DocKinds, UploadFinalizedDocument(n, k) \/ DeleteFinalizedDocument(n, k)
      PROVE  ContractWorkflow!StageStep(n)
  <2>1. contract[n] = "FINALIZED" /\ contract' = contract /\ approval' = approval
    BY <1>7 DEF UploadFinalizedDocument, DeleteFinalizedDocument, contractVars
  <2>2. QED
    BY <1>b, <1>d, <2>1 
       DEF ContractWorkflow!Becomes, ContractWorkflow!Clears, ContractWorkflow!Unclears,
           ContractWorkflow!StageStep, ContractWorkflow!AmendClosed, OnFile, ContractDocs
<1>8. ASSUME NEW deal \in Dealt, Finalize(n, deal)
      PROVE  ContractWorkflow!StageStep(n)
  <2>1. /\ contract[n] = "AWAITING_SIGNATURES" /\ contract'[n] = "FINALIZED"
        /\ approval' = approval /\ docs' = docs
        /\ \A k \in SignedEvidence : docs[n][k] > 0
    BY <1>0, <1>8 DEF Finalize, TypeOK
  <2>2. OnFile(docs[n]) = ContractDocs
    BY <1>0, <2>1 DEF OnFile, StageHasDocs, ContractDocs
  <2>3. n \in ClearedSet
    BY <1>0, <2>1 DEF ClearedSet
  <2>4. QED
    BY <1>b, <1>d, <2>1, <2>2, <2>3
       DEF ContractWorkflow!Becomes, ContractWorkflow!Clears, ContractWorkflow!Unclears,
           ContractWorkflow!StageStep, ContractWorkflow!CloseDeal, ClearedSet, ContractDocs
<1>9. CASE ReopenFinalized(n) \/ DeleteFinalized(n)
  <2>1. /\ contract[n] = "FINALIZED" /\ contract'[n] \in {"AWAITING_DOCS", "NONE"}
        /\ approval'[n] = NoApproval
    BY <1>0, <1>9 DEF ReopenFinalized, DeleteFinalized, TypeOK, NONE
  <2>2. OnFile(docs'[n]) = {}
    BY <1>0, <1>9 DEF OnFile, ReopenFinalized, DeleteFinalized, Without, TypeOK, ContractDocs,
       SignedEvidence, DocKinds
  <2>3. QED
    BY <1>b, <1>c, <2>1, <2>2, BlankIsUncleared
       DEF ContractWorkflow!Becomes, ContractWorkflow!Clears, ContractWorkflow!Unclears,
           ContractWorkflow!StageStep, ContractWorkflow!Reopen, ContractWorkflow!Remove
<1> QED
  BY <1>1, <1>2, <1>3, <1>4, <1>5, <1>6, <1>7, <1>8, <1>9 DEF ContractStep

\* Of the negotiation's handlers, an approval opens the contract where there
\* was none and the proposer's deletion removes it; the others stutter.
LEMMA NegotiationRefines ==
    ASSUME DealInv, NoApprovalsAlone, TypeOK', NEW n \in Negotiations, NegotiationStep(n)
    PROVE  ContractWorkflow!StageStep(n) \/ UNCHANGED ContractWorkflow!stageVars
<1>0. /\ TypeOK
      /\ \A k \in DocKinds : docs[n][k] \in Nat /\ docs'[n][k] \in Nat
      /\ StageHasDocs(contract[n], docs[n])
      /\ contract[n] = NONE => approval[n] = NoApproval
  BY DealConstants, DocsFollowStageAll DEF DealInv, TypeOK, NoApprovalsAlone
<1>1. CASE UNCHANGED <<contract, approval, docs>>
  BY <1>1, Stutters
<1>2. CASE UploadSignedProposal(n) \/ AdminUploadSignedProposal(n) \/ AdminDeleteSignedProposal(n)
  <2>a. PICK v : docs' = [docs EXCEPT ![n]["signed_proposal"] = v]
    BY <1>2 DEF UploadSignedProposal, AdminUploadSignedProposal, AdminDeleteSignedProposal
  <2>b. docs \in [Negotiations -> [DocKinds -> 0 .. MaxDocs]] /\ ContractDocs \subseteq DocKinds
    BY <1>0 DEF TypeOK, DocKinds
  <2>c. "signed_proposal" \notin ContractDocs
    BY DEF ContractDocs, SignedEvidence
  <2>0. \A m \in Negotiations : \A k \in ContractDocs : docs'[m][k] = docs[m][k]
    BY <2>a, <2>b, <2>c
  <2>1. \A m \in Negotiations : OnFile(docs'[m]) = OnFile(docs[m])
    BY <2>0 DEF OnFile
  <2>2. QED
    BY <1>2, <2>1, Stutters DEF UploadSignedProposal, AdminUploadSignedProposal,
       AdminDeleteSignedProposal, contractVars
<1>3. CASE ApproveNegotiation(n)
  <2>1. CASE contract[n] = NONE
    <3>1. /\ contract'[n] = "AWAITING_DOCS" /\ approval'[n] = NoApproval /\ docs' = docs
          /\ \A m \in Negotiations \ {n} : contract'[m] = contract[m] /\ approval'[m] = approval[m]
      BY <1>0, <1>3, <2>1 DEF ApproveNegotiation, TypeOK
    <3>2. OnFile(docs'[n]) = {}
      BY <1>0, <2>1, <3>1 DEF OnFile, StageHasDocs, ContractDocs, NONE
    <3>3. ContractWorkflow!Becomes(n, "AWAITING_DOCS", {}) /\ ContractWorkflow!Unclears(n)
      BY <1>0, <3>1, <3>2, OneContract, OneClearance, BlankIsUncleared
         DEF ContractWorkflow!Becomes
    <3>4. QED
      BY <2>1, <3>3 
       DEF ContractWorkflow!Becomes, ContractWorkflow!Clears, ContractWorkflow!Unclears,
           ContractWorkflow!StageStep, ContractWorkflow!Open, NONE
  <2>2. CASE contract[n] # NONE
    BY <1>0, <1>1, <1>3, <2>2 DEF ApproveNegotiation, TypeOK
  <2>3. QED
    BY <2>1, <2>2
<1>4. CASE DeleteMyProposal(n)
  <2>1. /\ contract'[n] = NONE /\ approval'[n] = NoApproval /\ docs'[n] = NoDocs
        /\ \A m \in Negotiations \ {n} : /\ contract'[m] = contract[m]
                                        /\ approval'[m] = approval[m]
                                        /\ docs'[m] = docs[m]
    BY <1>0, <1>4 DEF DeleteMyProposal, TypeOK
  <2>2. OnFile(docs'[n]) = {}
    BY <2>1 DEF OnFile, NoDocs, DocKinds
  <2>3. CASE contract[n] = NONE
    <3>1. OnFile(docs[n]) = {}
      BY <1>0, <2>3 DEF OnFile, StageHasDocs, ContractDocs, NONE
    <3>2. contract' = contract /\ approval' = approval
      BY <1>0, <1>4, <2>3 DEF DeleteMyProposal, TypeOK
    <3>3. QED
      BY <2>1, <2>2, <3>1, <3>2, Stutters
  <2>4. CASE contract[n] # NONE
    <3>1. ContractWorkflow!Becomes(n, "NONE", {}) /\ ContractWorkflow!Unclears(n)
      BY <1>0, <2>1, <2>2, OneContract, OneClearance, BlankIsUncleared
         DEF NONE, ContractWorkflow!Becomes
    <3>2. QED
      BY <2>4, <3>1 
       DEF ContractWorkflow!Becomes, ContractWorkflow!Clears, ContractWorkflow!Unclears,
           ContractWorkflow!StageStep, ContractWorkflow!Remove, NONE
  <2>5. QED
    BY <2>3, <2>4
<1> QED
  BY <1>1, <1>2, <1>3, <1>4 DEF NegotiationStep, GenerateProposal, UpdateProposal,
     RejectNegotiation, CancelNegotiation, contractVars

-----------------------------------------------------------------------------
\* The deployed services implement the abstract contract workflow.
THEOREM StagesAreKept == Spec => KeepsContractStages
<1>1. Init => NoApprovalsAlone
  BY DEF Init, NoApprovalsAlone
<1>2. Spec => []NoApprovalsAlone
  BY <1>1, NoApprovalsStep, TypeCorrectness, PTL DEF Spec
<1>3. ASSUME DealInv, NoApprovalsAlone, [Next]_vars
      PROVE  [\E c \in Negotiations : ContractWorkflow!StageStep(c)]_(ContractWorkflow!stageVars)
  <2>1. TypeOK'
    BY <1>3, TypeStep DEF DealInv
  <2>2. CASE ContractNext
    BY <1>3, <2>1, <2>2, ContractRefines DEF ContractNext
  <2>3. CASE NegotiationNext
    BY <1>3, <2>1, <2>3, NegotiationRefines DEF NegotiationNext
  <2>4. CASE PropertyNext \/ UNCHANGED vars
    <3>1. UNCHANGED <<contract, approval, docs>>
      BY <2>4, PropertyAlone DEF vars
    <3>2. QED
      BY <3>1, Stutters
  <2>5. QED
    BY <1>3, <2>2, <2>3, <2>4 DEF Next
<1>4. QED
  BY <1>2, <1>3, InitRefines, DealsSafety, PTL
     DEF Spec, KeepsContractStages, ContractWorkflow!StageSpec
=============================================================================
