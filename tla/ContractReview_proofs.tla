------------------------ MODULE ContractReview_proofs ------------------------
(***************************************************************************)
(* The reviews of a contract implement its abstract life, whatever         *)
(* categories, kinds and verdicts there are and whatever is called; where  *)
(* sides are reviewed category by category, a contract is in its draft     *)
(* exactly when both are approved, with a document of all they must have.  *)
(* The signature method and the commission of a contract.                  *)
(***************************************************************************)
EXTENDS ContractReview, ContractParties, SequenceTheorems, TLAPS

\* The categories documents are kept under, and what may be kept under one.
Kept == Categories \cup Filed
Filing(c) == {d \in Document : d.filed \in {c, "outro"}}

ReviewTypes ==
    /\ load \in Loads
    /\ stage \in {"NONE", "AWAITING_DOCS", "IN_DRAFT"}
    /\ approval \in [Sides -> ApprovalStatus]
    /\ married \in [Sides -> BOOLEAN]

DocsAreFiled ==
    /\ docs \in [Sides -> [Kept -> Seq(Document)]]
    /\ \A s \in Sides : \A c \in Kept : docs[s][c] \in Seq(Filing(c))

\* Sides are reviewed by category, and what they must have stays as it is.
ByCategory == load.routes \cap {"side", "update"} = {}

ReviewInv == ReviewTypes /\ DocsAreFiled /\ (ByCategory => ApprovedIsInDraft)

-----------------------------------------------------------------------------
\* A document is of one of the review's categories or of none.
LEMMA FilingOfDocuments ==
    ASSUME NEW c PROVE Seq(Filing(c)) \subseteq Seq(Document)
<1>1. Filing(c) \subseteq Document
  BY DEF Filing
<1> QED BY <1>1, SeqDef

\* Marking the documents of a category leaves them where they are.
LEMMA MarkedAreFiled ==
    ASSUME NEW c, NEW q \in Seq(Filing(c)), NEW status \in CategoryStatus
    PROVE  /\ Marked(q, status) \in Seq(Filing(c))
           /\ (Marked(q, status) = <<>>) = (q = <<>>)
<1>1. DOMAIN q = 1 .. Len(q) /\ Len(q) \in Nat /\ \A i \in 1 .. Len(q) : q[i] \in Filing(c)
  BY LenProperties, ElementOfSeq
<1>2. ASSUME NEW d \in Filing(c) PROVE [d EXCEPT !.status = status] \in Filing(c)
  BY DEF Filing, Document
<1>3. Marked(q, status) \in [1 .. Len(q) -> Filing(c)]
  BY <1>1, <1>2 DEF Marked
<1>4. Marked(q, status) \in Seq(Filing(c))
  BY <1>1, <1>3, SeqDef
<1>5. Len(Marked(q, status)) = Len(q)
  BY <1>1, <1>3, <1>4, LenProperties
<1> QED BY <1>1, <1>4, <1>5, EmptySeq

\* D is what is kept when q becomes all of side s in category c.
OnlyChanges(D, s, c, q) ==
    /\ D \in [Sides -> [Kept -> Seq(Document)]]
    /\ D[s][c] = q
    /\ \A t \in Sides : \A b \in Kept : t # s \/ b # c => D[t][b] = docs[t][b]
    /\ \A t \in Sides : \A b \in Kept : D[t][b] \in Seq(Filing(b))

\* What is kept of the others when the documents of one category change.
LEMMA OneCategoryChanges ==
    ASSUME DocsAreFiled, NEW s \in Sides, NEW c \in Kept, NEW q \in Seq(Filing(c)),
           NEW D, D = [docs EXCEPT ![s][c] = q]
    PROVE  OnlyChanges(D, s, c, q)
<1>1. q \in Seq(Document)
  BY FilingOfDocuments
<1>2. docs[s] \in [Kept -> Seq(Document)]
  BY DEF DocsAreFiled
<1>3. D = [docs EXCEPT ![s] = [docs[s] EXCEPT ![c] = q]]
  OBVIOUS
<1>4. /\ [docs[s] EXCEPT ![c] = q] \in [Kept -> Seq(Document)]
      /\ [docs[s] EXCEPT ![c] = q][c] = q
      /\ \A b \in Kept \ {c} : [docs[s] EXCEPT ![c] = q][b] = docs[s][b]
  BY <1>1, <1>2
<1> DEFINE row == [docs[s] EXCEPT ![c] = q]
<1>5. D \in [Sides -> [Kept -> Seq(Document)]] /\ D[s] = row /\ \A t \in Sides \ {s} : D[t] = docs[t]
  BY <1>3, <1>4 DEF DocsAreFiled
<1> HIDE DEF row
<1>6. row[c] = q /\ \A b \in Kept \ {c} : row[b] = docs[s][b]
  BY <1>4 DEF row
<1> QED BY <1>5, <1>6 DEF DocsAreFiled, OnlyChanges

-----------------------------------------------------------------------------
\* At first there is no contract and no document.
LEMMA InitReview == Init => ReviewInv
<1> SUFFICES ASSUME Init PROVE ReviewInv
  OBVIOUS
<1>1. ReviewTypes
  BY DEF Init, ReviewTypes, NoApproval, ApprovalStatus
<1>2. DocsAreFiled
  BY EmptySeq DEF Init, DocsAreFiled, Kept
<1>3. ApprovedIsInDraft
  BY DEF Init, NoApproval, ApprovedIsInDraft, Sides
<1> QED BY <1>1, <1>2, <1>3 DEF ReviewInv

\* What a side is computed to be is one of the statuses: it is approved only with
\* every category that it must have, and with reservations only with one of them.
LEMMA SideApprovals ==
    ASSUME NEW D, NEW s \in Sides
    PROVE  /\ SideApproval(D, s) \in ApprovalStatus
           /\ SideApproval(D, s) = "APPROVED" => ApprovedIn(D, s) = Required(s)
           /\ SideApproval(D, s) \in Granting => \E c \in Required(s) : StatusIn(D, s, c) \in Granting
BY DEF SideApproval, ApprovedIn, ApprovalStatus, Granting

\* A category that passes has a document, and its newest is what passes.
LEMMA PassingHasDocument ==
    ASSUME NEW D, NEW s, NEW c, StatusIn(D, s, c) \in Passing
    PROVE  D[s][c] # <<>> /\ StatusIn(D, s, c) = Last(D[s][c]).status
BY DEF StatusIn, Passing, Granting

\* The gate lets two sides pass that are approved.
LEMMA ApprovedSidesPass ==
    ASSUME NEW D, \A s \in Sides : SideApproval(D, s) = "APPROVED" PROVE Gate(D)
<1>1. \A s \in Sides : ApprovedIn(D, s) = Required(s)
  BY SideApprovals
<1> QED BY <1>1 DEF Gate, ApprovedIn, Passing

\* The contract that is made waits for its documents.
LEMMA CreateKeeps ==
    ASSUME ReviewInv, UNCHANGED load, CreateContract PROVE ReviewInv'
BY DEF ReviewInv, CreateContract, ReviewTypes, DocsAreFiled, ApprovedIsInDraft, NoApproval,
       ApprovalStatus, Sides, ByCategory, Kept

\* An upload adds to its category, in the draft too.
LEMMA UploadKeeps ==
    ASSUME ReviewInv, UNCHANGED load, NEW role, NEW s \in Sides, NEW kind \in Kinds,
           UploadDocument(role, s, kind)
    PROVE  ReviewInv'
<1> DEFINE c == CategoryOf(kind)
           d == [filed |-> kind.filed, status |-> "PENDING"]
           q == Append(docs[s][c], d)
<1>1. c \in Kept
  BY DEF Kept, Filed
<1>2. docs[s][c] \in Seq(Filing(c))
  BY <1>1 DEF ReviewInv, DocsAreFiled
<1>3. d \in Filing(c)
  BY ReviewAssumption DEF Filing, Document, CategoryStatus, ApprovalStatus, CategoryOf
<1>4. q \in Seq(Filing(c)) /\ q # <<>>
  BY <1>2, <1>3, AppendProperties
<1>5. docs' = [docs EXCEPT ![s][c] = q] /\ UNCHANGED <<stage, approval, married>>
  BY DEF UploadDocument
<1> HIDE DEF c, d, q
<1>a. DocsAreFiled /\ q \in Seq(Filing(c)) /\ docs' = [docs EXCEPT ![s][c] = q]
  BY <1>4, <1>5 DEF ReviewInv
<1>6. OnlyChanges(docs', s, c, q)
  BY ONLY <1>1, <1>a, s \in Sides, OneCategoryChanges
<1>7. ReviewTypes' /\ DocsAreFiled'
  BY <1>5, <1>6 DEF OnlyChanges, ReviewInv, ReviewTypes, DocsAreFiled, Kept
<1>8. ASSUME ByCategory' PROVE ApprovedIsInDraft'
  <2>1. ApprovedIsInDraft
    BY <1>8 DEF ReviewInv, ByCategory
  <2>2. \A t \in Sides : Required(t)' = Required(t) /\ Required(t) \subseteq Kept
    BY <1>5 DEF Required, Spouse, Kept
  <2> QED BY <1>4, <1>5, <1>6, <2>1, <2>2 DEF ApprovedIsInDraft, BothGrant, OnlyChanges
<1> QED BY <1>7, <1>8 DEF ReviewInv

\* A document goes only while its side is open, so not in the draft.
LEMMA DeleteKeeps ==
    ASSUME ReviewInv, UNCHANGED load, NEW s \in Sides, NEW c \in Filed,
           NEW i \in DOMAIN docs[s][c], DeleteDocument(s, c, i)
    PROVE  ReviewInv'
<1> DEFINE q == RemoveAt(docs[s][c], i)
<1>1. c \in Kept
  BY DEF Kept
<1>2. docs[s][c] \in Seq(Filing(c))
  BY <1>1 DEF ReviewInv, DocsAreFiled
<1>3. i \in 1 .. Len(docs[s][c]) /\ Len(docs[s][c]) \in Nat
  BY <1>2, LenProperties
<1>4. /\ SubSeq(docs[s][c], 1, i - 1) \in Seq(Filing(c))
      /\ SubSeq(docs[s][c], i + 1, Len(docs[s][c])) \in Seq(Filing(c))
  BY <1>2, <1>3, SubSeqProperties
<1>5. q \in Seq(Filing(c))
  BY <1>4, ConcatProperties DEF RemoveAt
<1>6. docs' = [docs EXCEPT ![s][c] = q] /\ UNCHANGED <<stage, approval, married>>
      /\ approval[s] \in AllowsEditing
  BY DEF DeleteDocument
<1> HIDE DEF q
<1>a. DocsAreFiled /\ q \in Seq(Filing(c)) /\ docs' = [docs EXCEPT ![s][c] = q]
  BY <1>5, <1>6 DEF ReviewInv
<1>7. OnlyChanges(docs', s, c, q)
  BY ONLY <1>1, <1>a, s \in Sides, OneCategoryChanges
<1>8. ReviewTypes' /\ DocsAreFiled'
  BY <1>6, <1>7 DEF OnlyChanges, ReviewInv, ReviewTypes, DocsAreFiled, Kept
<1>9. ASSUME ByCategory' PROVE ApprovedIsInDraft'
  <2>1. ApprovedIsInDraft
    BY <1>9 DEF ReviewInv, ByCategory
  <2>2. stage # "IN_DRAFT"
    BY <1>6, <2>1 DEF ApprovedIsInDraft, BothGrant, AllowsEditing, Granting
  <2> QED BY <1>6, <2>1, <2>2 DEF ApprovedIsInDraft
<1> QED BY <1>8, <1>9 DEF ReviewInv

\* What a side must have is among the categories that are kept.
LEMMA RequiredIsKept == ASSUME NEW s PROVE Required(s) \subseteq Kept
BY DEF Required, Kept

\* Both approvals come from the documents as they are after the verdict, and so
\* does the gate: a side both of whose approval is given passes it.
LEMMA CategoryKeeps ==
    ASSUME ReviewInv, UNCHANGED load, NEW s \in Sides, NEW c \in Categories,
           NEW verdict \in load.verdicts, EvaluateCategory(s, c, verdict)
    PROVE  ReviewInv'
<1> DEFINE q == Marked(docs[s][c], verdict)
<1>1. c \in Kept
  BY DEF Kept
<1>2. docs[s][c] \in Seq(Filing(c)) /\ DocsAreFiled
  BY <1>1 DEF ReviewInv, DocsAreFiled
<1>3. verdict \in CategoryStatus
  BY ReviewAssumption DEF ReviewInv, ReviewTypes
<1>4. q \in Seq(Filing(c))
  BY <1>2, <1>3, MarkedAreFiled
<1>5. docs' = [docs EXCEPT ![s][c] = q]
  BY DEF EvaluateCategory
<1>6. /\ approval' = [x \in Sides |-> SideApproval(docs', x)]
      /\ stage = "AWAITING_DOCS" /\ UNCHANGED married
      /\ stage' = IF BothGrant(approval') /\ Gate(docs') THEN "IN_DRAFT" ELSE stage
  BY DEF EvaluateCategory
<1> HIDE DEF q
<1>7. OnlyChanges(docs', s, c, q)
  BY ONLY <1>1, <1>2, <1>4, <1>5, s \in Sides, OneCategoryChanges
<1>8. DocsAreFiled'
  BY <1>7 DEF OnlyChanges, DocsAreFiled, Kept
<1>9. approval' \in [Sides -> ApprovalStatus]
  BY <1>6, SideApprovals
<1>10. ReviewTypes'
  BY <1>6, <1>9 DEF ReviewInv, ReviewTypes
<1>11. ApprovedIsInDraft'
  <2>1. \A x \in Sides : Required(x)' = Required(x)
    BY <1>6 DEF Required, Spouse
  <2>2. ASSUME \A x \in Sides : approval'[x] = "APPROVED" PROVE stage' = "IN_DRAFT"
    <3>1. \A x \in Sides : SideApproval(docs', x) = "APPROVED"
      BY <1>6, <2>2
    <3>2. Gate(docs')
      BY <3>1, ApprovedSidesPass
    <3> QED BY <1>6, <2>2, <3>2 DEF BothGrant, Granting
  <2>3. ASSUME stage' = "IN_DRAFT" PROVE BothGrant(approval') /\ Gate(docs')
    BY <1>6, <2>3
  <2>4. ASSUME stage' = "IN_DRAFT"
        PROVE  \A x \in Sides : \A b \in Required(x) : docs'[x][b] # <<>>
    <3>1. \A x \in Sides : \A b \in Required(x) : StatusIn(docs', x, b) \in Passing
      BY <2>3, <2>4 DEF Gate
    <3> QED BY <3>1, PassingHasDocument
  <2>5. ASSUME stage' = "IN_DRAFT" PROVE BothGrant(approval)'
    BY <2>3, <2>5 DEF BothGrant
  <2> QED BY <2>1, <2>2, <2>4, <2>5 DEF ApprovedIsInDraft
<1> QED BY <1>8, <1>10, <1>11 DEF ReviewInv

\* A side is reviewed as a whole only where the invariant promises no more than
\* the types.
LEMMA SideKeeps ==
    ASSUME ReviewInv, UNCHANGED load, NEW s \in Sides, NEW verdict \in load.verdicts,
           EvaluateSide(s, verdict)
    PROVE  ReviewInv'
<1> DEFINE status == IF verdict \in Granting THEN "APPROVED" ELSE verdict
           row == [c \in DOMAIN docs[s] |-> Marked(docs[s][c], status)]
<1>1. verdict \in ApprovalStatus /\ status \in CategoryStatus
  BY DEF EvaluateSide, ApprovalStatus, CategoryStatus
<1>2. /\ docs' = [docs EXCEPT ![s] = row]
      /\ approval' = [approval EXCEPT ![s] = verdict]
      /\ stage' \in {stage, "IN_DRAFT"} /\ UNCHANGED married
      /\ "side" \in load.routes
  BY DEF EvaluateSide
<1>3. docs \in [Sides -> [Kept -> Seq(Document)]] /\ DOMAIN docs[s] = Kept
  BY DEF ReviewInv, DocsAreFiled
<1> HIDE DEF status
<1>4. \A c \in Kept : row[c] \in Seq(Filing(c))
  BY <1>1, <1>3, MarkedAreFiled DEF ReviewInv, DocsAreFiled
<1>5. row \in [Kept -> Seq(Document)]
  BY <1>3, <1>4, FilingOfDocuments
<1> HIDE DEF row
<1>6. DocsAreFiled'
  BY <1>2, <1>3, <1>4, <1>5 DEF ReviewInv, DocsAreFiled, Kept
<1>7. ReviewTypes'
  BY <1>1, <1>2 DEF ReviewInv, ReviewTypes
<1>8. ~ByCategory'
  BY <1>2 DEF ByCategory
<1> QED BY <1>6, <1>7, <1>8 DEF ReviewInv

\* The step back puts the contract where its sides are reviewed again.
LEMMA BackKeeps ==
    ASSUME ReviewInv, UNCHANGED load, StepBack PROVE ReviewInv'
<1>1. /\ docs' = [s \in Sides |-> [c \in DOMAIN docs[s] |->
                     IF c \in OfTypeOutro THEN <<>> ELSE docs[s][c]]]
      /\ approval' = NoApproval /\ stage' = "AWAITING_DOCS" /\ UNCHANGED married
  BY DEF StepBack
<1>2. \A s \in Sides : DOMAIN docs[s] = Kept
  BY DEF ReviewInv, DocsAreFiled
<1>3. /\ docs' \in [Sides -> [Kept -> Seq(Document)]]
      /\ \A s \in Sides : \A c \in Kept : docs'[s][c] \in Seq(Filing(c))
  BY <1>1, <1>2, EmptySeq DEF ReviewInv, DocsAreFiled
<1>4. DocsAreFiled'
  BY <1>3 DEF DocsAreFiled, Kept
<1>5. ReviewTypes' /\ ApprovedIsInDraft'
  BY <1>1 DEF ReviewInv, ReviewTypes, ApprovedIsInDraft, NoApproval, ApprovalStatus, Sides
<1> QED BY <1>4, <1>5 DEF ReviewInv

\* What is required of a side changes only where no more than the types is promised.
LEMMA SpouseKeeps ==
    ASSUME ReviewInv, UNCHANGED load, NEW s \in Sides, NEW spouse \in BOOLEAN,
           UpdateSpouse(s, spouse)
    PROVE  ReviewInv'
<1>1. /\ married' = [married EXCEPT ![s] = spouse]
      /\ UNCHANGED <<stage, approval, docs>> /\ "update" \in load.routes
  BY DEF UpdateSpouse
<1>2. ReviewTypes' /\ DocsAreFiled' /\ ~ByCategory'
  BY <1>1 DEF ReviewInv, ReviewTypes, DocsAreFiled, Kept, ByCategory
<1> QED BY <1>2 DEF ReviewInv

\* Every step keeps the invariant.
LEMMA ReviewKept == ASSUME ReviewInv, [Next]_vars PROVE ReviewInv'
<1>1. CASE UNCHANGED vars
  BY <1>1 DEF vars, ReviewInv, ReviewTypes, DocsAreFiled, Kept, ByCategory,
     ApprovedIsInDraft, BothGrant, Required, Spouse
<1>2. CASE Change /\ UNCHANGED load
  BY <1>2, CreateKeeps, UploadKeeps, DeleteKeeps, CategoryKeeps, SideKeeps, BackKeeps, SpouseKeeps
     DEF Change
<1> QED BY <1>1, <1>2 DEF Next

\* In every behaviour of the reviews, documents keep the category a review finds
\* them in; and where sides are reviewed by category, a contract is in its
\* draft exactly when it should be (evaluateContractCategory).
THEOREM ReviewSafety == Spec => []ReviewInv
BY InitReview, ReviewKept, PTL DEF Spec

\* The types as the component states them.
LEMMA ReviewTypesHold == ReviewInv => TypeOK
<1> SUFFICES ASSUME ReviewInv PROVE TypeOK
  OBVIOUS
<1>1. \A s \in Sides : \A c \in Kept : \A i \in 1 .. Len(docs[s][c]) :
          docs[s][c][i] \in Filing(c)
  BY ElementOfSeq DEF ReviewInv, DocsAreFiled
<1> QED BY <1>1 DEF TypeOK, ReviewInv, ReviewTypes, DocsAreFiled, Kept, Filing

-----------------------------------------------------------------------------
\* The contract, the set of those cleared, and its papers, as the abstract life
\* of a contract sees them.
Staged == [c \in {"contract"} |-> stage]
Cleared == IF BothGrant(approval) THEN {"contract"} ELSE {}
Papers == [c \in {"contract"} |-> {}]

\* No step of the reviews touches the papers of the signature stage.
LEMMA StageBecomes ==
    /\ Stages!Becomes("contract", stage', {})
    /\ Stages!Becomes("contract", stage', Papers["contract"])
    /\ BothGrant(approval') => Stages!Clears("contract")
    /\ ~BothGrant(approval') => Stages!Unclears("contract")
BY DEF Stages!Becomes, Stages!Clears, Stages!Unclears, Papers, BothGrant

\* What changes neither the stage nor the approvals is not seen there.
LEMMA StageStutters ==
    ASSUME UNCHANGED <<stage, approval>> PROVE UNCHANGED Stages!stageVars
BY DEF Stages!stageVars, BothGrant

\* A step of the reviews is one of the contract's life, or unseen there.
LEMMA StageSteps ==
    ASSUME [Next]_vars
    PROVE  [\E c \in {"contract"} : Stages!StageStep(c)]_(Stages!stageVars)
<1>1. CASE UNCHANGED <<stage, approval>>
  BY <1>1, StageStutters
<1>2. CASE CreateContract
  <2>1. stage = "NONE" /\ stage' = "AWAITING_DOCS" /\ ~BothGrant(approval')
    BY <1>2 DEF CreateContract, NoApproval, BothGrant, Granting, Sides
  <2>2. Stages!Open("contract")
    BY <2>1, StageBecomes DEF Stages!Open
  <2> QED BY <2>2 DEF Stages!StageStep
<1>3. CASE stage = "AWAITING_DOCS"
           /\ (stage' = "AWAITING_DOCS" \/ (stage' = "IN_DRAFT" /\ BothGrant(approval')))
  <2>1. Stages!Review("contract")
    BY <1>3, StageBecomes DEF Stages!Review, Papers
  <2> QED BY <2>1 DEF Stages!StageStep
<1>4. CASE StepBack
  <2>1. stage = "IN_DRAFT" /\ stage' = "AWAITING_DOCS" /\ ~BothGrant(approval')
    BY <1>4 DEF StepBack, NoApproval, BothGrant, Granting, Sides
  <2>2. Stages!StepBack("contract")
    BY <2>1, StageBecomes DEF Stages!StepBack
  <2> QED BY <2>2 DEF Stages!StageStep
<1>5. ASSUME NEW s \in Sides, NEW c \in Categories, NEW verdict \in load.verdicts,
             EvaluateCategory(s, c, verdict)
      PROVE  stage = "AWAITING_DOCS"
             /\ (stage' = "AWAITING_DOCS" \/ (stage' = "IN_DRAFT" /\ BothGrant(approval')))
  BY <1>5 DEF EvaluateCategory
<1>6. ASSUME NEW s \in Sides, NEW verdict \in load.verdicts, EvaluateSide(s, verdict)
      PROVE  stage = "AWAITING_DOCS"
             /\ (stage' = "AWAITING_DOCS" \/ (stage' = "IN_DRAFT" /\ BothGrant(approval')))
  BY <1>6 DEF EvaluateSide
<1>7. [Next]_vars => \/ UNCHANGED <<stage, approval>>
                     \/ CreateContract \/ StepBack
                     \/ \E s \in Sides, c \in Categories, verdict \in load.verdicts :
                           EvaluateCategory(s, c, verdict)
                     \/ \E s \in Sides, verdict \in load.verdicts : EvaluateSide(s, verdict)
  BY DEF Next, Change, vars, UploadDocument, DeleteDocument, UpdateSpouse
<1> QED BY <1>1, <1>2, <1>3, <1>4, <1>5, <1>6, <1>7

\* A contract that is not there is the abstract one's.
LEMMA StageInit == Init => Stages!NothingOnFile
BY DEF Init, Stages!NothingOnFile, NoApproval, BothGrant, Granting, Sides

\* The gate is computed from the documents the verdict has just marked; only
\* the review of a side as a whole does without it.
LEMMA GatedSteps ==
    ASSUME [Next]_vars PROVE load.routes \cap {"side"} = {} => Gated
<1> SUFFICES ASSUME load.routes \cap {"side"} = {}, stage = "AWAITING_DOCS", stage' = "IN_DRAFT",
                    NEW x \in Sides
             PROVE  /\ \A c \in Required(x) :
                          docs'[x][c] # <<>> /\ Last(docs'[x][c]).status \in Passing
                    /\ \E c \in Required(x) : Last(docs'[x][c]).status \in Granting
  BY DEF Gated
<1>1. PICK s \in Sides, c \in Categories, verdict \in load.verdicts :
          EvaluateCategory(s, c, verdict)
  BY DEF Next, Change, vars, CreateContract, UploadDocument, DeleteDocument, UpdateSpouse,
     EvaluateSide, StepBack
<1>2. Gate(docs') /\ SideApproval(docs', x) \in Granting
  BY <1>1 DEF EvaluateCategory, BothGrant
<1>3. \A b \in Required(x) : StatusIn(docs', x, b) \in Passing
  BY <1>2 DEF Gate
<1>4. PICK b \in Required(x) : StatusIn(docs', x, b) \in Granting
  BY <1>2, SideApprovals
<1> QED BY <1>3, <1>4, PassingHasDocument

-----------------------------------------------------------------------------
\* The contract that is made belongs to a deal that may have one.
LEMMA DealCreate == ASSUME CreateContract PROVE Deal!CreateContract("contract")
<1>1. stage = "NONE" /\ stage' = "AWAITING_DOCS" /\ approval' = NoApproval
  BY DEF CreateContract
<1> QED BY <1>1 DEF Deal!CreateContract, Deal!AllowedForContract, Deal!NONE, Deal!NoApproval,
     Deal!Sides, Deal!negotiationVars, NoApproval, Sides

\* A verdict on a side leaves the listing of a deal in progress on sale.
LEMMA DealSide ==
    ASSUME ReviewInv, NEW s \in Sides, NEW verdict \in load.verdicts, EvaluateSide(s, verdict)
    PROVE  verdict \in ApprovalStatus /\ Deal!EvaluateSide("contract", s, verdict)
<1>1. verdict \in ApprovalStatus
  BY DEF EvaluateSide
<1>2. /\ stage = "AWAITING_DOCS" /\ approval' = [approval EXCEPT ![s] = verdict]
      /\ stage' = IF BothGrant(approval') THEN "IN_DRAFT" ELSE stage
  BY DEF EvaluateSide
<1> QED BY <1>1, <1>2 DEF Deal!EvaluateSide, Deal!BothGrantProgress, Deal!GrantsProgress, Deal!Sides,
     Deal!Relisted, Deal!IsDealt, Deal!Dealt, Deal!OnSale, Deal!Columns, BothGrant, Granting, Sides

\* Two full approvals are computed only from documents that pass the gate.
LEMMA DealCategory ==
    ASSUME NEW s \in Sides, NEW c \in Categories, NEW verdict \in load.verdicts,
           EvaluateCategory(s, c, verdict)
    PROVE  \E everyCategory \in BOOLEAN :
               Deal!EvaluateCategory("contract", approval', everyCategory)
<1>1. /\ approval' = [x \in Sides |-> SideApproval(docs', x)]
      /\ stage = "AWAITING_DOCS"
      /\ stage' = IF BothGrant(approval') /\ Gate(docs') THEN "IN_DRAFT" ELSE stage
  BY DEF EvaluateCategory
<1>2. PICK gate \in BOOLEAN : gate <=> Gate(docs')
  OBVIOUS
<1>3. ASSUME \A x \in Sides : approval'[x] = "APPROVED" PROVE gate
  <2>1. \A x \in Sides : SideApproval(docs', x) = "APPROVED"
    BY <1>1, <1>3
  <2> QED BY <1>2, <2>1, ApprovedSidesPass
<1>4. stage' = IF BothGrant(approval') /\ gate THEN "IN_DRAFT" ELSE stage
  BY <1>1, <1>2
<1>5. Deal!EvaluateCategory("contract", approval', gate)
  BY <1>1, <1>3, <1>4 DEF Deal!EvaluateCategory, Deal!BothGrantProgress, Deal!GrantsProgress,
     Deal!Sides, Deal!negotiationVars, BothGrant, Granting, Sides
<1> QED BY <1>5

\* The step back forgets both approvals; the deal has no papers to discard yet.
LEMMA DealBack == ASSUME StepBack PROVE Deal!TransitionPrevious("contract")
<1>1. stage = "IN_DRAFT" /\ stage' = "AWAITING_DOCS" /\ approval' = NoApproval
  BY DEF StepBack
<1> QED BY <1>1 DEF Deal!TransitionPrevious, Deal!Without, Deal!DocKinds, Deal!ContractDocs,
     Deal!SignedEvidence, Deal!NoApproval, Deal!Sides, NoApproval, Sides

\* A step of the reviews is one that `Deals` allows, or unseen there.
LEMMA DealSteps == ASSUME ReviewInv, [Next]_vars PROVE [ReviewOfDeal]_(Deal!vars)
<1>1. CASE UNCHANGED <<stage, approval>>
  <2>1. UNCHANGED Deal!vars
    BY <1>1 DEF Deal!vars
  <2> QED BY <2>1
<1>2. CASE CreateContract
  BY <1>2, DealCreate DEF ReviewOfDeal
<1>3. CASE StepBack
  BY <1>3, DealBack DEF ReviewOfDeal
<1>4. CASE \E s \in Sides, c \in Categories, verdict \in load.verdicts :
              EvaluateCategory(s, c, verdict)
  BY <1>4, DealCategory DEF ReviewOfDeal
<1>5. CASE \E s \in Sides, verdict \in load.verdicts : EvaluateSide(s, verdict)
  BY <1>5, DealSide DEF ReviewOfDeal
<1>6. \/ UNCHANGED <<stage, approval>>
      \/ CreateContract \/ StepBack
      \/ \E s \in Sides, c \in Categories, verdict \in load.verdicts :
            EvaluateCategory(s, c, verdict)
      \/ \E s \in Sides, verdict \in load.verdicts : EvaluateSide(s, verdict)
  BY DEF Next, Change, vars, UploadDocument, DeleteDocument, UpdateSpouse
<1> QED BY <1>1, <1>2, <1>3, <1>4, <1>5, <1>6

\* The approvals that the reviews compute from documents are among those that
\* `Deals` takes a contract through, whose own invariants hold for any of them
\* (summarizeContractApprovalProgress, hasRequiredCategoryGateApproval).
THEOREM ReviewsAreOfDeals == Spec => KeepsDealSteps
<1>1. ReviewInv /\ [Next]_vars => [ReviewOfDeal]_(Deal!vars)
  BY DealSteps
<1> QED BY <1>1, ReviewSafety, PTL DEF Spec, KeepsDealSteps

-----------------------------------------------------------------------------
\* The reviews keep the life of a contract whatever is called, and their gate
\* where no side is reviewed as a whole (ContractController).
THEOREM ReviewsAlwaysOrderly == Spec => ReviewsAreOrderly
<1>1. ReviewInv => (load.routes \cap {"side", "update"} = {} => ApprovedIsInDraft)
  BY DEF ReviewInv, ByCategory
<1>2. Spec => KeepsReviewStages
  BY StageInit, StageSteps, PTL DEF Spec, KeepsReviewStages, Stages!StageSpec
<1>3. Spec => [][load.routes \cap {"side"} = {} => Gated]_vars
  BY GatedSteps, PTL DEF Spec
<1> QED BY <1>1, <1>2, <1>3, ReviewSafety, ReviewTypesHold, ReviewsAreOfDeals, PTL DEF ReviewsAreOrderly

-----------------------------------------------------------------------------
\* A way of signing is chosen only where a contract is signed and is forgotten by
\* every way back; the splits of a sale are checked whenever they are recorded
\* (setContractSignatureMethod, updateContractCommissionData).
THEOREM PartiesAlwaysHold == PartySpec => []PartiesHold
<1>1. PartyInit => PartiesHold
  BY DEF PartyInit, PartiesHold, MethodBelongsToSigning, SaleIsFullySplit
<1>2. ASSUME PartiesHold, [PartyNext]_partyVars PROVE PartiesHold'
  <2> USE DEF PartiesHold, MethodBelongsToSigning, SaleIsFullySplit
  <2>1. CASE UNCHANGED partyVars
    BY <1>2, <2>1 DEF partyVars
  <2>2. ASSUME NEW who \in People, NEW S, UpdateContractData(who, S) PROVE PartiesHold'
    BY <1>2, <2>2 DEF UpdateContractData
  <2>3. ASSUME NEW who \in People, SetContractSignatureMethod(who) PROVE PartiesHold'
    BY <1>2, <2>3 DEF SetContractSignatureMethod
  <2>4. ASSUME NEW who \in People, UploadSignedContract(who) PROVE PartiesHold'
    BY <1>2, <2>4 DEF UploadSignedContract
  <2>5. ASSUME NEW who \in People, UpdateOperationalResponsible(who) PROVE PartiesHold'
    BY <1>2, <2>5 DEF UpdateOperationalResponsible
  <2>6. ASSUME NEW splits \in Splits, Finalize(splits) \/ UpdateContractCommissionData(splits)
        PROVE  PartiesHold'
    BY <1>2, <2>6 DEF Finalize, UpdateContractCommissionData, AcceptsSplits, Row
  <2>7. CASE DeleteContractCommissionData \/ UploadSignedDocs
    BY <1>2, <2>7 DEF DeleteContractCommissionData, UploadSignedDocs
  <2>8. ASSUME NEW a, Review(a) PROVE PartiesHold'
    BY <1>2, <2>8 DEF Review
  <2>9. CASE SendDraft \/ GoBack \/ ReopenFinalized
    BY <1>2, <2>9 DEF SendDraft, GoBack, ReopenFinalized
  <2> QED BY <1>2, <2>1, <2>2, <2>3, <2>4, <2>5, <2>6, <2>7, <2>8, <2>9 DEF PartyNext
<1> QED BY <1>1, <1>2, PTL DEF PartySpec
=============================================================================
