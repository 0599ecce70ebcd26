---------------------------- MODULE ContractReview ----------------------------
(***************************************************************************)
(* The documents of a contract's two sides and their review.  The rule     *)
(* matrix says which categories a side must have, given what the contract  *)
(* says of its party; people upload and remove documents of a category;    *)
(* the administrator reviews a category or a whole side, and each review   *)
(* computes the sides' approvals and may move the contract to its draft.   *)
(* Every handler locks the contract, so each is one step.  One contract;   *)
(* its stages after the draft are ContractOps'.                            *)
(***************************************************************************)
EXTENDS Naturals, Sequences, SequencesExt

CONSTANTS
    Categories,     \* bound: the categories an instance looks at
    Kinds,          \* the kinds of document people upload
    Loads           \* what an instance lets people do: the routes they call, the
                    \* verdicts of the reviews, the room for documents of a category

VARIABLES
    load,           \* the one of Loads that a behaviour is about
    stage,          \* of the contract, "NONE" before there is one
    approval,       \* side -> how it was reviewed
    married,        \* side -> whether its party has a spouse, by the contract
    docs            \* side -> category -> its documents, oldest first

vars == <<load, stage, approval, married, docs>>

-----------------------------------------------------------------------------
Sides == {"seller", "buyer"}
ApprovalStatus == {"PENDING", "APPROVED", "APPROVED_WITH_RES", "REJECTED"}
Granting == {"APPROVED", "APPROVED_WITH_RES"}
\* A document may besides be found not to apply, which passes the gate.
CategoryStatus == ApprovalStatus \cup {"NOT_APPLICABLE"}
Passing == Granting \cup {"NOT_APPLICABLE"}
AllowsEditing == {"PENDING", "REJECTED"}
NoApproval == [s \in Sides |-> "PENDING"]

\* The categories a review accepts: a document filed under 'outro' is not in
\* one of them, and goes by its type instead.
ReviewCategories ==
    {"identidade", "comprovante_endereco", "estado_civil", "conjuge_documentos",
     "comprovante_renda", "dados_bancarios", "docs_imovel"}

ASSUME ReviewAssumption ==
    /\ \A k \in Kinds : k.filed \in ReviewCategories \cup {"outro"}
    /\ \A l \in Loads :
          /\ l.routes \subseteq {"side", "category", "admin", "party", "delete", "update", "back"}
          /\ l.verdicts \subseteq CategoryStatus
          /\ l.room \in Nat

\* The first category that takes the type, in the order of the table.
CategoryOfType(type) ==
    CASE type = "outro" -> "conjuge_documentos"
      [] type \in {"doc_identidade", "cliente_cnh", "cliente_identidade"} -> "identidade"
      [] type = "certidao_casamento_nascimento" -> "estado_civil"
      [] type \in {"certidao_inteiro_teor", "certidao_onus_acoes"} -> "docs_imovel"
      [] OTHER -> type

TypesOf(category) ==
    CASE category \in {"conjuge_documentos", "dados_bancarios"} -> {"outro"}
      [] category = "outro" -> {"outro", "cliente_outro"}
      [] category = "identidade" -> {"doc_identidade", "cliente_cnh", "cliente_identidade"}
      [] category = "estado_civil" -> {"certidao_casamento_nascimento"}
      [] category = "docs_imovel" -> {"certidao_inteiro_teor", "certidao_onus_acoes"}
      [] OTHER -> {category}

CategoryOf(kind) ==
    IF kind.filed \in ReviewCategories THEN kind.filed ELSE CategoryOfType(kind.type)

\* What both sides must have, and what each adds.
Common == {"identidade", "comprovante_endereco", "estado_civil"}
OfSide(s) == IF s = "seller" THEN {"dados_bancarios", "docs_imovel"} ELSE {"comprovante_renda"}
Spouse(s) == IF married[s] THEN {"conjuge_documentos"} ELSE {}

Required(s) == (Common \cup OfSide(s) \cup Spouse(s)) \cap Categories
Applicable(s) == Required(s) \cup {"outro"}

-----------------------------------------------------------------------------
\* The status of a category is its newest document's.
StatusIn(D, s, c) == IF D[s][c] = <<>> THEN "PENDING" ELSE Last(D[s][c]).status

ApprovedIn(D, s) == {c \in Required(s) : StatusIn(D, s, c) \in Granting}

\* A side with a rejected category is rejected; one approved category makes it
\* approved with reservations, and all of them without makes it approved.  One
\* that does not apply counts for nothing here.
SideApproval(D, s) ==
    LET has(x) == \E c \in Required(s) : StatusIn(D, s, c) = x
    IN IF has("REJECTED") THEN "REJECTED"
       ELSE IF ApprovedIn(D, s) = {} THEN "PENDING"
       ELSE IF ApprovedIn(D, s) = Required(s) /\ ~has("APPROVED_WITH_RES") THEN "APPROVED"
       ELSE "APPROVED_WITH_RES"

\* Faulty variant: a document is enough, whatever became of it.
GateByDocuments(D) == \A s \in Sides : \A c \in Required(s) : D[s][c] # <<>>

Gate(D) == \A s \in Sides : \A c \in Required(s) : StatusIn(D, s, c) \in Passing

BothGrant(a) == \A s \in Sides : a[s] \in Granting

Marked(seq, status) == [i \in DOMAIN seq |-> [seq[i] EXCEPT !.status = status]]

-----------------------------------------------------------------------------
CreateContract ==
    /\ stage = "NONE"
    /\ stage' = "AWAITING_DOCS"
    /\ approval' = NoApproval
    /\ UNCHANGED <<married, docs>>

\* A party may upload while its side is not approved, the administrator always.
MayUpload(role, s) ==
    /\ role \in load.routes
    /\ stage \in {"AWAITING_DOCS", "IN_DRAFT"}
    /\ role = "party" => approval[s] \in AllowsEditing

\* The administrator's documents of type 'outro' belong to the signature stage.
\* Otherwise the type must be one of the category's, and the category apply
\* to the side unless the type is 'outro'.
AcceptsKind(role, s, kind) ==
    /\ kind.type \in TypesOf(kind.filed)
    /\ role = "admin" => kind.type # "outro"
    /\ kind.type # "outro" => kind.filed \in Applicable(s)

UploadDocument(role, s, kind) ==
    LET c == CategoryOf(kind)
    IN /\ MayUpload(role, s)
       /\ AcceptsKind(role, s, kind)
       /\ Len(docs[s][c]) < load.room
       /\ docs' = [docs EXCEPT ![s][c] = Append(@, [filed |-> kind.filed, status |-> "PENDING"])]
       /\ UNCHANGED <<stage, approval, married>>

\* Faulty variant: the approval of its side does not protect a document.
DeleteAnyDocument(s, c, i) ==
    /\ "delete" \in load.routes
    /\ stage # "NONE"
    /\ docs' = [docs EXCEPT ![s][c] = RemoveAt(@, i)]
    /\ UNCHANGED <<stage, approval, married>>

\* Whoever asks, at any stage.
DeleteDocument(s, c, i) ==
    /\ "delete" \in load.routes
    /\ stage # "NONE"
    /\ approval[s] \in AllowsEditing
    /\ docs' = [docs EXCEPT ![s][c] = RemoveAt(@, i)]
    /\ UNCHANGED <<stage, approval, married>>

-----------------------------------------------------------------------------
\* All the documents of the category take the verdict, and both approvals are
\* computed again from all of them.
EvaluateCategory(s, c, verdict) ==
    LET D == [docs EXCEPT ![s][c] = Marked(@, verdict)]
        a == [x \in Sides |-> SideApproval(D, x)]
    IN /\ "category" \in load.routes
       /\ stage = "AWAITING_DOCS"
       /\ c \in Required(s)
       /\ docs[s][c] # <<>>
       /\ docs' = D
       /\ approval' = a
       /\ stage' = IF BothGrant(a) /\ Gate(D) THEN "IN_DRAFT" ELSE stage
       /\ UNCHANGED married

\* All the documents of the side take the verdict; a reservation is the side's
\* only.  The other side keeps its approval, and no category is looked at.
EvaluateSide(s, verdict) ==
    LET a == [approval EXCEPT ![s] = verdict]
        status == IF verdict \in Granting THEN "APPROVED" ELSE verdict
    IN /\ "side" \in load.routes
       /\ verdict \in ApprovalStatus
       /\ stage = "AWAITING_DOCS"
       /\ docs' = [docs EXCEPT ![s] = [c \in DOMAIN @ |-> Marked(@[c], status)]]
       /\ approval' = a
       /\ stage' = IF BothGrant(a) THEN "IN_DRAFT" ELSE stage
       /\ UNCHANGED married

\* Faulty variant: the documents stay approved, and so do the sides.
StepBackKeepingApproval ==
    /\ "back" \in load.routes
    /\ stage = "IN_DRAFT"
    /\ stage' = "AWAITING_DOCS"
    /\ UNCHANGED <<approval, married, docs>>

\* The step back discards the documents of type 'outro', those of the spouse
\* and of the bank among them, and keeps the others as they were reviewed.
OfTypeOutro == {"conjuge_documentos", "dados_bancarios"}

StepBack ==
    /\ "back" \in load.routes
    /\ stage = "IN_DRAFT"
    /\ stage' = "AWAITING_DOCS"
    /\ approval' = NoApproval
    /\ docs' = [s \in Sides |-> [c \in DOMAIN docs[s] |->
                  IF c \in OfTypeOutro THEN <<>> ELSE docs[s][c]]]
    /\ UNCHANGED married

\* The administrator corrects what the contract says of a party, at any stage.
UpdateSpouse(s, spouse) ==
    /\ "update" \in load.routes
    /\ stage # "NONE"
    /\ married' = [married EXCEPT ![s] = spouse]
    /\ UNCHANGED <<stage, approval, docs>>

-----------------------------------------------------------------------------
Filed == {CategoryOf(k) : k \in Kinds}

Init ==
    /\ load \in Loads
    /\ stage = "NONE"
    /\ approval = NoApproval
    /\ married \in [Sides -> BOOLEAN]
    /\ docs = [s \in Sides |-> [c \in Categories \cup Filed |-> <<>>]]

Change ==
    \/ CreateContract
    \/ \E role \in {"admin", "party"}, s \in Sides, kind \in Kinds : UploadDocument(role, s, kind)
    \/ \E s \in Sides, c \in Filed : \E i \in DOMAIN docs[s][c] : DeleteDocument(s, c, i)
    \/ \E s \in Sides, c \in Categories, verdict \in load.verdicts :
          EvaluateCategory(s, c, verdict)
    \/ \E s \in Sides, verdict \in load.verdicts : EvaluateSide(s, verdict)
    \/ StepBack
    \/ \E s \in Sides, spouse \in BOOLEAN : UpdateSpouse(s, spouse)

Next == Change /\ UNCHANGED load

Spec == Init /\ [][Next]_vars

-----------------------------------------------------------------------------
(* Properties.                                                             *)

Document == [filed : ReviewCategories \cup {"outro"}, status : CategoryStatus]

\* Types, and a document is kept under the category a review finds it in.
TypeOK ==
    /\ load \in Loads
    /\ stage \in {"NONE", "AWAITING_DOCS", "IN_DRAFT"}
    /\ approval \in [Sides -> ApprovalStatus]
    /\ married \in [Sides -> BOOLEAN]
    /\ docs \in [Sides -> [Categories \cup Filed -> Seq(Document)]]
    /\ \A s \in Sides : \A c \in Categories \cup Filed : \A i \in 1 .. Len(docs[s][c]) :
          docs[s][c][i].filed \in {c, "outro"}

\* A contract enters the draft with a document of every category that its rule
\* matrix requires, none of them pending or rejected, and with one approved on
\* each side at least: a verdict that a document does not apply stands in for
\* its approval, and neither for a missing document nor for a whole side
\* (hasRequiredCategoryGateApproval, resolveSideApprovalFromCategoryProgress).
Gated ==
    stage = "AWAITING_DOCS" /\ stage' = "IN_DRAFT" =>
        \A s \in Sides :
           /\ \A c \in Required(s) : docs'[s][c] # <<>> /\ Last(docs'[s][c]).status \in Passing
           /\ \E c \in Required(s) : Last(docs'[s][c]).status \in Granting

\* What the rule matrix says of a required category: the gate demands an approved
\* document of it (contractDocumentRuleMatrix.ts:16).
DraftIsGated ==
    [][stage = "AWAITING_DOCS" /\ stage' = "IN_DRAFT" =>
          \A s \in Sides : \A c \in Required(s) :
              docs'[s][c] # <<>> /\ Last(docs'[s][c]).status \in Granting]_vars

\* A contract whose two sides are approved is in its draft, where every
\* required category still has a document: no handler leaves it waiting, and
\* none removes one behind the approval (evaluateContractCategory and
\* deleteContractDocument).
ApprovedIsInDraft ==
    /\ (\A s \in Sides : approval[s] = "APPROVED") => stage = "IN_DRAFT"
    /\ stage = "IN_DRAFT" =>
          /\ BothGrant(approval)
          /\ \A s \in Sides : \A c \in Required(s) : docs[s][c] # <<>>

\* The reviews keep the life of a contract: the draft only with both sides
\* cleared, and the step back only with neither.
Stages == INSTANCE ContractStages WITH
    Contracts <- {"contract"},
    Draft <- "contrato_minuta",
    Evidence <- {"contrato_assinado", "comprovante_pagamento"},
    stage <- [c \in {"contract"} |-> stage],
    cleared <- IF BothGrant(approval) THEN {"contract"} ELSE {},
    file <- [c \in {"contract"} |-> {}]

KeepsReviewStages == Stages!StageSpec

\* The deal this is the contract of, in progress and with no paper of the
\* signature stage yet.  What a review does to it is among what `Deals` lets
\* the reviews do, who knows no documents of the sides and takes any approvals:
\* in particular two full approvals never leave the contract waiting.
Deal == INSTANCE ContractOps WITH
    Properties <- {"listing"},
    Negotiations <- {"contract"},
    PropertyOf <- [n \in {"contract"} |-> "listing"],
    Requests <- {},
    Decisions <- ApprovalStatus,
    MaxDocs <- 1,
    property <- [p \in {"listing"} |->
                   [status |-> "approved", visibility |-> "PUBLIC", lifecycle |-> "AVAILABLE"]],
    negotiation <- [n \in {"contract"} |-> "IN_NEGOTIATION"],
    contract <- [n \in {"contract"} |-> stage],
    approval <- [n \in {"contract"} |-> approval],
    docs <- [n \in {"contract"} |->
               [k \in {"signed_proposal", "contrato_minuta", "contrato_assinado",
                       "comprovante_pagamento"} |-> 0]],
    pending <- {}

ReviewOfDeal ==
    \/ Deal!CreateContract("contract")
    \/ \E s \in Sides, decision \in ApprovalStatus : Deal!EvaluateSide("contract", s, decision)
    \/ \E everyCategory \in BOOLEAN :
          Deal!EvaluateCategory("contract", approval', everyCategory)
    \/ Deal!TransitionPrevious("contract")

KeepsDealSteps == [][ReviewOfDeal]_(Deal!vars)

\* All of it: the life of a contract, and of its deal, whatever is called; the
\* gate where no side is reviewed as a whole; and the draft with its documents
\* where, besides, the administrator does not change what is required.
ReviewsAreOrderly ==
    /\ []TypeOK
    /\ KeepsReviewStages
    /\ KeepsDealSteps
    /\ [](load.routes \cap {"side", "update"} = {} => ApprovedIsInDraft)
    /\ [][load.routes \cap {"side"} = {} => Gated]_vars

\* A document that makes its category approved was filed as one of it: the
\* spouse's papers are not some other attachment (mapDocument).
GateGoesByFiling ==
    [][stage = "AWAITING_DOCS" /\ stage' = "IN_DRAFT" =>
          \A s \in Sides : \A c \in Required(s) :
             docs'[s][c] # <<>> => Last(docs'[s][c]).filed = c]_vars

\* A rejected side waits for a correction: its rejection ends with a change of
\* its own documents or its own review, not with the review of the other side
\* (summarizeContractApprovalProgress).
RejectedWaits ==
    [][\A s \in Sides :
          approval[s] = "REJECTED" /\ approval'[s] # "REJECTED" =>
             docs'[s] # docs[s] \/ \E v \in load.verdicts : EvaluateSide(s, v)]_vars

\* A side closed to uploads because it was approved has every required
\* category approved (uploadContractDocument).
LockedIsApproved ==
    \A s \in Sides : approval[s] \in Granting => ApprovedIn(docs, s) = Required(s)
=============================================================================
