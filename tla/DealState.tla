------------------------------ MODULE DealState ------------------------------
(***************************************************************************)
(* The database rows a real-estate deal is made of, shared by the          *)
(* negotiation, contract and property services: `properties`,              *)
(* `negotiations`, `contracts` and the rows of `negotiation_documents`     *)
(* that some handler's guard counts.                                       *)
(*                                                                         *)
(* Every transaction of those services takes its row locks with FOR UPDATE *)
(* before it decides anything, so one transaction is one step.  The        *)
(* property handlers of a broker lock nothing between their SELECT and     *)
(* their UPDATE; `pending` holds the writes of the handlers caught there.  *)
(***************************************************************************)
EXTENDS Naturals, FiniteSets

CONSTANTS
    Properties,     \* listings
    Negotiations,   \* negotiation identifiers; a deleted one may be used again
    PropertyOf,     \* the listing a negotiation is about (negotiations.property_id)
    Requests,       \* property handlers that may be between SELECT and UPDATE
    Decisions,      \* approval statuses the administrators' reviews write
    MaxDocs         \* bound on the documents of one kind in one negotiation

VARIABLES
    property,       \* listing -> status, visibility and lifecycle_status
    negotiation,    \* negotiation -> status, or "NONE" when there is no row
    contract,       \* negotiation -> status of its one contract, or "NONE"
    approval,       \* negotiation -> the contract's approval of each side
    docs,           \* negotiation -> how many documents of each kind it has
    pending         \* property writes already decided on and not yet made

negotiationVars == <<negotiation, docs>>
contractVars == <<contract, approval>>
vars == <<property, negotiation, contract, approval, docs, pending>>

-----------------------------------------------------------------------------
NONE == "NONE"

PropertyStatus ==
    {"pending_approval", "approved", "rejected", "negociacao", "sold", "rented"}
Visibility == {"PUBLIC", "HIDDEN"}
Lifecycle == {"AVAILABLE", "SOLD", "RENTED"}
Listing == [status : PropertyStatus, visibility : Visibility, lifecycle : Lifecycle]

\* The statuses the deployed services write.  PROPOSAL_DRAFT, CONTRACT_DRAFTING
\* and AWAITING_SIGNATURES are read by their guards but written only by the
\* domain state classes, which no route reaches.
Active == {"PROPOSAL_SENT", "DOCUMENTATION_PHASE", "IN_NEGOTIATION"}
Refused == {"CANCELLED", "REFUSED"}
Dealt == {"SOLD", "RENTED"}
Closed == Refused \cup Dealt
NegotiationStatus == Active \cup Closed

ContractStage == {"AWAITING_DOCS", "IN_DRAFT", "AWAITING_SIGNATURES", "FINALIZED"}

Sides == {"seller", "buyer"}
ApprovalStatus == {"PENDING", "APPROVED", "APPROVED_WITH_RES", "REJECTED"}
GrantsProgress == {"APPROVED", "APPROVED_WITH_RES"}
AllowsEditing == {"PENDING", "REJECTED"}

ASSUME DealConstants ==
    /\ PropertyOf \in [Negotiations -> Properties]
    /\ Decisions \subseteq ApprovalStatus
    /\ MaxDocs \in Nat \ {0}

\* Documents some guard counts: the signed proposal hangs on the negotiation
\* (type 'other', no contractId), the other three on the contract.
SignedEvidence == {"contrato_assinado", "comprovante_pagamento"}
ContractDocs == {"contrato_minuta"} \cup SignedEvidence
DocKinds == {"signed_proposal"} \cup ContractDocs

\* What the property handler `by` is about to write: a status, and whether it
\* also hides the listing.
Handler == {"resubmit", "close", "cancel", "edit"}
PropertyWrite == [by : Requests, handler : Handler, property : Properties,
                  status : PropertyStatus \ {"negociacao"}, hide : BOOLEAN]

-----------------------------------------------------------------------------
NoApproval == [s \in Sides |-> "PENDING"]
NoDocs == [k \in DocKinds |-> 0]

BothGrantProgress(a) == \A s \in Sides : a[s] \in GrantsProgress

\* A listing whose columns have these values.
Columns(s, v, l) == [status |-> s, visibility |-> v, lifecycle |-> l]

\* properties SET status = 'approved', visibility = 'PUBLIC',
\* lifecycle_status = 'AVAILABLE'
OnSale == Columns("approved", "PUBLIC", "AVAILABLE")

\* properties SET status = 'negociacao', visibility = 'HIDDEN',
\* lifecycle_status = 'AVAILABLE'
UnderNegotiation == Columns("negociacao", "HIDDEN", "AVAILABLE")

IsDealt(listing) ==
    \/ listing.lifecycle \in Dealt
    \/ listing.status \in {"sold", "rented"}

\* Faulty variant: the guard of the UPDATE is forgotten.
RelistedAlways(listing) == OnSale

\* ... AND lifecycle_status NOT IN ('SOLD','RENTED') AND status NOT IN ('sold','rented')
Relisted(listing) == IF IsDealt(listing) THEN listing ELSE OnSale

\* A listing the public searches return.
PublicBlocking == {"DOCUMENTATION_PHASE", "IN_NEGOTIATION", "SOLD", "RENTED"}
InShowcase(p) ==
    /\ property[p].status = "approved"
    /\ property[p].visibility = "PUBLIC"
    /\ \A n \in Negotiations :
          PropertyOf[n] = p => negotiation[n] \notin PublicBlocking

TypeOK ==
    /\ property \in [Properties -> Listing]
    /\ negotiation \in [Negotiations -> NegotiationStatus \cup {NONE}]
    /\ contract \in [Negotiations -> ContractStage \cup {NONE}]
    /\ approval \in [Negotiations -> [Sides -> ApprovalStatus]]
    /\ docs \in [Negotiations -> [DocKinds -> 0 .. MaxDocs]]
    /\ pending \subseteq PropertyWrite
=============================================================================
