---------------------------- MODULE ContractParties ----------------------------
(***************************************************************************)
(* What the people of a contract do to it besides its documents: the data  *)
(* of its parties, the way it is signed, the broker in charge of it and    *)
(* its commission.  Each handler reads the contract again, some with the   *)
(* columns of its negotiation and its listing and some without: those see  *)
(* a contract of nobody and of no purpose.  One contract; the reviews that *)
(* decide its approvals are ContractReview's, its documents ContractOps'.  *)
(***************************************************************************)

CONSTANTS
    Joined,     \* the columns a handler reads with the negotiation's
    Bare        \* and with those of the table `contracts` alone

VARIABLES
    phase,      \* of the contract
    reviewed,   \* side -> whether its review closed it
    info,       \* side -> who gave the party's data last
    method,     \* how it is signed
    selling,    \* the negotiation's selling broker
    commission, \* how the splits recorded add up
    purpose,    \* what the listing is for
    last        \* the last request: what, by whom and how it ended

partyVars == <<phase, reviewed, info, method, selling, commission, purpose, last>>

-----------------------------------------------------------------------------
Parties == {"seller", "buyer"}
\* A capturing broker, a broker made responsible for the negotiation, two
\* clients, an administrator, and a broker with no part in the contract.
People == {"captor", "helper", "owner", "buyer", "admin", "stranger"}
Brokers == {"captor", "helper", "stranger"}
Clients == {"owner", "buyer"}
Nobody == "nobody"

\* The people a row names.  Its columns are the negotiation's and the listing's.
Row(read) ==
    IF read = Joined
    THEN [captor |-> "captor", selling |-> selling, responsible |-> {"helper"},
          owner |-> "owner", buyer |-> "buyer", purpose |-> purpose]
    ELSE [captor |-> Nobody, selling |-> Nobody, responsible |-> {},
          owner |-> Nobody, buyer |-> Nobody, purpose |-> "none"]

CanAccessContract(row, who) ==
    \/ who = "admin"
    \/ who \in Brokers /\ who \in row.responsible \cup {row.captor, row.selling}
    \/ who \in Clients /\ who \in {row.owner, row.buyer}

CanEditSellerSide(row, who) ==
    \/ who = "admin"
    \/ who \in row.responsible
    \/ who \in Clients /\ who = row.owner
    \/ who \in Brokers /\ who = row.captor

CanEditBuyerSide(row, who) ==
    \/ who = "admin"
    \/ who \in Clients /\ who = row.buyer
    \/ who \in Brokers /\ who = row.captor

CanEdit(row, side, who) ==
    IF side = "seller" THEN CanEditSellerSide(row, who) ELSE CanEditBuyerSide(row, who)

IsDoubleEndedDeal(row) == row.captor # Nobody /\ row.captor = row.selling

Closed == {"APPROVED", "APPROVED_WITH_RES"}
Statuses == Closed \cup {"PENDING", "REJECTED"}

Answer(what, S, who, outcome) ==
    last' = [what |-> what, sides |-> S, who |-> who, outcome |-> outcome]
Ends(what, who, outcome) == Answer(what, {}, who, outcome)

-----------------------------------------------------------------------------
\* Whether the data of the sides S is taken from `who`.  A side approved with
\* reservations is still open here.
TakesData(row, S, who) ==
    /\ CanAccessContract(row, who)
    /\ \A s \in S : CanEdit(row, s, who) \/ IsDoubleEndedDeal(row)
    /\ \A s \in S : reviewed[s] = "APPROVED" => who = "admin"
    /\ IsDoubleEndedDeal(row) => who \in {"admin", row.captor}

\* updateData reads the table alone: it is a contract of nobody.
UpdateContractData(who, S) ==
    /\ IF TakesData(Row(Bare), S, who)
       THEN /\ info' = [s \in Parties |-> IF s \in S THEN who ELSE info[s]]
            /\ Answer("data", S, who, "done")
       ELSE /\ Answer("data", S, who, "refused")
            /\ UNCHANGED info
    /\ UNCHANGED <<phase, reviewed, method, selling, commission, purpose>>

\* The route is not the administrator's, and the handler reads the table alone.
SetContractSignatureMethod(who) ==
    /\ IF who # "admin" /\ CanAccessContract(Row(Bare), who) /\ phase = "AWAITING_SIGNATURES"
       THEN /\ method' = "in_person"
            /\ Ends("method", who, "done")
       ELSE /\ Ends("method", who, IF phase = "AWAITING_SIGNATURES" THEN "refused" ELSE "early")
            /\ UNCHANGED method
    /\ UNCHANGED <<phase, reviewed, info, selling, commission, purpose>>

\* The party's signed contract says that it signs online.
UploadSignedContract(who) ==
    /\ phase = "AWAITING_SIGNATURES"
    /\ CanAccessContract(Row(Joined), who)
    /\ method' = IF who = "admin" THEN method ELSE "online"
    /\ Ends("signed", who, "done")
    /\ UNCHANGED <<phase, reviewed, info, selling, commission, purpose>>

\* The agency's says only that the agency has it.
UploadSignedDocs ==
    /\ phase = "AWAITING_SIGNATURES"
    /\ Ends("agency", "admin", "done")
    /\ UNCHANGED <<phase, reviewed, info, method, selling, commission, purpose>>

\* The captor makes itself the selling broker; here too of the table alone.
UpdateOperationalResponsible(who) ==
    /\ phase \in {"AWAITING_DOCS", "IN_DRAFT"}
    /\ IF CanAccessContract(Row(Bare), who) /\ who = Row(Bare).captor
       THEN /\ selling' = who
            /\ Ends("responsible", who, "done")
       ELSE /\ Ends("responsible", who, "refused")
            /\ UNCHANGED selling
    /\ UNCHANGED <<phase, reviewed, info, method, commission, purpose>>

-----------------------------------------------------------------------------
Splits == {"exact", "partial"}

\* Faulty variant: any splits are taken.
AcceptsAny(row, splits) == splits \in Splits

\* In a sale the splits add up to the whole; in a rental they may fall short.
AcceptsSplits(row, splits) == row.purpose # "rent" => splits = "exact"

Finalize(splits) ==
    /\ phase = "AWAITING_SIGNATURES"
    /\ AcceptsSplits(Row(Joined), splits)
    /\ phase' = "FINALIZED"
    /\ commission' = splits
    /\ Ends("finalize", "admin", "done")
    /\ UNCHANGED <<reviewed, info, method, selling, purpose>>

UpdateContractCommissionData(splits) ==
    /\ phase = "FINALIZED"
    /\ IF AcceptsSplits(Row(Bare), splits)
       THEN /\ commission' = splits
            /\ Ends("commission", "admin", "done")
       ELSE /\ Ends("commission", "admin", "refused")
            /\ UNCHANGED commission
    /\ UNCHANGED <<phase, reviewed, info, method, selling, purpose>>

DeleteContractCommissionData ==
    /\ phase = "FINALIZED"
    /\ commission' = "none"
    /\ Ends("commission", "admin", "done")
    /\ UNCHANGED <<phase, reviewed, info, method, selling, purpose>>

-----------------------------------------------------------------------------
(* The stages, by ContractReview and ContractOps.                          *)

\* Faulty variant: a step back to the draft leaves the way of signing.
GoBackKeepingMethod ==
    /\ phase = "AWAITING_SIGNATURES"
    /\ phase' = "IN_DRAFT"
    /\ Ends("back", "admin", "done")
    /\ UNCHANGED <<reviewed, info, method, selling, commission, purpose>>

\* The step back forgets the way of signing.
GoBack ==
    /\ \/ phase = "AWAITING_SIGNATURES" /\ phase' = "IN_DRAFT" /\ UNCHANGED reviewed
       \/ phase = "IN_DRAFT" /\ phase' = "AWAITING_DOCS"
          /\ reviewed' = [s \in Parties |-> "PENDING"]
    /\ method' = "none"
    /\ Ends("back", "admin", "done")
    /\ UNCHANGED <<info, selling, commission, purpose>>

\* So does a restart, which keeps the commission of the contract undone.
ReopenFinalized ==
    /\ phase = "FINALIZED"
    /\ phase' = "AWAITING_DOCS"
    /\ reviewed' = [s \in Parties |-> "PENDING"]
    /\ method' = "none"
    /\ Ends("reopen", "admin", "done")
    /\ UNCHANGED <<info, selling, commission, purpose>>

Review(a) ==
    /\ phase = "AWAITING_DOCS"
    /\ reviewed' = a
    /\ phase' = IF \A s \in Parties : a[s] \in Closed THEN "IN_DRAFT" ELSE phase
    /\ Ends("review", "admin", "done")
    /\ UNCHANGED <<info, method, selling, commission, purpose>>

SendDraft ==
    /\ phase = "IN_DRAFT"
    /\ phase' = "AWAITING_SIGNATURES"
    /\ Ends("draft", "admin", "done")
    /\ UNCHANGED <<reviewed, info, method, selling, commission, purpose>>

-----------------------------------------------------------------------------
PartyInit ==
    /\ phase = "AWAITING_DOCS"
    /\ reviewed = [s \in Parties |-> "PENDING"]
    /\ info = [s \in Parties |-> Nobody]
    /\ method = "none"
    /\ selling \in {Nobody, "captor"}
    /\ commission = "none"
    /\ purpose \in {"sale", "rent"}
    /\ last = [what |-> "none", sides |-> {}, who |-> Nobody, outcome |-> "done"]

PartyNext ==
    \/ \E who \in People, S \in (SUBSET Parties) \ {{}} : UpdateContractData(who, S)
    \/ \E who \in People :
          \/ SetContractSignatureMethod(who)
          \/ UploadSignedContract(who)
          \/ UpdateOperationalResponsible(who)
    \/ \E splits \in Splits : Finalize(splits) \/ UpdateContractCommissionData(splits)
    \/ DeleteContractCommissionData
    \/ UploadSignedDocs
    \/ \E a \in [Parties -> Statuses] : Review(a)
    \/ SendDraft \/ GoBack \/ ReopenFinalized

PartySpec == PartyInit /\ [][PartyNext]_partyVars

-----------------------------------------------------------------------------
(* Properties.                                                             *)

\* A way of signing belongs to a contract being signed or signed: whichever
\* way a contract goes back, it is chosen again (the two routines that reset
\* the workflow metadata).
MethodBelongsToSigning == method # "none" => phase \in {"AWAITING_SIGNATURES", "FINALIZED"}

\* The splits of a finalized sale add up to its value, at its finalization and
\* however they are changed later.
SaleIsFullySplit == phase = "FINALIZED" /\ purpose = "sale" => commission # "partial"

\* Both, of every contract.
PartiesHold == MethodBelongsToSigning /\ SaleIsFullySplit

\* The owner and the buyer give their own data while their side is open
\* (updateContractData).
PartiesGiveTheirData ==
    last.what = "data" /\ last.outcome = "refused" =>
        /\ last.who = "owner" /\ last.sides = {"seller"} => reviewed["seller"] \in Closed
        /\ last.who = "buyer" /\ last.sides = {"buyer"} => reviewed["buyer"] \in Closed

\* The capturing broker may declare that the contract is signed in person
\* (setContractSignatureMethod).
CaptorDeclaresMethod == last.what = "method" /\ last.outcome = "refused" => last.who # "captor"

\* The capturing broker adjusts the operational responsible
\* (updateContractOperationalResponsible).
CaptorAdjustsResponsible ==
    last.what = "responsible" /\ last.outcome = "refused" => last.who # "captor"

\* Splits are refused because a sale must add up, never in a rental
\* (updateContractCommissionData).
OnlySalesMustAddUp == last.what = "commission" /\ last.outcome = "refused" => purpose = "sale"
=============================================================================
