---------------------------- MODULE NegotiationOps ----------------------------
(***************************************************************************)
(* The transactions that create, decide and remove negotiations: the       *)
(* proposal wizard, the signed proposal, and the administrator's decisions.*)
(* Identity, payload and cooldown checks only ever refuse a request, so    *)
(* they are left out: every action may simply not happen.                  *)
(***************************************************************************)
EXTENDS DealState

OnProperty(p) == {n \in Negotiations : PropertyOf[n] = p}
Exists(n) == negotiation[n] # NONE
SignedProposal(n) == docs[n]["signed_proposal"] > 0

\* Statuses in which the proposer may still edit or delete the proposal.
PreSigned == {"PROPOSAL_SENT", "IN_NEGOTIATION"}

-----------------------------------------------------------------------------
\* Faulty variant: the listing's other negotiations are not looked at.
GenerateBesideOthers(n) ==
    /\ negotiation[n] = NONE
    /\ property[PropertyOf[n]].status = "approved"
    /\ negotiation' = [negotiation EXCEPT ![n] = "PROPOSAL_SENT"]
    /\ UNCHANGED <<property, contractVars, docs, pending>>

\* The wizard: the listing must be approved and free of active negotiations,
\* whoever made them.  The proposal's own PDF is counted by no guard.
GenerateProposal(n) ==
    /\ negotiation[n] = NONE
    /\ property[PropertyOf[n]].status = "approved"
    /\ \A m \in OnProperty(PropertyOf[n]) : negotiation[m] \notin Active
    /\ negotiation' = [negotiation EXCEPT ![n] = "PROPOSAL_SENT"]
    /\ UNCHANGED <<property, contractVars, docs, pending>>

\* Editing puts the proposal back to PROPOSAL_SENT, also when the negotiation
\* was already approved and has a contract.
UpdateProposal(n) ==
    /\ negotiation[n] \in PreSigned
    /\ ~SignedProposal(n)
    /\ property[PropertyOf[n]].status = "approved"
    /\ negotiation' = [negotiation EXCEPT ![n] = "PROPOSAL_SENT"]
    /\ UNCHANGED <<property, contractVars, docs, pending>>

\* The row goes, and with it (ON DELETE CASCADE) its contract and documents;
\* the listing is not touched.
DeleteMyProposal(n) ==
    /\ negotiation[n] \in PreSigned
    /\ ~SignedProposal(n)
    /\ negotiation' = [negotiation EXCEPT ![n] = NONE]
    /\ contract' = [contract EXCEPT ![n] = NONE]
    /\ approval' = [approval EXCEPT ![n] = NoApproval]
    /\ docs' = [docs EXCEPT ![n] = NoDocs]
    /\ UNCHANGED <<property, pending>>

-----------------------------------------------------------------------------
\* The proposer uploads the signed PDF, which puts the proposal under review.
UploadSignedProposal(n) ==
    /\ negotiation[n] \in {"PROPOSAL_SENT", "DOCUMENTATION_PHASE"}
    /\ ~SignedProposal(n)
    /\ docs' = [docs EXCEPT ![n]["signed_proposal"] = 1]
    /\ negotiation' = [negotiation EXCEPT ![n] = "DOCUMENTATION_PHASE"]
    /\ UNCHANGED <<property, contractVars, pending>>

\* An administrator uploads it, replacing the one there is; no status changes.
AdminUploadSignedProposal(n) ==
    /\ Exists(n)
    /\ negotiation[n] \notin Closed
    /\ docs' = [docs EXCEPT ![n]["signed_proposal"] = 1]
    /\ UNCHANGED <<property, negotiation, contractVars, pending>>

\* Faulty variant: nobody checks that there is one to remove.
AdminDeleteUnsigned(n) ==
    /\ Exists(n)
    /\ docs' = [docs EXCEPT ![n]["signed_proposal"] = @ - 1]
    /\ negotiation' = [negotiation EXCEPT ![n] =
          IF @ = "DOCUMENTATION_PHASE" THEN "PROPOSAL_SENT" ELSE @]
    /\ UNCHANGED <<property, contractVars, pending>>

\* An administrator removes it, in any status; a proposal under review waits
\* for a signature again.
AdminDeleteSignedProposal(n) ==
    /\ Exists(n)
    /\ SignedProposal(n)
    /\ docs' = [docs EXCEPT ![n]["signed_proposal"] = @ - 1]
    /\ negotiation' = [negotiation EXCEPT ![n] =
          IF @ = "DOCUMENTATION_PHASE" THEN "PROPOSAL_SENT" ELSE @]
    /\ UNCHANGED <<property, contractVars, pending>>

-----------------------------------------------------------------------------
\* What an approval refuses on the same listing.  A rival that is already
\* IN_NEGOTIATION is left alone.
Competing(n) ==
    {m \in OnProperty(PropertyOf[n]) \ {n} :
        negotiation[m] \in {"PROPOSAL_SENT", "DOCUMENTATION_PHASE"}}

\* Faulty variant: the contract is left for a later request.
ApproveWithoutContract(n) ==
    /\ Exists(n)
    /\ negotiation[n] \notin Closed
    /\ SignedProposal(n)
    /\ negotiation' = [m \in Negotiations |->
          IF m = n THEN "IN_NEGOTIATION"
          ELSE IF m \in Competing(n) THEN "REFUSED" ELSE negotiation[m]]
    /\ property' = [property EXCEPT ![PropertyOf[n]] = UnderNegotiation]
    /\ UNCHANGED <<contractVars, docs, pending>>

ApproveNegotiation(n) ==
    /\ Exists(n)
    /\ negotiation[n] \notin Closed
    /\ SignedProposal(n)
    /\ negotiation' = [m \in Negotiations |->
          IF m = n THEN "IN_NEGOTIATION"
          ELSE IF m \in Competing(n) THEN "REFUSED" ELSE negotiation[m]]
    /\ property' = [property EXCEPT ![PropertyOf[n]] = UnderNegotiation]
    /\ contract' = [contract EXCEPT ![n] = IF @ = NONE THEN "AWAITING_DOCS" ELSE @]
    /\ approval' = [approval EXCEPT ![n] = IF contract[n] = NONE THEN NoApproval ELSE @]
    /\ UNCHANGED <<docs, pending>>

\* Proposals still undecided on n's listing, n itself included, counted before
\* the rejection is written.
Undecided(n) ==
    {m \in OnProperty(PropertyOf[n]) :
        negotiation[m] \in {"PROPOSAL_SENT", "DOCUMENTATION_PHASE"}}

\* Faulty variant: a sold or rented negotiation may be rejected too.
RejectAnyNegotiation(n) ==
    /\ Exists(n)
    /\ negotiation' = [negotiation EXCEPT ![n] = "REFUSED"]
    /\ property' = [property EXCEPT ![PropertyOf[n]] =
          IF Cardinality(Undecided(n)) <= 1 THEN Relisted(@) ELSE @]
    /\ UNCHANGED <<contractVars, docs, pending>>

RejectNegotiation(n) ==
    /\ Exists(n)
    /\ negotiation[n] \notin Dealt
    /\ negotiation' = [negotiation EXCEPT ![n] = "REFUSED"]
    /\ property' = [property EXCEPT ![PropertyOf[n]] =
          IF Cardinality(Undecided(n)) <= 1 THEN Relisted(@) ELSE @]
    /\ UNCHANGED <<contractVars, docs, pending>>

\* Faulty variant: the listing's status is not checked.
CancelOnAnyListing(n) ==
    /\ negotiation[n] = "IN_NEGOTIATION"
    /\ negotiation' = [negotiation EXCEPT ![n] = "CANCELLED"]
    /\ property' = [property EXCEPT ![PropertyOf[n]] = Relisted(@)]
    /\ UNCHANGED <<contractVars, docs, pending>>

\* Only a negotiation in progress on a listing under negotiation; the contract
\* is left as it is.
CancelNegotiation(n) ==
    /\ negotiation[n] = "IN_NEGOTIATION"
    /\ property[PropertyOf[n]].status = "negociacao"
    /\ negotiation' = [negotiation EXCEPT ![n] = "CANCELLED"]
    /\ property' = [property EXCEPT ![PropertyOf[n]] = Relisted(@)]
    /\ UNCHANGED <<contractVars, docs, pending>>

NegotiationStep(n) ==
    \/ GenerateProposal(n)
    \/ UpdateProposal(n)
    \/ DeleteMyProposal(n)
    \/ UploadSignedProposal(n)
    \/ AdminUploadSignedProposal(n)
    \/ AdminDeleteSignedProposal(n)
    \/ ApproveNegotiation(n)
    \/ RejectNegotiation(n)
    \/ CancelNegotiation(n)

NegotiationNext == \E n \in Negotiations : NegotiationStep(n)
=============================================================================
