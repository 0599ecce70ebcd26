-------------------------------- MODULE Deals --------------------------------
(***************************************************************************)
(* The whole life of a deal: proposals, decisions, the contract and the    *)
(* listing, changed by services that share tables and nothing else.        *)
(***************************************************************************)
EXTENDS NegotiationOps, ContractOps, PropertyOps

\* A listing is created public (the column's default) and waits for review;
\* an administrator may create it in any status but under negotiation.
Init ==
    /\ property \in [Properties -> [status : PropertyStatus \ {"negociacao"},
                                    visibility : {"PUBLIC"}, lifecycle : {"AVAILABLE"}]]
    /\ negotiation = [n \in Negotiations |-> NONE]
    /\ contract = [n \in Negotiations |-> NONE]
    /\ approval = [n \in Negotiations |-> NoApproval]
    /\ docs = [n \in Negotiations |-> NoDocs]
    /\ pending = {}

Next == NegotiationNext \/ ContractNext \/ PropertyNext

Spec == Init /\ [][Next]_vars

-----------------------------------------------------------------------------
(* State invariants.                                                       *)

\* A contract past the document stage has both sides approved: no evaluation,
\* category recount or step back leaves it ahead of its approvals
\* (shouldMoveToDraft, transitionContractStatus, reopenFinalized).
ApprovalsBehindStage ==
    \A n \in Negotiations :
        contract[n] \in {"IN_DRAFT", "AWAITING_SIGNATURES", "FINALIZED"}
            => BothGrantProgress(approval[n])

\* A contract out for signature has its draft.  Nothing but the approvals
\* keeps deleteContractDocument from removing it.
DraftBehindSignatures ==
    \A n \in Negotiations :
        contract[n] = "AWAITING_SIGNATURES" => docs[n]["contrato_minuta"] > 0

\* No signed contract or payment proof survives from an earlier round: before
\* the signature stage there is none, so the gate of `finalize` counts only
\* what was sent for the draft at hand.  Likewise no draft survives a return to
\* the document stage, and no document outlives its contract.
NoStaleEvidence ==
    \A n \in Negotiations :
        /\ contract[n] \notin {"AWAITING_SIGNATURES", "FINALIZED"}
              => \A k \in SignedEvidence : docs[n][k] = 0
        /\ contract[n] \in {NONE, "AWAITING_DOCS"} => docs[n]["contrato_minuta"] = 0

\* A finalized contract belongs to a negotiation recorded as sold or rented:
\* no proposal handler or decision takes the negotiation away from under it.
FinalizedIsDealt ==
    \A n \in Negotiations : contract[n] = "FINALIZED" => negotiation[n] \in Dealt

\* A negotiation in progress has its contract, although five handlers write
\* that status or delete the contract and only one of them looks.
InProgressHasContract ==
    \A n \in Negotiations : negotiation[n] = "IN_NEGOTIATION" => contract[n] # NONE

\* Per listing at most one active negotiation has no contract yet: proposals
\* never compete before one of them was approved.
AtMostOneOpenProposal ==
    \A m, n \in Negotiations :
        /\ m # n
        /\ PropertyOf[m] = PropertyOf[n]
        /\ negotiation[m] \in Active /\ contract[m] = NONE
        /\ negotiation[n] \in Active
        => contract[n] # NONE

\* A listing under negotiation is hidden and not dealt; the guard of the
\* decisions that give it back relies on it.
UnderNegotiationIsHeld ==
    \A p \in Properties :
        property[p].status = "negociacao" => property[p] = UnderNegotiation

-----------------------------------------------------------------------------
(* Action properties.                                                      *)

\* A contract is finalized with a draft, a signed contract, a payment proof
\* and both approvals, and by no other road (transitionContractStatus refuses
\* that stage).
FinalizationIsComplete ==
    [][\A n \in Negotiations :
          contract[n] # "FINALIZED" /\ contract'[n] = "FINALIZED"
          => /\ contract[n] = "AWAITING_SIGNATURES"
             /\ \A k \in ContractDocs : docs[n][k] > 0
             /\ BothGrantProgress(approval[n])]_vars

\* A cancellation always gives the listing back: approved, public, available
\* (the guard on SOLD/RENTED in cancelNegotiation never swallows the update).
CancellationRelists ==
    [][\A n \in Negotiations :
          negotiation[n] = "IN_NEGOTIATION" /\ negotiation'[n] = "CANCELLED"
          => property'[PropertyOf[n]] = OnSale]_vars

\* A closed listing returns to sale only by an operation on the listing:
\* refusing, cancelling or rejecting documents never reverts a sale.
DecisionsKeepSales ==
    [][\A p \in Properties :
          IsDealt(property[p]) /\ property[p].status # "approved"
              /\ property'[p].status = "approved"
          => UNCHANGED <<negotiation, contract, approval>>]_vars

\* A negotiation recorded as sold or rented stays so while its contract is
\* finalized; only reopening it takes it back, and then the listing is held.
DealtIsKept ==
    [][\A n \in Negotiations :
          contract[n] = "FINALIZED" /\ negotiation'[n] # negotiation[n]
          => /\ negotiation'[n] = "IN_NEGOTIATION"
             /\ contract'[n] = "AWAITING_DOCS"
             /\ property'[PropertyOf[n]] = UnderNegotiation]_vars

-----------------------------------------------------------------------------
(* Statements of the code's own messages that the code does not keep.      *)

\* "Nao e possivel aprovar uma negociacao encerrada": a negotiation that was
\* cancelled or refused is never in progress again, nor sold.
RefusedStaysRefused ==
    [][\A n \in Negotiations :
          negotiation[n] \in Refused => negotiation'[n] \in Refused]_vars

\* "A negociacao precisa estar aprovada antes da criacao do contrato".
ContractFollowsApproval ==
    \A n \in Negotiations : contract[n] # NONE => negotiation[n] # "DOCUMENTATION_PHASE"

\* "Imovel disponibilizado novamente com sucesso": a listing made available
\* again, alone on its own, is found by the public searches.
RelistedIsShown ==
    [][\A p \in Properties : RelistProperty(p) => InShowcase(p)']_vars

\* "foi aprovado e ja esta disponivel no app": so is one whose status the
\* administrator sets to approved.
StatusApprovalIsShown ==
    [][\A p \in Properties :
          UpdatePropertyStatus(p, "approved") /\ UNCHANGED negotiation
              /\ (\A n \in OnProperty(p) : negotiation[n] = NONE)
          => InShowcase(p)']_vars

\* "Imoveis pendentes nao podem ser editados ate o fim da analise".
PendingIsNotEdited ==
    [][\A w \in pending :
          w.handler = "edit" /\ CompleteWrite(w)
          => property[w.property].status # "pending_approval"]_vars

\* "Somente imoveis rejeitados podem ser reenviados desta forma".
OnlyRejectedIsResubmitted ==
    [][\A w \in pending :
          w.handler = "resubmit" /\ CompleteWrite(w)
          => property[w.property].status = "rejected"]_vars

-----------------------------------------------------------------------------
(* The contract workflow as its abstract specification sees it.            *)

\* The kinds of paper among the documents d of a contract, and the contracts
\* that both approvals let go on.
OnFile(d) == {k \in ContractDocs : d[k] > 0}
ClearedSet == {n \in Negotiations : BothGrantProgress(approval[n])}

ContractWorkflow == INSTANCE ContractStages WITH
    Contracts <- Negotiations,
    Draft <- "contrato_minuta",
    Evidence <- SignedEvidence,
    stage <- contract,
    cleared <- ClearedSet,
    file <- [n \in Negotiations |-> OnFile(docs[n])]

\* Negotiation decisions, reviews, uploads, deletions and administrative
\* operations together keep to the stages a contract goes through.
KeepsContractStages == ContractWorkflow!StageSpec
=============================================================================
