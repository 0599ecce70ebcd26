----------------------------- MODULE PropertyOps -----------------------------
(***************************************************************************)
(* The operations on a listing outside a negotiation.  The administrator's *)
(* are one UPDATE, or one transaction under a row lock.  The broker's read *)
(* the row, decide, and write it later with no lock in between: Begin...   *)
(* adds the decided write to `pending`, CompleteWrite makes it.            *)
(***************************************************************************)
EXTENDS DealState

\* approveProperty: unconditional.
ApproveProperty(p) ==
    /\ property' = [property EXCEPT ![p] = OnSale]
    /\ UNCHANGED <<negotiationVars, contractVars, pending>>

RejectProperty(p) ==
    /\ property' = [property EXCEPT ![p] = Columns("rejected", "HIDDEN", @.lifecycle)]
    /\ UNCHANGED <<negotiationVars, contractVars, pending>>

\* The administrator sets the status column alone; "rejected" is refused
\* because it comes without a reason.
UpdatePropertyStatus(p, status) ==
    /\ status \in {"pending_approval", "approved", "rented", "sold"}
    /\ property' = [property EXCEPT ![p] = Columns(status, @.visibility, @.lifecycle)]
    /\ UNCHANGED <<negotiationVars, contractVars, pending>>

\* relistProperty: a closed listing is approved again; visibility and
\* lifecycle_status keep the values the deal left.
RelistProperty(p) ==
    /\ property[p].status \in {"sold", "rented"}
    /\ property' = [property EXCEPT ![p] = Columns("approved", @.visibility, @.lifecycle)]
    /\ UNCHANGED <<negotiationVars, contractVars, pending>>

\* deleteProperty keeps the row, as sold and hidden.
DeleteProperty(p) ==
    /\ property' = [property EXCEPT ![p] = Columns("sold", "HIDDEN", "SOLD")]
    /\ UNCHANGED <<negotiationVars, contractVars, pending>>

\* An edit request of a rejected listing sends it back to review, under a lock.
SubmitEditRequest(p) ==
    /\ property[p].status = "rejected"
    /\ property' = [property EXCEPT ![p] =
          Columns("pending_approval", "HIDDEN", @.lifecycle)]
    /\ UNCHANGED <<negotiationVars, contractVars, pending>>

-----------------------------------------------------------------------------
Idle(r) == \A w \in pending : w.by # r

Decide(r, handler, p, status, hide) ==
    /\ Idle(r)
    /\ pending' = pending \cup
          {[by |-> r, handler |-> handler, property |-> p, status |-> status, hide |-> hide]}
    /\ UNCHANGED <<property, negotiationVars, contractVars>>

BeginResubmit(r, p) ==
    /\ property[p].status = "rejected"
    /\ Decide(r, "resubmit", p, "pending_approval", TRUE)

BeginCloseDeal(r, p, status) ==
    /\ status \in {"sold", "rented"}
    /\ property[p].status \notin {"pending_approval", "rejected"}
    /\ Decide(r, "close", p, status, FALSE)

BeginCancelDeal(r, p) ==
    /\ property[p].status \in {"sold", "rented"}
    /\ Decide(r, "cancel", p, "approved", FALSE)

\* updateProperty with a status in its body.  A rejected listing goes back to
\* review whatever the body says; another takes the status given.
BeginUpdateProperty(r, p, status) ==
    \/ /\ property[p].status = "rejected"
       /\ status = "pending_approval"
       /\ Decide(r, "edit", p, status, TRUE)
    \/ /\ property[p].status \notin {"rejected", "pending_approval"}
       /\ Decide(r, "edit", p, status, FALSE)

CompleteWrite(w) ==
    /\ pending' = pending \ {w}
    /\ property' = [property EXCEPT ![w.property] =
          Columns(w.status, IF w.hide THEN "HIDDEN" ELSE @.visibility, @.lifecycle)]
    /\ UNCHANGED <<negotiationVars, contractVars>>

PropertyNext ==
    \/ \E p \in Properties :
          \/ ApproveProperty(p)
          \/ RejectProperty(p)
          \/ RelistProperty(p)
          \/ DeleteProperty(p)
          \/ SubmitEditRequest(p)
          \/ \E status \in PropertyStatus \ {"negociacao"} : UpdatePropertyStatus(p, status)
    \/ \E r \in Requests, p \in Properties :
          \/ BeginResubmit(r, p)
          \/ BeginCancelDeal(r, p)
          \/ \E status \in PropertyStatus \ {"negociacao"} :
                \/ BeginCloseDeal(r, p, status)
                \/ BeginUpdateProperty(r, p, status)
    \/ \E w \in pending : CompleteWrite(w)
=============================================================================
