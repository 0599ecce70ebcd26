----------------------------- MODULE MCContracts -----------------------------
(* The review of a contract's documents, and its parties.  A behaviour of     *)
(* this module is one of the component `focus` names; the other stays where   *)
(* it starts.                                                                 *)
EXTENDS ContractReview, ContractParties

VARIABLE focus

Kind(filed, type) == [filed |-> filed, type |-> type]

\* Two categories that every married party owes; what is filed under none goes
\* by its type to the second.
UploadedKinds ==
    {Kind("identidade", "cliente_cnh"), Kind("conjuge_documentos", "outro"), Kind("outro", "outro")}

\* Every route; and those of the review by category, with two documents of each
\* or with the verdict that a document does not apply.
ByCategoryRoutes == {"category", "admin", "party", "delete", "back"}

ReviewLoads ==
    {[routes |-> ByCategoryRoutes \cup {"side", "update"}, verdicts |-> ApprovalStatus, room |-> 1],
     [routes |-> ByCategoryRoutes, verdicts |-> {"APPROVED", "REJECTED"}, room |-> 2],
     [routes |-> ByCategoryRoutes, room |-> 1,
      verdicts |-> {"APPROVED", "APPROVED_WITH_RES", "REJECTED", "NOT_APPLICABLE"}]}

------------------------------------------------------------------------------
\* Where the component starts that a behaviour is not about.
ReviewAside == Init /\ "side" \in load.routes /\ \A s \in Sides : ~married[s]
PartiesAside == PartyInit /\ selling = "captor" /\ purpose = "sale"

Start ==
    \/ focus = "review" /\ Init /\ PartiesAside
    \/ focus = "parties" /\ PartyInit /\ ReviewAside

ReviewStep == focus = "review" /\ Next /\ UNCHANGED <<focus, partyVars>>
PartiesStep == focus = "parties" /\ PartyNext /\ UNCHANGED <<focus, vars>>

ContractsSpec == Start /\ [][ReviewStep \/ PartiesStep]_<<focus, vars, partyVars>>
==============================================================================
