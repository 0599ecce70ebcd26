---------------------------- MODULE ContractStages ----------------------------
(***************************************************************************)
(* What the contract workflow promises of each contract, whatever routes,  *)
(* reviews and deletions it is made of: a contract moves one stage at a    *)
(* time, forward only with what the stage calls for, and going back        *)
(* discards what the stages undone had produced.                           *)
(***************************************************************************)
CONSTANTS
    Contracts,
    Draft,          \* the kind of document the signature stage starts from
    Evidence        \* the kinds the signature stage collects

VARIABLES
    stage,          \* contract -> its stage, "NONE" when there is no contract
    cleared,        \* the contracts both of whose approvals let them go on
    file            \* contract -> kinds of document on file

stageVars == <<stage, cleared, file>>

ContractPaper == {Draft} \cup Evidence

\* One step of contract c, to stage s with F on file.
Becomes(c, s, F) ==
    /\ stage' = [stage EXCEPT ![c] = s]
    /\ file' = [file EXCEPT ![c] = F]

Clears(c) == cleared' = cleared \cup {c}
Unclears(c) == cleared' = cleared \ {c}

NothingOnFile ==
    /\ stage = [c \in Contracts |-> "NONE"]
    /\ cleared = {}
    /\ file = [c \in Contracts |-> {}]

-----------------------------------------------------------------------------
Open(c) ==
    /\ stage[c] = "NONE"
    /\ Becomes(c, "AWAITING_DOCS", {})
    /\ Unclears(c)

Review(c) ==
    /\ stage[c] = "AWAITING_DOCS"
    /\ \/ Becomes(c, "AWAITING_DOCS", file[c]) /\ (Clears(c) \/ Unclears(c))
       \/ Becomes(c, "IN_DRAFT", file[c]) /\ Clears(c)

SendForSignature(c) ==
    /\ stage[c] = "IN_DRAFT"
    /\ Becomes(c, "AWAITING_SIGNATURES", file[c] \cup {Draft})
    /\ UNCHANGED cleared

CollectEvidence(c) ==
    /\ stage[c] = "AWAITING_SIGNATURES"
    /\ \E F \in SUBSET Evidence :
          Becomes(c, "AWAITING_SIGNATURES", (file[c] \ Evidence) \cup F)
    /\ UNCHANGED cleared

CloseDeal(c) ==
    /\ stage[c] = "AWAITING_SIGNATURES"
    /\ file[c] = ContractPaper
    /\ c \in cleared
    /\ Becomes(c, "FINALIZED", file[c])
    /\ UNCHANGED cleared

AmendClosed(c) ==
    /\ stage[c] = "FINALIZED"
    /\ \E F \in SUBSET ContractPaper : Becomes(c, "FINALIZED", F)
    /\ UNCHANGED cleared

StepBack(c) ==
    \/ /\ stage[c] = "AWAITING_SIGNATURES"
       /\ Becomes(c, "IN_DRAFT", file[c] \ Evidence)
       /\ UNCHANGED cleared
    \/ /\ stage[c] = "IN_DRAFT"
       /\ Becomes(c, "AWAITING_DOCS", {})
       /\ Unclears(c)

Reopen(c) ==
    /\ stage[c] = "FINALIZED"
    /\ Becomes(c, "AWAITING_DOCS", {})
    /\ Unclears(c)

Remove(c) ==
    /\ stage[c] # "NONE"
    /\ Becomes(c, "NONE", {})
    /\ Unclears(c)

StageStep(c) ==
    \/ Open(c) \/ Review(c) \/ SendForSignature(c) \/ CollectEvidence(c)
    \/ CloseDeal(c) \/ AmendClosed(c) \/ StepBack(c) \/ Reopen(c) \/ Remove(c)

StageSpec == NothingOnFile /\ [][\E c \in Contracts : StageStep(c)]_stageVars
=============================================================================
