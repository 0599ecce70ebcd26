----------------------------- MODULE MCProposals -----------------------------
(* The submission of proposals, by two people with a key each in two requests *)
(* that overlap, and the upload of a signed proposal.  A behaviour of this    *)
(* module is one of the component `focus` names; the other stays where it     *)
(* starts.                                                                    *)
EXTENDS ProposalSubmission, SignedProposal, TLC

VARIABLE focus

\* Whose key it is.
PersonOf(k) == IF k = "b1" THEN "b" ELSE "a"

\* Requests differ in nothing, nor do uploads.
Interchangeable == Permutations(Requests) \cup Permutations(Uploads)

Start == focus \in {"signed", "submission"} /\ SignedInit /\ Init

SignedStep == focus = "signed" /\ SignedNext /\ UNCHANGED <<focus, vars>>
SubmissionStep == focus = "submission" /\ Next /\ UNCHANGED <<focus, signedVars>>

ProposalsSpec == Start /\ [][SignedStep \/ SubmissionStep]_<<focus, vars, signedVars>>
=============================================================================
