------------------------------- MODULE MCDeals -------------------------------
\* Bounded instances of Deals for TLC.
EXTENDS Deals, TLC

CONSTANTS p1, n1, n2, r1

OneListing == {p1}
OneNegotiation == {n1}
TwoNegotiations == {n1, n2}
OneRequest == {r1}
AllOnOne == [n \in Negotiations |-> p1]

\* PENDING and REJECTED, and the two approvals, are alike to every guard but
\* the rejection's own, so one of each kind and REJECTED show all there is.
TwoDecisions == {"APPROVED", "REJECTED"}

\* Negotiations of one listing are interchangeable.
Interchangeable == Permutations(Negotiations)
=============================================================================
