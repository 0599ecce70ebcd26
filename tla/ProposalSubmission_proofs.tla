---------------------- MODULE ProposalSubmission_proofs ----------------------
(***************************************************************************)
(* One open proposal per listing, keys that name the proposals made with   *)
(* them, and retries that meet no conflict of their own making: for any    *)
(* number of requests, keys and proposals.  The argument is that of the    *)
(* locks: whoever has found no active negotiation holds the listing, which *)
(* all that make one active take, and whoever has inserted a key holds the *)
(* key, until it commits.                                                  *)
(***************************************************************************)
EXTENDS ProposalSubmission, SignedProposal, FiniteSetTheorems, TLAPS

Holding == {"inserted", "listing", "checked", "generated"}

\* Requests that will store a PDF, and those that will make a proposal.
Submitting == Running \cup {r \in Requests : At(r, {"generated"})}

\* A lock has one holder.
LocksAreExclusive ==
    /\ \A r, o \in Requests : HoldsListing(r) /\ HoldsListing(o) => r = o
    /\ \A r, o \in Requests :
          At(r, Holding) /\ At(o, Holding) /\ request[r].key = request[o].key => r = o
    /\ \A r, o \in Requests :
          At(r, {"editing", "edited"}) /\ At(o, {"editing", "edited"})
            /\ request[r].on = request[o].on => r = o

\* What a request has found stays so while it holds the locks.
FindingsStand ==
    /\ \A r \in Requests : At(r, {"checked", "generated"}) => Active = {}
    /\ \A r \in Requests : At(r, Holding) => key[request[r].key].state = "none"
    /\ \A r \in Requests : At(r, {"editing", "edited"}) => request[r].on \in Active
    /\ \A r \in Requests : At(r, {"generated"}) => request[r].upload \in 1 .. uploads

\* Keys and proposals name each other, and one of these is open at most.
KeysAndProposals == (\A m, n \in Open : m = n) /\ KeysNameProposals

\* The numbers of proposals and of PDFs suffice for those that run, and those
\* not reached are not used.
RoomIsKept ==
    /\ IsFiniteSet(Running) /\ IsFiniteSet(Submitting)
    /\ made + Cardinality(Submitting) <= MaxProposals
    /\ uploads + Cardinality(Running) <= MaxDocuments
    /\ \A d \in Documents : d > uploads => document[d] = [state |-> "none", of |-> 0]
    /\ \A n \in Proposals : n > made => proposal[n].status = "none"

SubmissionInv ==
    TypeOK /\ LocksAreExclusive /\ FindingsStand /\ KeysAndProposals /\ RoomIsKept
-----------------------------------------------------------------------------
\* Whoever runs nothing, and a negotiation that is not there, have their types.
LEMMA NothingTyped ==
  /\ Idle \in Request /\ Idle.phase = "idle" /\ Idle.key \in Keys
  /\ \A s \in {"none", "deleted"} : NoProposal(s) \in Proposal /\ NoProposal(s).status = s
<1>1. Idle.key \in Keys
  BY SubmissionConstants DEF Idle
<1>2. Idle \in Request /\ Idle.phase = "idle"
  BY <1>1, SubmissionConstants DEF Idle, Request, Phase
<1>3. Sent(Idle.key) \in Proposal
  BY <1>1 DEF Sent, Proposal, ActiveStatus
<1>4. \A s \in {"none", "deleted"} : NoProposal(s) \in Proposal /\ NoProposal(s).status = s
  BY <1>3 DEF NoProposal, Proposal
<1> QED BY <1>1, <1>2, <1>4

\* Nothing runs and nothing is there at first.
LEMMA InitSubmission == Init => SubmissionInv
<1> SUFFICES ASSUME Init PROVE SubmissionInv
  OBVIOUS
<1>2. TypeOK
  BY NothingTyped, SubmissionConstants DEF Init, TypeOK, Document, KeyRow, Answer
<1>3. /\ Active = {} /\ Existing = {}
      /\ \A r \in Requests, S \in SUBSET (Phase \ {"idle"}) : ~At(r, S)
  BY NothingTyped DEF Init, Active, ActiveStatus, Existing, At
<1>4. Running = {} /\ Submitting = {}
  BY <1>3 DEF Running, Submitting, Phase
<1>5. RoomIsKept
  BY <1>4, NothingTyped, FS_EmptySet, SubmissionConstants DEF Init, RoomIsKept, Documents
<1>6. LocksAreExclusive /\ FindingsStand
  BY <1>3 DEF LocksAreExclusive, FindingsStand, HoldsListing, Holding, Phase
<1>7. KeysAndProposals
  BY <1>3 DEF Init, KeysAndProposals, KeysNameProposals, NoKeyRow, Open, Kept
<1> QED BY <1>2, <1>5, <1>6, <1>7 DEF SubmissionInv

\* A set of requests that grows by one, stays or shrinks.
LEMMA OneMoreOrLess ==
  ASSUME NEW S, IsFiniteSet(S), NEW T, NEW r, T \subseteq S \cup {r}
  PROVE  /\ IsFiniteSet(T) /\ Cardinality(T) \in Nat /\ Cardinality(S) \in Nat
         /\ Cardinality(T) <= Cardinality(S) + 1
         /\ T \subseteq S => Cardinality(T) <= Cardinality(S)
         /\ T \subseteq S \ {r} /\ r \in S => Cardinality(T) <= Cardinality(S) - 1
<1>1. IsFiniteSet(S \cup {r}) /\ Cardinality(S \cup {r}) <= Cardinality(S) + 1
  <2>1. Cardinality(S) \in Nat
    BY FS_CardinalityType
  <2>2. IsFiniteSet(S \cup {r}) /\ Cardinality(S \cup {r}) = IF r \in S THEN Cardinality(S) ELSE Cardinality(S) + 1
    BY FS_AddElement
  <2> QED BY <2>1, <2>2
<1>2. IsFiniteSet(S \ {r}) /\ (r \in S => Cardinality(S \ {r}) = Cardinality(S) - 1)
  BY FS_RemoveElement
<1>3. IsFiniteSet(T) /\ Cardinality(T) <= Cardinality(S \cup {r})
  BY <1>1, FS_Subset
<1>4. Cardinality(T) \in Nat /\ Cardinality(S) \in Nat /\ Cardinality(S \cup {r}) \in Nat
  BY <1>1, <1>3, FS_CardinalityType
<1>5. T \subseteq S => Cardinality(T) <= Cardinality(S)
  BY FS_Subset
<1>6. T \subseteq S \ {r} => Cardinality(T) <= Cardinality(S \ {r})
  BY <1>2, FS_Subset
<1> QED BY <1>1, <1>2, <1>3, <1>4, <1>5, <1>6

\* What a request does to itself, and to the status of an active proposal, keeps
\* the invariant, if it takes only locks that are free and has found what its new
\* place says.
LEMMA MoveAndSave ==
  ASSUME SubmissionInv, NEW r \in Requests, NEW q \in Request,
         request' = [request EXCEPT ![r] = q],
         UNCHANGED <<approved, made, document, uploads, key>>,
         told' \in [Requests -> Answer], faults' \in 0 .. MaxFaults,
         proposal' \in [Proposals -> Proposal],
         Active' = Active, Open' = Open, Kept' = Kept,
         \A n \in Proposals : /\ proposal'[n].key = proposal[n].key
                              /\ proposal[n].status = "none" => proposal'[n].status = "none",
         q.phase \in {"listing", "checked", "edited"} => ListingIsFree(r),
         q.phase \in Holding => KeyIsFree(r, q.key) /\ key[q.key].state = "none",
         q.phase \in {"editing", "edited"} => q.on \in Active /\ ProposalIsFree(r, q.on),
         q.phase = "checked" => Active = {},
         q.phase # "generated",
         q.phase \in {"keyed", "inserted", "listing", "checked"} => r \in Running \/ Room
  PROVE  SubmissionInv'
<1>1. /\ request' \in [Requests -> Request] /\ request'[r] = q
      /\ \A o \in Requests \ {r} : request'[o] = request[o]
  BY DEF SubmissionInv, TypeOK
<1>2. TypeOK'
  BY <1>1 DEF SubmissionInv, TypeOK
<1>4. RoomIsKept'
  <2> DEFINE more == q.phase \in {"keyed", "inserted", "listing", "checked"}
  <2>1. Running' \subseteq Running \cup {r} /\ Submitting' \subseteq Submitting \cup {r}
    BY <1>1 DEF Running, Submitting, At
  <2>2. ~more \/ r \in Running => Running' \subseteq Running /\ Submitting' \subseteq Submitting
    BY <1>1 DEF Running, Submitting, At
  <2>3. IsFiniteSet(Running') /\ IsFiniteSet(Submitting')
    BY <2>1, OneMoreOrLess DEF SubmissionInv, RoomIsKept
  <2>4. /\ Cardinality(Running) \in Nat /\ Cardinality(Running') \in Nat
        /\ Cardinality(Running') <= Cardinality(Running) + 1
        /\ ~more \/ r \in Running => Cardinality(Running') <= Cardinality(Running)
    BY <2>1, <2>2, OneMoreOrLess DEF SubmissionInv, RoomIsKept
  <2>5. /\ Cardinality(Submitting) \in Nat /\ Cardinality(Submitting') \in Nat
        /\ Cardinality(Submitting') <= Cardinality(Submitting) + 1
        /\ ~more \/ r \in Running => Cardinality(Submitting') <= Cardinality(Submitting)
    BY <2>1, <2>2, OneMoreOrLess DEF SubmissionInv, RoomIsKept
  <2>6. /\ made + Cardinality(Submitting) <= MaxProposals
        /\ uploads + Cardinality(Running) <= MaxDocuments
        /\ Room => /\ made + Cardinality(Submitting) < MaxProposals
                   /\ uploads + Cardinality(Running) < MaxDocuments
    BY DEF SubmissionInv, RoomIsKept, Room, Submitting
  <2>7. /\ made + Cardinality(Submitting') <= MaxProposals
        /\ uploads + Cardinality(Running') <= MaxDocuments
    BY <2>4, <2>5, <2>6, SubmissionConstants DEF SubmissionInv, TypeOK
  <2>8. \A n \in Proposals : n > made' => proposal'[n].status = "none"
    BY DEF SubmissionInv, RoomIsKept
  <2> QED BY <2>3, <2>7, <2>8 DEF SubmissionInv, RoomIsKept
<1>5. LocksAreExclusive'
  BY <1>1 DEF SubmissionInv, LocksAreExclusive, HoldsListing, HoldsProposal, HoldsKey, At, Holding,
     ListingIsFree, KeyIsFree, ProposalIsFree, FindingsStand
<1>6. FindingsStand'
  BY <1>1 DEF SubmissionInv, FindingsStand, At, Holding
<1>7. KeysAndProposals'
  <2>1. \A n \in Kept : n \in Proposals
    BY DEF Kept, Existing
  <2> QED BY <2>1 DEF SubmissionInv, KeysAndProposals, KeysNameProposals
<1> QED BY <1>2, <1>4, <1>5, <1>6, <1>7 DEF SubmissionInv

\* The same of one that changes nothing else.
LEMMA MoveKeeps ==
  ASSUME SubmissionInv, NEW r \in Requests, NEW q \in Request,
         request' = [request EXCEPT ![r] = q],
         UNCHANGED <<approved, proposal, made, document, uploads, key>>,
         told' \in [Requests -> Answer], faults' \in 0 .. MaxFaults,
         q.phase \in {"listing", "checked", "edited"} => ListingIsFree(r),
         q.phase \in Holding => KeyIsFree(r, q.key) /\ key[q.key].state = "none",
         q.phase \in {"editing", "edited"} => q.on \in Active /\ ProposalIsFree(r, q.on),
         q.phase = "checked" => Active = {},
         q.phase # "generated",
         q.phase \in {"keyed", "inserted", "listing", "checked"} => r \in Running \/ Room
  PROVE  SubmissionInv'
<1>1. Active' = Active /\ Open' = Open /\ Kept' = Kept
  BY DEF Active, Open, Kept, Existing
<1>2. proposal' \in [Proposals -> Proposal]
  BY DEF SubmissionInv, TypeOK
<1> QED BY <1>1, <1>2, MoveAndSave

\* What the request-only steps do.
LEMMA RequestSteps ==
  ASSUME SubmissionInv, NEW r \in Requests,
         \/ \E k \in Keys : Submit(r, k)
         \/ \E n \in Proposals : LockProposal(r, n)
         \/ InsertKey(r) \/ LockListing(r) \/ RefuseData(r) \/ CheckActive(r) \/ EditProposal(r)
         \/ PdfFails(r) \/ StatementFails(r)
  PROVE  SubmissionInv'
<1> USE SubmissionConstants DEF SubmissionInv, TypeOK, Holding
<1>1. request[r] \in Request /\ Idle \in Request /\ Idle.phase = "idle"
  BY NothingTyped
<1>2. ASSUME NEW answer \in Answer, Finish(r, answer), faults' \in 0 .. MaxFaults,
             UNCHANGED <<approved, proposal, made, document, uploads, key>>
      PROVE  SubmissionInv'
  <2>1. request' = [request EXCEPT ![r] = Idle] /\ told' \in [Requests -> Answer]
    BY <1>2 DEF Finish
  <2> QED BY <1>1, <1>2, <2>1, MoveKeeps
<1>3. ASSUME NEW answer \in Answer, Refuse(r, answer) PROVE SubmissionInv'
  BY <1>2, <1>3 DEF Refuse
<1>4. ASSUME NEW k \in Keys, Submit(r, k) PROVE SubmissionInv'
  <2> DEFINE q == [Idle EXCEPT !.phase = "keyed", !.key = k]
  <2>1. CASE key[k].state = "none"
    <3>1. q \in Request /\ q.phase = "keyed"
      BY <1>1 DEF Request, Phase
    <3>2. request' = [request EXCEPT ![r] = q] /\ told' \in [Requests -> Answer] /\ Room
      BY <1>4, <2>1 DEF Submit, Begin, Answer
    <3> HIDE DEF q
    <3> QED BY <3>1, <3>2, <1>4, MoveKeeps DEF Submit
  <2>2. CASE key[k].state # "none"
    <3>1. request[r].phase = "idle" /\ request' = [request EXCEPT ![r] = request[r]]
      BY <1>4, <2>2 DEF Submit, At
    <3>2. told' \in [Requests -> Answer]
      BY <1>4, <2>2 DEF Submit, Answer
    <3> QED BY <1>1, <3>1, <3>2, <1>4, MoveKeeps DEF Submit
  <2> QED BY <2>1, <2>2
<1>5. ASSUME NEW n \in Proposals, LockProposal(r, n) PROVE SubmissionInv'
  <2> DEFINE q == [Idle EXCEPT !.phase = "editing", !.on = n]
  <2>1. q \in Request /\ q.phase = "editing" /\ q.on = n
    <3>1. n \in 0 .. MaxProposals /\ "editing" \in Phase
      BY DEF Proposals, Phase
    <3>2. \A m \in 0 .. MaxProposals, p \in Phase :
            /\ [Idle EXCEPT !.phase = p, !.on = m] \in Request
            /\ [Idle EXCEPT !.phase = p, !.on = m].phase = p
            /\ [Idle EXCEPT !.phase = p, !.on = m].on = m
      BY <1>1 DEF Request
    <3> QED BY <3>1, <3>2
  <2>2. n \in Active
    BY <1>5 DEF LockProposal, PreSigned, Active, ActiveStatus
  <2>3. request' = [request EXCEPT ![r] = q] /\ told' \in [Requests -> Answer]
    BY <1>5 DEF LockProposal, Answer
  <2> HIDE DEF q
  <2> QED BY <2>1, <2>2, <2>3, <1>5, MoveKeeps DEF LockProposal
<1>6. ASSUME NEW phase \in {"inserted", "listing", "checked", "edited"}, Go(r, phase),
             UNCHANGED <<approved, proposal, made, document, uploads, key, told, faults>>,
             phase \in {"listing", "edited"} => ListingIsFree(r),
             phase = "inserted" =>
               At(r, {"keyed"}) /\ KeyIsFree(r, request[r].key) /\ key[request[r].key].state = "none",
             phase = "listing" => At(r, {"inserted"}),
             phase = "checked" => At(r, {"listing"}) /\ Active = {},
             phase = "edited" => At(r, {"editing"})
      PROVE  SubmissionInv'
  <2> DEFINE q == [request[r] EXCEPT !.phase = phase]
  <2>1. q \in Request /\ q.phase = phase /\ q.key = request[r].key /\ q.on = request[r].on
    BY <1>1 DEF Request, Phase
  <2>2. request' = [request EXCEPT ![r] = q]
    BY <1>6 DEF Go
  <2> HIDE DEF q
  <2>3. phase \in {"listing", "checked", "edited"} => ListingIsFree(r)
    BY <1>6 DEF ListingIsFree, LocksAreExclusive, HoldsListing, At
  <2>4. phase \in Holding => KeyIsFree(r, q.key) /\ key[q.key].state = "none"
    BY <1>6, <2>1 DEF KeyIsFree, LocksAreExclusive, HoldsKey, At, FindingsStand
  <2>5. phase = "edited" => q.on \in Active /\ ProposalIsFree(r, q.on)
    BY <1>6, <2>1 DEF ProposalIsFree, LocksAreExclusive, HoldsProposal, At, FindingsStand
  <2>6. phase \in {"inserted", "listing", "checked"} => r \in Running
    BY <1>6 DEF Running, At
  <2> QED BY <1>6, <2>1, <2>2, <2>3, <2>4, <2>5, <2>6, MoveKeeps
<1>7. CASE InsertKey(r)
  BY <1>3, <1>6, <1>7 DEF InsertKey, Answer
<1>8. CASE LockListing(r)
  BY <1>3, <1>6, <1>8 DEF LockListing, Answer
<1>9. CASE RefuseData(r)
  BY <1>3, <1>9 DEF RefuseData, Answer
<1>10. CASE CheckActive(r)
  BY <1>3, <1>6, <1>10 DEF CheckActive, Answer
<1>11. CASE EditProposal(r)
  BY <1>3, <1>6, <1>11 DEF EditProposal, Answer
<1>12. CASE PdfFails(r)
  BY <1>2, <1>12 DEF PdfFails, Answer
<1>13. CASE StatementFails(r)
  BY <1>2, <1>13 DEF StatementFails, Answer
<1> QED BY <1>4, <1>5, <1>7, <1>8, <1>9, <1>10, <1>11, <1>12, <1>13

\* The PDF is stored and belongs to no negotiation yet.
LEMMA GenerateKeeps ==
  ASSUME SubmissionInv, NEW r \in Requests, Generate(r)
  PROVE  SubmissionInv'
<1> USE SubmissionConstants DEF SubmissionInv, Generate
<1> DEFINE q == [phase |-> "generated", key |-> request[r].key, on |-> 0, upload |-> uploads + 1]
<1>1. r \in Running /\ r \in Submitting
  BY DEF Running, Submitting, At
<1>2. /\ IsFiniteSet(Running) /\ Cardinality(Running) \in Nat
      /\ IsFiniteSet(Running \ {r}) /\ Cardinality(Running \ {r}) = Cardinality(Running) - 1
      /\ Cardinality(Running \ {r}) \in Nat
  BY <1>1, FS_RemoveElement, FS_CardinalityType DEF RoomIsKept
<1>3. uploads + 1 \in Documents
  BY <1>2 DEF RoomIsKept, TypeOK, Documents
<1>4. q \in Request /\ q.phase = "generated" /\ q.key = request[r].key /\ q.upload = uploads + 1
  BY <1>3 DEF TypeOK, Request, Phase, Documents
<1>5. request' = [request EXCEPT ![r] = q]
  OBVIOUS
<1> HIDE DEF q
<1>6. /\ request' \in [Requests -> Request] /\ request'[r] = q
      /\ \A o \in Requests \ {r} : request'[o] = request[o]
  BY <1>4, <1>5 DEF TypeOK
<1>7. /\ document[uploads + 1] = [state |-> "none", of |-> 0]
      /\ document' = [document EXCEPT ![uploads + 1] = Orphan]
      /\ uploads' = uploads + 1
  BY <1>3 DEF RoomIsKept, TypeOK
<1>9. Orphan \in Document
  BY DEF Document, Orphan
<1>10. TypeOK'
  BY <1>3, <1>6, <1>7, <1>9 DEF TypeOK, Documents
<1>11. Active' = Active /\ Open' = Open /\ Kept' = Kept
  BY DEF Active, Open, Kept, Existing
<1>12. Running' = Running \ {r} /\ Submitting' = Submitting
  BY <1>1, <1>4, <1>6 DEF Running, Submitting, At
<1>13. RoomIsKept'
  BY <1>2, <1>3, <1>7, <1>12 DEF RoomIsKept, TypeOK, Documents
<1>14. LocksAreExclusive'
  BY <1>4, <1>6 DEF LocksAreExclusive, HoldsListing, At, Holding
<1>15. FindingsStand' /\ KeysAndProposals'
  <2>1. At(r, {"checked"}) /\ uploads \in Nat /\ uploads' = uploads + 1
    BY <1>7 DEF TypeOK
  <2>2. FindingsStand'
    BY <2>1, <1>4, <1>6, <1>11 DEF FindingsStand, At, Holding
  <2> QED BY <2>2, <1>11 DEF KeysAndProposals, KeysNameProposals
<1> QED BY <1>10, <1>13, <1>14, <1>15

\* Nobody else found the listing free of proposals, so the new one is alone.
LEMMA CommitKeeps ==
  ASSUME SubmissionInv, NEW r \in Requests, Commit(r)
  PROVE  SubmissionInv'
<1> USE SubmissionConstants DEF SubmissionInv
<1> DEFINE n == made + 1
           k == request[r].key
<1>1. At(r, {"generated"}) /\ r \in Submitting /\ r \notin Running
  BY DEF Commit, Running, Submitting, At
<1>2. /\ Cardinality(Submitting) \in Nat
      /\ IsFiniteSet(Submitting \ {r}) /\ Cardinality(Submitting \ {r}) = Cardinality(Submitting) - 1
      /\ Cardinality(Submitting \ {r}) \in Nat
  BY <1>1, FS_RemoveElement, FS_CardinalityType DEF RoomIsKept
<1>3. n \in Proposals
  BY <1>2 DEF RoomIsKept, TypeOK, Proposals
<1>4. Active = {} /\ request[r].upload \in Documents /\ k \in Keys
  BY <1>1 DEF FindingsStand, At, TypeOK, Request, Documents
<1>5. request' = [request EXCEPT ![r] = Idle] /\ Idle \in Request /\ Idle.phase = "idle"
  BY NothingTyped DEF Commit, Finish
<1>6. /\ request' \in [Requests -> Request] /\ request'[r].phase = "idle"
      /\ \A o \in Requests \ {r} : request'[o] = request[o]
  BY <1>5 DEF TypeOK
<1>7. /\ proposal' = [proposal EXCEPT ![n] = Sent(k)]
      /\ document' = [document EXCEPT ![request[r].upload] = [state |-> "live", of |-> n]]
      /\ key' = [key EXCEPT ![k] = [state |-> "complete", proposal |-> n, document |-> request[r].upload]]
      /\ made' = n /\ UNCHANGED <<approved, uploads, faults>>
      /\ told' \in [Requests -> Answer]
  BY DEF Commit, Finish, TypeOK, Answer
<1>8. /\ Sent(k) \in Proposal
      /\ [state |-> "live", of |-> n] \in Document
      /\ [state |-> "complete", proposal |-> n, document |-> request[r].upload] \in KeyRow
  BY <1>3, <1>4 DEF Proposal, Sent, ActiveStatus, Document, KeyRow
<1> HIDE DEF n, k
<1>9. TypeOK'
  BY <1>3, <1>4, <1>6, <1>7, <1>8 DEF TypeOK, Proposals
<1>10. /\ proposal'[n] = Sent(k) /\ proposal[n].status = "none"
       /\ \A m \in Proposals \ {n} : proposal'[m] = proposal[m]
  BY <1>3, <1>7 DEF TypeOK, RoomIsKept, n
<1>11. Active' = {n} /\ Open' = {n} /\ Kept' = Kept \cup {n} /\ n \notin Kept
  BY <1>3, <1>4, <1>10 DEF Active, ActiveStatus, Open, Kept, Existing, Sent
<1>12. /\ key'[k].state = "complete" /\ key'[k].proposal = n
       /\ \A j \in Keys \ {k} : key'[j] = key[j]
  BY <1>4, <1>7 DEF TypeOK
<1>13. key[k].proposal \notin Kept
  <2>1. key[k].state = "none"
    BY <1>1 DEF FindingsStand, At, Holding, k
  <2> QED BY <1>4, <2>1 DEF TypeOK, KeyRow, NoKeyRow, Kept, Existing, Proposals
<1>14. KeysAndProposals'
  <2>1. \A j \in Keys : key'[j].state = "complete" =>
          key'[j].proposal \in Kept' /\ proposal'[key'[j].proposal].key = j
    BY <1>10, <1>11, <1>12 DEF KeysAndProposals, KeysNameProposals, Sent, Kept, Existing
  <2>2. \A m \in Kept' : key'[proposal'[m].key].proposal = m
    BY <1>4, <1>10, <1>11, <1>12, <1>13
       DEF KeysAndProposals, KeysNameProposals, Sent, Kept, Existing, TypeOK, Proposal
  <2> QED BY <1>11, <2>1, <2>2 DEF KeysAndProposals, KeysNameProposals
<1>15. Running' = Running /\ Submitting' = Submitting \ {r}
  BY <1>1, <1>6 DEF Running, Submitting, At
<1>16. RoomIsKept'
  <2>1. request[r].upload \in 1 .. uploads
    BY <1>1 DEF FindingsStand
  <2>2. \A d \in Documents : d > uploads => document'[d] = document[d]
    BY <1>4, <1>7, <2>1 DEF TypeOK, Documents
  <2>3. \A m \in Proposals : m > made' => proposal'[m].status = "none"
    BY <1>7, <1>10 DEF RoomIsKept, TypeOK, Proposals, n
  <2> QED BY <1>2, <1>7, <1>15, <2>2, <2>3 DEF RoomIsKept, TypeOK, n
<1>17. LocksAreExclusive'
  BY <1>6 DEF LocksAreExclusive, HoldsListing, At, Holding
<1>18. FindingsStand'
  <2>1. \A o \in Requests : ~At(o, {"checked", "generated", "editing", "edited"})'
    BY <1>1, <1>4, <1>6 DEF LocksAreExclusive, FindingsStand, HoldsListing, At
  <2>2. ASSUME NEW o \in Requests, At(o, Holding)' PROVE key'[request'[o].key].state = "none"
    <3>1. o # r /\ request'[o] = request[o] /\ At(o, Holding)
      BY <1>6, <2>2 DEF At, Holding
    <3>2. request[o].key # k /\ request[o].key \in Keys
      BY <1>1, <3>1 DEF LocksAreExclusive, At, Holding, TypeOK, Request, k
    <3> QED BY <1>12, <3>1, <3>2 DEF FindingsStand
  <2> QED BY <2>1, <2>2 DEF FindingsStand, At
<1> QED BY <1>9, <1>14, <1>16, <1>17, <1>18

\* An edit saves a proposal that was active all the time.
LEMMA SaveKeeps ==
  ASSUME SubmissionInv, NEW r \in Requests, SaveProposal(r)
  PROVE  SubmissionInv'
<1> USE SubmissionConstants
<1> DEFINE n == request[r].on
<1>1. n \in Active /\ n \in Proposals /\ proposal[n] \in Proposal
  BY DEF SaveProposal, SubmissionInv, FindingsStand, At, Active, TypeOK
<1>2. Idle \in Request /\ Idle.phase = "idle"
  BY NothingTyped
<1>3. PICK answer \in Answer : Finish(r, answer)
  BY DEF SaveProposal, Refuse, Answer
<1>4. request' = [request EXCEPT ![r] = Idle] /\ told' \in [Requests -> Answer]
  BY <1>3 DEF Finish, SubmissionInv, TypeOK
<1>5. CASE Others(n) # {}
  BY <1>2, <1>4, <1>5, MoveKeeps DEF SaveProposal, Refuse, SubmissionInv, TypeOK, Holding
<1>6. CASE Others(n) = {}
  <2>1. /\ proposal' = [proposal EXCEPT ![n].status = "PROPOSAL_SENT"]
        /\ UNCHANGED <<approved, made, document, uploads, key, faults>>
    BY <1>6 DEF SaveProposal
  <2> HIDE DEF n
  <2>2. [proposal[n] EXCEPT !.status = "PROPOSAL_SENT"] \in Proposal
    BY <1>1 DEF Proposal, ActiveStatus
  <2>3. /\ proposal' \in [Proposals -> Proposal]
        /\ proposal'[n] = [proposal[n] EXCEPT !.status = "PROPOSAL_SENT"]
        /\ \A m \in Proposals \ {n} : proposal'[m] = proposal[m]
    BY <1>1, <2>1, <2>2 DEF SubmissionInv, TypeOK
  <2>4. /\ proposal'[n].status = "PROPOSAL_SENT" /\ proposal'[n].key = proposal[n].key
        /\ proposal'[n].contract = proposal[n].contract
        /\ proposal'[n].rejected = proposal[n].rejected
        /\ proposal[n].status \in ActiveStatus
    BY <1>1, <2>3 DEF Proposal, Active
  <2>5. Active' = Active /\ Open' = Open /\ Kept' = Kept
    BY <1>1, <2>3, <2>4 DEF Active, ActiveStatus, Open, Kept, Existing
  <2>6. \A m \in Proposals : /\ proposal'[m].key = proposal[m].key
                             /\ proposal[m].status = "none" => proposal'[m].status = "none"
    BY <2>3, <2>4 DEF ActiveStatus
  <2> QED BY <1>2, <1>4, <2>1, <2>3, <2>5, <2>6, MoveAndSave DEF SubmissionInv, TypeOK, Holding
<1> QED BY <1>5, <1>6

\* A key's row names a proposal that is kept, or there is none.
LEMMA KeysOfKept ==
  ASSUME SubmissionInv
  PROVE  \A k \in Keys : key[k].proposal \in Kept \/ key[k] = NoKeyRow
BY DEF SubmissionInv, KeysAndProposals, KeysNameProposals, TypeOK, KeyRow

\* A decision, or whatever else changes what nobody holds, keeps the invariant, if
\* it makes a proposal active only while nobody holds the listing, opens none, and
\* frees just the keys of those that are not kept.
LEMMA DecisionKeeps ==
  ASSUME SubmissionInv, approved' \in BOOLEAN,
         proposal' \in [Proposals -> Proposal],
         \A m \in Proposals : proposal'[m] # proposal[m] => m \in Existing /\ Unlocked(m),
         Open' \subseteq Open,
         Active' \subseteq Active \/ ListingUnlocked,
         \A m \in Kept' : m \in Kept /\ proposal'[m].key = proposal[m].key,
         key' \in [Keys -> KeyRow],
         \A k \in Keys : key'[k] = IF key[k].proposal \in Kept' THEN key[k] ELSE NoKeyRow,
         document' \in [Documents -> Document],
         \A d \in Documents : document[d].state = "none" => document'[d] = document[d],
         UNCHANGED <<made, uploads, request, told, faults>>
  PROVE  SubmissionInv'
<1> USE SubmissionConstants DEF SubmissionInv
<1>1. TypeOK'
  BY DEF TypeOK
<1>2. RoomIsKept'
  <2>1. Running' = Running /\ Submitting' = Submitting
    BY DEF Running, Submitting, At
  <2>2. \A m \in Proposals : m > made => proposal'[m] = proposal[m]
    BY DEF RoomIsKept, Existing
  <2>3. \A d \in Documents : d > uploads => document'[d] = document[d]
    BY DEF RoomIsKept
  <2> QED BY <2>1, <2>2, <2>3 DEF RoomIsKept
<1>3. LocksAreExclusive'
  BY DEF LocksAreExclusive, HoldsListing, At
<1>4. FindingsStand'
  <2>1. \A k \in Keys : key[k].state = "none" => key'[k].state = "none"
    BY DEF NoKeyRow
  <2>2. \A r \in Requests : request[r].key \in Keys
    BY DEF TypeOK, Request
  <2>3. \A r \in Requests : At(r, {"editing", "edited"}) => request[r].on \in Active'
    BY DEF Unlocked, HoldsProposal, FindingsStand, Active
  <2>4. \A r \in Requests : At(r, {"checked", "generated"}) => Active' = {}
    BY DEF ListingUnlocked, HoldsListing, FindingsStand, At
  <2> QED BY <2>1, <2>2, <2>3, <2>4 DEF FindingsStand, At
<1>5. KeysAndProposals'
  <2>1. \A m, n \in Open' : m = n
    BY DEF KeysAndProposals
  <2>2. \A k \in Keys : key'[k].state = "complete" =>
          key'[k].proposal \in Kept' /\ proposal'[key'[k].proposal].key = k
    BY DEF KeysAndProposals, KeysNameProposals, NoKeyRow
  <2>3. \A m \in Kept' : key'[proposal'[m].key].proposal = m
    BY DEF KeysAndProposals, KeysNameProposals, Kept, Existing, TypeOK, Proposal
  <2> QED BY <2>1, <2>2, <2>3 DEF KeysAndProposals, KeysNameProposals
<1> QED BY <1>1, <1>2, <1>3, <1>4, <1>5

\* The same of a change to the status or the contract of one proposal, which leaves
\* its key to it.
LEMMA StatusKeeps ==
  ASSUME SubmissionInv, approved' \in BOOLEAN, NEW n \in Existing, Unlocked(n),
         NEW new \in Proposal, proposal' = [proposal EXCEPT ![n] = new],
         new.key = proposal[n].key, new.rejected = proposal[n].rejected,
         new.status \notin {"none", "deleted"},
         new.status \in ActiveStatus =>
           (new.contract \/ n \in Open) /\ (n \in Active \/ ListingUnlocked),
         UNCHANGED <<made, document, uploads, key, request, told, faults>>
  PROVE  SubmissionInv'
<1>1. /\ n \in Proposals /\ proposal' \in [Proposals -> Proposal] /\ proposal'[n] = new
      /\ \A m \in Proposals \ {n} : proposal'[m] = proposal[m]
  BY DEF SubmissionInv, TypeOK, Existing
<1>2. Open' \subseteq Open /\ (Active' \subseteq Active \/ ListingUnlocked)
  BY <1>1 DEF Open, Active
<1>3. Kept' = Kept
  BY <1>1 DEF Kept, Existing
<1>4. \A k \in Keys : key'[k] = IF key[k].proposal \in Kept' THEN key[k] ELSE NoKeyRow
  BY <1>3, KeysOfKept
<1>5. \A m \in Kept' : m \in Kept /\ proposal'[m].key = proposal[m].key
  BY <1>1, <1>3 DEF Kept, Existing
<1>6. key' \in [Keys -> KeyRow] /\ document' \in [Documents -> Document]
  BY DEF SubmissionInv, TypeOK
<1> QED BY <1>1, <1>2, <1>4, <1>5, <1>6, DecisionKeeps

\* The same of a proposal that is rejected or deleted, whose key is freed.
LEMMA EndKeeps ==
  ASSUME SubmissionInv, approved' \in BOOLEAN, NEW n \in Existing, Unlocked(n),
         NEW new \in Proposal, proposal' = [proposal EXCEPT ![n] = new],
         new.status \notin ActiveStatus, new.rejected \/ new.status = "deleted",
         key' = ForgetKeys(n),
         document' \in [Documents -> Document],
         \A d \in Documents : document[d].state = "none" => document'[d] = document[d],
         UNCHANGED <<made, uploads, request, told, faults>>
  PROVE  SubmissionInv'
<1> USE SubmissionConstants
<1>1. /\ n \in Proposals /\ proposal' \in [Proposals -> Proposal] /\ proposal'[n] = new
      /\ \A m \in Proposals \ {n} : proposal'[m] = proposal[m]
  BY DEF SubmissionInv, TypeOK, Existing
<1>2. Open' \subseteq Open /\ Active' \subseteq Active
  BY <1>1 DEF Open, Active
<1>3. Kept' = Kept \ {n}
  BY <1>1 DEF Kept, Existing
<1>4. /\ key' \in [Keys -> KeyRow]
      /\ \A k \in Keys : key'[k] = IF key[k].proposal = n THEN NoKeyRow ELSE key[k]
  BY DEF SubmissionInv, ForgetKeys, TypeOK, KeyRow
<1>6. \A k \in Keys : key'[k] = IF key[k].proposal \in Kept' THEN key[k] ELSE NoKeyRow
  BY <1>3, <1>4, KeysOfKept
<1>7. \A m \in Kept' : m \in Kept /\ proposal'[m].key = proposal[m].key
  BY <1>1, <1>3 DEF Kept, Existing
<1> QED BY <1>1, <1>2, <1>4, <1>6, <1>7, DecisionKeeps

\* What happens to the PDFs alone.
LEMMA DocumentsKeep ==
  ASSUME SubmissionInv, document' \in [Documents -> Document], uploads' \in uploads .. MaxDocuments,
         uploads' + Cardinality(Running) <= MaxDocuments,
         \A d \in Documents : d > uploads' => document'[d] = document[d],
         UNCHANGED <<approved, proposal, made, key, request, told, faults>>
  PROVE  SubmissionInv'
<1> USE SubmissionConstants DEF SubmissionInv
<1>1. /\ Running' = Running /\ Submitting' = Submitting
      /\ Active' = Active /\ Open' = Open /\ Kept' = Kept
  BY DEF Running, Submitting, At, Active, Open, Kept, Existing
<1>2. uploads' \in 0 .. MaxDocuments /\ uploads <= uploads'
  BY DEF TypeOK
<1>3. TypeOK' /\ RoomIsKept'
  BY <1>1, <1>2 DEF TypeOK, RoomIsKept, Documents
<1>4. LocksAreExclusive' /\ FindingsStand' /\ KeysAndProposals'
  BY <1>1, <1>2 DEF LocksAreExclusive, FindingsStand, KeysAndProposals, KeysNameProposals,
     HoldsListing, At, TypeOK
<1> QED BY <1>3, <1>4

\* An approval refuses the undecided rivals.
LEMMA ApprovalKeeps ==
  ASSUME SubmissionInv, NEW n \in Proposals, ApproveNegotiation(n)
  PROVE  SubmissionInv'
<1> USE DEF SubmissionInv, ApproveNegotiation
<1>1. \A m \in Proposals :
        /\ proposal'[m] \in Proposal
        /\ proposal'[m].key = proposal[m].key /\ proposal'[m].rejected = proposal[m].rejected
        /\ m = n => proposal'[m].status = "IN_NEGOTIATION" /\ proposal'[m].contract
        /\ m # n /\ m \in Undecided => proposal'[m].status = "closed"
        /\ m # n /\ m \notin Undecided => proposal'[m] = proposal[m]
  BY DEF TypeOK, Proposal, ActiveStatus
<1>2. proposal' \in [Proposals -> Proposal]
  BY <1>1
<1>3. \A m \in Proposals : proposal'[m] # proposal[m] => m \in Existing /\ Unlocked(m)
  BY <1>1 DEF Existing, Active, ActiveStatus, Undecided
<1>4. Open' \subseteq Open
  BY <1>1 DEF Open, Active, ActiveStatus
<1>5. Kept' = Kept
  <2>1. \A m \in Proposals : m \in Existing' <=> m \in Existing
    <3>1. n \in Existing /\ \A m \in Undecided : m \in Existing
      BY DEF Existing, Active, ActiveStatus, Undecided
    <3> QED BY ONLY <1>1, <3>1 DEF Existing
  <2>2. Existing' = Existing
    BY ONLY <2>1 DEF Existing
  <2> QED BY ONLY <1>1, <2>2 DEF Kept, Existing
<1>6. \A k \in Keys : key'[k] = IF key[k].proposal \in Kept' THEN key[k] ELSE NoKeyRow
  BY <1>5, KeysOfKept
<1>7. \A m \in Kept' : m \in Kept /\ proposal'[m].key = proposal[m].key
  BY <1>1, <1>5 DEF Kept, Existing
<1>8. key' \in [Keys -> KeyRow] /\ document' \in [Documents -> Document] /\ approved' \in BOOLEAN
  BY DEF TypeOK
<1> QED BY <1>2, <1>3, <1>4, <1>6, <1>7, <1>8, DecisionKeeps

\* The signed PDF, the decisions and the contract's handlers.
LEMMA StatusSteps ==
  ASSUME SubmissionInv, NEW n \in Proposals,
         \/ UploadSigned(n) \/ RemoveSigned(n) \/ CancelNegotiation(n)
         \/ CreateContract(n) \/ FinalizeContract(n) \/ ReopenContract(n) \/ RejectSide(n)
  PROVE  SubmissionInv'
<1> USE SubmissionConstants
<1>1. proposal[n] \in Proposal /\ approved \in BOOLEAN /\ proposal \in [Proposals -> Proposal]
  BY DEF SubmissionInv, TypeOK
<1>2. ASSUME NEW s \in ActiveStatus \cup {"closed", "dealt"}, NEW c \in BOOLEAN,
             proposal' = [proposal EXCEPT ![n] =
               [proposal[n] EXCEPT !.status = s, !.contract = c]],
             n \in Existing, Unlocked(n), approved' \in BOOLEAN,
             s \in ActiveStatus => (c \/ n \in Open) /\ (n \in Active \/ ListingUnlocked),
             UNCHANGED <<made, document, uploads, key, request, told, faults>>
      PROVE  SubmissionInv'
  <2> DEFINE new == [proposal[n] EXCEPT !.status = s, !.contract = c]
  <2>1. /\ new \in Proposal /\ new.status = s /\ new.contract = c
        /\ new.key = proposal[n].key /\ new.rejected = proposal[n].rejected
        /\ new.status \notin {"none", "deleted"}
    BY <1>1 DEF Proposal, ActiveStatus
  <2>2. proposal' = [proposal EXCEPT ![n] = new]
    BY <1>2
  <2> HIDE DEF new
  <2> QED BY <1>2, <2>1, <2>2, StatusKeeps
<1>3. CASE UploadSigned(n)
  <2>1. proposal' = [proposal EXCEPT ![n] =
          [proposal[n] EXCEPT !.status = "DOCUMENTATION_PHASE", !.contract = proposal[n].contract]]
    BY <1>1, <1>3 DEF UploadSigned, Proposal
  <2> QED BY <1>1, <1>2, <1>3, <2>1 DEF UploadSigned, Existing, Open, Active, ActiveStatus, Proposal
<1>4. CASE RemoveSigned(n)
  <2>1. proposal' = [proposal EXCEPT ![n] =
          [proposal[n] EXCEPT !.status = "PROPOSAL_SENT", !.contract = proposal[n].contract]]
    BY <1>1, <1>4 DEF RemoveSigned, Proposal
  <2> QED BY <1>1, <1>2, <1>4, <2>1 DEF RemoveSigned, Existing, Open, Active, ActiveStatus, Proposal
<1>5. CASE CancelNegotiation(n)
  <2>1. proposal' = [proposal EXCEPT ![n] =
          [proposal[n] EXCEPT !.status = "closed", !.contract = proposal[n].contract]]
    BY <1>1, <1>5 DEF CancelNegotiation, Proposal
  <2> QED BY <1>1, <1>2, <1>5, <2>1 DEF CancelNegotiation, Existing, ActiveStatus, Proposal
<1>6. CASE CreateContract(n)
  <2>1. proposal' = [proposal EXCEPT ![n] =
          [proposal[n] EXCEPT !.status = proposal[n].status, !.contract = TRUE]]
    BY <1>1, <1>6 DEF CreateContract, Proposal
  <2>2. proposal[n].status \in ActiveStatus \cup {"closed", "dealt"}
    BY <1>6 DEF CreateContract, ActiveStatus
  <2> QED BY <1>1, <1>2, <1>6, <2>1, <2>2 DEF CreateContract, Existing
<1>7. CASE FinalizeContract(n)
  <2>1. proposal' = [proposal EXCEPT ![n] =
          [proposal[n] EXCEPT !.status = "dealt", !.contract = TRUE]]
    BY <1>1, <1>7 DEF FinalizeContract, Proposal
  <2> QED BY <1>2, <1>7, <2>1 DEF FinalizeContract, ActiveStatus
<1>8. CASE ReopenContract(n)
  <2>1. proposal' = [proposal EXCEPT ![n] =
          [proposal[n] EXCEPT !.status = "IN_NEGOTIATION", !.contract = TRUE]]
    BY <1>1, <1>8 DEF ReopenContract, Proposal
  <2> QED BY <1>1, <1>2, <1>8, <2>1 DEF ReopenContract, Existing, ActiveStatus
<1>9. CASE RejectSide(n)
  <2>1. proposal' = [proposal EXCEPT ![n] =
          [proposal[n] EXCEPT !.status = "IN_NEGOTIATION", !.contract = TRUE]]
    BY <1>1, <1>9 DEF RejectSide, Proposal
  <2>2. approved' \in BOOLEAN
    BY <1>1, <1>9 DEF RejectSide
  <2> QED BY <1>2, <1>9, <2>1, <2>2 DEF RejectSide, ActiveStatus
<1> QED BY <1>3, <1>4, <1>5, <1>6, <1>7, <1>8, <1>9

\* The rejection, the deletion, and the PDFs of proposals.
LEMMA ProposalSteps ==
  ASSUME SubmissionInv, NEW n \in Proposals,
         RejectNegotiation(n) \/ DeleteMyProposal(n) \/ DeleteProposalDraft(n) \/ GenerateDraft(n)
  PROVE  SubmissionInv'
<1> USE SubmissionConstants DEF SubmissionInv
<1>1. CASE RejectNegotiation(n)
  <2> DEFINE new == [proposal[n] EXCEPT !.status = "closed", !.rejected = TRUE]
  <2>1. new \in Proposal /\ new.status = "closed" /\ new.rejected
    BY DEF TypeOK, Proposal
  <2>2. proposal' = [proposal EXCEPT ![n] = new] /\ approved' \in BOOLEAN
    BY <1>1 DEF RejectNegotiation, TypeOK, Proposal
  <2> HIDE DEF new
  <2> QED BY <1>1, <2>1, <2>2, EndKeeps DEF RejectNegotiation, TypeOK, ActiveStatus
<1>2. CASE DeleteMyProposal(n)
  <2>1. Orphan \in Document
    BY DEF Orphan, Document
  <2>2. document' \in [Documents -> Document]
    BY <1>2, <2>1 DEF DeleteMyProposal, TypeOK
  <2>3. \A d \in Documents : document[d].state = "none" => document'[d] = document[d]
    BY <1>2 DEF DeleteMyProposal, TypeOK, Document, Proposals
  <2>4. NoProposal("deleted") \in Proposal /\ NoProposal("deleted").status = "deleted"
    BY NothingTyped
  <2>5. n \in Existing
    BY <1>2 DEF DeleteMyProposal, PreSigned, Existing
  <2> QED BY <1>2, <2>2, <2>3, <2>4, <2>5, EndKeeps DEF DeleteMyProposal, ActiveStatus, TypeOK
<1>3. CASE DeleteProposalDraft(n)
  <2>1. PICK d \in Documents : /\ document[d].of = n
                              /\ document' = [document EXCEPT ![d] = [state |-> "queued", of |-> 0]]
    BY <1>3 DEF DeleteProposalDraft
  <2>2. [state |-> "queued", of |-> 0] \in Document
    BY DEF Document
  <2>3. document' \in [Documents -> Document] /\ \A e \in Documents \ {d} : document'[e] = document[e]
    BY <2>1, <2>2 DEF TypeOK
  <2>4. d <= uploads
    BY <2>1 DEF RoomIsKept, TypeOK, Documents, Proposals
  <2>5. uploads' = uploads /\ uploads \in 0 .. MaxDocuments
    BY <1>3 DEF DeleteProposalDraft, TypeOK
  <2> QED BY <1>3, <2>3, <2>4, <2>5, DocumentsKeep DEF DeleteProposalDraft, RoomIsKept, Documents
<1>4. CASE GenerateDraft(n)
  <2>1. Cardinality(Running) \in Nat
    BY FS_CardinalityType DEF RoomIsKept
  <2>2. uploads' = uploads + 1 /\ uploads + 1 \in Documents /\ uploads' + Cardinality(Running) <= MaxDocuments
    BY <1>4, <2>1 DEF GenerateDraft, TypeOK, Documents
  <2>3. [state |-> "live", of |-> n] \in Document
    BY DEF Document
  <2>4. document' \in [Documents -> Document] /\ \A d \in Documents \ {uploads + 1} : document'[d] = document[d]
    BY <1>4, <2>2, <2>3 DEF GenerateDraft, TypeOK
  <2> QED BY <1>4, <2>2, <2>4, DocumentsKeep DEF GenerateDraft, TypeOK, Documents
<1> QED BY <1>1, <1>2, <1>3, <1>4

\* The listing, the deadlocks and the process.
LEMMA OtherSteps ==
  ASSUME SubmissionInv, ListingChanges \/ BreakDeadlock \/ Crash
  PROVE  SubmissionInv'
<1> USE SubmissionConstants DEF SubmissionInv
<1>1. CASE ListingChanges
  <2>1. /\ Running' = Running /\ Submitting' = Submitting
        /\ Active' = Active /\ Open' = Open /\ Kept' = Kept
    BY <1>1 DEF ListingChanges, Running, Submitting, At, Active, Open, Kept, Existing
  <2> QED BY <1>1, <2>1 DEF ListingChanges, TypeOK, RoomIsKept, LocksAreExclusive, FindingsStand,
             KeysAndProposals, KeysNameProposals, HoldsListing, At
<1>2. CASE BreakDeadlock
  <2>1. PICK r \in Requests : Refuse(r, "other")
    BY <1>2 DEF BreakDeadlock
  <2>2. Idle \in Request /\ Idle.phase = "idle"
    BY NothingTyped
  <2>3. /\ request' = [request EXCEPT ![r] = Idle] /\ told' \in [Requests -> Answer]
        /\ UNCHANGED <<approved, proposal, made, document, uploads, key, faults>>
    BY <2>1 DEF Refuse, Finish, TypeOK, Answer
  <2> QED BY <2>2, <2>3, MoveKeeps DEF TypeOK, Holding
<1>3. CASE Crash
  <2>1. /\ request' \in [Requests -> Request] /\ \A r \in Requests : request'[r].phase = "idle"
        /\ UNCHANGED <<approved, proposal, made, document, uploads, key, told>>
        /\ faults' \in 0 .. MaxFaults
    BY <1>3, NothingTyped DEF Crash, TypeOK
  <2>2. /\ Running' = {} /\ Submitting' = {}
        /\ Active' = Active /\ Open' = Open /\ Kept' = Kept
    BY <2>1 DEF Running, Submitting, At, Active, Open, Kept, Existing
  <2>3. RoomIsKept'
    BY <2>1, <2>2, FS_EmptySet DEF RoomIsKept, TypeOK
  <2> QED BY <2>1, <2>2, <2>3 DEF TypeOK, LocksAreExclusive, FindingsStand, KeysAndProposals,
             KeysNameProposals, HoldsListing, At, Holding
<1> QED BY <1>1, <1>2, <1>3

\* Locks, findings, keys and room of the submissions, for any number of them.
THEOREM SubmissionSafety == Spec => []SubmissionInv
<1>1. SubmissionInv /\ [Next]_vars => SubmissionInv'
  <2> SUFFICES ASSUME SubmissionInv, [Next]_vars PROVE SubmissionInv'
    OBVIOUS
  <2>1. CASE UNCHANGED vars
    <3>1. /\ Running' = Running /\ Submitting' = Submitting
          /\ Active' = Active /\ Open' = Open /\ Kept' = Kept
      BY <2>1 DEF vars, Running, Submitting, At, Active, Open, Kept, Existing
    <3> QED BY <2>1, <3>1 DEF vars, SubmissionInv, TypeOK, RoomIsKept, LocksAreExclusive, FindingsStand,
               KeysAndProposals, KeysNameProposals, HoldsListing, At
  <2> QED
    BY <2>1, RequestSteps, GenerateKeeps, CommitKeeps, SaveKeeps, ApprovalKeeps, StatusSteps,
       ProposalSteps, OtherSteps
       DEF Next, Step
<1> QED BY <1>1, InitSubmission, PTL DEF Spec

\* A listing has one open proposal without a contract at most, and keys and the
\* proposals made with them name each other until one is rejected or deleted
\* (generateProposalFromProperty, approveNegotiation, rejectNegotiation and
\* cancelNegotiation, deleteMyProposal, finalize and the contract's returns),
\* whatever overlaps, fails or is repeated.
THEOREM SubmissionsAlwaysHold == Spec => []SubmissionsHold
<1>1. SubmissionInv => SubmissionsHold
  <2> SUFFICES ASSUME SubmissionInv PROVE OneOpenProposal
    BY DEF SubmissionInv, SubmissionsHold, KeysAndProposals
  <2>1. CASE Open = {}
    BY <2>1, FS_EmptySet DEF OneOpenProposal
  <2>2. CASE Open # {}
    <3>1. PICK n \in Open : Open = {n}
      BY <2>2 DEF SubmissionInv, KeysAndProposals
    <3> QED BY <3>1, FS_Singleton DEF OneOpenProposal
  <2> QED BY <2>1, <2>2
<1> QED BY <1>1, SubmissionSafety, PTL

\* A retry is never told that a proposal exists when it is one its own key made and
\* no administrator rejected: while it holds the key, the key is of no proposal
\* (generateProposalFromProperty, its look for active negotiations).
THEOREM RetriesMeetNoConflict == Spec => RetryIsNoConflict
<1> DEFINE Own == \A r \in Requests : Says(r, "exists") /\ At(r, {"listing"}) =>
                    \A n \in Active : proposal[n].key = request[r].key => proposal[n].rejected
<1>1. SubmissionInv => Own
  <2> SUFFICES ASSUME SubmissionInv, NEW r \in Requests, At(r, {"listing"}), NEW n \in Active,
                      proposal[n].key = request[r].key, ~proposal[n].rejected
               PROVE  FALSE
    OBVIOUS
  <2>1. n \in Kept /\ n \in Proposals
    BY DEF Active, ActiveStatus, Kept, Existing
  <2>2. key[request[r].key].proposal = n
    BY <2>1 DEF SubmissionInv, KeysAndProposals, KeysNameProposals
  <2>3. key[request[r].key].state = "none" /\ request[r].key \in Keys
    BY DEF SubmissionInv, FindingsStand, At, Holding, TypeOK, Request
  <2> QED BY <2>1, <2>2, <2>3 DEF SubmissionInv, TypeOK, KeyRow, NoKeyRow, Proposals
<1>2. SubmissionInv /\ [Next]_vars => [Own]_vars
  BY <1>1
<1> QED BY <1>2, SubmissionSafety, PTL DEF Spec, RetryIsNoConflict

-----------------------------------------------------------------------------
(* The upload of the signed proposal.                                      *)

UploadTypes ==
  /\ status \in Statuses /\ row \in Uploads \cup {Nobody}
  /\ objects \subseteq Uploads /\ queued \subseteq Uploads /\ notified \subseteq Uploads
  /\ at \in [Uploads -> Places]
  /\ lock \in Uploads \cup {Nobody}
  /\ failures \in 0..MaxFailures

\* The lock is of the upload whose transaction is open, and nothing is signed
\* while one is.
LockIsOfTransaction ==
  /\ \A r \in Uploads : at[r] \in InTransaction <=> lock = r
  /\ lock # Nobody => row = Nobody

\* An upload that has not come to the storage has left no trace, and one that has
\* not committed no more than its object.
Traces ==
  \A r \in Uploads :
    /\ at[r] \in {"idle", "locked"} \cup Refusals => r \notin objects
    /\ at[r] \in {"stored", "inserted"} => r \in objects
    /\ r \in queued => row # r
    /\ (r \in queued \/ row = r) => at[r] \in {"committed", "sent", "failed", "lost"}

UploadInv == UploadTypes /\ LockIsOfTransaction /\ Traces /\ RowHasObject /\ StrayObjectsFailed

-----------------------------------------------------------------------------
\* Nothing is stored, signed or locked at first.
LEMMA InitUpload == SignedInit => UploadInv
BY SignedProposalAssumption
   DEF SignedInit, UploadInv, UploadTypes, LockIsOfTransaction, Traces, RowHasObject, StrayObjectsFailed,
       Statuses, Places, InTransaction, Refusals

\* The steps of an upload up to its commit keep the invariant.
LEMMA UploadSteps ==
  ASSUME UploadInv, NEW r \in Uploads,
         Lock(r) \/ PutObject(r) \/ InsertRow(r) \/ CommitSigned(r) \/ Notify(r)
  PROVE  UploadInv'
<1> USE SignedProposalAssumption
    DEF UploadInv, UploadTypes, LockIsOfTransaction, Traces, RowHasObject, StrayObjectsFailed,
        Statuses, Places, InTransaction, Refusals, Move
<1>1. CASE Lock(r)
  BY <1>1 DEF Lock
<1>2. CASE PutObject(r)
  BY <1>2 DEF PutObject
<1>3. CASE InsertRow(r)
  BY <1>3 DEF InsertRow
<1>4. CASE CommitSigned(r)
  BY <1>4 DEF CommitSigned
<1>5. CASE Notify(r)
  BY <1>5 DEF Notify
<1> QED BY <1>1, <1>2, <1>3, <1>4, <1>5

\* An error, which may delete the object of an upload whose insert failed, and a
\* crash keep it.
LEMMA UploadFaults ==
  ASSUME UploadInv, CrashUploads \/ \E r \in Uploads : Fail(r)
  PROVE  UploadInv'
<1> USE SignedProposalAssumption
    DEF UploadInv, UploadTypes, LockIsOfTransaction, Traces, RowHasObject, StrayObjectsFailed,
        Statuses, Places, InTransaction, Refusals, Move
<1>1. CASE CrashUploads
  BY <1>1 DEF CrashUploads
<1>2. ASSUME NEW r \in Uploads, Fail(r) PROVE UploadInv'
  <2>1. objects' = objects \/ (at[r] = "stored" /\ objects' = objects \ {r})
    BY <1>2 DEF Fail, ObjectsAfterError
  <2>2. UploadTypes' /\ LockIsOfTransaction'
    BY <1>2, <2>1 DEF Fail
  <2>3. Traces' /\ RowHasObject' /\ StrayObjectsFailed'
    BY <1>2, <2>1 DEF Fail
  <2> QED BY <2>2, <2>3
<1> QED BY <1>1, <1>2

\* The administrators and the deletion queue keep it.
LEMMA UploadOthers ==
  ASSUME UploadInv, AdminDelete \/ Reject \/ \E r \in Uploads : DeleteObject(r)
  PROVE  UploadInv'
<1> USE SignedProposalAssumption
    DEF UploadInv, UploadTypes, LockIsOfTransaction, Traces, RowHasObject, StrayObjectsFailed,
        Statuses, Places, InTransaction, Refusals
<1>1. CASE AdminDelete
  BY <1>1 DEF AdminDelete
<1>2. CASE Reject
  BY <1>2 DEF Reject
<1>3. ASSUME NEW r \in Uploads, DeleteObject(r) PROVE UploadInv'
  BY <1>3 DEF DeleteObject
<1> QED BY <1>1, <1>2, <1>3

\* The invariant holds in every reachable state.
THEOREM UploadSafety == SignedSpec => []UploadInv
<1>1. UploadInv /\ [SignedNext]_signedVars => UploadInv'
  <2> SUFFICES ASSUME UploadInv, [SignedNext]_signedVars PROVE UploadInv'
    OBVIOUS
  <2>1. CASE UNCHANGED signedVars
    BY <2>1 DEF signedVars, UploadInv, UploadTypes, LockIsOfTransaction, Traces, RowHasObject,
                StrayObjectsFailed
  <2> QED BY <2>1, UploadSteps, UploadFaults, UploadOthers DEF SignedNext
<1> QED BY <1>1, InitUpload, PTL DEF SignedSpec

\* The state has its type, and the row is locked just while a transaction is open.
THEOREM UploadTyped == SignedSpec => []SignedTypes
<1>1. UploadInv => SignedTypes
  BY SignedProposalAssumption DEF UploadInv, UploadTypes, LockIsOfTransaction, SignedTypes
<1> QED BY <1>1, UploadSafety, PTL

\* The signed PDF of a negotiation can be read, whatever failed before.
THEOREM SignedAlwaysStored == SignedSpec => []RowHasObject
<1>1. UploadInv => RowHasObject
  BY DEF UploadInv
<1> QED BY <1>1, UploadSafety, PTL

\* Only failed uploads leave objects that nothing names.
THEOREM StraysOfFailures == SignedSpec => []StrayObjectsFailed
<1>1. UploadInv => StrayObjectsFailed
  BY DEF UploadInv
<1> QED BY <1>1, UploadSafety, PTL

\* The three together, which the run of proposals checks.
THEOREM SignedIsSafe == SignedSpec => []SignedSafety
BY UploadTyped, SignedAlwaysStored, StraysOfFailures, PTL DEF SignedSafety
=============================================================================
