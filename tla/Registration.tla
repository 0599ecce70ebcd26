---------------------------- MODULE Registration ----------------------------
(***************************************************************************)
(* Ways to an account: a registration draft that is filled in over many    *)
(* requests and finalized in one transaction, and the direct registration  *)
(* that writes the user and the broker in two.  One CRECI is enough: all   *)
(* brokers here claim the same.                                            *)
(*                                                                         *)
(* Outside a transaction every statement is a step, and requests overlap.  *)
(* What a draft holds of name, phone, address and step is left out: no     *)
(* guard reads it.                                                         *)
(***************************************************************************)
EXTENDS Naturals, FiniteSets

CONSTANTS
    Addresses, Drafts,    \* e-mails, and registration drafts
    Files,                \* uploads of a broker's papers, each used once
    NoFile, NoDraft, NoAddress,
    DraftRequests,        \* requests that may overlap
    MaxStops,             \* bound on crashes
    DraftLoads            \* what an instance has: who registers what, by which requests

\* What the values of the constants must satisfy; an instance assumes it.
RegistrationConstants ==
    /\ NoFile \notin Files /\ NoDraft \notin Drafts /\ NoAddress \notin Addresses
    /\ MaxStops \in Nat
    /\ \A l \in DraftLoads :
          /\ l.requests \subseteq DraftRequests /\ l.emails \subseteq Addresses
          /\ l.drafts \subseteq Drafts /\ l.files \subseteq Files /\ l.stops \in 0 .. MaxStops

ASSUME RegistrationAssumption == RegistrationConstants

VARIABLES
    draftLoad,    \* the one of DraftLoads that a behaviour is about
    draft,        \* registration_drafts
    papers,       \* draft -> the files its row of documents names
    member,       \* users, brokers and broker_documents, by e-mail
    stored,       \* files the storage holds
    replies,      \* what clients were answered
    signup,       \* request -> where it is
    stops

draftState == <<draft, papers, member, stored, replies, signup, stops>>
draftVars == <<draftLoad, draftState>>

-----------------------------------------------------------------------------
Profiles == {"client", "broker"}

\* `life`: the temporary password lasts an hour, the draft a day.
Draft == [status : {"none", "OPEN", "COMPLETED", "DISCARDED", "EXPIRED"},
          email : Addresses \cup {NoAddress}, profile : Profiles,
          provider : {"email", "firebase"}, password : BOOLEAN,
          verified : BOOLEAN, life : {"fresh", "late", "over"}]
NoSuchDraft == [status |-> "none", email |-> NoAddress, profile |-> "client",
                provider |-> "email", password |-> FALSE, verified |-> FALSE,
                life |-> "fresh"]

\* `from` is the draft an account was made of.
Member == [exists : BOOLEAN, profile : Profiles, password : BOOLEAN, verified : BOOLEAN,
            broker : BOOLEAN, papers : Files \cup {NoFile}, from : Drafts \cup {NoDraft}]
NoMember == [exists |-> FALSE, profile |-> "client", password |-> FALSE,
              verified |-> FALSE, broker |-> FALSE, papers |-> NoFile, from |-> NoDraft]

Phase == {"idle", "creating", "confirming", "uploaded", "submitting", "submitted",
          "finalizing", "found", "discarding", "emptied", "registering", "brokering"}
Signup == [phase : Phase, draft : Drafts \cup {NoDraft}, email : Addresses \cup {NoAddress},
            profile : Profiles, file : Files \cup {NoFile}]
NoSignup == [phase |-> "idle", draft |-> NoDraft, email |-> NoAddress,
         profile |-> "client", file |-> NoFile]

MoveSignup(r, state) == signup' = [signup EXCEPT ![r] = state]
Go(r, phase) == MoveSignup(r, [signup[r] EXCEPT !.phase = phase])
On(phase, d) == [NoSignup EXCEPT !.phase = phase, !.draft = d]

Open(d) == draft[d].status = "OPEN"
CreciTaken == \E e \in Addresses : member[e].broker

\* Answers: an address was confirmed, a draft discarded, a registration refused.
Confirmed(d) == [answer |-> "verified", draft |-> d, email |-> NoAddress]
Discarded(d) == [answer |-> "discarded", draft |-> d, email |-> NoAddress]
Refused(e) == [answer |-> "refused", draft |-> NoDraft, email |-> e]

-----------------------------------------------------------------------------
(* A draft's life.                                                         *)

\* Faulty variant: only drafts without a password are looked for.
DiscardSomeExpired ==
    /\ draft' = [d \in Drafts |->
          IF Open(d) /\ draft[d].life = "over" /\ ~draft[d].password
          THEN [draft[d] EXCEPT !.status = "EXPIRED"] ELSE draft[d]]
    /\ UNCHANGED papers

\* Drafts that are over lose their password and their documents, whenever
\* anybody begins a new one; those marked EXPIRED before keep the password.
DiscardExpiredDrafts ==
    LET over == {d \in Drafts : Open(d) /\ draft[d].life = "over"}
        gone == over \cup {d \in Drafts : draft[d].status = "EXPIRED"}
    IN /\ draft' = [d \in Drafts |-> IF d \notin over THEN draft[d]
              ELSE [draft[d] EXCEPT !.status = "EXPIRED", !.password = FALSE]]
       /\ papers' = [d \in Drafts |-> IF d \in gone THEN NoFile ELSE papers[d]]

\* A bound of the model: a new draft needs one that was never used.
RoomForDraft == Cardinality({d \in draftLoad.drafts : draft[d].status = "none"})
             > Cardinality({q \in DraftRequests : signup[q].phase = "creating"})

\* createRegistrationDraft up to its checks.
BeginDraft(r, e, profile) ==
    /\ signup[r].phase = "idle"
    /\ DiscardExpiredDrafts
    /\ IF member[e].exists \/ (\E d \in Drafts : draft'[d].status = "OPEN" /\ draft'[d].email = e)
             \/ (profile = "broker" /\ CreciTaken) \/ ~RoomForDraft
       THEN UNCHANGED signup
       ELSE MoveSignup(r, [NoSignup EXCEPT !.phase = "creating", !.email = e, !.profile = profile])
    /\ UNCHANGED <<member, stored, replies, stops>>

\* One open draft by e-mail and one by CRECI: unique keys, or the INSERT fails.
CreateDraft(r, d, provider) ==
    /\ signup[r].phase = "creating"
    /\ draft[d].status = "none"
    /\ IF \E o \in Drafts :
             /\ Open(o)
             /\ \/ draft[o].email = signup[r].email
                \/ draft[o].profile = "broker" /\ signup[r].profile = "broker"
       THEN UNCHANGED draft
       ELSE draft' = [draft EXCEPT ![d] =
                [NoSuchDraft EXCEPT !.status = "OPEN", !.email = signup[r].email,
                    !.profile = signup[r].profile, !.provider = provider,
                    !.password = (provider = "email")]]
    /\ MoveSignup(r, NoSignup)
    /\ UNCHANGED <<papers, member, stored, replies, stops>>

\* Time passes.
Lapse(d) ==
    /\ draft[d].status # "none" /\ draft[d].life # "over"
    /\ draft' = [draft EXCEPT ![d].life = IF @ = "fresh" THEN "late" ELSE "over"]
    /\ UNCHANGED <<papers, member, stored, replies, signup, stops>>

\* resolveDraftContext, which most requests begin with, marks what it finds
\* to be over.
ExpireDraft(d) ==
    /\ Open(d) /\ draft[d].life = "over"
    /\ draft' = [draft EXCEPT ![d].status = "EXPIRED"]
    /\ UNCHANGED <<papers, member, stored, replies, signup, stops>>

Resolved(d) == Open(d) /\ draft[d].life # "over"

\* The draft goes on with a Firebase user; the e-mail of the context is not
\* among the columns updateDraftByDraftId writes.
UpsertFirebaseContext(d) ==
    /\ Resolved(d)
    /\ draft' = [draft EXCEPT ![d].provider = "firebase"]
    /\ UNCHANGED <<papers, member, stored, replies, signup, stops>>

BeginConfirmEmail(r, d) ==
    /\ signup[r].phase = "idle" /\ Resolved(d)
    /\ MoveSignup(r, On("confirming", d))
    /\ UNCHANGED <<draft, papers, member, stored, replies, stops>>

\* Faulty variant: the challenge is consumed, the draft is not written.
ConfirmChallengeOnly(r) ==
    /\ signup[r].phase = "confirming"
    /\ replies' = replies \cup {Confirmed(signup[r].draft)}
    /\ MoveSignup(r, NoSignup)
    /\ UNCHANGED <<draft, papers, member, stored, stops>>

\* The right code: the draft is marked if it is still open, and the client is
\* told so in either case.
ConfirmDraftEmail(r) ==
    LET d == signup[r].draft
    IN /\ signup[r].phase = "confirming"
       /\ draft' = IF Open(d) THEN [draft EXCEPT ![d].verified = TRUE] ELSE draft
       /\ replies' = replies \cup {Confirmed(d)}
       /\ MoveSignup(r, NoSignup)
       /\ UNCHANGED <<papers, member, stored, stops>>

-----------------------------------------------------------------------------
(* A broker's papers.                                                      *)

\* The files are stored before anything is asked about the draft.
UploadDraftDocuments(r, d, f) ==
    /\ signup[r].phase = "idle" /\ draft[d].status # "none"
    /\ f \notin stored
    /\ \A e \in Drafts : papers[e] # f
    /\ \A q \in DraftRequests : signup[q].file # f
    /\ \A e \in Addresses : member[e].papers # f
    /\ stored' = stored \cup {f}
    /\ MoveSignup(r, [On("uploaded", d) EXCEPT !.file = f])
    /\ UNCHANGED <<draft, papers, member, replies, stops>>

\* Any error takes the files back.
CheckDraftForDocuments(r) ==
    LET d == signup[r].draft
    IN /\ signup[r].phase = "uploaded"
       /\ IF Resolved(d) /\ draft[d].profile = "broker"
          THEN Go(r, "submitting") /\ UNCHANGED stored
          ELSE MoveSignup(r, NoSignup) /\ stored' = stored \ {signup[r].file}
       /\ UNCHANGED <<draft, papers, member, replies, stops>>

UpsertDraftDocuments(r) ==
    /\ signup[r].phase = "submitting"
    /\ papers' = [papers EXCEPT ![signup[r].draft] = signup[r].file]
    /\ Go(r, "submitted")
    /\ UNCHANGED <<draft, member, stored, replies, stops>>

\* Faulty variant: the files are taken back whatever the answer is.
AnswerAndCleanUp(r) ==
    /\ signup[r].phase = "submitted"
    /\ stored' = stored \ {signup[r].file}
    /\ MoveSignup(r, NoSignup)
    /\ UNCHANGED <<draft, papers, member, replies, stops>>

\* The draft is read again; one that was closed meanwhile is an error too.
AnswerDocuments(r) ==
    /\ signup[r].phase = "submitted"
    /\ stored' = IF Open(signup[r].draft) THEN stored ELSE stored \ {signup[r].file}
    /\ MoveSignup(r, NoSignup)
    /\ UNCHANGED <<draft, papers, member, replies, stops>>

-----------------------------------------------------------------------------
(* The end of a draft.                                                     *)

\* Before the transaction: open, in time, and its password in time.
BeginFinalize(r, d) ==
    /\ signup[r].phase = "idle" /\ Resolved(d)
    /\ draft[d].password => draft[d].life = "fresh"
    /\ MoveSignup(r, On("finalizing", d))
    /\ UNCHANGED <<draft, papers, member, stored, replies, stops>>

\* The subquery of the locking SELECT takes no lock itself.
FindOpenDraft(r) ==
    /\ signup[r].phase = "finalizing"
    /\ IF Open(signup[r].draft) THEN Go(r, "found") ELSE MoveSignup(r, NoSignup)
    /\ UNCHANGED <<draft, papers, member, stored, replies, stops>>

\* Faulty variant: the e-mail is not unique, an account is written again.
AcceptableAgain(d, submit) ==
    /\ draft[d].profile = "client" /\ draft[d].provider = "email" => draft[d].password
    /\ draft[d].profile = "broker" => ~CreciTaken /\ (submit => papers[d] # NoFile)

\* Everything under the lock; any refusal rolls it back.  A client with a
\* password of its own must still have it, a broker who submits documents must
\* have some, and the e-mail and the CRECI must be free.
Acceptable(d, submit) ==
    /\ draft[d].profile = "client" /\ draft[d].provider = "email" => draft[d].password
    /\ ~member[draft[d].email].exists
    /\ draft[d].profile = "broker" => ~CreciTaken /\ (submit => papers[d] # NoFile)

\* Faulty variant: the draft is closed whatever became of the account.
CompleteAnyway(r, submit) ==
    LET d == signup[r].draft
    IN /\ signup[r].phase = "found"
       /\ draft' = [draft EXCEPT ![d].status = "COMPLETED", ![d].password = FALSE]
       /\ member' = IF ~Acceptable(d, submit) THEN member ELSE
             [member EXCEPT ![draft[d].email] =
                [exists |-> TRUE, profile |-> draft[d].profile, password |-> draft[d].password,
                 verified |-> draft[d].verified, broker |-> draft[d].profile = "broker",
                 papers |-> NoFile, from |-> d]]
       /\ papers' = [papers EXCEPT ![d] = NoFile]
       /\ MoveSignup(r, NoSignup)
       /\ UNCHANGED <<stored, replies, stops>>

FinalizeDraft(r, submit) ==
    LET d == signup[r].draft
        broker == draft[d].profile = "broker"
    IN /\ signup[r].phase = "found"
       /\ IF Acceptable(d, submit)
          THEN /\ member' = [member EXCEPT ![draft[d].email] =
                     [exists |-> TRUE, profile |-> draft[d].profile,
                      password |-> draft[d].password, verified |-> draft[d].verified,
                      broker |-> broker, from |-> d,
                      papers |-> IF broker /\ submit THEN papers[d] ELSE NoFile]]
               /\ draft' = [draft EXCEPT ![d].status = "COMPLETED", ![d].password = FALSE]
               /\ papers' = [papers EXCEPT ![d] = NoFile]
          ELSE UNCHANGED <<member, draft, papers>>
       /\ MoveSignup(r, NoSignup)
       /\ UNCHANGED <<stored, replies, stops>>

BeginDiscard(r, d) ==
    /\ signup[r].phase = "idle" /\ Resolved(d)
    /\ MoveSignup(r, On("discarding", d))
    /\ UNCHANGED <<draft, papers, member, stored, replies, stops>>

DropDraftDocuments(r) ==
    /\ signup[r].phase = "discarding"
    /\ papers' = [papers EXCEPT ![signup[r].draft] = NoFile]
    /\ Go(r, "emptied")
    /\ UNCHANGED <<draft, member, stored, replies, stops>>

\* The UPDATE asks for an open draft, the answer does not.
DiscardDraft(r) ==
    LET d == signup[r].draft
    IN /\ signup[r].phase = "emptied"
       /\ draft' = IF Open(d) THEN [draft EXCEPT ![d].status = "DISCARDED", ![d].password = FALSE]
                   ELSE draft
       /\ replies' = replies \cup {Discarded(d)}
       /\ MoveSignup(r, NoSignup)
       /\ UNCHANGED <<papers, member, stored, stops>>

-----------------------------------------------------------------------------
(* Registration without a draft.                                           *)

\* With a password, or with a Google token, which verifies the address.
BeginRegister(r, e, profile) ==
    /\ signup[r].phase = "idle"
    /\ ~member[e].exists /\ (profile = "broker" => ~CreciTaken)
    /\ MoveSignup(r, [NoSignup EXCEPT !.phase = "registering", !.email = e, !.profile = profile])
    /\ UNCHANGED <<draft, papers, member, stored, replies, stops>>

InsertUser(r, google) ==
    LET e == signup[r].email
    IN /\ signup[r].phase = "registering"
       /\ IF member[e].exists
          THEN MoveSignup(r, NoSignup) /\ UNCHANGED member
          ELSE /\ member' = [member EXCEPT ![e] =
                     [NoMember EXCEPT !.exists = TRUE, !.profile = signup[r].profile,
                                       !.password = ~google, !.verified = google]]
               /\ IF signup[r].profile = "broker" THEN Go(r, "brokering") ELSE MoveSignup(r, NoSignup)
       /\ UNCHANGED <<draft, papers, stored, replies, stops>>

\* Faulty variant: the broker is left to a later request.
SkipBroker(r) ==
    /\ signup[r].phase = "brokering"
    /\ MoveSignup(r, NoSignup)
    /\ UNCHANGED <<draft, papers, member, stored, replies, stops>>

\* A statement of its own: when the CRECI was taken meanwhile the user stays,
\* and the client is told that the e-mail is in use.
InsertBroker(r) ==
    LET e == signup[r].email
    IN /\ signup[r].phase = "brokering"
       /\ IF CreciTaken
          THEN replies' = replies \cup {Refused(e)} /\ UNCHANGED member
          ELSE member' = [member EXCEPT ![e].broker = TRUE] /\ UNCHANGED replies
       /\ MoveSignup(r, NoSignup)
       /\ UNCHANGED <<draft, papers, stored, stops>>

-----------------------------------------------------------------------------
Stop ==
    /\ stops < draftLoad.stops
    /\ stops' = stops + 1
    /\ signup' = [r \in DraftRequests |-> NoSignup]
    /\ UNCHANGED <<draft, papers, member, stored, replies>>

DraftsInit ==
    /\ draftLoad \in DraftLoads
    /\ draft = [d \in Drafts |-> NoSuchDraft]
    /\ papers = [d \in Drafts |-> NoFile]
    /\ member = [e \in Addresses |-> NoMember]
    /\ stored = {}
    /\ replies = {}
    /\ signup = [r \in DraftRequests |-> NoSignup]
    /\ stops = 0

DraftStep(r) ==
    \/ \E e \in draftLoad.emails, profile \in Profiles : BeginDraft(r, e, profile)
    \/ \E d \in draftLoad.drafts, provider \in {"email", "firebase"} : CreateDraft(r, d, provider)
    \/ \E d \in Drafts :
          \/ BeginConfirmEmail(r, d) \/ BeginFinalize(r, d) \/ BeginDiscard(r, d)
          \/ \E f \in draftLoad.files : UploadDraftDocuments(r, d, f)
    \/ ConfirmDraftEmail(r)
    \/ CheckDraftForDocuments(r) \/ UpsertDraftDocuments(r) \/ AnswerDocuments(r)
    \/ FindOpenDraft(r) \/ \E submit \in BOOLEAN : FinalizeDraft(r, submit)
    \/ DropDraftDocuments(r) \/ DiscardDraft(r)

RegisterStep(r) ==
    \/ \E e \in draftLoad.emails, profile \in Profiles : BeginRegister(r, e, profile)
    \/ \E google \in BOOLEAN : InsertUser(r, google)
    \/ InsertBroker(r)

DraftChange ==
    \/ \E r \in draftLoad.requests : DraftStep(r) \/ RegisterStep(r)
    \/ \E d \in Drafts : Lapse(d) \/ ExpireDraft(d) \/ UpsertFirebaseContext(d)
    \/ Stop

DraftsNext == DraftChange /\ UNCHANGED draftLoad

DraftsSpec == DraftsInit /\ [][DraftsNext]_draftVars

\* Time passes, and somebody, somewhere, goes on beginning registrations.
FairDraftsSpec ==
    /\ DraftsSpec
    /\ \A d \in Drafts : WF_draftState(Lapse(d))
    /\ SF_draftState(\E r \in draftLoad.requests, e \in draftLoad.emails : BeginDraft(r, e, "client"))
    /\ \A r \in DraftRequests :
          WF_draftState(signup[r].phase # "idle" /\ (DraftStep(r) \/ RegisterStep(r)))

-----------------------------------------------------------------------------
Answer == [answer : {"verified", "discarded", "refused"},
           draft : Drafts \cup {NoDraft}, email : Addresses \cup {NoAddress}]

DraftTypes ==
    /\ draftLoad \in DraftLoads
    /\ draft \in [Drafts -> Draft]
    /\ papers \in [Drafts -> Files \cup {NoFile}]
    /\ member \in [Addresses -> Member]
    /\ stored \subseteq Files
    /\ replies \subseteq Answer
    /\ signup \in [DraftRequests -> Signup]
    /\ stops \in 0 .. MaxStops

\* A draft that is COMPLETED has become the account of its address, with the
\* broker it asked for, however two finalizations, a discard and a direct
\* registration of the same address overlap.
CompletedIsAccount ==
    \A d \in Drafts : draft[d].status = "COMPLETED" =>
        LET a == member[draft[d].email]
        IN a.exists /\ a.from = d /\ (a.broker <=> draft[d].profile = "broker")

\* A finalization is not repeated or undone: two drafts never make one account,
\* an account never changes the draft it came from, and that draft stays completed
\* whoever discards, confirms or expires it late.
KeepsOrigin ==
    /\ \A e \in Addresses :
          member[e].exists => member'[e].exists /\ member'[e].from = member[e].from
    /\ \A d \in Drafts : draft[d].status = "COMPLETED" => draft'[d].status = "COMPLETED"
AccountKeepsOrigin == [][KeepsOrigin]_draftVars

\* One request at a time: a code that was accepted for a draft verifies the
\* address of the account the draft becomes.
ConfirmedIsCarried ==
    \A d \in Drafts : Confirmed(d) \in replies /\ draft[d].status = "COMPLETED"
        => member[draft[d].email].verified

\* One request at a time, also when one is cut short by a crash: the papers of
\* a broker lead to files that are stored.
PapersAreStored == \A e \in Addresses : member[e].papers # NoFile => member[e].papers \in stored

\* A broker's account has its broker row, unless its direct registration is
\* still going on, was cut by a crash, or lost the CRECI to another.
BrokerHasRow ==
    \A e \in Addresses : member[e].exists /\ member[e].profile = "broker" =>
        \/ member[e].broker
        \/ \E r \in DraftRequests : signup[r].phase = "brokering" /\ signup[r].email = e
        \/ Refused(e) \in replies
        \/ stops > 0

\* Whatever overlaps, a COMPLETED draft is the account it asked for, and a
\* broker's account has its row or lost the CRECI (finalizeRegistrationDraft
\* beside discardRegistrationDraft and register).  One request at a time, an
\* accepted code is carried to the account and its papers are stored.
AccountsAreWhole ==
    /\ DraftTypes /\ CompletedIsAccount /\ BrokerHasRow
    /\ (\A r, q \in draftLoad.requests : r = q) => ConfirmedIsCarried /\ PapersAreStored

\* A draft nobody goes on with is closed at last, and its address and its
\* CRECI are free for another.
DraftIsClosed == \A d \in Drafts : Open(d) ~> ~Open(d)

-----------------------------------------------------------------------------
(* What the tests and the messages of these flows state.                   *)

\* "descarta rascunho e retorna status DISCARDED".
DiscardedIsDiscarded ==
    \A d \in Drafts : Discarded(d) \in replies => draft[d].status = "DISCARDED"

\* "Este email ja esta em uso.": who is told so has not just got the account.
RefusedHasNoAccount == \A e \in Addresses : Refused(e) \in replies => ~member[e].exists

\* "Rascunho nao esta aberto para finalizacao.": a closed draft stays closed.
ClosedStaysClosed ==
    [][\A d \in Drafts : draft[d].status \in {"DISCARDED", "EXPIRED", "COMPLETED"}
          => draft'[d].status = draft[d].status]_draftVars
=============================================================================
