------------------------------- MODULE Brokers -------------------------------
(***************************************************************************)
(* Brokers: who applies, who is approved, rejected, promoted or deleted,   *)
(* the documents that go with it and the listings that name a broker.      *)
(*                                                                         *)
(* What an administrator decides is one transaction under the user's lock. *)
(* What brokers do themselves, and the administrator's work on documents,  *)
(* are statements one by one; each is a step, and requests overlap.  Of    *)
(* three document columns one is modelled, and one CRECI is enough.        *)
(***************************************************************************)
EXTENDS Naturals, FiniteSets

CONSTANTS
    Users, NoUser,
    Listings,
    Scans, NoScan,   \* uploads, each used once
    BrokerRequests,  \* requests that may overlap
    MaxHalts,        \* bound on crashes
    BrokerLoads      \* what an instance has: which accounts and uploads, by which requests

ASSUME BrokersAssumption ==
    /\ NoUser \notin Users /\ NoScan \notin Scans /\ MaxHalts \in Nat
    /\ \A l \in BrokerLoads :
          /\ l.users \subseteq Users /\ l.files \subseteq Scans
          /\ l.requests \subseteq BrokerRequests /\ l.crashes \in 0 .. MaxHalts

VARIABLES
    brokerLoad, \* the one of BrokerLoads that a behaviour is about
    user,       \* the users that exist
    broker,     \* brokers: user -> row
    docs,       \* broker_documents: user -> row
    listing,    \* listings: whose, and who entered that
    kept,       \* files the storage holds
    used,       \* files that were ever uploaded
    step,       \* request -> where it is
    greeted,    \* brokers an administrator approved, and none has undone it
    edited,     \* accounts the clients' route edited while they were active brokers
    halts

brokerState == <<user, broker, docs, listing, kept, used, step, greeted, edited, halts>>
brokerVars == <<brokerLoad, brokerState>>

-----------------------------------------------------------------------------
BrokerStatus == {"none", "pending_verification", "approved", "rejected"}
ActiveStatus == {"pending_verification", "approved"}
Broker == [status : BrokerStatus, creci : BOOLEAN, profile : {"BROKER", "AUXILIARY_ADMINISTRATIVE"}]
NoBroker == [status |-> "none", creci |-> FALSE, profile |-> "BROKER"]
Docs == [status : {"none", "pending", "approved", "rejected"}, file : Scans \cup {NoScan}]
NoDocs == [status |-> "none", file |-> NoScan]

\* properties.broker_id, and whether the broker or an administrator wrote it.
Listing == [broker : Users \cup {NoUser}, by : {"broker", "admin"}]
NoListing == [broker |-> NoUser, by |-> "broker"]

BrokerPhase == {"idle", "upgrading", "reopening", "uploaded", "read", "documenting",
                "promoting", "adminUploaded", "adminRead", "erasing", "staffing", "editing", "listing"}
\* `read` is the broker's status, `old` the document, as the request saw them;
\* `creci` tells whether it writes the CRECI.
StepOf == [phase : BrokerPhase, user : Users \cup {NoUser}, read : BrokerStatus, creci : BOOLEAN,
            file : Scans \cup {NoScan}, old : Scans \cup {NoScan}, auxiliary : BOOLEAN]
NoStep == [phase |-> "idle", user |-> NoUser, read |-> "none", creci |-> FALSE,
         file |-> NoScan, old |-> NoScan, auxiliary |-> FALSE]

MoveStep(r, state) == step' = [step EXCEPT ![r] = state]
BeginStep(r, phase, u) == MoveStep(r, [NoStep EXCEPT !.phase = phase, !.user = u])
EndStep(r) == MoveStep(r, NoStep)

IsActive(u) == broker[u].status \in ActiveStatus
HasRow(u) == broker[u].status # "none"
CreciFree(u) == \A v \in Users \ {u} : ~broker[v].creci
WithDocs(u, status) == IF docs[u].status = "none" THEN docs
                       ELSE [docs EXCEPT ![u].status = status]
Unlisted(u) == [l \in Listings |-> IF listing[l].broker = u THEN NoListing ELSE listing[l]]
Upload(f) == f \notin used /\ used' = used \cup {f} /\ kept' = kept \cup {f}

-----------------------------------------------------------------------------
(* An administrator's decisions: one transaction under the user's lock.    *)

Approve(u) ==
    /\ HasRow(u)
    /\ broker' = [broker EXCEPT ![u].status = "approved"]
    /\ docs' = WithDocs(u, "approved")
    /\ greeted' = greeted \cup {u}
    /\ UNCHANGED <<user, listing, kept, used, step, edited, halts>>

\* Faulty variant: the listings keep the broker.
RejectOnly(u) ==
    /\ HasRow(u)
    /\ broker' = [broker EXCEPT ![u].status = "rejected"]
    /\ docs' = WithDocs(u, "rejected")
    /\ greeted' = greeted \ {u}
    /\ UNCHANGED <<user, listing, kept, used, step, edited, halts>>

Reject(u) ==
    /\ HasRow(u)
    /\ broker' = [broker EXCEPT ![u].status = "rejected"]
    /\ docs' = WithDocs(u, "rejected")
    /\ listing' = Unlisted(u)
    /\ greeted' = greeted \ {u}
    /\ UNCHANGED <<user, kept, used, step, edited, halts>>

\* The documents keep what was decided of them.
BackToPending(u) ==
    /\ HasRow(u)
    /\ broker' = [broker EXCEPT ![u].status = "pending_verification"]
    /\ greeted' = greeted \ {u}
    /\ UNCHANGED <<user, docs, listing, kept, used, step, edited, halts>>

\* updateBrokerAccount: a new CRECI, whatever becomes of the status.
UpdateBrokerAccount(u) ==
    /\ HasRow(u) /\ CreciFree(u)
    /\ broker' = [broker EXCEPT ![u].creci = TRUE]
    /\ UNCHANGED <<user, docs, listing, kept, used, step, greeted, edited, halts>>

\* Who has the CRECI is asked before the lock is taken.
BeginPromote(r, u) ==
    /\ step[r].phase = "idle" /\ CreciFree(u)
    /\ BeginStep(r, "promoting", u)
    /\ UNCHANGED <<user, broker, docs, listing, kept, used, greeted, edited, halts>>

Promote(r) ==
    LET u == step[r].user
    IN /\ step[r].phase = "promoting"
       /\ broker' = IF u \in user /\ ~IsActive(u) /\ CreciFree(u)
                    THEN [broker EXCEPT ![u].status = "approved", ![u].creci = TRUE] ELSE broker
       /\ greeted' = IF broker' = broker THEN greeted ELSE greeted \cup {u}
       /\ EndStep(r)
       /\ UNCHANGED <<user, docs, listing, kept, used, edited, halts>>

\* The routes of clients, brokers and users; the keys drop the broker and the
\* documents and clear the listings.
DeleteAccount(u, route) ==
    /\ u \in user
    /\ route = "client" => ~IsActive(u)
    /\ route = "broker" => HasRow(u)
    /\ user' = user \ {u}
    /\ broker' = [broker EXCEPT ![u] = NoBroker]
    /\ docs' = [docs EXCEPT ![u] = NoDocs]
    /\ listing' = Unlisted(u)
    /\ greeted' = greeted \ {u}
    /\ UNCHANGED <<kept, used, step, edited, halts>>

\* updateClientAccount takes no lock between its check and its UPDATE.
BeginUpdateClient(r, u) ==
    /\ step[r].phase = "idle" /\ u \in user /\ ~IsActive(u)
    /\ BeginStep(r, "editing", u)
    /\ UNCHANGED <<user, broker, docs, listing, kept, used, greeted, edited, halts>>

UpdateClient(r) ==
    LET u == step[r].user
    IN /\ step[r].phase = "editing"
       /\ edited' = IF u \in user /\ IsActive(u) THEN edited \cup {u} ELSE edited
       /\ EndStep(r)
       /\ UNCHANGED <<user, broker, docs, listing, kept, used, greeted, halts>>

-----------------------------------------------------------------------------
(* An administrator's work on a broker's documents.                        *)

\* In a transaction that locks nothing; the file is stored first.
AdminUpload(r, u, f) ==
    /\ step[r].phase = "idle" /\ HasRow(u)
    /\ Upload(f)
    /\ MoveStep(r, [NoStep EXCEPT !.phase = "adminUploaded", !.user = u, !.file = f])
    /\ UNCHANGED <<user, broker, docs, listing, greeted, edited, halts>>

\* Through another connection.
AdminReadDocs(r) ==
    /\ step[r].phase = "adminUploaded"
    /\ MoveStep(r, [step[r] EXCEPT !.phase = "adminRead", !.old = docs[step[r].user].file])
    /\ UNCHANGED <<user, broker, docs, listing, kept, used, greeted, edited, halts>>

\* A column that was sent is replaced, one that was not keeps what was read.
\* The file a replaced column named stays in the storage.
AdminWriteDocs(r, sent) ==
    LET u == step[r].user
    IN /\ step[r].phase = "adminRead"
       /\ docs' = IF ~HasRow(u) THEN docs ELSE
              [docs EXCEPT ![u] = [status |-> "pending",
                  file |-> IF sent THEN step[r].file ELSE step[r].old]]
       /\ EndStep(r)
       /\ UNCHANGED <<user, broker, listing, kept, used, greeted, edited, halts>>

\* The file is deleted before the row is written.
AdminDeleteFile(r, u) ==
    /\ step[r].phase = "idle" /\ docs[u].file # NoScan
    /\ kept' = kept \ {docs[u].file}
    /\ BeginStep(r, "erasing", u)
    /\ UNCHANGED <<user, broker, docs, listing, used, greeted, edited, halts>>

\* Faulty variant: the column keeps the name of the file.
KeepName(r) ==
    /\ step[r].phase = "erasing"
    /\ docs' = WithDocs(step[r].user, "pending")
    /\ EndStep(r)
    /\ UNCHANGED <<user, broker, listing, kept, used, greeted, edited, halts>>

AdminEraseColumn(r) ==
    LET u == step[r].user
    IN /\ step[r].phase = "erasing"
       /\ docs' = IF docs[u].status = "none" THEN docs
                  ELSE [docs EXCEPT ![u] = [status |-> "pending", file |-> NoScan]]
       /\ EndStep(r)
       /\ UNCHANGED <<user, broker, listing, kept, used, greeted, edited, halts>>

-----------------------------------------------------------------------------
(* New brokers.                                                            *)

\* createBrokerAccountAdmin, in one transaction; an administrator may approve
\* at once.
CreateBrokerWithDocs(u, f, status) ==
    /\ u \notin user /\ CreciFree(u)
    /\ Upload(f)
    /\ user' = user \cup {u}
    /\ broker' = [broker EXCEPT ![u] =
                    [status |-> status, creci |-> TRUE, profile |-> "BROKER"]]
    /\ docs' = [docs EXCEPT ![u] = [file |-> f,
                    status |-> IF status = "approved" THEN "approved" ELSE "pending"]]
    /\ greeted' = IF status = "approved" THEN greeted \cup {u} ELSE greeted
    /\ UNCHANGED <<listing, step, edited, halts>>

RegisterWithDocs(u, f) == CreateBrokerWithDocs(u, f, "pending_verification")

\* createUserAccountAdmin writes the user and the auxiliary in two statements
\* of no transaction, and register the user and the broker.
CreateUser(r, u, auxiliary) ==
    /\ step[r].phase = "idle" /\ u \notin user
    /\ user' = user \cup {u}
    /\ MoveStep(r, [NoStep EXCEPT !.phase = "staffing", !.user = u, !.auxiliary = auxiliary])
    /\ UNCHANGED <<broker, docs, listing, kept, used, greeted, edited, halts>>

Register(r, u) == CreateUser(r, u, FALSE)

InsertBrokerRow(r) ==
    LET u == step[r].user
    IN /\ step[r].phase = "staffing"
       /\ broker' =
            IF u \notin user \/ (~step[r].auxiliary /\ (HasRow(u) \/ ~CreciFree(u))) THEN broker
            ELSE [broker EXCEPT ![u] =
                IF step[r].auxiliary
                THEN [status |-> "approved", creci |-> FALSE, profile |-> "AUXILIARY_ADMINISTRATIVE"]
                ELSE [status |-> "pending_verification", creci |-> TRUE, profile |-> "BROKER"]]
       /\ greeted' = IF broker' # broker /\ step[r].auxiliary THEN greeted \cup {u} ELSE greeted
       /\ EndStep(r)
       /\ UNCHANGED <<user, docs, listing, kept, used, edited, halts>>

-----------------------------------------------------------------------------
(* What users ask for themselves.                                          *)

\* requestUpgrade: the reads.  A CRECI that is still on its card is null.
BeginUpgrade(r, u, creci) ==
    /\ step[r].phase = "idle" /\ u \in user
    /\ creci => CreciFree(u)
    /\ MoveStep(r, [NoStep EXCEPT !.phase = "upgrading", !.user = u, !.creci = creci,
                            !.read = broker[u].status])
    /\ UNCHANGED <<user, broker, docs, listing, kept, used, greeted, edited, halts>>

\* What the statement for a status that was read does to the row: INSERT for
\* none, back to pending for those in `reset`, the CRECI alone for the others.
Applied(u, read, creci, reset) ==
    IF (read = "none" /\ (HasRow(u) \/ u \notin user)) \/ (creci /\ ~CreciFree(u))
         \/ (read # "none" /\ ~HasRow(u)) THEN broker
    ELSE [broker EXCEPT ![u].creci = creci,
              ![u].status = IF read \in reset THEN "pending_verification" ELSE @]

\* Faulty variant: whatever the status was, the broker is verified again.
UpgradeAnybody(r) ==
    LET u == step[r].user
    IN /\ step[r].phase = "upgrading"
       /\ broker' = Applied(u, step[r].read, step[r].creci, BrokerStatus)
       /\ EndStep(r)
       /\ UNCHANGED <<user, docs, listing, kept, used, greeted, edited, halts>>

WriteUpgrade(r) ==
    LET u == step[r].user
        read == step[r].read
    IN /\ step[r].phase = "upgrading"
       /\ broker' = Applied(u, read, step[r].creci, {"none", "rejected"})
       /\ IF read = "rejected" /\ ~(step[r].creci /\ ~CreciFree(u))
          THEN MoveStep(r, [step[r] EXCEPT !.phase = "reopening"]) ELSE EndStep(r)
       /\ UNCHANGED <<user, docs, listing, kept, used, greeted, edited, halts>>

ReopenDocs(r) ==
    /\ step[r].phase = "reopening"
    /\ docs' = WithDocs(step[r].user, "pending")
    /\ EndStep(r)
    /\ UNCHANGED <<user, broker, listing, kept, used, greeted, edited, halts>>

\* uploadVerificationDocs: the files first, then the status is read, then the
\* broker is written, then the documents.
UploadVerificationDocs(r, u, f, creci) ==
    /\ step[r].phase = "idle" /\ u \in user
    /\ Upload(f)
    /\ MoveStep(r, [NoStep EXCEPT !.phase = "uploaded", !.user = u, !.file = f, !.creci = creci])
    /\ UNCHANGED <<user, broker, docs, listing, greeted, edited, halts>>

ReadBroker(r) ==
    /\ step[r].phase = "uploaded"
    /\ MoveStep(r, [step[r] EXCEPT !.phase = "read", !.read = broker[step[r].user].status])
    /\ UNCHANGED <<user, broker, docs, listing, kept, used, greeted, edited, halts>>

\* An error leaves the files where they are.
WriteBroker(r) ==
    LET u == step[r].user
        fails == (step[r].creci /\ ~CreciFree(u))
                   \/ (step[r].read = "none" /\ (HasRow(u) \/ u \notin user))
    IN /\ step[r].phase = "read"
       /\ broker' = Applied(u, step[r].read, step[r].creci, BrokerStatus \ {"approved"})
       /\ IF fails THEN EndStep(r) ELSE MoveStep(r, [step[r] EXCEPT !.phase = "documenting"])
       /\ UNCHANGED <<user, docs, listing, kept, used, greeted, edited, halts>>

WriteVerificationDocs(r) ==
    LET u == step[r].user
    IN /\ step[r].phase = "documenting"
       /\ docs' = IF HasRow(u)
                  THEN [docs EXCEPT ![u] = [status |-> "pending", file |-> step[r].file]]
                  ELSE docs
       /\ EndStep(r)
       /\ UNCHANGED <<user, broker, listing, kept, used, greeted, edited, halts>>

\* A bound of the model: a listing of `Listings` is left for every request.
HasFreeListing == Cardinality({l \in Listings : listing[l].broker = NoUser})
             > Cardinality({q \in BrokerRequests : step[q].phase = "listing"})

\* A listing is checked, then its media is uploaded, then it is inserted.
BeginListing(r, u) ==
    /\ step[r].phase = "idle" /\ broker[u].status = "approved" /\ HasFreeListing
    /\ BeginStep(r, "listing", u)
    /\ UNCHANGED <<user, broker, docs, listing, kept, used, greeted, edited, halts>>

\* Faulty variant: no foreign key.
InsertListingOfAnybody(r, l) ==
    LET u == step[r].user
    IN /\ step[r].phase = "listing" /\ listing[l].broker = NoUser
       /\ listing' = [listing EXCEPT ![l] = [broker |-> u, by |-> "broker"]]
       /\ EndStep(r)
       /\ UNCHANGED <<user, broker, docs, kept, used, greeted, edited, halts>>

InsertListing(r, l) ==
    LET u == step[r].user
    IN /\ step[r].phase = "listing" /\ listing[l].broker = NoUser
       /\ listing' = IF HasRow(u) THEN [listing EXCEPT ![l] = [broker |-> u, by |-> "broker"]]
                     ELSE listing
       /\ EndStep(r)
       /\ UNCHANGED <<user, broker, docs, kept, used, greeted, edited, halts>>

\* An administrator names any broker there is, whatever his status: the INSERT
\* reads nothing, and the foreign key asks for the row alone.
AdminCreateListing(u, l) ==
    /\ HasRow(u) /\ listing[l].broker = NoUser /\ HasFreeListing
    /\ listing' = [listing EXCEPT ![l] = [broker |-> u, by |-> "admin"]]
    /\ UNCHANGED <<user, broker, docs, kept, used, step, greeted, edited, halts>>

-----------------------------------------------------------------------------
Halt ==
    /\ halts < brokerLoad.crashes
    /\ halts' = halts + 1
    /\ step' = [r \in BrokerRequests |-> NoStep]
    /\ UNCHANGED <<user, broker, docs, listing, kept, used, greeted, edited>>

\* Everybody is a client.
BrokersInit ==
    /\ brokerLoad \in BrokerLoads
    /\ user = brokerLoad.users
    /\ broker = [u \in Users |-> NoBroker]
    /\ docs = [u \in Users |-> NoDocs]
    /\ listing = [l \in Listings |-> NoListing]
    /\ kept = {} /\ used = {}
    /\ step = [r \in BrokerRequests |-> NoStep]
    /\ greeted = {} /\ edited = {}
    /\ halts = 0

Decide(u) ==
    \/ Approve(u) \/ Reject(u) \/ BackToPending(u) \/ UpdateBrokerAccount(u)
    \/ \E route \in {"client", "broker", "user"} : DeleteAccount(u, route)
    \/ \E f \in brokerLoad.files : RegisterWithDocs(u, f) \/ CreateBrokerWithDocs(u, f, "approved")
    \/ \E l \in Listings : AdminCreateListing(u, l)

Ask(r, u) ==
    \/ BeginPromote(r, u) \/ BeginUpdateClient(r, u) \/ AdminDeleteFile(r, u) \/ BeginListing(r, u)
    \/ Register(r, u) \/ CreateUser(r, u, TRUE)
    \/ \E creci \in BOOLEAN :
          BeginUpgrade(r, u, creci) \/ \E f \in brokerLoad.files : UploadVerificationDocs(r, u, f, creci)
    \/ \E f \in brokerLoad.files : AdminUpload(r, u, f)

Continue(r) ==
    \/ Promote(r) \/ UpdateClient(r)
    \/ AdminReadDocs(r) \/ (\E sent \in BOOLEAN : AdminWriteDocs(r, sent)) \/ AdminEraseColumn(r)
    \/ InsertBrokerRow(r)
    \/ WriteUpgrade(r) \/ ReopenDocs(r)
    \/ ReadBroker(r) \/ WriteBroker(r) \/ WriteVerificationDocs(r)
    \/ \E l \in Listings : InsertListing(r, l)

\* A decision is a request too.
BrokersChange ==
    \/ \E r \in brokerLoad.requests, u \in brokerLoad.users :
          Ask(r, u) \/ (step[r].phase = "idle" /\ Decide(u))
    \/ \E r \in brokerLoad.requests : Continue(r)
    \/ Halt

BrokersNext == BrokersChange /\ UNCHANGED brokerLoad

BrokersSpec == BrokersInit /\ [][BrokersNext]_brokerVars

-----------------------------------------------------------------------------
BrokerTypes ==
    /\ brokerLoad \in BrokerLoads
    /\ user \subseteq Users
    /\ broker \in [Users -> Broker]
    /\ docs \in [Users -> Docs]
    /\ listing \in [Listings -> Listing]
    /\ kept \subseteq used /\ used \subseteq Scans
    /\ step \in [BrokerRequests -> StepOf]
    /\ greeted \subseteq Users /\ edited \subseteq Users
    /\ halts \in 0 .. brokerLoad.crashes

\* A deleted account leaves no broker, no documents and no listing that names
\* it, whatever the requests that were going on when it was deleted do next.
DeletedLeavesNothing ==
    \A u \in Users \ user :
        broker[u] = NoBroker /\ docs[u] = NoDocs /\ \A l \in Listings : listing[l].broker # u

\* One request at a time: an approval is taken back by an administrator or
\* with the account, never by what the broker sends in.
ApprovalStands == \A u \in greeted : broker[u].status = "approved"

\* One request at a time: who is not an active broker has no listing that he
\* entered, also after an approval was taken back and asked for again.  What an
\* administrator enters names whom he likes (createAdminProperty).
OnlyBrokersList ==
    \A l \in Listings :
        listing[l].broker # NoUser /\ listing[l].by = "broker" => IsActive(listing[l].broker)

\* One request at a time and no crash: a document's row names a stored file.
DocumentsAreStored ==
    \A u \in Users : docs[u].file # NoScan =>
        \/ docs[u].file \in kept
        \/ \E r \in BrokerRequests : step[r].phase = "erasing" /\ step[r].user = u

\* A deleted account leaves nothing that names it, whatever overlaps with its
\* deletion.  One request at a time, nothing a broker sends in takes his approval
\* back (uploadVerificationDocs, requestUpgrade), who is not an active broker has
\* no listing that he entered himself, and the row of his documents names a stored
\* file if nothing stops.
BrokersHold ==
    /\ BrokerTypes /\ DeletedLeavesNothing
    /\ (\A r, q \in brokerLoad.requests : r = q) =>
          /\ ApprovalStands /\ OnlyBrokersList
          /\ brokerLoad.crashes = 0 => DocumentsAreStored

-----------------------------------------------------------------------------
(* What the tests and the messages state.                                  *)

\* "lista corretores pendentes com documentos completos".
InPendingList(u) ==
    /\ broker[u].status = "pending_verification"
    /\ docs[u].status \in {"pending", "rejected"}
    /\ docs[u].file # NoScan
PendingIsListed ==
    \A u \in Users : broker[u].status = "pending_verification" /\ docs[u].file # NoScan
        => InPendingList(u)

\* "Sua conta voltou para cliente.": a rejected broker's listings are his no longer.
RejectedIsClient ==
    \A l \in Listings :
        listing[l].broker # NoUser => broker[listing[l].broker].status # "rejected"

\* "Use a rota de corretores para editar uma conta ativa de corretor."
ClientRouteEditsClients == edited = {}

\* "Parabens, voce se tornou corretor cadastrado na Encontre Aqui.": nobody but
\* an administrator changes that.
GreetedIsBroker == ApprovalStands
=============================================================================
