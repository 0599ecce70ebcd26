# A TLA+ model of the Encontre Aqui Imóveis backend

The repository is a real-estate backend: Express handlers in TypeScript over
MySQL/TiDB, with documents in Cloudflare R2, images in Cloudinary, e-mail and push
providers, and an optional BullMQ queue.  Brokers and clients register, advertise
listings and make proposals; administrators review listings, decide proposals, and
take a contract through documents, draft, signatures and finalization.  This
directory models what is hard in it: handlers written apart that meet in shared
rows, most of them as single statements outside a transaction.

Paths are relative to `src/src/` unless they start with `src/`.

## Inventory

| Component | State | Hard behaviour | What makes it correct |
|---|---|---|---|
| Negotiations (`services/negotiationProposal*`, `negotiationSignedProposalService`, `adminNegotiation*`) | `negotiations`, signed proposal in `negotiation_documents`, `negotiation_proposal_idempotency` | competing proposals and retries; decisions that write the listing too; lock order; storage before the row | one open proposal per listing; in progress only with a contract; a cancellation gives the listing back; a retry gives the first answer |
| Contracts (`controllers/ContractController`, `services/contract*`) | `contracts.status`, both approvals, documents, `workflow_metadata` | stage and approvals written by seven handlers; two reviews that compute approvals differently | never ahead of its approvals; no stale evidence; finalized only when complete |
| Contract data | party data, commission, signature method, responsible | routes that read fewer columns than they decide by | a method belongs to a signing; a finalized sale is fully split |
| Listings (`services/property*`, `adminProperty*`) | `properties`, `sales`, `featured_properties`, media | SELECT and UPDATE without a lock; status, visibility, lifecycle and sale in separate statements; files outside transactions | a sale has its row; uploaded media that show are stored; no decision undoes a sale |
| Edit requests | `property_edit_requests` | partial approval against a listing changed since | a promotion is below its price; one request waits |
| Document queue (`services/negotiationDocument{Storage,Deletion}Service`) | document rows, R2 objects, `negotiation_document_deletion_jobs`, a flag in memory | overlapping runs, backoff, crash | a live row has its object; a removed one's object goes |
| Proposal PDFs (`modules/negotiations/infra/Pdf*`) | BullMQ jobs | an attempt that fails after it saved; worker that dies | every job ends, and tells how |
| E-mail codes (`services/emailCode*`, `authVerification*`) | `email_code_challenges` | limits read before an insert; attempts counted from a row read before | only the latest code counts; limits hold up to the overlap; nobody is shut out for good |
| Registration (`services/registrationDraft*`, `controllers/AuthController`, `RegistrationDraftController`) | `registration_drafts`, `users`, `brokers`, papers | drafts discarded, expired and finalized at once; two-statement registration | one account per draft, whole |
| Sessions and brokers (`middlewares/auth`, `services/authSessionOperations`, `adminBroker*`, `adminAccount*`, `controllers/BrokerController`) | `token_version`, broker status and documents | logins beside resets; two status columns; listings created while the broker is rejected | an ended session is refused; only active brokers enter listings of their own |
| Notices (`services/*Notification*`, `controllers/UserController`) | `notifications`, `support_requests` | cooldown read before the insert; push that fails half way | nobody left out; not told twice |
| Schema (`database/migrationRunner`, `migrations`, `server.ts`) | `schema_migrations`, columns, keys | no transaction; two servers; rollback | serving means migrated |
| Connection pool (`database/connection`) | ten connections | nested acquisition without a timeout | no connection lost; requests end unless the pool is exhausted |
| Negotiation state classes, HTTP layer, dashboards, directories | - | not modelled, see below | - |

Components interact only through the database and the object storages; there are no
events between services.  The exceptions are `deletionWorkerRunning`, a flag of the
process, document lists that a handler keeps in memory after its commit, and the
BullMQ queue.  `PROJECT.json` lists under "hazards" where this goes wrong in ways a
unit test hardly reaches, with the properties that watch each.

## Modules

| Module | Models | State and steps |
|---|---|---|
| `DealState`, `NegotiationOps`, `ContractOps`, `PropertyOps`, `Deals` | negotiations, contracts, listings together | rows, one action per transaction; unlocked listing writes in two |
| `ContractStages` | abstract specification: a contract as a broker sees it | stage, whether both sides are cleared, papers on file |
| `ContractReview` | documents by side and category, the rule matrix, both reviews | every handler locks the contract and is one step; implements `ContractStages` and the reviews of `ContractOps`; `load` fixes which reviews a behaviour uses |
| `ContractParties` | party data, signing method, commission, responsible | one step per request, by each role at each stage |
| `ProposalSubmission` | proposals with idempotency keys, edits, removals; decisions and contracts as they change a proposal | one step per statement of a submission or an edit, one per decision; row locks, deadlocks, crashes, failing services |
| `SignedProposal` | the upload of the signed proposal | places of an upload between storage, row, commit, notice |
| `PdfJobs` | requests for PDFs, queue, worker, fallback | job with attempts; request, connection, PDF, save and notice may fail |
| `DocumentDeletion` | document rows, objects, queue, worker | timer, overlapping runs, claims, backoff, crashes |
| `EmailCodes` | codes of accounts, drafts and resets | SELECT and UPDATE apart; clock in ticks |
| `Registration` | drafts and direct registration, by the requests and addresses of `draftLoad` | statements apart, finalization one transaction |
| `Brokers` | applications, decisions, documents, listings, deletion | administrators' decisions one step, brokers' requests statement by statement; `brokerLoad` fixes the accounts, files and requests |
| `Sessions` | logins, tokens, versions, profile | read, compare and sign apart |
| `PropertyEdits` | edit requests and direct updates | prices, promotions, purpose, area; field by field review; `editLoad` fixes who edits which fields |
| `ListingMedia` | creation, images, video, codes, URLs of a body | uploads, rows and erasures apart, an update's statements too; `mediaLoad` fixes the kinds of request and who makes them |
| `DealClosing` | close, cancel, relist, status changes, featured places | routes that read before they write in two steps or more; `load` fixes the routes and requests of a behaviour |
| `Notifications`, `SupportRequests` | dispatch, list, reading; support | per role: filter, insert, push; a request reads its role, then the notices; `noticeLoad` fixes users, readers and dispatches |
| `SchemaStartup`, `FeaturedScope` | start of any number of servers, files, rollback of any recorded one; the change of one table | a statement a step |
| `ConnectionPool` | pool and the four shapes of handlers | ask, queue, lock, commit, release |
| `*_proofs` | theorems, see below | |

The `MC` modules are instances for TLC.  They EXTEND the components whose properties
are also proved, so that a run and a theorem speak of one definition, and INSTANCE
the others.  A definition whose comment begins with
"Faulty variant" is no part of any specification: it is its neighbour with a
plausible mistake, kept to show that a property notices the mistake
(`PROJECT.json`, "mutants").

Granularity follows the code.  Where a service locks its rows before it decides, a
transaction is one step, and a failing one rolls back and is a step not taken.
Where it does not, each statement and each call of a storage or a provider is a
step, and `request` (or `at`, `proc`, `step`) says where a request stands and what
it has read.  Who asks is left out where it only refuses requests; form fields are
two values where no guard reads more.

*Deals.*  `property` holds three columns, `negotiation` the status or `"NONE"`,
`contract` the status of the one contract a negotiation can have, `approval` both
sides, `docs` how many documents of each kind that some guard counts, `pending`
writes decided and not yet made: `Begin...` adds one and `CompleteWrite` makes it.
A category review sets the approvals to any pair; `ContractReview` computes them
from the documents, and its steps are shown to be among those of `Deals`
(`KeepsDealSteps`).  `PROPOSAL_DRAFT`, `CONTRACT_DRAFTING` and `AWAITING_SIGNATURES`
of negotiations are read by deployed code and never written.

*Document queue.*  A document and its object share an identifier: storage keys are
random and never reused.  Time is counted in ticks of the 15-second timer; the first
backoff is two ticks and doubles to `MaxWait`; `attempts` is capped where the
backoff no longer grows, which changes no behaviour.  A failing call to R2 is no
fault, it is the normal cause of a retry.

*Codes and drafts.*  Ages are counted in ticks up to the window; a request is much
shorter than a tick.  Codes are right or wrong, not digits.

*Media.*  `stored` are the files in the storage, `named` those whose URL some body has
brought; that a URL has the right prefix is all the code asks of it, so it may be that of a
file there or of one that was erased or never stored.  A listing's rows are a set: of a
named URL there may be several rows, so what removing one of them leaves of the URL, and
whether it was the last image, stay open (`DeleteImage`, `HasSeveral`).

*Proposals.*  `FOR UPDATE` and unique keys are locks that another request waits for;
a cycle of waits ends as InnoDB ends it, one transaction rolled back
(`BreakDeadlock`).  Objects stored outlive a rollback.  Decisions and the contract's
handlers take the negotiation and the listing in their first statement and are one step
each.  Of a proposal they keep whether it has a contract and whether its history says that
an administrator rejected it; the stage of the contract and the signed PDF are left open,
so each of these steps may always happen that some stage allows, and `Deals` has the
stages.  An answer is told apart where a property needs it: a proposal exists, or not.
Refused and cancelled are one status, `closed`, and sold and rented one, `dealt`.

## Runs

A suite module puts components that share no state side by side: `focus` names the
instance a behaviour is about, the others stay where they start, so that one run
covers several small instances and a counterexample is of one of them.

| Run | About | Instances | States, time |
|---|---|---|---|
| `deals` | competing negotiations | 1 listing, 2 negotiations, APPROVED and REJECTED, 1 document of a kind, symmetric | 548 194, 100 s |
| `race` | unlocked writes, all decisions, several documents; `Deals` implements `ContractStages` | 1 negotiation, 1 handler in flight, 2 documents of a kind | 293 891, 90 s |
| `queue` | safety of the queue under overlap and faults | 2 documents, 2 runs, 1 fault, limit 2 | 83 781, 10 s |
| `accounts` | e-mail codes, sessions | 3 challenges, limit 1, 2 requests that overlap, a stop; 1 account, 1 address, versions to 2 | 1 751 594, 145 s |
| `registrations` | drafts, brokers | 2 drafts 1 address 1 request; 1 draft 2 addresses 2 requests; 2 users 2 files 1 request; 1 user 1 file 2 requests, a crash | 2 335 951, 140 s |
| `listings` | edits, media, deals | four sets of fields; the media of 2 listings by 2 requests with 4 files, by 1 that creates too, by 1 with a URL in the bodies of creations and updates, by 2 with URLs of 2 files in those of updates; 2 requests 3 sale rows by three sets of routes | 1 223 687, 100 s |
| `contracts` | reviews, parties | 3 kinds of documents, one of a category by every route, by those of the category review with NOT_APPLICABLE too or with two documents of each; every role and stage | 367 758, 180 s |
| `proposals` | submissions, signed uploads | 2 requests, 2 people, 2 proposals, 3 PDFs, 1 fault; 3 uploads, 3 faults; symmetry of both | 254 076, 55 s |
| `platform` | schema, featured, notices, support | 2 servers, 4 columns, 2 files, 1 rollback of either, 1 fault; 3 calls, 2 faults; 2 users of whom 1 reads and 1 dispatch, or 1 user and 2 dispatches; 4 requests | 1 559 222, 100 s |
| `progress` | pool, codes, drafts, PDF jobs in the end | 4 handlers, 3 connections, 2 rows; 3 codes; 1 draft; 2 users, 2 faults | 172 121, 185 s |
| `retries` | proposals that lose locks, deletions that fail for ever | 2 requests, 1 fault; 3 jobs of which 2 never succeed, limit 1 | 219 520, 145 s |
| `refused_stays` | a message the code does not keep, see below | as `race`, without handlers | violation |

Properties of the suites are conjunctions of the components' own properties, named
part by part: in the component's module where the conjunction is proved too
(`SessionsHold`, `CodesHold`, `AccountsAreWhole`, `BrokersHold`, `SubmissionsHold`,
`DealsHold`, `MediaHold`, `EditsHold`, `ReviewsAreOrderly`, `PartiesHold`, `SchemaHolds`,
`NoticesHold`, `PoolIsSound`), otherwise in the MC module.  A mutant is listed for each part that says most.

**Bounds.**  Rivalry needs two actors on one row, and two is what the overlapping
instances have; no guard compares three.  Two negotiations: every guard quantifies
over rivals or counts them against one (the proofs hold for any number).  Two
documents of a kind tell "one of several is deleted" from "the last one is".  One
unlocked handler is enough for a stale write; several write one after the other
what each read.  Limits of the code (5 codes, 5 attempts, 20 images, 10 connections,
15 minutes, 24 hours, 6 hours) are reduced to 1-4 so that they are reached; the
guards compare with the constant alone.  Three connections are fewer than four
handlers want, so exhaustion happens.  In `retries` two hopeless jobs exceed the
limit of one, so a backoff that did not grow would shut the third out.  Crash and
fault bounds of one to three put a failure at every step, and a second at the
recovery from the first where the handler has one.  `MaxVersion`, `MaxCode`,
`MaxNotices`, `MaxDocuments` and the like end a behaviour and appear in the guards
only.

Some properties say "one request at a time" and are checked in an instance with one
request, because overlaps break them; the overlapping instance then checks what is
left.  The pairs are `CodesServe` and `CodesHold` (what one request keeps, what overlaps
keep), and the invariants that name what they say by what an instance has:
`AccountsAreWhole` by the requests of `draftLoad`, `BrokersHold` and `MediaHold` by those
of `brokerLoad` and `mediaLoad`, `DealsHold` by the routes and requests of `load`,
`EditsHold` by who edits and which fields, in `editLoad`.  What overlaps break, where the
code promises more, is listed below.

Deadlock is checked in `deals`, `race`, `queue`, `accounts`, `registrations` and
`retries`.  The other suites have `CHECK_DEADLOCK FALSE`: requests, uploads and jobs
there end, and in `progress` the handlers of the pool really block each other.

### Fairness

| Run | Assumed | Why |
|---|---|---|
| `progress`, pool | `WF` of each handler's next step | a handler that has what it awaits goes on; InnoDB times out a wait for a row; nothing is assumed of the pool's queue |
| `progress`, codes | `WF` of the clock and of a request's next statement | time passes; Node runs what is ready |
| `progress`, drafts | `WF` of the lapse of a draft and of a begun request, `SF` of a new draft of the address | nobody goes on with the draft, and somebody returns to the address: only a creation closes old drafts |
| `progress`, jobs | `WF` of the worker | BullMQ gives a waiting or stalled job to a worker |
| `retries`, proposals | `WF` of deadlock detection, `SF` of a request's statement | InnoDB; a lock released again and again is got |
| `retries`, queue | `WF` of timer, run and cleanup, `SF` of a deletion that the storage does not refuse for good; `Prompt`: a run ends before the next tick | `setInterval`; nothing in them waits on another actor |

Crashes are not fair, and `MaxFaults = 0` in the queue part of `retries`: after a
crash the property is false, which `StuckByFault` and `ForgottenByFault` say.

## What the checks show

*Deals.*  A contract never gets ahead of its approvals (`ApprovalsBehindStage`),
keeps its draft while out for signature (`DraftBehindSignatures`: only because both
approvals block the general deletion route), and is finalized with every paper
(`FinalizationIsComplete`) collected in this round (`NoStaleEvidence`).  A finalized
contract keeps its negotiation sold or rented until it is reopened (`DealtIsKept`).
A negotiation in progress has a contract, a listing at most one active negotiation
without (`InProgressHasContract`, `AtMostOneOpenProposal`); it may have two in
progress, since approving one leaves a rival that is already in progress alone.  A
listing under negotiation is hidden and available (`UnderNegotiationIsHeld`), which
is why the guard on closed listings never swallows the update of a cancellation
(`CancellationRelists`), and no decision reverts a sale (`DecisionsKeepSales`).

*Reviews.*  Both reviews implement the abstract life of a contract, and the steps by
which `Deals` reviews one without its documents (`ReviewsAreOrderly`).  By category it
enters its draft with a document of every required category, each approved or found not
to apply, and one approved on each side (`Gated`); by side it does so on two answers,
whatever was sent.

*Document queue.*  Overlapping runs are harmless: no live row loses its object
(`LiveIsReadable`), DONE means erased (`DoneIsErased`).  A crash is not: a job stays
in PROCESSING, which nothing reclaims (`StuckByFault`), and the objects of a batch
not yet enqueued are forgotten (`ForgottenByFault`).  Growing backoff keeps hopeless
jobs from starving the rest (`RemovedIsErased`).

*Proposals.*  `OneOpenProposal` survives retries, crashes, decisions and a deletion at
any statement, because the listing is locked before its negotiations are looked at: one
active proposal at most has no contract, and only its contract brings one back beside it.
A key and its proposal name each other through approval, refusal for a rival, cancellation
and sale; only a rejection by an administrator and a deletion free it
(`KeysNameProposals`), so a client that repeats its key after a cancellation is answered
with the old proposal.  A repeated request never collides with the proposal of its own key
(`RetryIsNoConflict`), but for one that was rejected, which lost the key, and that the
contract brought back.  `updateProposal` locks in the other order: the deadlock happens,
also between two edits of one person's proposals, InnoDB ends it, and every request ends
(`EveryRequestEnds`).  A failing signed upload leaves an object
nothing names only when a fault hit it after the storage (`SignedSafety`).  A PDF job
ends and tells how; it may save twice, never silently (`PdfsEnd`).

*Pool.*  Handlers that hold a connection and ask for another can take the whole pool
and wait for ever; `RequestsEnd` says this is the only way a request does not end,
and how many handlers the pool carries without it.

*Codes and sessions.*  Limits hold up to the number of requests that overlapped
(`LimitHolds`), only the latest code resets, and cooldown, limit, lock and expiry
never add up to shutting an address out (`CodesServe`).  An ended session stays
ended although logins, resets and logouts interleave (`SessionsHold`).

*Registration and brokers.*  A draft gives one account whatever closes it meanwhile
(`AccountsAreWhole`, `AccountKeepsOrigin`), and is closed in the end if its address
comes back (`DraftIsClosed`).  A deleted account leaves nothing that names it, and,
one request at a time, a listing a broker entered himself names him only while he is
active (`BrokersHold`).  A listing an administrator enters names any broker there is,
whatever his status: createAdminProperty (services/adminPropertyCreationService.ts:497)
takes the broker of the body, and only the foreign key asks for his row.

*Listings.*  Approved fields of an edit never make a promotion dearer than its
price, whichever are approved, and neither does a direct update that is alone and
leaves `price` (`EditsHold`); a sale has its one row however closing,
cancelling and relisting overlap (`DealsHold`).  An image or a video that was uploaded is
stored as long as it shows, whatever stops between upload, row and erasure (`MediaHold`),
unless a body has named its URL: creations take URLs beside the uploads
(services/adminPropertyCreationService.ts:547, services/propertyCreationService.ts:700) and
updateProperty puts those of its body in the place of all images
(services/propertyUpdateService.ts:1000), without asking whether the file is there.  Of a
named file nothing is promised: it may never have been stored, and when one listing erases
it another may still show it.  Nor does updateProperty ask how many images there are, or
that there is one; it leaves the replaced files in the storage.

*Platform.*  A server that listens ran every file (`SchemaHolds`), the change of the
featured listings is complete unless something failed or overlapped
(`CompleteUnlessDisturbed`), and notices are repeated only by dispatches that
overlapped (`NoticesHold`).  A request to list, read or read all asks for the role of its
user in one query and uses it in the next (controllers/UserController.ts:1445, 1493, 1525),
so what is promised of the notices of another role is bounded by that: a request deletes
notices of the one role that its user had when it began.  A user who stops being a broker
in between does lose a broker's notices.

## Where the code and its texts disagree

The modules state what messages, comments, documents and tests of the repository
promise, also where the code does something else.  TLC finds each property below
violated in an instance of its module with bounds of the size above; naming it as
an INVARIANT or PROPERTY of such an instance shows the behaviour.  One is kept as a
run, `refused_stays`, because it leaves rows of three components that contradict
each other.

*`Deals`*

- `RefusedStaysRefused` (services/contractSideReviewService.ts:766).  evaluateContractSide
  sets the negotiation of a contract to IN_NEGOTIATION when a side is rejected, whatever its
  status: a cancelled or refused negotiation, whose contract stays in AWAITING_DOCS, is in
  progress again. services/adminNegotiationMutationService.ts:143 says 'Não é possível
  aprovar uma negociação encerrada.' and the decisions treat CANCELLED and REFUSED as
  closed.
- `ContractFollowsApproval` (services/contractCreationService.ts:26).
  createContractFromApprovedNegotiation accepts DOCUMENTATION_PHASE, the status the upload
  of a signed proposal gives before any approval, while its error message at
  services/contractCreationService.ts:84 says 'A negociação precisa estar aprovada antes da
  criação do contrato.'
- `RelistedIsShown` (services/adminPropertyCatalogService.ts:562).  relistProperty sets
  status = 'approved' and leaves visibility and lifecycle_status: a listing that a
  negotiation or a deletion hid stays hidden, and one whose negotiation is recorded as sold
  stays blocked. The answer at services/adminPropertyCatalogService.ts:586 says 'Imóvel
  disponibilizado novamente com sucesso.'
- `StatusApprovalIsShown` (services/adminPropertyReviewService.ts:413).
  updatePropertyStatus writes the status column alone, so a rejected or resubmitted listing,
  which is HIDDEN, stays so; the owner is told at services/adminPropertyReviewService.ts:433
  that it 'foi aprovado e ja esta disponivel no app.'
- `OnlyRejectedIsResubmitted` (services/propertyLifecycleService.ts:157).
  resubmitRejectedProperty reads the status without a lock and writes pending_approval
  unconditionally: a listing approved in between is hidden and sent back to review.
  services/propertyLifecycleService.ts:155 says 'Somente imoveis rejeitados podem ser
  reenviados desta forma.'
- `PendingIsNotEdited` (services/propertyUpdateService.ts:998).  updateProperty checks the
  status it read at the start and updates later without a lock or a condition: an edit read
  before a resubmission ends the review it started. services/propertyUpdateService.ts:195
  says 'Imóveis pendentes não podem ser editados até o fim da análise.'

*`EmailCodes`*

- `DraftLimitHolds` (services/emailCodeChallengeService.ts:167).  issueEmailCodeChallenge
  pushes the draft id and its token between the email and the purpose, for a condition the
  query never includes (only 'AND user_id IS NULL' is added): the placeholder of the purpose
  gets the draft id, no row matches, and neither cooldown nor daily limit applies to the
  codes of a draft. src/docs/threat_model_email_code_flows.md:28 says 'per-email cooldown
  and daily limit'.
- `LockIsFinal` (services/emailCodeChallengeService.ts:416).  verifyEmailCode computes the
  failed attempts and the status from the row it read and writes both unconditionally: a
  request that read the fourth attempt and writes after the fifth sets the challenge from
  locked back to sent. src/docs/threat_model_email_code_flows.md:18 says '5 failed attempts,
  challenge lock'.
- `ConsumedOnFirstUse` (services/emailCodeChallengeService.ts:621).  confirmPasswordReset
  updates the password and then consumes the challenge in a second statement outside a
  transaction: when that one does not happen the session sets a password again.
  src/docs/threat_model_email_code_flows.md:24 says the challenge is 'consumed on first
  successful use'.

*`Registration`*

- `DiscardedIsDiscarded` (services/registrationDraftService.ts:1404).
  discardRegistrationDraft checks that the draft is open and writes DISCARDED four
  statements later, only if it still is, but answers DISCARDED in any case: a finalization
  or an expiry in between has closed the draft otherwise.
  src/tests/routes/auth.draft-resume-discard.spec.ts:81 says 'descarta rascunho e retorna
  status DISCARDED'.
- `RefusedHasNoAccount` (controllers/AuthController.ts:391).  register inserts the user and
  then the broker without a transaction: when the CRECI was taken in between, the answer at
  controllers/AuthController.ts:439 is 'Este email ja esta em uso.' and the user row stays,
  so the address is in use from then on by an account nobody was given.
- `ClosedStaysClosed` (services/registrationDraftService.ts:1320).  The subquery that asks
  whether the draft is open takes no lock, and the UPDATE that completes it has no
  condition on the status: a draft that was discarded or expired after the subquery found
  it is completed all the same, with an account.
  services/registrationDraftService.ts:1225 says 'Rascunho nao esta aberto para
  finalizacao.'  The opposite does not happen, a completed draft stays so
  (`AccountKeepsOrigin`).

*`Brokers`*

- `PendingIsListed` (services/adminBrokerLifecycleService.ts:235).  applyBrokerStatus sets
  the broker to pending_verification and leaves his documents approved, and
  listPendingAdminBrokers (services/adminAccountDirectoryService.ts:149) asks for pending or
  rejected documents: the broker waits and is in no list.
  src/tests/services/adminAccountDirectoryService.spec.ts:57 says 'lista corretores
  pendentes com documentos completos'.
- `RejectedIsClient` (services/propertyCreationService.ts:549).  A creation checks that the
  broker is approved, uploads the media and inserts the listing later without asking again;
  a rejection in between, which takes his listings away, tells him at
  services/adminBrokerLifecycleService.ts:117 'Sua conta voltou para cliente.', and the
  listing appears with him as its broker.  An administrator who enters a listing for a
  rejected broker comes there with one request (services/adminPropertyCreationService.ts:574).
- `ClientRouteEditsClients` (services/adminAccountManagementService.ts:413).
  updateClientAccount reads whether the account is an active broker and updates it
  statements later without a lock: services/adminAccountManagementService.ts:362 refuses
  with 'Use a rota de corretores para editar uma conta ativa de corretor.', and an approval
  in between is edited all the same.
- `GreetedIsBroker` (controllers/BrokerController.ts:874).  uploadVerificationDocs reads the
  status, which is not yet approved, and writes pending_verification afterwards: an approval
  in between is undone, although the broker was told at
  services/adminBrokerLifecycleService.ts:96 'Parabens, voce se tornou corretor cadastrado
  na Encontre Aqui.'

*`Sessions`*

- `RejectedMayReapply` (middlewares/auth.ts:275).  firebaseLogin signs the role broker for
  every account that has a row in brokers, and authMiddleware refuses a token of that role
  when the row is rejected: all its requests get 403, with the message at
  middlewares/auth.ts:279 'Voce pode enviar nova solicitacao de corretor pelo app.', and the
  routes that take the application are among them.
- `ClientRoutesServeClients` (middlewares/auth.ts:354).  isClient looks at the role in the
  token; becoming a broker does not end the sessions of the account, so one signed before
  passes the check whose message is 'Acesso negado. Rota exclusiva para clientes.'
  (middlewares/auth.ts:361).
- `VerifiedIsConfirmed` (controllers/UserController.ts:500).  updateProfile changes the
  address and keeps email_verified_at, so sendEmailVerification answers 'already_verified'
  (services/authVerificationService.ts:381) for an address nobody confirmed.

*`PropertyEdits`*

- `RejectedIsKept` (services/propertyEditRequestService.ts:955).  The approved fields of an
  edit request are prepared again, and finalizePatch computes the promotional prices from an
  approved percentage: one that the administrator rejected is written with another value,
  while the owner reads at services/adminPropertyEditRequestService.ts:517 that the edit
  'teve campos rejeitados'.
- `PendingMayBeRejected` (services/adminPropertyEditRequestService.ts:463).  A review
  prepares the approved fields even when there are none, and validateCurrentState refuses a
  listing that a direct update has made invalid: the rejection answers 400 and the request
  stays pending. src/tests/services/adminPropertyEditRequestService.spec.ts:204 says
  'rejeita solicitacao e notifica o dono da negociação'.
- `AreaIsInSquareMetres` (services/propertyEditRequestService.ts:1082).
  buildPropertyEditDbPatch writes a new unit without computing the area again, and writes a
  given area in square metres as the value too, whatever the unit.
  services/propertyEditRequestService.ts:164 says '`areaConstruida` permanece em m²'.
- `PromotionIsLowerThanShown` (services/propertyUpdateService.ts:930).  updateProperty
  compares the promotional price with the `price` of the body, which it writes to another
  column than the sale price that is shown; services/propertyUpdateService.ts:940 says
  'Preço promocional de venda deve ser menor que o preço de venda.'

*`ListingMedia`*

- `GeneratedCodeIsFree` (utils/propertyCode.ts:96).  allocateNextPropertyCode reads the
  highest code and the row is inserted later: two creations get the same one, and the
  second, which typed none, is refused with 'Já existe um imóvel com esse código.' after its
  upload. The comment at utils/propertyCode.ts:93 calls it 'Próximo código exibido do
  imóvel'.
- `HasImage` (services/adminPropertyMediaService.ts:132).  deletePropertyImageAdmin counts
  the images and deletes one in another statement: two requests that read two images delete
  both. services/adminPropertyMediaService.ts:137 says 'O imóvel precisa manter ao menos 1
  imagem.'
- `HasImage` (services/propertyCreationService.ts:857).  The listing is inserted and its
  images after it, without a transaction: a failure in between leaves a listing without an
  image. services/propertyCreationService.ts:708 says 'Envie pelo menos 1 imagem do imóvel.'
- `WithinImageLimit` (services/adminPropertyMediaService.ts:75).  addPropertyImageAdmin
  counts the images before the upload: two uploads that both fit exceed the limit together.
  services/adminPropertyMediaService.ts:83 says 'Limite maximo de ... imagens por imovel
  atingido.'

*`DealClosing`*

- `AnsweredCloseIsRecorded` (services/propertyUpdateEffectsService.ts:309).
  applyPropertyUpdateEffects writes the row and the figures in two statements without a
  transaction: a relisting in between leaves an offered listing with the figures of a deal,
  answered as closed. src/tests/services/propertyUpdateEffectsService.spec.ts:147 says
  'fecha negócio, grava sale e atualiza valores da propriedade'.
- `OnlyBrokersClose` (services/propertyUpdateEffectsService.ts:206).  updateProperty writes
  the status before its effects are decided: a client's listing answered 403 is sold or
  rented all the same. services/propertyUpdateEffectsService.ts:210 says 'Apenas corretores
  podem fechar negocio.'
- `DeletedIsNotFeatured` (services/adminPropertyCatalogService.ts:481).
  updateFeaturedProperties looks at the status of the listings before the transaction that
  replaces the rows: a listing deleted in between is featured again.
  src/tests/services/propertyLifecycleService.spec.ts:244 says 'deleta imóvel como sold e
  remove da vitrine'.

*`ContractReview`*

- `DraftIsGated` (services/contractSideReviewService.ts:728).  evaluateContractSide moves
  the contract to its draft once both sides are approved and looks at no category, not even
  at whether a document was sent; and the gate of the category review
  (services/contractCategoryReviewService.ts:402) passes a required category whose document
  was found NOT_APPLICABLE, a verdict its route accepts of any category.
  modules/contracts/domain/contractDocumentRuleMatrix.ts:16 says 'Gate: exige documento
  aprovado quando true.' of every required category.  `Gated` says what is left of it.
- `GateGoesByFiling` (services/contractCategoryReviewService.ts:150).  The review's
  normalizer has no 'outro': a document filed under it falls back to the first category of
  its type, the spouse's, and its approval satisfies that category.
  modules/contracts/domain/contractDocumentRuleMatrix.ts:72 gives the requirement as
  'CONJUGE_REQUIRED_MARRIED_OR_STABLE', and
  src/tests/routes/contracts.upload-side-metadata.spec.ts:176 as a separate slot: 'accepts
  outro slots for buyer in AWAITING_DOCS'.
- `RejectedWaits` (services/contractCategoryReviewService.ts:584).  A category review
  computes the approvals of both sides from their documents: a side rejected because its
  documents were missing has none that is rejected, and is pending again once the other side
  is reviewed. controllers/ContractController.ts:552 says of a rejected side 'Aguardando
  correção do lado rejeitado'.
- `LockedIsApproved` (services/contractCategoryReviewService.ts:194).  One approved category
  makes the whole side approved with reservations, and a party's uploads are then refused:
  the required categories still missing cannot be sent.
  services/contractDocumentMutationService.ts:376 says 'Documentos do lado seller não podem
  ser enviados após aprovação.'

*`ContractParties`*

- `PartiesGiveTheirData` (services/contractDataUpdateService.ts:187).  updateContractData
  reads `SELECT * FROM contracts` and compares its user with columns of the negotiation and
  the listing, which that table (database/migrations.ts:930) has not: everyone but an
  administrator is refused. services/contractDataUpdateService.ts:250 says 'Somente o
  proprietário pode editar ownerInfo.'
- `CaptorDeclaresMethod` (services/contractSignatureMethodService.ts:62).
  setContractSignatureMethod reads the table contracts alone and finds no broker in it, and
  the route refuses administrators: nobody can declare the method.
  src/tests/routes/contracts.signature-method.spec.ts:155 says 'stores in-person choice,
  returns updated contract and notifies admins' of a mocked row that has the broker's
  column.
- `CaptorAdjustsResponsible` (services/contractOperationalResponsibleService.ts:27).
  updateContractOperationalResponsible reads the table contracts alone, so that the
  capturing broker is nobody and is refused.
  services/contractOperationalResponsibleService.ts:89 says 'Somente o corretor captador
  pode ajustar o responsável operacional.'
- `OnlySalesMustAddUp` (services/contractCommissionMutationService.ts:128).
  updateContractCommissionData takes the purpose from a row of the table contracts, which
  has none: every deal is a sale, and the splits that a rental was finalized with are
  refused. services/contractCommissionMutationService.ts:144 says 'Na venda, a soma de
  comissões e taxa precisa fechar exatamente 100% do valor.'

*`ProposalSubmission`*

- `CompleteIsStored` (services/negotiationProposalGenerationService.ts:338).  A retry
  whose key is complete but whose PDF an administrator removed is told that its proposal is
  in progress, retryable, and no retry ever gets another answer.
  services/negotiationProposalGenerationService.ts:339 says 'Uma proposta com essa chave de
  idempotencia ainda esta em processamento.'
- `DuplicateIsOwn` (services/negotiationProposalGenerationService.ts:482).
  generateProposalFromProperty refuses a proposal for any active negotiation of the listing,
  whoever made it; updateProposal looks for the same person's.
  services/negotiationProposalGenerationService.ts:85 says 'Ja existe uma proposta ativa
  desta pessoa para este imovel.'

*`PdfJobs`*

- `PromisedIsTold` (modules/negotiations/infra/PdfQueue.ts:76).  The job is identified by
  its negotiation: a request that finds it in the queue adds nothing, and its user, if it is
  another, is never notified. services/negotiationProposalWorkflowService.ts:172 says 'Você
  receberá uma notificação quando estiver pronta.'
- `ErrorMeansNoProposal` (modules/negotiations/infra/PdfWorker.ts:67).  The notice of
  success is sent inside the try: when it fails, the user is told of an error although the
  proposal is saved, and the retry saves another. modules/negotiations/infra/PdfWorker.ts:74
  says 'Ocorreu um erro ao gerar sua proposta.'
- `ErrorsHaveACause` (services/negotiationPersistenceService.ts:169).
  getNegotiationProposalDataById leaves the broker's name empty when no broker captured the
  listing, and the PDF requires one: the queue and the administrator can never generate the
  PDF of a proposal that the wizard made with the name
  services/negotiationProposalGenerationService.ts:213 gives it, 'Corretor a definir'.

*`SchemaStartup`*

- `ExitsHaveACause` (database/migrations.ts:445).  applyMigrations adds
  area_construida_unidade and the storage columns of the documents, and then
  runSqlMigrations runs the files 20260418 and 20260310_008, which add the same columns
  without IF NOT EXISTS: on a database where those files are not recorded, every start ends
  in a duplicate column. src/scripts/migrations/20260614_001_property_area_model.sql:3 says
  of these columns 'de forma idempotente no bootstrap da aplicação'.  The file 20260426 asks
  IF NOT EXISTS of its tables, columns and indexes, but its ADD CONSTRAINT
  (scripts/migrations/20260426_001_registration_drafts.sql:112) cannot be repeated either:
  a start that stops between that statement and the record fails from then on.
- `NothingPendingIsApplied` (database/migrationRunner.ts:270).  A rollback that stops
  between its statements leaves its record, which is deleted last: the next start finds
  nothing pending and serves without the columns that were dropped.
  database/migrationRunner.ts:221 says 'Nenhuma migration pendente.'

*`FeaturedScope`*

- `ReturnedIsKeyed` (database/migrations.ts:584).  Two overlapping calls, or one statement
  that fails after the primary key is dropped: the repair drops a primary key that is not
  there, its error is logged, and later calls find the column and return; the table keeps no
  primary key. database/migrations.ts:604 says 'Idempotente: garante a coluna `scope` (e PK
  composta) em `featured_properties`.'

*`Notifications`*

- `DropIsReal` (services/propertyUpdateEffectsService.ts:177).  The price before a first
  rent is `price`, which is the sale's price: a listing for sale that is offered for rent
  too is announced as a drop of nearly everything.
  services/priceDropNotificationService.ts:82 says 'ficou mais barato'.
- `NotFoundIsGone` (controllers/UserController.ts:1493).  The role is resolved again when a
  notice is read: one that the list showed under the role before is answered 404 although
  its row is there. controllers/UserController.ts:1507 says 'Notificação não encontrada.'

*`SupportRequests`*

- `RefusedWasSent` (controllers/UserController.ts:1400).  The row is inserted before the
  administrators are notified: when that fails the client is told of an error, and its retry
  is refused for 24 hours although nothing was sent. controllers/UserController.ts:1395 says
  'Voce ja enviou uma solicitacao nas ultimas 24 horas.'

*`SignedProposal`*

- `FailedWasNotSent` (services/negotiationSignedProposalService.ts:220).  The administrators
  are notified after the commit and inside the same try: when that fails the client is told
  of a failure, and its retry that the proposal was already sent.
  services/negotiationSignedProposalService.ts:245 says 'Falha ao enviar proposta assinada.'

## Proofs

TLAPS proves, for all values of the constants, every safety property that `deals`,
`race`, `queue`, `accounts`, `registrations`, `listings`, `contracts`, `proposals` and
`platform` check, and `PoolIsSound` of `progress`; that `Deals` and `ContractReview`
implement `ContractStages`; and that `ContractReview` implements the reviews of `Deals`.

| Module | Assumes | Meaning |
|---|---|---|
| `Deals` | `DealConstants` | each negotiation is about one listing; decisions are approval statuses; the bound is positive |
| `DocumentDeletion` | `QueueConstants` | finitely many documents, positive limits; only `TypeCorrectness` uses it |
| `SignedProposal` | `SignedProposalAssumption` | nobody is no upload, the bound is a number |
| `ProposalSubmission` | `SubmissionConstants` | there is a key; bounds are numbers, those of proposals and PDFs positive |
| `Sessions` | `SessionsConstants` | the administrator, nobody and the absent address are no accounts and no address; the bound is positive |
| `EmailCodes` | `CodesAssumption` | finitely many challenges and requests, positive limits, codes and reset sessions that live shorter than the window |
| `Registration` | `RegistrationAssumption` | no file, no draft and no address are none of the files, drafts and addresses; selections of requests, addresses, drafts and files there are; bounds are numbers |
| `Brokers` | `BrokersAssumption` | nobody is no account and no file none of the files; selections of accounts, files and requests there are; the bound is a number |
| `ConnectionPool` | `PoolAssumption` | each handler has a shape and a row; a pool has connections |
| `DealClosing`, `ContractReview` | `LoadsAssumption`, `ReviewAssumption` | selections of routes, requests and verdicts there are; a kind of document is filed under a category of the review or under 'outro' |
| `ListingMedia` | `MediaAssumption` | selections of kinds, requests and files there are; no file is no file; positive bounds |
| `PropertyEdits` | `EditAssumption` | selections of edits, updates and fields there are; prices, percentages, areas and units are positive; a square metre is a unit |
| `Notifications`, `SupportRequests` | `NoticesAssumption`, `SupportAssumption` | finitely many users, dispatches and requests; administrators and owners of favourites are users; prices are positive; selections of users, readers among them and dispatches there are |
| `SchemaStartup`, `FeaturedScope` | `SchemaAssumption`, `FeaturedAssumption` | columns and files come in an order; each file adds a column or more; guarded files are files; bounds are numbers |

Every proof has the same form: an inductive invariant `...Inv`, which holds at first
and is kept by each action (one step per action, one below it per part it can
disturb), and from which the properties follow.  The properties by themselves are
not inductive; what has to be added says why the code works.

*Deals* (`Deals_proofs`).  `TypeCorrectness` comes first.  `DraftBehindSignatures`
needs the approvals: a draft may be deleted while a side is editable.
`FinalizedIsDealt` needs that a contract has any stage past documents only after a
live negotiation, and `NoStaleEvidence` that a negotiation without contract has no
contract documents.  `DealInv` is their conjunction with `TypeOK` and
`UnderNegotiationIsHeld`; `DealsSafety` is its invariance.  The proof goes by groups
of actions: what a negotiation action leaves alone of the contract
(`OutsideContract`, `NegotiationDocs`), what a contract action does to the documents
(`ContractDocuments`), what each does to the deal (`NegotiationDeals`,
`ContractDeals`), and a lemma for the listing (`HeldStep`).  The action properties
follow from `DealInv` in the state before the step.

*Refinement* (`Deals_proofs`).  `StagesAreKept` maps `contract`, the set of
negotiations with both approvals, and the kinds on file to `stage`, `cleared` and
`file`.  `ContractRefines` shows that each contract action is an abstract step or a
stutter, `NegotiationRefines` the same of negotiations; property steps stutter.

*Queue* (`DocumentDeletion_proofs`).  `QueueInv` adds to the properties that the
queue, the batches and the runs refer to removed rows only (`QueueIsOfRemoved`,
`RunsAreHonest`): it is this that keeps the worker off live objects, because a row
never comes back.  `TypeOK` is inductive by itself.  Powers are beyond the provers'
arithmetic, so the backoff is written as a doubling within an explicit range, and
beyond it the longest wait: the minimum the code takes.

*Submissions* (`ProposalSubmission_proofs`).  `SubmissionInv` joins four parts: a row
lock and a key have one holder, who is at a place inside its transaction
(`LocksAreExclusive`); what a request has found of its listing still stands, because
it holds the lock under which it looked (`FindingsStand`); keys and the proposals that
were neither rejected nor deleted name each other, and of the active ones one at most has
no contract (`KeysAndProposals`); and the bounds leave room for what has begun
(`RoomIsKept`).  Decisions, edits and the contract's handlers share one lemma
(`DecisionKeeps`): they change only what nobody holds, make a proposal active again only
while nobody holds the listing, open none, and free just the keys of what is rejected or
deleted.  `SubmissionsHold` and `RetryIsNoConflict` follow for any number of requests,
with crashes and lost deadlocks at any statement.

*Signed upload* (`ProposalSubmission_proofs`).  `UploadInv` says for every place an
upload can be at what it has stored and whether its row is written, and that the
holder of the row lock is at a place inside a transaction.  `SignedSafety` is three
of its consequences; without the places neither of them is kept by a step.

*Sessions* (`Accounts_proofs`).  The hard part is a login that read the row before a
reset and signs after it.  `SessionInv` says that what a request has read is either
of the row as it is or of a version that is over (`ReadingsAreOfRows`), and that what
was ended is older than the account's version (`EndedAreOlder`); versions only grow.

*Codes* (`Accounts_proofs`).  A limit read before it is written lets requests that
overlap through together; `CodeInv` counts what was sent and who has looked and not yet
inserted in one sum (`OverlapIsCounted`), which exceeds the limit by less than the
requests there are.  A row keeps its kind while a request names it, and a challenge that
is answered has attempts left (`ReadingFits`).  `CodeSafety` holds for any number of
requests, with failed deliveries and stops between any two statements; a row deleted by a
failed delivery is not updated any more.

*Registrations* (`Accounts_proofs`).  That a completed draft is the account it asked for
is kept because nothing but the finalization completes a draft, and an account with no
draft behind it belongs to a direct registration: whoever is about to insert the broker
has inserted the user, from no draft (`SignupFits`), so the insert never touches the
broker of a draft (`CompletedIsMember`).  With one request at a time `DraftInv` says
more: what a client was told and what was stored of a draft is still true, or the draft
is over and nobody is about to complete it (`PromisesStand`), and a file under way is in
the row of its own draft at most (`UploadFits`), so that taking it back harms no account.
`AccountsAreWhole` and `AccountKeepsOrigin` follow for any number of drafts, requests,
addresses and stops.

*Brokers* (`Accounts_proofs`).  That a deleted account leaves nothing needs little: every
statement that writes a row, documents or a listing asks again whether the account, or
its row, is there, whatever the request read before.  The rest holds of a request that is
alone, and `BrokerInv` says why: it writes for the status it read, since nobody has
changed it (`StepsStand`); so what a broker sends in puts back to pending who was not
approved, and a listing a broker enters goes to who is still active; of those an
administrator enters the property says whose they are only when an account is deleted
(`AdminCreateListing`).  Its file is stored and in nobody's
documents (`FilesFit`, `DocsFit`), so erasing one document's file leaves the others'
alone.  `BrokersHold` follows for any number of accounts, files, listings and requests.

*Pool* (`ConnectionPool_proofs`).  `PoolInv` says how many connections a handler has
at each place, that connections add up (`Accounted`), and that who waits is in the
queue once and at a place that needs a connection (`QueueIsOfNeedy`).  Beside
`PoolIsSound` it gives `LargePoolIsNeverExhausted`: a handler whose statements ask the
pool for a second connection adds one to what can be stuck, one whose cleanup queues
documents adds two; with `Cardinality(Asking) + 2 * Cardinality(Cleaning) < Limit`
somebody can go on.
This is the bound on `connectionLimit` that excludes the wait for ever.

*Closing deals* (`Listings_proofs`).  No invariant holds for all routes at once,
because overlaps do break the listing; `DealsHold` says what holds for which
selection.  `DealInv` follows it: what a direct update has looked for and written is
there where it is alone (`RequestsFit`, `UpdateAlone`), and one sale row belongs to a deal
where rows are written under a lock (`RowAlone`, `Together`).

*Media* (`Listings_proofs`).  Images and videos are shown and erased by requests that
know of each other only what they read.  `MediaInv` says that a file no body has named has
one place: it is an image, or a video, or what one request has uploaded and is about to show
(`FilesHaveTheirPlace`, `OnlyPlace`), and the URLs a request brings are named when it
begins, so that what an update or a creation shows anew is one or the other (`Moves`); what a request has read to erase may still be shown
where it was read, and once its row is written has no place at all (`Reading`).  So a
second request that erases the same file does no harm.  That a generated code is above
those there are needs the highest of a bounded set of numbers (`HighestIs`, by the
well-foundedness of <).  `MediaHold` follows, wherever requests stop.

*Edits* (`Listings_proofs`).  The check looks at the state an edit would lead to, the
write puts only the columns of the groups it touches.  `PreparedFits` shows that the
differences that are kept lead to the very state that was checked, although a promotion
brings in fields nobody gave; `WriteFits` and `ApprovalFits` that the columns written and
those left alone then agree with it, the price shown in place of an absent one included.
So any subset of the fields may be approved, against a listing that has changed since.
For direct updates `EditInv` keeps what was decided as well: applied to the listing as it
now is it still leaves the promotion below the price, because in the meantime only the
status can change.

*Reviews and parties* (`ContractReview_proofs`).  `ReviewInv` says that documents stay
filed where a review finds them (`DocsAreFiled`), and, where only the category review
writes approvals and what is required stays as it is, that an approved contract is in
its draft (`ApprovedIsInDraft`).  `StageSteps` maps each handler to a step of `ContractStages` or a stutter.
`DealSteps` maps each to a review of `ContractOps`, as an instance about one contract of a
deal in progress: there a review by category takes any approvals, on the condition that
two full ones mean every required category is approved, and `DealCategory` shows that those
computed from documents meet it.  What is proved of `Deals` for any approvals so covers
the computed ones.
`PartiesAlwaysHold` is about `ContractParties`: the method and the splits by stage.

*Schema* (`Platform_proofs`).  The columns a start has added can be dropped by a
rollback in another process, so "what I have done is there" is false.  `Sound` says it
of what was there or what a rollback has begun to undo (`Has`, `Known`), which only
grows; what a start without a cause has done is there, since nobody undid anything
(`Ensured`, `Undisturbed`, `Alone`).  `SchemaHolds` follows for any number of servers,
columns, files, failures and rollbacks.

*Featured listings* (`Platform_proofs`).  `ScopeInv` says which table the one running
call finds at its place (`Found`) and that a call after the first that returned finds
the new one; faults and overlaps give it up through `disturbed`.

*Notices and support* (`Platform_proofs`).  The cooldown is read before the insert, so
dispatches that overlap do tell a user twice.  `NoticesInv` counts who is about to be told
with who was (`OverlapsAreCounted`): a dispatch that lets a user through has found nothing
fresh, so the sum is at most the dispatches there are, whatever users read and delete and
whatever role they change to meanwhile.  A request deletes under the role that it read
(`asked`), which need not be the role its user has by then.  Where a dispatch is tells whom it has behind it
(`SoFar`), with what is fresh among those told (`FreshIsTold`).  `SupportInv` has one sum
too: what was sent and what is under way was let through when nothing was recorded.
`NoticesHold` joins both components, so its theorem has both specifications as hypothesis;
they share no variable.

**Model-checked only.**
All liveness (`RequestsEnd`, `CodesServe`, `DraftIsClosed`, `PdfsEnd`,
`EveryRequestEnds`, `RemovedIsErased`) stays with TLC, since fairness is defined by
ENABLED, which is out of the provers' reach.  No recursive definition is proved about.

## Not modelled

- `modules/negotiations/domain` and `NegotiationRepository` (state classes with
  optimistic locking): no route uses them.  `UserController.register`, `login` and
  `googleLogin` are routed to nothing; `AuthController` has their successors.
- HTTP layer, dashboards, directories, locations, terms: reads, parsing and limits,
  without state that handlers share.
- Device tokens and the delivery of pushes, the phone provider: outside the
  repository; their calls fail or succeed.
- The statements of `applyMigrations` one by one: `SchemaStartup` has their form, and
  `FeaturedScope` the one that changes a key.  `ADD COLUMN IF NOT EXISTS` is taken as
  TiDB and MariaDB read it; MySQL 8 refuses it.  `ExitsHaveACause` holds where every
  file says so, see above for the files that do not.
- Texts, paging, filters of read-only queries, audit trails.
- Whether a supervisor starts a dead process again: crashes end what was in memory
  and the next request finds the rows; the container of the API has no restart
  policy (`src/docker-compose.yml`), and nothing that must happen in the end is
  claimed after a crash.

Parts of modelled components are left out where `PROJECT.json` says "partly".

## Plan

Done: all modules above, and the proofs named above.  To come, in this order:

1. What the components marked "partly" leave out, by the notes of `PROJECT.json`: the
   rest of the contract's administration and of the migrations first.
2. `Deals` with the documents of both sides in its state, so that one run has reviews by
   category next to proposals and listings; `ReviewOfDeal` is the step to it.
