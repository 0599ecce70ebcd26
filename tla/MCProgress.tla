------------------------------ MODULE MCProgress ------------------------------
(* What must happen in the end: the pool of connections, which this module    *)
(* extends, the codes of a password reset, the closing of drafts and the jobs *)
(* of PDFs.  A behaviour of this module is one of the component `focus`       *)
(* names; the others stay where they start, and nothing is assumed of their   *)
(* steps.                                                                     *)
EXTENDS ConnectionPool

VARIABLES
    focus,
    challenge, verified, asking, crashes,                                        \* EmailCodes
    draftLoad, draft, papers, member, kept, answered, registering, stops,        \* Registration
    exists, captor, client, asked, handler, owed, job, worker, documents,
    notices, failed                                                              \* PdfJobs

codes == <<challenge, verified, asking, crashes>>
drafts == <<draft, papers, member, kept, answered, registering, stops>>
pdfs == <<exists, captor, client, asked, handler, owed, job, worker, documents, notices, failed>>
all == <<focus, draftLoad, vars, codes, drafts, pdfs>>

------------------------------------------------------------------------------
\* One handler of each shape on three connections; the first two lock one row.
EachShape ==
    [h \in Handlers |->
        CASE h = "h1" -> "inside" [] h = "h2" -> "clean" [] h = "h3" -> "notify" [] OTHER -> "plain"]
TwoRows == [h \in Handlers |-> IF h \in {"h1", "h2"} THEN "r1" ELSE "r2"]

\* One handler asks for two more connections, the others for none.
Sized == INSTANCE ConnectionPool WITH
    Shape <- [h \in Handlers |-> IF h = "h1" THEN "clean" ELSE "plain"]

\* Up to three codes of a password reset, one request at a time, which may stop.
Codes == INSTANCE EmailCodes WITH
    Slots <- {"s1", "s2", "s3"}, CodeRequests <- {"q1"}, Kinds <- {"reset"}, DailyLimit <- 3,
    Window <- 4, CodeTtl <- 2, SessionTtl <- 2, MaxFailed <- 1, MaxCrashes <- 1,
    codeRequest <- asking

\* A draft, and a request that may stop.
Closing == INSTANCE Registration WITH
    Addresses <- {"e1"}, Drafts <- {"d1"}, Files <- {"f1"}, DraftRequests <- {"q1"}, MaxStops <- 1,
    NoFile <- "none", NoDraft <- "none", NoAddress <- "none",
    DraftLoads <- {[requests |-> {"q1"}, emails |-> {"e1"}, drafts |-> {"d1"},
                    files |-> {"f1"}, stops |-> 1]},
    stored <- kept, replies <- answered, signup <- registering

\* Two users ask for the PDF of one negotiation.
Pdfs == INSTANCE PdfJobs WITH
    Users <- {"u1", "u2"}, Nobody <- "nobody", MaxDocuments <- 3, MaxFaults <- 2,
    faults <- failed

ASSUME ProgressConstants ==
    /\ Codes!CodeConstants /\ Closing!RegistrationConstants
    /\ Pdfs!JobConstants

------------------------------------------------------------------------------
Start ==
    /\ focus \in {"pool", "sized", "codes", "drafts", "pdfs"}
    /\ Init /\ Codes!CodesInit /\ Closing!DraftsInit /\ Pdfs!Init
    /\ focus # "pdfs" => captor

PoolStep ==
    /\ \/ focus = "pool" /\ Next
       \/ focus = "sized" /\ Sized!Next
    /\ UNCHANGED <<focus, codes, draftLoad, drafts, pdfs>>
CodesStep == focus = "codes" /\ Codes!CodesNext /\ UNCHANGED <<focus, vars, draftLoad, drafts, pdfs>>
DraftsStep == focus = "drafts" /\ Closing!DraftsNext /\ UNCHANGED <<focus, vars, codes, pdfs>>
PdfsStep == focus = "pdfs" /\ Pdfs!Next /\ UNCHANGED <<focus, vars, codes, draftLoad, drafts>>
AnyStep == PoolStep \/ CodesStep \/ DraftsStep \/ PdfsStep

\* The fairness of each component, of the one a behaviour is about.
Fairness ==
    /\ \A h \in Handlers : /\ WF_vars(focus = "pool" /\ Steps(h))
                           /\ WF_vars(focus = "sized" /\ Sized!Steps(h))
    /\ WF_codes(focus = "codes" /\ Codes!Tick)
    /\ WF_codes(focus = "codes" /\ Codes!Step("q1"))
    /\ WF_drafts(focus = "drafts" /\ Closing!Lapse("d1"))
    /\ SF_drafts(focus = "drafts" /\ Closing!BeginDraft("q1", "e1", "client"))
    /\ WF_drafts(focus = "drafts" /\ registering["q1"].phase # "idle"
                   /\ (Closing!DraftStep("q1") \/ Closing!RegisterStep("q1")))
    /\ WF_pdfs(focus = "pdfs" /\ Pdfs!Work)

ProgressSpec == Start /\ [][AnyStep]_all /\ Fairness

------------------------------------------------------------------------------
\* Every request ends, or the handlers hold the whole pool and each waits for
\* one more; the handlers that need one connection more than the pool has beyond
\* its first cannot come to that, and all their requests end.
RequestsEnd ==
    /\ EndsUnlessExhausted
    /\ [](focus = "sized" => Sized!NeverExhausted)
    /\ \A h \in Handlers : (focus = "sized" /\ at[h] # "idle") ~> at[h] = "idle"

\* Codes are as far apart as the cooldown says, a locked challenge is not
\* accepted, and a code resets one password unless a process stopped; only the
\* latest code of an address resets its password; and whoever waits may ask for
\* another code.
CodesServe ==
    /\ [](Codes!CodesKeepDistance /\ Codes!LockHolds /\ Codes!OneResetPerCode)
    /\ Codes!ResetByLatest
    /\ (focus = "codes" => Codes!NeverShutOut)

\* A draft nobody goes on with is closed in the end.
DraftIsClosed == Closing!DraftIsClosed

\* Every job of a PDF ends, its user was told how before it leaves the queue, and
\* a PDF that was saved is announced.
PdfsEnd ==
    /\ Pdfs!JobsEnd
    /\ Pdfs!JobEndsWithNotice
    /\ Pdfs!SavedIsAnnounced
=============================================================================
