----------------------------- MODULE EmailCodes -----------------------------
(***************************************************************************)
(* The six-digit codes sent to one e-mail address                          *)
(* (`email_code_challenges`): the code that verifies the address of an     *)
(* account, the code that verifies it for a registration draft, and the    *)
(* code that resets a password and leads to a session that may set one.    *)
(*                                                                         *)
(* Every statement is a transaction of its own, so requests interleave     *)
(* between a SELECT and the UPDATE that follows it.  A request is much     *)
(* shorter than a tick of the clock.                                       *)
(***************************************************************************)
EXTENDS Naturals, FiniteSets

CONSTANTS
    Slots,        \* challenges remembered at a time
    CodeRequests, \* requests that may overlap
    Kinds,        \* the kinds of challenge an instance looks at
    DailyLimit,   \* codes in a window (5 in the code)
    Window,       \* the window (24 hours), in ticks
    CodeTtl,      \* life of a code (15 minutes)
    SessionTtl,   \* life of a reset session (15 minutes)
    MaxFailed,    \* wrong codes until a challenge is locked (5)
    MaxCrashes    \* bound on crashes

\* What the values of the constants must satisfy; an instance assumes it too.
CodeConstants ==
    /\ IsFiniteSet(Slots) /\ IsFiniteSet(CodeRequests)
    /\ Kinds \subseteq {"account", "draft", "reset"}
    /\ {DailyLimit, Window, CodeTtl, SessionTtl, MaxFailed} \subseteq Nat \ {0}
    /\ CodeTtl < Window /\ SessionTtl < Window
    /\ MaxCrashes \in Nat

ASSUME CodesAssumption == CodeConstants

VARIABLES
    challenge,    \* slot -> the row it holds
    verified,     \* users.email_verified_at is set
    codeRequest,  \* request -> where it is
    crashes

codesVars == <<challenge, verified, codeRequest, crashes>>

-----------------------------------------------------------------------------
Status == {"free", "sent", "verified", "consumed", "expired", "locked"}

\* `wrong` and `uses` are not columns: they count the wrong codes answered and
\* the passwords set with this challenge.
Challenge == [status : Status, kind : {"account", "draft", "reset"}, age : 0 .. Window,
              failed : 0 .. MaxFailed, session : 0 .. Window, wrong : Nat, uses : Nat]

Fresh(kind) == [status |-> "sent", kind |-> kind, age |-> 0, failed |-> 0,
                session |-> 0, wrong |-> 0, uses |-> 0]

\* What a request remembers of the row it read.
RequestState ==
    [phase : {"idle", "issuing", "sending", "wrong", "right", "marked",
              "resetting", "consuming"},
     kind : {"account", "draft", "reset"}, slot : SUBSET Slots, failed : 0 .. MaxFailed]

Quiet == [phase |-> "idle", kind |-> "reset", slot |-> {}, failed |-> 0]
At(phase, kind, s, failed) ==
    [phase |-> phase, kind |-> kind, slot |-> {s}, failed |-> failed]

Rows == {s \in Slots : challenge[s].status # "free"}
MoveRequest(r, state) == codeRequest' = [codeRequest EXCEPT ![r] = state]
SetStatus(s, status) == challenge' = [challenge EXCEPT ![s].status = status]

InWindow(s) == challenge[s].status # "free" /\ challenge[s].age < Window

\* A row that has left the window counts no more, and its code and its session
\* have long expired: its slot is used again.  That there is one for every code
\* asked for is a bound of the model.
Unused == {s \in Slots : ~InWindow(s) /\ \A q \in CodeRequests : s \notin codeRequest[q].slot}
HasRoom == Cardinality(Unused) > Cardinality({q \in CodeRequests : codeRequest[q].phase = "issuing"})

\* Faulty variant: what was sent once counts for ever.
CountedForever(kind) ==
    {s \in Rows : CASE kind = "reset" -> challenge[s].kind = "reset"
                    [] kind = "account" -> challenge[s].kind # "reset"
                    [] OTHER -> FALSE}

\* The rows an issue counts.  Rows of drafts carry the address and the purpose
\* too.  For a draft the parameters of the query are shifted by two, the draft
\* is compared with the purpose, and nothing is found.
Counted(kind) ==
    {s \in Rows : /\ InWindow(s)
                  /\ CASE kind = "reset" -> challenge[s].kind = "reset"
                       [] kind = "account" -> challenge[s].kind # "reset"
                       [] OTHER -> FALSE}

\* Faulty variant: the cooldown is that of the first code only.
CooldownFlat(sent) == 1
\* 60, 90 and 120 seconds: one tick, then two.
Cooldown(sent) == IF sent = 1 THEN 1 ELSE 2

\* Faulty variant: the limit lets one more code through.
AllowedOneMore(kind) ==
    LET n == Cardinality(Counted(kind))
    IN /\ n <= DailyLimit
       /\ n > 0 => \A s \in Counted(kind) : challenge[s].age >= Cooldown(n)

Allowed(kind) ==
    LET n == Cardinality(Counted(kind))
    IN /\ n < DailyLimit
       /\ n > 0 => \A s \in Counted(kind) : challenge[s].age >= Cooldown(n)

\* The latest challenge a verification looks at, by sent_at; equal times are
\* in any order.
Latest(kind) ==
    {s \in Rows : /\ challenge[s].kind = kind
                  /\ \A t \in Rows : challenge[t].kind = kind
                                     => challenge[s].age <= challenge[t].age}

CodeExpired(s) == challenge[s].age >= CodeTtl \/ challenge[s].status = "expired"
SessionExpired(s) == challenge[s].session >= SessionTtl

-----------------------------------------------------------------------------
(* Issuing a code.                                                         *)

\* An account that is verified is told so; a limit answers 429.
SendEmailVerification(r, kind) ==
    /\ codeRequest[r].phase = "idle" /\ kind # "reset"
    /\ kind = "account" => ~verified
    /\ Allowed(kind) /\ HasRoom
    /\ MoveRequest(r, [Quiet EXCEPT !.phase = "issuing", !.kind = kind])
    /\ UNCHANGED <<challenge, verified, crashes>>

\* The answer is the same whether a code is sent or a limit was met.
RequestPasswordReset(r) ==
    /\ codeRequest[r].phase = "idle"
    /\ Allowed("reset") /\ HasRoom
    /\ MoveRequest(r, [Quiet EXCEPT !.phase = "issuing"])
    /\ UNCHANGED <<challenge, verified, crashes>>

InsertChallenge(r, s) ==
    /\ codeRequest[r].phase = "issuing"
    /\ s \in Unused
    /\ challenge' = [challenge EXCEPT ![s] = Fresh(codeRequest[r].kind)]
    /\ MoveRequest(r, At("sending", codeRequest[r].kind, s, 0))
    /\ UNCHANGED <<verified, crashes>>

Delivered(r) ==
    /\ codeRequest[r].phase = "sending"
    /\ MoveRequest(r, Quiet)
    /\ UNCHANGED <<challenge, verified, crashes>>

\* deleteEmailCodeChallenge: what was not delivered does not count.
DeliveryFails(r) ==
    /\ codeRequest[r].phase = "sending"
    /\ \E s \in codeRequest[r].slot : SetStatus(s, "free")
    /\ MoveRequest(r, Quiet)
    /\ UNCHANGED <<verified, crashes>>

-----------------------------------------------------------------------------
(* Answering a code.                                                       *)

\* Every reader that meets an expired challenge writes that down, also over
\* "verified" and "consumed".
ExpireChallenge(r, kind) ==
    /\ codeRequest[r].phase = "idle"
    /\ \E s \in Latest(kind) : CodeExpired(s) /\ SetStatus(s, "expired")
    /\ UNCHANGED <<verified, codeRequest, crashes>>

\* Faulty variant: a locked challenge is still compared.
ReadCodeThoughLocked(r, kind, right) ==
    /\ codeRequest[r].phase = "idle"
    /\ \E s \in Latest(kind) :
          /\ ~CodeExpired(s) /\ challenge[s].status \in {"sent", "locked"}
          /\ MoveRequest(r, At(IF right THEN "right" ELSE "wrong", kind, s, challenge[s].failed))
    /\ UNCHANGED <<challenge, verified, crashes>>

\* verifyEmailCode and verifyPasswordResetCode up to their UPDATE.
ReadCode(r, kind, right) ==
    /\ codeRequest[r].phase = "idle"
    /\ \E s \in Latest(kind) :
          /\ ~CodeExpired(s) /\ challenge[s].status = "sent"
          /\ MoveRequest(r, At(IF right THEN "right" ELSE "wrong", kind, s, challenge[s].failed))
    /\ UNCHANGED <<challenge, verified, crashes>>

\* Locked at the last attempt; the row that was read was "sent".
WithWrong(row, failed) ==
    [row EXCEPT !.failed = failed, !.wrong = @ + 1,
                !.status = IF failed >= MaxFailed THEN "locked" ELSE "sent"]

\* The counter and the status are written from what was read.  A row deleted
\* in the meantime is not there to be updated.
CountWrong(r) ==
    /\ codeRequest[r].phase = "wrong"
    /\ \E s \in codeRequest[r].slot :
          challenge' = IF s \notin Rows THEN challenge ELSE
              [challenge EXCEPT ![s] = WithWrong(@, codeRequest[r].failed + 1)]
    /\ MoveRequest(r, Quiet)
    /\ UNCHANGED <<verified, crashes>>

\* Faulty variant: the account is left to a later look at the challenge.
MarkVerifiedOnly(r) ==
    /\ codeRequest[r].phase = "right"
    /\ \E s \in codeRequest[r].slot :
          challenge' = IF s \notin Rows THEN challenge ELSE
              [challenge EXCEPT ![s] = [@ EXCEPT !.status = "verified", !.session = 0]]
    /\ MoveRequest(r, Quiet)
    /\ UNCHANGED <<verified, crashes>>

\* An account is marked next; a draft in the same transaction, which the module
\* of drafts models; a reset opens its session.
MarkVerified(r) ==
    /\ codeRequest[r].phase = "right"
    /\ \E s \in codeRequest[r].slot :
          /\ challenge' = IF s \notin Rows THEN challenge ELSE
                [challenge EXCEPT ![s] = [@ EXCEPT !.status = "verified", !.session = 0]]
          /\ MoveRequest(r, IF codeRequest[r].kind = "account" THEN At("marked", "account", s, 0)
                                                            ELSE Quiet)
    /\ UNCHANGED <<verified, crashes>>

MarkAccount(r) ==
    /\ codeRequest[r].phase = "marked"
    /\ verified' = TRUE
    /\ MoveRequest(r, Quiet)
    /\ UNCHANGED <<challenge, crashes>>

-----------------------------------------------------------------------------
(* Setting a password.                                                     *)

ExpireSession(r) ==
    /\ codeRequest[r].phase = "idle"
    /\ \E s \in Latest("reset") :
          challenge[s].status = "verified" /\ SessionExpired(s) /\ SetStatus(s, "expired")
    /\ UNCHANGED <<verified, codeRequest, crashes>>

\* Faulty variant: the session of any challenge is looked up by its token.
ReadAnySession(r) ==
    /\ codeRequest[r].phase = "idle"
    /\ \E s \in Rows :
          /\ challenge[s].status = "verified" /\ ~SessionExpired(s)
          /\ MoveRequest(r, At("resetting", "reset", s, 0))
    /\ UNCHANGED <<challenge, verified, crashes>>

\* The token is that of the latest challenge, or the request is refused.
ReadSession(r) ==
    /\ codeRequest[r].phase = "idle"
    /\ \E s \in Latest("reset") :
          /\ challenge[s].status = "verified" /\ ~SessionExpired(s)
          /\ MoveRequest(r, At("resetting", "reset", s, 0))
    /\ UNCHANGED <<challenge, verified, crashes>>

\* UPDATE users, by e-mail: it asks no more for the challenge.
SetPassword(r) ==
    /\ codeRequest[r].phase = "resetting"
    /\ \E s \in codeRequest[r].slot :
          /\ challenge' = [challenge EXCEPT ![s].uses = @ + 1]
          /\ MoveRequest(r, At("consuming", "reset", s, 0))
    /\ UNCHANGED <<verified, crashes>>

\* Faulty variant: the session is left open.
ConsumeNothing(r) ==
    /\ codeRequest[r].phase = "consuming"
    /\ MoveRequest(r, Quiet)
    /\ UNCHANGED <<challenge, verified, crashes>>

\* As above, a row that a failed delivery has deleted is not there to be updated.
ConsumeChallenge(r) ==
    /\ codeRequest[r].phase = "consuming"
    /\ \E s \in codeRequest[r].slot :
          IF s \in Rows THEN SetStatus(s, "consumed") ELSE UNCHANGED challenge
    /\ MoveRequest(r, Quiet)
    /\ UNCHANGED <<verified, crashes>>

-----------------------------------------------------------------------------
\* What leaves the window is as good as expired, whatever its column says.
Aged(row) ==
    IF row.age + 1 >= Window
    THEN [Fresh(row.kind) EXCEPT !.status = "expired", !.age = Window]
    ELSE [row EXCEPT !.age = @ + 1,
                     !.session = IF row.status = "verified" THEN @ + 1 ELSE @]

Tick ==
    /\ \A r \in CodeRequests : codeRequest[r].phase = "idle"
    /\ challenge' = [s \in Slots |-> IF s \in Rows THEN Aged(challenge[s]) ELSE challenge[s]]
    /\ UNCHANGED <<verified, codeRequest, crashes>>

Crash ==
    /\ crashes < MaxCrashes
    /\ crashes' = crashes + 1
    /\ codeRequest' = [r \in CodeRequests |-> Quiet]
    /\ UNCHANGED <<challenge, verified>>

CodesInit ==
    /\ challenge = [s \in Slots |-> [Fresh("reset") EXCEPT !.status = "free"]]
    /\ verified = FALSE
    /\ codeRequest = [r \in CodeRequests |-> Quiet]
    /\ crashes = 0

Step(r) ==
    \/ \E s \in Slots : InsertChallenge(r, s)
    \/ Delivered(r) \/ DeliveryFails(r)
    \/ CountWrong(r) \/ MarkVerified(r) \/ MarkAccount(r)
    \/ SetPassword(r) \/ ConsumeChallenge(r)

Begin(r) ==
    \/ \E kind \in Kinds \ {"reset"} : SendEmailVerification(r, kind)
    \/ "reset" \in Kinds /\ RequestPasswordReset(r)
    \/ \E kind \in Kinds :
          ExpireChallenge(r, kind) \/ \E right \in BOOLEAN : ReadCode(r, kind, right)
    \/ ExpireSession(r) \/ ReadSession(r)

CodesNext == (\E r \in CodeRequests : Begin(r) \/ Step(r)) \/ Tick \/ Crash

CodesSpec == CodesInit /\ [][CodesNext]_codesVars

\* The clock goes on, and a request that has begun comes to its end.
FairCodesSpec == CodesSpec /\ WF_codesVars(Tick) /\ \A r \in CodeRequests : WF_codesVars(Step(r))

-----------------------------------------------------------------------------
CodesTypes ==
    /\ challenge \in [Slots -> Challenge]
    /\ verified \in BOOLEAN
    /\ codeRequest \in [CodeRequests -> RequestState]
    /\ crashes \in 0 .. MaxCrashes

Sent(kind) == {s \in Slots : InWindow(s) /\ challenge[s].kind = kind}

\* The daily limit of an address, which issueEmailCodeChallenge reads before
\* it writes: requests that overlap exceed it by what they are, never by more.
LimitHolds ==
    \A kind \in {"account", "reset"} :
        Cardinality(Sent(kind)) <= DailyLimit + Cardinality(CodeRequests) - 1

\* Codes of one address keep their distance when requests come one at a time,
\* also when a delivery failed and its row was taken back: two of them never
\* share a tick, and of three the last keeps two ticks.
CodesKeepDistance ==
    \A s, t \in Sent("reset") : s # t =>
        /\ challenge[s].age # challenge[t].age
        /\ \A u \in Sent("reset") \ {s, t} :
              challenge[s].age < challenge[t].age /\ challenge[t].age < challenge[u].age
              => challenge[t].age - challenge[s].age >= 2

\* One request at a time: after MaxFailed wrong answers a challenge answers no
\* more, and a lock is final until the code expires.
LockHolds == \A s \in Slots : challenge[s].wrong <= MaxFailed

\* One request at a time: a code sets one password; only a crash between the
\* two UPDATEs of confirmPasswordReset leaves it good for another.
OneResetPerCode == \A s \in Slots : challenge[s].uses <= 1 + crashes

\* One request at a time: a password is set through the code sent last, never
\* through the session of an earlier one.
ResetByLatest ==
    [][\A s \in Slots : challenge'[s].uses > challenge[s].uses => s \in Latest("reset")]_codesVars

\* A code that was accepted for an account verifies it: only a crash between
\* the two UPDATEs of verifyEmailCode loses that.
AcceptedIsVerified ==
    \A s \in Sent("account") :
        challenge[s].status = "verified"
        => verified \/ crashes > 0
           \/ \E r \in CodeRequests : codeRequest[r].phase = "marked" /\ codeRequest[r].slot = {s}

\* The promises that hold however requests overlap.
CodesHold == CodesTypes /\ LimitHolds /\ AcceptedIsVerified

\* No limit and no lock keeps an address out for good: again and again it is
\* possible to have a code sent.
NeverShutOut ==
    \A kind \in Kinds : []<>(Allowed(kind) \/ (kind = "account" /\ verified))

-----------------------------------------------------------------------------
(* What the threat model of these flows states.                            *)

\* "per-email cooldown and daily limit", of the code of a draft.
DraftLimitHolds == Cardinality(Sent("draft")) <= DailyLimit + Cardinality(CodeRequests) - 1

\* "consumed on first successful use" of a reset session.
ConsumedOnFirstUse == \A s \in Slots : challenge[s].uses <= 1

\* "5 failed attempts, challenge lock": a locked challenge stays locked.
LockIsFinal ==
    [][\A s \in Slots : challenge[s].status = "locked"
          => challenge'[s].status \in {"locked", "expired", "free"}]_codesVars
=============================================================================
