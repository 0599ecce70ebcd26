--------------------------- MODULE Accounts_proofs ---------------------------
(***************************************************************************)
(* Sessions that ended stay ended, and no session outlives the password it *)
(* began with, for any number of accounts and of overlapping requests.     *)
(* Versions only grow while an account exists: what a login has read is    *)
(* either still the row's, password included, or of an earlier version and *)
(* of no use.                                                              *)
(*                                                                         *)
(* The codes by e-mail: whoever has looked at the limit counts as one that *)
(* was sent, so that the overlap is all that can exceed it.                *)
(*                                                                         *)
(* Registrations: a draft that is COMPLETED is the account it asked for.   *)
(* One request at a time, what a client was told and what was stored of a  *)
(* draft stays true, or nobody will complete that draft.                   *)
(*                                                                         *)
(* Brokers: rows, documents and listings go with their account.  A request *)
(* that is alone writes for the status it read, so that nothing a broker   *)
(* sends in takes an approval back, and its file is in nobody's documents. *)
(***************************************************************************)
EXTENDS Sessions, EmailCodes, Registration, Brokers, FiniteSetTheorems, TLAPS

\* A request that runs has an account, one of the kind its steps expect.
RequestsHaveAccounts ==
    \A r \in Requests :
        /\ request[r].phase # "idle" => request[r].who \in Principals
        /\ request[r].phase \in {"google", "firebase", "profile"} =>
              request[r].who \in Accounts /\ request[r].email \in Emails

\* What a version and a password were read or signed as, of principal p.
IsOfRow(p, v, pw) ==
    /\ v <= version[p]
    /\ v = version[p] /\ pw > 0 => pw = password[p]

ReadingsAreOfRows ==
    /\ \A t \in tokens : IsOfRow(t.who, t.version, t.password)
    /\ \A r \in Requests : request[r].phase # "idle" =>
          IsOfRow(request[r].who, request[r].version, request[r].password)

EndedAreOlder == \A t \in ended : t.version < version[t.who]

SessionInv == TypeOK /\ RequestsHaveAccounts /\ ReadingsAreOfRows /\ EndedAreOlder

-----------------------------------------------------------------------------
\* One account has a password at first, and nobody is signed in.
LEMMA InitSessions ==
  Init => SessionInv
<1> SUFFICES ASSUME Init PROVE SessionInv
  OBVIOUS
<1> USE SessionsConstants
<1>1. PICK a \in Accounts, e \in Emails :
        /\ account = [b \in Accounts |-> IF b = a THEN [NoAccount EXCEPT !.email = e] ELSE NoAccount]
        /\ password = [p \in Principals |-> IF p \in {a, Admin} THEN 1 ELSE 0]
  BY DEF Init
<1>2. NoAccount \in Account /\ [NoAccount EXCEPT !.email = e] \in Account
  BY DEF NoAccount, Account
<1>3. 0 \in 0 .. MaxVersion /\ 1 \in 0 .. MaxVersion /\ 1 \in 1 .. MaxVersion
  OBVIOUS
<1>4. Idle \in Request
  BY <1>3 DEF Idle, Request, Role
<1>5. TypeOK
  BY <1>1, <1>2, <1>3, <1>4 DEF Init, TypeOK
<1> QED BY <1>5 DEF Init, SessionInv, RequestsHaveAccounts, ReadingsAreOfRows, EndedAreOlder, Idle

\* A request that starts has read the row as it is, and one that ends is of
\* nobody; neither touches the rows or the tokens.
LEMMA MoveKeeps ==
  ASSUME SessionInv, NEW r \in Requests, NEW q \in Request, Move(r, q),
         UNCHANGED <<account, version, password, tokens, ended, confirmed, told>>,
         q.phase # "idle" => q.who \in Principals /\ IsOfRow(q.who, q.version, q.password),
         q.phase \in {"google", "firebase", "profile"} => q.who \in Accounts /\ q.email \in Emails
  PROVE  SessionInv'
<1>1. /\ request' \in [Requests -> Request] /\ request'[r] = q
      /\ \A o \in Requests \ {r} : request'[o] = request[o]
  BY DEF Move, SessionInv, TypeOK
<1>2. TypeOK'
  BY <1>1 DEF SessionInv, TypeOK
<1>3. RequestsHaveAccounts' /\ ReadingsAreOfRows' /\ EndedAreOlder'
  BY <1>1 DEF SessionInv, RequestsHaveAccounts, ReadingsAreOfRows, EndedAreOlder, IsOfRow
<1> QED BY <1>2, <1>3 DEF SessionInv

\* The requests that only read.
LEMMA BeginSteps ==
  ASSUME SessionInv, NEW r \in Requests,
         \/ \E p \in Principals : BeginLogin(r, p)
         \/ \E a \in Accounts, e \in Emails :
              BeginGoogle(r, e, a) \/ BeginFirebase(r, e, a) \/ BeginUpdateProfile(r, a, e)
         \/ BeginReauth(r)
  PROVE  SessionInv'
<1>1. TypeOK /\ Accounts \subseteq Principals /\ Admin \in Principals
  BY DEF SessionInv, Principals
<1>2. ASSUME NEW p \in Principals, NEW e \in Emails \cup {NoEmail},
             NEW phase \in {"login", "google", "firebase", "reauth", "profile"},
             NEW pw \in {0, password[p]}, NEW role \in Role,
             Move(r, Reading(phase, p, e, pw, role)),
             phase \in {"google", "firebase", "profile"} => p \in Accounts /\ e \in Emails,
             UNCHANGED <<account, version, password, tokens, ended, confirmed, told>>
      PROVE  SessionInv'
  <2> DEFINE q == Reading(phase, p, e, pw, role)
  <2>1. q \in Request
    BY <1>1, SessionsConstants DEF Reading, TypeOK, Request
  <2>2. q.phase = phase /\ q.who = p /\ q.email = e /\ IsOfRow(p, q.version, q.password)
    BY <1>1, SessionsConstants DEF Reading, TypeOK, IsOfRow
  <2>3. Move(r, q)
    BY <1>2
  <2> HIDE DEF q
  <2> QED BY <1>2, <2>1, <2>2, <2>3, MoveKeeps
<1>3. \A p \in Principals : LoginRole(p) \in Role
  BY <1>1 DEF LoginRole, RoleOf, TypeOK, Account, Role, Principals
<1>4. ASSUME NEW p \in Principals, BeginLogin(r, p) PROVE SessionInv'
  BY <1>2, <1>3, <1>4 DEF BeginLogin
<1>5. ASSUME NEW a \in Accounts, NEW e \in Emails, BeginGoogle(r, e, a) PROVE SessionInv'
  BY <1>1, <1>2, <1>3, <1>5 DEF BeginGoogle
<1>6. ASSUME NEW a \in Accounts, NEW e \in Emails, BeginFirebase(r, e, a) PROVE SessionInv'
  BY <1>1, <1>2, <1>6 DEF BeginFirebase, Role
<1>7. ASSUME NEW a \in Accounts, NEW e \in Emails, BeginUpdateProfile(r, a, e) PROVE SessionInv'
  BY <1>1, <1>2, <1>3, <1>7 DEF BeginUpdateProfile
<1>8. CASE BeginReauth(r)
  BY <1>1, <1>2, <1>8 DEF BeginReauth, Role
<1> QED BY <1>4, <1>5, <1>6, <1>7, <1>8

\* The requests that end: what they sign is what they read.
LEMMA EndSteps ==
  ASSUME SessionInv, NEW r \in Requests,
         Login(r) \/ Google(r) \/ Firebase(r) \/ Reauth(r) \/ UpdateProfile(r)
  PROVE  SessionInv'
<1>1. request[r] \in Request /\ Idle \in Request /\ Idle.phase = "idle"
  BY SessionsConstants DEF SessionInv, TypeOK, Idle, Request, Role
<1>2. ASSUME Done(r), UNCHANGED <<version, password, ended, told>>, request[r].phase # "idle",
             account' \in [Accounts -> Account], confirmed' \subseteq Emails,
             \/ UNCHANGED tokens
             \/ \E kind \in {"session", "reauth"} : Sign(r, kind)
      PROVE  SessionInv'
  <2>1. /\ request' \in [Requests -> Request] /\ request'[r].phase = "idle"
        /\ \A o \in Requests \ {r} : request'[o] = request[o]
    BY <1>1, <1>2 DEF Done, Move, SessionInv, TypeOK
  <2>2. /\ tokens' \subseteq Token
        /\ \A t \in tokens' : IsOfRow(t.who, t.version, t.password)
    <3>1. CASE UNCHANGED tokens
      BY <3>1 DEF SessionInv, TypeOK, ReadingsAreOfRows
    <3>2. ASSUME NEW kind \in {"session", "reauth"}, Sign(r, kind)
          PROVE  /\ tokens' \subseteq Token
                 /\ \A t \in tokens' : IsOfRow(t.who, t.version, t.password)
      <4> DEFINE t == [who |-> request[r].who, version |-> request[r].version,
                       password |-> request[r].password, role |-> request[r].role, kind |-> kind]
      <4>1. t \in Token
        BY <1>1, <1>2 DEF Request, Token, SessionInv, RequestsHaveAccounts
      <4>2. IsOfRow(t.who, t.version, t.password)
        BY <1>2 DEF SessionInv, ReadingsAreOfRows
      <4>3. tokens' = tokens \cup {t}
        BY <3>2 DEF Sign
      <4> HIDE DEF t
      <4> QED BY <4>1, <4>2, <4>3 DEF SessionInv, TypeOK, ReadingsAreOfRows
    <3> QED BY <1>2, <3>1, <3>2
  <2>3. TypeOK'
    BY <1>2, <2>1, <2>2 DEF SessionInv, TypeOK
  <2>4. RequestsHaveAccounts' /\ ReadingsAreOfRows' /\ EndedAreOlder'
    BY <1>2, <2>1, <2>2 DEF SessionInv, RequestsHaveAccounts, ReadingsAreOfRows, EndedAreOlder, IsOfRow
  <2> QED BY <2>3, <2>4 DEF SessionInv
<1>3. request[r].phase \in {"google", "firebase", "profile"} =>
        request[r].who \in Accounts /\ request[r].email \in Emails
  BY DEF SessionInv, RequestsHaveAccounts
<1>4. account \in [Accounts -> Account] /\ confirmed \subseteq Emails
  BY DEF SessionInv, TypeOK
<1>5. CASE Login(r)
  BY <1>2, <1>4, <1>5 DEF Login
<1>6. CASE Reauth(r)
  BY <1>2, <1>4, <1>6 DEF Reauth
<1>7. CASE Google(r)
  <2>1. request[r].phase = "google" /\ request[r].who \in Accounts /\ request[r].email \in Emails
    BY <1>3, <1>7 DEF Google
  <2>2. account' \in [Accounts -> Account] /\ confirmed' \subseteq Emails
    BY <1>4, <1>7, <2>1 DEF Google, Account
  <2> QED BY <1>2, <1>7, <2>1, <2>2 DEF Google
<1>8. CASE Firebase(r)
  <2>1. request[r].phase = "firebase" /\ request[r].who \in Accounts /\ request[r].email \in Emails
    BY <1>3, <1>8 DEF Firebase
  <2>2. account' \in [Accounts -> Account]
    BY <1>4, <1>8, <2>1 DEF Firebase, Account
  <2> QED BY <1>2, <1>4, <1>8, <2>1, <2>2 DEF Firebase
<1>9. CASE UpdateProfile(r)
  <2>1. request[r].phase = "profile" /\ request[r].who \in Accounts /\ request[r].email \in Emails
    BY <1>3, <1>9 DEF UpdateProfile
  <2>2. account' \in [Accounts -> Account]
    BY <1>4, <1>9, <2>1 DEF UpdateProfile, Account
  <2> QED BY <1>2, <1>4, <1>9, <2>1, <2>2 DEF UpdateProfile
<1> QED BY <1>5, <1>6, <1>7, <1>8, <1>9

\* The end of a principal's sessions: everything it signed, and everything that
\* was read of its row, is of an earlier version now.
LEMMA RevokeKeeps ==
  ASSUME SessionInv, NEW p \in Principals, Revoke(p),
         UNCHANGED <<tokens, confirmed, told, request>>,
         account' \in [Accounts -> Account], password' \in [Principals -> 0 .. MaxVersion],
         \A o \in Principals \ {p} : password'[o] = password[o]
  PROVE  SessionInv'
<1>1. /\ version' \in [Principals -> 1 .. MaxVersion]
      /\ version'[p] = version[p] + 1
      /\ \A o \in Principals \ {p} : version'[o] = version[o]
  BY SessionsConstants DEF SessionInv, TypeOK, Revoke
<1>2. version[p] \in Nat
  BY DEF SessionInv, TypeOK
<1>3. ended' = ended \cup {t \in tokens : t.who = p}
  BY DEF Revoke
<1>4. TypeOK'
  BY <1>1, <1>3 DEF SessionInv, TypeOK
<1>5. RequestsHaveAccounts'
  BY DEF SessionInv, RequestsHaveAccounts
<1>6. ASSUME NEW o \in Principals, NEW v \in 1 .. MaxVersion, NEW pw, IsOfRow(o, v, pw)
      PROVE  IsOfRow(o, v, pw)'
  BY <1>1, <1>2, <1>6 DEF IsOfRow, SessionInv, TypeOK
<1>7. ReadingsAreOfRows'
  <2>1. \A t \in tokens : t.who \in Principals /\ t.version \in 1 .. MaxVersion
    BY DEF SessionInv, TypeOK, Token
  <2>2. \A r \in Requests : request[r].version \in 1 .. MaxVersion
    BY DEF SessionInv, TypeOK, Request
  <2> QED BY <1>6, <2>1, <2>2 DEF SessionInv, ReadingsAreOfRows, RequestsHaveAccounts
<1>8. EndedAreOlder'
  <2> SUFFICES ASSUME NEW t \in ended' PROVE t.version < version'[t.who]
    BY DEF EndedAreOlder
  <2>1. t.version \in 1 .. MaxVersion /\ t.who \in Principals
    BY <1>3 DEF SessionInv, TypeOK, Token
  <2>2. CASE t \in ended
    BY <1>1, <1>2, <2>1, <2>2 DEF SessionInv, EndedAreOlder
  <2>3. CASE t \in tokens /\ t.who = p
    BY <1>1, <1>2, <2>1, <2>3 DEF SessionInv, ReadingsAreOfRows, IsOfRow
  <2> QED BY <1>3, <2>2, <2>3
<1> QED BY <1>4, <1>5, <1>7, <1>8 DEF SessionInv

\* The steps of one account, and the logouts.
LEMMA AccountSteps ==
  ASSUME SessionInv, NEW a \in Accounts, AccountStep(a)
  PROVE  SessionInv'
<1>1. a \in Principals /\ a # Admin
  BY SessionsConstants DEF Principals
<1>2. account \in [Accounts -> Account] /\ password \in [Principals -> 0 .. MaxVersion]
  BY DEF SessionInv, TypeOK
<1>3. CASE ResetPassword(a)
  <2>1. /\ password' \in [Principals -> 0 .. MaxVersion]
        /\ \A o \in Principals \ {a} : password'[o] = password[o]
    BY <1>1, <1>2, <1>3, SessionsConstants DEF ResetPassword
  <2> QED BY <1>1, <1>2, <1>3, <2>1, RevokeKeeps DEF ResetPassword
<1>4. CASE RejectBroker(a)
  <2>1. account' \in [Accounts -> Account]
    BY <1>2, <1>4 DEF RejectBroker, Account
  <2> QED BY <1>1, <1>2, <1>4, <2>1, RevokeKeeps DEF RejectBroker
<1>5. ASSUME UNCHANGED <<version, password, tokens, ended, request>>,
             account' \in [Accounts -> Account], confirmed' \subseteq Emails, told' \subseteq Emails
      PROVE  SessionInv'
  BY <1>5 DEF SessionInv, TypeOK, RequestsHaveAccounts, ReadingsAreOfRows, EndedAreOlder, IsOfRow
<1>6. confirmed \subseteq Emails /\ told \subseteq Emails
  BY DEF SessionInv, TypeOK
<1>7. CASE BecomeBroker(a)
  <2>1. account' \in [Accounts -> Account]
    BY <1>2, <1>7 DEF BecomeBroker, Account
  <2> QED BY <1>5, <1>6, <1>7, <2>1 DEF BecomeBroker
<1>8. Exists(a) => account[a].email \in Emails
  BY <1>2 DEF Exists, Account
<1>9. CASE ConfirmEmail(a)
  <2>1. account' \in [Accounts -> Account]
    BY <1>2, <1>9 DEF ConfirmEmail, Account
  <2>2. confirmed' \subseteq Emails
    BY <1>6, <1>8, <1>9 DEF ConfirmEmail
  <2> QED BY <1>5, <1>6, <1>9, <2>1, <2>2 DEF ConfirmEmail
<1>10. CASE AnswerAlreadyVerified(a)
  <2>1. told' \subseteq Emails
    BY <1>6, <1>8, <1>10 DEF AnswerAlreadyVerified
  <2> QED BY <1>2, <1>5, <1>6, <1>10, <2>1 DEF AnswerAlreadyVerified
<1>11. CASE DeleteUser(a)
  <2>1. NoAccount \in Account
    BY DEF NoAccount, Account
  <2>2. account' \in [Accounts -> Account]
    BY <1>2, <1>11, <2>1 DEF DeleteUser
  <2>3. /\ version' \in [Principals -> 1 .. MaxVersion]
        /\ password' \in [Principals -> 0 .. MaxVersion]
        /\ \A o \in Principals \ {a} : version'[o] = version[o] /\ password'[o] = password[o]
    <3>1. 0 \in 0 .. MaxVersion /\ 1 \in 1 .. MaxVersion
      BY SessionsConstants
    <3>2. version' = [version EXCEPT ![a] = 1] /\ password' = [password EXCEPT ![a] = 0]
      BY <1>11 DEF DeleteUser
    <3> QED BY <1>1, <3>1, <3>2 DEF SessionInv, TypeOK
  <2>4. /\ tokens' = {t \in tokens : t.who # a} /\ ended' = {t \in ended : t.who # a}
        /\ \A r \in Requests : request[r].who # a
        /\ UNCHANGED <<confirmed, told, request>>
    BY <1>11 DEF DeleteUser
  <2>5. TypeOK' /\ RequestsHaveAccounts'
    BY <2>2, <2>3, <2>4 DEF SessionInv, TypeOK, RequestsHaveAccounts
  <2>6. \A t \in tokens \cup ended : t.who \in Principals
    BY DEF SessionInv, TypeOK, Token
  <2>7. ReadingsAreOfRows' /\ EndedAreOlder'
    BY <2>3, <2>4, <2>6 DEF SessionInv, RequestsHaveAccounts, ReadingsAreOfRows, EndedAreOlder, IsOfRow
  <2> QED BY <2>5, <2>7 DEF SessionInv
<1>12. ASSUME NEW e \in Emails, FirebaseRegister(e, a) PROVE SessionInv'
  <2> DEFINE t == [who |-> a, version |-> 1, password |-> 0, role |-> "client", kind |-> "session"]
  <2>1. 0 \in 0 .. MaxVersion /\ 1 \in 1 .. MaxVersion
    BY SessionsConstants
  <2>2. t \in Token /\ t.who = a /\ t.version = 1 /\ t.password = 0
    BY <1>1, <2>1 DEF Token, Role
  <2>3. [NoAccount EXCEPT !.email = e, !.uid = e] \in Account
    BY DEF NoAccount, Account
  <2>4. account' \in [Accounts -> Account]
    BY <1>2, <1>12, <2>3 DEF FirebaseRegister
  <2>5. tokens' = tokens \cup {t} /\ UNCHANGED <<version, password, ended, confirmed, told, request>>
    BY <1>12 DEF FirebaseRegister
  <2>6. IsOfRow(t.who, t.version, t.password)
    BY <1>1, <2>2 DEF SessionInv, TypeOK, IsOfRow
  <2> HIDE DEF t
  <2>7. TypeOK'
    BY <2>2, <2>4, <2>5 DEF SessionInv, TypeOK
  <2>8. RequestsHaveAccounts' /\ ReadingsAreOfRows' /\ EndedAreOlder'
    BY <2>5, <2>6 DEF SessionInv, RequestsHaveAccounts, ReadingsAreOfRows, EndedAreOlder, IsOfRow
  <2> QED BY <2>7, <2>8 DEF SessionInv
<1> QED BY <1>3, <1>4, <1>7, <1>9, <1>10, <1>11, <1>12 DEF AccountStep

\* Every step keeps the invariant.
LEMMA SessionSteps ==
  ASSUME SessionInv, [Next]_vars
  PROVE  SessionInv'
<1>1. ASSUME NEW r \in Requests,
             LoginStep(r) \/ UpdateProfile(r)
               \/ \E a \in Accounts, e \in Emails : BeginUpdateProfile(r, a, e)
      PROVE  SessionInv'
  BY <1>1, BeginSteps, EndSteps DEF LoginStep
<1>2. ASSUME NEW a \in Accounts, AccountStep(a) PROVE SessionInv'
  BY <1>2, AccountSteps
<1>3. ASSUME NEW p \in Principals, Logout(p) PROVE SessionInv'
  <2>1. account \in [Accounts -> Account] /\ password \in [Principals -> 0 .. MaxVersion]
    BY DEF SessionInv, TypeOK
  <2> QED BY <1>3, <2>1, RevokeKeeps DEF Logout
<1>4. CASE UNCHANGED vars
  BY <1>4 DEF vars, SessionInv, TypeOK, RequestsHaveAccounts, ReadingsAreOfRows, EndedAreOlder, IsOfRow
<1> QED BY <1>1, <1>2, <1>3, <1>4 DEF Next

\* What requests have read and what was signed is of the row as it is, or of a
\* version that is over; what was ended is of a version that is over (the
\* token_version that validateUserSession and validateAdminAccount compare).
THEOREM SessionSafety ==
  Spec => []SessionInv
<1>1. Init => SessionInv
  BY InitSessions
<1>2. SessionInv /\ [Next]_vars => SessionInv'
  BY SessionSteps
<1> QED BY <1>1, <1>2, PTL DEF Spec

\* A session that is valid is one of the password its account has, although a
\* login may read its row before a reset and sign after it; a session that was
\* ended by a logout, a reset or a rejection stays ended.
THEOREM SessionsAlwaysHold ==
  Spec => []SessionsHold
<1>1. ASSUME SessionInv PROVE SessionsHold
  <2>1. \A t \in tokens \cup ended : t.version \in Nat /\ version[t.who] \in Nat
    BY <1>1 DEF SessionInv, TypeOK, Token
  <2> QED BY <1>1, <2>1 DEF SessionInv, ReadingsAreOfRows, EndedAreOlder, IsOfRow, Valid,
                            SessionsHold, SessionHasPassword, EndedStaysEnded
<1> QED BY <1>1, SessionSafety, PTL

-----------------------------------------------------------------------------
(* Codes by e-mail.                                                        *)

\* A challenge that still answers has attempts left, and its session is no
\* older than itself.
RowFits(row) ==
    /\ row.session <= row.age
    /\ row.status = "sent" => row.failed < MaxFailed

\* So has one that a request has read; a row keeps its kind while a request
\* names it.
ReadingFits(q) ==
    /\ q.phase = "wrong" => q.failed < MaxFailed
    /\ q.phase \in {"resetting", "consuming"} => q.kind = "reset"
    /\ \A s \in q.slot : challenge[s].kind = q.kind

Issuing(kind) ==
    {r \in CodeRequests : codeRequest[r].phase = "issuing" /\ codeRequest[r].kind = kind}

Most == DailyLimit + Cardinality(CodeRequests) - 1

\* What was sent and what is being sent exceeds the limit by the overlap at most.
OverlapIsCounted ==
    \A kind \in {"account", "reset"} :
        Cardinality(Sent(kind)) + Cardinality(Issuing(kind)) <= Most

CodeInv ==
    /\ CodesTypes
    /\ \A s \in Slots : RowFits(challenge[s])
    /\ \A r \in CodeRequests : ReadingFits(codeRequest[r])
    /\ OverlapIsCounted /\ AcceptedIsVerified

-----------------------------------------------------------------------------
\* Bounds of the sets that are counted.
LEMMA CodesBounds ==
    /\ Cardinality(CodeRequests) \in Nat /\ Most \in Nat
    /\ CodeRequests # {} => Cardinality(CodeRequests) > 0
    /\ \A kind : /\ IsFiniteSet(Sent(kind)) /\ Cardinality(Sent(kind)) \in Nat
                 /\ IsFiniteSet(Counted(kind)) /\ Cardinality(Counted(kind)) \in Nat
                 /\ IsFiniteSet(Issuing(kind)) /\ Cardinality(Issuing(kind)) \in Nat
                 /\ Cardinality(Issuing(kind)) <= Cardinality(CodeRequests)
<1>1. IsFiniteSet(Slots) /\ IsFiniteSet(CodeRequests) /\ DailyLimit \in Nat \ {0}
  BY CodesAssumption DEF CodeConstants
<1>2. Cardinality(CodeRequests) \in Nat
  BY <1>1, FS_CardinalityType
<1>3. CodeRequests # {} => Cardinality(CodeRequests) > 0
  BY <1>1, <1>2, FS_EmptySet
<1>4. Most \in Nat
  BY <1>1, <1>2 DEF Most
<1>5. ASSUME NEW kind
      PROVE  /\ IsFiniteSet(Sent(kind)) /\ Cardinality(Sent(kind)) \in Nat
             /\ IsFiniteSet(Counted(kind)) /\ Cardinality(Counted(kind)) \in Nat
             /\ IsFiniteSet(Issuing(kind)) /\ Cardinality(Issuing(kind)) \in Nat
             /\ Cardinality(Issuing(kind)) <= Cardinality(CodeRequests)
  <2>1. Sent(kind) \subseteq Slots /\ Counted(kind) \subseteq Slots /\ Issuing(kind) \subseteq CodeRequests
    BY DEF Sent, Counted, Rows, Issuing
  <2> HIDE DEF Sent, Counted, Issuing
  <2> QED BY <1>1, <2>1, FS_Subset, FS_CardinalityType
<1> QED BY <1>2, <1>3, <1>4, <1>5

\* Less sent and less being sent is counted as less.
LEMMA FewerFit ==
  ASSUME NEW S, NEW T \in SUBSET S, NEW I, NEW J \in SUBSET I, IsFiniteSet(S), IsFiniteSet(I),
         NEW n \in Nat, Cardinality(S) + Cardinality(I) <= n
  PROVE  Cardinality(T) + Cardinality(J) <= n
<1>1. /\ Cardinality(S) \in Nat /\ Cardinality(T) \in Nat /\ Cardinality(T) <= Cardinality(S)
      /\ Cardinality(I) \in Nat /\ Cardinality(J) \in Nat /\ Cardinality(J) <= Cardinality(I)
  BY FS_Subset, FS_CardinalityType
<1> QED BY <1>1

\* No code is sent at first.
LEMMA InitCodes == CodesInit => CodeInv
<1> SUFFICES ASSUME CodesInit PROVE CodeInv
  OBVIOUS
<1>1. MaxFailed \in Nat \ {0} /\ Window \in Nat \ {0} /\ MaxCrashes \in Nat
  BY CodesAssumption DEF CodeConstants
<1>2. [Fresh("reset") EXCEPT !.status = "free"] \in Challenge
  BY <1>1 DEF Fresh, Challenge, Status
<1>3. Quiet \in RequestState
  BY <1>1 DEF Quiet, RequestState
<1>4. CodesTypes
  <2>1. 0 \in 0 .. MaxCrashes /\ FALSE \in BOOLEAN
    BY <1>1
  <2> QED BY <1>2, <1>3, <2>1 DEF CodesInit, CodesTypes
<1>5. \A s \in Slots : challenge[s].status = "free" /\ RowFits(challenge[s])
  BY DEF CodesInit, Fresh, RowFits
<1>6. \A r \in CodeRequests : codeRequest[r].phase = "idle" /\ ReadingFits(codeRequest[r])
  BY DEF CodesInit, Quiet, ReadingFits
<1>7. \A kind : Sent(kind) = {} /\ Issuing(kind) = {}
  BY <1>5, <1>6 DEF Sent, InWindow, Issuing
<1>8. OverlapIsCounted
  BY <1>7, CodesBounds, FS_EmptySet DEF OverlapIsCounted
<1>9. AcceptedIsVerified
  BY <1>7 DEF AcceptedIsVerified
<1> QED BY <1>4, <1>5, <1>6, <1>8, <1>9 DEF CodeInv

\* A step of a request that has its code, or that answers one: rows keep their
\* kind and age, none appears, and what is accepted is marked next.
LEMMA AnswerKeeps ==
  ASSUME CodeInv, NEW r \in CodeRequests, NEW q \in RequestState, MoveRequest(r, q),
         challenge' \in [Slots -> Challenge], verified' \in BOOLEAN, UNCHANGED crashes,
         q.phase # "issuing", q.phase = "wrong" => q.failed < MaxFailed,
         q.phase \in {"resetting", "consuming"} => q.kind = "reset",
         \A s \in q.slot : challenge[s].kind = q.kind,
         verified \/ codeRequest[r].phase = "marked" => verified',
         \A s \in Slots :
            /\ RowFits(challenge'[s])
            /\ challenge'[s].kind = challenge[s].kind /\ challenge'[s].age = challenge[s].age
            /\ challenge[s].status = "free" => challenge'[s].status = "free"
            /\ challenge'[s].status = "verified" /\ challenge[s].status # "verified"
                 /\ challenge[s].kind = "account" => q.phase = "marked" /\ q.slot = {s}
  PROVE  CodeInv'
<1>1. /\ codeRequest' \in [CodeRequests -> RequestState] /\ codeRequest'[r] = q
      /\ \A o \in CodeRequests \ {r} : codeRequest'[o] = codeRequest[o]
  BY DEF MoveRequest, CodeInv, CodesTypes
<1>2. CodesTypes'
  BY <1>1 DEF CodeInv, CodesTypes
<1>3. \A o \in CodeRequests : ReadingFits(codeRequest[o])'
  <2>1. \A o \in CodeRequests : codeRequest'[o].slot \subseteq Slots
    BY <1>1 DEF RequestState
  <2> QED BY <1>1, <2>1 DEF CodeInv, ReadingFits
<1>4. \A kind : Sent(kind)' \subseteq Sent(kind) /\ Issuing(kind)' \subseteq Issuing(kind)
  BY <1>1 DEF Sent, InWindow, Issuing
<1>5. OverlapIsCounted'
  <2> SUFFICES ASSUME NEW kind \in {"account", "reset"}
               PROVE  Cardinality(Sent(kind)') + Cardinality(Issuing(kind)') <= Most
    BY DEF OverlapIsCounted, Most
  <2>1. Cardinality(Sent(kind)) + Cardinality(Issuing(kind)) <= Most
    BY DEF CodeInv, OverlapIsCounted
  <2> QED BY <1>4, <2>1, CodesBounds, FewerFit
<1>6. AcceptedIsVerified'
  <2> SUFFICES ASSUME NEW s \in Sent("account")', challenge'[s].status = "verified",
                      ~verified', ~(crashes' > 0)
               PROVE  \E o \in CodeRequests : codeRequest'[o].phase = "marked" /\ codeRequest'[o].slot = {s}
    BY DEF AcceptedIsVerified
  <2>1. s \in Sent("account") /\ s \in Slots /\ challenge[s].kind = "account"
    BY <1>4 DEF Sent
  <2>2. CASE challenge[s].status = "verified"
    <3>1. PICK o \in CodeRequests : codeRequest[o].phase = "marked" /\ codeRequest[o].slot = {s}
      BY <2>1, <2>2 DEF CodeInv, AcceptedIsVerified
    <3> QED BY <1>1, <3>1
  <2>3. CASE challenge[s].status # "verified"
    BY <1>1, <2>1, <2>3
  <2> QED BY <2>2, <2>3
<1> QED BY <1>2, <1>3, <1>5, <1>6 DEF CodeInv

\* A row of which one field changes stays a row.
LEMMA RowChanges ==
  ASSUME NEW row \in Challenge, NEW status \in Status, NEW failed \in 0 .. MaxFailed
  PROVE  /\ [row EXCEPT !.status = status] \in Challenge
         /\ [row EXCEPT !.status = status, !.session = 0] \in Challenge
         /\ WithWrong(row, failed) \in Challenge
<1>1. 0 \in 0 .. Window
  BY CodesAssumption DEF CodeConstants
<1>2. row.wrong + 1 \in Nat /\ row.uses + 1 \in Nat
  BY DEF Challenge
<1>3. /\ [row EXCEPT !.status = status] \in Challenge
      /\ [row EXCEPT !.status = status, !.session = 0] \in Challenge
  BY <1>1 DEF Challenge
<1>4. (IF failed >= MaxFailed THEN "locked" ELSE "sent") \in Status
  BY DEF Status
<1> QED BY <1>2, <1>3, <1>4 DEF WithWrong, Challenge

\* What a request goes on with, by the phases of the code.
LEMMA NextReading ==
  ASSUME NEW phase \in {"sending", "wrong", "right", "marked", "resetting", "consuming"},
         NEW kind \in {"account", "draft", "reset"}, NEW s \in Slots, NEW failed \in 0 .. MaxFailed
  PROVE  /\ At(phase, kind, s, failed) \in RequestState
         /\ At(phase, kind, s, failed).phase = phase /\ At(phase, kind, s, failed).kind = kind
         /\ At(phase, kind, s, failed).slot = {s} /\ At(phase, kind, s, failed).failed = failed
         /\ Quiet \in RequestState /\ Quiet.phase = "idle" /\ Quiet.slot = {}
         /\ 0 \in 0 .. MaxFailed
<1>1. 0 \in 0 .. MaxFailed
  BY CodesAssumption DEF CodeConstants
<1> QED BY <1>1 DEF At, Quiet, RequestState

\* Requests that end, or begin with a row they have read.
LEMMA ReadingSteps ==
  ASSUME CodeInv, NEW r \in CodeRequests,
         \/ Delivered(r) \/ MarkAccount(r) \/ ReadSession(r)
         \/ \E kind \in Kinds : \E right \in BOOLEAN : ReadCode(r, kind, right)
  PROVE  CodeInv'
<1>1. /\ challenge \in [Slots -> Challenge] /\ verified \in BOOLEAN
      /\ \A s \in Slots : RowFits(challenge[s])
  BY DEF CodeInv, CodesTypes
<1>2. Quiet \in RequestState /\ Quiet.phase = "idle" /\ Quiet.slot = {}
  BY CodesAssumption DEF CodeConstants, Quiet, RequestState
<1>3. ASSUME NEW q \in RequestState, MoveRequest(r, q), UNCHANGED <<challenge, crashes>>,
             verified' \in BOOLEAN, verified \/ codeRequest[r].phase = "marked" => verified',
             q.phase # "issuing", q.phase = "wrong" => q.failed < MaxFailed,
             q.phase \in {"resetting", "consuming"} => q.kind = "reset",
             \A s \in q.slot : challenge[s].kind = q.kind
      PROVE  CodeInv'
  BY <1>1, <1>3, AnswerKeeps
<1>4. CASE Delivered(r)
  BY <1>1, <1>2, <1>3, <1>4 DEF Delivered
<1>5. CASE MarkAccount(r)
  BY <1>1, <1>2, <1>3, <1>5 DEF MarkAccount
<1>6. CASE ReadSession(r)
  <2>1. PICK s \in Latest("reset") : MoveRequest(r, At("resetting", "reset", s, 0))
    BY <1>6 DEF ReadSession
  <2>2. s \in Slots /\ challenge[s].kind = "reset"
    BY DEF Latest, Rows
  <2> DEFINE q == At("resetting", "reset", s, 0)
  <2>3. q \in RequestState /\ q.phase = "resetting" /\ q.kind = "reset" /\ q.slot = {s}
    BY <2>2, NextReading, CodesAssumption DEF CodeConstants
  <2> HIDE DEF q
  <2>4. MoveRequest(r, q)
    BY <2>1 DEF q
  <2>5. UNCHANGED <<challenge, verified, crashes>> /\ codeRequest[r].phase = "idle"
    BY <1>6 DEF ReadSession
  <2> QED BY <1>1, <1>3, <2>2, <2>3, <2>4, <2>5
<1>7. ASSUME NEW kind \in Kinds, NEW right \in BOOLEAN, ReadCode(r, kind, right)
      PROVE  CodeInv'
  <2>1. PICK s \in Latest(kind) :
          /\ challenge[s].status = "sent"
          /\ MoveRequest(r, At(IF right THEN "right" ELSE "wrong", kind, s, challenge[s].failed))
    BY <1>7 DEF ReadCode
  <2>2. s \in Slots /\ challenge[s].kind = kind /\ challenge[s].failed \in 0 .. MaxFailed
    BY <1>1 DEF Latest, Rows, Challenge
  <2>3. challenge[s].failed < MaxFailed
    BY <1>1, <2>1, <2>2 DEF RowFits
  <2> DEFINE phase == IF right THEN "right" ELSE "wrong"
             q == At(phase, kind, s, challenge[s].failed)
  <2>4. phase \in {"right", "wrong"} /\ kind \in {"account", "draft", "reset"}
    BY CodesAssumption DEF CodeConstants
  <2>5. MoveRequest(r, q)
    BY <2>1
  <2>6. UNCHANGED <<challenge, verified, crashes>> /\ codeRequest[r].phase = "idle"
    BY <1>7 DEF ReadCode
  <2> HIDE DEF phase
  <2>7. /\ q \in RequestState /\ q.phase = phase /\ q.kind = kind /\ q.slot = {s}
        /\ q.failed = challenge[s].failed
    BY <2>2, <2>4, NextReading
  <2> HIDE DEF q
  <2> QED BY <1>1, <1>3, <2>2, <2>3, <2>4, <2>5, <2>6, <2>7
<1> QED BY <1>4, <1>5, <1>6, <1>7

\* Requests that write one row: the others stay, and so do its kind and its age.
LEMMA WritingSteps ==
  ASSUME CodeInv, NEW r \in CodeRequests,
         \/ DeliveryFails(r) \/ CountWrong(r) \/ MarkVerified(r)
         \/ SetPassword(r) \/ ConsumeChallenge(r) \/ ExpireSession(r)
         \/ \E kind \in Kinds : ExpireChallenge(r, kind)
  PROVE  CodeInv'
<1>1. /\ challenge \in [Slots -> Challenge] /\ verified \in BOOLEAN
      /\ codeRequest \in [CodeRequests -> RequestState]
      /\ \A s \in Slots : RowFits(challenge[s])
      /\ ReadingFits(codeRequest[r])
  BY DEF CodeInv, CodesTypes
<1>2. codeRequest[r].slot \subseteq Slots /\ codeRequest[r].failed \in 0 .. MaxFailed
      /\ codeRequest[r].kind \in {"account", "draft", "reset"}
  BY <1>1 DEF RequestState
<1>3. Quiet \in RequestState /\ Quiet.phase = "idle" /\ Quiet.slot = {}
  BY CodesAssumption DEF CodeConstants, Quiet, RequestState
<1>4. ASSUME NEW s \in Slots, NEW row \in Challenge, challenge' = [challenge EXCEPT ![s] = row],
             NEW q \in RequestState, MoveRequest(r, q), UNCHANGED <<verified, crashes>>,
             codeRequest[r].phase # "marked", q.phase \notin {"issuing", "wrong"},
             q.phase \in {"resetting", "consuming"} => q.kind = "reset",
             \A t \in q.slot : challenge[t].kind = q.kind,
             RowFits(row), row.kind = challenge[s].kind, row.age = challenge[s].age,
             challenge[s].status = "free" => row.status = "free",
             row.status = "verified" /\ challenge[s].status # "verified" /\ row.kind = "account"
               => q.phase = "marked" /\ q.slot = {s}
      PROVE  CodeInv'
  <2>1. /\ challenge' \in [Slots -> Challenge] /\ challenge'[s] = row
        /\ \A t \in Slots \ {s} : challenge'[t] = challenge[t]
    BY <1>1, <1>4
  <2>2. \A t \in Slots :
            /\ RowFits(challenge'[t])
            /\ challenge'[t].kind = challenge[t].kind /\ challenge'[t].age = challenge[t].age
            /\ challenge[t].status = "free" => challenge'[t].status = "free"
            /\ challenge'[t].status = "verified" /\ challenge[t].status # "verified"
                 /\ challenge[t].kind = "account" => q.phase = "marked" /\ q.slot = {t}
    BY <1>1, <1>4, <2>1
  <2> QED BY <1>1, <1>4, <2>1, <2>2, AnswerKeeps
<1>5. ASSUME UNCHANGED <<challenge, verified, crashes>>, MoveRequest(r, Quiet),
             codeRequest[r].phase # "marked"
      PROVE  CodeInv'
  BY <1>1, <1>3, <1>5, AnswerKeeps
<1>6. ASSUME NEW s \in Slots, NEW status \in {"free", "expired", "consumed"}, SetStatus(s, status),
             status # "free" => challenge[s].status # "free",
             NEW q \in {Quiet, codeRequest[r]}, MoveRequest(r, q), UNCHANGED <<verified, crashes>>,
             codeRequest[r].phase \in {"idle", "sending", "consuming"}
      PROVE  CodeInv'
  <2> DEFINE row == [challenge[s] EXCEPT !.status = status]
  <2>1. challenge[s] \in Challenge /\ status \in Status
    BY <1>1 DEF Status
  <2>2. row \in Challenge
    BY <2>1, CodesAssumption, RowChanges DEF CodeConstants, Challenge
  <2>3. /\ RowFits(row) /\ row.kind = challenge[s].kind /\ row.age = challenge[s].age
        /\ row.status = status
    BY <1>1, <2>1 DEF RowFits, Challenge
  <2>4. challenge' = [challenge EXCEPT ![s] = row]
    BY <1>1, <1>6 DEF SetStatus
  <2>5. /\ q \in RequestState /\ q.phase \notin {"issuing", "wrong"}
        /\ q.phase \in {"resetting", "consuming"} => q.kind = "reset"
        /\ \A t \in q.slot : challenge[t].kind = q.kind
    BY <1>1, <1>3, <1>6 DEF ReadingFits
  <2> HIDE DEF row
  <2> QED BY <1>4, <1>6, <2>2, <2>3, <2>4, <2>5
<1>7. CASE DeliveryFails(r)
  BY <1>2, <1>6, <1>7 DEF DeliveryFails
<1>8. CASE ConsumeChallenge(r)
  <2>1. PICK s \in codeRequest[r].slot :
          IF s \in Rows THEN SetStatus(s, "consumed") ELSE UNCHANGED challenge
    BY <1>8 DEF ConsumeChallenge
  <2>2. /\ MoveRequest(r, Quiet) /\ UNCHANGED <<verified, crashes>>
        /\ codeRequest[r].phase = "consuming" /\ s \in Slots
    BY <1>2, <1>8 DEF ConsumeChallenge
  <2>3. CASE s \in Rows
    BY <1>6, <2>1, <2>2, <2>3 DEF Rows
  <2>4. CASE s \notin Rows
    BY <1>5, <2>1, <2>2, <2>4
  <2> QED BY <2>3, <2>4
<1>9. ASSUME codeRequest[r].phase = "idle", UNCHANGED <<verified, codeRequest, crashes>>,
             NEW s \in Rows, SetStatus(s, "expired")
      PROVE  CodeInv'
  <2>1. MoveRequest(r, codeRequest[r])
    BY <1>1, <1>9 DEF MoveRequest
  <2>2. s \in Slots /\ challenge[s].status # "free"
    BY DEF Rows
  <2> QED BY <1>6, <1>9, <2>1, <2>2
<1>10. CASE ExpireSession(r)
  BY <1>9, <1>10 DEF ExpireSession, Latest
<1>11. ASSUME NEW kind \in Kinds, ExpireChallenge(r, kind) PROVE CodeInv'
  BY <1>9, <1>11 DEF ExpireChallenge, Latest
<1>13. MaxFailed \in Nat /\ 0 \in 0 .. MaxFailed
  BY CodesAssumption DEF CodeConstants
<1>12. CASE SetPassword(r)
  <2>1. PICK s \in codeRequest[r].slot :
          /\ challenge' = [challenge EXCEPT ![s].uses = @ + 1]
          /\ MoveRequest(r, At("consuming", "reset", s, 0))
    BY <1>12 DEF SetPassword
  <2> DEFINE row == [challenge[s] EXCEPT !.uses = @ + 1]
             q == At("consuming", "reset", s, 0)
  <2>2. s \in Slots /\ challenge[s] \in Challenge /\ challenge[s].kind = codeRequest[r].kind
    BY <1>1, <1>2 DEF ReadingFits
  <2>3. row \in Challenge
    BY <2>2 DEF Challenge
  <2>4. /\ RowFits(row) /\ row.kind = challenge[s].kind /\ row.age = challenge[s].age
        /\ row.status = challenge[s].status
    BY <1>1, <2>2 DEF RowFits, Challenge
  <2>5. challenge' = [challenge EXCEPT ![s] = row] /\ MoveRequest(r, q)
    BY <1>1, <2>1, <2>2
  <2>6. q \in RequestState /\ q.phase = "consuming" /\ q.kind = "reset" /\ q.slot = {s}
    BY <2>2, <1>13, NextReading
  <2>7. /\ UNCHANGED <<verified, crashes>> /\ codeRequest[r].phase = "resetting"
        /\ codeRequest[r].kind = "reset"
    BY <1>1, <1>12 DEF SetPassword, ReadingFits
  <2> HIDE DEF row, q
  <2> QED BY <1>4, <2>2, <2>3, <2>4, <2>5, <2>6, <2>7
<1>14. CASE CountWrong(r)
  <2> DEFINE failed == codeRequest[r].failed + 1
  <2>1. PICK s \in codeRequest[r].slot :
          challenge' = IF s \notin Rows THEN challenge
                                        ELSE [challenge EXCEPT ![s] = WithWrong(@, failed)]
    BY <1>14 DEF CountWrong
  <2>2. /\ MoveRequest(r, Quiet) /\ UNCHANGED <<verified, crashes>>
        /\ codeRequest[r].phase = "wrong" /\ codeRequest[r].failed < MaxFailed
        /\ s \in Slots /\ challenge[s] \in Challenge
    BY <1>1, <1>2, <1>14 DEF CountWrong, ReadingFits
  <2>3. CASE s \notin Rows
    BY <1>5, <2>1, <2>2, <2>3
  <2>4. CASE s \in Rows
    <3> DEFINE row == WithWrong(challenge[s], failed)
    <3>1. failed \in 0 .. MaxFailed
      BY <1>2, <1>13, <2>2
    <3> HIDE DEF failed
    <3>2. row \in Challenge
      BY <2>2, <3>1, RowChanges DEF Status
    <3>3. challenge' = [challenge EXCEPT ![s] = row]
      BY <1>1, <2>1, <2>2, <2>4
    <3>4. /\ row.kind = challenge[s].kind /\ row.age = challenge[s].age
          /\ row.session = challenge[s].session /\ row.failed = failed
          /\ row.status = IF failed >= MaxFailed THEN "locked" ELSE "sent"
      BY <2>2 DEF WithWrong, Challenge
    <3>5. RowFits(row) /\ row.status # "verified" /\ challenge[s].status # "free"
      BY <1>1, <1>13, <2>2, <2>4, <3>1, <3>4 DEF RowFits, Rows
    <3> HIDE DEF row
    <3> QED BY <1>3, <1>4, <2>2, <3>2, <3>3, <3>4, <3>5
  <2> QED BY <2>3, <2>4
<1>15. CASE MarkVerified(r)
  <2> DEFINE q(s) == IF codeRequest[r].kind = "account" THEN At("marked", "account", s, 0) ELSE Quiet
  <2>1. PICK s \in codeRequest[r].slot :
          /\ challenge' = IF s \notin Rows THEN challenge ELSE
                [challenge EXCEPT ![s] = [@ EXCEPT !.status = "verified", !.session = 0]]
          /\ MoveRequest(r, q(s))
    BY <1>15 DEF MarkVerified
  <2>2. /\ UNCHANGED <<verified, crashes>> /\ codeRequest[r].phase = "right"
        /\ s \in Slots /\ challenge[s] \in Challenge /\ challenge[s].kind = codeRequest[r].kind
    BY <1>1, <1>2, <1>15 DEF MarkVerified, ReadingFits
  <2>3. /\ q(s) \in RequestState /\ q(s).phase \in {"idle", "marked"}
        /\ \A t \in q(s).slot : challenge[t].kind = q(s).kind
        /\ challenge[s].kind = "account" => q(s).phase = "marked" /\ q(s).slot = {s}
    BY <1>3, <1>13, <2>2, NextReading
  <2> HIDE DEF q
  <2>4. CASE s \notin Rows
    BY <1>1, <2>1, <2>2, <2>3, <2>4, AnswerKeeps
  <2>5. CASE s \in Rows
    <3> DEFINE row == [challenge[s] EXCEPT !.status = "verified", !.session = 0]
    <3>1. row \in Challenge
      BY <2>2, <1>13, RowChanges DEF Status
    <3>2. challenge' = [challenge EXCEPT ![s] = row]
      BY <1>1, <2>1, <2>2, <2>5
    <3>3. /\ RowFits(row) /\ row.kind = challenge[s].kind /\ row.age = challenge[s].age
          /\ row.status = "verified" /\ challenge[s].status # "free"
      BY <2>2, <2>5 DEF RowFits, Challenge, Rows
    <3> HIDE DEF row
    <3> QED BY <1>4, <2>1, <2>2, <2>3, <3>1, <3>2, <3>3
  <2> QED BY <2>4, <2>5
<1> QED BY <1>7, <1>8, <1>10, <1>11, <1>12, <1>14, <1>15

\* A code is asked for: the limit is not reached, whoever else has looked.
LEMMA IssuingSteps ==
  ASSUME CodeInv, NEW r \in CodeRequests,
         \/ \E kind \in Kinds \ {"reset"} : SendEmailVerification(r, kind)
         \/ RequestPasswordReset(r)
  PROVE  CodeInv'
<1>1. MaxFailed \in Nat /\ 0 \in 0 .. MaxFailed /\ DailyLimit \in Nat \ {0}
      /\ Kinds \subseteq {"account", "draft", "reset"}
  BY CodesAssumption DEF CodeConstants
<1>2. ASSUME NEW kind \in {"account", "draft", "reset"}, Allowed(kind), codeRequest[r].phase = "idle",
             NEW q \in RequestState, q.phase = "issuing", q.kind = kind, q.slot = {},
             MoveRequest(r, q), UNCHANGED <<challenge, verified, crashes>>
      PROVE  CodeInv'
  <2>1. /\ codeRequest' \in [CodeRequests -> RequestState] /\ codeRequest'[r] = q
        /\ \A o \in CodeRequests \ {r} : codeRequest'[o] = codeRequest[o]
    BY <1>2 DEF MoveRequest, CodeInv, CodesTypes
  <2>2. CodesTypes' /\ \A s \in Slots : RowFits(challenge'[s])
    BY <1>2, <2>1 DEF CodeInv, CodesTypes
  <2>3. \A o \in CodeRequests : ReadingFits(codeRequest[o])'
    BY <1>2, <2>1 DEF CodeInv, ReadingFits
  <2>4. OverlapIsCounted'
    <3> SUFFICES ASSUME NEW k \in {"account", "reset"}
                 PROVE  Cardinality(Sent(k)') + Cardinality(Issuing(k)') <= Most
      BY DEF OverlapIsCounted, Most
    <3>1. Sent(k)' = Sent(k)
      BY <1>2 DEF Sent, InWindow
    <3>2. CASE k = kind
      <4>1. Sent(k) \subseteq Counted(k)
        BY DEF Sent, Counted, Rows, InWindow
      <4>2. Cardinality(Counted(k)) < DailyLimit
        BY <1>2, <3>2 DEF Allowed
      <4>3. Cardinality(Sent(k)) <= Cardinality(Counted(k))
        BY <4>1, CodesBounds, FS_Subset
      <4>4. Issuing(k)' \subseteq CodeRequests
        BY DEF Issuing
      <4>5. IsFiniteSet(CodeRequests)
        BY CodesAssumption DEF CodeConstants
      <4>6. Cardinality(Issuing(k)') \in Nat /\ Cardinality(Issuing(k)') <= Cardinality(CodeRequests)
        BY <4>4, <4>5, FS_Subset, FS_CardinalityType
      <4> QED BY <1>1, <3>1, <4>2, <4>3, <4>6, CodesBounds DEF Most
    <3>3. CASE k # kind
      <4>1. Issuing(k)' \subseteq Issuing(k)
        BY <1>2, <2>1, <3>3 DEF Issuing
      <4>2. Cardinality(Sent(k)) + Cardinality(Issuing(k)) <= Most
        BY DEF CodeInv, OverlapIsCounted
      <4> QED BY <3>1, <4>1, <4>2, CodesBounds, FewerFit
    <3> QED BY <3>2, <3>3
  <2>5. AcceptedIsVerified'
    <3>1. Sent("account")' = Sent("account")
      BY <1>2 DEF Sent, InWindow
    <3> QED BY <1>2, <2>1, <3>1 DEF CodeInv, AcceptedIsVerified
  <2> QED BY <2>2, <2>3, <2>4, <2>5 DEF CodeInv
<1>3. ASSUME NEW kind \in Kinds \ {"reset"}, SendEmailVerification(r, kind) PROVE CodeInv'
  <2> DEFINE q == [Quiet EXCEPT !.phase = "issuing", !.kind = kind]
  <2>1. q \in RequestState /\ q.phase = "issuing" /\ q.kind = kind /\ q.slot = {}
    BY <1>1 DEF Quiet, RequestState
  <2>2. MoveRequest(r, q)
    BY <1>3 DEF SendEmailVerification
  <2> HIDE DEF q
  <2> QED BY <1>1, <1>2, <1>3, <2>1, <2>2 DEF SendEmailVerification
<1>4. CASE RequestPasswordReset(r)
  <2> DEFINE q == [Quiet EXCEPT !.phase = "issuing"]
  <2>1. q \in RequestState /\ q.phase = "issuing" /\ q.kind = "reset" /\ q.slot = {}
    BY <1>1 DEF Quiet, RequestState
  <2>2. MoveRequest(r, q)
    BY <1>4 DEF RequestPasswordReset
  <2> HIDE DEF q
  <2> QED BY <1>2, <1>4, <2>1, <2>2 DEF RequestPasswordReset
<1> QED BY <1>3, <1>4

\* The row of the code takes the place that was counted for its request.
LEMMA InsertKeeps ==
  ASSUME CodeInv, NEW r \in CodeRequests, NEW s \in Slots, InsertChallenge(r, s)
  PROVE  CodeInv'
<1>1. /\ codeRequest[r] \in RequestState /\ codeRequest[r].phase = "issuing"
      /\ s \in Unused /\ challenge \in [Slots -> Challenge]
      /\ UNCHANGED <<verified, crashes>>
  BY DEF InsertChallenge, CodeInv, CodesTypes
<1>2. /\ MaxFailed \in Nat \ {0} /\ 0 \in 0 .. MaxFailed
      /\ Window \in Nat \ {0} /\ 0 \in 0 .. Window
  BY CodesAssumption DEF CodeConstants
<1> DEFINE kind == codeRequest[r].kind
           row == Fresh(kind)
           q == At("sending", kind, s, 0)
<1>3. kind \in {"account", "draft", "reset"}
  BY <1>1 DEF RequestState
<1>4. /\ row \in Challenge /\ RowFits(row) /\ row.kind = kind /\ row.status = "sent" /\ row.age = 0
  BY <1>2, <1>3 DEF Fresh, Challenge, Status, RowFits
<1>5. q \in RequestState /\ q.phase = "sending" /\ q.kind = kind /\ q.slot = {s}
  BY <1>2, <1>3, NextReading
<1>6. challenge' = [challenge EXCEPT ![s] = row] /\ MoveRequest(r, q)
  BY DEF InsertChallenge
<1> HIDE DEF row, q
<1>7. /\ challenge' \in [Slots -> Challenge] /\ challenge'[s] = row
      /\ \A t \in Slots \ {s} : challenge'[t] = challenge[t]
  BY <1>1, <1>4, <1>6
<1>8. /\ codeRequest' \in [CodeRequests -> RequestState] /\ codeRequest'[r] = q
      /\ \A o \in CodeRequests \ {r} : codeRequest'[o] = codeRequest[o]
  BY <1>5, <1>6 DEF MoveRequest, CodeInv, CodesTypes
<1>9. CodesTypes' /\ \A t \in Slots : RowFits(challenge'[t])
  BY <1>1, <1>4, <1>7, <1>8 DEF CodeInv, CodesTypes
<1>10. \A o \in CodeRequests : ReadingFits(codeRequest[o])'
  <2>1. \A o \in CodeRequests : s \notin codeRequest[o].slot /\ codeRequest[o].slot \subseteq Slots
    BY <1>1 DEF Unused, CodeInv, CodesTypes, RequestState
  <2> QED BY <1>4, <1>5, <1>7, <1>8, <2>1 DEF CodeInv, ReadingFits
<1>11. ~InWindow(s)
  BY <1>1 DEF Unused
<1>12. OverlapIsCounted'
  <2> SUFFICES ASSUME NEW k \in {"account", "reset"}
               PROVE  Cardinality(Sent(k)') + Cardinality(Issuing(k)') <= Most
    BY DEF OverlapIsCounted, Most
  <2>1. Cardinality(Sent(k)) + Cardinality(Issuing(k)) <= Most
    BY DEF CodeInv, OverlapIsCounted
  <2>2. CASE k = kind
    <3>1. Sent(k)' = Sent(k) \cup {s} /\ s \notin Sent(k)
      BY <1>2, <1>4, <1>7, <1>11, <2>2 DEF Sent, InWindow
    <3>2. Issuing(k)' = Issuing(k) \ {r} /\ r \in Issuing(k)
      BY <1>1, <1>5, <1>8, <2>2 DEF Issuing
    <3>3. Cardinality(Sent(k)') = Cardinality(Sent(k)) + 1
      BY <3>1, CodesBounds, FS_AddElement
    <3>4. Cardinality(Issuing(k)') = Cardinality(Issuing(k)) - 1
      BY <3>2, CodesBounds, FS_RemoveElement
    <3> QED BY <2>1, <3>3, <3>4, CodesBounds
  <2>3. CASE k # kind
    <3>1. Sent(k)' \subseteq Sent(k)
      BY <1>4, <1>7, <2>3 DEF Sent, InWindow
    <3>2. Issuing(k)' \subseteq Issuing(k)
      BY <1>5, <1>8 DEF Issuing
    <3> QED BY <2>1, <3>1, <3>2, CodesBounds, FewerFit
  <2> QED BY <2>2, <2>3
<1>13. AcceptedIsVerified'
  <2> SUFFICES ASSUME NEW t \in Sent("account")', challenge'[t].status = "verified", ~verified', ~(crashes' > 0)
               PROVE  \E o \in CodeRequests : codeRequest'[o].phase = "marked" /\ codeRequest'[o].slot = {t}
    BY DEF AcceptedIsVerified
  <2>1. t \in Slots \ {s} /\ t \in Sent("account")
    BY <1>4, <1>7 DEF Sent, InWindow
  <2>2. PICK o \in CodeRequests : codeRequest[o].phase = "marked" /\ codeRequest[o].slot = {t}
    BY <1>1, <1>7, <2>1 DEF CodeInv, AcceptedIsVerified
  <2> QED BY <1>1, <1>8, <2>2
<1> QED BY <1>9, <1>10, <1>12, <1>13 DEF CodeInv

\* Time passes between requests: rows grow older and leave the window.
LEMMA TickKeeps ==
  ASSUME CodeInv, Tick
  PROVE  CodeInv'
<1>1. /\ \A r \in CodeRequests : codeRequest[r].phase = "idle"
      /\ challenge \in [Slots -> Challenge] /\ UNCHANGED <<verified, codeRequest, crashes>>
      /\ \A s \in Slots : RowFits(challenge[s])
  BY DEF Tick, CodeInv, CodesTypes
<1>2. MaxFailed \in Nat \ {0} /\ 0 \in 0 .. MaxFailed /\ Window \in Nat \ {0} /\ 0 \in 0 .. Window
  BY CodesAssumption DEF CodeConstants
<1>3. ASSUME NEW row \in Challenge, RowFits(row)
      PROVE  /\ Aged(row) \in Challenge /\ RowFits(Aged(row)) /\ Aged(row).kind = row.kind
             /\ Aged(row).age < Window => Aged(row).status = row.status /\ row.age < Window
  <2>1. /\ row.age \in 0 .. Window /\ row.session \in 0 .. Window /\ row.session <= row.age
        /\ row.kind \in {"account", "draft", "reset"}
    BY <1>3 DEF RowFits, Challenge
  <2>2. CASE row.age + 1 >= Window
    <3> DEFINE fresh == Fresh(row.kind)
               a == [fresh EXCEPT !.status = "expired", !.age = Window]
    <3>1. Aged(row) = a
      BY <2>2 DEF Aged
    <3>2. fresh \in Challenge /\ fresh.kind = row.kind /\ fresh.session = 0
      BY <1>2, <2>1 DEF Fresh, Challenge, Status
    <3>3. Window \in 0 .. Window /\ "expired" \in Status
      BY <1>2 DEF Status
    <3> HIDE DEF fresh
    <3>4. a \in Challenge /\ a.status = "expired" /\ a.age = Window /\ a.kind = row.kind /\ a.session = 0
      BY <3>2, <3>3 DEF Challenge
    <3> HIDE DEF a
    <3> QED BY <1>2, <3>1, <3>4 DEF RowFits
  <2>3. CASE ~(row.age + 1 >= Window)
    <3> DEFINE session == IF row.status = "verified" THEN row.session + 1 ELSE row.session
               a == [row EXCEPT !.age = @ + 1, !.session = session]
    <3>1. Aged(row) = a
      BY <2>3 DEF Aged
    <3>2. session \in 0 .. Window /\ row.age + 1 \in 0 .. Window /\ session <= row.age + 1
      BY <1>2, <2>1, <2>3
    <3> HIDE DEF session
    <3>3. /\ a \in Challenge /\ a.status = row.status /\ a.age = row.age + 1 /\ a.kind = row.kind
          /\ a.session = session /\ a.failed = row.failed
      BY <3>2 DEF Challenge
    <3> HIDE DEF a
    <3> QED BY <1>2, <1>3, <2>1, <2>3, <3>1, <3>2, <3>3 DEF RowFits
  <2> QED BY <2>2, <2>3
<1>4. \A s \in Slots : challenge'[s] = IF s \in Rows THEN Aged(challenge[s]) ELSE challenge[s]
  BY DEF Tick
<1>5. \A s \in Slots :
        /\ challenge'[s] \in Challenge /\ RowFits(challenge'[s])
        /\ challenge'[s].kind = challenge[s].kind
        /\ InWindow(s)' => InWindow(s) /\ challenge'[s].status = challenge[s].status
  <2> SUFFICES ASSUME NEW s \in Slots
               PROVE  /\ challenge'[s] \in Challenge /\ RowFits(challenge'[s])
                      /\ challenge'[s].kind = challenge[s].kind
                      /\ InWindow(s)' => InWindow(s) /\ challenge'[s].status = challenge[s].status
    OBVIOUS
  <2>1. CASE s \in Rows
    BY <1>1, <1>3, <1>4, <2>1 DEF InWindow, Rows
  <2>2. CASE s \notin Rows
    BY <1>1, <1>4, <2>2 DEF InWindow
  <2> QED BY <2>1, <2>2
<1>6. challenge' \in [Slots -> Challenge]
  <2>1. challenge' = [s \in Slots |-> IF s \in Rows THEN Aged(challenge[s]) ELSE challenge[s]]
    BY DEF Tick
  <2> QED BY <1>4, <1>5, <2>1
<1>7. CodesTypes' /\ \A s \in Slots : RowFits(challenge'[s])
  BY <1>1, <1>5, <1>6 DEF CodeInv, CodesTypes
<1>8. \A o \in CodeRequests : ReadingFits(codeRequest[o])'
  <2>1. \A o \in CodeRequests : codeRequest[o].slot \subseteq Slots
    BY DEF CodeInv, CodesTypes, RequestState
  <2> QED BY <1>1, <1>5, <2>1 DEF CodeInv, ReadingFits
<1>9. \A kind : Sent(kind)' \subseteq Sent(kind) /\ Issuing(kind)' \subseteq Issuing(kind)
  BY <1>1, <1>5 DEF Sent, Issuing
<1>10. OverlapIsCounted'
  <2> SUFFICES ASSUME NEW k \in {"account", "reset"}
               PROVE  Cardinality(Sent(k)') + Cardinality(Issuing(k)') <= Most
    BY DEF OverlapIsCounted, Most
  <2>1. Cardinality(Sent(k)) + Cardinality(Issuing(k)) <= Most
    BY DEF CodeInv, OverlapIsCounted
  <2> QED BY <1>9, <2>1, CodesBounds, FewerFit
<1>11. AcceptedIsVerified'
  <2>1. \A s \in Sent("account")' : s \in Sent("account") /\ challenge'[s].status = challenge[s].status
    BY <1>5, <1>9 DEF Sent
  <2> QED BY <1>1, <2>1 DEF CodeInv, AcceptedIsVerified
<1> QED BY <1>7, <1>8, <1>10, <1>11 DEF CodeInv

\* A process that stops has no requests.
LEMMA CrashKeeps ==
  ASSUME CodeInv, Crash
  PROVE  CodeInv'
<1>1. Quiet \in RequestState /\ Quiet.phase = "idle" /\ Quiet.slot = {}
  BY CodesAssumption DEF CodeConstants, Quiet, RequestState
<1>2. /\ codeRequest' \in [CodeRequests -> RequestState]
      /\ \A r \in CodeRequests : codeRequest'[r] = Quiet
      /\ crashes' \in 0 .. MaxCrashes /\ crashes' > 0 /\ UNCHANGED <<challenge, verified>>
  BY <1>1, CodesAssumption DEF Crash, CodeInv, CodesTypes, CodeConstants
<1>3. CodesTypes' /\ \A s \in Slots : RowFits(challenge'[s])
  BY <1>2 DEF CodeInv, CodesTypes
<1>4. \A r \in CodeRequests : ReadingFits(codeRequest[r])'
  BY <1>1, <1>2 DEF ReadingFits
<1>5. \A kind : Sent(kind)' \subseteq Sent(kind) /\ Issuing(kind)' \subseteq Issuing(kind)
  BY <1>1, <1>2 DEF Sent, InWindow, Issuing
<1>6. OverlapIsCounted'
  <2> SUFFICES ASSUME NEW k \in {"account", "reset"}
               PROVE  Cardinality(Sent(k)') + Cardinality(Issuing(k)') <= Most
    BY DEF OverlapIsCounted, Most
  <2>1. Cardinality(Sent(k)) + Cardinality(Issuing(k)) <= Most
    BY DEF CodeInv, OverlapIsCounted
  <2> QED BY <1>5, <2>1, CodesBounds, FewerFit
<1> QED BY <1>2, <1>3, <1>4, <1>6 DEF CodeInv, AcceptedIsVerified

\* The rows and readings of codes, and what the limit counts.
THEOREM CodeSafety == CodesSpec => []CodeInv
<1>1. CodeInv /\ [CodesNext]_codesVars => CodeInv'
  <2> SUFFICES ASSUME CodeInv, [CodesNext]_codesVars PROVE CodeInv'
    OBVIOUS
  <2>1. CASE UNCHANGED codesVars
    BY <2>1 DEF codesVars, CodeInv, CodesTypes, ReadingFits, OverlapIsCounted, AcceptedIsVerified,
                Sent, InWindow, Issuing, Most
  <2>2. ASSUME NEW r \in CodeRequests, Begin(r) \/ Step(r) PROVE CodeInv'
    BY <2>2, IssuingSteps, InsertKeeps, ReadingSteps, WritingSteps DEF Begin, Step
  <2> QED BY <2>1, <2>2, TickKeeps, CrashKeeps DEF CodesNext
<1> QED BY <1>1, InitCodes, PTL DEF CodesSpec

\* However requests overlap, a limit is exceeded by the others under way at most
\* (issueEmailCodeChallenge), and a code that was accepted for an account
\* verifies it unless the process stops (verifyEmailCode).
THEOREM CodesAlwaysHold == CodesSpec => []CodesHold
<1>1. CodeInv => CodesHold
  <2> SUFFICES ASSUME CodeInv PROVE LimitHolds
    BY DEF CodeInv, CodesHold
  <2> QED BY CodesBounds DEF CodeInv, OverlapIsCounted, LimitHolds, Most
<1> QED BY <1>1, CodeSafety, PTL

-----------------------------------------------------------------------------
\* One request at a time.
OneSignup == \A r, q \in draftLoad.requests : r = q

\* A draft that is there has an address, one that is not has nothing.
DraftsFit ==
    \A d \in Drafts :
        /\ draft[d].status = "none" => papers[d] = NoFile /\ Confirmed(d) \notin replies
        /\ draft[d].status # "none" => draft[d].email \in Addresses

\* A request is about a draft that is there, or about an address; who inserts
\* the broker has inserted the user, from no draft.
SignupFits(u) ==
    /\ u.phase \in Phase \ {"idle", "creating", "registering", "brokering"}
          => u.draft \in Drafts /\ draft[u.draft].status # "none"
    /\ u.phase \in {"creating", "registering", "brokering"} => u.email \in Addresses
    /\ u.phase = "brokering" => member[u.email].exists /\ member[u.email].from = NoDraft

\* So it is of all requests.
SignupsFit == \A r \in DraftRequests : SignupFits(signup[r])

\* A completed draft is an account that took over what it asked for.
CompletedIsMember ==
    \A d \in Drafts : draft[d].status = "COMPLETED" =>
        \A e \in {draft[d].email} :
            /\ member[e].exists /\ member[e].from = d /\ member[e].verified = draft[d].verified
            /\ member[e].broker <=> draft[d].profile = "broker"

\* No request is about to complete a draft.
NobodyFound(d) ==
    \A r \in draftLoad.requests : ~ (signup[r].phase = "found" /\ signup[r].draft = d)

\* One at a time, what was told and stored of a draft is true, or the draft will
\* not be completed.
PromisesStand ==
    \A d \in Drafts :
        /\ Confirmed(d) \in replies =>
              draft[d].verified \/ (draft[d].status \in {"DISCARDED", "EXPIRED"} /\ NobodyFound(d))
        /\ papers[d] # NoFile => papers[d] \in stored \/ (~Open(d) /\ NobodyFound(d))

\* One at a time, a file that is being submitted is in the row of its draft at
\* most.
UploadFits(u) ==
    /\ u.phase = "confirming" => draft[u.draft].status \in {"OPEN", "EXPIRED"}
    /\ u.phase \in {"uploaded", "submitting", "submitted"} =>
          /\ u.file \in stored
          /\ \A e \in Addresses : member[e].papers # u.file
          /\ \A d \in Drafts : papers[d] = u.file => u.phase = "submitted" /\ d = u.draft

\* The inductive invariant of the registrations.
DraftInv ==
    /\ DraftTypes /\ DraftsFit /\ SignupsFit /\ CompletedIsMember /\ BrokerHasRow
    /\ OneSignup =>
          PromisesStand /\ PapersAreStored /\ \A r \in draftLoad.requests : UploadFits(signup[r])

-----------------------------------------------------------------------------
\* What the constants are.
LEMMA DraftBounds ==
  /\ NoDraft \notin Drafts /\ NoFile \notin Files /\ NoAddress \notin Addresses /\ MaxStops \in Nat
  /\ \A l \in DraftLoads : /\ l.requests \subseteq DraftRequests /\ l.emails \subseteq Addresses
                          /\ l.drafts \subseteq Drafts /\ l.files \subseteq Files
                          /\ l.stops \in 0 .. MaxStops
  /\ NoSignup \in Signup /\ NoSignup.phase = "idle"
BY RegistrationAssumption DEF RegistrationConstants, NoSignup, Signup, Phase, Profiles

\* The state of a request that is idle says nothing.
LEMMA IdleFits ==
  SignupFits(NoSignup) /\ UploadFits(NoSignup)
BY DraftBounds DEF SignupFits, UploadFits

\* A step that makes no account: drafts are closed or confirmed, and lose
\* documents, and one request goes on.
LEMMA DraftsGoOn ==
  ASSUME DraftInv, DraftTypes', UNCHANGED <<draftLoad, member, stored, stops>>,
         NEW r, NEW q,
         \A o \in DraftRequests : signup'[o] = IF o = r THEN q ELSE signup[o],
         r \in DraftRequests =>
            /\ SignupFits(q)
            /\ q = signup[r] \/ signup[r].phase # "brokering"
            /\ q = signup[r] \/ (q.phase = "found" => Open(q.draft)),
         OneSignup /\ r \in draftLoad.requests => UploadFits(q),
         \A d \in Drafts :
            /\ draft'[d].email = draft[d].email /\ draft'[d].profile = draft[d].profile
            /\ \/ draft'[d].status = draft[d].status
               \/ Open(d) /\ draft'[d].status = "EXPIRED"
               \/ Open(d) /\ draft'[d].status = "DISCARDED" /\ q.phase = "idle" /\ r \in draftLoad.requests
            /\ draft'[d].verified = draft[d].verified \/ (Open(d) /\ draft'[d].verified)
            /\ papers'[d] \in {papers[d], NoFile},
         replies \subseteq replies',
         \A d \in Drafts : Confirmed(d) \in replies' \ replies =>
            /\ draft[d].status # "none" /\ r \in draftLoad.requests
            /\ OneSignup => draft'[d].verified
                            \/ (draft[d].status \in {"DISCARDED", "EXPIRED"} /\ q.phase # "found")
  PROVE  DraftInv'
<1>0. draftLoad.requests \subseteq DraftRequests
  BY DraftBounds DEF DraftInv, DraftTypes
<1>1. DraftsFit'
  <2>1. \A d \in Drafts : Confirmed(d)' = Confirmed(d)
    BY DEF Confirmed
  <2> SUFFICES ASSUME NEW d \in Drafts
               PROVE  /\ draft'[d].status = "none" => papers'[d] = NoFile /\ Confirmed(d) \notin replies'
                      /\ draft'[d].status # "none" => draft'[d].email \in Addresses
    BY <2>1 DEF DraftsFit
  <2>2. draft'[d].status = "none" <=> draft[d].status = "none"
    BY DEF Open
  <2> QED BY <2>2 DEF DraftInv, DraftsFit
<1>2. SignupsFit'
  <2> SUFFICES ASSUME NEW o \in DraftRequests, NEW u, u = signup'[o] PROVE SignupFits(u)'
    BY DEF SignupsFit
  <2>1. SignupFits(u)
    BY DEF DraftInv, SignupsFit
  <2>2. \A d \in Drafts : draft[d].status # "none" => draft'[d].status # "none"
    OBVIOUS
  <2> QED BY <2>1, <2>2 DEF SignupFits
<1>3. CompletedIsMember'
  <2> SUFFICES ASSUME NEW d \in Drafts, draft'[d].status = "COMPLETED", NEW e, e = draft'[d].email
               PROVE  /\ member[e].exists /\ member[e].from = d /\ member[e].verified = draft'[d].verified
                      /\ member[e].broker <=> draft'[d].profile = "broker"
    BY DEF CompletedIsMember
  <2>1. draft[d].status = "COMPLETED" /\ e = draft[d].email /\ draft'[d].verified = draft[d].verified
        /\ draft'[d].profile = draft[d].profile
    BY DEF Open
  <2> QED BY <2>1 DEF DraftInv, CompletedIsMember
<1>4. BrokerHasRow'
  <2> SUFFICES ASSUME NEW e \in Addresses, member[e].exists, member[e].profile = "broker"
               PROVE  \/ member[e].broker
                      \/ \E o \in DraftRequests : signup'[o].phase = "brokering" /\ signup'[o].email = e
                      \/ Refused(e)' \in replies'
                      \/ stops > 0
    BY DEF BrokerHasRow
  <2>1. Refused(e)' = Refused(e)
    BY DEF Refused
  <2>2. \/ member[e].broker
        \/ \E o \in DraftRequests : signup[o].phase = "brokering" /\ signup[o].email = e
        \/ Refused(e) \in replies
        \/ stops > 0
    BY DEF DraftInv, BrokerHasRow
  <2>3. ASSUME NEW o \in DraftRequests, signup[o].phase = "brokering" /\ signup[o].email = e
        PROVE  signup'[o].phase = "brokering" /\ signup'[o].email = e
    BY <2>3
  <2> QED BY <2>1, <2>2, <2>3
<1>5. ASSUME OneSignup'
      PROVE  PromisesStand' /\ PapersAreStored' /\ \A o \in draftLoad.requests : UploadFits(signup[o])'
  <2>1. /\ OneSignup /\ PromisesStand /\ PapersAreStored
        /\ \A o \in draftLoad.requests : UploadFits(signup[o])
    BY <1>5 DEF OneSignup, DraftInv
  <2>2. \A d \in Drafts : ~Open(d) /\ NobodyFound(d) => NobodyFound(d)'
    BY <1>0 DEF NobodyFound
  <2>3. ASSUME NEW d \in Drafts, Confirmed(d)' \in replies'
        PROVE  \/ draft'[d].verified
               \/ draft'[d].status \in {"DISCARDED", "EXPIRED"} /\ NobodyFound(d)'
    <3>1. Confirmed(d)' = Confirmed(d)
      BY DEF Confirmed
    <3>2. CASE Confirmed(d) \in replies
      <4>1. CASE draft[d].verified
        BY <4>1
      <4>2. CASE draft[d].status \in {"DISCARDED", "EXPIRED"} /\ NobodyFound(d)
        BY <4>2, <2>2 DEF Open
      <4> QED BY <3>2, <4>1, <4>2, <2>1 DEF PromisesStand
    <3>3. CASE Confirmed(d) \notin replies
      <4>1. /\ r \in draftLoad.requests
            /\ draft'[d].verified \/ (draft[d].status \in {"DISCARDED", "EXPIRED"} /\ q.phase # "found")
        BY <3>1, <3>3, <2>1, <2>3
      <4>2. q.phase # "found" => NobodyFound(d)'
        BY <4>1, <1>0, <2>1 DEF NobodyFound, OneSignup
      <4> QED BY <4>1, <4>2 DEF Open
    <3> QED BY <3>2, <3>3
  <2>4. ASSUME NEW d \in Drafts, papers'[d] # NoFile
        PROVE  papers'[d] \in stored \/ (~Open(d)' /\ NobodyFound(d)')
    <3>1. papers'[d] = papers[d] /\ (papers[d] \in stored \/ (~Open(d) /\ NobodyFound(d)))
      BY <2>4, <2>1 DEF PromisesStand
    <3> QED BY <3>1, <2>2 DEF Open
  <2>5. PapersAreStored'
    BY <2>1 DEF PapersAreStored
  <2>6. ASSUME NEW o \in draftLoad.requests PROVE UploadFits(signup[o])'
    <3> SUFFICES ASSUME NEW u, u = signup'[o] PROVE UploadFits(u)'
      OBVIOUS
    <3>1. UploadFits(u) /\ (r \in draftLoad.requests => u = q)
      BY <1>0, <2>1 DEF OneSignup
    <3>2. u.phase = "confirming" => draft'[u.draft].status \in {"OPEN", "EXPIRED"}
      <4>1. u.phase = "confirming" => u.draft \in Drafts
        BY <1>0, <1>2 DEF SignupsFit, SignupFits, Phase
      <4> QED BY <3>1, <4>1 DEF UploadFits, Open
    <3>3. \A e \in Addresses : member'[e] = member[e]
      OBVIOUS
    <3>4. \A d \in Drafts : papers'[d] = u.file =>
             papers[d] = u.file \/ u.file = NoFile
      OBVIOUS
    <3>5. stored \subseteq Files /\ NoFile \notin Files
      BY DraftBounds DEF DraftInv, DraftTypes
    <3> QED BY <3>1, <3>2, <3>3, <3>4, <3>5 DEF UploadFits
  <2> QED BY <2>3, <2>4, <2>5, <2>6 DEF PromisesStand
<1> QED BY <1>1, <1>2, <1>3, <1>4, <1>5 DEF DraftInv

\* A step of the uploads: files come and go.
LEMMA UploadsGoOn ==
  ASSUME DraftInv, DraftTypes', UNCHANGED <<draftLoad, draft, member, replies, stops>>,
         NEW r \in draftLoad.requests, NEW q, SignupFits(q), q.phase \notin {"found", "confirming"},
         signup[r].phase # "brokering", signup'[r] = q,
         \A o \in DraftRequests \ {r} : signup'[o] = signup[o],
         \A d \in Drafts : draft[d].status = "none" => papers'[d] = NoFile,
         OneSignup =>
            /\ \A d \in Drafts : papers'[d] # NoFile =>
                  papers'[d] \in stored' \/ (~Open(d) /\ signup[r].phase # "found")
            /\ \A e \in Addresses : member[e].papers # NoFile => member[e].papers \in stored'
            /\ UploadFits(q)'
  PROVE  DraftInv'
<1>0. draftLoad.requests \subseteq DraftRequests
  BY DraftBounds DEF DraftInv, DraftTypes
<1>1. DraftsFit'
  BY DEF DraftInv, DraftsFit, Confirmed
<1>2. SignupsFit'
  <2> SUFFICES ASSUME NEW o \in DraftRequests, NEW u, u = signup'[o] PROVE SignupFits(u)'
    BY DEF SignupsFit
  <2>1. SignupFits(u)
    BY DEF DraftInv, SignupsFit
  <2> QED BY <2>1 DEF SignupFits
<1>3. CompletedIsMember'
  BY DEF DraftInv, CompletedIsMember
<1>4. BrokerHasRow'
  <2>1. \A o \in DraftRequests : signup[o].phase = "brokering" => signup'[o] = signup[o]
    BY <1>0
  <2> QED BY <2>1 DEF DraftInv, BrokerHasRow, Refused
<1>5. ASSUME OneSignup'
      PROVE  PromisesStand' /\ PapersAreStored' /\ \A o \in draftLoad.requests : UploadFits(signup[o])'
  <2>1. OneSignup /\ PromisesStand /\ \A o \in draftLoad.requests : o = r
    BY <1>5 DEF OneSignup, DraftInv
  <2>2. \A d \in Drafts : NobodyFound(d)'
    BY <2>1 DEF NobodyFound
  <2>3. \A o \in draftLoad.requests : UploadFits(signup[o])'
    <3> SUFFICES ASSUME NEW o \in draftLoad.requests, NEW u, u = signup'[o] PROVE UploadFits(u)'
      OBVIOUS
    <3>1. u = q
      BY <2>1
    <3> QED BY <3>1, <2>1
  <2>4. PromisesStand'
    BY <2>1, <2>2 DEF PromisesStand, Confirmed, Open
  <2> QED BY <2>1, <2>3, <2>4 DEF PapersAreStored
<1> QED BY <1>1, <1>2, <1>3, <1>4, <1>5 DEF DraftInv

-----------------------------------------------------------------------------
\* What the invariant says of a request that moves.
LEMMA SignupIs ==
  ASSUME DraftInv, NEW r \in draftLoad.requests
  PROVE  /\ r \in DraftRequests /\ signup[r] \in Signup /\ SignupFits(signup[r])
         /\ OneSignup => UploadFits(signup[r])
         /\ draftLoad.requests \subseteq DraftRequests
         /\ stored \subseteq Files /\ replies \subseteq Answer /\ stops \in 0 .. MaxStops
         /\ draft \in [Drafts -> Draft] /\ papers \in [Drafts -> Files \cup {NoFile}]
         /\ member \in [Addresses -> Member] /\ signup \in [DraftRequests -> Signup]
         /\ draftLoad \in DraftLoads
BY DraftBounds DEF DraftInv, DraftTypes, SignupsFit

\* A request that moves.
LEMMA SignupMoves ==
  ASSUME DraftInv, NEW r \in draftLoad.requests, NEW q \in Signup, MoveSignup(r, q)
  PROVE  /\ signup' \in [DraftRequests -> Signup]
         /\ \A o \in DraftRequests : signup'[o] = IF o = r THEN q ELSE signup[o]
         /\ signup'[r] = q /\ \A o \in DraftRequests \ {r} : signup'[o] = signup[o]
BY SignupIs DEF MoveSignup

\* What a request becomes.
LEMMA PhasesAre ==
  ASSUME DraftInv, NEW r \in draftLoad.requests
  PROVE  /\ \A phase \in Phase, d \in Drafts :
               /\ On(phase, d) \in Signup /\ On(phase, d).phase = phase /\ On(phase, d).draft = d
         /\ \A phase \in Phase :
               \E q \in Signup :
                  /\ q = [signup[r] EXCEPT !.phase = phase] /\ q.phase = phase
                  /\ q.draft = signup[r].draft /\ q.email = signup[r].email /\ q.file = signup[r].file
<1>1. signup[r] \in Signup
  BY SignupIs
<1>2. \A phase \in Phase, d \in Drafts :
         On(phase, d) \in Signup /\ On(phase, d).phase = phase /\ On(phase, d).draft = d
  BY DEF On, NoSignup, Signup, Profiles
<1>3. ASSUME NEW phase \in Phase
      PROVE  \E q \in Signup :
                  /\ q = [signup[r] EXCEPT !.phase = phase] /\ q.phase = phase
                  /\ q.draft = signup[r].draft /\ q.email = signup[r].email /\ q.file = signup[r].file
  <2> DEFINE q == [signup[r] EXCEPT !.phase = phase]
  <2>1. /\ q \in Signup /\ q.phase = phase
        /\ q.draft = signup[r].draft /\ q.email = signup[r].email /\ q.file = signup[r].file
    BY <1>1 DEF Signup
  <2> QED BY <2>1
<1> QED BY <1>2, <1>3

\* Drafts that nothing is done to.
LEMMA OnlySignup ==
  ASSUME DraftInv, NEW r \in draftLoad.requests, NEW q \in Signup, MoveSignup(r, q),
         UNCHANGED <<draftLoad, draft, papers, member, stored, replies, stops>>,
         SignupFits(q), signup[r].phase # "brokering", q.phase = "found" => Open(q.draft),
         OneSignup => UploadFits(q)
  PROVE  DraftInv'
<1>1. DraftTypes'
  BY SignupMoves DEF DraftInv, DraftTypes
<1> QED BY <1>1, SignupIs, SignupMoves, DraftsGoOn

\* Requests that look at a draft or an address begin.
LEMMA LooksKeep ==
  ASSUME DraftInv, NEW r \in draftLoad.requests, UNCHANGED draftLoad,
         \/ \E d \in Drafts : BeginConfirmEmail(r, d) \/ BeginFinalize(r, d) \/ BeginDiscard(r, d)
         \/ FindOpenDraft(r)
         \/ \E e \in Addresses, profile \in Profiles : BeginRegister(r, e, profile)
  PROVE  DraftInv'
<1>1. CASE \E d \in Drafts : BeginConfirmEmail(r, d) \/ BeginFinalize(r, d) \/ BeginDiscard(r, d)
  <2>1. PICK d \in Drafts, phase \in {"confirming", "finalizing", "discarding"} :
          /\ MoveSignup(r, On(phase, d)) /\ Open(d) /\ signup[r].phase = "idle"
          /\ UNCHANGED <<draft, papers, member, stored, replies, stops>>
    BY <1>1 DEF BeginConfirmEmail, BeginFinalize, BeginDiscard, Resolved
  <2>2. On(phase, d) \in Signup /\ On(phase, d).phase = phase /\ On(phase, d).draft = d
    BY PhasesAre DEF Phase
  <2>3. SignupFits(On(phase, d)) /\ UploadFits(On(phase, d))
    BY <2>1, <2>2 DEF SignupFits, UploadFits, Open
  <2> QED BY <2>1, <2>2, <2>3, OnlySignup
<1>2. CASE FindOpenDraft(r)
  <2>1. PICK q \in Signup :
          /\ q = [signup[r] EXCEPT !.phase = "found"] /\ q.phase = "found"
          /\ q.draft = signup[r].draft /\ q.email = signup[r].email
    BY PhasesAre DEF Phase
  <2>2. /\ signup[r].phase = "finalizing"
        /\ UNCHANGED <<draft, papers, member, stored, replies, stops>>
        /\ \/ Open(q.draft) /\ MoveSignup(r, q)
           \/ MoveSignup(r, NoSignup)
    BY <1>2, <2>1 DEF FindOpenDraft, Go
  <2>3. SignupFits(q) /\ UploadFits(q)
    BY <2>1, <2>2, SignupIs DEF SignupFits, UploadFits, Phase
  <2>4. CASE Open(q.draft) /\ MoveSignup(r, q)
    BY <2>2, <2>3, <2>4, OnlySignup
  <2>5. CASE MoveSignup(r, NoSignup)
    BY <2>2, <2>5, IdleFits, DraftBounds, OnlySignup
  <2> QED BY <2>2, <2>4, <2>5
<1>3. CASE \E e \in Addresses, profile \in Profiles : BeginRegister(r, e, profile)
  <2>1. PICK e \in Addresses, profile \in Profiles : BeginRegister(r, e, profile)
    BY <1>3
  <2> DEFINE q == [NoSignup EXCEPT !.phase = "registering", !.email = e, !.profile = profile]
  <2>2. MoveSignup(r, q) /\ signup[r].phase = "idle"
        /\ UNCHANGED <<draft, papers, member, stored, replies, stops>>
    BY <2>1 DEF BeginRegister
  <2>3. q \in Signup /\ q.phase = "registering" /\ q.email = e
    <3>1. "registering" \in Phase
      BY DEF Phase
    <3> QED BY <3>1, DraftBounds DEF Signup
  <2> HIDE DEF q
  <2>4. SignupFits(q) /\ UploadFits(q)
    BY <2>3 DEF SignupFits, UploadFits
  <2> QED BY <2>2, <2>3, <2>4, OnlySignup
<1> QED BY <1>1, <1>2, <1>3

\* Time passes, and drafts are used.
LEMMA TimeKeeps ==
  ASSUME DraftInv, UNCHANGED draftLoad, NEW d \in Drafts,
         Lapse(d) \/ ExpireDraft(d) \/ UpsertFirebaseContext(d)
  PROVE  DraftInv'
<1>1. UNCHANGED <<papers, member, stored, replies, signup, stops>>
  BY DEF Lapse, ExpireDraft, UpsertFirebaseContext
<1>2. draft \in [Drafts -> Draft]
  BY DEF DraftInv, DraftTypes
<1>3. PICK row :
        /\ draft' = [draft EXCEPT ![d] = row] /\ row \in Draft
        /\ row.email = draft[d].email /\ row.profile = draft[d].profile /\ row.verified = draft[d].verified
        /\ row.status = draft[d].status \/ (Open(d) /\ row.status = "EXPIRED")
  <2>1. CASE Lapse(d)
    <3> DEFINE row == [draft[d] EXCEPT !.life = IF draft[d].life = "fresh" THEN "late" ELSE "over"]
    <3>1. draft' = [draft EXCEPT ![d] = row]
      BY <2>1 DEF Lapse
    <3>2. /\ row \in Draft /\ row.email = draft[d].email /\ row.profile = draft[d].profile
          /\ row.verified = draft[d].verified /\ row.status = draft[d].status
      BY <1>2 DEF Draft
    <3> QED BY <3>1, <3>2
  <2>2. CASE ExpireDraft(d)
    <3> DEFINE row == [draft[d] EXCEPT !.status = "EXPIRED"]
    <3>1. draft' = [draft EXCEPT ![d] = row] /\ Open(d)
      BY <2>2 DEF ExpireDraft
    <3>2. /\ row \in Draft /\ row.email = draft[d].email /\ row.profile = draft[d].profile
          /\ row.verified = draft[d].verified /\ row.status = "EXPIRED"
      BY <1>2 DEF Draft
    <3> QED BY <3>1, <3>2
  <2>3. CASE UpsertFirebaseContext(d)
    <3> DEFINE row == [draft[d] EXCEPT !.provider = "firebase"]
    <3>1. draft' = [draft EXCEPT ![d] = row]
      BY <2>3 DEF UpsertFirebaseContext
    <3>2. /\ row \in Draft /\ row.email = draft[d].email /\ row.profile = draft[d].profile
          /\ row.verified = draft[d].verified /\ row.status = draft[d].status
      BY <1>2 DEF Draft
    <3> QED BY <3>1, <3>2
  <2> QED BY <2>1, <2>2, <2>3
<1>4. DraftTypes'
  BY <1>1, <1>2, <1>3 DEF DraftInv, DraftTypes
<1>5. \A k \in Drafts :
        /\ draft'[k].email = draft[k].email /\ draft'[k].profile = draft[k].profile
        /\ draft'[k].verified = draft[k].verified
        /\ draft'[k].status = draft[k].status \/ (Open(k) /\ draft'[k].status = "EXPIRED")
  BY <1>2, <1>3
<1>6. PICK r, q : r = 0 /\ q = signup[r]
  OBVIOUS
<1>7. /\ \A o \in DraftRequests : signup'[o] = IF o = r THEN q ELSE signup[o]
      /\ r \in DraftRequests => SignupFits(q)
      /\ OneSignup /\ r \in draftLoad.requests => UploadFits(q)
  BY <1>1, <1>6, SignupIs DEF DraftInv, SignupsFit
<1>8. r \in DraftRequests =>
            /\ SignupFits(q)
            /\ q = signup[r] \/ signup[r].phase # "brokering"
            /\ q = signup[r] \/ (q.phase = "found" => Open(q.draft))
  BY <1>6, <1>7
<1>9. \A k \in Drafts :
            /\ draft'[k].email = draft[k].email /\ draft'[k].profile = draft[k].profile
            /\ \/ draft'[k].status = draft[k].status
               \/ Open(k) /\ draft'[k].status = "EXPIRED"
               \/ Open(k) /\ draft'[k].status = "DISCARDED" /\ q.phase = "idle" /\ r \in draftLoad.requests
            /\ draft'[k].verified = draft[k].verified \/ (Open(k) /\ draft'[k].verified)
            /\ papers'[k] \in {papers[k], NoFile}
  BY <1>1, <1>5
<1>10. replies \subseteq replies' /\ \A k \in Drafts : Confirmed(k) \notin replies' \ replies
  BY <1>1
<1>11. UNCHANGED <<draftLoad, member, stored, stops>>
  BY <1>1
<1> QED BY <1>4, <1>7, <1>8, <1>9, <1>10, <1>11, DraftsGoOn

\* A creation closes the drafts that are over before it looks.
LEMMA BeginDraftKeeps ==
  ASSUME DraftInv, NEW r \in draftLoad.requests, UNCHANGED draftLoad,
         NEW e \in Addresses, NEW profile \in Profiles, BeginDraft(r, e, profile)
  PROVE  DraftInv'
<1> DEFINE begun == [NoSignup EXCEPT !.phase = "creating", !.email = e, !.profile = profile]
<1>1. begun \in Signup /\ begun.phase = "creating" /\ begun.email = e
  <2>1. "creating" \in Phase
    BY DEF Phase
  <2> QED BY <2>1, DraftBounds DEF Signup
<1>2. /\ DiscardExpiredDrafts /\ UNCHANGED <<member, stored, replies, stops>>
      /\ signup[r].phase = "idle" /\ (UNCHANGED signup \/ MoveSignup(r, begun))
  BY DEF BeginDraft
<1> HIDE DEF begun
<1>3. PICK q \in {signup[r], begun} :
        /\ signup' \in [DraftRequests -> Signup] /\ signup'[r] = q
        /\ \A o \in DraftRequests : signup'[o] = IF o = r THEN q ELSE signup[o]
  <2>1. CASE UNCHANGED signup
    BY <2>1, SignupIs
  <2>2. CASE MoveSignup(r, begun)
    BY <1>1, <2>2, SignupMoves
  <2> QED BY <1>2, <2>1, <2>2
<1>4. draft \in [Drafts -> Draft] /\ papers \in [Drafts -> Files \cup {NoFile}]
  BY SignupIs
<1>5. \A d \in Drafts :
        /\ draft'[d] \in Draft /\ papers'[d] \in {papers[d], NoFile}
        /\ draft'[d].email = draft[d].email /\ draft'[d].profile = draft[d].profile
        /\ draft'[d].verified = draft[d].verified
        /\ draft'[d].status = draft[d].status \/ (Open(d) /\ draft'[d].status = "EXPIRED")
  <2> SUFFICES ASSUME NEW d \in Drafts
               PROVE  /\ draft'[d] \in Draft /\ papers'[d] \in {papers[d], NoFile}
                      /\ draft'[d].email = draft[d].email /\ draft'[d].profile = draft[d].profile
                      /\ draft'[d].verified = draft[d].verified
                      /\ draft'[d].status = draft[d].status \/ (Open(d) /\ draft'[d].status = "EXPIRED")
    OBVIOUS
  <2> DEFINE closed == [draft[d] EXCEPT !.status = "EXPIRED", !.password = FALSE]
  <2>1. /\ draft'[d] = draft[d] \/ (Open(d) /\ draft'[d] = closed)
        /\ papers'[d] \in {papers[d], NoFile}
    BY <1>2 DEF DiscardExpiredDrafts
  <2>2. /\ closed \in Draft /\ closed.status = "EXPIRED" /\ closed.email = draft[d].email
        /\ closed.profile = draft[d].profile /\ closed.verified = draft[d].verified
    BY <1>4 DEF Draft
  <2> HIDE DEF closed
  <2> QED BY <1>4, <2>1, <2>2
<1>6. /\ draft' = [d \in Drafts |-> draft'[d]] /\ papers' = [d \in Drafts |-> papers'[d]]
  BY <1>2 DEF DiscardExpiredDrafts
<1>7. draft' \in [Drafts -> Draft] /\ papers' \in [Drafts -> Files \cup {NoFile}]
  <2>1. draft' \in [Drafts -> Draft]
    BY <1>5, <1>6
  <2>2. \A d \in Drafts : papers'[d] \in Files \cup {NoFile}
    BY <1>4, <1>5
  <2> QED BY <1>6, <2>1, <2>2
<1>8. DraftTypes'
  BY <1>2, <1>3, <1>7, SignupIs DEF DraftTypes
<1>9. /\ SignupFits(q) /\ (OneSignup => UploadFits(q)) /\ q.phase # "found"
  BY <1>1, <1>2, <1>3, SignupIs DEF SignupFits, UploadFits
<1>10. r \in DraftRequests =>
            /\ SignupFits(q)
            /\ q = signup[r] \/ signup[r].phase # "brokering"
            /\ q = signup[r] \/ (q.phase = "found" => Open(q.draft))
  BY <1>2, <1>9
<1>11. \A d \in Drafts :
            /\ draft'[d].email = draft[d].email /\ draft'[d].profile = draft[d].profile
            /\ \/ draft'[d].status = draft[d].status
               \/ Open(d) /\ draft'[d].status = "EXPIRED"
               \/ Open(d) /\ draft'[d].status = "DISCARDED" /\ q.phase = "idle" /\ r \in draftLoad.requests
            /\ draft'[d].verified = draft[d].verified \/ (Open(d) /\ draft'[d].verified)
            /\ papers'[d] \in {papers[d], NoFile}
  BY <1>5
<1>12. replies \subseteq replies' /\ \A d \in Drafts : Confirmed(d) \notin replies' \ replies
  BY <1>2
<1>13. UNCHANGED <<draftLoad, member, stored, stops>>
  BY <1>2
<1> QED BY <1>3, <1>8, <1>9, <1>10, <1>11, <1>12, <1>13, DraftsGoOn

\* A draft is confirmed or emptied or discarded.
LEMMA DraftWritesKeep ==
  ASSUME DraftInv, NEW r \in draftLoad.requests, UNCHANGED draftLoad,
         ConfirmDraftEmail(r) \/ DropDraftDocuments(r) \/ DiscardDraft(r)
  PROVE  DraftInv'
<1>1. PICK d \in {signup[r].draft}, u \in {signup[r]} :
        u \in Signup /\ d = u.draft /\ u = signup[r] /\ SignupFits(u) /\ (OneSignup => UploadFits(u))
  BY SignupIs
<1>2. u.phase \in {"confirming", "discarding", "emptied"}
  BY <1>1 DEF ConfirmDraftEmail, DropDraftDocuments, DiscardDraft
<1>3. d \in Drafts /\ draft[d].status # "none"
  BY <1>1, <1>2 DEF SignupFits, Phase
<1>4. draft \in [Drafts -> Draft] /\ papers \in [Drafts -> Files \cup {NoFile}]
  BY SignupIs
<1>5. PICK row \in Draft, q \in Signup, paper \in Files \cup {NoFile}, reply \in Answer :
        /\ draft' = [draft EXCEPT ![d] = row]
        /\ row.email = draft[d].email /\ row.profile = draft[d].profile
        /\ row.verified = draft[d].verified \/ (Open(d) /\ row.verified)
        /\ row.status = draft[d].status \/ (Open(d) /\ row.status = "DISCARDED" /\ q.phase = "idle")
        /\ papers' = [papers EXCEPT ![d] = paper] /\ paper \in {papers[d], NoFile}
        /\ MoveSignup(r, q) /\ q.phase # "found" /\ SignupFits(q) /\ UploadFits(q)
        /\ replies' \in {replies, replies \cup {reply}}
        /\ \A k \in Drafts : Confirmed(k) \in replies' \ replies =>
              /\ k = d
              /\ OneSignup => row.verified \/ draft[d].status \in {"DISCARDED", "EXPIRED"}
        /\ UNCHANGED <<member, stored, stops>>
  <2>1. CASE ConfirmDraftEmail(r)
    <3> DEFINE checked == [draft[d] EXCEPT !.verified = TRUE]
               row == IF Open(d) THEN checked ELSE draft[d]
    <3>1. /\ checked \in Draft /\ checked.verified /\ checked.email = draft[d].email
          /\ checked.profile = draft[d].profile /\ checked.status = draft[d].status
      BY <1>3, <1>4 DEF Draft
    <3>2. /\ draft' = [draft EXCEPT ![d] = row] /\ replies' = replies \cup {Confirmed(d)}
          /\ MoveSignup(r, NoSignup) /\ UNCHANGED <<papers, member, stored, stops>>
      <4>1. Open(d) => draft' = [draft EXCEPT ![d].verified = TRUE]
        BY <1>1, <2>1 DEF ConfirmDraftEmail
      <4>2. ~Open(d) => draft' = draft
        BY <1>1, <2>1 DEF ConfirmDraftEmail
      <4> QED BY <1>1, <1>4, <2>1, <4>1, <4>2 DEF ConfirmDraftEmail
    <3> HIDE DEF checked
    <3>3. /\ row \in Draft /\ row.email = draft[d].email /\ row.profile = draft[d].profile
          /\ row.verified = draft[d].verified \/ (Open(d) /\ row.verified)
          /\ row.status = draft[d].status
      BY <1>3, <1>4, <3>1
    <3>4. Confirmed(d) \in Answer
      BY <1>3 DEF Confirmed, Answer
    <3>5. \A k \in Drafts : Confirmed(k) \in replies' \ replies => k = d
      BY <3>2 DEF Confirmed
    <3>6. OneSignup => row.verified \/ draft[d].status \in {"DISCARDED", "EXPIRED"}
      <4>1. u.phase = "confirming"
        BY <1>1, <2>1 DEF ConfirmDraftEmail
      <4> QED BY <1>1, <3>1, <4>1 DEF UploadFits, Open
    <3>7. papers' = [papers EXCEPT ![d] = papers[d]] /\ papers[d] \in Files \cup {NoFile}
      BY <1>3, <1>4, <3>2
    <3> HIDE DEF row
    <3> QED BY <3>2, <3>3, <3>4, <3>5, <3>6, <3>7, IdleFits, DraftBounds
  <2>2. CASE DropDraftDocuments(r)
    <3>1. PICK q \in Signup :
            /\ q = [signup[r] EXCEPT !.phase = "emptied"] /\ q.phase = "emptied" /\ q.draft = d
      BY <1>1, PhasesAre DEF Phase
    <3>2. /\ papers' = [papers EXCEPT ![d] = NoFile] /\ MoveSignup(r, q)
          /\ UNCHANGED <<draft, member, stored, replies, stops>>
      BY <1>1, <2>2, <3>1 DEF DropDraftDocuments, Go
    <3>3. SignupFits(q) /\ UploadFits(q)
      BY <1>3, <3>1 DEF SignupFits, UploadFits
    <3>4. draft' = [draft EXCEPT ![d] = draft[d]] /\ Confirmed(d) \in Answer /\ draft[d] \in Draft
      BY <1>3, <1>4, <3>2 DEF Confirmed, Answer
    <3> QED BY <3>1, <3>2, <3>3, <3>4
  <2>3. CASE DiscardDraft(r)
    <3> DEFINE discarded == [draft[d] EXCEPT !.status = "DISCARDED", !.password = FALSE]
               row == IF Open(d) THEN discarded ELSE draft[d]
    <3>1. /\ discarded \in Draft /\ discarded.verified = draft[d].verified /\ discarded.email = draft[d].email
          /\ discarded.profile = draft[d].profile /\ discarded.status = "DISCARDED"
      BY <1>3, <1>4 DEF Draft
    <3>2. /\ draft' = [draft EXCEPT ![d] = row] /\ replies' = replies \cup {Discarded(d)}
          /\ MoveSignup(r, NoSignup) /\ UNCHANGED <<papers, member, stored, stops>>
      <4>1. Open(d) => draft' = [draft EXCEPT ![d].status = "DISCARDED", ![d].password = FALSE]
        BY <1>1, <2>3 DEF DiscardDraft
      <4>2. ~Open(d) => draft' = draft
        BY <1>1, <2>3 DEF DiscardDraft
      <4>3. Open(d) => draft' = [draft EXCEPT ![d] = discarded]
        BY <1>3, <1>4, <4>1
      <4> QED BY <1>1, <1>4, <2>3, <4>2, <4>3 DEF DiscardDraft
    <3> HIDE DEF discarded
    <3>3. /\ row \in Draft /\ row.email = draft[d].email /\ row.profile = draft[d].profile
          /\ row.verified = draft[d].verified
          /\ row.status = draft[d].status \/ (Open(d) /\ row.status = "DISCARDED")
      BY <1>3, <1>4, <3>1
    <3>4. Discarded(d) \in Answer
      BY <1>3 DEF Discarded, Answer
    <3>5. \A k \in Drafts : Confirmed(k) \notin replies' \ replies
      BY <3>2 DEF Confirmed, Discarded
    <3>6. papers' = [papers EXCEPT ![d] = papers[d]] /\ papers[d] \in Files \cup {NoFile}
      BY <1>3, <1>4, <3>2
    <3> HIDE DEF row
    <3> QED BY <3>2, <3>3, <3>4, <3>5, <3>6, IdleFits, DraftBounds
  <2> QED BY <2>1, <2>2, <2>3
<1>6. /\ signup' \in [DraftRequests -> Signup]
      /\ \A o \in DraftRequests : signup'[o] = IF o = r THEN q ELSE signup[o]
  BY <1>5, SignupMoves
<1>7. DraftTypes'
  <2>1. draft' \in [Drafts -> Draft] /\ papers' \in [Drafts -> Files \cup {NoFile}]
    BY <1>3, <1>4, <1>5
  <2> QED BY <1>5, <1>6, <2>1, SignupIs DEF DraftTypes
<1>8. \A k \in Drafts :
            /\ draft'[k].email = draft[k].email /\ draft'[k].profile = draft[k].profile
            /\ \/ draft'[k].status = draft[k].status
               \/ Open(k) /\ draft'[k].status = "EXPIRED"
               \/ Open(k) /\ draft'[k].status = "DISCARDED" /\ q.phase = "idle" /\ r \in draftLoad.requests
            /\ draft'[k].verified = draft[k].verified \/ (Open(k) /\ draft'[k].verified)
            /\ papers'[k] \in {papers[k], NoFile}
  BY <1>3, <1>4, <1>5
<1>9. \A k \in Drafts : Confirmed(k) \in replies' \ replies =>
            /\ draft[k].status # "none" /\ r \in draftLoad.requests
            /\ OneSignup => draft'[k].verified
                            \/ (draft[k].status \in {"DISCARDED", "EXPIRED"} /\ q.phase # "found")
  BY <1>3, <1>4, <1>5
<1>10. r \in DraftRequests =>
            /\ SignupFits(q)
            /\ q = signup[r] \/ signup[r].phase # "brokering"
            /\ q = signup[r] \/ (q.phase = "found" => Open(q.draft))
  BY <1>1, <1>2, <1>5
<1>11. replies \subseteq replies' /\ UNCHANGED <<draftLoad, member, stored, stops>> /\ UploadFits(q)
  BY <1>5
<1> QED BY <1>6, <1>7, <1>8, <1>9, <1>10, <1>11, DraftsGoOn

-----------------------------------------------------------------------------
\* Files are stored, named and taken back.
LEMMA UploadsKeep ==
  ASSUME DraftInv, NEW r \in draftLoad.requests, UNCHANGED draftLoad,
         \/ \E d \in Drafts, f \in Files : UploadDraftDocuments(r, d, f)
         \/ CheckDraftForDocuments(r) \/ UpsertDraftDocuments(r) \/ AnswerDocuments(r)
  PROVE  DraftInv'
<1>1. PICK d \in {signup[r].draft}, u \in {signup[r]} :
        u \in Signup /\ d = u.draft /\ u = signup[r] /\ SignupFits(u) /\ (OneSignup => UploadFits(u))
  BY SignupIs
<1>2. /\ papers \in [Drafts -> Files \cup {NoFile}] /\ stored \subseteq Files /\ NoFile \notin Files
      /\ \A k \in Drafts : draft[k].status = "none" => papers[k] = NoFile
      /\ u.phase # "found" /\ u.phase # "brokering"
      /\ UNCHANGED <<draft, member, replies, stops>>
  BY <1>1, SignupIs, DraftBounds DEF DraftInv, DraftsFit, UploadDraftDocuments,
     CheckDraftForDocuments, UpsertDraftDocuments, AnswerDocuments
<1>3. OneSignup =>
        /\ \A k \in Drafts : papers[k] # NoFile => papers[k] \in stored \/ (~Open(k) /\ u.phase # "found")
        /\ \A e \in Addresses : member[e].papers # NoFile => member[e].papers \in stored
  BY <1>2 DEF DraftInv, PromisesStand, PapersAreStored
<1>4. CASE \E k \in Drafts, f \in Files : UploadDraftDocuments(r, k, f)
  <2>1. PICK k \in Drafts, f \in Files : UploadDraftDocuments(r, k, f)
    BY <1>4
  <2> DEFINE q == [On("uploaded", k) EXCEPT !.file = f]
  <2>2. q \in Signup /\ q.phase = "uploaded" /\ q.draft = k /\ q.file = f
    <3>1. On("uploaded", k) \in Signup /\ On("uploaded", k).phase = "uploaded" /\ On("uploaded", k).draft = k
      BY PhasesAre DEF Phase
    <3> QED BY <3>1 DEF Signup
  <2>3. /\ MoveSignup(r, q) /\ stored' = stored \cup {f} /\ UNCHANGED papers /\ draft[k].status # "none"
        /\ \A j \in Drafts : papers[j] # f
        /\ \A e \in Addresses : member[e].papers # f
    BY <2>1 DEF UploadDraftDocuments
  <2> HIDE DEF q
  <2>4. /\ signup' \in [DraftRequests -> Signup] /\ signup'[r] = q
        /\ \A o \in DraftRequests \ {r} : signup'[o] = signup[o]
    BY <2>2, <2>3, SignupMoves
  <2>5. DraftTypes'
    BY <1>2, <2>3, <2>4, SignupIs DEF DraftTypes
  <2>6. SignupFits(q)
    BY <2>2, <2>3 DEF SignupFits
  <2>7. UploadFits(q)'
    BY <1>2, <2>2, <2>3 DEF UploadFits
  <2>8. /\ \A j \in Drafts : draft[j].status = "none" => papers'[j] = NoFile
        /\ OneSignup =>
            /\ \A j \in Drafts : papers'[j] # NoFile =>
                  papers'[j] \in stored' \/ (~Open(j) /\ signup[r].phase # "found")
            /\ \A e \in Addresses : member[e].papers # NoFile => member[e].papers \in stored'
    BY <1>1, <1>2, <1>3, <2>3
  <2>9. signup[r].phase # "brokering" /\ q.phase \notin {"found", "confirming"}
    BY <1>1, <1>2, <2>2
  <2> QED BY <1>2, <2>4, <2>5, <2>6, <2>7, <2>8, <2>9, UploadsGoOn
<1>5. CASE CheckDraftForDocuments(r) \/ AnswerDocuments(r)
  <2>1. PICK submitting \in Signup :
          /\ submitting = [signup[r] EXCEPT !.phase = "submitting"] /\ submitting.phase = "submitting"
          /\ submitting.draft = d /\ submitting.file = u.file
    BY <1>1, PhasesAre DEF Phase
  <2>2. PICK q \in {submitting, NoSignup}, left \in {stored, stored \ {u.file}} :
          /\ MoveSignup(r, q) /\ UNCHANGED papers /\ stored' = left
          /\ u.phase = "uploaded" \/ (u.phase = "submitted" /\ q = NoSignup)
          /\ left # stored => q = NoSignup /\ (u.phase = "submitted" => ~Open(d))
    BY <1>1, <1>5, <2>1, Zenon DEF CheckDraftForDocuments, AnswerDocuments, Go
  <2>3. q \in Signup /\ q.phase \in {"submitting", "idle"}
    BY <2>1, DraftBounds
  <2>4. /\ signup' \in [DraftRequests -> Signup] /\ signup'[r] = q
        /\ \A o \in DraftRequests \ {r} : signup'[o] = signup[o]
    BY <2>2, <2>3, SignupMoves
  <2>5. DraftTypes'
    BY <1>2, <2>2, <2>4, SignupIs DEF DraftTypes
  <2>6. SignupFits(q)
    BY <1>1, <2>1, <2>2, IdleFits, DraftBounds DEF SignupFits, Phase
  <2>7. OneSignup => UploadFits(q)'
    <3>1. CASE q = NoSignup
      BY <3>1, DraftBounds DEF UploadFits
    <3>2. CASE q # NoSignup
      <4>1. q = submitting /\ u.phase = "uploaded" /\ UNCHANGED stored
        BY <2>1, <2>2, <3>2, DraftBounds
      <4> QED BY <1>1, <1>2, <2>1, <2>2, <4>1 DEF UploadFits
    <3> QED BY <3>1, <3>2
  <2>8. ASSUME OneSignup
        PROVE  /\ \A k \in Drafts : papers'[k] # NoFile =>
                     papers'[k] \in stored' \/ (~Open(k) /\ signup[r].phase # "found")
               /\ \A e \in Addresses : member[e].papers # NoFile => member[e].papers \in stored'
    <3>1. /\ \A e \in Addresses : member[e].papers # u.file
          /\ \A k \in Drafts : papers[k] = u.file => u.phase = "submitted" /\ k = d
      BY <1>1, <2>2, <2>8 DEF UploadFits
    <3> QED BY <1>1, <1>2, <1>3, <2>2, <2>8, <3>1
  <2>9. \A k \in Drafts : draft[k].status = "none" => papers'[k] = NoFile
    BY <1>2, <2>2
  <2>10. signup[r].phase # "brokering" /\ q.phase \notin {"found", "confirming"}
    BY <1>1, <1>2, <2>3
  <2> QED BY <1>2, <2>4, <2>5, <2>6, <2>7, <2>8, <2>9, <2>10, UploadsGoOn
<1>6. CASE UpsertDraftDocuments(r)
  <2>1. PICK q \in Signup :
          /\ q = [signup[r] EXCEPT !.phase = "submitted"] /\ q.phase = "submitted"
          /\ q.draft = d /\ q.file = u.file
    BY <1>1, PhasesAre DEF Phase
  <2>2. /\ MoveSignup(r, q) /\ papers' = [papers EXCEPT ![d] = u.file] /\ UNCHANGED stored
        /\ u.phase = "submitting"
    BY <1>1, <1>6, <2>1 DEF UpsertDraftDocuments, Go
  <2>3. d \in Drafts /\ draft[d].status # "none" /\ u.file \in Files \cup {NoFile}
    BY <1>1, <2>2 DEF SignupFits, Phase, Signup
  <2>4. /\ signup' \in [DraftRequests -> Signup] /\ signup'[r] = q
        /\ \A o \in DraftRequests \ {r} : signup'[o] = signup[o]
    BY <2>1, <2>2, SignupMoves
  <2>5. DraftTypes'
    BY <1>2, <2>2, <2>3, <2>4, SignupIs DEF DraftTypes
  <2>6. SignupFits(q)
    BY <2>1, <2>3 DEF SignupFits
  <2>7. ASSUME OneSignup
        PROVE  /\ \A k \in Drafts : papers'[k] # NoFile =>
                     papers'[k] \in stored' \/ (~Open(k) /\ signup[r].phase # "found")
               /\ \A e \in Addresses : member[e].papers # NoFile => member[e].papers \in stored'
               /\ UploadFits(q)'
    <3>1. /\ u.file \in stored /\ \A e \in Addresses : member[e].papers # u.file
          /\ \A k \in Drafts : papers[k] # u.file
      BY <1>1, <2>2, <2>7 DEF UploadFits
    <3>2. UploadFits(q)'
      BY <1>2, <2>1, <2>2, <2>3, <3>1 DEF UploadFits
    <3> QED BY <1>1, <1>2, <1>3, <2>2, <2>3, <2>7, <3>1, <3>2
  <2>8. \A k \in Drafts : draft[k].status = "none" => papers'[k] = NoFile
    BY <1>2, <2>2, <2>3
  <2>9. signup[r].phase # "brokering" /\ q.phase \notin {"found", "confirming"}
    BY <1>1, <1>2, <2>1
  <2> QED BY <1>2, <2>4, <2>5, <2>6, <2>7, <2>8, <2>9, UploadsGoOn
<1> QED BY <1>4, <1>5, <1>6

-----------------------------------------------------------------------------
\* Nobody but the requests that move is about to complete a draft.
LEMMA NobodyStays ==
  ASSUME DraftInv, NEW r \in draftLoad.requests, NEW q \in Signup, UNCHANGED draftLoad,
         \A o \in DraftRequests : signup'[o] = IF o = r THEN q ELSE signup[o],
         q.phase # "found", NEW d, NobodyFound(d)
  PROVE  NobodyFound(d)'
BY SignupIs DEF NobodyFound

\* A new draft has an address of its own and nothing else.
LEMMA CreateDraftKeeps ==
  ASSUME DraftInv, NEW r \in draftLoad.requests, UNCHANGED draftLoad,
         NEW d \in Drafts, NEW provider \in {"email", "firebase"}, CreateDraft(r, d, provider)
  PROVE  DraftInv'
<1>1. PICK u \in Signup : u = signup[r] /\ u.phase = "creating" /\ u.email \in Addresses
  BY SignupIs DEF CreateDraft, SignupFits
<1>2. /\ MoveSignup(r, NoSignup) /\ UNCHANGED <<papers, member, stored, replies, stops>>
      /\ draft[d].status = "none"
  BY DEF CreateDraft
<1>3. CASE UNCHANGED draft
  BY <1>1, <1>2, <1>3, IdleFits, DraftBounds, OnlySignup
<1>4. CASE draft' # draft
  <2> DEFINE row == [NoSuchDraft EXCEPT !.status = "OPEN", !.email = u.email, !.profile = u.profile,
                        !.provider = provider, !.password = (provider = "email")]
  <2>1. draft' = [draft EXCEPT ![d] = row]
    BY <1>1, <1>4 DEF CreateDraft
  <2>2. row \in Draft /\ row.status = "OPEN" /\ row.email \in Addresses
    <3>1. u.profile \in Profiles /\ (provider = "email") \in BOOLEAN
      BY DEF Signup
    <3> QED BY <1>1, <3>1 DEF NoSuchDraft, Draft
  <2> HIDE DEF row
  <2>3. /\ signup' \in [DraftRequests -> Signup] /\ signup'[r] = NoSignup
        /\ \A o \in DraftRequests : signup'[o] = IF o = r THEN NoSignup ELSE signup[o]
    BY <1>2, DraftBounds, SignupMoves
  <2>4. draft \in [Drafts -> Draft] /\ draft'[d] = row /\ \A k \in Drafts \ {d} : draft'[k] = draft[k]
    BY <2>1, SignupIs
  <2>5. papers[d] = NoFile /\ Confirmed(d) \notin replies
    BY <1>2 DEF DraftInv, DraftsFit
  <2>6. DraftTypes'
    BY <1>2, <2>1, <2>2, <2>3, SignupIs DEF DraftTypes
  <2>7. DraftsFit'
    BY <1>2, <2>2, <2>4 DEF DraftInv, DraftsFit, Confirmed
  <2>8. SignupsFit'
    <3> SUFFICES ASSUME NEW o \in DraftRequests, NEW v, v = signup'[o] PROVE SignupFits(v)'
      BY DEF SignupsFit
    <3>1. SignupFits(v)
      BY <2>3, IdleFits DEF DraftInv, SignupsFit
    <3> QED BY <1>2, <2>2, <2>4, <3>1 DEF SignupFits
  <2>9. CompletedIsMember'
    BY <1>2, <2>2, <2>4 DEF DraftInv, CompletedIsMember
  <2>10. BrokerHasRow'
    <3>1. \A o \in DraftRequests : signup[o].phase = "brokering" => signup'[o] = signup[o]
      BY <1>1, <2>3
    <3> QED BY <1>2, <3>1 DEF DraftInv, BrokerHasRow, Refused
  <2>11. ASSUME OneSignup'
         PROVE  PromisesStand' /\ PapersAreStored' /\ \A o \in draftLoad.requests : UploadFits(signup[o])'
    <3>1. OneSignup /\ PromisesStand /\ \A o \in draftLoad.requests : o = r
      BY <2>11 DEF OneSignup, DraftInv
    <3>2. \A k : NobodyFound(k) => NobodyFound(k)'
      BY <2>3, DraftBounds, NobodyStays
    <3>3. PromisesStand'
      BY <1>2, <2>4, <2>5, <3>1, <3>2 DEF PromisesStand, Confirmed, Open
    <3>4. \A o \in draftLoad.requests : UploadFits(signup[o])'
      <4> SUFFICES ASSUME NEW o \in draftLoad.requests, NEW v, v = signup'[o] PROVE UploadFits(v)'
        OBVIOUS
      <4>1. v = NoSignup
        BY <2>3, <3>1
      <4> QED BY <4>1, DraftBounds DEF UploadFits
    <3> QED BY <1>2, <3>1, <3>3, <3>4 DEF DraftInv, PapersAreStored
  <2> QED BY <2>6, <2>7, <2>8, <2>9, <2>10, <2>11 DEF DraftInv
<1> QED BY <1>3, <1>4

\* A step that makes or changes the account of one address, and perhaps
\* completes the draft it is made of.
LEMMA MemberChanges ==
  ASSUME DraftInv, DraftTypes', NEW r \in draftLoad.requests, NEW q \in Signup,
         UNCHANGED <<draftLoad, stored, stops>>,
         \A o \in DraftRequests : signup'[o] = IF o = r THEN q ELSE signup[o],
         SignupFits(q)', q.phase \in {"idle", "brokering"},
         NEW e \in Addresses, \A a \in Addresses \ {e} : member'[a] = member[a],
         ~member[e].exists \/ (/\ member[e].from = NoDraft /\ member'[e].from = NoDraft
                               /\ member'[e].exists /\ member'[e].papers = member[e].papers),
         signup[r].phase = "brokering" => signup[r].email = e,
         /\ member'[e].exists /\ member'[e].profile = "broker"
            => \/ member'[e].broker \/ Refused(e) \in replies'
               \/ q.phase = "brokering" /\ q.email = e,
         replies \subseteq replies', \A k \in Drafts : Confirmed(k) \notin replies' \ replies,
         member'[e].papers \in {NoFile, member[e].papers}
            \/ \E k \in Drafts : /\ member'[e].papers = papers[k] /\ signup[r].draft = k
                                 /\ signup[r].phase = "found",
         \A k \in Drafts :
            /\ draft'[k].status # draft[k].status =>
                  /\ draft[k].status # "none" /\ draft'[k].status = "COMPLETED"
                  /\ signup[r].phase = "found" /\ signup[r].draft = k /\ draft[k].email = e
                  /\ member'[e].exists /\ member'[e].from = k
                  /\ member'[e].verified = draft[k].verified
                  /\ member'[e].broker <=> draft[k].profile = "broker"
            /\ draft'[k].email = draft[k].email /\ draft'[k].profile = draft[k].profile
            /\ draft'[k].verified = draft[k].verified
            /\ papers'[k] \in {papers[k], NoFile}
  PROVE  DraftInv'
<1>1. /\ draft \in [Drafts -> Draft] /\ draftLoad.requests \subseteq DraftRequests
      /\ NoDraft \notin Drafts /\ r \in DraftRequests
  BY SignupIs, DraftBounds
<1>2. DraftsFit'
  <2>1. \A k \in Drafts : Confirmed(k)' = Confirmed(k)
    BY DEF Confirmed
  <2> QED BY <2>1 DEF DraftInv, DraftsFit
<1>3. SignupsFit'
  <2> SUFFICES ASSUME NEW o \in DraftRequests, NEW v, v = signup'[o] PROVE SignupFits(v)'
    BY DEF SignupsFit
  <2>1. CASE o = r
    BY <2>1
  <2>2. CASE o # r
    <3>1. SignupFits(v)
      BY <2>2 DEF DraftInv, SignupsFit
    <3>2. \A k \in Drafts : draft[k].status # "none" => draft'[k].status # "none"
      OBVIOUS
    <3>3. v.phase = "brokering" => member'[v.email].exists /\ member'[v.email].from = NoDraft
      <4>1. ASSUME v.phase = "brokering" PROVE v.email \in Addresses /\ member[v.email].exists /\ member[v.email].from = NoDraft
        BY <3>1, <4>1 DEF SignupFits
      <4> QED BY <4>1
    <3> QED BY <3>1, <3>2, <3>3 DEF SignupFits
  <2> QED BY <2>1, <2>2
<1>4. CompletedIsMember'
  <2> SUFFICES ASSUME NEW k \in Drafts, draft'[k].status = "COMPLETED", NEW a, a = draft'[k].email
               PROVE  /\ member'[a].exists /\ member'[a].from = k /\ member'[a].verified = draft'[k].verified
                      /\ member'[a].broker <=> draft'[k].profile = "broker"
    BY DEF CompletedIsMember
  <2>1. CASE draft[k].status = "COMPLETED"
    <3>1. /\ member[a].exists /\ member[a].from = k /\ member[a].verified = draft[k].verified
          /\ member[a].broker <=> draft[k].profile = "broker"
      BY <2>1 DEF DraftInv, CompletedIsMember
    <3>2. a \in Addresses
      BY <2>1 DEF DraftInv, DraftsFit
    <3>3. a # e
      BY <1>1, <3>1
    <3> QED BY <3>1, <3>2, <3>3
  <2>2. CASE draft[k].status # "COMPLETED"
    BY <2>2
  <2> QED BY <2>1, <2>2
<1>5. BrokerHasRow'
  <2> SUFFICES ASSUME NEW a \in Addresses, member'[a].exists, member'[a].profile = "broker"
               PROVE  \/ member'[a].broker
                      \/ \E o \in DraftRequests : signup'[o].phase = "brokering" /\ signup'[o].email = a
                      \/ Refused(a)' \in replies'
                      \/ stops > 0
    BY DEF BrokerHasRow
  <2>1. Refused(a)' = Refused(a)
    BY DEF Refused
  <2>2. CASE a = e
    BY <1>1, <2>1, <2>2
  <2>3. CASE a # e
    <3>1. \/ member[a].broker
          \/ \E o \in DraftRequests : signup[o].phase = "brokering" /\ signup[o].email = a
          \/ Refused(a) \in replies
          \/ stops > 0
      BY <2>3 DEF DraftInv, BrokerHasRow
    <3>2. \A o \in DraftRequests : signup[o].phase = "brokering" /\ signup[o].email = a => signup'[o] = signup[o]
      BY <2>3
    <3> QED BY <2>1, <2>3, <3>1, <3>2
  <2> QED BY <2>2, <2>3
<1>6. ASSUME OneSignup'
      PROVE  PromisesStand' /\ PapersAreStored' /\ \A o \in draftLoad.requests : UploadFits(signup[o])'
  <2>1. OneSignup /\ PromisesStand /\ PapersAreStored /\ \A o \in draftLoad.requests : o = r
    BY <1>6 DEF OneSignup, DraftInv
  <2>2. \A k : NobodyFound(k) => NobodyFound(k)'
    BY NobodyStays
  <2>3. ASSUME NEW k \in Drafts, Confirmed(k)' \in replies'
        PROVE  \/ draft'[k].verified
               \/ draft'[k].status \in {"DISCARDED", "EXPIRED"} /\ NobodyFound(k)'
    <3>1. Confirmed(k)' = Confirmed(k)
      BY DEF Confirmed
    <3>2. \/ draft[k].verified
          \/ draft[k].status \in {"DISCARDED", "EXPIRED"} /\ NobodyFound(k)
      BY <2>1, <2>3, <3>1 DEF PromisesStand
    <3>3. NobodyFound(k) => draft'[k].status = draft[k].status
      BY DEF NobodyFound
    <3> QED BY <2>2, <3>2, <3>3
  <2>4. ASSUME NEW k \in Drafts, papers'[k] # NoFile
        PROVE  papers'[k] \in stored \/ (~Open(k)' /\ NobodyFound(k)')
    <3>1. papers'[k] = papers[k] /\ (papers[k] \in stored \/ (~Open(k) /\ NobodyFound(k)))
      BY <2>1, <2>4 DEF PromisesStand
    <3>2. ~Open(k) => ~Open(k)'
      BY DEF Open
    <3> QED BY <2>2, <3>1, <3>2
  <2>5. PapersAreStored'
    <3> SUFFICES ASSUME NEW a \in Addresses, member'[a].papers # NoFile PROVE member'[a].papers \in stored
      BY DEF PapersAreStored
    <3>1. CASE member'[a].papers = member[a].papers
      BY <2>1, <3>1 DEF PapersAreStored
    <3>2. CASE member'[a].papers # member[a].papers
      <4>1. PICK k \in Drafts : member'[a].papers = papers[k] /\ signup[r].draft = k /\ signup[r].phase = "found"
        BY <3>2
      <4>2. ~NobodyFound(k)
        BY <4>1 DEF NobodyFound
      <4> QED BY <2>1, <4>1, <4>2 DEF PromisesStand
    <3> QED BY <3>1, <3>2
  <2>6. \A o \in draftLoad.requests : UploadFits(signup[o])'
    <3> SUFFICES ASSUME NEW o \in draftLoad.requests, NEW v, v = signup'[o] PROVE UploadFits(v)'
      OBVIOUS
    <3>1. v = q
      BY <1>1, <2>1
    <3> QED BY <3>1 DEF UploadFits
  <2> QED BY <2>3, <2>4, <2>5, <2>6 DEF PromisesStand
<1> QED BY <1>2, <1>3, <1>4, <1>5, <1>6 DEF DraftInv

\* The account is made of the draft, or nothing is done.
LEMMA FinalizeKeeps ==
  ASSUME DraftInv, NEW r \in draftLoad.requests, UNCHANGED draftLoad,
         NEW submit \in BOOLEAN, FinalizeDraft(r, submit)
  PROVE  DraftInv'
<1>1. PICK d \in {signup[r].draft} : d = signup[r].draft /\ signup[r].phase = "found"
  BY DEF FinalizeDraft
<1>2. d \in Drafts /\ draft[d].status # "none" /\ draft[d].email \in Addresses
  BY <1>1, SignupIs DEF SignupFits, Phase, DraftInv, DraftsFit
<1>3. MoveSignup(r, NoSignup) /\ UNCHANGED <<stored, replies, stops>>
  BY DEF FinalizeDraft
<1>4. CASE ~Acceptable(d, submit)
  <2>1. UNCHANGED <<member, draft, papers>>
    BY <1>1, <1>4 DEF FinalizeDraft
  <2> QED BY <1>1, <1>3, <2>1, IdleFits, DraftBounds, OnlySignup
<1>5. CASE Acceptable(d, submit)
  <2> DEFINE made ==
               [exists |-> TRUE, profile |-> draft[d].profile, password |-> draft[d].password,
                verified |-> draft[d].verified, broker |-> draft[d].profile = "broker", from |-> d,
                papers |-> IF draft[d].profile = "broker" /\ submit THEN papers[d] ELSE NoFile]
             row == [draft[d] EXCEPT !.status = "COMPLETED", !.password = FALSE]
  <2>1. PICK e \in Addresses : e = draft[d].email /\ ~member[e].exists
    BY <1>2, <1>5 DEF Acceptable
  <2>2. /\ draft \in [Drafts -> Draft] /\ papers \in [Drafts -> Files \cup {NoFile}]
        /\ member \in [Addresses -> Member]
    BY SignupIs
  <2>3. /\ member' = [member EXCEPT ![e] = made] /\ papers' = [papers EXCEPT ![d] = NoFile]
        /\ draft' = [draft EXCEPT ![d].status = "COMPLETED", ![d].password = FALSE]
    BY <1>1, <1>5, <2>1 DEF FinalizeDraft
  <2>4. draft' = [draft EXCEPT ![d] = row]
    BY <1>2, <2>2, <2>3
  <2>5. /\ made \in Member /\ made.exists /\ made.from = d /\ made.verified = draft[d].verified
        /\ made.broker <=> draft[d].profile = "broker"
        /\ made.profile = draft[d].profile /\ made.papers \in {NoFile, papers[d]}
    <3>1. draft[d] \in Draft /\ papers[d] \in Files \cup {NoFile}
      BY <1>2, <2>2
    <3> QED BY <1>2, <3>1 DEF Draft, Member
  <2>6. /\ row \in Draft /\ row.status = "COMPLETED" /\ row.email = draft[d].email
        /\ row.profile = draft[d].profile /\ row.verified = draft[d].verified
    BY <1>2, <2>2 DEF Draft
  <2> HIDE DEF made, row
  <2>7. /\ signup' \in [DraftRequests -> Signup]
        /\ \A o \in DraftRequests : signup'[o] = IF o = r THEN NoSignup ELSE signup[o]
    BY <1>3, DraftBounds, SignupMoves
  <2>8. DraftTypes'
    <3>1. draft' \in [Drafts -> Draft]
      BY <2>2, <2>4, <2>6
    <3>2. member' \in [Addresses -> Member]
      BY <2>2, <2>3, <2>5
    <3>3. papers' \in [Drafts -> Files \cup {NoFile}]
      BY <2>2, <2>3
    <3> QED BY <1>3, <2>7, <3>1, <3>2, <3>3, SignupIs DEF DraftTypes
  <2>9. /\ member'[e] = made /\ \A a \in Addresses \ {e} : member'[a] = member[a]
        /\ draft'[d] = row /\ papers'[d] = NoFile
        /\ \A k \in Drafts \ {d} : draft'[k] = draft[k] /\ papers'[k] = papers[k]
    BY <1>2, <2>2, <2>3, <2>4
  <2>10. /\ member'[e].exists /\ member'[e].profile = "broker" => member'[e].broker
         /\ \/ member'[e].papers \in {NoFile, member[e].papers}
            \/ \E k \in Drafts : /\ member'[e].papers = papers[k] /\ signup[r].draft = k
                                 /\ signup[r].phase = "found"
    BY <1>1, <1>2, <2>5, <2>9
  <2>11. \A k \in Drafts :
            /\ draft'[k].status # draft[k].status =>
                  /\ draft[k].status # "none" /\ draft'[k].status = "COMPLETED"
                  /\ signup[r].phase = "found" /\ signup[r].draft = k /\ draft[k].email = e
                  /\ member'[e].exists /\ member'[e].from = k
                  /\ member'[e].verified = draft[k].verified
                  /\ member'[e].broker <=> draft[k].profile = "broker"
            /\ draft'[k].email = draft[k].email /\ draft'[k].profile = draft[k].profile
            /\ draft'[k].verified = draft[k].verified
            /\ papers'[k] \in {papers[k], NoFile}
    BY <1>1, <1>2, <2>1, <2>5, <2>6, <2>9
  <2>12. /\ SignupFits(NoSignup)' /\ NoSignup.phase \in {"idle", "brokering"} /\ NoSignup \in Signup
    BY DraftBounds DEF SignupFits
  <2>13. /\ replies \subseteq replies' /\ \A k \in Drafts : Confirmed(k) \notin replies' \ replies
         /\ UNCHANGED <<draftLoad, stored, stops>> /\ signup[r].phase # "brokering"
    BY <1>1, <1>3
  <2> QED BY <2>1, <2>7, <2>8, <2>9, <2>10, <2>11, <2>12, <2>13, MemberChanges
<1> QED BY <1>4, <1>5

\* The user and the broker of a registration without a draft.
LEMMA InsertsKeep ==
  ASSUME DraftInv, NEW r \in draftLoad.requests, UNCHANGED draftLoad,
         (\E google \in BOOLEAN : InsertUser(r, google)) \/ InsertBroker(r)
  PROVE  DraftInv'
<1>1. PICK e \in {signup[r].email} : e = signup[r].email
  OBVIOUS
<1>2. /\ signup[r].phase \in {"registering", "brokering"} /\ e \in Addresses
      /\ UNCHANGED <<draft, papers, stored, stops>> /\ signup[r] \in Signup /\ SignupFits(signup[r])
  BY <1>1, SignupIs DEF InsertUser, InsertBroker, SignupFits
<1>3. member \in [Addresses -> Member]
  BY SignupIs
<1>4. CASE member[e].exists /\ UNCHANGED <<member, replies>> /\ MoveSignup(r, NoSignup)
           /\ signup[r].phase = "registering"
  BY <1>2, <1>4, IdleFits, DraftBounds, OnlySignup
<1>5. CASE ~ (member[e].exists /\ UNCHANGED <<member, replies>> /\ MoveSignup(r, NoSignup)
              /\ signup[r].phase = "registering")
  <2>1. PICK a \in Member, q \in Signup, reply \in Answer :
          /\ member' = [member EXCEPT ![e] = a] /\ MoveSignup(r, q)
          /\ q.phase \in {"idle", "brokering"} /\ (q.phase = "brokering" => q.email = e)
          /\ replies' \in {replies, replies \cup {reply}} /\ \A k \in Drafts : reply # Confirmed(k)
          /\ a.exists /\ a.from = NoDraft
          /\ ~member[e].exists \/ (member[e].from = NoDraft /\ a.papers = member[e].papers)
          /\ a.papers \in {NoFile, member[e].papers}
          /\ a.profile = "broker" => a.broker \/ Refused(e) \in replies' \/ q.phase = "brokering"
    <3>1. Refused(e) \in Answer /\ \A k \in Drafts : Refused(e) # Confirmed(k)
      BY <1>2 DEF Refused, Confirmed, Answer
    <3>2. CASE \E google \in BOOLEAN : InsertUser(r, google)
      <4>1. PICK google \in BOOLEAN : InsertUser(r, google)
        BY <3>2
      <4> DEFINE a == [NoMember EXCEPT !.exists = TRUE, !.profile = signup[r].profile,
                                       !.password = ~google, !.verified = google]
      <4>2. PICK q \in Signup :
              /\ q = [signup[r] EXCEPT !.phase = "brokering"] /\ q.phase = "brokering" /\ q.email = e
        BY <1>1, PhasesAre DEF Phase
      <4>3. /\ ~member[e].exists /\ member' = [member EXCEPT ![e] = a] /\ UNCHANGED replies
            /\ IF signup[r].profile = "broker" THEN MoveSignup(r, q) ELSE MoveSignup(r, NoSignup)
        BY <1>1, <1>5, <4>1, <4>2 DEF InsertUser, Go
      <4>4. /\ a \in Member /\ a.exists /\ a.from = NoDraft /\ a.papers = NoFile
            /\ a.profile = signup[r].profile
        <5>1. signup[r].profile \in Profiles /\ google \in BOOLEAN /\ (~google) \in BOOLEAN
          BY <1>2 DEF Signup
        <5> QED BY <5>1 DEF NoMember, Member
      <4> HIDE DEF a
      <4> QED BY <3>1, <4>2, <4>3, <4>4, DraftBounds
    <3>3. CASE InsertBroker(r)
      <4> DEFINE a == [member[e] EXCEPT !.broker = TRUE]
      <4>1. /\ signup[r].phase = "brokering" /\ MoveSignup(r, NoSignup)
            /\ \/ replies' = replies \cup {Refused(e)} /\ UNCHANGED member
               \/ member' = [member EXCEPT ![e].broker = TRUE] /\ UNCHANGED replies
        BY <1>1, <3>3 DEF InsertBroker
      <4>2. member[e].exists /\ member[e].from = NoDraft
        BY <1>1, <1>2, <4>1 DEF SignupFits
      <4>3. /\ a \in Member /\ a.broker /\ a.exists /\ a.from = NoDraft /\ a.papers = member[e].papers
        BY <1>2, <1>3, <4>2 DEF Member
      <4>4. CASE replies' = replies \cup {Refused(e)} /\ UNCHANGED member
        <5>1. member' = [member EXCEPT ![e] = member[e]] /\ member[e] \in Member
          BY <1>2, <1>3, <4>4
        <5> QED BY <3>1, <4>1, <4>2, <4>4, <5>1, DraftBounds
      <4>5. CASE member' = [member EXCEPT ![e].broker = TRUE] /\ UNCHANGED replies
        <5>1. member' = [member EXCEPT ![e] = a]
          BY <1>2, <1>3, <4>5
        <5> HIDE DEF a
        <5> QED BY <3>1, <4>1, <4>2, <4>3, <4>5, <5>1, DraftBounds
      <4> QED BY <4>1, <4>4, <4>5
    <3> QED BY <3>2, <3>3
  <2>2. /\ signup' \in [DraftRequests -> Signup]
        /\ \A o \in DraftRequests : signup'[o] = IF o = r THEN q ELSE signup[o]
    BY <2>1, SignupMoves
  <2>3. member'[e] = a /\ \A k \in Addresses \ {e} : member'[k] = member[k]
    BY <1>2, <1>3, <2>1
  <2>4. DraftTypes'
    <3>1. member' \in [Addresses -> Member] /\ replies' \subseteq Answer
      BY <1>2, <1>3, <2>1, SignupIs
    <3> QED BY <1>2, <2>2, <3>1, SignupIs DEF DraftTypes
  <2>5. SignupFits(q)'
    BY <1>2, <2>1, <2>3 DEF SignupFits, Phase
  <2>6. \A k \in Drafts :
            /\ draft'[k].status = draft[k].status
            /\ draft'[k].email = draft[k].email /\ draft'[k].profile = draft[k].profile
            /\ draft'[k].verified = draft[k].verified
            /\ papers'[k] \in {papers[k], NoFile}
    BY <1>2
  <2>7. /\ replies \subseteq replies' /\ \A k \in Drafts : Confirmed(k) \notin replies' \ replies
        /\ UNCHANGED <<draftLoad, stored, stops>>
    BY <1>2, <2>1
  <2>8. /\ ~member[e].exists \/ (/\ member[e].from = NoDraft /\ member'[e].from = NoDraft
                                /\ member'[e].exists /\ member'[e].papers = member[e].papers)
        /\ signup[r].phase = "brokering" => signup[r].email = e
        /\ /\ member'[e].exists /\ member'[e].profile = "broker"
           => \/ member'[e].broker \/ Refused(e) \in replies'
              \/ q.phase = "brokering" /\ q.email = e
        /\ member'[e].papers \in {NoFile, member[e].papers}
    BY <1>1, <2>1, <2>3
  <2> QED BY <1>2, <2>1, <2>2, <2>3, <2>4, <2>5, <2>6, <2>7, <2>8, MemberChanges
<1> QED BY <1>4, <1>5

\* The process forgets all requests.
LEMMA StopKeeps == ASSUME DraftInv, UNCHANGED draftLoad, Stop PROVE DraftInv'
<1>1. /\ stops < draftLoad.stops /\ stops' = stops + 1 /\ signup' = [r \in DraftRequests |-> NoSignup]
      /\ UNCHANGED <<draft, papers, member, stored, replies>>
  BY DEF Stop
<1>2. draftLoad.stops \in 0 .. MaxStops /\ stops \in 0 .. MaxStops /\ MaxStops \in Nat
      /\ draftLoad.requests \subseteq DraftRequests
  BY DraftBounds DEF DraftInv, DraftTypes
<1>3. stops' \in 0 .. MaxStops /\ stops' > 0
  BY <1>1, <1>2
<1>4. DraftTypes'
  BY <1>1, <1>3, DraftBounds DEF DraftInv, DraftTypes
<1>5. DraftsFit' /\ CompletedIsMember'
  BY <1>1 DEF DraftInv, DraftsFit, Confirmed, CompletedIsMember
<1>6. SignupsFit' /\ BrokerHasRow'
  BY <1>1, <1>3, DraftBounds DEF SignupsFit, SignupFits, BrokerHasRow
<1>7. ASSUME OneSignup'
      PROVE  PromisesStand' /\ PapersAreStored' /\ \A o \in draftLoad.requests : UploadFits(signup[o])'
  <2>1. OneSignup /\ PromisesStand /\ PapersAreStored
    BY <1>7 DEF OneSignup, DraftInv
  <2>2. \A o \in draftLoad.requests : signup'[o].phase = "idle"
    BY <1>1, <1>2, DraftBounds
  <2>3. PromisesStand'
    BY <1>1, <2>1, <2>2 DEF PromisesStand, NobodyFound, Confirmed, Open
  <2>4. \A o \in draftLoad.requests : UploadFits(signup[o])'
    <3> SUFFICES ASSUME NEW o \in draftLoad.requests, NEW v, v = signup'[o] PROVE UploadFits(v)'
      OBVIOUS
    <3> QED BY <2>2 DEF UploadFits
  <2> QED BY <1>1, <2>1, <2>3, <2>4 DEF PapersAreStored
<1> QED BY <1>4, <1>5, <1>6, <1>7 DEF DraftInv

-----------------------------------------------------------------------------
\* There is nothing at first.
LEMMA InitDrafts == DraftsInit => DraftInv
<1> SUFFICES ASSUME DraftsInit PROVE DraftInv
  OBVIOUS
<1>1. NoSuchDraft \in Draft /\ NoMember \in Member /\ ~NoMember.exists /\ NoMember.papers = NoFile
  BY DEF NoSuchDraft, Draft, Profiles, NoMember, Member
<1>2. NoSuchDraft.status = "none"
  BY DEF NoSuchDraft
<1>3. DraftTypes
  BY <1>1, DraftBounds DEF DraftsInit, DraftTypes
<1>4. DraftsFit /\ SignupsFit /\ CompletedIsMember /\ BrokerHasRow
  BY <1>1, <1>2, DraftBounds DEF DraftsInit, DraftsFit, SignupsFit, SignupFits, CompletedIsMember, BrokerHasRow
<1>5. PromisesStand /\ PapersAreStored
  BY <1>1 DEF DraftsInit, PromisesStand, PapersAreStored
<1>6. \A r \in draftLoad.requests : UploadFits(signup[r])
  BY DraftBounds DEF DraftsInit, UploadFits
<1> QED BY <1>3, <1>4, <1>5, <1>6 DEF DraftInv

\* Every step keeps the invariant.
LEMMA NextDrafts == DraftInv /\ [DraftsNext]_draftVars => DraftInv'
<1> SUFFICES ASSUME DraftInv, [DraftsNext]_draftVars PROVE DraftInv'
  OBVIOUS
<1>1. CASE UNCHANGED draftVars
  BY <1>1 DEF draftVars, draftState, DraftInv, DraftTypes, DraftsFit, SignupsFit, SignupFits, CompletedIsMember,
     BrokerHasRow, OneSignup, PromisesStand, PapersAreStored, UploadFits, NobodyFound, Confirmed, Refused, Open
<1>2. CASE DraftsNext
  <2>1. /\ UNCHANGED draftLoad
        /\ draftLoad.emails \subseteq Addresses /\ draftLoad.drafts \subseteq Drafts
        /\ draftLoad.files \subseteq Files
    BY <1>2, DraftBounds DEF DraftsNext, DraftInv, DraftTypes
  <2>2. CASE \E r \in draftLoad.requests : DraftStep(r) \/ RegisterStep(r)
    <3>1. PICK r \in draftLoad.requests : DraftStep(r) \/ RegisterStep(r)
      BY <2>2
    <3>2. \/ \E e \in Addresses, profile \in Profiles : BeginDraft(r, e, profile) \/ BeginRegister(r, e, profile)
          \/ \E d \in Drafts, provider \in {"email", "firebase"} : CreateDraft(r, d, provider)
          \/ \E d \in Drafts : BeginConfirmEmail(r, d) \/ BeginFinalize(r, d) \/ BeginDiscard(r, d)
          \/ \E d \in Drafts, f \in Files : UploadDraftDocuments(r, d, f)
          \/ ConfirmDraftEmail(r)
          \/ CheckDraftForDocuments(r) \/ UpsertDraftDocuments(r) \/ AnswerDocuments(r)
          \/ FindOpenDraft(r) \/ (\E submit \in BOOLEAN : FinalizeDraft(r, submit))
          \/ DropDraftDocuments(r) \/ DiscardDraft(r)
          \/ (\E google \in BOOLEAN : InsertUser(r, google)) \/ InsertBroker(r)
      BY <2>1, <3>1 DEF DraftStep, RegisterStep
    <3> QED BY <2>1, <3>2, BeginDraftKeeps, LooksKeep, CreateDraftKeeps, UploadsKeep, DraftWritesKeep,
               FinalizeKeeps, InsertsKeep
  <2>3. CASE \E d \in Drafts : Lapse(d) \/ ExpireDraft(d) \/ UpsertFirebaseContext(d)
    BY <2>1, <2>3, TimeKeeps
  <2>4. CASE Stop
    BY <2>1, <2>4, StopKeeps
  <2> QED BY <1>2, <2>2, <2>3, <2>4 DEF DraftsNext, DraftChange
<1> QED BY <1>1, <1>2

\* However drafts, direct registrations and stops interleave, a draft completes
\* into the one account that is its own; with one request at a time what clients
\* were told and stored of it stays true until then (finalizeRegistrationDraft).
THEOREM DraftSafety == DraftsSpec => []DraftInv
<1> QED BY InitDrafts, NextDrafts, PTL DEF DraftsSpec

\* Completed drafts, accounts, brokers and papers fit together.
THEOREM AccountsAreAlwaysWhole == DraftsSpec => []AccountsAreWhole
<1>1. DraftInv => AccountsAreWhole
  <2> SUFFICES ASSUME DraftInv PROVE AccountsAreWhole
    OBVIOUS
  <2>1. CompletedIsAccount
    BY DEF DraftInv, CompletedIsMember, CompletedIsAccount
  <2>2. OneSignup => ConfirmedIsCarried
    BY DEF DraftInv, PromisesStand, CompletedIsMember, ConfirmedIsCarried
  <2> QED BY <2>1, <2>2 DEF DraftInv, AccountsAreWhole, OneSignup
<1> QED BY <1>1, DraftSafety, PTL

\* No step takes an account away, gives it to another draft or reopens its draft.
THEOREM OriginIsKept == DraftsSpec => AccountKeepsOrigin
<1>1. ASSUME DraftInv, DraftsNext, NEW e \in Addresses, member[e].exists
      PROVE  member'[e].exists /\ member'[e].from = member[e].from
  <2>1. member \in [Addresses -> Member]
    BY <1>1 DEF DraftInv, DraftTypes
  <2>2. UNCHANGED member \/ (\E r \in draftLoad.requests :
           (\E submit \in BOOLEAN : FinalizeDraft(r, submit))
           \/ (\E google \in BOOLEAN : InsertUser(r, google)) \/ InsertBroker(r))
    BY <1>1 DEF DraftsNext, DraftChange, DraftStep, RegisterStep, BeginDraft, CreateDraft, Lapse,
       ExpireDraft, UpsertFirebaseContext, BeginConfirmEmail, ConfirmDraftEmail, UploadDraftDocuments,
       CheckDraftForDocuments, UpsertDraftDocuments, AnswerDocuments, BeginFinalize, FindOpenDraft,
       BeginDiscard, DropDraftDocuments, DiscardDraft, BeginRegister, Stop
  <2>3. ASSUME NEW r \in draftLoad.requests, NEW submit \in BOOLEAN, FinalizeDraft(r, submit)
        PROVE  member'[e] = member[e]
    BY <1>1, <2>1, <2>3 DEF FinalizeDraft, Acceptable
  <2>4. ASSUME NEW r \in draftLoad.requests, NEW google \in BOOLEAN, InsertUser(r, google)
        PROVE  member'[e] = member[e]
    BY <1>1, <2>1, <2>4 DEF InsertUser
  <2>5. ASSUME NEW r \in draftLoad.requests, InsertBroker(r)
        PROVE  member'[e].exists /\ member'[e].from = member[e].from
    BY <1>1, <2>1, <2>5 DEF InsertBroker, Member
  <2> QED BY <1>1, <2>2, <2>3, <2>4, <2>5
<1>2. ASSUME DraftInv, DraftsNext, NEW d \in Drafts, draft[d].status = "COMPLETED"
      PROVE  draft'[d].status = "COMPLETED"
  <2>1. draft \in [Drafts -> Draft]
    BY <1>2 DEF DraftInv, DraftTypes
  <2>2. CASE \E r \in draftLoad.requests : DraftStep(r) \/ RegisterStep(r)
    <3>1. PICK r \in draftLoad.requests : DraftStep(r) \/ RegisterStep(r)
      BY <2>2
    <3>2. \/ UNCHANGED draft
          \/ \E e \in draftLoad.emails, profile \in Profiles : BeginDraft(r, e, profile)
          \/ \E k \in draftLoad.drafts, provider \in {"email", "firebase"} : CreateDraft(r, k, provider)
          \/ ConfirmDraftEmail(r) \/ DiscardDraft(r)
          \/ \E submit \in BOOLEAN : FinalizeDraft(r, submit)
      BY <3>1 DEF DraftStep, RegisterStep, BeginConfirmEmail, UploadDraftDocuments,
         CheckDraftForDocuments, UpsertDraftDocuments, AnswerDocuments, BeginFinalize, FindOpenDraft,
         BeginDiscard, DropDraftDocuments, BeginRegister, InsertUser, InsertBroker
    <3>3. ASSUME NEW e, NEW profile, BeginDraft(r, e, profile) PROVE draft'[d] = draft[d]
      BY <1>2, <2>1, <3>3 DEF BeginDraft, DiscardExpiredDrafts, Open
    <3>4. ASSUME NEW k, NEW provider, CreateDraft(r, k, provider) PROVE draft'[d] = draft[d]
      BY <1>2, <2>1, <3>4 DEF CreateDraft
    <3>5. CASE ConfirmDraftEmail(r) \/ DiscardDraft(r)
      <4>1. UNCHANGED draft \/ \E k \in Drafts \cup {signup[r].draft} :
               Open(k) /\ \A o \in Drafts \ {k} : draft'[o] = draft[o]
        BY <2>1, <3>5 DEF ConfirmDraftEmail, DiscardDraft
      <4> QED BY <1>2, <4>1 DEF Open
    <3>6. ASSUME NEW submit \in BOOLEAN, FinalizeDraft(r, submit)
          PROVE  draft'[d].status = "COMPLETED"
      <4>1. \/ UNCHANGED draft
            \/ draft' = [draft EXCEPT ![signup[r].draft].status = "COMPLETED",
                                      ![signup[r].draft].password = FALSE]
        BY <3>6 DEF FinalizeDraft
      <4> QED BY <1>2, <2>1, <4>1 DEF Draft
    <3> QED BY <1>2, <3>2, <3>3, <3>4, <3>5, <3>6
  <2>3. CASE \E k \in Drafts : Lapse(k) \/ ExpireDraft(k) \/ UpsertFirebaseContext(k)
    BY <1>2, <2>1, <2>3 DEF Lapse, ExpireDraft, UpsertFirebaseContext, Resolved, Open, Draft
  <2>4. CASE Stop
    BY <1>2, <2>4 DEF Stop
  <2> QED BY <1>2, <2>2, <2>3, <2>4 DEF DraftsNext, DraftChange
<1>3. DraftInv /\ [DraftsNext]_draftVars => [KeepsOrigin]_draftVars
  BY <1>1, <1>2 DEF KeepsOrigin
<1> QED BY <1>3, DraftSafety, PTL DEF DraftsSpec, AccountKeepsOrigin

-----------------------------------------------------------------------------
(* Brokers.                                                                *)

\* Brokers' requests come one at a time, and nothing stops.
Alone == \A r, q \in brokerLoad.requests : r = q
Still == Alone /\ brokerLoad.crashes = 0

\* A request under way is about an account.
StepsFit == \A r \in BrokerRequests : step[r].phase # "idle" => step[r].user \in Users

\* A request that is alone has read the status as it is, and creates a listing
\* for an active broker.
StepsStand ==
    \A r \in brokerLoad.requests :
        /\ step[r].phase \in {"upgrading", "read"} => step[r].read = broker[step[r].user].status
        /\ step[r].phase = "listing" => IsActive(step[r].user)

Standing == ApprovalStands /\ OnlyBrokersList /\ StepsStand

\* Phases in which the file of a request is stored and in nobody's documents.
FilePhases == {"adminUploaded", "adminRead", "uploaded", "read", "documenting"}

DocsFit ==
    /\ \A u \in Users : docs[u].status = "none" => docs[u].file = NoScan
    /\ \A u \in Users : docs[u].file \in used \cup {NoScan}
    /\ \A u, v \in Users : docs[u].file = docs[v].file /\ docs[u].file # NoScan => u = v

FilesFit ==
    \A r \in brokerLoad.requests :
        /\ step[r].phase \in FilePhases =>
              step[r].file \in kept /\ \A u \in Users : docs[u].file # step[r].file
        /\ step[r].phase = "adminRead" => step[r].old = docs[step[r].user].file

FilesStand == DocumentsAreStored /\ DocsFit /\ FilesFit

BrokerInv ==
    /\ BrokerTypes /\ StepsFit /\ DeletedLeavesNothing
    /\ Alone => Standing
    /\ Still => FilesStand

-----------------------------------------------------------------------------
\* At first everybody is a client, and nothing was sent.
LEMMA InitBrokers == BrokersInit => BrokerInv
<1> SUFFICES ASSUME BrokersInit PROVE BrokerInv
  OBVIOUS
<1> USE BrokersAssumption
<1>1. NoBroker \in Broker /\ NoDocs \in Docs /\ NoStep \in StepOf /\ NoListing \in Listing
  BY DEF NoBroker, Broker, BrokerStatus, NoDocs, Docs, NoStep, StepOf, BrokerPhase, NoListing, Listing
<1>2. brokerLoad \in BrokerLoads /\ brokerLoad.users \subseteq Users /\ brokerLoad.crashes \in Nat
  BY DEF BrokersInit
<1>3. BrokerTypes
  BY <1>1, <1>2 DEF BrokersInit, BrokerTypes
<1>4. /\ \A r \in BrokerRequests : step[r].phase = "idle"
      /\ \A u \in Users : broker[u] = NoBroker /\ docs[u] = NoDocs
      /\ \A l \in Listings : listing[l] = NoListing /\ NoListing.broker = NoUser
      /\ greeted = {}
  BY DEF BrokersInit, NoStep, NoListing
<1>5. brokerLoad.requests \subseteq BrokerRequests
  BY <1>2
<1>6. StepsFit /\ DeletedLeavesNothing
  BY <1>4 DEF StepsFit, DeletedLeavesNothing
<1>7. Standing
  BY <1>4, <1>5 DEF Standing, ApprovalStands, OnlyBrokersList, StepsStand
<1>8. NoDocs.file = NoScan
  BY DEF NoDocs
<1>9. FilesStand
  BY <1>4, <1>5, <1>8 DEF FilesStand, DocumentsAreStored, DocsFit, FilesFit, FilePhases
<1> QED BY <1>3, <1>6, <1>7, <1>9 DEF BrokerInv

-----------------------------------------------------------------------------
(* What a step does that is common to many of them.                        *)

\* Request r goes on as t.
Goes(r, t) ==
    /\ t \in StepOf /\ (t.phase # "idle" => t.user \in Users)
    /\ step' = [step EXCEPT ![r] = t]

LEMMA GoesFits ==
    ASSUME BrokerTypes, StepsFit, NEW r \in brokerLoad.requests, NEW t, Goes(r, t)
    PROVE  /\ r \in BrokerRequests /\ step' \in [BrokerRequests -> StepOf] /\ StepsFit'
           /\ step'[r] = t /\ \A q \in BrokerRequests \ {r} : step'[q] = step[q]
<1>1. r \in BrokerRequests
  BY BrokersAssumption DEF BrokerTypes
<1>2. /\ step' \in [BrokerRequests -> StepOf] /\ step'[r] = t
      /\ \A q \in BrokerRequests \ {r} : step'[q] = step[q]
  BY <1>1 DEF BrokerTypes, Goes
<1> QED BY <1>1, <1>2 DEF StepsFit, Goes

\* The forms that a request takes.
LEMMA StepForms ==
    ASSUME NEW u \in Users, NEW f \in Scans, NEW b \in BOOLEAN, NEW c \in BrokerStatus
    PROVE  /\ NoStep \in StepOf /\ NoStep.phase = "idle"
           /\ \A p \in BrokerPhase : [NoStep EXCEPT !.phase = p, !.user = u] \in StepOf
           /\ [NoStep EXCEPT !.phase = "adminUploaded", !.user = u, !.file = f] \in StepOf
           /\ [NoStep EXCEPT !.phase = "uploaded", !.user = u, !.file = f, !.creci = b] \in StepOf
           /\ [NoStep EXCEPT !.phase = "staffing", !.user = u, !.auxiliary = b] \in StepOf
           /\ [NoStep EXCEPT !.phase = "upgrading", !.user = u, !.creci = b, !.read = c] \in StepOf
BY DEF NoStep, StepOf, BrokerPhase, BrokerStatus

LEMMA NoStepFits == NoStep \in StepOf /\ NoStep.phase = "idle"
BY DEF NoStep, StepOf, BrokerPhase, BrokerStatus

\* Nothing is stored and no document replaced: what files there are stands.
LEMMA FilesMove ==
    ASSUME BrokerTypes, FilesStand, brokerLoad' = brokerLoad, kept' = kept, used' = used,
           \A u \in Users : docs'[u].file = docs[u].file,
           \A u \in Users : docs'[u].status = "none" => docs'[u].file = NoScan,
           \A q \in brokerLoad.requests : step'[q].phase \in FilePhases =>
              step[q].phase \in FilePhases /\ step'[q].file = step[q].file,
           \A q \in brokerLoad.requests : step'[q].phase = "adminRead" =>
              step'[q].user \in Users /\ step'[q].old = docs[step'[q].user].file,
           \A q \in BrokerRequests : step[q].phase = "erasing" => step'[q] = step[q]
    PROVE  FilesStand'
<1>1. DocumentsAreStored'
  BY DEF FilesStand, DocumentsAreStored
<1>2. DocsFit'
  BY DEF FilesStand, DocsFit
<1>3. FilesFit'
  BY DEF FilesStand, FilesFit
<1> QED BY <1>1, <1>2, <1>3 DEF FilesStand

\* A request that is alone moves on, and accounts stay as they are.
LEMMA StandMove ==
    ASSUME BrokerTypes, Alone, Standing, NEW r \in brokerLoad.requests, NEW t,
           r \in BrokerRequests, step'[r] = t,
           brokerLoad' = brokerLoad, broker' = broker, greeted' = greeted, listing' = listing,
           t.phase \in {"upgrading", "read"} => t.read = broker[t.user].status,
           t.phase = "listing" => IsActive(t.user)
    PROVE  Standing'
<1>1. ApprovalStands' /\ OnlyBrokersList'
  BY DEF Standing, ApprovalStands, OnlyBrokersList, IsActive
<1>2. \A q \in brokerLoad.requests : q = r
  BY DEF Alone
<1>3. StepsStand'
  BY <1>2 DEF StepsStand, IsActive
<1> QED BY <1>1, <1>3 DEF Standing

\* A request moves on and nothing else happens.
LEMMA OnlySteps ==
    ASSUME BrokerInv, NEW r \in brokerLoad.requests, NEW t, Goes(r, t),
           UNCHANGED <<brokerLoad, user, broker, docs, listing, kept, used, greeted, halts>>,
           edited' \subseteq Users,
           step[r].phase # "erasing",
           t.phase \in {"upgrading", "read"} => t.read = broker[t.user].status,
           t.phase = "listing" => IsActive(t.user),
           t.phase \in FilePhases => step[r].phase \in FilePhases /\ t.file = step[r].file,
           t.phase = "adminRead" => t.old = docs[t.user].file
    PROVE  BrokerInv'
<1>1. /\ r \in BrokerRequests /\ step' \in [BrokerRequests -> StepOf] /\ StepsFit'
      /\ step'[r] = t /\ \A q \in BrokerRequests \ {r} : step'[q] = step[q]
  BY GoesFits DEF BrokerInv
<1>2. BrokerTypes'
  BY <1>1 DEF BrokerInv, BrokerTypes
<1>3. DeletedLeavesNothing'
  BY DEF BrokerInv, DeletedLeavesNothing
<1>4. Alone => Standing'
  BY <1>1, StandMove DEF BrokerInv
<1>5. Still => FilesStand'
  <2> SUFFICES ASSUME Still PROVE FilesStand'
    OBVIOUS
  <2>1. FilesStand /\ BrokerTypes
    BY DEF BrokerInv
  <2>2. \A q \in brokerLoad.requests : q = r
    BY DEF Still, Alone
  <2>3. t.phase = "adminRead" => t.user \in Users
    BY DEF Goes
  <2>4. \A u \in Users : docs'[u].file = docs[u].file /\ (docs'[u].status = "none" => docs'[u].file = NoScan)
    BY <2>1 DEF FilesStand, DocsFit
  <2>5. \A q \in BrokerRequests : step[q].phase = "erasing" => step'[q] = step[q]
    BY <1>1
  <2> QED BY <1>1, <2>1, <2>2, <2>3, <2>4, <2>5, FilesMove
<1>6. Alone' = Alone /\ Still' = Still
  BY DEF Alone, Still
<1> QED BY <1>1, <1>2, <1>3, <1>4, <1>5, <1>6 DEF BrokerInv

-----------------------------------------------------------------------------
(* What administrators decide, while the request that is alone is idle.    *)

\* A decision moves no request.
LEMMA DecisionFits ==
    ASSUME BrokerInv, NEW r \in brokerLoad.requests, step[r].phase = "idle",
           step' = step, brokerLoad' = brokerLoad,
           BrokerTypes', DeletedLeavesNothing',
           Alone => ApprovalStands' /\ OnlyBrokersList',
           Still => DocumentsAreStored' /\ DocsFit'
    PROVE  BrokerInv'
<1>1. Alone => \A q \in brokerLoad.requests : step'[q].phase = "idle"
  BY DEF Alone
<1>2. Alone => StepsStand' /\ FilesFit'
  BY <1>1 DEF StepsStand, FilesFit, FilePhases
<1>3. Alone' = Alone /\ Still' = Still /\ StepsFit'
  BY DEF Alone, Still, StepsFit, BrokerInv
<1> QED BY <1>2, <1>3 DEF BrokerInv, Standing, FilesStand, Still

\* Documents change their status only.
LEMMA StatusOfDocs ==
    ASSUME BrokerTypes, NEW u \in Users, NEW status \in {"pending", "approved", "rejected"},
           docs' = WithDocs(u, status)
    PROVE  /\ docs' \in [Users -> Docs]
           /\ \A v \in Users : docs'[v].file = docs[v].file
           /\ \A v \in Users : docs'[v].status = "none" <=> docs[v].status = "none"
           /\ \A v \in Users : docs[v] = NoDocs => docs'[v] = NoDocs
<1>1. CASE docs[u].status = "none"
  BY <1>1 DEF WithDocs, BrokerTypes
<1>2. CASE docs[u].status # "none"
  <2>1. docs' = [docs EXCEPT ![u].status = status]
    BY <1>2 DEF WithDocs
  <2>2. /\ docs' \in [Users -> Docs] /\ docs'[u].file = docs[u].file /\ docs'[u].status = status
        /\ \A v \in Users \ {u} : docs'[v] = docs[v]
    BY <2>1 DEF BrokerTypes, Docs
  <2>3. NoDocs.status = "none"
    BY DEF NoDocs
  <2> QED BY <1>2, <2>2, <2>3
<1> QED BY <1>1, <1>2

\* A row of a broker gets a status and a CRECI.
LEMMA RowOfBroker ==
    ASSUME BrokerTypes, NEW u \in Users, NEW row \in Broker, broker' = [broker EXCEPT ![u] = row]
    PROVE  /\ broker' \in [Users -> Broker] /\ broker'[u] = row
           /\ \A v \in Users \ {u} : broker'[v] = broker[v]
BY DEF BrokerTypes

LEMMA StatusOfBroker ==
    ASSUME BrokerTypes, NEW u \in Users, NEW status \in BrokerStatus,
           broker' = [broker EXCEPT ![u].status = status]
    PROVE  /\ broker' \in [Users -> Broker] /\ broker'[u].status = status
           /\ \A v \in Users \ {u} : broker'[v] = broker[v]
BY DEF BrokerTypes, Broker

\* Who has a row as a broker, or documents, has an account.
LEMMA RowsHaveAccounts ==
    ASSUME BrokerInv, NEW u \in Users
    PROVE  /\ HasRow(u) => u \in user
           /\ docs[u].status # "none" => u \in user
           /\ docs[u].file # NoScan => u \in user
           /\ \A l \in Listings : listing[l].broker = u => u \in user
BY DEF BrokerInv, DeletedLeavesNothing, HasRow, NoBroker, NoDocs

LEMMA UnlistedFits ==
    ASSUME BrokerTypes, NEW u \in Users, listing' = Unlisted(u)
    PROVE  /\ listing' \in [Listings -> Listing]
           /\ \A l \in Listings : listing'[l].broker # u /\ (listing'[l].broker = NoUser \/ listing'[l] = listing[l])
<1>1. NoListing \in Listing /\ NoListing.broker = NoUser
  BY DEF NoListing, Listing
<1> QED BY <1>1, BrokersAssumption DEF Unlisted, BrokerTypes

\* One step for each decision.
LEMMA DecisionKeeps ==
    ASSUME BrokerInv, NEW r \in brokerLoad.requests, step[r].phase = "idle",
           NEW u \in Users, Decide(u), UNCHANGED brokerLoad
    PROVE  BrokerInv'
<1>0. BrokerTypes /\ DeletedLeavesNothing /\ (Alone => Standing) /\ (Still => FilesStand)
  BY DEF BrokerInv
<1>a. Alone => \A q \in brokerLoad.requests : q = r
  BY DEF Alone
<1>b. brokerLoad' = brokerLoad
  OBVIOUS
<1>1. ASSUME NEW status \in {"approved", "rejected"}, HasRow(u),
             broker' = [broker EXCEPT ![u].status = status], docs' = WithDocs(u, status),
             listing' = IF status = "approved" THEN listing ELSE Unlisted(u),
             greeted' = IF status = "approved" THEN greeted \cup {u} ELSE greeted \ {u},
             UNCHANGED <<user, kept, used, step, edited, halts>>
      PROVE  BrokerInv'
  <2>1. /\ broker' \in [Users -> Broker] /\ broker'[u].status = status
        /\ \A v \in Users \ {u} : broker'[v] = broker[v]
    BY <1>0, <1>1, StatusOfBroker DEF BrokerStatus
  <2>2. /\ docs' \in [Users -> Docs]
        /\ \A v \in Users : docs'[v].file = docs[v].file
        /\ \A v \in Users : docs'[v].status = "none" <=> docs[v].status = "none"
        /\ \A v \in Users : docs[v] = NoDocs => docs'[v] = NoDocs
    BY <1>0, <1>1, StatusOfDocs
  <2>3. /\ listing' \in [Listings -> Listing]
        /\ \A l \in Listings : listing'[l].broker = NoUser \/ listing'[l] = listing[l]
        /\ status = "rejected" => \A l \in Listings : listing'[l].broker # u
    BY <1>0, <1>1, UnlistedFits DEF BrokerTypes
  <2>4. u \in user
    BY <1>1, RowsHaveAccounts
  <2>5. BrokerTypes'
    BY <1>0, <1>1, <2>1, <2>2, <2>3 DEF BrokerTypes
  <2>6. DeletedLeavesNothing'
    BY <1>0, <1>1, <2>1, <2>2, <2>3, <2>4, BrokersAssumption DEF DeletedLeavesNothing
  <2>7. Alone => ApprovalStands' /\ OnlyBrokersList'
    BY <1>0, <1>1, <2>1, <2>3 DEF Standing, ApprovalStands, OnlyBrokersList, IsActive, ActiveStatus, BrokerTypes
  <2>8. Still => DocumentsAreStored' /\ DocsFit'
    BY <1>0, <1>1, <2>2 DEF FilesStand, DocumentsAreStored, DocsFit
  <2> QED BY <1>1, <1>b, <2>5, <2>6, <2>7, <2>8, DecisionFits
<1>2. CASE Approve(u)
  BY <1>2, <1>1 DEF Approve
<1>3. CASE Reject(u)
  BY <1>3, <1>1 DEF Reject
<1>4. CASE BackToPending(u)
  <2>1. /\ broker' \in [Users -> Broker] /\ broker'[u].status = "pending_verification"
        /\ \A v \in Users \ {u} : broker'[v] = broker[v]
    BY <1>0, <1>4, StatusOfBroker DEF BackToPending, BrokerStatus
  <2>2. u \in user
    BY <1>4, RowsHaveAccounts DEF BackToPending
  <2>3. BrokerTypes'
    BY <1>0, <1>4, <2>1 DEF BrokerTypes, BackToPending
  <2>4. DeletedLeavesNothing'
    BY <1>0, <1>4, <2>1, <2>2 DEF DeletedLeavesNothing, BackToPending
  <2>5. Alone => ApprovalStands' /\ OnlyBrokersList'
    BY <1>0, <1>4, <2>1 DEF Standing, ApprovalStands, OnlyBrokersList, IsActive, ActiveStatus,
                            BackToPending, BrokerTypes
  <2>6. Still => DocumentsAreStored' /\ DocsFit'
    BY <1>0, <1>4 DEF FilesStand, DocumentsAreStored, DocsFit, BackToPending
  <2>7. step' = step
    BY <1>4 DEF BackToPending
  <2> QED BY <1>b, <2>3, <2>4, <2>5, <2>6, <2>7, DecisionFits
<1>5. CASE UpdateBrokerAccount(u)
  <2>1. /\ broker' \in [Users -> Broker] /\ broker'[u].status = broker[u].status
        /\ \A v \in Users \ {u} : broker'[v] = broker[v]
    BY <1>0, <1>5 DEF UpdateBrokerAccount, BrokerTypes, Broker
  <2>2. u \in user
    BY <1>5, RowsHaveAccounts DEF UpdateBrokerAccount
  <2>3. BrokerTypes'
    BY <1>0, <1>5, <2>1 DEF BrokerTypes, UpdateBrokerAccount
  <2>4. DeletedLeavesNothing'
    BY <1>0, <1>5, <2>1, <2>2 DEF DeletedLeavesNothing, UpdateBrokerAccount
  <2>5. Alone => ApprovalStands' /\ OnlyBrokersList'
    BY <1>0, <1>5, <2>1 DEF Standing, ApprovalStands, OnlyBrokersList, IsActive, ActiveStatus,
                            UpdateBrokerAccount, BrokerTypes
  <2>6. Still => DocumentsAreStored' /\ DocsFit'
    BY <1>0, <1>5 DEF FilesStand, DocumentsAreStored, DocsFit, UpdateBrokerAccount
  <2>7. step' = step
    BY <1>5 DEF UpdateBrokerAccount
  <2> QED BY <1>b, <2>3, <2>4, <2>5, <2>6, <2>7, DecisionFits
<1>6. ASSUME NEW route, DeleteAccount(u, route) PROVE BrokerInv'
  <2>1. NoBroker \in Broker /\ NoDocs \in Docs /\ NoDocs.file = NoScan
    BY DEF NoBroker, Broker, BrokerStatus, NoDocs, Docs
  <2>2. /\ broker' \in [Users -> Broker] /\ broker'[u] = NoBroker
        /\ \A v \in Users \ {u} : broker'[v] = broker[v]
        /\ docs' \in [Users -> Docs] /\ docs'[u] = NoDocs
        /\ \A v \in Users \ {u} : docs'[v] = docs[v]
    BY <1>0, <1>6, <2>1 DEF DeleteAccount, BrokerTypes
  <2>3. /\ listing' \in [Listings -> Listing]
        /\ \A l \in Listings : listing'[l].broker # u /\ (listing'[l].broker = NoUser \/ listing'[l] = listing[l])
    BY <1>0, <1>6, UnlistedFits DEF DeleteAccount
  <2>4. BrokerTypes'
    BY <1>0, <1>6, <2>2, <2>3 DEF BrokerTypes, DeleteAccount
  <2>5. DeletedLeavesNothing'
    BY <1>0, <1>6, <2>2, <2>3, BrokersAssumption DEF DeletedLeavesNothing, DeleteAccount
  <2>6. Alone => ApprovalStands' /\ OnlyBrokersList'
    BY <1>0, <1>6, <2>2, <2>3 DEF Standing, ApprovalStands, OnlyBrokersList, IsActive,
                                  DeleteAccount, BrokerTypes
  <2>7. Still => DocumentsAreStored' /\ DocsFit'
    <3>1. kept' = kept /\ used' = used /\ step' = step
      BY <1>6 DEF DeleteAccount
    <3>2. docs'[u].file = NoScan /\ \A v \in Users : docs'[v].file # NoScan => docs'[v] = docs[v]
      BY <2>1, <2>2
    <3> QED BY <1>0, <2>1, <2>2, <3>1, <3>2 DEF FilesStand, DocumentsAreStored, DocsFit
  <2>8. step' = step
    BY <1>6 DEF DeleteAccount
  <2> QED BY <1>b, <2>4, <2>5, <2>6, <2>7, <2>8, DecisionFits
<1>7. ASSUME NEW f \in Scans, NEW status \in ActiveStatus, CreateBrokerWithDocs(u, f, status)
      PROVE  BrokerInv'
  <2> DEFINE row == [status |-> status, creci |-> TRUE, profile |-> "BROKER"]
             papers_ == [file |-> f, status |-> IF status = "approved" THEN "approved" ELSE "pending"]
  <2>1. row \in Broker /\ row.status = status /\ papers_ \in Docs /\ papers_.file = f /\ papers_.status # "none"
    BY <1>7 DEF Broker, BrokerStatus, ActiveStatus, Docs
  <2>2. broker' = [broker EXCEPT ![u] = row] /\ docs' = [docs EXCEPT ![u] = papers_]
    BY <1>7 DEF CreateBrokerWithDocs
  <2> HIDE DEF row, papers_
  <2>3. /\ broker' \in [Users -> Broker] /\ broker'[u] = row
        /\ \A v \in Users \ {u} : broker'[v] = broker[v]
        /\ docs' \in [Users -> Docs] /\ docs'[u] = papers_
        /\ \A v \in Users \ {u} : docs'[v] = docs[v]
    BY <1>0, <2>1, <2>2 DEF BrokerTypes
  <2>4. /\ u \notin user /\ user' = user \cup {u} /\ f \notin used
        /\ used' = used \cup {f} /\ kept' = kept \cup {f}
        /\ greeted' \subseteq greeted \cup {u} /\ (u \in greeted' => u \in greeted \/ status = "approved")
        /\ listing' = listing /\ step' = step /\ edited' = edited /\ halts' = halts
    BY <1>7 DEF CreateBrokerWithDocs, Upload
  <2>5. BrokerTypes'
    BY <1>0, <2>3, <2>4 DEF BrokerTypes
  <2>6. DeletedLeavesNothing'
    BY <1>0, <2>3, <2>4 DEF DeletedLeavesNothing
  <2>7. Alone => ApprovalStands' /\ OnlyBrokersList'
    <3>1. broker[u] = NoBroker /\ NoBroker.status = "none"
      BY <1>0, <2>4 DEF DeletedLeavesNothing, NoBroker
    <3>2. Alone => u \notin greeted
      BY <1>0, <3>1 DEF Standing, ApprovalStands
    <3>3. Alone => ApprovalStands'
      BY <1>0, <2>1, <2>3, <2>4, <3>2 DEF Standing, ApprovalStands, BrokerTypes
    <3>4. Alone => OnlyBrokersList'
      <4>1. \A v \in Users : IsActive(v) => broker'[v].status \in ActiveStatus
        BY <1>7, <2>1, <2>3 DEF IsActive
      <4>2. \A l \in Listings : listing[l].broker \in Users \cup {NoUser} /\ listing' = listing
        BY <1>0, <2>4 DEF BrokerTypes, Listing
      <4> QED BY <1>0, <4>1, <4>2 DEF Standing, OnlyBrokersList, IsActive
    <3> QED BY <3>3, <3>4
  <2>8. Still => DocumentsAreStored' /\ DocsFit'
    <3>1. \A v \in Users : docs'[v].file = IF v = u THEN f ELSE docs[v].file
      BY <2>1, <2>3
    <3>2. Still => DocumentsAreStored'
      BY <1>0, <2>4, <3>1 DEF FilesStand, DocumentsAreStored
    <3>3. Still => DocsFit'
      BY <1>0, <2>1, <2>3, <2>4, <3>1, BrokersAssumption DEF FilesStand, DocsFit, BrokerTypes
    <3> QED BY <3>2, <3>3
  <2> QED BY <1>b, <2>4, <2>5, <2>6, <2>7, <2>8, DecisionFits
<1>8. brokerLoad.files \subseteq Scans
  BY <1>0, BrokersAssumption DEF BrokerTypes
<1>9. ASSUME NEW f \in brokerLoad.files, RegisterWithDocs(u, f) \/ CreateBrokerWithDocs(u, f, "approved")
      PROVE  BrokerInv'
  BY <1>7, <1>8, <1>9 DEF RegisterWithDocs, ActiveStatus
<1>10. ASSUME NEW l \in Listings, AdminCreateListing(u, l) PROVE BrokerInv'
  <2>1. HasRow(u) /\ UNCHANGED <<user, broker, docs, kept, used, step, greeted, edited, halts>>
    BY <1>10 DEF AdminCreateListing
  <2>2. /\ listing' \in [Listings -> Listing]
        /\ \A m \in Listings : listing'[m] = listing[m] \/ (listing'[m].broker = u /\ listing'[m].by = "admin")
    BY <1>0, <1>10 DEF AdminCreateListing, BrokerTypes, Listing
  <2>3. u \in user
    BY <2>1, RowsHaveAccounts
  <2>4. BrokerTypes'
    BY <1>0, <2>1, <2>2 DEF BrokerTypes
  <2>5. DeletedLeavesNothing'
    BY <1>0, <2>1, <2>2, <2>3 DEF DeletedLeavesNothing
  <2>6. Alone => ApprovalStands' /\ OnlyBrokersList'
    BY <1>0, <2>1, <2>2 DEF Standing, ApprovalStands, OnlyBrokersList, IsActive
  <2>7. Still => DocumentsAreStored' /\ DocsFit'
    BY <1>0, <2>1 DEF FilesStand, DocumentsAreStored, DocsFit
  <2> QED BY <1>b, <2>1, <2>4, <2>5, <2>6, <2>7, DecisionFits
<1> QED BY <1>2, <1>3, <1>4, <1>5, <1>6, <1>9, <1>10 DEF Decide

-----------------------------------------------------------------------------
(* What is asked.                                                          *)

\* A request that uploads a file knows it, and it is in nobody's documents.
LEMMA UploadKeeps ==
    ASSUME BrokerInv, NEW r \in brokerLoad.requests, NEW f \in Scans, NEW t, Goes(r, t), Upload(f),
           UNCHANGED <<brokerLoad, user, broker, docs, listing, greeted, edited, halts>>,
           step[r].phase = "idle", t.phase \in {"adminUploaded", "uploaded"}, t.file = f
    PROVE  BrokerInv'
<1>1. /\ r \in BrokerRequests /\ step' \in [BrokerRequests -> StepOf] /\ StepsFit'
      /\ step'[r] = t /\ \A q \in BrokerRequests \ {r} : step'[q] = step[q]
  BY GoesFits DEF BrokerInv
<1>2. BrokerTypes'
  BY <1>1 DEF BrokerInv, BrokerTypes, Upload
<1>3. DeletedLeavesNothing'
  BY DEF BrokerInv, DeletedLeavesNothing
<1>4. Alone => Standing'
  BY <1>1, StandMove DEF BrokerInv
<1>5. Still => FilesStand'
  <2> SUFFICES ASSUME Still PROVE FilesStand'
    OBVIOUS
  <2>1. FilesStand /\ kept \subseteq used
    BY DEF BrokerInv, BrokerTypes
  <2>2. \A q \in brokerLoad.requests : q = r
    BY DEF Still, Alone
  <2>3. \A q \in BrokerRequests : step[q].phase = "erasing" => step'[q] = step[q]
    BY <1>1
  <2>4. DocumentsAreStored'
    BY <2>1, <2>3 DEF FilesStand, DocumentsAreStored, Upload
  <2>5. DocsFit'
    BY <2>1 DEF FilesStand, DocsFit, Upload
  <2>6. \A u \in Users : docs[u].file # f
    BY <2>1, BrokersAssumption DEF FilesStand, DocsFit, Upload
  <2>7. FilesFit'
    BY <1>1, <2>2, <2>6 DEF FilesFit, Upload
  <2> QED BY <2>4, <2>5, <2>7 DEF FilesStand
<1>6. Alone' = Alone /\ Still' = Still
  BY DEF Alone, Still
<1> QED BY <1>1, <1>2, <1>3, <1>4, <1>5, <1>6 DEF BrokerInv

\* The file goes before the row is written, which one request then does.
LEMMA EraseKeeps ==
    ASSUME BrokerInv, NEW r \in brokerLoad.requests, NEW u \in Users,
           AdminDeleteFile(r, u), UNCHANGED brokerLoad
    PROVE  BrokerInv'
<1> DEFINE t == [NoStep EXCEPT !.phase = "erasing", !.user = u]
<1>1. t \in StepOf /\ t.phase = "erasing" /\ t.user = u
  BY DEF NoStep, StepOf, BrokerPhase, BrokerStatus
<1>2. step[r].phase = "idle" /\ docs[u].file # NoScan /\ kept' = kept \ {docs[u].file}
      /\ step' = [step EXCEPT ![r] = t]
  BY DEF AdminDeleteFile, BeginStep, MoveStep
<1> HIDE DEF t
<1>3. UNCHANGED <<brokerLoad, user, broker, docs, listing, used, greeted, edited, halts>>
  BY DEF AdminDeleteFile
<1>4. Goes(r, t)
  BY <1>1, <1>2 DEF Goes
<1>5. /\ r \in BrokerRequests /\ step' \in [BrokerRequests -> StepOf] /\ StepsFit'
      /\ step'[r] = t /\ \A q \in BrokerRequests \ {r} : step'[q] = step[q]
  BY <1>4, GoesFits DEF BrokerInv
<1>6. BrokerTypes'
  BY <1>2, <1>3, <1>5 DEF BrokerInv, BrokerTypes
<1>7. DeletedLeavesNothing'
  BY <1>3 DEF BrokerInv, DeletedLeavesNothing
<1>8. Alone => Standing'
  BY <1>1, <1>3, <1>5, StandMove DEF BrokerInv
<1>9. Still => FilesStand'
  <2> SUFFICES ASSUME Still PROVE FilesStand'
    OBVIOUS
  <2>1. FilesStand
    BY DEF BrokerInv
  <2>2. \A q \in brokerLoad.requests : q = r
    BY DEF Still, Alone
  <2>3. \A v \in Users : docs[v].file # NoScan /\ v # u => docs[v].file # docs[u].file
    BY <2>1 DEF FilesStand, DocsFit
  <2>4. \A q \in BrokerRequests : step[q].phase = "erasing" => step'[q] = step[q]
    BY <1>2, <1>5
  <2>5. DocumentsAreStored'
    BY <1>1, <1>2, <1>3, <1>5, <2>1, <2>3, <2>4 DEF FilesStand, DocumentsAreStored
  <2>6. DocsFit'
    BY <1>3, <2>1 DEF FilesStand, DocsFit
  <2>7. FilesFit'
    BY <1>1, <1>3, <1>5, <2>2 DEF FilesFit, FilePhases
  <2> QED BY <2>5, <2>6, <2>7 DEF FilesStand
<1>10. Alone' = Alone /\ Still' = Still
  BY <1>3 DEF Alone, Still
<1> QED BY <1>5, <1>6, <1>7, <1>8, <1>9, <1>10 DEF BrokerInv

\* An account is written before the row of the broker it is to be.
LEMMA StaffKeeps ==
    ASSUME BrokerInv, NEW r \in brokerLoad.requests, NEW u \in Users, NEW auxiliary \in BOOLEAN,
           CreateUser(r, u, auxiliary), UNCHANGED brokerLoad
    PROVE  BrokerInv'
<1> DEFINE t == [NoStep EXCEPT !.phase = "staffing", !.user = u, !.auxiliary = auxiliary]
<1>1. t \in StepOf /\ t.phase = "staffing" /\ t.user = u
  BY DEF NoStep, StepOf, BrokerPhase, BrokerStatus
<1>2. step[r].phase = "idle" /\ user' = user \cup {u} /\ step' = [step EXCEPT ![r] = t]
  BY DEF CreateUser, MoveStep
<1> HIDE DEF t
<1>3. UNCHANGED <<brokerLoad, broker, docs, listing, kept, used, greeted, edited, halts>>
  BY DEF CreateUser
<1>4. Goes(r, t)
  BY <1>1, <1>2 DEF Goes
<1>5. /\ r \in BrokerRequests /\ step' \in [BrokerRequests -> StepOf] /\ StepsFit'
      /\ step'[r] = t /\ \A q \in BrokerRequests \ {r} : step'[q] = step[q]
  BY <1>4, GoesFits DEF BrokerInv
<1>6. BrokerTypes'
  BY <1>2, <1>3, <1>5 DEF BrokerInv, BrokerTypes
<1>7. DeletedLeavesNothing'
  BY <1>2, <1>3 DEF BrokerInv, DeletedLeavesNothing
<1>8. Alone => Standing'
  BY <1>1, <1>3, <1>5, StandMove DEF BrokerInv
<1>9. Still => FilesStand'
  <2> SUFFICES ASSUME Still PROVE FilesStand'
    OBVIOUS
  <2>1. FilesStand /\ BrokerTypes
    BY DEF BrokerInv
  <2>2. \A q \in brokerLoad.requests : q = r
    BY DEF Still, Alone
  <2>3. \A v \in Users : docs'[v].file = docs[v].file /\ (docs'[v].status = "none" => docs'[v].file = NoScan)
    BY <1>3, <2>1 DEF FilesStand, DocsFit
  <2>4. \A q \in BrokerRequests : step[q].phase = "erasing" => step'[q] = step[q]
    BY <1>2, <1>5
  <2>5. /\ \A q \in brokerLoad.requests : step'[q].phase \notin FilePhases
        /\ \A q \in brokerLoad.requests : step'[q].phase # "adminRead"
    BY <1>1, <1>5, <2>2 DEF FilePhases
  <2> QED BY <1>3, <2>1, <2>3, <2>4, <2>5, FilesMove
<1>10. Alone' = Alone /\ Still' = Still
  BY <1>3 DEF Alone, Still
<1> QED BY <1>5, <1>6, <1>7, <1>8, <1>9, <1>10 DEF BrokerInv

\* One step for each request that begins.
LEMMA AskKeeps ==
    ASSUME BrokerInv, NEW r \in brokerLoad.requests, NEW u \in Users, Ask(r, u), UNCHANGED brokerLoad
    PROVE  BrokerInv'
<1>0. BrokerTypes /\ edited \subseteq Users /\ broker[u].status \in BrokerStatus
  BY DEF BrokerInv, BrokerTypes, Broker
<1>a. brokerLoad.files \subseteq Scans
  BY <1>0, BrokersAssumption DEF BrokerTypes
<1>1. ASSUME NEW p \in {"promoting", "editing", "listing"}, step[r].phase = "idle", BeginStep(r, p, u),
             p = "listing" => IsActive(u),
             UNCHANGED <<user, broker, docs, listing, kept, used, greeted, edited, halts>>
      PROVE  BrokerInv'
  <2> DEFINE t == [NoStep EXCEPT !.phase = p, !.user = u]
  <2>1. t \in StepOf /\ t.phase = p /\ t.user = u
    BY DEF NoStep, StepOf, BrokerPhase, BrokerStatus
  <2>2. step' = [step EXCEPT ![r] = t]
    BY <1>1 DEF BeginStep, MoveStep
  <2> HIDE DEF t
  <2>3. Goes(r, t)
    BY <2>1, <2>2 DEF Goes
  <2> QED BY <1>0, <1>1, <2>1, <2>3, OnlySteps DEF FilePhases
<1>2. CASE BeginPromote(r, u)
  BY <1>2, <1>1 DEF BeginPromote
<1>3. CASE BeginUpdateClient(r, u)
  BY <1>3, <1>1 DEF BeginUpdateClient
<1>4. CASE BeginListing(r, u)
  BY <1>4, <1>1 DEF BeginListing, IsActive, ActiveStatus
<1>5. CASE AdminDeleteFile(r, u)
  BY <1>5, EraseKeeps
<1>6. CASE Register(r, u) \/ CreateUser(r, u, TRUE)
  BY <1>6, StaffKeeps DEF Register
<1>7. ASSUME NEW creci \in BOOLEAN, BeginUpgrade(r, u, creci) PROVE BrokerInv'
  <2> DEFINE t == [NoStep EXCEPT !.phase = "upgrading", !.user = u, !.creci = creci,
                                 !.read = broker[u].status]
  <2>1. t \in StepOf /\ t.phase = "upgrading" /\ t.user = u /\ t.read = broker[u].status
    BY <1>0 DEF NoStep, StepOf, BrokerPhase, BrokerStatus
  <2>2. step' = [step EXCEPT ![r] = t] /\ step[r].phase = "idle"
    BY <1>7 DEF BeginUpgrade, MoveStep
  <2> HIDE DEF t
  <2>3. Goes(r, t)
    BY <2>1, <2>2 DEF Goes
  <2>4. UNCHANGED <<user, broker, docs, listing, kept, used, greeted, edited, halts>>
    BY <1>7 DEF BeginUpgrade
  <2> QED BY <1>0, <2>1, <2>2, <2>3, <2>4, OnlySteps DEF FilePhases
<1>8. ASSUME NEW f \in Scans, NEW creci \in BOOLEAN, UploadVerificationDocs(r, u, f, creci)
      PROVE  BrokerInv'
  <2> DEFINE t == [NoStep EXCEPT !.phase = "uploaded", !.user = u, !.file = f, !.creci = creci]
  <2>1. t \in StepOf /\ t.phase = "uploaded" /\ t.user = u /\ t.file = f
    BY DEF NoStep, StepOf, BrokerPhase, BrokerStatus
  <2>2. step' = [step EXCEPT ![r] = t] /\ step[r].phase = "idle" /\ Upload(f)
    BY <1>8 DEF UploadVerificationDocs, MoveStep
  <2> HIDE DEF t
  <2>3. Goes(r, t)
    BY <2>1, <2>2 DEF Goes
  <2>4. UNCHANGED <<user, broker, docs, listing, greeted, edited, halts>>
    BY <1>8 DEF UploadVerificationDocs
  <2> QED BY <2>1, <2>2, <2>3, <2>4, UploadKeeps
<1>9. ASSUME NEW f \in Scans, AdminUpload(r, u, f) PROVE BrokerInv'
  <2> DEFINE t == [NoStep EXCEPT !.phase = "adminUploaded", !.user = u, !.file = f]
  <2>1. t \in StepOf /\ t.phase = "adminUploaded" /\ t.user = u /\ t.file = f
    BY DEF NoStep, StepOf, BrokerPhase, BrokerStatus
  <2>2. step' = [step EXCEPT ![r] = t] /\ step[r].phase = "idle" /\ Upload(f)
    BY <1>9 DEF AdminUpload, MoveStep
  <2> HIDE DEF t
  <2>3. Goes(r, t)
    BY <2>1, <2>2 DEF Goes
  <2>4. UNCHANGED <<user, broker, docs, listing, greeted, edited, halts>>
    BY <1>9 DEF AdminUpload
  <2> QED BY <2>1, <2>2, <2>3, <2>4, UploadKeeps
<1>10. ASSUME NEW f \in brokerLoad.files, NEW creci \in BOOLEAN, UploadVerificationDocs(r, u, f, creci)
       PROVE  BrokerInv'
  BY <1>a, <1>8, <1>10
<1>11. ASSUME NEW f \in brokerLoad.files, AdminUpload(r, u, f) PROVE BrokerInv'
  BY <1>a, <1>9, <1>11
<1> QED BY <1>2, <1>3, <1>4, <1>5, <1>6, <1>7, <1>10, <1>11 DEF Ask

-----------------------------------------------------------------------------
(* What goes on.                                                           *)

\* A request that writes the row of a broker, or a listing, asks no more of
\* what it read.
LEMMA RowKeeps ==
    ASSUME BrokerInv, NEW r \in brokerLoad.requests, NEW t, Goes(r, t),
           UNCHANGED <<brokerLoad, user, docs, kept, used, edited, halts>>,
           step[r].phase # "erasing", t.phase \in {"idle", "reopening", "documenting"},
           t.phase = "documenting" => step[r].phase \in FilePhases /\ t.file = step[r].file,
           broker' \in [Users -> Broker], listing' \in [Listings -> Listing],
           greeted' \subseteq Users,
           DeletedLeavesNothing', Alone => ApprovalStands' /\ OnlyBrokersList'
    PROVE  BrokerInv'
<1>1. /\ r \in BrokerRequests /\ step' \in [BrokerRequests -> StepOf] /\ StepsFit'
      /\ step'[r] = t /\ \A q \in BrokerRequests \ {r} : step'[q] = step[q]
  BY GoesFits DEF BrokerInv
<1>2. BrokerTypes'
  BY <1>1 DEF BrokerInv, BrokerTypes
<1>3. Alone => \A q \in brokerLoad.requests : q = r
  BY DEF Alone
<1>4. Alone => StepsStand'
  BY <1>1, <1>3 DEF StepsStand
<1>5. Still => FilesStand'
  <2> SUFFICES ASSUME Still PROVE FilesStand'
    OBVIOUS
  <2>1. FilesStand /\ BrokerTypes
    BY DEF BrokerInv
  <2>2. \A v \in Users : docs'[v].file = docs[v].file /\ (docs'[v].status = "none" => docs'[v].file = NoScan)
    BY <2>1 DEF FilesStand, DocsFit
  <2>3. \A q \in BrokerRequests : step[q].phase = "erasing" => step'[q] = step[q]
    BY <1>1
  <2>4. /\ \A q \in brokerLoad.requests : step'[q].phase \in FilePhases =>
              step[q].phase \in FilePhases /\ step'[q].file = step[q].file
        /\ \A q \in brokerLoad.requests : step'[q].phase # "adminRead"
    BY <1>1, <1>3 DEF FilePhases, Still
  <2> QED BY <2>1, <2>2, <2>3, <2>4, FilesMove
<1>6. Alone' = Alone /\ Still' = Still
  BY DEF Alone, Still
<1> QED BY <1>1, <1>2, <1>4, <1>5, <1>6 DEF BrokerInv, Standing

\* A request ends with what it writes into the documents of an account u: a
\* file that is stored and in nobody's documents, the one they had, or none.
LEMMA DocsKeep ==
    ASSUME BrokerInv, NEW r \in brokerLoad.requests, NEW u \in Users, EndStep(r),
           UNCHANGED <<brokerLoad, user, broker, listing, kept, used, greeted, edited, halts>>,
           docs' \in [Users -> Docs], \A v \in Users \ {u} : docs'[v] = docs[v],
           u \notin user => docs'[u] = docs[u],
           step[r].phase = "erasing" => step[r].user = u /\ (Still => docs'[u].file = NoScan),
           Still => /\ docs'[u].status = "none" => docs'[u].file = NoScan
                    /\ \/ docs'[u].file = NoScan
                       \/ docs'[u].file = docs[u].file
                       \/ docs'[u].file \in kept /\ \A v \in Users : docs[v].file # docs'[u].file
    PROVE  BrokerInv'
<1>1. Goes(r, NoStep)
  BY NoStepFits DEF Goes, EndStep, MoveStep
<1>2. /\ r \in BrokerRequests /\ step' \in [BrokerRequests -> StepOf] /\ StepsFit'
      /\ step'[r] = NoStep /\ \A q \in BrokerRequests \ {r} : step'[q] = step[q]
  BY <1>1, GoesFits DEF BrokerInv
<1>3. BrokerTypes'
  BY <1>2 DEF BrokerInv, BrokerTypes
<1>4. DeletedLeavesNothing'
  BY DEF BrokerInv, DeletedLeavesNothing
<1>5. Alone => Standing'
  BY <1>2, NoStepFits, StandMove DEF BrokerInv
<1>6. Still => FilesStand'
  <2> SUFFICES ASSUME Still PROVE FilesStand'
    OBVIOUS
  <2>1. FilesStand /\ kept \subseteq used
    BY DEF BrokerInv, BrokerTypes
  <2>2. \A q \in brokerLoad.requests : q = r
    BY DEF Still, Alone
  <2>3. \A q \in BrokerRequests : step[q].phase = "erasing" /\ step[q].user # u => step'[q] = step[q]
    BY <1>2
  <2>4. ASSUME docs'[u].file # NoScan, docs'[u].file = docs[u].file, docs[u].file \notin kept
        PROVE  \E q \in BrokerRequests : step'[q].phase = "erasing" /\ step'[q].user = u
    <3>1. PICK q \in BrokerRequests : step[q].phase = "erasing" /\ step[q].user = u
      BY <2>1, <2>4 DEF FilesStand, DocumentsAreStored
    <3>2. q # r
      BY <2>4, <3>1
    <3> QED BY <1>2, <3>1, <3>2
  <2>5. DocumentsAreStored'
    <3>1. ASSUME NEW v \in Users \ {u}, docs'[v].file # NoScan, docs'[v].file \notin kept
          PROVE  \E q \in BrokerRequests : step'[q].phase = "erasing" /\ step'[q].user = v
      <4>1. PICK q \in BrokerRequests : step[q].phase = "erasing" /\ step[q].user = v
        BY <2>1, <3>1 DEF FilesStand, DocumentsAreStored
      <4> QED BY <2>3, <4>1
    <3>2. docs'[u].file # NoScan /\ docs'[u].file \notin kept => docs'[u].file = docs[u].file
      OBVIOUS
    <3> QED BY <2>4, <3>1, <3>2 DEF DocumentsAreStored
  <2>6. DocsFit'
    <3>1. \A v \in Users \ {u} : docs'[v].file = docs[v].file
      OBVIOUS
    <3> QED BY <2>1, <3>1 DEF FilesStand, DocsFit
  <2>7. FilesFit'
    BY <1>2, <2>2, NoStepFits DEF FilesFit, FilePhases
  <2> QED BY <2>5, <2>6, <2>7 DEF FilesStand
<1>7. Alone' = Alone /\ Still' = Still
  BY DEF Alone, Still
<1> QED BY <1>2, <1>3, <1>4, <1>5, <1>6, <1>7 DEF BrokerInv

\* What the statement for a status that was read does to a row.
LEMMA AppliedFits ==
    ASSUME BrokerInv, NEW u \in Users, NEW read \in BrokerStatus, NEW creci \in BOOLEAN,
           NEW reset, "approved" \notin reset, broker' = Applied(u, read, creci, reset)
    PROVE  /\ broker' \in [Users -> Broker]
           /\ \A v \in Users \ {u} : broker'[v] = broker[v]
           /\ u \notin user => broker'[u] = broker[u]
           /\ \/ broker'[u].status = broker[u].status
              \/ read # "approved" /\ broker'[u].status = "pending_verification"
<1>0. BrokerTypes
  BY DEF BrokerInv
<1>1. CASE (read = "none" /\ (HasRow(u) \/ u \notin user)) \/ (creci /\ ~CreciFree(u))
             \/ (read # "none" /\ ~HasRow(u))
  <2>1. broker' = broker
    BY <1>1 DEF Applied
  <2> QED BY <1>0, <2>1 DEF BrokerTypes
<1>2. CASE ~((read = "none" /\ (HasRow(u) \/ u \notin user)) \/ (creci /\ ~CreciFree(u))
               \/ (read # "none" /\ ~HasRow(u)))
  <2>1. broker' = [broker EXCEPT ![u].creci = creci,
                     ![u].status = IF read \in reset THEN "pending_verification" ELSE @]
    BY <1>2, Zenon DEF Applied
  <2>2. u \in user
    BY <1>2, RowsHaveAccounts
  <2> DEFINE row == [broker[u] EXCEPT !.creci = creci,
                       !.status = IF read \in reset THEN "pending_verification" ELSE broker[u].status]
  <2>a. broker \in [Users -> Broker] /\ broker[u] \in Broker
    BY <1>0 DEF BrokerTypes
  <2>b. row \in Broker
    BY <2>a DEF Broker, BrokerStatus
  <2>c. broker' = [broker EXCEPT ![u] = row]
    BY <2>1, <2>a
  <2>3. broker' \in [Users -> Broker]
    <3> HIDE DEF row
    <3> QED BY <2>a, <2>b, <2>c
  <2>4. \A v \in Users \ {u} : broker'[v] = broker[v]
    BY <1>0, <2>1 DEF BrokerTypes
  <2>5. broker'[u].status = IF read \in reset THEN "pending_verification" ELSE broker[u].status
    BY <1>0, <2>1 DEF BrokerTypes, Broker
  <2> QED BY <2>2, <2>3, <2>4, <2>5
<1> QED BY <1>1, <1>2

\* A row that is written for an account that exists, and what it was approved
\* as or lists by.
LEMMA RowStands ==
    ASSUME BrokerInv, NEW u \in Users, listing' = listing, user' = user, docs' = docs,
           broker' \in [Users -> Broker], \A v \in Users \ {u} : broker'[v] = broker[v],
           u \notin user => broker'[u] = broker[u],
           greeted' \subseteq greeted \cup {u},
           u \in greeted' /\ u \notin greeted => broker'[u].status = "approved",
           Alone => \/ broker'[u].status = broker[u].status
                    \/ broker'[u].status = "approved"
                    \/ broker[u].status # "approved" /\ broker'[u].status = "pending_verification"
    PROVE  DeletedLeavesNothing' /\ (Alone => ApprovalStands' /\ OnlyBrokersList')
<1>1. DeletedLeavesNothing'
  BY DEF BrokerInv, DeletedLeavesNothing
<1>2. ASSUME Alone PROVE ApprovalStands'
  BY <1>2 DEF BrokerInv, BrokerTypes, Standing, ApprovalStands
<1>3. ASSUME Alone PROVE OnlyBrokersList'
  <2>1. \A v \in Users : IsActive(v) => broker'[v].status \in ActiveStatus
    BY <1>3 DEF IsActive, ActiveStatus
  <2>2. \A l \in Listings : listing[l].broker \in Users \cup {NoUser}
    BY DEF BrokerInv, BrokerTypes, Listing
  <2> QED BY <1>3, <2>1, <2>2 DEF BrokerInv, Standing, OnlyBrokersList, IsActive
<1> QED BY <1>1, <1>2, <1>3

\* A promotion makes a broker of who is none, and he is approved.
LEMMA PromoteKeeps ==
    ASSUME BrokerInv, NEW r \in brokerLoad.requests, Promote(r), UNCHANGED brokerLoad
    PROVE  BrokerInv'
<1>0. BrokerTypes /\ r \in BrokerRequests
  BY BrokersAssumption DEF BrokerInv, BrokerTypes
<1> DEFINE u == step[r].user
<1>1. u \in Users /\ step[r].phase = "promoting"
  BY <1>0 DEF BrokerInv, StepsFit, Promote
<1>2. /\ broker' = IF u \in user /\ ~IsActive(u) /\ CreciFree(u)
                   THEN [broker EXCEPT ![u].status = "approved", ![u].creci = TRUE] ELSE broker
      /\ greeted' = IF broker' = broker THEN greeted ELSE greeted \cup {u}
      /\ EndStep(r)
      /\ UNCHANGED <<user, docs, listing, kept, used, edited, halts>>
  BY DEF Promote
<1> HIDE DEF u
<1>3. /\ broker' \in [Users -> Broker] /\ \A v \in Users \ {u} : broker'[v] = broker[v]
      /\ u \notin user => broker'[u] = broker[u]
      /\ broker' = broker \/ broker'[u].status = "approved"
  <2>1. CASE u \in user /\ ~IsActive(u) /\ CreciFree(u)
    <3>1. broker' = [broker EXCEPT ![u].status = "approved", ![u].creci = TRUE]
      BY <1>2, <2>1
    <3> QED BY <1>0, <1>1, <2>1, <3>1 DEF BrokerTypes, Broker, BrokerStatus
  <2>2. CASE ~(u \in user /\ ~IsActive(u) /\ CreciFree(u))
    <3>1. broker' = broker
      BY <1>2, <2>2
    <3> QED BY <1>0, <3>1 DEF BrokerTypes
  <2> QED BY <2>1, <2>2
<1>4. /\ greeted' \subseteq greeted \cup {u} /\ greeted' \subseteq Users
      /\ u \in greeted' /\ u \notin greeted => broker'[u].status = "approved"
  BY <1>0, <1>1, <1>2, <1>3 DEF BrokerTypes
<1>5. DeletedLeavesNothing' /\ (Alone => ApprovalStands' /\ OnlyBrokersList')
  BY <1>1, <1>2, <1>3, <1>4, RowStands
<1>6. Goes(r, NoStep) /\ NoStep.phase = "idle"
  BY <1>2, NoStepFits DEF Goes, EndStep, MoveStep
<1>7. listing' \in [Listings -> Listing]
  BY <1>0, <1>2 DEF BrokerTypes
<1> QED BY <1>1, <1>2, <1>3, <1>4, <1>5, <1>6, <1>7, RowKeeps

\* The row of an auxiliary, who is approved, or of a broker who registered.
LEMMA InsertRowKeeps ==
    ASSUME BrokerInv, NEW r \in brokerLoad.requests, InsertBrokerRow(r), UNCHANGED brokerLoad
    PROVE  BrokerInv'
<1>0. BrokerTypes /\ r \in BrokerRequests
  BY BrokersAssumption DEF BrokerInv, BrokerTypes
<1> DEFINE u == step[r].user
           row == IF step[r].auxiliary
                  THEN [status |-> "approved", creci |-> FALSE, profile |-> "AUXILIARY_ADMINISTRATIVE"]
                  ELSE [status |-> "pending_verification", creci |-> TRUE, profile |-> "BROKER"]
<1>1. u \in Users /\ step[r].phase = "staffing"
  BY <1>0 DEF BrokerInv, StepsFit, InsertBrokerRow
<1>2. /\ broker' = IF u \notin user \/ (~step[r].auxiliary /\ (HasRow(u) \/ ~CreciFree(u))) THEN broker
                   ELSE [broker EXCEPT ![u] = row]
      /\ greeted' = IF broker' # broker /\ step[r].auxiliary THEN greeted \cup {u} ELSE greeted
      /\ EndStep(r)
      /\ UNCHANGED <<user, docs, listing, kept, used, edited, halts>>
  BY DEF InsertBrokerRow
<1>3. row \in Broker /\ row.status = IF step[r].auxiliary THEN "approved" ELSE "pending_verification"
  BY DEF Broker, BrokerStatus
<1> HIDE DEF u, row
<1>4. /\ broker' \in [Users -> Broker] /\ \A v \in Users \ {u} : broker'[v] = broker[v]
      /\ u \notin user => broker'[u] = broker[u]
      /\ \/ broker' = broker
         \/ step[r].auxiliary /\ broker'[u].status = "approved"
         \/ ~step[r].auxiliary /\ ~HasRow(u) /\ broker'[u].status = "pending_verification"
  <2>1. CASE u \notin user \/ (~step[r].auxiliary /\ (HasRow(u) \/ ~CreciFree(u)))
    <3>1. broker' = broker
      BY <1>2, <2>1
    <3> QED BY <1>0, <3>1 DEF BrokerTypes
  <2>2. CASE ~(u \notin user \/ (~step[r].auxiliary /\ (HasRow(u) \/ ~CreciFree(u))))
    <3>1. broker' = [broker EXCEPT ![u] = row]
      BY <1>2, <2>2
    <3>2. /\ broker' \in [Users -> Broker] /\ broker'[u] = row
          /\ \A v \in Users \ {u} : broker'[v] = broker[v]
      BY <1>0, <1>1, <1>3, <3>1, RowOfBroker
    <3> QED BY <1>3, <2>2, <3>2
  <2> QED BY <2>1, <2>2
<1>5. /\ greeted' \subseteq greeted \cup {u} /\ greeted' \subseteq Users
      /\ u \in greeted' /\ u \notin greeted => broker'[u].status = "approved"
  BY <1>0, <1>1, <1>2, <1>4 DEF BrokerTypes
<1>6. \/ broker'[u].status = broker[u].status
      \/ broker'[u].status = "approved"
      \/ broker[u].status # "approved" /\ broker'[u].status = "pending_verification"
  BY <1>4 DEF HasRow
<1>7. DeletedLeavesNothing' /\ (Alone => ApprovalStands' /\ OnlyBrokersList')
  BY <1>1, <1>2, <1>4, <1>5, <1>6, RowStands
<1>8. Goes(r, NoStep) /\ NoStep.phase = "idle"
  BY <1>2, NoStepFits DEF Goes, EndStep, MoveStep
<1>9. listing' \in [Listings -> Listing]
  BY <1>0, <1>2 DEF BrokerTypes
<1> QED BY <1>1, <1>2, <1>4, <1>5, <1>7, <1>8, <1>9, RowKeeps

\* What brokers send in: their row goes back to pending unless it was read as
\* approved, and a request that is alone has read it as it is.
LEMMA SentKeeps ==
    ASSUME BrokerInv, NEW r \in brokerLoad.requests, WriteUpgrade(r) \/ WriteBroker(r), UNCHANGED brokerLoad
    PROVE  BrokerInv'
<1>0. BrokerTypes /\ r \in BrokerRequests /\ step[r] \in StepOf
  BY BrokersAssumption DEF BrokerInv, BrokerTypes
<1> DEFINE u == step[r].user
           read == step[r].read
           creci == step[r].creci
<1>1. u \in Users /\ step[r].phase \in {"upgrading", "read"} /\ read \in BrokerStatus /\ creci \in BOOLEAN
  BY <1>0 DEF BrokerInv, StepsFit, WriteUpgrade, WriteBroker, StepOf
<1>2. PICK reset : "approved" \notin reset /\ broker' = Applied(u, read, creci, reset)
  <2>1. "approved" \notin {"none", "rejected"} /\ "approved" \notin BrokerStatus \ {"approved"}
    OBVIOUS
  <2> QED BY <2>1 DEF WriteUpgrade, WriteBroker
<1>3. UNCHANGED <<user, docs, listing, kept, used, greeted, edited, halts>>
  BY DEF WriteUpgrade, WriteBroker
<1>4. PICK t : /\ Goes(r, t) /\ t.phase \in {"idle", "reopening", "documenting"}
               /\ t.phase = "documenting" => step[r].phase \in FilePhases /\ t.file = step[r].file
  <2>1. \A p \in {"reopening", "documenting"} :
           LET t == [step[r] EXCEPT !.phase = p]
           IN  t \in StepOf /\ t.phase = p /\ t.user = u /\ t.file = step[r].file
    BY <1>0 DEF StepOf, BrokerPhase
  <2>2. CASE EndStep(r)
    BY <2>2, NoStepFits DEF Goes, EndStep, MoveStep
  <2>3. CASE WriteUpgrade(r) /\ MoveStep(r, [step[r] EXCEPT !.phase = "reopening"])
    <3> DEFINE t == [step[r] EXCEPT !.phase = "reopening"]
    <3>1. Goes(r, t) /\ t.phase = "reopening"
      BY <1>1, <2>1, <2>3 DEF Goes, MoveStep
    <3> QED BY <3>1
  <2>4. CASE WriteBroker(r) /\ MoveStep(r, [step[r] EXCEPT !.phase = "documenting"])
    <3> DEFINE t == [step[r] EXCEPT !.phase = "documenting"]
    <3>1. Goes(r, t) /\ t.phase = "documenting" /\ t.file = step[r].file
      BY <1>1, <2>1, <2>4 DEF Goes, MoveStep
    <3>2. step[r].phase \in FilePhases
      BY <2>4 DEF WriteBroker, FilePhases
    <3> QED BY <3>1, <3>2
  <2> QED BY <2>2, <2>3, <2>4 DEF WriteUpgrade, WriteBroker
<1>5. Alone => read = broker[u].status
  BY <1>1 DEF BrokerInv, Standing, StepsStand
<1> HIDE DEF u, read, creci
<1>6. /\ broker' \in [Users -> Broker]
      /\ \A v \in Users \ {u} : broker'[v] = broker[v]
      /\ u \notin user => broker'[u] = broker[u]
      /\ \/ broker'[u].status = broker[u].status
         \/ read # "approved" /\ broker'[u].status = "pending_verification"
  BY <1>1, <1>2, AppliedFits
<1>7. Alone => \/ broker'[u].status = broker[u].status
               \/ broker'[u].status = "approved"
               \/ broker[u].status # "approved" /\ broker'[u].status = "pending_verification"
  BY <1>5, <1>6
<1>8. DeletedLeavesNothing' /\ (Alone => ApprovalStands' /\ OnlyBrokersList')
  BY <1>1, <1>3, <1>6, <1>7, RowStands
<1>9. listing' \in [Listings -> Listing] /\ greeted' \subseteq Users
  BY <1>0, <1>3 DEF BrokerTypes
<1> QED BY <1>1, <1>3, <1>4, <1>6, <1>8, <1>9, RowKeeps

\* The key takes no listing of who is no broker.
LEMMA InsertListingKeeps ==
    ASSUME BrokerInv, NEW r \in brokerLoad.requests, NEW l \in Listings,
           InsertListing(r, l), UNCHANGED brokerLoad
    PROVE  BrokerInv'
<1>0. BrokerTypes /\ r \in BrokerRequests
  BY BrokersAssumption DEF BrokerInv, BrokerTypes
<1> DEFINE u == step[r].user
<1>1. u \in Users /\ step[r].phase = "listing"
  BY <1>0 DEF BrokerInv, StepsFit, InsertListing
<1>2. /\ listing' = IF HasRow(u) THEN [listing EXCEPT ![l] = [broker |-> u, by |-> "broker"]]
                     ELSE listing
      /\ EndStep(r)
      /\ UNCHANGED <<user, broker, docs, kept, used, greeted, edited, halts>>
  BY DEF InsertListing
<1>3. Alone => IsActive(u)
  BY <1>1 DEF BrokerInv, Standing, StepsStand
<1>4. HasRow(u) => u \in user
  BY <1>1, RowsHaveAccounts
<1> HIDE DEF u
<1>5. /\ listing' \in [Listings -> Listing]
      /\ \A m \in Listings : listing'[m] = listing[m] \/ (HasRow(u) /\ listing'[m].broker = u)
  BY <1>0, <1>1, <1>2 DEF BrokerTypes, Listing
<1>6. DeletedLeavesNothing'
  BY <1>2, <1>4, <1>5 DEF BrokerInv, DeletedLeavesNothing
<1>7. Alone => ApprovalStands' /\ OnlyBrokersList'
  BY <1>2, <1>3, <1>5 DEF BrokerInv, Standing, ApprovalStands, OnlyBrokersList, IsActive
<1>8. Goes(r, NoStep) /\ NoStep.phase = "idle"
  BY <1>2, NoStepFits DEF Goes, EndStep, MoveStep
<1>9. broker' \in [Users -> Broker] /\ greeted' \subseteq Users
  BY <1>0, <1>2 DEF BrokerTypes
<1> QED BY <1>1, <1>2, <1>5, <1>6, <1>7, <1>8, <1>9, RowKeeps

\* The steps that write documents.
LEMMA PapersKeep ==
    ASSUME BrokerInv, NEW r \in brokerLoad.requests, UNCHANGED brokerLoad,
           \/ ReopenDocs(r) \/ AdminEraseColumn(r) \/ WriteVerificationDocs(r)
           \/ \E sent \in BOOLEAN : AdminWriteDocs(r, sent)
    PROVE  BrokerInv'
<1>0. BrokerTypes /\ r \in BrokerRequests /\ step[r] \in StepOf /\ (Still => FilesStand)
  BY BrokersAssumption DEF BrokerInv, BrokerTypes
<1> DEFINE u == step[r].user
<1>1. /\ step[r].phase \in {"reopening", "erasing", "documenting", "adminRead"} /\ u \in Users
      /\ step[r].file \in Scans \cup {NoScan} /\ step[r].old \in Scans \cup {NoScan}
  BY <1>0 DEF BrokerInv, StepsFit, StepOf, ReopenDocs, AdminEraseColumn, WriteVerificationDocs, AdminWriteDocs
<1>2. EndStep(r) /\ UNCHANGED <<brokerLoad, user, broker, listing, kept, used, greeted, edited, halts>>
  BY DEF ReopenDocs, AdminEraseColumn, WriteVerificationDocs, AdminWriteDocs
<1>3. /\ docs' = docs => docs' \in [Users -> Docs]
      /\ \A g \in Scans \cup {NoScan} : docs' = [docs EXCEPT ![u] = [status |-> "pending", file |-> g]] =>
            /\ docs' \in [Users -> Docs] /\ docs'[u].status = "pending" /\ docs'[u].file = g
            /\ \A v \in Users \ {u} : docs'[v] = docs[v]
  <2>1. \A g \in Scans \cup {NoScan} : [status |-> "pending", file |-> g] \in Docs
    BY DEF Docs
  <2> QED BY <1>0, <1>1, <2>1 DEF BrokerTypes
<1>4. Still => (docs[u].status = "none" => docs[u].file = NoScan)
  BY <1>0, <1>1 DEF FilesStand, DocsFit
<1>5. (HasRow(u) => u \in user) /\ (docs[u].status # "none" => u \in user)
  BY <1>1, RowsHaveAccounts
<1>6. CASE ReopenDocs(r)
  <2>1. docs' = WithDocs(u, "pending") /\ step[r].phase = "reopening"
    BY <1>6 DEF ReopenDocs
  <2>2. /\ docs' \in [Users -> Docs]
        /\ \A v \in Users : docs'[v].file = docs[v].file
        /\ \A v \in Users : docs'[v].status = "none" <=> docs[v].status = "none"
    BY <1>0, <1>1, <2>1, StatusOfDocs
  <2>3. (\A v \in Users \ {u} : docs'[v] = docs[v]) /\ (u \notin user => docs'[u] = docs[u])
    BY <1>0, <1>1, <1>5, <2>1 DEF WithDocs, BrokerTypes
  <2> HIDE DEF u
  <2> QED BY <1>1, <1>2, <1>4, <2>1, <2>2, <2>3, DocsKeep
<1>7. CASE AdminEraseColumn(r)
  <2>1. docs' = IF docs[u].status = "none" THEN docs
                ELSE [docs EXCEPT ![u] = [status |-> "pending", file |-> NoScan]]
    BY <1>7 DEF AdminEraseColumn
  <2> HIDE DEF u
  <2>2. CASE docs[u].status = "none"
    <3>1. docs' = docs
      BY <2>1, <2>2
    <3>2. step[r].user = u
      BY DEF u
    <3> QED BY <1>1, <1>2, <1>3, <1>4, <2>2, <3>1, <3>2, DocsKeep
  <2>3. CASE docs[u].status # "none"
    <3>1. docs' = [docs EXCEPT ![u] = [status |-> "pending", file |-> NoScan]]
      BY <2>1, <2>3
    <3>2. step[r].user = u
      BY DEF u
    <3> QED BY <1>1, <1>2, <1>3, <1>5, <2>3, <3>1, <3>2, DocsKeep
  <2> QED BY <2>2, <2>3
<1>8. ASSUME NEW g \in Scans \cup {NoScan}, step[r].phase # "erasing",
             docs' = IF HasRow(u) THEN [docs EXCEPT ![u] = [status |-> "pending", file |-> g]] ELSE docs,
             Still => g = docs[u].file \/ (g \in kept /\ \A v \in Users : docs[v].file # g)
      PROVE  BrokerInv'
  <2> HIDE DEF u
  <2>1. CASE HasRow(u)
    <3>1. docs' = [docs EXCEPT ![u] = [status |-> "pending", file |-> g]]
      BY <1>8, <2>1
    <3>2. /\ docs' \in [Users -> Docs] /\ docs'[u].status = "pending" /\ docs'[u].file = g
          /\ \A v \in Users \ {u} : docs'[v] = docs[v]
      BY <1>3, <1>8, <3>1
    <3> QED BY <1>1, <1>2, <1>5, <1>8, <2>1, <3>2, DocsKeep
  <2>2. CASE ~HasRow(u)
    <3>1. docs' = docs
      BY <1>8, <2>2
    <3> QED BY <1>1, <1>2, <1>3, <1>4, <1>8, <3>1, DocsKeep
  <2> QED BY <2>1, <2>2
<1>9. Still => /\ step[r].phase \in FilePhases =>
                     step[r].file \in kept /\ \A v \in Users : docs[v].file # step[r].file
               /\ step[r].phase = "adminRead" => step[r].old = docs[u].file
  BY <1>0 DEF FilesStand, FilesFit
<1>10. CASE WriteVerificationDocs(r)
  <2>1. /\ step[r].phase = "documenting"
        /\ docs' = IF HasRow(u) THEN [docs EXCEPT ![u] = [status |-> "pending", file |-> step[r].file]]
                   ELSE docs
    BY <1>10 DEF WriteVerificationDocs
  <2>2. step[r].phase \in FilePhases
    BY <2>1 DEF FilePhases
  <2> HIDE DEF u
  <2> QED BY <1>1, <1>8, <1>9, <2>1, <2>2
<1>11. ASSUME NEW sent \in BOOLEAN, AdminWriteDocs(r, sent) PROVE BrokerInv'
  <2> DEFINE g == IF sent THEN step[r].file ELSE step[r].old
  <2>1. step[r].phase = "adminRead"
    BY <1>11 DEF AdminWriteDocs
  <2>2. docs' = IF ~HasRow(u) THEN docs ELSE [docs EXCEPT ![u] = [status |-> "pending", file |-> g]]
    BY <1>11 DEF AdminWriteDocs
  <2>3. step[r].phase \in FilePhases /\ g \in Scans \cup {NoScan}
    BY <1>1, <2>1 DEF FilePhases
  <2>4. Still => g = docs[u].file \/ (g \in kept /\ \A v \in Users : docs[v].file # g)
    BY <1>9, <2>1, <2>3
  <2> HIDE DEF u, g
  <2>5. docs' = IF HasRow(u) THEN [docs EXCEPT ![u] = [status |-> "pending", file |-> g]] ELSE docs
    BY <2>2
  <2> QED BY <1>8, <2>1, <2>3, <2>4, <2>5
<1> QED BY <1>6, <1>7, <1>10, <1>11

\* One step for each step of a request that goes on.
LEMMA ContinueKeeps ==
    ASSUME BrokerInv, NEW r \in brokerLoad.requests, Continue(r), UNCHANGED brokerLoad
    PROVE  BrokerInv'
<1>0. /\ BrokerTypes /\ r \in BrokerRequests /\ step[r] \in StepOf /\ edited \subseteq Users
      /\ step[r].phase # "idle" => step[r].user \in Users
  BY BrokersAssumption DEF BrokerInv, BrokerTypes, StepsFit
<1>1. CASE UpdateClient(r)
  <2>1. Goes(r, NoStep) /\ NoStep.phase = "idle"
    BY <1>1, NoStepFits DEF UpdateClient, Goes, EndStep, MoveStep
  <2>2. /\ UNCHANGED <<user, broker, docs, listing, kept, used, greeted, halts>>
        /\ edited' \subseteq Users /\ step[r].phase = "editing"
    BY <1>0, <1>1 DEF UpdateClient
  <2> QED BY <2>1, <2>2, OnlySteps DEF FilePhases
<1>2. CASE AdminReadDocs(r)
  <2> DEFINE t == [step[r] EXCEPT !.phase = "adminRead", !.old = docs[step[r].user].file]
  <2>1. step[r].phase = "adminUploaded" /\ step' = [step EXCEPT ![r] = t] /\ step[r].user \in Users
    BY <1>0, <1>2 DEF AdminReadDocs, MoveStep
  <2>2. docs[step[r].user].file \in Scans \cup {NoScan}
    BY <1>0, <2>1 DEF BrokerTypes, Docs
  <2>3. /\ t \in StepOf /\ t.phase = "adminRead" /\ t.user = step[r].user /\ t.file = step[r].file
        /\ t.old = docs[t.user].file
    BY <1>0, <2>2 DEF StepOf, BrokerPhase
  <2>4. UNCHANGED <<user, broker, docs, listing, kept, used, greeted, edited, halts>>
    BY <1>2 DEF AdminReadDocs
  <2> HIDE DEF t
  <2>5. Goes(r, t)
    BY <2>1, <2>3 DEF Goes
  <2>6. step[r].phase \in FilePhases
    BY <2>1 DEF FilePhases
  <2> QED BY <1>0, <2>1, <2>3, <2>4, <2>5, <2>6, OnlySteps
<1>3. CASE ReadBroker(r)
  <2> DEFINE t == [step[r] EXCEPT !.phase = "read", !.read = broker[step[r].user].status]
  <2>1. step[r].phase = "uploaded" /\ step' = [step EXCEPT ![r] = t] /\ step[r].user \in Users
    BY <1>0, <1>3 DEF ReadBroker, MoveStep
  <2>2. broker[step[r].user].status \in BrokerStatus
    BY <1>0, <2>1 DEF BrokerTypes, Broker
  <2>3. /\ t \in StepOf /\ t.phase = "read" /\ t.user = step[r].user /\ t.file = step[r].file
        /\ t.read = broker[t.user].status
    BY <1>0, <2>2 DEF StepOf, BrokerPhase
  <2>4. UNCHANGED <<user, broker, docs, listing, kept, used, greeted, edited, halts>>
    BY <1>3 DEF ReadBroker
  <2> HIDE DEF t
  <2>5. Goes(r, t)
    BY <2>1, <2>3 DEF Goes
  <2>6. step[r].phase \in FilePhases
    BY <2>1 DEF FilePhases
  <2> QED BY <1>0, <2>1, <2>3, <2>4, <2>5, <2>6, OnlySteps
<1>4. CASE Promote(r)
  BY <1>4, PromoteKeeps
<1>5. CASE InsertBrokerRow(r)
  BY <1>5, InsertRowKeeps
<1>6. CASE WriteUpgrade(r) \/ WriteBroker(r)
  BY <1>6, SentKeeps
<1>7. ASSUME NEW l \in Listings, InsertListing(r, l) PROVE BrokerInv'
  BY <1>7, InsertListingKeeps
<1>8. CASE \/ ReopenDocs(r) \/ AdminEraseColumn(r) \/ WriteVerificationDocs(r)
           \/ \E sent \in BOOLEAN : AdminWriteDocs(r, sent)
  BY <1>8, PapersKeep
<1> QED BY <1>1, <1>2, <1>3, <1>4, <1>5, <1>6, <1>7, <1>8 DEF Continue

\* What is stored survives a crash, the requests do not: a file that was
\* deleted may be named on, and nothing is said of files where something stops.
LEMMA HaltKeeps == ASSUME BrokerInv, Halt, UNCHANGED brokerLoad PROVE BrokerInv'
<1>1. brokerLoad.requests \subseteq BrokerRequests /\ brokerLoad.crashes \in Nat /\ BrokerTypes
  BY BrokersAssumption DEF BrokerInv, BrokerTypes
<1>2. halts' \in 0 .. brokerLoad.crashes /\ brokerLoad.crashes # 0
  BY <1>1 DEF BrokerTypes, Halt
<1>3. step' \in [BrokerRequests -> StepOf] /\ \A q \in BrokerRequests : step'[q].phase = "idle"
  BY NoStepFits DEF Halt
<1>4. BrokerTypes'
  BY <1>1, <1>2, <1>3 DEF Halt, BrokerTypes
<1>5. StepsFit' /\ DeletedLeavesNothing'
  BY <1>3 DEF BrokerInv, StepsFit, DeletedLeavesNothing, Halt
<1>6. Alone => Standing'
  <2>1. Alone => ApprovalStands' /\ OnlyBrokersList'
    BY DEF BrokerInv, Standing, ApprovalStands, OnlyBrokersList, IsActive, Halt
  <2>2. StepsStand'
    BY <1>1, <1>3 DEF StepsStand, Halt
  <2> QED BY <2>1, <2>2 DEF Standing
<1>7. Alone' = Alone /\ ~Still'
  BY <1>2 DEF Alone, Still
<1> QED BY <1>4, <1>5, <1>6, <1>7 DEF BrokerInv

\* One step for each way an account, a document or a listing changes.
LEMMA BrokerStep == BrokerInv /\ [BrokersNext]_brokerVars => BrokerInv'
<1> SUFFICES ASSUME BrokerInv, [BrokersNext]_brokerVars PROVE BrokerInv'
  OBVIOUS
<1>1. brokerLoad.users \subseteq Users
  BY BrokersAssumption DEF BrokerInv, BrokerTypes
<1>2. CASE BrokersNext
  <2>1. UNCHANGED brokerLoad /\ BrokersChange
    BY <1>2 DEF BrokersNext
  <2>2. ASSUME NEW r \in brokerLoad.requests, NEW u \in Users, Ask(r, u) PROVE BrokerInv'
    BY <2>1, <2>2, AskKeeps
  <2>3. ASSUME NEW r \in brokerLoad.requests, NEW u \in Users, step[r].phase = "idle", Decide(u)
        PROVE  BrokerInv'
    BY <2>1, <2>3, DecisionKeeps
  <2>4. ASSUME NEW r \in brokerLoad.requests, Continue(r) PROVE BrokerInv'
    BY <2>1, <2>4, ContinueKeeps
  <2>5. CASE Halt
    BY <2>1, <2>5, HaltKeeps
  <2> QED BY <1>1, <2>1, <2>2, <2>3, <2>4, <2>5 DEF BrokersChange
<1>3. CASE UNCHANGED brokerVars
  <2>1. UNCHANGED <<brokerLoad, user, broker, docs, listing, kept, used, step, greeted, edited, halts>>
    BY <1>3 DEF brokerVars, brokerState
  <2> QED BY <2>1 DEF BrokerInv, BrokerTypes, StepsFit, DeletedLeavesNothing, Alone, Still, Standing,
              ApprovalStands, OnlyBrokersList, StepsStand, IsActive, FilesStand, DocumentsAreStored,
              DocsFit, FilesFit
<1> QED BY <1>2, <1>3

\* What the proof needs of accounts, documents and requests holds always:
\* approvals are taken back by administrators only, a request that is alone
\* writes for the status it read, and its file is in nobody's documents yet.
THEOREM BrokerSafety == BrokersSpec => []BrokerInv
BY InitBrokers, BrokerStep, PTL DEF BrokersSpec

\* BrokerAccountController, userVerificationService and
\* adminBrokerDocumentsService, for any accounts, files and requests: a deleted
\* account leaves no row, document or listing, whatever overlaps with its
\* deletion.  One request at a time, nothing a broker sends in takes his
\* approval back, who is not an active broker has no listing that he entered
\* himself, and documents that are named are stored unless something stops.
THEOREM BrokersAlwaysHold == BrokersSpec => []BrokersHold
<1>1. BrokerInv => BrokersHold
  BY DEF BrokerInv, BrokersHold, Alone, Still, Standing, FilesStand
<1> QED BY <1>1, BrokerSafety, PTL
=============================================================================
