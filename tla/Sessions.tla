------------------------------ MODULE Sessions ------------------------------
(***************************************************************************)
(* Sessions: tokens carry the version of the account's row, and a logout,  *)
(* a new password or a rejection counts the version up.  Every login reads *)
(* the row, then compares a password or asks Google, then signs what it    *)
(* read; requests overlap.  The administrator's sessions work alike, with  *)
(* a second, short token for what cannot be undone.                        *)
(***************************************************************************)
EXTENDS Naturals, FiniteSets

CONSTANTS
    Accounts, Admin, Nobody,
    Emails, NoEmail,    \* an e-mail also stands for its Google user
    Requests,           \* requests that may overlap
    MaxVersion          \* bound on token versions, and on passwords

ASSUME SessionsConstants ==
    /\ Admin \notin Accounts /\ Nobody \notin Accounts \cup {Admin}
    /\ NoEmail \notin Emails /\ MaxVersion \in Nat \ {0}

VARIABLES
    account,     \* users, and brokers' status as `role`
    version,     \* token_version of users and of the administrator
    password,    \* which password an account has; 0 is none
    tokens,      \* every token that was signed
    ended,       \* tokens that a logout, a reset or a rejection ended
    confirmed,   \* addresses somebody confirmed, by a code or with Google
    told,        \* addresses somebody was told to be verified already
    request      \* request -> where it is

vars == <<account, version, password, tokens, ended, confirmed, told, request>>

-----------------------------------------------------------------------------
Principals == Accounts \cup {Admin}
Role == {"client", "broker", "rejected", "admin"}
Account == [email : Emails \cup {NoEmail}, uid : Emails \cup {NoEmail},
            verified : BOOLEAN, role : {"client", "broker", "rejected"}]
NoAccount == [email |-> NoEmail, uid |-> NoEmail, verified |-> FALSE, role |-> "client"]

Token == [who : Principals, version : 1 .. MaxVersion, password : 0 .. MaxVersion,
          role : Role, kind : {"session", "reauth"}]
\* `version`, `password` and `role` are what the request read.
Request == [phase : {"idle", "login", "google", "firebase", "reauth", "profile"},
            who : Principals \cup {Nobody}, version : 1 .. MaxVersion, password : 0 .. MaxVersion,
            role : Role, email : Emails \cup {NoEmail}]
Idle == [phase |-> "idle", who |-> Nobody, version |-> 1, password |-> 0,
         role |-> "client", email |-> NoEmail]

Exists(a) == account[a].email # NoEmail
Taken(e, a) == \E b \in Accounts \ {a} : account[b].email = e
RoleOf(p) == IF p = Admin THEN "admin" ELSE account[p].role
\* login and google take a rejected broker for a client.
LoginRole(p) == IF RoleOf(p) = "rejected" THEN "client" ELSE RoleOf(p)

Move(r, state) == request' = [request EXCEPT ![r] = state]
Done(r) == Move(r, Idle)
Reading(phase, p, e, pw, role) ==
    [phase |-> phase, who |-> p, version |-> version[p], password |-> pw, role |-> role, email |-> e]

\* validateUserSession, validateAdminAccount: the version of the row counts.
Valid(t) == t.version = version[t.who]
\* authMiddleware turns a broker's token down when the broker is rejected.
Accepted(t) ==
    /\ Valid(t) /\ t.kind = "session"
    /\ t.who \in Accounts => Exists(t.who)
    /\ ~(t.role = "broker" /\ RoleOf(t.who) = "rejected")
SignedIn(p) == \E t \in tokens : t.who = p /\ Accepted(t)

\* Ends every session of a user or of the administrator.
Revoke(p) ==
    /\ version[p] < MaxVersion
    /\ version' = [version EXCEPT ![p] = @ + 1]
    /\ ended' = ended \cup {t \in tokens : t.who = p}

-----------------------------------------------------------------------------
(* Logins.                                                                 *)

BeginLogin(r, p) ==
    /\ request[r].phase = "idle"
    /\ password[p] > 0
    /\ Move(r, Reading("login", p, NoEmail, password[p], LoginRole(p)))
    /\ UNCHANGED <<account, version, password, tokens, ended, confirmed, told>>

\* Faulty variant: the row is read again for its version.
SignFresh(r, kind) ==
    tokens' = tokens \cup {[who |-> request[r].who, version |-> version[request[r].who],
        password |-> request[r].password, role |-> request[r].role, kind |-> kind]}

Sign(r, kind) ==
    tokens' = tokens \cup {[who |-> request[r].who, version |-> request[r].version,
        password |-> request[r].password, role |-> request[r].role, kind |-> kind]}

\* The password that was typed is the one of the row that was read.
Login(r) ==
    /\ request[r].phase = "login"
    /\ Sign(r, "session")
    /\ Done(r)
    /\ UNCHANGED <<account, version, password, ended, confirmed, told>>

\* The row of the Google user or of the address: one of them, if both exist.
BeginGoogle(r, e, a) ==
    /\ request[r].phase = "idle" /\ Exists(a)
    /\ account[a].uid = e \/ account[a].email = e
    /\ Move(r, Reading("google", a, e, 0, LoginRole(a)))
    /\ UNCHANGED <<account, version, password, tokens, ended, confirmed, told>>

\* The Google user is attached to an account that has none, and the account
\* is verified.
Google(r) ==
    LET a == request[r].who
        e == request[r].email
        attach == account[a].uid = NoEmail
    IN /\ request[r].phase = "google"
       /\ Done(r)
       /\ confirmed' = confirmed \cup {e}
       /\ IF attach /\ \E b \in Accounts : account[b].uid = e
          THEN UNCHANGED <<account, tokens>>
          ELSE /\ account' = [account EXCEPT ![a].uid = IF attach THEN e ELSE @,
                                             ![a].verified = TRUE]
               /\ Sign(r, "session")
       /\ UNCHANGED <<version, password, ended, told>>

\* firebaseLogin: a broker's row makes a broker, whatever its status.
BeginFirebase(r, e, a) ==
    /\ request[r].phase = "idle" /\ Exists(a)
    /\ account[a].uid = e \/ account[a].email = e
    /\ Move(r, Reading("firebase", a, e, 0,
                       IF account[a].role = "client" THEN "client" ELSE "broker"))
    /\ UNCHANGED <<account, version, password, tokens, ended, confirmed, told>>

\* The account takes over the address of the Google user; the unique keys may
\* refuse it.
Firebase(r) ==
    LET a == request[r].who
        e == request[r].email
        attach == account[a].uid = NoEmail
    IN /\ request[r].phase = "firebase"
       /\ Done(r)
       /\ IF Taken(e, a) \/ (attach /\ \E b \in Accounts : account[b].uid = e)
          THEN UNCHANGED <<account, tokens>>
          ELSE /\ account' = [account EXCEPT ![a].uid = IF attach THEN e ELSE @, ![a].email = e]
               /\ Sign(r, "session")
       /\ UNCHANGED <<version, password, ended, confirmed, told>>

\* ... or makes an account of its own; version and role are the defaults.
FirebaseRegister(e, a) ==
    /\ ~Exists(a) /\ \A b \in Accounts : account[b].uid # e /\ account[b].email # e
    /\ account' = [account EXCEPT ![a] = [NoAccount EXCEPT !.email = e, !.uid = e]]
    /\ tokens' = tokens \cup {[who |-> a, version |-> 1, password |-> 0,
                               role |-> "client", kind |-> "session"]}
    /\ UNCHANGED <<version, password, ended, confirmed, told, request>>

\* A second token, for what cannot be undone.
BeginReauth(r) ==
    /\ request[r].phase = "idle" /\ SignedIn(Admin)
    /\ Move(r, Reading("reauth", Admin, NoEmail, password[Admin], "admin"))
    /\ UNCHANGED <<account, version, password, tokens, ended, confirmed, told>>

Reauth(r) ==
    /\ request[r].phase = "reauth"
    /\ Sign(r, "reauth")
    /\ Done(r)
    /\ UNCHANGED <<account, version, password, ended, confirmed, told>>

-----------------------------------------------------------------------------
(* The end of sessions.                                                    *)

\* Faulty variant: the token is forgotten, the version stays.
LogoutOnly(p) ==
    /\ SignedIn(p)
    /\ ended' = ended \cup {t \in tokens : t.who = p}
    /\ UNCHANGED <<account, version, password, tokens, confirmed, told, request>>

Logout(p) ==
    /\ SignedIn(p)
    /\ Revoke(p)
    /\ UNCHANGED <<account, password, tokens, confirmed, told, request>>

\* confirmPasswordReset: password and version in one UPDATE.
ResetPassword(a) ==
    /\ Exists(a) /\ password[a] > 0 /\ password[a] < MaxVersion
    /\ password' = [password EXCEPT ![a] = @ + 1]
    /\ Revoke(a)
    /\ UNCHANGED <<account, tokens, confirmed, told, request>>

RejectBroker(a) ==
    /\ account[a].role # "client"
    /\ account' = [account EXCEPT ![a].role = "rejected"]
    /\ Revoke(a)
    /\ UNCHANGED <<password, tokens, confirmed, told, request>>

\* By an administrator, or asked for: the sessions go on.
BecomeBroker(a) ==
    /\ Exists(a) /\ account[a].role # "broker"
    /\ account' = [account EXCEPT ![a].role = "broker"]
    /\ UNCHANGED <<version, password, tokens, ended, confirmed, told, request>>

\* The destructive routes ask for both tokens.  The user's row goes.
DeleteUser(a) ==
    /\ SignedIn(Admin) /\ \E t \in tokens : t.who = Admin /\ t.kind = "reauth" /\ Valid(t)
    /\ Exists(a) /\ \A r \in Requests : request[r].who # a
    /\ tokens' = {t \in tokens : t.who # a} /\ ended' = {t \in ended : t.who # a}
    /\ account' = [account EXCEPT ![a] = NoAccount]
    /\ version' = [version EXCEPT ![a] = 1]
    /\ password' = [password EXCEPT ![a] = 0]
    /\ UNCHANGED <<confirmed, told, request>>

-----------------------------------------------------------------------------
(* Addresses.                                                              *)

\* updateProfile, and the administrator's edits of clients and brokers.
BeginUpdateProfile(r, a, e) ==
    /\ request[r].phase = "idle" /\ Exists(a)
    /\ ~Taken(e, a)
    /\ Move(r, Reading("profile", a, e, password[a], LoginRole(a)))
    /\ UNCHANGED <<account, version, password, tokens, ended, confirmed, told>>

\* The unique key may still refuse it; email_verified_at stays as it is.
UpdateProfile(r) ==
    LET a == request[r].who
        e == request[r].email
    IN /\ request[r].phase = "profile"
       /\ account' = IF Taken(e, a) THEN account ELSE [account EXCEPT ![a].email = e]
       /\ Done(r)
       /\ UNCHANGED <<version, password, tokens, ended, confirmed, told>>

\* The right code for an address verifies the account that has it.
ConfirmEmail(a) ==
    /\ Exists(a) /\ ~account[a].verified
    /\ account' = [account EXCEPT ![a].verified = TRUE]
    /\ confirmed' = confirmed \cup {account[a].email}
    /\ UNCHANGED <<version, password, tokens, ended, told, request>>

\* sendEmailVerification answers already_verified without a code.
AnswerAlreadyVerified(a) ==
    /\ Exists(a) /\ account[a].verified
    /\ told' = told \cup {account[a].email}
    /\ UNCHANGED <<account, version, password, tokens, ended, confirmed, request>>

-----------------------------------------------------------------------------
\* One account has a password; the other accounts do not exist.
Init ==
    /\ \E a \in Accounts, e \in Emails :
          /\ account = [b \in Accounts |-> IF b = a THEN [NoAccount EXCEPT !.email = e] ELSE NoAccount]
          /\ password = [p \in Principals |-> IF p \in {a, Admin} THEN 1 ELSE 0]
    /\ version = [p \in Principals |-> 1]
    /\ tokens = {} /\ ended = {} /\ confirmed = {} /\ told = {}
    /\ request = [r \in Requests |-> Idle]

LoginStep(r) ==
    \/ \E p \in Principals : BeginLogin(r, p)
    \/ Login(r)
    \/ \E a \in Accounts, e \in Emails : BeginGoogle(r, e, a) \/ BeginFirebase(r, e, a)
    \/ Google(r) \/ Firebase(r)
    \/ BeginReauth(r) \/ Reauth(r)

AccountStep(a) ==
    \/ ResetPassword(a) \/ RejectBroker(a) \/ BecomeBroker(a) \/ DeleteUser(a)
    \/ ConfirmEmail(a) \/ AnswerAlreadyVerified(a)
    \/ \E e \in Emails : FirebaseRegister(e, a)

Next ==
    \/ \E r \in Requests :
          LoginStep(r) \/ UpdateProfile(r)
            \/ \E a \in Accounts, e \in Emails : BeginUpdateProfile(r, a, e)
    \/ \E a \in Accounts : AccountStep(a)
    \/ \E p \in Principals : Logout(p)

Spec == Init /\ [][Next]_vars

-----------------------------------------------------------------------------
TypeOK ==
    /\ account \in [Accounts -> Account]
    /\ version \in [Principals -> 1 .. MaxVersion]
    /\ password \in [Principals -> 0 .. MaxVersion]
    /\ tokens \subseteq Token /\ ended \subseteq Token
    /\ confirmed \subseteq Emails /\ told \subseteq Emails
    /\ request \in [Requests -> Request]

\* A session that began with a password ends with it: a login that compared
\* the old password while it was being reset signs nothing that is accepted.
SessionHasPassword ==
    \A t \in tokens : Valid(t) /\ t.password > 0 => t.password = password[t.who]

\* A session that a logout, a reset or a rejection ended stays ended, and so
\* does the administrator's second token.
EndedStaysEnded == \A t \in ended : ~Valid(t)

\* A session is one of a password its account still has while it is valid, and
\* one that was ended stays so.
SessionsHold == TypeOK /\ SessionHasPassword /\ EndedStaysEnded

-----------------------------------------------------------------------------
(* What the code says of itself.                                           *)

\* "Voce pode enviar nova solicitacao de corretor pelo app.": a rejected broker
\* who is signed in gets past authMiddleware to do so.
RejectedMayReapply ==
    \A t \in tokens : Valid(t) /\ t.kind = "session" /\ RoleOf(t.who) = "rejected" => Accepted(t)

\* "Rota exclusiva para clientes.": isClient lets nobody by who is a broker.
ClientRoutesServeClients ==
    \A t \in tokens : Accepted(t) /\ t.role = "client" => RoleOf(t.who) # "broker"

\* 'already_verified' is answered for addresses that were verified.
VerifiedIsConfirmed == told \subseteq confirmed
=============================================================================
