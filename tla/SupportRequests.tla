--------------------------- MODULE SupportRequests ---------------------------
(***************************************************************************)
(* A client's requests to be contacted (UserController.requestSupport): at *)
(* most one in 24 hours.  A request reads the last row of support_requests,*)
(* inserts its own, reads the client and notifies the administrators, each *)
(* in a statement of its own.                                              *)
(***************************************************************************)
EXTENDS Integers, FiniteSets

CONSTANTS Requests,     \* requests of one client
          AtOnce,       \* requests of it that may overlap
          MaxDays       \* bound: days that go by

ASSUME SupportAssumption == IsFiniteSet(Requests) /\ AtOnce \in Nat \ {0} /\ MaxDays \in Nat

VARIABLES rows,         \* requests whose row is less than 24 hours old
          sent,         \* requests that reached the administrators in that time
          ask,          \* where each request is
          days

supportVars == <<rows, sent, ask, days>>

Asking == {"allowed", "recorded"}
Answers == {"sent", "refused", "failed"}

SupportInit ==
  /\ rows = {} /\ sent = {} /\ days = 0
  /\ ask = [q \in Requests |-> "idle"]

\* evaluateSupportRequestCooldown of the last row.
AskSupport(q) ==
  /\ ask[q] = "idle"
  /\ Cardinality({p \in Requests : ask[p] \in Asking}) < AtOnce
  /\ ask' = [ask EXCEPT ![q] = IF rows = {} THEN "allowed" ELSE "refused"]
  /\ UNCHANGED <<rows, sent, days>>

\* Faulty variant: nothing is recorded before the notification is sent.
RecordNothing(q) ==
  /\ ask[q] = "allowed"
  /\ ask' = [ask EXCEPT ![q] = "recorded"]
  /\ UNCHANGED <<rows, sent, days>>

RecordRequest(q) ==
  /\ ask[q] = "allowed"
  /\ rows' = rows \cup {q}
  /\ ask' = [ask EXCEPT ![q] = "recorded"]
  /\ UNCHANGED <<sent, days>>

\* createAdminNotification, and the answer 201.
NotifyAdmins(q) ==
  /\ ask[q] = "recorded"
  /\ sent' = sent \cup {q}
  /\ ask' = [ask EXCEPT ![q] = "sent"]
  /\ UNCHANGED <<rows, days>>

\* Any statement fails: the answer is 500, what was inserted stays.
RequestFails(q) ==
  /\ ask[q] \in Asking
  /\ ask' = [ask EXCEPT ![q] = "failed"]
  /\ UNCHANGED <<rows, sent, days>>

\* The client asks again.
AskAgain(q) ==
  /\ ask[q] \in Answers
  /\ q \notin rows \cup sent
  /\ ask' = [ask EXCEPT ![q] = "idle"]
  /\ UNCHANGED <<rows, sent, days>>

\* 24 hours go by, longer than any request runs.
NextDay ==
  /\ days < MaxDays
  /\ \A q \in Requests : ask[q] \notin Asking
  /\ rows' = {} /\ sent' = {}
  /\ ask' = [q \in Requests |-> "idle"]
  /\ days' = days + 1

SupportNext ==
  \/ \E q \in Requests :
       AskSupport(q) \/ RecordRequest(q) \/ NotifyAdmins(q) \/ RequestFails(q) \/ AskAgain(q)
  \/ NextDay

SupportSpec == SupportInit /\ [][SupportNext]_supportVars

-----------------------------------------------------------------------------
\* The administrators receive at most as many requests of a client in 24 hours
\* as it made at once: one, when it waits for the answer of each.
OneADay == Cardinality(sent) <= AtOnce

\* A request is refused because another was sent in the last 24 hours.
\* (UserController.ts:1395: "Voce ja enviou uma solicitacao nas ultimas 24 horas.")
RefusedWasSent == (\E q \in Requests : ask[q] = "refused") => sent # {}
=============================================================================
