--------------------------- MODULE MCRegistrations ---------------------------
(* Registrations, which this module extends, and brokers.  A behaviour of this *)
(* module is one of the component `focus` names; the other stays where it      *)
(* starts.                                                                     *)
EXTENDS Registration, Brokers, TLC

CONSTANTS
    e1, e2, d1, d2, f1, r1, r2,
    u1, u2, l1, g1, g2    \* of brokers

VARIABLE focus

\* One request at a time, which may stop: two drafts of one address.
Reopened == [requests |-> {r1}, emails |-> {e1}, drafts |-> {d1, d2}, files |-> {f1}, stops |-> 1]

\* Two requests overlap on a draft without papers and two addresses.
Rivals == [requests |-> {r1, r2}, emails |-> {e1, e2}, drafts |-> {d1}, files |-> {}, stops |-> 0]

WaysToRegister == {Reopened, Rivals}

\* One request at a time, with two accounts and two files; two requests that
\* overlap on one account, and may stop.
Applicants ==
    {[requests |-> {r1}, users |-> {u1, u2}, files |-> {g1, g2}, crashes |-> 0],
     [requests |-> {r1, r2}, users |-> {u1}, files |-> {g1}, crashes |-> 1]}

RegistrationsAside == DraftsInit /\ draftLoad = Reopened
BrokersAside == BrokersInit /\ brokerLoad.crashes = 0

Init ==
    \/ focus = "registration" /\ DraftsInit /\ BrokersAside
    \/ focus = "brokers" /\ RegistrationsAside /\ BrokersInit

RegistrationStep == focus = "registration" /\ DraftsNext /\ UNCHANGED <<focus, brokerVars>>
BrokersStep == focus = "brokers" /\ BrokersNext /\ UNCHANGED <<focus, draftVars>>

Next == RegistrationStep \/ BrokersStep

Spec == Init /\ [][Next]_<<focus, draftVars, brokerVars>>

\* Requests, and drafts, differ in nothing.
Symmetric == Permutations({d1, d2}) \cup Permutations({r1, r2})
=============================================================================
