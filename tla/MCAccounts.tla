------------------------------ MODULE MCAccounts ------------------------------
(* Sessions and codes by e-mail, which this module extends.  A behaviour of    *)
(* this module is one of the component `focus` names; the other stays where it *)
(* starts.                                                                     *)
EXTENDS Sessions, EmailCodes, TLC

CONSTANTS s1, s2, s3, r1, r2      \* challenges and requests

VARIABLE focus

Start == focus \in {"codes", "sessions"} /\ Init /\ CodesInit

CodesStep == focus = "codes" /\ CodesNext /\ UNCHANGED <<focus, vars>>
SessionStep == focus = "sessions" /\ Next /\ UNCHANGED <<focus, codesVars>>

AccountsSpec == Start /\ [][CodesStep \/ SessionStep]_<<focus, codesVars, vars>>

\* Challenges, and requests, differ in nothing.
Symmetric == Permutations(Slots) \cup Permutations(CodeRequests)
===============================================================================
