------------------------------ MODULE MCPlatform ------------------------------
(* The start of the servers, the change of the table of featured listings, the *)
(* notifications and the requests to the support, which this module extends.   *)
(* A behaviour of this module is one of the component `focus` names; the       *)
(* others stay where they start.                                               *)
EXTENDS SchemaStartup, FeaturedScope, Notifications, TLC

CONSTANTS u1, u2

VARIABLE focus

------------------------------------------------------------------------------
\* Two servers: applyMigrations adds a and b, the first file a and c, the second d.
TwoEnsured == <<"a", "b">>
TwoFiles == <<"f1", "f2">>
ColumnsOfFiles == [f \in {"f1", "f2"} |-> IF f = "f1" THEN <<"a", "c">> ELSE <<"d">>]

\* Two users of whom one reads, one dispatch at a time, and a change of role; two
\* dispatches that overlap, on either user.  Of the prices 9 and 10 the fall by a
\* tenth is a drop.
Told(u) == [users |-> {u1, u2}, readers |-> {u}, dispatches |-> {"d1"}, updates |-> 2, changes |-> 1]
Overlap(u) == [users |-> {u}, readers |-> {u}, dispatches |-> {"d1", "d2"}, updates |-> 3, changes |-> 0]
WaysToTell == {Told(u) : u \in {u1, u2}} \cup {Overlap(u) : u \in {u1, u2}}

------------------------------------------------------------------------------
\* Where the components start that a behaviour is not about.
ScopeAside == Init /\ table = Legacy
NoticesAside ==
    /\ NoticesInit /\ noticeLoad \in {Told(u1), Told(u2)} /\ listing.price = 10
    /\ \A u \in Users : bstatus[u] = "none"

PlatformInit ==
    /\ SchemaInit /\ SupportInit
    /\ \/ focus = "scope" /\ Init /\ NoticesAside
       \/ focus \in {"schema", "support"} /\ ScopeAside /\ NoticesAside
       \/ focus = "notices" /\ ScopeAside /\ NoticesInit

ScopeStep == focus = "scope" /\ Next /\ UNCHANGED <<focus, schemaVars, noticeVars, supportVars>>
SchemaStep == focus = "schema" /\ SchemaNext /\ UNCHANGED <<focus, vars, noticeVars, supportVars>>
SupportStep == focus = "support" /\ SupportNext /\ UNCHANGED <<focus, vars, schemaVars, noticeVars>>
NoticesStep == focus = "notices" /\ NoticesNext /\ UNCHANGED <<focus, vars, schemaVars, supportVars>>

AnyStep == ScopeStep \/ SchemaStep \/ SupportStep \/ NoticesStep

PlatformSpec == PlatformInit /\ [][AnyStep]_<<focus, vars, schemaVars, noticeVars, supportVars>>

\* The users differ in nothing: both have marked the listing.
Twins == Permutations({u1, u2})
=============================================================================
