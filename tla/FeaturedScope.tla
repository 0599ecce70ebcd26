---------------------------- MODULE FeaturedScope ----------------------------
(***************************************************************************)
(* runFeaturedPropertiesScopeMigration (database/migrations.ts): the table *)
(* of featured listings of an old installation, keyed by listing, gets the *)
(* column `scope` and the key (property_id, scope).  The function is called*)
(* when the server starts and before every list of featured listings, so   *)
(* that several calls may run at once.  Each ALTER TABLE commits by itself;*)
(* an error in the first sequence leads to a second, the repair, whose     *)
(* errors are logged.                                                      *)
(***************************************************************************)
EXTENDS Naturals

CONSTANTS Calls,
          MaxFaults     \* bound: statements that fail, and crashes

ASSUME FeaturedAssumption == MaxFaults \in Nat

VARIABLES table,        \* keys and columns of featured_properties
          at,           \* where each call is
          disturbed,    \* a statement failed, the server crashed, or calls overlapped
          faults

vars == <<table, at, disturbed, faults>>

Migrating == {"dropUnique", "dropKey", "addScope", "addKey", "addUnique"}
Repairing == {"repairScope", "repairKey", "repairUnique"}
Ended == {"idle", "returned", "warned", "gone"}

Legacy   == [scope |-> FALSE, key |-> "property", spare |-> FALSE, oldUnique |-> TRUE, unique |-> FALSE]
Complete == [scope |-> TRUE, key |-> "both", spare |-> FALSE, oldUnique |-> FALSE, unique |-> TRUE]

Init ==
  /\ table \in {Legacy, [Legacy EXCEPT !.oldUnique = FALSE]}
  /\ at = [c \in Calls |-> "idle"]
  /\ disturbed = FALSE /\ faults = 0

Goto(c, p) == at' = [at EXCEPT ![c] = p]

\* A call begins, with the column looked for.
Call(c) ==
  /\ at[c] \in Ended
  /\ Goto(c, IF table.scope THEN "returned" ELSE "dropUnique")
  /\ disturbed' = (disturbed \/ \E o \in Calls \ {c} : at[o] \notin Ended)
  /\ UNCHANGED <<table, faults>>

\* A statement on the table, which may be refused: then the call goes to `else`.
Alter(c, here, possible, result, next, else) ==
  /\ at[c] = here
  /\ \/ possible /\ table' = result /\ Goto(c, next)
     \/ ~possible /\ UNCHANGED table /\ Goto(c, else)
  /\ UNCHANGED <<disturbed, faults>>

\* The unique index of position goes, whatever its name; errors are ignored.
DropUnique(c) ==
  Alter(c, "dropUnique", table.oldUnique, [table EXCEPT !.oldUnique = FALSE], "dropKey", "dropKey")

\* DROP PRIMARY KEY, ADD KEY idx_featured_property_fk
DropKey(c) ==
  Alter(c, "dropKey", table.key # "none" /\ ~table.spare,
        [table EXCEPT !.key = "none", !.spare = TRUE], "addScope", "repairScope")

AddScope(c) ==
  Alter(c, "addScope", ~table.scope, [table EXCEPT !.scope = TRUE], "addKey", "repairScope")

\* Faulty variant: the new key is forgotten with the spare index.
DropSpare(c) ==
  Alter(c, "addKey", table.spare, [table EXCEPT !.spare = FALSE], "addUnique", "repairScope")

\* DROP INDEX idx_featured_property_fk, ADD PRIMARY KEY (property_id, scope)
AddKey(c) ==
  Alter(c, "addKey", table.spare /\ table.key = "none",
        [table EXCEPT !.spare = FALSE, !.key = "both"], "addUnique", "repairScope")

AddUnique(c) ==
  Alter(c, "addUnique", table.scope /\ ~table.unique,
        [table EXCEPT !.unique = TRUE], "check", "check")

RepairScope(c) ==
  Alter(c, "repairScope", ~table.scope, [table EXCEPT !.scope = TRUE], "repairKey", "repairKey")

\* DROP PRIMARY KEY, ADD PRIMARY KEY (property_id, scope): refused without a key.
RepairKey(c) ==
  Alter(c, "repairKey", table.scope /\ table.key # "none",
        [table EXCEPT !.key = "both"], "repairUnique", "repairUnique")

RepairUnique(c) ==
  Alter(c, "repairUnique", table.scope /\ ~table.unique,
        [table EXCEPT !.unique = TRUE], "check", "check")

\* The last look for the column; a warning if it is not there.
Check(c) ==
  /\ at[c] = "check"
  /\ Goto(c, IF table.scope THEN "returned" ELSE "warned")
  /\ UNCHANGED <<table, disturbed, faults>>

\* Where a statement that fails for another reason leaves a call.
AfterError(p) ==
  CASE p = "dropUnique" -> "dropKey"
    [] p \in {"dropKey", "addScope", "addKey"} -> "repairScope"
    [] p = "repairScope" -> "repairKey"
    [] p = "repairKey" -> "repairUnique"
    [] OTHER -> "check"

StatementFails(c) ==
  /\ faults < MaxFaults
  /\ at[c] \in Migrating \cup Repairing
  /\ Goto(c, AfterError(at[c]))
  /\ disturbed' = TRUE
  /\ faults' = faults + 1
  /\ UNCHANGED table

Crash ==
  /\ faults < MaxFaults
  /\ \E c \in Calls : at[c] \notin Ended
  /\ at' = [c \in Calls |-> IF at[c] \in Ended THEN at[c] ELSE "gone"]
  /\ disturbed' = TRUE
  /\ faults' = faults + 1
  /\ UNCHANGED table

Next ==
  \/ \E c \in Calls :
       Call(c) \/ DropUnique(c) \/ DropKey(c) \/ AddScope(c) \/ AddKey(c) \/ AddUnique(c)
         \/ RepairScope(c) \/ RepairKey(c) \/ RepairUnique(c) \/ Check(c) \/ StatementFails(c)
  \/ Crash

Spec == Init /\ [][Next]_vars

-----------------------------------------------------------------------------
\* Once a call has returned and none is running, the table is the new one, its
\* keys included, unless a statement failed, the server crashed or two calls
\* overlapped: calls that follow each other change nothing.
CompleteUnlessDisturbed ==
  ((\E c \in Calls : at[c] = "returned") /\ (\A c \in Calls : at[c] \in Ended) /\ ~disturbed)
    => table = Complete

\* In any case the column is there and the key is (property_id, scope).
\* (migrations.ts:601: "Idempotente: garante a coluna `scope` (e PK composta)",
\* "Pode ser chamada no boot e antes dos endpoints de destaques".)
ReturnedIsKeyed ==
  ((\E c \in Calls : at[c] = "returned") /\ (\A c \in Calls : at[c] \in Ended))
    => table.scope /\ table.key = "both"
=============================================================================
