---------------------------- MODULE SchemaStartup ----------------------------
(***************************************************************************)
(* The start of the server (server.ts): applyMigrations adds the columns   *)
(* that are missing, then runSqlMigrations("up") runs the SQL files that   *)
(* are not in schema_migrations, then the server listens.                  *)
(*                                                                         *)
(* applyMigrations asks, column by column, whether it is there and alters  *)
(* the table if not; an error ends it and is logged.  A file's statements  *)
(* are run one by one, each committing by itself, and the file is recorded *)
(* after them; an error ends the process.  Nothing keeps two processes     *)
(* apart.  "migrate:down" runs the Down statements of a file, the last one *)
(* unless it is named, and deletes its record.                             *)
(***************************************************************************)
EXTENDS Naturals, Sequences, Functions

CONSTANTS Processes,    \* servers and runs of the tool
          Columns,
          EnsureOrder,  \* the columns applyMigrations adds, in its order
          FileOrder,    \* the SQL files, by name
          Adds,         \* Adds[f]: the columns file f adds, a statement each
          Guarded,      \* files that say IF NOT EXISTS and IF EXISTS
          MaxFailures,  \* bound: failing statements and crashes
          MaxRollbacks  \* bound: runs of migrate:down

Files == Range(FileOrder)

ASSUME SchemaAssumption ==
  /\ EnsureOrder \in Seq(Columns) /\ FileOrder \in Seq(Files)
  /\ Adds \in [Files -> Seq(Columns) \ {<<>>}]
  /\ Guarded \subseteq Files
  /\ MaxFailures \in Nat /\ MaxRollbacks \in Nat

VARIABLES columns,      \* columns that exist
          recorded,     \* the files in schema_migrations
          proc,         \* where each process is
          cause,        \* processes that met a fault or ran beside another
          undone,       \* files that a rollback began to undo
          failures, rollbacks

schemaVars == <<columns, recorded, proc, cause, undone, failures, rollbacks>>

Halted == {"stopped", "exited"}
Stages == Halted \cup {"checking", "altering", "reading", "running", "recording",
                       "serving", "undoing", "unrecording"}

\* Process i at place p, at column or statement k, with these files left.
State(p, k, pending) == [at |-> p, k |-> k, pending |-> pending]

Migrates(i) == proc[i].at \notin Halted \cup {"serving"}

SchemaInit ==
  /\ columns = {} /\ recorded = {}
  /\ proc = [i \in Processes |-> State("stopped", 1, {})]
  /\ cause = {} /\ undone = {}
  /\ failures = 0 /\ rollbacks = 0

Becomes(i, state) == proc' = [proc EXCEPT ![i] = state]
MovesTo(i, p, k) == Becomes(i, State(p, k, proc[i].pending))
GoesTo(i, p) == MovesTo(i, p, proc[i].k)

\* A process begins: whatever migrates at the same time has it as a cause.
Begin(i, state) ==
  /\ proc[i].at \in Halted
  /\ Becomes(i, state)
  /\ LET others == {j \in Processes \ {i} : Migrates(j)} IN
     cause' = IF others = {} THEN cause \ {i} ELSE cause \cup others \cup {i}

-----------------------------------------------------------------------------
(* applyMigrations. *)

StartServer(i) ==
  /\ Begin(i, State("checking", 1, {}))
  /\ UNCHANGED <<columns, recorded, undone, failures, rollbacks>>

\* Faulty variant: a column that is there ends the whole function.
CheckOrReturn(i) ==
  LET k == proc[i].k IN
  /\ proc[i].at = "checking"
  /\ IF k > Len(EnsureOrder) \/ EnsureOrder[k] \in columns
       THEN GoesTo(i, "reading") ELSE GoesTo(i, "altering")
  /\ UNCHANGED <<columns, recorded, cause, undone, failures, rollbacks>>

\* columnExists
CheckColumn(i) ==
  LET k == proc[i].k IN
  /\ proc[i].at = "checking"
  /\ \/ k > Len(EnsureOrder) /\ GoesTo(i, "reading")
     \/ k <= Len(EnsureOrder) /\ EnsureOrder[k] \in columns /\ MovesTo(i, "checking", k + 1)
     \/ k <= Len(EnsureOrder) /\ EnsureOrder[k] \notin columns /\ GoesTo(i, "altering")
  /\ UNCHANGED <<columns, recorded, cause, undone, failures, rollbacks>>

\* ALTER TABLE ... ADD COLUMN: a column added in between is an error, which
\* ends applyMigrations with what is left of it undone.
AddColumn(i) ==
  LET k == proc[i].k
      c == EnsureOrder[k] IN
  /\ proc[i].at = "altering"
  /\ IF c \in columns THEN GoesTo(i, "reading") ELSE MovesTo(i, "checking", k + 1)
  /\ columns' = columns \cup {c}
  /\ UNCHANGED <<recorded, cause, undone, failures, rollbacks>>

-----------------------------------------------------------------------------
(* applyUpMigrations. *)

\* Where a process goes with these files left.
Rest(pending) == State(IF pending = {} THEN "serving" ELSE "running", 1, pending)

\* File f comes first, by name, of those that are left to process i.
IsNext(i, f) ==
  /\ f \in proc[i].pending
  /\ \E n \in DOMAIN FileOrder :
        FileOrder[n] = f /\ \A m \in 1 .. n - 1 : FileOrder[m] \notin proc[i].pending

\* Faulty variant: every file is pending at each start.
ReadNothing(i) ==
  /\ proc[i].at = "reading"
  /\ Becomes(i, Rest(Files))
  /\ UNCHANGED <<columns, recorded, cause, undone, failures, rollbacks>>

\* The files that are not in schema_migrations when the process reads it.
ReadRecorded(i) ==
  /\ proc[i].at = "reading"
  /\ Becomes(i, Rest(Files \ recorded))
  /\ UNCHANGED <<columns, recorded, cause, undone, failures, rollbacks>>

\* Faulty variant: the loop goes on after a failing file.
ExitOrNext(i) ==
  IF proc[i].at \in {"running", "recording"}
    THEN Becomes(i, Rest({f \in proc[i].pending : ~IsNext(i, f)}))
    ELSE GoesTo(i, "exited")

\* The error reaches startServer's catch: process.exit(1).
ExitInError(i) == GoesTo(i, "exited")

\* Faulty variant: the file is cut after its first statement.
RunFirstStatement(i, f) ==
  LET c == Adds[f][1] IN
  /\ proc[i].at = "running" /\ IsNext(i, f)
  /\ IF c \in columns /\ f \notin Guarded THEN ExitInError(i) ELSE GoesTo(i, "recording")
  /\ columns' = columns \cup {c}
  /\ UNCHANGED <<recorded, cause, undone, failures, rollbacks>>

\* One statement of the first pending file.
RunStatement(i, f) ==
  LET k == proc[i].k
      c == Adds[f][k] IN
  /\ proc[i].at = "running" /\ IsNext(i, f)
  /\ IF c \in columns /\ f \notin Guarded THEN ExitInError(i)
     ELSE MovesTo(i, IF k = Len(Adds[f]) THEN "recording" ELSE "running", k + 1)
  /\ columns' = columns \cup {c}
  /\ UNCHANGED <<recorded, cause, undone, failures, rollbacks>>

\* INSERT INTO schema_migrations, whose names are unique.
Record(i, f) ==
  /\ proc[i].at = "recording" /\ IsNext(i, f)
  /\ IF f \in recorded THEN ExitInError(i) ELSE Becomes(i, Rest(proc[i].pending \ {f}))
  /\ recorded' = recorded \cup {f}
  /\ UNCHANGED <<columns, cause, undone, failures, rollbacks>>

-----------------------------------------------------------------------------
(* applyDownMigration, stops and faults. *)

\* A file that is recorded is undone, its statements in reverse.
Rollback(i, f) ==
  /\ rollbacks < MaxRollbacks /\ f \in recorded
  /\ Begin(i, State("undoing", Len(Adds[f]), {f}))
  /\ undone' = undone \cup {f}
  /\ rollbacks' = rollbacks + 1
  /\ UNCHANGED <<columns, recorded, failures>>

UndoStatement(i, f) ==
  LET k == proc[i].k
      c == Adds[f][k] IN
  /\ proc[i].at = "undoing" /\ f \in proc[i].pending
  /\ IF c \notin columns /\ f \notin Guarded THEN ExitInError(i)
     ELSE MovesTo(i, IF k = 1 THEN "unrecording" ELSE "undoing", k - 1)
  /\ columns' = columns \ {c}
  /\ UNCHANGED <<recorded, cause, undone, failures, rollbacks>>

Unrecord(i, f) ==
  /\ proc[i].at = "unrecording" /\ f \in proc[i].pending
  /\ recorded' = recorded \ {f}
  /\ GoesTo(i, "stopped")
  /\ UNCHANGED <<columns, cause, undone, failures, rollbacks>>

\* A statement fails: applyMigrations logs it, the other two end the process.
StartFails(i) ==
  /\ failures < MaxFailures /\ Migrates(i)
  /\ IF proc[i].at \in {"checking", "altering"} THEN GoesTo(i, "reading") ELSE ExitInError(i)
  /\ cause' = cause \cup {i}
  /\ failures' = failures + 1
  /\ UNCHANGED <<columns, recorded, undone, rollbacks>>

ProcessDies(i) ==
  /\ failures < MaxFailures /\ Migrates(i)
  /\ GoesTo(i, "exited")
  /\ cause' = cause \cup {i}
  /\ failures' = failures + 1
  /\ UNCHANGED <<columns, recorded, undone, rollbacks>>

Stop(i) ==
  /\ proc[i].at = "serving"
  /\ GoesTo(i, "stopped")
  /\ UNCHANGED <<columns, recorded, cause, undone, failures, rollbacks>>

SchemaNext ==
  \E i \in Processes :
    \/ StartServer(i) \/ CheckColumn(i) \/ AddColumn(i) \/ ReadRecorded(i)
    \/ \E f \in Files : RunStatement(i, f) \/ Record(i, f)
    \/ \E f \in Files : Rollback(i, f) \/ UndoStatement(i, f) \/ Unrecord(i, f)
    \/ StartFails(i) \/ ProcessDies(i) \/ Stop(i)

SchemaSpec == SchemaInit /\ [][SchemaNext]_schemaVars

-----------------------------------------------------------------------------
(* Properties. *)

SchemaTypes ==
  /\ columns \subseteq Columns /\ recorded \subseteq Files
  /\ proc \in [Processes -> [at : Stages, k : Nat, pending : SUBSET Files]]
  /\ cause \subseteq Processes /\ undone \subseteq Files
  /\ failures \in 0 .. MaxFailures /\ rollbacks \in 0 .. MaxRollbacks

\* The columns of the files that a rollback began to undo.
Undoing == UNION {Range(Adds[f]) : f \in undone}

\* A file that is recorded has all its columns, whatever crashed or ran beside
\* it, but for those of a rollback.
RecordedIsApplied ==
  \A f \in recorded : Range(Adds[f]) \subseteq columns \cup Undoing

\* A server listens once every file was run and recorded.
ServingIsMigrated ==
  (\E i \in Processes : proc[i].at = "serving") => Files \subseteq recorded \cup undone

\* A server that met no fault and started alone has every column that
\* applyMigrations adds, but for those of a rollback.
ServingIsEnsured ==
  \A i \in Processes \ cause :
    proc[i].at = "serving" => Range(EnsureOrder) \subseteq columns \cup Undoing

\* The start ends in an error only where a statement failed, the process crashed
\* or another one was migrating: a file that an earlier start left half run, or
\* whose columns applyMigrations added, is run again.
\* (scripts/migrations/20260614_001_property_area_model.sql:2: the columns are
\* made "de forma idempotente no bootstrap da aplicação".)
ExitsHaveACause == \A i \in Processes : proc[i].at = "exited" => i \in cause

\* A recorded file has all its columns, unless a rollback began to undo them
\* (runMigrationFile); a server listens once every file was run
\* (runSqlMigrations), with every column that applyMigrations adds when it met no
\* fault and started alone; and only a failing statement, a crash or another
\* process ends a start in an error, when every file says IF NOT EXISTS.
SchemaHolds ==
  /\ SchemaTypes
  /\ RecordedIsApplied
  /\ ServingIsMigrated
  /\ ServingIsEnsured
  /\ Guarded = Files => ExitsHaveACause

\* A start that finds nothing pending finds every file applied.
\* (migrationRunner.ts:221: "Nenhuma migration pendente.")
NothingPendingIsApplied ==
  (\E i \in Processes : proc[i].at = "serving") =>
    \A f \in recorded : Range(Adds[f]) \subseteq columns
=============================================================================
