--------------------------- MODULE Platform_proofs ---------------------------
(***************************************************************************)
(* A server that listens is migrated, however many servers and rollbacks   *)
(* run at once: where a process is tells which columns and files it has    *)
(* behind it.  And the change of the featured listings ends with the new   *)
(* table, for any number of calls and of faults: where an undisturbed call *)
(* is tells what the table looks like.                                     *)
(*                                                                         *)
(* Notices: who is about to be told counts as told, so that overlaps of    *)
(* dispatches are all that can tell a user twice; and the place a dispatch *)
(* is at tells whom it has behind it.  Requests to the support: what was   *)
(* sent was let through at once.                                           *)
(***************************************************************************)
EXTENDS SchemaStartup, FeaturedScope, Notifications, SequenceTheorems, FiniteSetTheorems, TLAPS

\* The columns and the files that are there, or that a rollback began to undo.
Has == columns \cup Undoing
Known == recorded \cup undone

\* File f comes first, by name, of the pending ones.
First(pending, f) ==
  /\ f \in pending
  /\ \E n \in DOMAIN FileOrder :
        FileOrder[n] = f /\ \A m \in 1 .. n - 1 : FileOrder[m] \notin pending

\* What a process in state p has behind it, with these columns and files to count
\* on and these files undone.
Sound(p, has, known, gone) ==
  /\ p.at = "checking" => p.k # 0
  /\ p.at = "altering" => p.k \in 1 .. Len(EnsureOrder)
  /\ p.at \in {"running", "recording"} => Files \subseteq known \cup p.pending
  /\ p.at = "running" =>
       \A f \in Files : First(p.pending, f) =>
         p.k \in 1 .. Len(Adds[f]) /\ \A j \in 1 .. p.k - 1 : Adds[f][j] \in has
  /\ p.at = "recording" => \A f \in Files : First(p.pending, f) => Range(Adds[f]) \subseteq has
  /\ p.at = "serving" => Files \subseteq known
  /\ p.at \in {"undoing", "unrecording"} => p.pending \subseteq gone
  /\ p.at = "undoing" => \A f \in p.pending : p.k \in 1 .. Len(Adds[f])

\* What it has besides when it met no fault and ran alone.
Ensured(p, has) ==
  /\ p.at \in {"checking", "altering"} =>
       \A j \in 1 .. Len(EnsureOrder) : j < p.k => EnsureOrder[j] \in has
  /\ p.at \in {"reading", "running", "recording", "serving"} => Range(EnsureOrder) \subseteq has
Undisturbed(p, cols, names) ==
  /\ p.at = "altering" => EnsureOrder[p.k] \notin cols
  /\ p.at \in {"running", "recording"} => p.pending \cap names = {}
  /\ Guarded = Files => p.at # "exited"
Alone(i) == Migrates(i) => \A j \in Processes \ {i} : ~Migrates(j)

Fits(i) ==
  /\ Sound(proc[i], Has, Known, undone)
  /\ i \notin cause =>
       Ensured(proc[i], Has) /\ Undisturbed(proc[i], columns, recorded) /\ Alone(i)

SchemaInv == SchemaTypes /\ RecordedIsApplied /\ \A i \in Processes : Fits(i)

\* What the constants say of a file and of the columns applyMigrations adds.
LEMMA SchemaConstants ==
  /\ EnsureOrder \in Seq(Columns) /\ Len(EnsureOrder) \in Nat
  /\ \A k \in 1 .. Len(EnsureOrder) : EnsureOrder[k] \in Columns
  /\ Range(EnsureOrder) = {EnsureOrder[k] : k \in 1 .. Len(EnsureOrder)}
  /\ \A f \in Files :
       /\ Len(Adds[f]) \in Nat \ {0}
       /\ \A k \in 1 .. Len(Adds[f]) : Adds[f][k] \in Columns
       /\ Range(Adds[f]) = {Adds[f][k] : k \in 1 .. Len(Adds[f])}
<1>1. EnsureOrder \in Seq(Columns) /\ Adds \in [Files -> Seq(Columns) \ {<<>>}]
  BY SchemaAssumption
<1>2. ASSUME NEW s \in Seq(Columns)
      PROVE  /\ Len(s) \in Nat /\ (\A k \in 1 .. Len(s) : s[k] \in Columns)
             /\ Range(s) = {s[k] : k \in 1 .. Len(s)}
             /\ s # <<>> => Len(s) # 0
  <2>1. DOMAIN s = 1 .. Len(s)
    OBVIOUS
  <2>2. Range(s) = {s[k] : k \in 1 .. Len(s)}
    BY <2>1 DEF Range
  <2>3. s # <<>> => Len(s) # 0
    BY EmptySeq
  <2> QED BY <2>2, <2>3
<1>3. \A f \in Files : Adds[f] \in Seq(Columns) /\ Adds[f] # <<>>
  BY <1>1
<1>4. \A f \in Files :
        /\ Len(Adds[f]) \in Nat \ {0}
        /\ \A k \in 1 .. Len(Adds[f]) : Adds[f][k] \in Columns
        /\ Range(Adds[f]) = {Adds[f][k] : k \in 1 .. Len(Adds[f])}
  BY <1>2, <1>3
<1> QED BY <1>1, <1>2, <1>4

\* One file at most comes first.
LEMMA FirstIsOne ==
  ASSUME NEW pending, NEW f, NEW g, First(pending, f), First(pending, g) PROVE f = g
<1>1. FileOrder \in Seq(Files) /\ DOMAIN FileOrder = 1 .. Len(FileOrder)
  <2>1. FileOrder \in Seq(Files)
    BY SchemaAssumption
  <2> QED BY <2>1
<1>2. PICK n \in 1 .. Len(FileOrder) :
        FileOrder[n] = f /\ \A m \in 1 .. n - 1 : FileOrder[m] \notin pending
  BY <1>1 DEF First
<1>3. PICK o \in 1 .. Len(FileOrder) :
        FileOrder[o] = g /\ \A m \in 1 .. o - 1 : FileOrder[m] \notin pending
  BY <1>1 DEF First
<1>4. f \in pending /\ g \in pending
  BY DEF First
<1>5. Len(FileOrder) \in Nat
  BY <1>1
<1>6. ~(n < o) /\ ~(o < n)
  BY <1>2, <1>3, <1>4, <1>5
<1> QED BY <1>2, <1>3, <1>5, <1>6

\* More columns and files do a process no harm.
LEMMA SoundGrows ==
  ASSUME NEW p, NEW h, NEW h2, NEW l, NEW l2, NEW g, NEW g2,
         Sound(p, h, l, g), h \subseteq h2, l \subseteq l2, g \subseteq g2
  PROVE  Sound(p, h2, l2, g2)
BY DEF Sound

LEMMA EnsuredGrows ==
  ASSUME NEW p, NEW h, NEW h2, Ensured(p, h), h \subseteq h2
  PROVE  Ensured(p, h2)
BY DEF Ensured

\* A step of process i disturbs no other one, but those it says it does.
LEMMA OthersFit ==
  ASSUME SchemaInv, NEW i \in Processes, NEW s, proc' = [proc EXCEPT ![i] = s],
         Has \subseteq Has', Known \subseteq Known', undone \subseteq undone',
         cause \ {i} \subseteq cause',
         Migrates(i) \/ (columns' = columns /\ recorded' = recorded),
         ~Migrates(i) => \A j \in Processes \ {i} : Migrates(j) => j \in cause' \/ ~Migrates(i)'
  PROVE  \A j \in Processes \ {i} : Fits(j)'
<1> SUFFICES ASSUME NEW j \in Processes \ {i} PROVE Fits(j)'
  OBVIOUS
<1>1. Fits(j) /\ proc'[j] = proc[j] /\ j \in Processes
  BY DEF SchemaInv, SchemaTypes
<1>2. Sound(proc'[j], Has', Known', undone')
  BY <1>1, SoundGrows DEF Fits
<1>3. ASSUME j \notin cause' PROVE Ensured(proc'[j], Has') /\ Undisturbed(proc'[j], columns', recorded') /\ Alone(j)'
  <2>1. j \notin cause
    BY <1>3
  <2>2. Ensured(proc[j], Has) /\ Undisturbed(proc[j], columns, recorded) /\ Alone(j)
    BY <1>1, <2>1 DEF Fits
  <2>3. Ensured(proc'[j], Has')
    BY <1>1, <2>2, EnsuredGrows
  <2>4. Undisturbed(proc'[j], columns', recorded')
    <3>1. CASE Migrates(i)
      <4>1. ~Migrates(j)
        BY <2>2, <3>1 DEF Alone
      <4> QED BY <1>1, <2>2, <4>1 DEF Undisturbed, Migrates, Halted
    <3>2. CASE columns' = columns /\ recorded' = recorded
      BY <1>1, <2>2, <3>2 DEF Undisturbed
    <3> QED BY <3>1, <3>2
  <2>5. Alone(j)'
    <3> SUFFICES ASSUME Migrates(j)', NEW o \in Processes \ {j} PROVE ~Migrates(o)'
      BY DEF Alone
    <3>1. Migrates(j) /\ ~Migrates(o) /\ ~Migrates(i)
      BY <1>1, <2>2 DEF Alone, Migrates
    <3>2. ~Migrates(i)'
      BY <1>3, <3>1
    <3>3. o # i => proc'[o] = proc[o]
      BY DEF SchemaInv, SchemaTypes
    <3> QED BY <3>1, <3>2, <3>3 DEF Migrates
  <2> QED BY <2>3, <2>4, <2>5
<1> QED BY <1>2, <1>3 DEF Fits

\* Nobody has begun.
LEMMA InitSchema == SchemaInit => SchemaInv
BY SchemaAssumption DEF SchemaInit, SchemaInv, SchemaTypes, RecordedIsApplied, Fits, Sound, Ensured,
   Undisturbed, Alone, Migrates, State, Stages, Halted

\* So a step of process i keeps the invariant if its own place fits.
LEMMA StepKeeps ==
  ASSUME SchemaInv, NEW i \in Processes, NEW s, proc' = [proc EXCEPT ![i] = s],
         Has \subseteq Has', Known \subseteq Known', undone \subseteq undone',
         cause \ {i} \subseteq cause',
         Migrates(i) \/ (columns' = columns /\ recorded' = recorded),
         ~Migrates(i) => \A j \in Processes \ {i} : Migrates(j) => j \in cause' \/ ~Migrates(i)',
         SchemaTypes', RecordedIsApplied', Fits(i)'
  PROVE  SchemaInv'
BY OthersFit DEF SchemaInv

\* Nothing is lost by a step that takes no column and undoes no more.
LEMMA NothingLost ==
  ASSUME columns \subseteq columns', recorded \subseteq recorded', undone \subseteq undone'
  PROVE  Has \subseteq Has' /\ Known \subseteq Known'
BY DEF Has, Known, Undoing

\* The types are kept where the process and what it writes are well formed.
LEMMA TypesKeep ==
  ASSUME SchemaTypes, NEW i \in Processes, NEW p \in Stages, NEW k \in Nat, NEW pending \in SUBSET Files,
         proc' = [proc EXCEPT ![i] = State(p, k, pending)],
         columns' \subseteq Columns, recorded' \subseteq Files, cause' \subseteq Processes,
         undone' \subseteq Files, failures' \in 0 .. MaxFailures, rollbacks' \in 0 .. MaxRollbacks
  PROVE  /\ SchemaTypes' /\ proc'[i].at = p /\ proc'[i].k = k /\ proc'[i].pending = pending
         /\ proc'[i] = State(p, k, pending)
BY DEF SchemaTypes, State

LEMMA MovesType ==
  ASSUME SchemaTypes, NEW i \in Processes
  PROVE  /\ proc[i].at \in Stages /\ proc[i].k \in Nat /\ proc[i].pending \in SUBSET Files
         /\ proc[i].pending \subseteq Files
BY DEF SchemaTypes

\* A process that was alone and goes on is alone.
LEMMA AloneKeeps ==
  ASSUME SchemaTypes, NEW i \in Processes, NEW s, proc' = [proc EXCEPT ![i] = s], Migrates(i), Alone(i)
  PROVE  Alone(i)'
BY DEF Alone, Migrates, SchemaTypes

\* A process that goes on, or a server that stops, keeps the invariant if what it
\* is to have behind it at its new place is there.
LEMMA GoesOn ==
  ASSUME SchemaInv, NEW i \in Processes, NEW p \in Stages, NEW k \in Nat, NEW pending \in SUBSET Files,
         proc' = [proc EXCEPT ![i] = State(p, k, pending)],
         Migrates(i) \/ (p \in Halted /\ columns' = columns /\ recorded' = recorded),
         Has \subseteq Has', Known \subseteq Known', RecordedIsApplied',
         columns' \subseteq Columns, recorded' \subseteq Files, cause' \in {cause, cause \cup {i}},
         undone' = undone, failures' \in 0 .. MaxFailures, rollbacks' = rollbacks,
         Sound(State(p, k, pending), Has', Known', undone),
         i \notin cause' =>
           /\ Ensured(State(p, k, pending), Has')
           /\ Undisturbed(State(p, k, pending), columns', recorded')
  PROVE  SchemaInv'
<1>1. SchemaTypes /\ Fits(i) /\ cause \subseteq Processes /\ undone \subseteq Files
      /\ rollbacks \in 0 .. MaxRollbacks
  BY DEF SchemaInv, SchemaTypes
<1>2. cause' \subseteq Processes /\ undone' \subseteq Files /\ rollbacks' \in 0 .. MaxRollbacks
  BY <1>1
<1>3. SchemaTypes' /\ proc'[i].at = p /\ proc'[i] = State(p, k, pending)
  <2>1. SchemaTypes
    BY <1>1
  <2> QED BY <2>1, <1>2, TypesKeep
<1>4. i \notin cause' => Alone(i)'
  <2>1. CASE Migrates(i)
    <3>1. i \notin cause' => Alone(i)
      BY <1>1 DEF Fits
    <3>2. SchemaTypes /\ Migrates(i)
      BY <1>1, <2>1
    <3> QED BY <3>1, <3>2, AloneKeeps
  <2>2. CASE p \in Halted
    BY <1>3, <2>2 DEF Alone, Migrates
  <2> QED BY <2>1, <2>2
<1>5. Fits(i)'
  BY <1>3, <1>4 DEF Fits
<1>6. cause \ {i} \subseteq cause' /\ undone \subseteq undone'
  OBVIOUS
<1>7. /\ Migrates(i) \/ (columns' = columns /\ recorded' = recorded)
      /\ ~Migrates(i) => \A j \in Processes \ {i} : Migrates(j) => j \in cause' \/ ~Migrates(i)'
  BY <1>3 DEF Migrates
<1> QED BY <1>3, <1>5, <1>6, <1>7, StepKeeps

LEMMA BeginsAlone ==
  ASSUME SchemaInv, NEW i \in Processes, NEW s, Begin(i, s), s.at \notin Halted \cup {"serving"}
  PROVE  /\ proc' = [proc EXCEPT ![i] = s] /\ ~Migrates(i) /\ proc[i].at \in Halted
         /\ cause' \subseteq Processes /\ cause \ {i} \subseteq cause'
         /\ \A j \in Processes \ {i} : Migrates(j) => j \in cause'
         /\ i \notin cause' => Alone(i)'
<1>1. proc' = [proc EXCEPT ![i] = s] /\ ~Migrates(i) /\ proc[i].at \in Halted
  BY DEF Begin, Becomes, Migrates
<1> DEFINE others == {j \in Processes \ {i} : Migrates(j)}
<1>2. cause' = IF others = {} THEN cause \ {i} ELSE cause \cup others \cup {i}
  BY DEF Begin
<1>3. cause \subseteq Processes
  BY DEF SchemaInv, SchemaTypes
<1>4. i \notin cause' => Alone(i)'
  <2>1. i \notin cause' => others = {}
    BY <1>2
  <2>2. \A j \in Processes \ {i} : proc'[j] = proc[j]
    BY <1>1 DEF SchemaInv, SchemaTypes
  <2> QED BY <2>1, <2>2 DEF Alone, Migrates
<1> QED BY <1>1, <1>2, <1>3, <1>4

-----------------------------------------------------------------------------
\* A server begins to look for its columns.
LEMMA StartStep == ASSUME SchemaInv, NEW i \in Processes, StartServer(i) PROVE SchemaInv'
<1> DEFINE s == State("checking", 1, {})
<1>1. s.at \notin Halted \cup {"serving"}
  BY DEF State, Halted
<1>2. Begin(i, s) /\ UNCHANGED <<columns, recorded, undone, failures, rollbacks>>
  BY DEF StartServer
<1> HIDE DEF s
<1>3. /\ proc' = [proc EXCEPT ![i] = s] /\ ~Migrates(i)
      /\ cause' \subseteq Processes /\ cause \ {i} \subseteq cause'
      /\ \A j \in Processes \ {i} : Migrates(j) => j \in cause'
      /\ i \notin cause' => Alone(i)'
  BY <1>1, <1>2, BeginsAlone
<1>4. Has \subseteq Has' /\ Known \subseteq Known' /\ Has' = Has
  BY <1>2, NothingLost DEF Has, Undoing
<1>5. SchemaTypes' /\ proc'[i].at = "checking" /\ proc'[i].k = 1 /\ proc'[i].pending = {}
  <2>1. SchemaTypes
    BY DEF SchemaInv
  <2>2. /\ columns' \subseteq Columns /\ recorded' \subseteq Files /\ undone' \subseteq Files
        /\ failures' \in 0 .. MaxFailures /\ rollbacks' \in 0 .. MaxRollbacks
    BY <1>2, <2>1 DEF SchemaTypes
  <2>3. "checking" \in Stages /\ 1 \in Nat /\ {} \in SUBSET Files
    BY DEF Stages
  <2> QED BY <1>3, <2>1, <2>2, <2>3, TypesKeep DEF s
<1>6. RecordedIsApplied'
  BY <1>2 DEF SchemaInv, RecordedIsApplied, Undoing
<1>7. Fits(i)'
  BY <1>3, <1>5, SchemaConstants DEF Fits, Sound, Ensured, Undisturbed
<1> QED BY <1>2, <1>3, <1>4, <1>5, <1>6, <1>7, StepKeeps

\* It looks for the next one.
LEMMA LookStep == ASSUME SchemaInv, NEW i \in Processes, CheckColumn(i) PROVE SchemaInv'
<1> DEFINE k == proc[i].k
<1>1. /\ SchemaTypes /\ Fits(i) /\ proc[i].at = "checking" /\ k \in Nat /\ k # 0
      /\ proc[i].pending \in SUBSET Files /\ Migrates(i)
  BY MovesType DEF SchemaInv, Fits, Sound, CheckColumn, Migrates, Halted
<1>2. UNCHANGED <<columns, recorded, cause, undone, failures, rollbacks>>
  BY DEF CheckColumn
<1>3. Has' = Has /\ Known' = Known
  BY <1>2 DEF Has, Known, Undoing
<1>4. RecordedIsApplied'
  BY <1>2 DEF SchemaInv, RecordedIsApplied, Undoing
<1>5. i \notin cause => Ensured(proc[i], Has) /\ Undisturbed(proc[i], columns, recorded) /\ Alone(i)
  BY <1>1 DEF Fits
<1>6. \E p \in {"checking", "altering", "reading"}, l \in Nat :
        /\ proc' = [proc EXCEPT ![i] = State(p, l, proc[i].pending)]
        /\ p = "checking" => k <= Len(EnsureOrder) /\ EnsureOrder[k] \in columns /\ l = k + 1
        /\ p = "altering" => k <= Len(EnsureOrder) /\ EnsureOrder[k] \notin columns /\ l = k
        /\ p = "reading" => k > Len(EnsureOrder)
  <2>1. CASE k > Len(EnsureOrder) /\ GoesTo(i, "reading")
    <3>1. proc' = [proc EXCEPT ![i] = State("reading", k, proc[i].pending)]
      BY <2>1 DEF GoesTo, MovesTo, Becomes
    <3> QED BY <1>1, <2>1, <3>1
  <2>2. CASE k <= Len(EnsureOrder) /\ EnsureOrder[k] \in columns /\ MovesTo(i, "checking", k + 1)
    <3>1. proc' = [proc EXCEPT ![i] = State("checking", k + 1, proc[i].pending)]
      BY <2>2 DEF MovesTo, Becomes
    <3>2. k + 1 \in Nat
      BY <1>1
    <3> QED BY <2>2, <3>1, <3>2
  <2>3. CASE k <= Len(EnsureOrder) /\ EnsureOrder[k] \notin columns /\ GoesTo(i, "altering")
    <3>1. proc' = [proc EXCEPT ![i] = State("altering", k, proc[i].pending)]
      BY <2>3 DEF GoesTo, MovesTo, Becomes
    <3> QED BY <1>1, <2>3, <3>1
  <2> QED BY <2>1, <2>2, <2>3 DEF CheckColumn
<1>7. PICK p \in {"checking", "altering", "reading"}, l \in Nat :
        /\ proc' = [proc EXCEPT ![i] = State(p, l, proc[i].pending)]
        /\ p = "checking" => k <= Len(EnsureOrder) /\ EnsureOrder[k] \in columns /\ l = k + 1
        /\ p = "altering" => k <= Len(EnsureOrder) /\ EnsureOrder[k] \notin columns /\ l = k
        /\ p = "reading" => k > Len(EnsureOrder)
  BY <1>6
<1>8. SchemaTypes' /\ proc'[i].at = p /\ proc'[i].k = l
  <2>1. p \in Stages
    BY DEF Stages
  <2>2. /\ columns' \subseteq Columns /\ recorded' \subseteq Files /\ undone' \subseteq Files
        /\ cause' \subseteq Processes
        /\ failures' \in 0 .. MaxFailures /\ rollbacks' \in 0 .. MaxRollbacks
    BY <1>1, <1>2 DEF SchemaTypes
  <2>3. SchemaTypes /\ proc[i].pending \in SUBSET Files
    BY <1>1
  <2>4. proc' = [proc EXCEPT ![i] = State(p, l, proc[i].pending)] /\ l \in Nat
    BY <1>7
  <2> QED BY ONLY <2>1, <2>2, <2>3, <2>4, i \in Processes, TypesKeep
<1>9. Fits(i)'
  <2>1. Sound(proc'[i], Has', Known', undone')
    BY <1>1, <1>7, <1>8, SchemaConstants DEF Sound
  <2>2. ASSUME i \notin cause PROVE Ensured(proc'[i], Has)
    <3>1. \A j \in 1 .. Len(EnsureOrder) : j < k => EnsureOrder[j] \in Has
      BY <1>1, <1>5, <2>2 DEF Ensured
    <3>2. CASE p = "reading"
      <4>1. \A j \in 1 .. Len(EnsureOrder) : EnsureOrder[j] \in Has
        BY <1>1, <1>7, <3>1, <3>2, SchemaConstants
      <4> QED BY <4>1, <1>8, <3>2, SchemaConstants DEF Ensured
    <3>3. CASE p = "checking"
      <4>1. EnsureOrder[k] \in Has /\ l = k + 1
        BY <1>7, <3>3 DEF Has
      <4>2. \A j \in 1 .. Len(EnsureOrder) : j < l => EnsureOrder[j] \in Has
        <5>1. \A j \in 1 .. Len(EnsureOrder) : j < l => j < k \/ j = k
          BY <1>1, <4>1
        <5> QED BY <3>1, <4>1, <5>1
      <4> QED BY <4>2, <1>8, <3>3 DEF Ensured
    <3>4. CASE p = "altering"
      BY <1>7, <1>8, <3>1, <3>4 DEF Ensured
    <3> QED BY <3>2, <3>3, <3>4
  <2>3. i \notin cause => Undisturbed(proc'[i], columns, recorded)
    BY <1>7, <1>8 DEF Undisturbed
  <2>4. i \notin cause => Alone(i)'
    BY <1>1, <1>5, <1>7, AloneKeeps
  <2> QED BY <1>2, <1>3, <2>1, <2>2, <2>3, <2>4 DEF Fits
<1> QED BY <1>1, <1>2, <1>3, <1>4, <1>7, <1>8, <1>9, StepKeeps

\* It adds the column, or finds that another process did.
LEMMA AddStep == ASSUME SchemaInv, NEW i \in Processes, AddColumn(i) PROVE SchemaInv'
<1> DEFINE k == proc[i].k
           c == EnsureOrder[k]
<1>1. /\ SchemaTypes /\ Fits(i) /\ proc[i].at = "altering" /\ k \in 1 .. Len(EnsureOrder)
      /\ proc[i].pending \in SUBSET Files /\ Migrates(i)
  BY MovesType DEF SchemaInv, Fits, Sound, AddColumn, Migrates, Halted
<1>2. /\ columns' = columns \cup {c}
      /\ UNCHANGED <<recorded, cause, undone, failures, rollbacks>>
  BY DEF AddColumn
<1>3. Len(EnsureOrder) \in Nat /\ c \in Columns /\ k \in Nat /\ k + 1 \in Nat
  BY <1>1, SchemaConstants
<1>4. columns' \subseteq Columns /\ recorded' \subseteq Files /\ failures' \in 0 .. MaxFailures
  BY <1>1, <1>2, <1>3 DEF SchemaTypes
<1>5. Has \subseteq Has' /\ Known \subseteq Known' /\ c \in Has'
  BY <1>2, NothingLost DEF Has
<1>6. RecordedIsApplied'
  BY <1>2 DEF SchemaInv, RecordedIsApplied, Undoing
<1>7. i \notin cause => Ensured(proc[i], Has) /\ Undisturbed(proc[i], columns, recorded)
  BY <1>1 DEF Fits
<1>8. CASE c \in columns
  <2>1. proc' = [proc EXCEPT ![i] = State("reading", k, proc[i].pending)]
    BY <1>8 DEF AddColumn, GoesTo, MovesTo, Becomes
  <2>2. i \in cause
    BY <1>1, <1>7, <1>8 DEF Undisturbed
  <2>3. Sound(State("reading", k, proc[i].pending), Has', Known', undone)
    BY DEF Sound, State
  <2>4. "reading" \in Stages
    BY DEF Stages
  <2> QED BY <1>1, <1>2, <1>3, <1>4, <1>5, <1>6, <2>1, <2>2, <2>3, <2>4, GoesOn
<1>9. CASE c \notin columns
  <2>1. proc' = [proc EXCEPT ![i] = State("checking", k + 1, proc[i].pending)]
    BY <1>9 DEF AddColumn, MovesTo, Becomes
  <2>2. Sound(State("checking", k + 1, proc[i].pending), Has', Known', undone)
    BY <1>3 DEF Sound, State
  <2>3. i \notin cause' =>
          /\ Ensured(State("checking", k + 1, proc[i].pending), Has')
          /\ Undisturbed(State("checking", k + 1, proc[i].pending), columns', recorded')
    <3> SUFFICES ASSUME i \notin cause'
                 PROVE  /\ Ensured(State("checking", k + 1, proc[i].pending), Has')
                        /\ Undisturbed(State("checking", k + 1, proc[i].pending), columns', recorded')
      OBVIOUS
    <3>1. \A j \in 1 .. Len(EnsureOrder) : j < k => EnsureOrder[j] \in Has'
      BY <1>1, <1>2, <1>5, <1>7 DEF Ensured
    <3>2. \A j \in 1 .. Len(EnsureOrder) : j < k + 1 => EnsureOrder[j] \in Has'
      BY <1>3, <1>5, <3>1
    <3> QED BY <3>2 DEF Ensured, Undisturbed, State
  <2>4. "checking" \in Stages
    BY DEF Stages
  <2> QED BY <1>1, <1>2, <1>3, <1>4, <1>5, <1>6, <2>1, <2>2, <2>3, <2>4, GoesOn
<1> QED BY <1>8, <1>9

\* Where the files that are left take it, it has what the first of them needs.
LEMMA RestFits ==
  ASSUME NEW pending \in SUBSET Files, NEW has, NEW known, NEW gone, NEW cols, NEW names,
         Files \subseteq known \cup pending
  PROVE  /\ Rest(pending).at \in Stages /\ Rest(pending) = State(Rest(pending).at, 1, pending)
         /\ Sound(Rest(pending), has, known, gone)
         /\ Range(EnsureOrder) \subseteq has => Ensured(Rest(pending), has)
         /\ pending \cap names = {} => Undisturbed(Rest(pending), cols, names)
<1> DEFINE p == IF pending = {} THEN "serving" ELSE "running"
<1>1. Rest(pending) = State(p, 1, pending) /\ p \in {"serving", "running"}
  BY DEF Rest
<1>2. State(p, 1, pending).at = p /\ State(p, 1, pending).k = 1 /\ State(p, 1, pending).pending = pending
  BY DEF State
<1>3. \A f \in Files : 1 \in 1 .. Len(Adds[f]) /\ 1 .. 1 - 1 = {}
  BY SchemaConstants
<1>4. Sound(Rest(pending), has, known, gone)
  BY <1>1, <1>2, <1>3 DEF Sound
<1>5. Range(EnsureOrder) \subseteq has => Ensured(Rest(pending), has)
  BY <1>1, <1>2 DEF Ensured
<1>6. pending \cap names = {} => Undisturbed(Rest(pending), cols, names)
  BY <1>1, <1>2 DEF Undisturbed
<1> QED BY <1>1, <1>2, <1>4, <1>5, <1>6 DEF Stages

\* It reads what is recorded.
LEMMA ReadStep == ASSUME SchemaInv, NEW i \in Processes, ReadRecorded(i) PROVE SchemaInv'
<1> DEFINE left == Files \ recorded
           p == Rest(left).at
<1>1. SchemaTypes /\ Fits(i) /\ proc[i].at = "reading" /\ Migrates(i) /\ left \in SUBSET Files
  BY DEF SchemaInv, ReadRecorded, Migrates, Halted
<1>2. UNCHANGED <<columns, recorded, cause, undone, failures, rollbacks>>
  BY DEF ReadRecorded
<1>3. columns' \subseteq Columns /\ recorded' \subseteq Files /\ failures' \in 0 .. MaxFailures
  BY <1>1, <1>2 DEF SchemaTypes
<1>4. Has \subseteq Has' /\ Known \subseteq Known' /\ Files \subseteq Known' \cup left
  BY <1>2, NothingLost DEF Known
<1>5. RecordedIsApplied'
  BY <1>2 DEF SchemaInv, RecordedIsApplied, Undoing
<1>6. i \notin cause => Range(EnsureOrder) \subseteq Has'
  BY <1>1, <1>4 DEF Fits, Ensured
<1>7. left \cap recorded' = {}
  BY <1>2
<1>8. /\ p \in Stages /\ Rest(left) = State(p, 1, left)
      /\ Sound(Rest(left), Has', Known', undone)
      /\ Range(EnsureOrder) \subseteq Has' => Ensured(Rest(left), Has')
      /\ Undisturbed(Rest(left), columns', recorded')
  BY <1>1, <1>4, <1>7, RestFits
<1>9. proc' = [proc EXCEPT ![i] = State(p, 1, left)]
  BY <1>8 DEF ReadRecorded, Becomes
<1>10. Sound(State(p, 1, left), Has', Known', undone)
  BY <1>8
<1>11. i \notin cause' => Ensured(State(p, 1, left), Has') /\ Undisturbed(State(p, 1, left), columns', recorded')
  BY <1>2, <1>6, <1>8
<1> HIDE DEF p, left
<1> QED BY <1>1, <1>2, <1>3, <1>4, <1>5, <1>8, <1>9, <1>10, <1>11, GoesOn

\* An error ends it: only where somebody else or a fault was the cause, when
\* every file says IF NOT EXISTS.
LEMMA ExitFits ==
  ASSUME NEW k, NEW pending, NEW has, NEW known, NEW gone, NEW cols, NEW names
  PROVE  /\ Sound(State("exited", k, pending), has, known, gone) /\ "exited" \in Stages
         /\ Sound(State("stopped", k, pending), has, known, gone) /\ "stopped" \in Stages
         /\ Ensured(State("exited", k, pending), has) /\ Ensured(State("stopped", k, pending), has)
         /\ Undisturbed(State("stopped", k, pending), cols, names)
         /\ Guarded # Files => Undisturbed(State("exited", k, pending), cols, names)
BY DEF Sound, Ensured, Undisturbed, State, Stages, Halted

\* It runs a statement of its first file, or ends.
LEMMA RunStep == ASSUME SchemaInv, NEW i \in Processes, NEW f \in Files, RunStatement(i, f) PROVE SchemaInv'
<1> DEFINE k == proc[i].k
           c == Adds[f][k]
           left == proc[i].pending
<1>1. /\ SchemaTypes /\ Fits(i) /\ proc[i].at = "running" /\ Migrates(i)
      /\ left \in SUBSET Files /\ First(left, f)
  BY MovesType DEF SchemaInv, RunStatement, Migrates, Halted, IsNext, First
<1>2. columns' = columns \cup {c} /\ UNCHANGED <<recorded, cause, undone, failures, rollbacks>>
  BY DEF RunStatement
<1>3. /\ k \in 1 .. Len(Adds[f]) /\ (\A j \in 1 .. k - 1 : Adds[f][j] \in Has)
      /\ Files \subseteq Known \cup left
  BY <1>1 DEF Fits, Sound
<1>4. Len(Adds[f]) \in Nat /\ c \in Columns /\ k \in Nat /\ k + 1 \in Nat
  BY <1>3, SchemaConstants
<1>5. columns' \subseteq Columns /\ recorded' \subseteq Files /\ failures' \in 0 .. MaxFailures
  BY <1>1, <1>2, <1>4 DEF SchemaTypes
<1>6. Has \subseteq Has' /\ Known \subseteq Known' /\ c \in Has'
  BY <1>2, NothingLost DEF Has
<1>7. RecordedIsApplied'
  BY <1>2 DEF SchemaInv, RecordedIsApplied, Undoing
<1>8. i \notin cause => Range(EnsureOrder) \subseteq Has /\ left \cap recorded = {}
  BY <1>1 DEF Fits, Ensured, Undisturbed
<1>9. CASE c \in columns /\ f \notin Guarded
  <2>1. proc' = [proc EXCEPT ![i] = State("exited", k, left)]
    BY <1>9 DEF RunStatement, ExitInError, GoesTo, MovesTo, Becomes
  <2>2. Guarded # Files
    BY <1>9
  <2>3. /\ Sound(State("exited", k, left), Has', Known', undone) /\ "exited" \in Stages
        /\ Ensured(State("exited", k, left), Has')
        /\ Undisturbed(State("exited", k, left), columns', recorded')
    BY <2>2, ExitFits
  <2> HIDE DEF c, left, k
  <2> QED BY <1>1, <1>2, <1>4, <1>5, <1>6, <1>7, <2>1, <2>3, GoesOn
<1>10. CASE ~(c \in columns /\ f \notin Guarded)
  <2> DEFINE p == IF k = Len(Adds[f]) THEN "recording" ELSE "running"
             s == State(p, k + 1, left)
  <2>1. proc' = [proc EXCEPT ![i] = s]
    BY <1>10 DEF RunStatement, MovesTo, Becomes
  <2>2. s.at = p /\ s.k = k + 1 /\ s.pending = left
    BY DEF State
  <2>3. \A j \in 1 .. k : Adds[f][j] \in Has'
    BY <1>3, <1>4, <1>6
  <2>4. \A g \in Files : First(left, g) => g = f
    BY <1>1, FirstIsOne
  <2>5. Sound(s, Has', Known', undone)
    <3>1. CASE k = Len(Adds[f])
      <4>1. Range(Adds[f]) \subseteq Has'
        <5>1. Range(Adds[f]) = {Adds[f][j] : j \in 1 .. Len(Adds[f])}
          BY SchemaConstants
        <5>2. \A j \in 1 .. Len(Adds[f]) : Adds[f][j] \in Has'
          BY <2>3, <3>1
        <5> QED BY ONLY <5>1, <5>2
      <4>2. s.at = "recording"
        BY <2>2, <3>1
      <4> QED BY <1>3, <1>6, <2>2, <2>4, <4>1, <4>2 DEF Sound
    <3>2. CASE k # Len(Adds[f])
      <4>1. k + 1 \in 1 .. Len(Adds[f]) /\ (k + 1) - 1 = k
        BY <1>3, <1>4, <3>2
      <4>2. s.at = "running"
        BY <2>2, <3>2
      <4> QED BY <1>3, <1>6, <2>2, <2>3, <2>4, <4>1, <4>2 DEF Sound
    <3> QED BY <3>1, <3>2
  <2>6. i \notin cause' => Ensured(s, Has') /\ Undisturbed(s, columns', recorded')
    BY <1>2, <1>6, <1>8, <2>2 DEF Ensured, Undisturbed
  <2>7. p \in Stages
    BY DEF Stages
  <2> HIDE DEF p, c, left, k
  <2> QED BY <1>1, <1>2, <1>4, <1>5, <1>6, <1>7, <2>1, <2>5, <2>6, <2>7, GoesOn
<1> QED BY <1>9, <1>10

\* It records the file it ran, or finds that another process did.
LEMMA RecordStep == ASSUME SchemaInv, NEW i \in Processes, NEW f \in Files, Record(i, f) PROVE SchemaInv'
<1> DEFINE k == proc[i].k
           left == proc[i].pending
           rest == left \ {f}
           p == Rest(rest).at
<1>1. /\ SchemaTypes /\ Fits(i) /\ proc[i].at = "recording" /\ Migrates(i)
      /\ left \in SUBSET Files /\ First(left, f) /\ f \in left /\ k \in Nat
  BY MovesType DEF SchemaInv, Record, Migrates, Halted, IsNext, First
<1>2. recorded' = recorded \cup {f} /\ UNCHANGED <<columns, cause, undone, failures, rollbacks>>
  BY DEF Record
<1>3. Range(Adds[f]) \subseteq Has /\ Files \subseteq Known \cup left
  BY <1>1 DEF Fits, Sound
<1>4. columns' \subseteq Columns /\ recorded' \subseteq Files /\ failures' \in 0 .. MaxFailures
  BY <1>1, <1>2 DEF SchemaTypes
<1>5. Has \subseteq Has' /\ Known \subseteq Known' /\ Files \subseteq Known' \cup rest
  BY <1>2, <1>3, NothingLost DEF Known
<1>6. RecordedIsApplied'
  BY <1>2, <1>3 DEF SchemaInv, RecordedIsApplied, Undoing, Has
<1>7. i \notin cause => Range(EnsureOrder) \subseteq Has /\ left \cap recorded = {}
  BY <1>1 DEF Fits, Ensured, Undisturbed
<1>8. CASE f \in recorded
  <2>1. proc' = [proc EXCEPT ![i] = State("exited", k, left)]
    BY <1>8 DEF Record, ExitInError, GoesTo, MovesTo, Becomes
  <2>2. i \in cause
    BY <1>1, <1>7, <1>8
  <2>3. Sound(State("exited", k, left), Has', Known', undone) /\ "exited" \in Stages
    BY ExitFits
  <2> HIDE DEF left, k
  <2> QED BY <1>1, <1>2, <1>4, <1>5, <1>6, <2>1, <2>2, <2>3, GoesOn
<1>9. CASE f \notin recorded
  <2>1. rest \in SUBSET Files
    BY <1>1
  <2>2. /\ p \in Stages /\ Rest(rest) = State(p, 1, rest)
        /\ Sound(Rest(rest), Has', Known', undone)
        /\ Range(EnsureOrder) \subseteq Has' => Ensured(Rest(rest), Has')
        /\ rest \cap recorded' = {} => Undisturbed(Rest(rest), columns', recorded')
    BY <1>5, <2>1, RestFits
  <2>3. proc' = [proc EXCEPT ![i] = State(p, 1, rest)]
    BY <1>9, <2>2 DEF Record, Becomes
  <2>4. i \notin cause' => Range(EnsureOrder) \subseteq Has' /\ rest \cap recorded' = {}
    BY <1>2, <1>5, <1>7
  <2>5. Sound(State(p, 1, rest), Has', Known', undone)
    BY <2>2
  <2>6. i \notin cause' => Ensured(State(p, 1, rest), Has') /\ Undisturbed(State(p, 1, rest), columns', recorded')
    BY <2>2, <2>4
  <2> HIDE DEF p, rest, left, k
  <2> QED BY <1>1, <1>2, <1>4, <1>5, <1>6, <2>1, <2>2, <2>3, <2>5, <2>6, GoesOn
<1> QED BY <1>8, <1>9

\* A rollback begins: the columns of its file count as undone from then on.
LEMMA RollbackStep == ASSUME SchemaInv, NEW i \in Processes, NEW f \in Files, Rollback(i, f) PROVE SchemaInv'
<1> DEFINE s == State("undoing", Len(Adds[f]), {f})
<1>1. /\ s.at = "undoing" /\ s.k = Len(Adds[f]) /\ s.pending = {f}
      /\ s.at \notin Halted \cup {"serving"}
  BY DEF State, Halted
<1>2. /\ Begin(i, s) /\ undone' = undone \cup {f} /\ rollbacks < MaxRollbacks /\ rollbacks' = rollbacks + 1
      /\ UNCHANGED <<columns, recorded, failures>>
  BY DEF Rollback
<1> HIDE DEF s
<1>3. /\ proc' = [proc EXCEPT ![i] = s] /\ ~Migrates(i)
      /\ cause' \subseteq Processes /\ cause \ {i} \subseteq cause'
      /\ \A j \in Processes \ {i} : Migrates(j) => j \in cause'
      /\ i \notin cause' => Alone(i)'
  BY <1>1, <1>2, BeginsAlone
<1>4. undone \subseteq undone' /\ Has \subseteq Has' /\ Known \subseteq Known'
  BY <1>2, NothingLost
<1>5. SchemaTypes' /\ proc'[i] = s
  <2>1. SchemaTypes
    BY DEF SchemaInv
  <2>2. /\ columns' \subseteq Columns /\ recorded' \subseteq Files /\ undone' \subseteq Files
        /\ failures' \in 0 .. MaxFailures
    BY <1>2, <2>1 DEF SchemaTypes
  <2>3. rollbacks' \in 0 .. MaxRollbacks
    <3>1. rollbacks \in 0 .. MaxRollbacks /\ MaxRollbacks \in Nat
      BY <2>1, SchemaAssumption DEF SchemaTypes
    <3> QED BY <1>2, <3>1
  <2>4. "undoing" \in Stages /\ Len(Adds[f]) \in Nat /\ {f} \in SUBSET Files
    BY SchemaConstants DEF Stages
  <2> QED BY <1>3, <2>1, <2>2, <2>3, <2>4, TypesKeep DEF s
<1>6. RecordedIsApplied'
  BY <1>2, <1>4 DEF SchemaInv, RecordedIsApplied, Has
<1>7. Len(Adds[f]) \in 1 .. Len(Adds[f])
  BY SchemaConstants
<1>8. Fits(i)'
  <2>1. Sound(s, Has', Known', undone')
    BY <1>1, <1>2, <1>7 DEF Sound
  <2>2. Ensured(s, Has') /\ Undisturbed(s, columns', recorded')
    BY <1>1 DEF Ensured, Undisturbed
  <2> QED BY <1>3, <1>5, <2>1, <2>2 DEF Fits
<1> QED BY <1>2, <1>3, <1>4, <1>5, <1>6, <1>8, StepKeeps

\* It undoes a statement, whose column counts as undone already.
LEMMA UndoStep == ASSUME SchemaInv, NEW i \in Processes, NEW f \in Files, UndoStatement(i, f) PROVE SchemaInv'
<1> DEFINE k == proc[i].k
           c == Adds[f][k]
           left == proc[i].pending
<1>1. /\ SchemaTypes /\ Fits(i) /\ proc[i].at = "undoing" /\ Migrates(i)
      /\ left \in SUBSET Files /\ f \in left
  BY MovesType DEF SchemaInv, UndoStatement, Migrates, Halted
<1>2. columns' = columns \ {c} /\ UNCHANGED <<recorded, cause, undone, failures, rollbacks>>
  BY DEF UndoStatement
<1>3. (\A g \in left : k \in 1 .. Len(Adds[g])) /\ left \subseteq undone
  BY <1>1 DEF Fits, Sound
<1>4. k \in 1 .. Len(Adds[f]) /\ Len(Adds[f]) \in Nat /\ k \in Nat /\ k - 1 \in Nat
      /\ c \in Range(Adds[f])
  <2>1. k \in 1 .. Len(Adds[f])
    BY <1>1, <1>3
  <2>2. Len(Adds[f]) \in Nat
    BY SchemaConstants
  <2>3. Range(Adds[f]) = {Adds[f][j] : j \in 1 .. Len(Adds[f])}
    BY SchemaConstants
  <2>4. c \in Range(Adds[f])
    BY ONLY <2>1, <2>3
  <2>5. k \in Nat /\ k - 1 \in Nat
    BY ONLY <2>1, <2>2
  <2> QED BY <2>1, <2>2, <2>4, <2>5
<1>5. columns' \subseteq Columns /\ recorded' \subseteq Files /\ failures' \in 0 .. MaxFailures
  BY <1>1, <1>2 DEF SchemaTypes
<1>6. c \in Undoing
  BY <1>1, <1>3, <1>4 DEF Undoing
<1>7. Has \subseteq Has' /\ Known \subseteq Known'
  BY <1>2, <1>6 DEF Has, Known, Undoing
<1>8. RecordedIsApplied'
  BY <1>2, <1>7 DEF SchemaInv, RecordedIsApplied, Has
<1>9. CASE c \notin columns /\ f \notin Guarded
  <2>1. proc' = [proc EXCEPT ![i] = State("exited", k, left)]
    BY <1>9 DEF UndoStatement, ExitInError, GoesTo, MovesTo, Becomes
  <2>2. Guarded # Files
    BY <1>9
  <2>3. /\ Sound(State("exited", k, left), Has', Known', undone) /\ "exited" \in Stages
        /\ Ensured(State("exited", k, left), Has')
        /\ Undisturbed(State("exited", k, left), columns', recorded')
    BY <2>2, ExitFits
  <2> HIDE DEF c, left, k
  <2> QED BY <1>1, <1>2, <1>4, <1>5, <1>7, <1>8, <2>1, <2>3, GoesOn
<1>10. CASE ~(c \notin columns /\ f \notin Guarded)
  <2> DEFINE p == IF k = 1 THEN "unrecording" ELSE "undoing"
             s == State(p, k - 1, left)
  <2>1. proc' = [proc EXCEPT ![i] = s]
    BY <1>10 DEF UndoStatement, MovesTo, Becomes
  <2>2. s.at = p /\ s.k = k - 1 /\ s.pending = left
    BY DEF State
  <2>3. Sound(s, Has', Known', undone)
    <3>1. ASSUME k # 1, NEW g \in left PROVE k - 1 \in 1 .. Len(Adds[g])
      <4>1. k \in 1 .. Len(Adds[g]) /\ Len(Adds[g]) \in Nat
        BY <1>1, <1>3, SchemaConstants
      <4> QED BY <3>1, <4>1
    <3> QED BY <1>3, <2>2, <3>1 DEF Sound
  <2>4. Ensured(s, Has') /\ Undisturbed(s, columns', recorded')
    BY <2>2 DEF Ensured, Undisturbed
  <2>5. p \in Stages
    BY DEF Stages
  <2> HIDE DEF s, p, c, left, k
  <2> QED BY <1>1, <1>2, <1>4, <1>5, <1>7, <1>8, <2>1, <2>3, <2>4, <2>5, GoesOn DEF s
<1> QED BY <1>9, <1>10

\* The record of a file goes last.
LEMMA UnrecordStep == ASSUME SchemaInv, NEW i \in Processes, NEW f \in Files, Unrecord(i, f) PROVE SchemaInv'
<1> DEFINE k == proc[i].k
           left == proc[i].pending
<1>1. /\ SchemaTypes /\ Fits(i) /\ proc[i].at = "unrecording" /\ Migrates(i)
      /\ left \in SUBSET Files /\ f \in left /\ k \in Nat
  BY MovesType DEF SchemaInv, Unrecord, Migrates, Halted
<1>2. recorded' = recorded \ {f} /\ UNCHANGED <<columns, cause, undone, failures, rollbacks>>
  BY DEF Unrecord
<1>3. f \in undone
  BY <1>1 DEF Fits, Sound
<1>4. columns' \subseteq Columns /\ recorded' \subseteq Files /\ failures' \in 0 .. MaxFailures
  BY <1>1, <1>2 DEF SchemaTypes
<1>5. Has \subseteq Has' /\ Known \subseteq Known'
  BY <1>2, <1>3 DEF Has, Known, Undoing
<1>6. RecordedIsApplied'
  BY <1>2 DEF SchemaInv, RecordedIsApplied, Undoing
<1>7. proc' = [proc EXCEPT ![i] = State("stopped", k, left)]
  BY DEF Unrecord, GoesTo, MovesTo, Becomes
<1>8. /\ Sound(State("stopped", k, left), Has', Known', undone) /\ "stopped" \in Stages
      /\ Ensured(State("stopped", k, left), Has')
      /\ Undisturbed(State("stopped", k, left), columns', recorded')
  BY ExitFits
<1> HIDE DEF left, k
<1> QED BY <1>1, <1>2, <1>4, <1>5, <1>6, <1>7, <1>8, GoesOn

\* A failing statement, a crash, and the end of a server.
LEMMA FailStep ==
  ASSUME SchemaInv, NEW i \in Processes, StartFails(i) \/ ProcessDies(i) \/ Stop(i)
  PROVE  SchemaInv'
<1> DEFINE k == proc[i].k
           left == proc[i].pending
<1>1. SchemaTypes /\ left \in SUBSET Files /\ k \in Nat
  BY MovesType DEF SchemaInv
<1>2. UNCHANGED <<columns, recorded, undone, rollbacks>>
  BY DEF StartFails, ProcessDies, Stop
<1>3. columns' \subseteq Columns /\ recorded' \subseteq Files
  BY <1>1, <1>2 DEF SchemaTypes
<1>4. failures' \in 0 .. MaxFailures
  <2>1. failures \in 0 .. MaxFailures /\ MaxFailures \in Nat
    BY <1>1, SchemaAssumption DEF SchemaTypes
  <2> QED BY <2>1 DEF StartFails, ProcessDies, Stop
<1>5. Has \subseteq Has' /\ Known \subseteq Known'
  BY <1>2, NothingLost
<1>6. RecordedIsApplied'
  BY <1>2 DEF SchemaInv, RecordedIsApplied, Undoing
<1>7. ASSUME NEW p \in {"reading", "exited", "stopped"}
      PROVE  /\ Sound(State(p, k, left), Has', Known', undone) /\ p \in Stages
             /\ p = "stopped" => /\ Ensured(State(p, k, left), Has')
                                /\ Undisturbed(State(p, k, left), columns', recorded')
  BY DEF Sound, Ensured, Undisturbed, State, Stages, Halted
<1>8. \E p \in {"reading", "exited", "stopped"} :
        /\ proc' = [proc EXCEPT ![i] = State(p, k, left)]
        /\ \/ p # "stopped" /\ Migrates(i) /\ cause' = cause \cup {i}
           \/ p = "stopped" /\ cause' = cause
  <2>1. CASE StartFails(i)
    <3>1. CASE proc[i].at \in {"checking", "altering"}
      BY <2>1, <3>1 DEF StartFails, GoesTo, MovesTo, Becomes
    <3>2. CASE proc[i].at \notin {"checking", "altering"}
      BY <2>1, <3>2 DEF StartFails, ExitInError, GoesTo, MovesTo, Becomes
    <3> QED BY <3>1, <3>2
  <2>2. CASE ProcessDies(i)
    BY <2>2 DEF ProcessDies, GoesTo, MovesTo, Becomes
  <2>3. CASE Stop(i)
    BY <2>3 DEF Stop, GoesTo, MovesTo, Becomes
  <2> QED BY <2>1, <2>2, <2>3
<1>9. PICK p \in {"reading", "exited", "stopped"} :
        /\ proc' = [proc EXCEPT ![i] = State(p, k, left)]
        /\ \/ p # "stopped" /\ Migrates(i) /\ cause' = cause \cup {i}
           \/ p = "stopped" /\ cause' = cause
  BY <1>8
<1>10. /\ Sound(State(p, k, left), Has', Known', undone) /\ p \in Stages
       /\ i \notin cause' => /\ Ensured(State(p, k, left), Has')
                             /\ Undisturbed(State(p, k, left), columns', recorded')
  BY <1>7, <1>9
<1>11. Migrates(i) \/ (p \in Halted /\ columns' = columns /\ recorded' = recorded)
  BY <1>2, <1>9 DEF Halted
<1>12. cause' \in {cause, cause \cup {i}} /\ undone' = undone /\ rollbacks' = rollbacks
  BY <1>2, <1>9
<1>13. proc' = [proc EXCEPT ![i] = State(p, k, left)]
  BY <1>9
<1> HIDE DEF left, k
<1> QED BY <1>1, <1>3, <1>4, <1>5, <1>6, <1>10, <1>11, <1>12, <1>13, GoesOn

-----------------------------------------------------------------------------
\* In every reachable state each process has behind it what its place says,
\* however many servers start, fail and are rolled back at once.
THEOREM SchemaSafety == SchemaSpec => []SchemaInv
<1>1. SchemaInv /\ [SchemaNext]_schemaVars => SchemaInv'
  <2> SUFFICES ASSUME SchemaInv, [SchemaNext]_schemaVars PROVE SchemaInv'
    OBVIOUS
  <2>1. CASE UNCHANGED schemaVars
    BY <2>1 DEF schemaVars, SchemaInv, SchemaTypes, RecordedIsApplied, Fits, Has, Known, Undoing,
                Alone, Migrates
  <2>2. ASSUME NEW i \in Processes,
               StartServer(i) \/ CheckColumn(i) \/ AddColumn(i) \/ ReadRecorded(i)
        PROVE  SchemaInv'
    BY <2>2, StartStep, LookStep, AddStep, ReadStep
  <2>3. ASSUME NEW i \in Processes, NEW f \in Files, RunStatement(i, f) \/ Record(i, f)
        PROVE  SchemaInv'
    BY <2>3, RunStep, RecordStep
  <2>4. ASSUME NEW i \in Processes, NEW f \in Files,
               Rollback(i, f) \/ UndoStatement(i, f) \/ Unrecord(i, f)
        PROVE  SchemaInv'
    BY <2>4, RollbackStep, UndoStep, UnrecordStep
  <2>5. ASSUME NEW i \in Processes, StartFails(i) \/ ProcessDies(i) \/ Stop(i) PROVE SchemaInv'
    BY <2>5, FailStep
  <2> QED BY <2>1, <2>2, <2>3, <2>4, <2>5 DEF SchemaNext
<1> QED BY <1>1, InitSchema, PTL DEF SchemaSpec

\* A recorded file has its columns, a server listens once every file was run, with
\* every column that applyMigrations adds when it met no fault and started alone,
\* and a start ends in an error only for a cause, when every file is guarded
\* (applyMigrations, runSqlMigrations).
THEOREM SchemaAlwaysHolds == SchemaSpec => []SchemaHolds
<1>1. SchemaInv => SchemaHolds
  <2> SUFFICES ASSUME SchemaInv PROVE SchemaHolds
    OBVIOUS
  <2>1. ServingIsMigrated
    BY DEF SchemaInv, Fits, Sound, ServingIsMigrated, Known
  <2>2. ServingIsEnsured
    BY DEF SchemaInv, Fits, Ensured, ServingIsEnsured, Has
  <2>3. Guarded = Files => ExitsHaveACause
    BY DEF SchemaInv, Fits, Undisturbed, ExitsHaveACause
  <2> QED BY <2>1, <2>2, <2>3 DEF SchemaHolds, SchemaInv
<1> QED BY <1>1, SchemaSafety, PTL

-----------------------------------------------------------------------------
(* runFeaturedPropertiesScopeMigration. *)

Places == Migrating \cup Repairing \cup Ended \cup {"check"}

Table(scope, key, spare, oldUnique, unique) ==
  [scope |-> scope, key |-> key, spare |-> spare, oldUnique |-> oldUnique, unique |-> unique]

\* The table of an old installation, with or without the index of position.
Old == {Table(FALSE, "property", FALSE, oldUnique, FALSE) : oldUnique \in BOOLEAN}

\* The table that an undisturbed call at place p finds.
Found(p) ==
  CASE p = "dropUnique" -> Old
    [] p = "dropKey"    -> {Table(FALSE, "property", FALSE, FALSE, FALSE)}
    [] p = "addScope"   -> {Table(FALSE, "none", TRUE, FALSE, FALSE)}
    [] p = "addKey"     -> {Table(TRUE, "none", TRUE, FALSE, FALSE)}
    [] p = "addUnique"  -> {Table(TRUE, "both", FALSE, FALSE, FALSE)}
    [] OTHER            -> {Complete}

Running(c) == at[c] \notin Ended

\* Nothing went wrong so far: one call runs at most, no call is in the repair,
\* each finds its table, and after the first that returned nothing is old.
Orderly ==
  /\ \A c, d \in Calls : Running(c) /\ Running(d) => c = d
  /\ \A c \in Calls : at[c] \in Migrating \cup {"check", "idle", "returned"}
  /\ \A c \in Calls : Running(c) => table \in Found(at[c])
  /\ (\A c \in Calls : ~Running(c)) => table \in Old \cup {Complete}
  /\ (\E c \in Calls : at[c] = "returned") => table = Complete

ScopeInv == at \in [Calls -> Places] /\ (~disturbed => Orderly)

\* No call runs before the first.
LEMMA InitScope == Init => ScopeInv
BY DEF Init, ScopeInv, Places, Migrating, Repairing, Ended, Orderly, Running, Old, Legacy, Table

\* A new call either runs alone or disturbs; it finds an old table or a new one.
LEMMA CallStep ==
  ASSUME ScopeInv, NEW c \in Calls, Call(c)
  PROVE  ScopeInv'
<1> USE DEF Running, Ended, Migrating, Repairing, Places, Goto
<1>1. at' \in [Calls -> Places]
  BY DEF ScopeInv, Call
<1>2. ASSUME ~disturbed' PROVE Orderly'
  <2>1. ~disturbed /\ Orderly /\ (\A d \in Calls : ~Running(d))
    BY <1>2 DEF ScopeInv, Call
  <2>2. table \in Old \cup {Complete} /\ table' = table
    BY <2>1 DEF Orderly, Call
  <2>3. CASE table.scope
    <3>1. table = Complete
      BY <2>2, <2>3 DEF Old, Table
    <3>2. at' = [at EXCEPT ![c] = "returned"]
      BY <2>3 DEF Call
    <3> QED BY <2>1, <2>2, <3>1, <3>2 DEF Orderly, ScopeInv
  <2>4. CASE ~table.scope
    <3>1. table \in Old /\ table # Complete
      BY <2>2, <2>4 DEF Complete, Old, Table
    <3>2. at' = [at EXCEPT ![c] = "dropUnique"]
      BY <2>4 DEF Call
    <3>3. Found("dropUnique") = Old
      BY DEF Found
    <3> QED BY <2>1, <2>2, <3>1, <3>2, <3>3 DEF Orderly, ScopeInv
  <2> QED BY <2>3, <2>4
<1> QED BY <1>1, <1>2 DEF ScopeInv

\* A statement of an undisturbed call leaves the table of the place it leads to.
LEMMA OnwardStep ==
  ASSUME ScopeInv, NEW c \in Calls, at[c] \in Migrating, disturbed' = disturbed,
         NEW next \in Migrating \cup Repairing \cup {"check"},
         at' = [at EXCEPT ![c] = next],
         ~disturbed => next \in Migrating \cup {"check"} /\ table' \in Found(next)
  PROVE  ScopeInv'
<1> USE DEF Running, Ended, Migrating, Repairing, Places
<1>1. at' \in [Calls -> Places]
  BY DEF ScopeInv
<1>2. ASSUME ~disturbed' PROVE Orderly'
  <2>1. ~disturbed /\ Orderly /\ Running(c) /\ table \in Found(at[c])
    BY <1>2 DEF ScopeInv, Orderly
  <2>2. table # Complete
    BY <2>1 DEF Found, Old, Table, Complete
  <2>3. \A d \in Calls \ {c} : at[d] = "idle"
    BY <2>1, <2>2 DEF Orderly
  <2> QED BY <2>1, <2>3 DEF Orderly, ScopeInv
<1> QED BY <1>1, <1>2 DEF ScopeInv

\* What each statement of the first sequence makes of the table it finds.
LEMMA MigratingStep ==
  ASSUME ScopeInv, NEW c \in Calls,
         DropUnique(c) \/ DropKey(c) \/ AddScope(c) \/ AddKey(c) \/ AddUnique(c)
  PROVE  ScopeInv'
<1> USE DEF Migrating, Repairing
<1>1. disturbed' = disturbed /\ at[c] \in Migrating
  BY DEF DropUnique, DropKey, AddScope, AddKey, AddUnique, Alter
<1>2. ~disturbed => table \in Found(at[c])
  BY <1>1 DEF ScopeInv, Orderly, Running, Ended
<1> DEFINE Onward(next) == /\ at' = [at EXCEPT ![c] = next]
                           /\ ~disturbed => next \in Migrating \cup {"check"} /\ table' \in Found(next)
<1>3. \E next \in Migrating \cup Repairing \cup {"check"} : Onward(next)
  <2>1. CASE DropUnique(c)
    <3>1. at[c] = "dropUnique" /\ at' = [at EXCEPT ![c] = "dropKey"]
      BY <2>1 DEF DropUnique, Alter, Goto
    <3>2. ~disturbed => at' = [at EXCEPT ![c] = "dropKey"] /\ table' \in Found("dropKey")
      BY <1>2, <3>1, <2>1 DEF DropUnique, Alter, Goto, Found, Old, Table, Complete
    <3> QED BY <3>1, <3>2
  <2>2. CASE DropKey(c)
    <3>1. at[c] = "dropKey" /\ (at' = [at EXCEPT ![c] = "addScope"] \/ at' = [at EXCEPT ![c] = "repairScope"])
      BY <2>2 DEF DropKey, Alter, Goto
    <3>2. ~disturbed => at' = [at EXCEPT ![c] = "addScope"] /\ table' \in Found("addScope")
      <4> SUFFICES ASSUME ~disturbed PROVE at' = [at EXCEPT ![c] = "addScope"] /\ table' \in Found("addScope")
        OBVIOUS
      <4>1. table = Table(FALSE, "property", FALSE, FALSE, FALSE)
        BY <1>2, <3>1 DEF Found
      <4>2. table.key # "none" /\ ~table.spare
        BY <4>1 DEF Table
      <4>3. table' = [table EXCEPT !.key = "none", !.spare = TRUE] /\ at' = [at EXCEPT ![c] = "addScope"]
        BY <4>2, <2>2 DEF DropKey, Alter, Goto
      <4>4. table' = Table(FALSE, "none", TRUE, FALSE, FALSE)
        BY <4>1, <4>3 DEF Table
      <4> QED BY <4>3, <4>4 DEF Found
    <3>3. CASE ~disturbed
      BY <3>1, <3>2, <3>3
    <3>4. CASE disturbed
      BY <3>1, <3>4
    <3> QED BY <3>3, <3>4
  <2>3. CASE AddScope(c)
    <3>1. at[c] = "addScope" /\ (at' = [at EXCEPT ![c] = "addKey"] \/ at' = [at EXCEPT ![c] = "repairScope"])
      BY <2>3 DEF AddScope, Alter, Goto
    <3>2. ~disturbed => at' = [at EXCEPT ![c] = "addKey"] /\ table' \in Found("addKey")
      BY <1>2, <3>1, <2>3 DEF AddScope, Alter, Goto, Found, Old, Table, Complete
    <3>3. CASE ~disturbed
      BY <3>1, <3>2, <3>3
    <3>4. CASE disturbed
      BY <3>1, <3>4
    <3> QED BY <3>3, <3>4
  <2>4. CASE AddKey(c)
    <3>1. at[c] = "addKey" /\ (at' = [at EXCEPT ![c] = "addUnique"] \/ at' = [at EXCEPT ![c] = "repairScope"])
      BY <2>4 DEF AddKey, Alter, Goto
    <3>2. ~disturbed => at' = [at EXCEPT ![c] = "addUnique"] /\ table' \in Found("addUnique")
      <4> SUFFICES ASSUME ~disturbed PROVE at' = [at EXCEPT ![c] = "addUnique"] /\ table' \in Found("addUnique")
        OBVIOUS
      <4>1. table = Table(TRUE, "none", TRUE, FALSE, FALSE)
        BY <1>2, <3>1 DEF Found
      <4>2. table.spare /\ table.key = "none"
        BY <4>1 DEF Table
      <4>3. table' = [table EXCEPT !.spare = FALSE, !.key = "both"] /\ at' = [at EXCEPT ![c] = "addUnique"]
        BY <4>2, <2>4 DEF AddKey, Alter, Goto
      <4>4. table' = Table(TRUE, "both", FALSE, FALSE, FALSE)
        BY <4>1, <4>3 DEF Table
      <4> QED BY <4>3, <4>4 DEF Found
    <3>3. CASE ~disturbed
      BY <3>1, <3>2, <3>3
    <3>4. CASE disturbed
      BY <3>1, <3>4
    <3> QED BY <3>3, <3>4
  <2>5. CASE AddUnique(c)
    <3>1. at[c] = "addUnique" /\ at' = [at EXCEPT ![c] = "check"]
      BY <2>5 DEF AddUnique, Alter, Goto
    <3>2. ~disturbed => at' = [at EXCEPT ![c] = "check"] /\ table' \in Found("check")
      BY <1>2, <3>1, <2>5 DEF AddUnique, Alter, Goto, Found, Old, Table, Complete
    <3> QED BY <3>1, <3>2
  <2> QED BY <2>1, <2>2, <2>3, <2>4, <2>5
<1>4. PICK next \in Migrating \cup Repairing \cup {"check"} : Onward(next)
  BY <1>3
<1> QED BY <1>1, <1>4, OnwardStep

\* The repair runs after an error only, which disturbs.
LEMMA RepairingStep ==
  ASSUME ScopeInv, NEW c \in Calls, RepairScope(c) \/ RepairKey(c) \/ RepairUnique(c)
  PROVE  ScopeInv'
<1> USE DEF Migrating, Repairing, Ended, Places
<1>1. disturbed' = disturbed /\ at[c] \in Repairing /\ at' \in [Calls -> Places]
  BY DEF RepairScope, RepairKey, RepairUnique, Alter, Goto, ScopeInv
<1>2. disturbed
  BY <1>1 DEF ScopeInv, Orderly
<1> QED BY <1>1, <1>2 DEF ScopeInv

\* The last look finds the column.
LEMMA CheckStep ==
  ASSUME ScopeInv, NEW c \in Calls, Check(c)
  PROVE  ScopeInv'
<1> USE DEF Running, Ended, Migrating, Repairing, Places, Goto
<1>1. at' \in [Calls -> Places]
  BY DEF ScopeInv, Check
<1>2. ASSUME ~disturbed' PROVE Orderly'
  <2>1. ~disturbed /\ Orderly /\ at[c] = "check" /\ table' = table
    BY <1>2 DEF ScopeInv, Check
  <2>2. table = Complete /\ Running(c)
    BY <2>1 DEF Orderly, Found
  <2>3. at' = [at EXCEPT ![c] = "returned"]
    BY <2>2 DEF Check, Complete
  <2> QED BY <2>1, <2>2, <2>3 DEF Orderly, ScopeInv
<1> QED BY <1>1, <1>2 DEF ScopeInv

\* A fault disturbs.
LEMMA FaultStep ==
  ASSUME ScopeInv, Crash \/ \E c \in Calls : StatementFails(c)
  PROVE  ScopeInv'
<1>1. disturbed' /\ at' \in [Calls -> Places]
  BY DEF Crash, StatementFails, AfterError, Goto, ScopeInv, Places, Migrating, Repairing, Ended
<1> QED BY <1>1 DEF ScopeInv

\* Where calls are tells what the table is, while nothing went wrong.
THEOREM ScopeSafety == Spec => []ScopeInv
<1>1. ScopeInv /\ [Next]_vars => ScopeInv'
  <2> SUFFICES ASSUME ScopeInv, [Next]_vars PROVE ScopeInv'
    OBVIOUS
  <2>1. CASE UNCHANGED vars
    BY <2>1 DEF vars, ScopeInv, Orderly, Running
  <2> QED
    BY <2>1, CallStep, MigratingStep, RepairingStep, CheckStep, FaultStep DEF Next
<1> QED BY <1>1, InitScope, PTL DEF Spec

\* When nothing went wrong and no call runs, a call that returned has left the
\* new table (runFeaturedPropertiesScopeMigration), however many calls there were.
THEOREM ScopeIsComplete == Spec => []CompleteUnlessDisturbed
<1>1. ScopeInv => CompleteUnlessDisturbed
  BY DEF ScopeInv, Orderly, CompleteUnlessDisturbed
<1> QED BY <1>1, ScopeSafety, PTL

-----------------------------------------------------------------------------
(* Requests to the support, and notices.                                   *)

\* Requests to the support under way.
Busy == {q \in Requests : ask[q] \in Asking}

\* A request that was sent has its row, and what was sent and what may still be
\* was let through at once.
SupportInv ==
  /\ rows \subseteq Requests /\ sent \subseteq rows
  /\ ask \in [Requests -> {"idle"} \cup Asking \cup Answers]
  /\ \A q \in Requests : ask[q] = "recorded" => q \in rows
  /\ Cardinality(sent \cup Busy) <= AtOnce

\* Dispatches that are about to tell user u of a kind under role r.
Pending(u, r, kind) ==
  {d \in noticeLoad.dispatches : dispatch[d].at = "insert" /\ dispatch[d].kind = kind
                                   /\ dispatch[d].role = r /\ u \in dispatch[d].allowed}

\* Who is about to be told counts as told: that is what overlaps add.
OverlapsAreCounted ==
  \A u \in Users, r \in Roles, kind \in {"drop", "promotion"} :
    /\ IsFiniteSet(Fresh(u, r, kind))
    /\ Cardinality(Fresh(u, r, kind)) + Cardinality(Pending(u, r, kind))
         <= Cardinality(noticeLoad.dispatches)

FreshIsTold == \A n \in notices : n.fresh => <<n.to, n.kind, n.role>> \in told

\* Whom a dispatch in state s has behind it, `who` having been told.
SoFar(s, who) ==
  s.at # "idle" =>
    /\ s.role = "broker" => \A u \in s.groups["client"] : <<u, s.kind, "client">> \in who
    /\ s.at = "insert" =>
         \A u \in s.groups[s.role] : u \in s.allowed \/ <<u, s.kind, s.role>> \in who
    /\ s.at = "push" => \A u \in s.groups[s.role] : <<u, s.kind, s.role>> \in who
    /\ s.at = "done" =>
         s.role = "broker" /\ \A u \in s.groups["broker"] : <<u, s.kind, "broker">> \in who

NoticesInv ==
  /\ NoticeTypes /\ OverlapsAreCounted /\ FreshIsTold
  /\ \A d \in Dispatches : SoFar(dispatch[d], told)

-----------------------------------------------------------------------------
\* One element adds one at most.
LEMMA OneMore ==
  ASSUME NEW S, IsFiniteSet(S), NEW x
  PROVE  /\ IsFiniteSet(S \cup {x})
         /\ Cardinality(S) \in Nat /\ Cardinality(S \cup {x}) \in Nat
         /\ Cardinality(S \cup {x}) <= Cardinality(S) + 1
<1>1. IsFiniteSet(S \cup {x})
  BY FS_AddElement
<1>2. Cardinality(S \cup {x}) = IF x \in S THEN Cardinality(S) ELSE Cardinality(S) + 1
  BY FS_AddElement
<1>3. Cardinality(S) \in Nat /\ Cardinality(S \cup {x}) \in Nat
  BY <1>1, FS_CardinalityType
<1> QED BY <1>1, <1>2, <1>3

\* One step for each statement of a request to the support.
LEMMA SupportStep == SupportInv /\ [SupportNext]_supportVars => SupportInv'
<1> SUFFICES ASSUME SupportInv, [SupportNext]_supportVars PROVE SupportInv'
  OBVIOUS
<1> USE SupportAssumption
<1>1. /\ IsFiniteSet(Busy) /\ IsFiniteSet(sent) /\ IsFiniteSet(sent \cup Busy)
      /\ Cardinality(sent \cup Busy) \in Nat /\ Cardinality(Busy) \in Nat
  <2>1. IsFiniteSet(Busy) /\ IsFiniteSet(sent)
    BY FS_Subset DEF Busy, SupportInv
  <2>2. IsFiniteSet(sent \cup Busy)
    BY <2>1, FS_Union
  <2> QED BY <2>1, <2>2, FS_CardinalityType
<1>2. ASSUME sent' \cup Busy' \subseteq sent \cup Busy PROVE Cardinality(sent \cup Busy)' <= AtOnce
  <2>1. Cardinality(sent' \cup Busy') <= Cardinality(sent \cup Busy) /\ IsFiniteSet(sent' \cup Busy')
    BY <1>1, <1>2, FS_Subset
  <2>2. Cardinality(sent' \cup Busy') \in Nat
    BY <2>1, FS_CardinalityType
  <2> QED BY <1>1, <2>1, <2>2 DEF SupportInv
<1>3. ASSUME NEW q \in Requests, AskSupport(q) PROVE SupportInv'
  <2>1. /\ ask' = [ask EXCEPT ![q] = IF rows = {} THEN "allowed" ELSE "refused"]
        /\ ask[q] = "idle" /\ rows' = rows /\ sent' = sent
    BY <1>3 DEF AskSupport
  <2>2. Cardinality(Busy) < AtOnce
    BY <1>3 DEF AskSupport, Busy
  <2>3. /\ ask' \in [Requests -> {"idle"} \cup Asking \cup Answers]
        /\ \A o \in Requests : ask'[o] = "recorded" => o \in rows'
    BY <2>1 DEF SupportInv, Asking, Answers
  <2>4. Cardinality(sent \cup Busy)' <= AtOnce
    <3>1. CASE rows = {}
      <4>1. sent' \cup Busy' \subseteq Busy \cup {q}
        BY <2>1, <3>1 DEF SupportInv, Busy
      <4>2. IsFiniteSet(Busy \cup {q}) /\ Cardinality(Busy \cup {q}) <= Cardinality(Busy) + 1
        BY <1>1, OneMore
      <4>3. Cardinality(sent' \cup Busy') <= Cardinality(Busy \cup {q}) /\ IsFiniteSet(sent' \cup Busy')
        BY <4>1, <4>2, FS_Subset
      <4>4. Cardinality(sent' \cup Busy') \in Nat /\ Cardinality(Busy \cup {q}) \in Nat
        BY <4>2, <4>3, FS_CardinalityType
      <4> QED BY <1>1, <2>2, <4>2, <4>3, <4>4
    <3>2. CASE rows # {}
      <4>1. sent' \cup Busy' \subseteq sent \cup Busy
        BY <2>1, <3>2 DEF SupportInv, Busy, Asking
      <4> QED BY <1>2, <4>1
    <3> QED BY <3>1, <3>2
  <2> QED BY <2>1, <2>3, <2>4 DEF SupportInv
<1>4. ASSUME NEW q \in Requests, NEW p \in {"idle"} \cup Asking \cup Answers,
             ask' = [ask EXCEPT ![q] = p], rows \subseteq rows', rows' \subseteq rows \cup {q},
             p \in Asking => ask[q] \in Asking, p = "recorded" => q \in rows',
             sent' \subseteq sent \cup {q}, q \in sent' /\ q \notin sent => ask[q] = "recorded"
      PROVE  SupportInv'
  <2>1. ask' \in [Requests -> {"idle"} \cup Asking \cup Answers]
    BY <1>4 DEF SupportInv
  <2>2. sent' \cup Busy' \subseteq sent \cup Busy
    BY <1>4 DEF SupportInv, Busy, Asking
  <2>3. /\ rows' \subseteq Requests /\ sent' \subseteq rows'
        /\ \A o \in Requests : ask'[o] = "recorded" => o \in rows'
    BY <1>4 DEF SupportInv
  <2> QED BY <1>2, <2>1, <2>2, <2>3 DEF SupportInv
<1>5. ASSUME NEW q \in Requests, RecordRequest(q) PROVE SupportInv'
  BY <1>4, <1>5 DEF RecordRequest, Asking
<1>6. ASSUME NEW q \in Requests, NotifyAdmins(q) PROVE SupportInv'
  BY <1>4, <1>6 DEF NotifyAdmins, Asking, Answers
<1>7. ASSUME NEW q \in Requests, RequestFails(q) PROVE SupportInv'
  BY <1>4, <1>7 DEF RequestFails, Asking, Answers
<1>8. ASSUME NEW q \in Requests, AskAgain(q) PROVE SupportInv'
  BY <1>4, <1>8 DEF AskAgain, Asking, Answers
<1>9. CASE NextDay
  <2>1. sent' \cup Busy' \subseteq sent \cup Busy
    BY <1>9 DEF NextDay, Busy, Asking
  <2> QED BY <1>2, <1>9, <2>1 DEF SupportInv, NextDay
<1>10. CASE UNCHANGED supportVars
  <2>1. sent' \cup Busy' \subseteq sent \cup Busy
    BY <1>10 DEF supportVars, Busy
  <2> QED BY <1>2, <1>10, <2>1 DEF SupportInv, supportVars
<1> QED BY <1>3, <1>5, <1>6, <1>7, <1>8, <1>9, <1>10 DEF SupportNext

\* UserController.requestSupport, for any number of requests: the row that is
\* inserted before the administrators are notified refuses what comes later.
THEOREM SupportSafety == SupportSpec => [](SupportInv /\ OneADay)
<1> USE SupportAssumption
<1>1. SupportInit => SupportInv
  <2> SUFFICES ASSUME SupportInit PROVE SupportInv
    OBVIOUS
  <2>1. sent \cup Busy = {}
    BY DEF SupportInit, Busy, Asking
  <2> QED BY <2>1, FS_EmptySet DEF SupportInit, SupportInv
<1>2. SupportInv => OneADay
  <2> SUFFICES ASSUME SupportInv PROVE OneADay
    OBVIOUS
  <2>1. IsFiniteSet(Busy) /\ IsFiniteSet(sent)
    BY FS_Subset DEF Busy, SupportInv
  <2>2. IsFiniteSet(sent \cup Busy)
    BY <2>1, FS_Union
  <2>3. Cardinality(sent) <= Cardinality(sent \cup Busy)
    BY <2>2, FS_Subset
  <2>4. Cardinality(sent) \in Nat /\ Cardinality(sent \cup Busy) \in Nat
    BY <2>1, <2>2, FS_CardinalityType
  <2> QED BY <2>3, <2>4 DEF SupportInv, OneADay
<1> QED BY <1>1, <1>2, SupportStep, PTL DEF SupportSpec

-----------------------------------------------------------------------------
(* Dispatches.                                                             *)

\* What the bounds and the users are.
LEMMA NoticesFit ==
  ASSUME NoticeTypes
  PROVE  /\ noticeLoad.dispatches \subseteq Dispatches /\ IsFiniteSet(noticeLoad.dispatches)
         /\ Cardinality(noticeLoad.dispatches) \in Nat
         /\ noticeLoad.users \subseteq Users /\ noticeLoad.readers \subseteq Users
         /\ Marked \subseteq Users
         /\ \A U \in SUBSET Users : IsFiniteSet(U) /\ Cardinality(U) \in Nat
         /\ lastId \in Nat
<1>1. /\ noticeLoad.dispatches \subseteq Dispatches /\ noticeLoad.users \subseteq Users
      /\ noticeLoad.readers \subseteq Users
  BY NoticesAssumption DEF NoticeTypes
<1>2. IsFiniteSet(noticeLoad.dispatches) /\ \A U \in SUBSET Users : IsFiniteSet(U)
  BY <1>1, NoticesAssumption, FS_Subset
<1>3. Marked \subseteq Users
  BY <1>1 DEF Marked
<1>4. lastId \in Nat
  BY NoticesAssumption DEF NoticeTypes
<1> QED BY <1>1, <1>2, <1>3, <1>4, FS_CardinalityType

\* What a user is about to be told is finite, and grows with the dispatches.
LEMMA PendingFits ==
  ASSUME NoticeTypes, NEW u, NEW r, NEW kind
  PROVE  /\ Pending(u, r, kind) \subseteq noticeLoad.dispatches
         /\ IsFiniteSet(Pending(u, r, kind)) /\ Cardinality(Pending(u, r, kind)) \in Nat
         /\ \A D \in SUBSET Pending(u, r, kind) :
              Cardinality(D) \in Nat /\ Cardinality(D) <= Cardinality(Pending(u, r, kind))
         /\ Cardinality(Pending(u, r, kind)) <= Cardinality(noticeLoad.dispatches)
<1>1. Pending(u, r, kind) \subseteq noticeLoad.dispatches
  BY DEF Pending
<1>2. /\ IsFiniteSet(Pending(u, r, kind))
      /\ Cardinality(Pending(u, r, kind)) <= Cardinality(noticeLoad.dispatches)
  BY <1>1, NoticesFit, FS_Subset
<1>3. \A D \in SUBSET Pending(u, r, kind) :
        IsFiniteSet(D) /\ Cardinality(D) <= Cardinality(Pending(u, r, kind))
  BY <1>2, FS_Subset
<1> QED BY <1>1, <1>2, <1>3, FS_CardinalityType

\* A dispatch that goes to its next group, or ends, has this one behind it.
LEMMA OnwardsFits ==
  ASSUME NEW s \in Dispatch, NEW who, s.at # "idle", SoFar(s, who),
         \A u \in s.groups[s.role] : <<u, s.kind, s.role>> \in who
  PROVE  Onwards(s) \in Dispatch /\ SoFar(Onwards(s), who) /\ Onwards(s).at # "insert"
<1>1. CASE s.role = "client"
  <2> DEFINE t == [s EXCEPT !.at = "filter", !.role = "broker", !.allowed = {}]
  <2>1. Onwards(s) = t
    BY <1>1 DEF Onwards
  <2>2. t \in Dispatch /\ t.at = "filter" /\ t.kind = s.kind /\ t.groups = s.groups
    BY DEF Dispatch, Roles
  <2> HIDE DEF t
  <2> QED BY <1>1, <2>1, <2>2 DEF SoFar
<1>2. CASE s.role = "broker"
  <2> DEFINE t == [s EXCEPT !.at = "done", !.allowed = {}]
  <2>1. Onwards(s) = t
    BY <1>2 DEF Onwards
  <2>2. t \in Dispatch /\ t.at = "done" /\ t.role = "broker" /\ t.kind = s.kind /\ t.groups = s.groups
    BY <1>2 DEF Dispatch, Roles
  <2> HIDE DEF t
  <2> QED BY <1>2, <2>1, <2>2 DEF SoFar
<1> QED BY <1>1, <1>2 DEF Dispatch, Roles

\* A dispatch goes on and tells nobody yet: whom it is about to tell has no
\* fresh notice.
LEMMA DispatchMoves ==
  ASSUME NoticesInv, NEW d \in noticeLoad.dispatches, NEW t \in Dispatch,
         dispatch' = [dispatch EXCEPT ![d] = t], SoFar(t, told),
         t.at = "insert" =>
           \A u \in t.allowed : t.kind # "announcement" => Fresh(u, t.role, t.kind) = {},
         UNCHANGED <<noticeLoad, asked, bstatus, notices, lastId, told, shown>>,
         listing' \in [purpose : {"sale", "both"}, price : Prices, sale : Prices,
                       rent : Prices \cup {Null}]
  PROVE  NoticesInv'
<1>0. NoticeTypes /\ d \in Dispatches
  BY NoticesFit DEF NoticesInv
<1>1. /\ dispatch' \in [Dispatches -> Dispatch] /\ dispatch'[d] = t
      /\ \A o \in Dispatches \ {d} : dispatch'[o] = dispatch[o]
  BY <1>0 DEF NoticeTypes
<1>2. NoticeTypes'
  BY <1>0, <1>1 DEF NoticeTypes
<1>3. OverlapsAreCounted'
  <2> SUFFICES ASSUME NEW u \in Users, NEW r \in Roles, NEW kind \in {"drop", "promotion"}
               PROVE  /\ IsFiniteSet(Fresh(u, r, kind)')
                      /\ Cardinality(Fresh(u, r, kind)') + Cardinality(Pending(u, r, kind)')
                           <= Cardinality(noticeLoad'.dispatches)
    BY DEF OverlapsAreCounted
  <2>1. Fresh(u, r, kind)' = Fresh(u, r, kind)
    BY DEF Fresh
  <2>2. /\ IsFiniteSet(Fresh(u, r, kind)) /\ Cardinality(Fresh(u, r, kind)) \in Nat
        /\ Cardinality(Fresh(u, r, kind)) + Cardinality(Pending(u, r, kind))
             <= Cardinality(noticeLoad.dispatches)
    BY FS_CardinalityType DEF NoticesInv, OverlapsAreCounted
  <2>3. /\ Cardinality(Pending(u, r, kind)') \in Nat
        /\ Cardinality(Pending(u, r, kind)') <= Cardinality(noticeLoad.dispatches)
    <3>1. Pending(u, r, kind)' \subseteq noticeLoad.dispatches
      BY DEF Pending
    <3>2. /\ IsFiniteSet(Pending(u, r, kind)')
          /\ Cardinality(Pending(u, r, kind)') <= Cardinality(noticeLoad.dispatches)
      BY <1>0, <3>1, NoticesFit, FS_Subset
    <3> QED BY <3>2, FS_CardinalityType
  <2>4. CASE d \in Pending(u, r, kind)'
    <3>1. t.at = "insert" /\ t.kind = kind /\ t.role = r /\ u \in t.allowed
      BY <1>1, <2>4 DEF Pending
    <3>2. Fresh(u, r, kind) = {}
      BY <3>1
    <3>3. Cardinality(Fresh(u, r, kind)) = 0
      BY <3>2, FS_EmptySet
    <3> QED BY <2>1, <2>2, <2>3, <3>3
  <2>5. CASE d \notin Pending(u, r, kind)'
    <3>1. Pending(u, r, kind)' \subseteq Pending(u, r, kind)
      BY <1>0, <1>1, <2>5, NoticesFit DEF Pending
    <3>2. Cardinality(Pending(u, r, kind)') <= Cardinality(Pending(u, r, kind))
      BY <1>0, <3>1, PendingFits
    <3>3. Cardinality(Pending(u, r, kind)) \in Nat /\ Cardinality(noticeLoad.dispatches) \in Nat
      BY <1>0, PendingFits, NoticesFit
    <3> QED BY <2>1, <2>2, <2>3, <3>2, <3>3
  <2> QED BY <2>4, <2>5
<1>4. FreshIsTold'
  BY DEF NoticesInv, FreshIsTold
<1>5. \A o \in Dispatches : SoFar(dispatch'[o], told')
  BY <1>1 DEF NoticesInv
<1> QED BY <1>2, <1>3, <1>4, <1>5 DEF NoticesInv

\* The rows of users who read, or what they are shown, change; no new ones come.
LEMMA NoticesGo ==
  ASSUME NoticesInv, notices' \subseteq notices, UNCHANGED <<noticeLoad, lastId, listing, dispatch, told>>,
         bstatus' \in [Users -> Statuses], shown' \in [Users -> SUBSET (1..lastId)],
         asked' \in [Users -> SUBSET Roles]
  PROVE  NoticesInv'
<1>0. NoticeTypes
  BY DEF NoticesInv
<1>1. NoticeTypes'
  BY <1>0 DEF NoticeTypes
<1>2. OverlapsAreCounted'
  <2> SUFFICES ASSUME NEW u \in Users, NEW r \in Roles, NEW kind \in {"drop", "promotion"}
               PROVE  /\ IsFiniteSet(Fresh(u, r, kind)')
                      /\ Cardinality(Fresh(u, r, kind)') + Cardinality(Pending(u, r, kind)')
                           <= Cardinality(noticeLoad'.dispatches)
    BY DEF OverlapsAreCounted
  <2>1. /\ IsFiniteSet(Fresh(u, r, kind))
        /\ Cardinality(Fresh(u, r, kind)) + Cardinality(Pending(u, r, kind))
             <= Cardinality(noticeLoad.dispatches)
    BY DEF NoticesInv, OverlapsAreCounted
  <2>2. Fresh(u, r, kind)' \subseteq Fresh(u, r, kind) /\ Pending(u, r, kind)' = Pending(u, r, kind)
    BY DEF Fresh, Pending
  <2>3. /\ IsFiniteSet(Fresh(u, r, kind)')
        /\ Cardinality(Fresh(u, r, kind)') <= Cardinality(Fresh(u, r, kind))
    BY <2>1, <2>2, FS_Subset
  <2>4. /\ Cardinality(Fresh(u, r, kind)) \in Nat /\ Cardinality(Fresh(u, r, kind)') \in Nat
        /\ Cardinality(Pending(u, r, kind)) \in Nat /\ Cardinality(noticeLoad.dispatches) \in Nat
    BY <1>0, <2>1, <2>3, FS_CardinalityType, PendingFits, NoticesFit
  <2> QED BY <2>1, <2>2, <2>3, <2>4
<1>3. FreshIsTold'
  BY DEF NoticesInv, FreshIsTold
<1>4. \A d \in Dispatches : SoFar(dispatch'[d], told')
  BY DEF NoticesInv
<1> QED BY <1>1, <1>2, <1>3, <1>4 DEF NoticesInv

\* A dispatch that begins has nobody behind it.
LEMMA BeginFits ==
  ASSUME NEW kind \in Kinds, NEW groups \in [Roles -> SUBSET Users], NEW who
  PROVE  LET t == [at |-> "filter", kind |-> kind, role |-> "client", groups |-> groups, allowed |-> {}]
         IN  t \in Dispatch /\ SoFar(t, who) /\ t.at = "filter"
<1> DEFINE t == [at |-> "filter", kind |-> kind, role |-> "client", groups |-> groups, allowed |-> {}]
<1>1. t \in Dispatch /\ t.at = "filter" /\ t.role = "client"
  BY DEF Dispatch, Roles
<1> HIDE DEF t
<1>2. SoFar(t, who)
  BY <1>1 DEF SoFar
<1> QED BY <1>1, <1>2 DEF t

\* What starts a dispatch: a lower price, a promotion, an administrator.
LEMMA AnnounceStep ==
  ASSUME NoticesInv, NEW d \in noticeLoad.dispatches, UNCHANGED <<noticeLoad, asked>>,
         UpdatePrice(d) \/ StartPromotion(d) \/ Announce(d)
  PROVE  NoticesInv'
<1>0. /\ NoticeTypes /\ d \in Dispatches /\ dispatch[d] \in Dispatch /\ SoFar(dispatch[d], told)
      /\ listing \in [purpose : {"sale", "both"}, price : Prices, sale : Prices,
                      rent : Prices \cup {Null}]
      /\ dispatch[d].at = "idle" /\ Marked \subseteq Users /\ noticeLoad.users \subseteq Users
  BY NoticesFit DEF NoticesInv, NoticeTypes, UpdatePrice, StartPromotion, Announce
<1>1. UNCHANGED <<noticeLoad, asked, bstatus, notices, lastId, told, shown>>
  BY DEF UpdatePrice, StartPromotion, Announce
<1>2. listing' \in [purpose : {"sale", "both"}, price : Prices, sale : Prices,
                    rent : Prices \cup {Null}]
  <2>1. CASE UpdatePrice(d)
    <3>1. PICK key \in {"price", "sale", "rent"}, p \in Prices, purpose \in {"sale", "both"} :
            listing' = [listing EXCEPT ![key] = p, !.purpose = purpose]
      BY <2>1 DEF UpdatePrice
    <3>2. CASE key = "price"
      BY <1>0, <3>1, <3>2
    <3>3. CASE key = "sale"
      BY <1>0, <3>1, <3>3
    <3>4. CASE key = "rent"
      BY <1>0, <3>1, <3>4
    <3> QED BY <3>2, <3>3, <3>4
  <2>2. CASE StartPromotion(d) \/ Announce(d)
    BY <1>0, <2>2 DEF StartPromotion, Announce
  <2> QED BY <2>1, <2>2
<1>3. ASSUME NEW kind \in Kinds, NEW groups \in [Roles -> SUBSET Users], Start(d, kind, groups)
      PROVE  NoticesInv'
  <2> DEFINE t == [at |-> "filter", kind |-> kind, role |-> "client", groups |-> groups, allowed |-> {}]
  <2>1. t \in Dispatch /\ SoFar(t, told) /\ t.at = "filter"
    BY BeginFits
  <2>2. dispatch' = [dispatch EXCEPT ![d] = t]
    BY <1>3 DEF Start
  <2> HIDE DEF t
  <2> QED BY <1>1, <1>2, <2>1, <2>2, DispatchMoves
<1>4. ASSUME UNCHANGED dispatch PROVE NoticesInv'
  <2>1. dispatch' = [dispatch EXCEPT ![d] = dispatch[d]]
    BY <1>0, <1>4 DEF NoticeTypes
  <2> QED BY <1>0, <1>1, <1>2, <2>1, DispatchMoves
<1>5. ASSUME NEW ids \in SUBSET Users PROVE Split(ids) \in [Roles -> SUBSET Users]
  BY <1>5 DEF Split
<1>6. CASE UpdatePrice(d)
  <2>1. UNCHANGED dispatch \/ Start(d, "drop", Split(Marked))
    BY <1>6 DEF UpdatePrice
  <2> QED BY <1>0, <1>3, <1>4, <1>5, <2>1 DEF Kinds
<1>7. CASE StartPromotion(d)
  BY <1>0, <1>3, <1>5, <1>7 DEF Kinds, StartPromotion
<1>8. CASE Announce(d)
  <2>1. PICK audience \in Roles \cup {"all", "favorites"}, ids \in SUBSET Users :
          Start(d, "announcement", [r \in Roles |-> IF audience \in Roles \ {r} THEN {} ELSE Split(ids)[r]])
    <3>1. PICK audience \in Roles \cup {"all", "favorites"}, named \in SUBSET noticeLoad.users :
            LET ids == IF audience = "favorites" THEN named \cap Marked ELSE named IN
              Start(d, "announcement",
                    [r \in Roles |-> IF audience \in Roles \ {r} THEN {} ELSE Split(ids)[r]])
      BY <1>8 DEF Announce
    <3> DEFINE ids == IF audience = "favorites" THEN named \cap Marked ELSE named
    <3>2. ids \in SUBSET Users
      BY <1>0
    <3>3. Start(d, "announcement", [r \in Roles |-> IF audience \in Roles \ {r} THEN {} ELSE Split(ids)[r]])
      BY <3>1
    <3> HIDE DEF ids
    <3> QED BY <3>2, <3>3
  <2>2. [r \in Roles |-> IF audience \in Roles \ {r} THEN {} ELSE Split(ids)[r]]
          \in [Roles -> SUBSET Users]
    BY <1>5
  <2> QED BY <1>3, <2>1, <2>2 DEF Kinds
<1> QED BY <1>6, <1>7, <1>8

\* Who is left out was told before; and of who is not there is no fresh notice.
LEMMA FilterStep ==
  ASSUME NoticesInv, NEW d \in noticeLoad.dispatches, UNCHANGED <<noticeLoad, asked>>, Filter(d)
  PROVE  NoticesInv'
<1> DEFINE s == dispatch[d]
<1>0. /\ NoticeTypes /\ d \in Dispatches /\ s \in Dispatch /\ SoFar(s, told) /\ s.at = "filter"
      /\ UNCHANGED <<noticeLoad, asked, bstatus, notices, lastId, told, shown, listing>>
  BY NoticesFit DEF NoticesInv, NoticeTypes, Filter
<1>1. dispatch' = [dispatch EXCEPT ![d] =
         IF Allowed(s) = {} THEN Onwards(s) ELSE [s EXCEPT !.at = "insert", !.allowed = Allowed(s)]]
  BY DEF Filter
<1>a. listing \in [purpose : {"sale", "both"}, price : Prices, sale : Prices, rent : Prices \cup {Null}]
  BY <1>0 DEF NoticeTypes
<1> HIDE DEF s
<1>2. Allowed(s) \subseteq s.groups[s.role] /\ s.groups[s.role] \subseteq Users
  BY <1>0 DEF Allowed, Dispatch
<1>3. \A u \in s.groups[s.role] : u \in Allowed(s) \/ <<u, s.kind, s.role>> \in told
  <2> SUFFICES ASSUME NEW u \in s.groups[s.role], u \notin Allowed(s) PROVE <<u, s.kind, s.role>> \in told
    OBVIOUS
  <2>1. u \in CoolingDown(s)
    BY DEF Allowed
  <2>2. PICK n \in notices : n.fresh /\ n.kind = s.kind /\ n.role = s.role /\ n.to = u
    BY <2>1 DEF CoolingDown
  <2> QED BY <2>2 DEF NoticesInv, FreshIsTold
<1>4. \A u \in Allowed(s) : s.kind # "announcement" => Fresh(u, s.role, s.kind) = {}
  BY DEF Allowed, CoolingDown, Fresh
<1>5. CASE Allowed(s) = {}
  <2>1. Onwards(s) \in Dispatch /\ SoFar(Onwards(s), told) /\ Onwards(s).at # "insert"
    BY <1>0, <1>3, <1>5, OnwardsFits
  <2>2. dispatch' = [dispatch EXCEPT ![d] = Onwards(s)]
    BY <1>1, <1>5
  <2> QED BY <1>0, <1>a, <2>1, <2>2, DispatchMoves
<1>6. CASE Allowed(s) # {}
  <2> DEFINE t == [s EXCEPT !.at = "insert", !.allowed = Allowed(s)]
  <2>1. dispatch' = [dispatch EXCEPT ![d] = t]
    BY <1>1, <1>6
  <2>2. /\ t \in Dispatch /\ t.at = "insert" /\ t.allowed = Allowed(s)
        /\ t.kind = s.kind /\ t.role = s.role /\ t.groups = s.groups
    BY <1>0, <1>2 DEF Dispatch
  <2> HIDE DEF t
  <2>3. SoFar(t, told)
    BY <1>0, <1>3, <2>2 DEF SoFar
  <2> QED BY <1>0, <1>4, <1>a, <2>1, <2>2, <2>3, DispatchMoves
<1> QED BY <1>5, <1>6

\* A push, a failure, the end.
LEMMA PushStep ==
  ASSUME NoticesInv, NEW d \in noticeLoad.dispatches, UNCHANGED <<noticeLoad, asked>>,
         Push(d) \/ DispatchFails(d) \/ Finish(d)
  PROVE  NoticesInv'
<1> DEFINE s == dispatch[d]
<1>0. /\ NoticeTypes /\ d \in Dispatches /\ s \in Dispatch /\ SoFar(s, told)
      /\ UNCHANGED <<noticeLoad, asked, bstatus, notices, lastId, told, shown, listing>>
  BY NoticesFit DEF NoticesInv, NoticeTypes, Push, DispatchFails, Finish
<1>a. listing \in [purpose : {"sale", "both"}, price : Prices, sale : Prices, rent : Prices \cup {Null}]
  BY <1>0 DEF NoticeTypes
<1>1. CASE Push(d)
  <2>1. s.at = "push" /\ dispatch' = [dispatch EXCEPT ![d] = Onwards(s)]
    BY <1>0, <1>1 DEF Push, NoticeTypes
  <2> HIDE DEF s
  <2>2. Onwards(s) \in Dispatch /\ SoFar(Onwards(s), told) /\ Onwards(s).at # "insert"
    <3>1. \A u \in s.groups[s.role] : <<u, s.kind, s.role>> \in told
      BY <1>0, <2>1 DEF SoFar
    <3> QED BY <1>0, <2>1, <3>1, OnwardsFits
  <2> QED BY <1>0, <1>a, <2>1, <2>2, DispatchMoves
<1>2. CASE DispatchFails(d) \/ Finish(d)
  <2>1. dispatch' = [dispatch EXCEPT ![d] = Idle]
    BY <1>2 DEF DispatchFails, Finish
  <2>2. Idle \in Dispatch /\ Idle.at = "idle" /\ SoFar(Idle, told)
    BY DEF Idle, Dispatch, Kinds, Roles, SoFar
  <2> QED BY <1>0, <1>a, <2>1, <2>2, DispatchMoves
<1> QED BY <1>1, <1>2

\* Everyone the dispatch was about to tell has one notice more and one dispatch
\* less that is about to.
LEMMA InsertStep ==
  ASSUME NoticesInv, NEW d \in noticeLoad.dispatches, UNCHANGED <<noticeLoad, asked>>, InsertNotices(d)
  PROVE  NoticesInv'
<1> DEFINE s == dispatch[d]
           t == [s EXCEPT !.at = "push"]
           count == Cardinality(s.allowed)
<1>0. NoticeTypes /\ d \in Dispatches /\ s \in Dispatch /\ SoFar(s, told) /\ s.at = "insert"
  BY NoticesFit DEF NoticesInv, NoticeTypes, InsertNotices
<1>1. /\ lastId + count <= MaxNotices /\ lastId' = lastId + count
      /\ told' = told \cup {<<u, s.kind, s.role>> : u \in s.allowed}
      /\ dispatch' = [dispatch EXCEPT ![d] = t]
      /\ UNCHANGED <<noticeLoad, asked, bstatus, listing, shown>>
  BY <1>0 DEF InsertNotices, NoticeTypes
<1>2. PICK id \in [s.allowed -> (lastId + 1)..(lastId + count)] :
        notices' = notices \cup
          {[id |-> id[u], kind |-> s.kind, to |-> u, role |-> s.role, fresh |-> TRUE] : u \in s.allowed}
  BY DEF InsertNotices
<1>3. s.allowed \subseteq Users /\ count \in Nat /\ lastId \in Nat /\ lastId' \in 0..MaxNotices /\ lastId <= lastId'
  <2>1. s.allowed \subseteq Users
    BY <1>0 DEF Dispatch
  <2>2. count \in Nat /\ lastId \in Nat
    BY <1>0, <2>1, NoticesFit
  <2> QED BY <1>1, <2>1, <2>2, NoticesAssumption
<1>4. /\ t \in Dispatch /\ t.at = "push" /\ t.kind = s.kind /\ t.role = s.role /\ t.groups = s.groups
      /\ s.kind \in Kinds /\ s.role \in Roles
  BY <1>0 DEF Dispatch
<1> DEFINE New(u) == [id |-> id[u], kind |-> s.kind, to |-> u, role |-> s.role, fresh |-> TRUE]
<1>5. /\ \A u \in s.allowed : New(u) \in [id : 1..lastId', kind : Kinds, to : Users, role : Roles, fresh : BOOLEAN]
      /\ \A u : New(u).fresh /\ New(u).to = u /\ New(u).kind = s.kind /\ New(u).role = s.role
  <2>1. \A u \in s.allowed : id[u] \in 1..lastId'
    BY <1>1, <1>3
  <2> QED BY <1>3, <1>4, <2>1
<1>6. \A n \in notices' : n \in notices \/ \E u \in s.allowed : n = New(u)
  BY <1>2
<1>7. \A u \in s.allowed : New(u) \in notices'
  BY <1>2
<1>8. notices \subseteq notices'
  BY <1>2
<1> HIDE DEF s, t, count, New
<1>9. /\ dispatch' \in [Dispatches -> Dispatch] /\ dispatch'[d] = t
      /\ \A o \in Dispatches \ {d} : dispatch'[o] = dispatch[o]
  BY <1>0, <1>1, <1>4 DEF NoticeTypes
<1>10. NoticeTypes'
  <2>1. \A n \in notices : n \in [id : 1..lastId', kind : Kinds, to : Users, role : Roles, fresh : BOOLEAN]
    BY <1>0, <1>3 DEF NoticeTypes
  <2>2. notices' \subseteq [id : 1..lastId', kind : Kinds, to : Users, role : Roles, fresh : BOOLEAN]
    BY <1>5, <1>6, <2>1
  <2>3. shown' \in [Users -> SUBSET (1..lastId')]
    <3>1. \A S \in SUBSET (1..lastId) : S \in SUBSET (1..lastId')
      BY <1>3
    <3> QED BY <1>0, <1>1, <3>1 DEF NoticeTypes
  <2> QED BY <1>0, <1>1, <1>3, <1>9, <2>2, <2>3 DEF NoticeTypes
<1>11. OverlapsAreCounted'
  <2> SUFFICES ASSUME NEW u \in Users, NEW r \in Roles, NEW kind \in {"drop", "promotion"}
               PROVE  /\ IsFiniteSet(Fresh(u, r, kind)')
                      /\ Cardinality(Fresh(u, r, kind)') + Cardinality(Pending(u, r, kind)')
                           <= Cardinality(noticeLoad'.dispatches)
    BY DEF OverlapsAreCounted
  <2>1. /\ IsFiniteSet(Fresh(u, r, kind)) /\ Cardinality(Fresh(u, r, kind)) \in Nat
        /\ IsFiniteSet(Pending(u, r, kind)) /\ Cardinality(Pending(u, r, kind)) \in Nat
        /\ Cardinality(Fresh(u, r, kind)) + Cardinality(Pending(u, r, kind))
             <= Cardinality(noticeLoad.dispatches)
        /\ Cardinality(noticeLoad.dispatches) \in Nat
    BY <1>0, FS_CardinalityType, PendingFits, NoticesFit DEF NoticesInv, OverlapsAreCounted
  <2>2. Pending(u, r, kind)' \subseteq Pending(u, r, kind) \ {d}
    BY <1>0, <1>1, <1>4, <1>9, NoticesFit DEF Pending
  <2>3. CASE u \in s.allowed /\ s.kind = kind /\ s.role = r
    <3>1. Fresh(u, r, kind)' \subseteq Fresh(u, r, kind) \cup {New(u)}
      BY <1>5, <1>6 DEF Fresh
    <3>2. /\ IsFiniteSet(Fresh(u, r, kind) \cup {New(u)})
          /\ Cardinality(Fresh(u, r, kind) \cup {New(u)}) <= Cardinality(Fresh(u, r, kind)) + 1
      BY <2>1, OneMore
    <3>3. /\ IsFiniteSet(Fresh(u, r, kind)') /\ Cardinality(Fresh(u, r, kind)') \in Nat
          /\ Cardinality(Fresh(u, r, kind) \cup {New(u)}) \in Nat
          /\ Cardinality(Fresh(u, r, kind)') <= Cardinality(Fresh(u, r, kind) \cup {New(u)})
      BY <3>1, <3>2, FS_Subset, FS_CardinalityType
    <3>4. d \in Pending(u, r, kind)
      BY <1>0, <2>3 DEF Pending, s
    <3>5. /\ IsFiniteSet(Pending(u, r, kind) \ {d})
          /\ Cardinality(Pending(u, r, kind) \ {d}) = Cardinality(Pending(u, r, kind)) - 1
      BY <2>1, <3>4, FS_RemoveElement
    <3>6. /\ Cardinality(Pending(u, r, kind)') <= Cardinality(Pending(u, r, kind) \ {d})
          /\ Cardinality(Pending(u, r, kind)') \in Nat
      BY <2>2, <3>5, FS_Subset, FS_CardinalityType
    <3> QED BY <1>1, <2>1, <3>2, <3>3, <3>5, <3>6
  <2>4. CASE ~(u \in s.allowed /\ s.kind = kind /\ s.role = r)
    <3>1. Fresh(u, r, kind)' = Fresh(u, r, kind)
      BY <1>5, <1>6, <1>8, <2>4 DEF Fresh
    <3>2. Pending(u, r, kind)' \subseteq Pending(u, r, kind)
      BY <2>2
    <3>3. /\ Cardinality(Pending(u, r, kind)') <= Cardinality(Pending(u, r, kind))
          /\ Cardinality(Pending(u, r, kind)') \in Nat
      BY <1>0, <3>2, PendingFits
    <3> QED BY <1>1, <2>1, <3>1, <3>3
  <2> QED BY <2>3, <2>4
<1>12. FreshIsTold'
  <2> SUFFICES ASSUME NEW n \in notices', n.fresh PROVE <<n.to, n.kind, n.role>> \in told'
    BY DEF FreshIsTold
  <2>1. CASE n \in notices
    BY <1>1, <2>1 DEF NoticesInv, FreshIsTold
  <2>2. CASE \E u \in s.allowed : n = New(u)
    BY <1>1, <1>5, <2>2
  <2> QED BY <1>6, <2>1, <2>2
<1>13. \A o \in Dispatches : SoFar(dispatch'[o], told')
  <2>1. told \subseteq told' /\ \A u \in s.allowed : <<u, s.kind, s.role>> \in told'
    BY <1>1
  <2>2. ASSUME NEW o \in Dispatches \ {d} PROVE SoFar(dispatch'[o], told')
    <3>1. SoFar(dispatch[o], told) /\ dispatch'[o] = dispatch[o]
      BY <1>9 DEF NoticesInv
    <3> QED BY <2>1, <3>1 DEF SoFar
  <2>3. SoFar(t, told')
    BY <1>0, <1>4, <2>1 DEF SoFar
  <2> QED BY <1>9, <2>2, <2>3
<1> QED BY <1>10, <1>11, <1>12, <1>13 DEF NoticesInv

\* Six hours go by when no dispatch runs: nothing is fresh, nobody counts as told.
LEMMA SixHoursStep == ASSUME NoticesInv, SixHours, UNCHANGED <<noticeLoad, asked>> PROVE NoticesInv'
<1>0. NoticeTypes
  BY DEF NoticesInv
<1>1. /\ \A d \in Dispatches : dispatch[d].at = "idle"
      /\ notices' = {[n EXCEPT !.fresh = FALSE] : n \in notices}
      /\ UNCHANGED <<noticeLoad, asked, bstatus, lastId, listing, dispatch, shown>>
  BY DEF SixHours
<1>2. \A n \in notices' :
        n \in [id : 1..lastId, kind : Kinds, to : Users, role : Roles, fresh : BOOLEAN] /\ n.fresh = FALSE
  <2>1. ASSUME NEW n \in [id : 1..lastId, kind : Kinds, to : Users, role : Roles, fresh : BOOLEAN]
        PROVE  LET m == [n EXCEPT !.fresh = FALSE]
               IN  /\ m \in [id : 1..lastId, kind : Kinds, to : Users, role : Roles, fresh : BOOLEAN]
                   /\ m.fresh = FALSE
    OBVIOUS
  <2> QED BY <1>0, <1>1, <2>1 DEF NoticeTypes
<1>3. NoticeTypes'
  BY <1>0, <1>1, <1>2 DEF NoticeTypes
<1>4. OverlapsAreCounted'
  <2> SUFFICES ASSUME NEW u \in Users, NEW r \in Roles, NEW kind \in {"drop", "promotion"}
               PROVE  /\ IsFiniteSet(Fresh(u, r, kind)')
                      /\ Cardinality(Fresh(u, r, kind)') + Cardinality(Pending(u, r, kind)')
                           <= Cardinality(noticeLoad'.dispatches)
    BY DEF OverlapsAreCounted
  <2>1. Fresh(u, r, kind)' = {}
    BY <1>2 DEF Fresh
  <2>2. Pending(u, r, kind)' = {}
    BY <1>0, <1>1, NoticesFit DEF Pending
  <2>3. IsFiniteSet({}) /\ Cardinality({}) = 0
    BY FS_EmptySet
  <2>4. Cardinality(noticeLoad.dispatches) \in Nat
    BY <1>0, NoticesFit
  <2> QED BY <1>1, <2>1, <2>2, <2>3, <2>4
<1>5. FreshIsTold'
  BY <1>2 DEF FreshIsTold
<1>6. \A d \in Dispatches : SoFar(dispatch'[d], told')
  BY <1>1 DEF SoFar
<1> QED BY <1>3, <1>4, <1>5, <1>6 DEF NoticesInv

\* A user becomes a broker, or no longer is one.
LEMMA StatusStep ==
  ASSUME NoticesInv, NEW u \in Users, UNCHANGED <<noticeLoad, asked>>, ChangeStatus(u)
  PROVE  NoticesInv'
<1>1. NoticeTypes
  BY DEF NoticesInv
<1>2. bstatus' \in [Users -> Statuses]
  BY <1>1 DEF NoticeTypes, ChangeStatus
<1>3. /\ notices' \subseteq notices /\ UNCHANGED <<lastId, listing, dispatch, told>>
      /\ shown' \in [Users -> SUBSET (1..lastId)]
      /\ asked' \in [Users -> SUBSET Roles]
  BY <1>1 DEF NoticeTypes, ChangeStatus
<1> QED BY <1>2, <1>3, NoticesGo

\* What users read: notices go, and what they were shown is of notices that were.
LEMMA UserStep ==
  ASSUME NoticesInv, NEW u \in Users, UNCHANGED noticeLoad,
         AskRole(u) \/ \E r \in asked[u] : List(u, r) \/ MarkRead(u, r) \/ MarkAllRead(u, r)
  PROVE  NoticesInv'
<1>0. NoticeTypes
  BY DEF NoticesInv
<1>1. CASE AskRole(u)
  <2>1. RoleOf(u) \in Roles
    BY DEF RoleOf, Roles
  <2>2. asked' \in [Users -> SUBSET Roles]
    BY <1>0, <1>1, <2>1 DEF NoticeTypes, AskRole
  <2>3. /\ notices' \subseteq notices /\ UNCHANGED <<lastId, listing, dispatch, told>>
        /\ bstatus' \in [Users -> Statuses]
        /\ shown' \in [Users -> SUBSET (1..lastId)]
    BY <1>0, <1>1 DEF NoticeTypes, AskRole
  <2> QED BY <2>2, <2>3, NoticesGo
<1>2. ASSUME NEW r \in asked[u], List(u, r) \/ MarkRead(u, r) \/ MarkAllRead(u, r)
      PROVE  NoticesInv'
  <2>1. /\ UNCHANGED <<lastId, listing, dispatch, told, bstatus>> /\ notices' \subseteq notices
        /\ Answered(u, r)
    BY <1>2 DEF List, MarkRead, MarkAllRead
  <2>2. asked' \in [Users -> SUBSET Roles]
    BY <1>0, <2>1 DEF NoticeTypes, Answered
  <2>3. shown' \in [Users -> SUBSET (1..lastId)]
    <3>1. CASE List(u, r)
      <4>1. {n.id : n \in {k \in Own(u, r) : \A m \in Own(u, r) : m.kind = k.kind => m.id <= k.id}}
              \in SUBSET (1..lastId)
        BY <1>0 DEF NoticeTypes, Own
      <4> QED BY <1>0, <3>1, <4>1 DEF NoticeTypes, List
    <3>2. CASE MarkRead(u, r)
      <4>1. PICK id \in shown[u] : shown' = [shown EXCEPT ![u] = @ \ {id}]
        BY <3>2 DEF MarkRead
      <4> QED BY <1>0, <4>1 DEF NoticeTypes
    <3>3. CASE MarkAllRead(u, r)
      BY <1>0, <3>3 DEF NoticeTypes, MarkAllRead
    <3> QED BY <1>2, <3>1, <3>2, <3>3
  <2>4. bstatus' \in [Users -> Statuses]
    BY <1>0, <2>1 DEF NoticeTypes
  <2> QED BY <2>1, <2>2, <2>3, <2>4, NoticesGo
<1> QED BY <1>1, <1>2

\* One step for each step of a dispatch, of time and of a user.
LEMMA NoticesStep == NoticesInv /\ [NoticesNext]_noticeVars => NoticesInv'
<1> SUFFICES ASSUME NoticesInv, [NoticesNext]_noticeVars PROVE NoticesInv'
  OBVIOUS
<1>0. noticeLoad.users \subseteq Users /\ noticeLoad.readers \subseteq Users
  BY NoticesFit DEF NoticesInv
<1>1. CASE NoticesChange /\ UNCHANGED <<noticeLoad, asked>>
  <2>1. ASSUME NEW d \in noticeLoad.dispatches, UpdatePrice(d) \/ StartPromotion(d) \/ Announce(d)
        PROVE  NoticesInv'
    BY <1>1, <2>1, AnnounceStep
  <2>2. ASSUME NEW d \in noticeLoad.dispatches, Filter(d) PROVE NoticesInv'
    BY <1>1, <2>2, FilterStep
  <2>3. ASSUME NEW d \in noticeLoad.dispatches, InsertNotices(d) PROVE NoticesInv'
    BY <1>1, <2>3, InsertStep
  <2>4. ASSUME NEW d \in noticeLoad.dispatches, Push(d) \/ DispatchFails(d) \/ Finish(d)
        PROVE  NoticesInv'
    BY <1>1, <2>4, PushStep
  <2>5. CASE SixHours
    BY <1>1, <2>5, SixHoursStep
  <2>6. ASSUME NEW u \in Users, ChangeStatus(u) PROVE NoticesInv'
    BY <1>1, <2>6, StatusStep
  <2> QED BY <1>0, <1>1, <2>1, <2>2, <2>3, <2>4, <2>5, <2>6 DEF NoticesChange
<1>2. CASE UserReads /\ UNCHANGED noticeLoad
  BY <1>0, <1>2, UserStep DEF UserReads
<1>3. CASE UNCHANGED noticeVars
  <2>1. UNCHANGED <<noticeLoad, asked, bstatus, notices, lastId, listing, dispatch, told, shown>>
    BY <1>3 DEF noticeVars
  <2>2. NoticeTypes' /\ FreshIsTold' /\ \A d \in Dispatches : SoFar(dispatch'[d], told')
    BY <2>1 DEF NoticesInv, NoticeTypes, FreshIsTold
  <2>3. \A u \in Users, r \in Roles, kind \in {"drop", "promotion"} :
          Fresh(u, r, kind)' = Fresh(u, r, kind) /\ Pending(u, r, kind)' = Pending(u, r, kind)
    BY <2>1 DEF Fresh, Pending
  <2>4. OverlapsAreCounted'
    BY <2>1, <2>3 DEF NoticesInv, OverlapsAreCounted
  <2> QED BY <2>2, <2>4 DEF NoticesInv
<1> QED BY <1>1, <1>2, <1>3 DEF NoticesNext

\* At first there are no notices and no dispatches.
LEMMA InitNotices == NoticesInit => NoticesInv
<1> SUFFICES ASSUME NoticesInit PROVE NoticesInv
  OBVIOUS
<1>1. Idle \in Dispatch /\ Idle.at = "idle"
  BY DEF Idle, Dispatch, Kinds, Roles
<1>2. NoticeTypes
  <2>1. listing \in [purpose : {"sale", "both"}, price : Prices, sale : Prices, rent : Prices \cup {Null}]
    BY DEF NoticesInit
  <2>2. bstatus \in [Users -> Statuses]
    BY DEF NoticesInit, Statuses
  <2> QED BY <1>1, <2>1, <2>2, NoticesAssumption DEF NoticesInit, NoticeTypes
<1>3. OverlapsAreCounted
  <2> SUFFICES ASSUME NEW u \in Users, NEW r \in Roles, NEW kind \in {"drop", "promotion"}
               PROVE  /\ IsFiniteSet(Fresh(u, r, kind))
                      /\ Cardinality(Fresh(u, r, kind)) + Cardinality(Pending(u, r, kind))
                           <= Cardinality(noticeLoad.dispatches)
    BY DEF OverlapsAreCounted
  <2>1. Fresh(u, r, kind) = {}
    BY DEF Fresh, NoticesInit
  <2>2. Pending(u, r, kind) = {}
    BY <1>1, <1>2, NoticesFit DEF Pending, NoticesInit
  <2>3. IsFiniteSet({}) /\ Cardinality({}) = 0
    BY FS_EmptySet
  <2>4. Cardinality(noticeLoad.dispatches) \in Nat
    BY <1>2, NoticesFit
  <2> QED BY <2>1, <2>2, <2>3, <2>4
<1>4. FreshIsTold /\ \A d \in Dispatches : SoFar(dispatch[d], told)
  BY <1>1 DEF FreshIsTold, SoFar, NoticesInit
<1> QED BY <1>2, <1>3, <1>4 DEF NoticesInv

\* What the proof needs of notices holds always: who is about to be told counts
\* as told, and each place of a dispatch tells whom it has behind it.
THEOREM NoticesSafety == NoticesSpec => []NoticesInv
BY InitNotices, NoticesStep, PTL DEF NoticesSpec

\* What the invariant says of users: no more notices than dispatches, and a
\* dispatch that is done told everyone it meant.
LEMMA NoticesShow == NoticesInv => CooldownHolds /\ DoneMeansTold
<1> SUFFICES ASSUME NoticesInv PROVE CooldownHolds /\ DoneMeansTold
  OBVIOUS
<1>0. NoticeTypes
  BY DEF NoticesInv
<1>1. CooldownHolds
  <2> SUFFICES ASSUME NEW u \in Users, NEW r \in Roles, NEW kind \in {"drop", "promotion"}
               PROVE  Cardinality(Fresh(u, r, kind)) <= Cardinality(noticeLoad.dispatches)
    BY DEF CooldownHolds
  <2>1. /\ IsFiniteSet(Fresh(u, r, kind))
        /\ Cardinality(Fresh(u, r, kind)) + Cardinality(Pending(u, r, kind))
             <= Cardinality(noticeLoad.dispatches)
    BY DEF NoticesInv, OverlapsAreCounted
  <2>2. /\ Cardinality(Fresh(u, r, kind)) \in Nat /\ Cardinality(Pending(u, r, kind)) \in Nat
        /\ Cardinality(noticeLoad.dispatches) \in Nat
    BY <1>0, <2>1, FS_CardinalityType, PendingFits, NoticesFit
  <2> QED BY <2>1, <2>2
<1>2. DoneMeansTold
  <2> SUFFICES ASSUME NEW d \in Dispatches, dispatch[d].at = "done", NEW r \in Roles,
                      NEW u \in dispatch[d].groups[r]
               PROVE  <<u, dispatch[d].kind, r>> \in told
    BY DEF DoneMeansTold
  <2>1. SoFar(dispatch[d], told)
    BY DEF NoticesInv
  <2> QED BY <2>1 DEF SoFar, Roles
<1> QED BY <1>1, <1>2

\* Rows are added, grow old, or are of the one user and role that a request read.
LEMMA RolesAreKept == NoticesInv /\ [NoticesNext]_noticeVars => [KeepsOtherRole]_noticeVars
<1> SUFFICES ASSUME NoticesInv, NoticesNext, notices' # notices PROVE KeepsOtherRole
  BY DEF KeepsOtherRole, noticeVars
<1>0. /\ noticeLoad.users \subseteq Users /\ noticeLoad.readers \subseteq Users
      /\ noticeLoad.dispatches \subseteq Dispatches /\ NoticeTypes
  BY NoticesFit DEF NoticesInv
<1>1. "client" \in Roles
  BY DEF Roles
<1>2. ASSUME NEW u \in Users, notices \subseteq notices' PROVE KeepsOtherRole
  <2>1. \A n \in notices : n.id \in {m.id : m \in notices'}
    BY <1>2
  <2> QED BY <1>1, <2>1 DEF KeepsOtherRole
<1>3. ASSUME NEW d \in noticeLoad.dispatches, InsertNotices(d) PROVE KeepsOtherRole
  <2>1. notices \subseteq notices' /\ dispatch[d].allowed # {}
    BY <1>3 DEF InsertNotices
  <2>2. dispatch[d].allowed \subseteq Users
    BY <1>0 DEF NoticeTypes, Dispatch
  <2> QED BY <1>2, <2>1, <2>2
<1>4. CASE SixHours
  <2>1. PICK n \in notices : n.fresh
    BY <1>4 DEF SixHours
  <2>2. notices' = {[m EXCEPT !.fresh = FALSE] : m \in notices}
    BY <1>4 DEF SixHours
  <2>3. n.to \in Users
    BY <1>0 DEF NoticeTypes
  <2>4. ASSUME NEW m \in notices PROVE m.id \in {o.id : o \in notices'}
    <3>1. [m EXCEPT !.fresh = FALSE].id = m.id
      BY <1>0 DEF NoticeTypes
    <3>2. [m EXCEPT !.fresh = FALSE] \in notices'
      BY <2>2
    <3> QED BY <3>1, <3>2
  <2> QED BY <1>1, <2>3, <2>4 DEF KeepsOtherRole
<1>5. ASSUME NEW u \in Users, NEW r \in asked[u], MarkRead(u, r) \/ MarkAllRead(u, r)
      PROVE  KeepsOtherRole
  <2>1. notices \ notices' \subseteq Own(u, r)
    BY <1>5 DEF MarkRead, MarkAllRead
  <2>2. \A n \in notices : n.id \in {m.id : m \in notices'} \/ (n.to = u /\ n.role = r /\ r \in asked[u])
    BY <2>1 DEF Own
  <2>3. r \in Roles
    BY <1>0 DEF NoticeTypes
  <2> QED BY <2>2, <2>3 DEF KeepsOtherRole
<1>6. \A d \in noticeLoad.dispatches :
         ~(UpdatePrice(d) \/ StartPromotion(d) \/ Announce(d) \/ Filter(d) \/ Push(d)
             \/ DispatchFails(d) \/ Finish(d))
  BY DEF UpdatePrice, StartPromotion, Announce, Filter, Push, DispatchFails, Finish
<1>7. \A u \in Users : ~(ChangeStatus(u) \/ AskRole(u) \/ \E r \in asked[u] : List(u, r))
  BY DEF ChangeStatus, AskRole, List
<1>8. CASE NoticesChange
  BY <1>0, <1>3, <1>4, <1>6, <1>7, <1>8 DEF NoticesChange
<1>9. CASE UserReads
  BY <1>0, <1>5, <1>7, <1>9 DEF UserReads
<1> QED BY <1>8, <1>9 DEF NoticesNext

\* userNotificationService, UserController (notices, requestSupport), for any
\* number of users, dispatches and requests: a user has no more fresh notices of
\* one kind and role than dispatches overlapped, a dispatch that ends well leaves
\* nobody out, a request that began as one role keeps the other's notices, and the
\* administrators get no more requests of a client than it made at once.
THEOREM NoticesAlwaysHold == NoticesSpec /\ SupportSpec => NoticesHold
<1>1. NoticesInv => NoticeTypes /\ CooldownHolds /\ DoneMeansTold
  BY NoticesShow DEF NoticesInv
<1>2. NoticesSpec => [](NoticeTypes /\ CooldownHolds /\ DoneMeansTold)
  BY <1>1, NoticesSafety, PTL
<1>3. NoticesSpec => [][KeepsOtherRole]_noticeVars
  BY NoticesSafety, RolesAreKept, PTL DEF NoticesSpec
<1>4. SupportSpec => []OneADay
  BY SupportSafety, PTL
<1> QED BY <1>2, <1>3, <1>4, PTL DEF NoticesHold
=============================================================================
