----------------------- MODULE DocumentDeletion_proofs -----------------------
(***************************************************************************)
(* No document is erased while its row lives, and none is forgotten or     *)
(* stuck but by a fault, for any number of documents, runs and faults.     *)
(***************************************************************************)
EXTENDS DocumentDeletion, FiniteSetTheorems, TLAPS

Holding == {"deleting", "deleted", "failed"}

\* What the actions need to know of the shape of the variables.  The waits and
\* attempts of a job play no part in what is proved here.
Shape ==
    /\ document \in [Documents -> RowState]
    /\ job = [d \in Documents |-> job[d]]
    /\ cleanup \subseteq SUBSET Documents
    /\ run = [t \in Runs |-> run[t]]
    /\ faults \in Nat

\* A row being written or live has its object.
RowsAreStored ==
    \A d \in Documents : document[d] \in {"uploading", "live"} => d \in stored

\* The queue and the batches on their way to it name removed rows only.
QueueIsOfRemoved ==
    /\ \A d \in Documents : job[d].status # "NONE" => document[d] = "removed"
    /\ \A batch \in cleanup : \A d \in batch : document[d] = "removed"

\* What a run works on is a document with a job; what it has deleted is gone,
\* and so is what any run marked as done.
RunsAreHonest ==
    /\ \A t \in Runs : run[t].phase \in Holding =>
          run[t].doc \in Documents /\ job[run[t].doc].status # "NONE"
    /\ \A t \in Runs : run[t].phase = "deleted" => run[t].doc \notin stored
    /\ DoneIsErased

QueueInv ==
    /\ Shape /\ RowsAreStored /\ QueueIsOfRemoved /\ RunsAreHonest
    /\ StuckByFault /\ ForgottenByFault

-----------------------------------------------------------------------------
\* Enqueueing makes the jobs of the batch pending and leaves the others alone.
LEMMA EnqueueStep ==
    ASSUME NEW batch \in SUBSET Documents, Enqueue(batch)
    PROVE  /\ job' = [d \in Documents |-> job'[d]]
           /\ \A d \in batch : job'[d].status = "PENDING"
           /\ \A d \in Documents \ batch : job'[d] = job[d]
BY DEF Enqueue, Row

\* The queue starts empty, and nothing is stored or removed.
LEMMA InitQueue == Init => QueueInv
BY DEF Init, QueueInv, Shape, RowsAreStored, QueueIsOfRemoved, RunsAreHonest, DoneIsErased,
       StuckByFault, ForgottenByFault, Row, Idle, At, RowState, Holding, Holds, Queued

\* The handlers keep the invariant.
LEMMA HandlersStep == QueueInv /\ HandlerNext => QueueInv'
<1> USE DEF QueueInv, Shape, RowsAreStored, QueueIsOfRemoved, RunsAreHonest, DoneIsErased,
            StuckByFault, ForgottenByFault, RowState, Holding, Holds, Queued, workerVars
<1> SUFFICES ASSUME QueueInv, HandlerNext PROVE QueueInv'
  OBVIOUS
<1>1. ASSUME NEW d \in Documents, PutObject(d) PROVE QueueInv'
  BY <1>1 DEF PutObject
<1>2. ASSUME NEW d \in Documents, StoreRow(d) PROVE QueueInv'
  BY <1>2 DEF StoreRow
<1>3. ASSUME NEW d \in Documents, UploadFails(d) PROVE QueueInv'
  BY <1>3 DEF UploadFails
<1>4. ASSUME NEW d \in Documents, NEW again \in BOOLEAN, DeleteDocument(d, again) PROVE QueueInv'
  <2>1. /\ job' = [e \in Documents |-> job'[e]]
        /\ job'[d].status = "PENDING"
        /\ \A e \in Documents \ {d} : job'[e] = job[e]
    BY <1>4, EnqueueStep DEF DeleteDocument
  <2>2. cleanup' \subseteq cleanup \cup {{d}}
    BY <1>4 DEF DeleteDocument
  <2>3. Shape' /\ RowsAreStored'
    BY <1>4, <2>1 DEF DeleteDocument
  <2>4. QueueIsOfRemoved'
    BY <1>4, <2>1, <2>2 DEF DeleteDocument
  <2>5. RunsAreHonest'
    BY <1>4, <2>1 DEF DeleteDocument
  <2>6. StuckByFault'
    BY <1>4, <2>1 DEF DeleteDocument
  <2>7. cleanup \subseteq cleanup'
    BY <1>4 DEF DeleteDocument
  <2>8. ForgottenByFault'
    BY <1>4, <2>1, <2>7 DEF DeleteDocument
  <2> QED BY <2>3, <2>4, <2>5, <2>6, <2>8
<1>5. ASSUME NEW batch \in SUBSET Documents, ReplaceDocuments(batch) PROVE QueueInv'
  BY <1>5 DEF ReplaceDocuments
<1>6. ASSUME NEW batch \in SUBSET Documents, CascadeDelete(batch) PROVE QueueInv'
  BY <1>6 DEF CascadeDelete
<1>7. ASSUME NEW batch \in cleanup, NEW dropped \in SUBSET Documents, FinishCleanup(batch, dropped)
      PROVE QueueInv'
  <2>1. /\ job' = [e \in Documents |-> job'[e]]
        /\ \A e \in batch \ dropped : job'[e].status = "PENDING"
        /\ \A e \in Documents \ (batch \ dropped) : job'[e] = job[e]
    BY <1>7, EnqueueStep DEF FinishCleanup
  <2>2. batch \subseteq Documents
    OBVIOUS
  <2>3. Shape' /\ RowsAreStored'
    BY <1>7, <2>1 DEF FinishCleanup, Fault
  <2>4. QueueIsOfRemoved'
    BY <1>7, <2>1, <2>2 DEF FinishCleanup
  <2>5. RunsAreHonest'
    BY <1>7, <2>1, <2>2 DEF FinishCleanup
  <2>6. run' = run /\ (faults > 0 => faults' > 0)
    BY <1>7 DEF FinishCleanup, Fault
  <2>7. StuckByFault'
    <3> SUFFICES ASSUME NEW d \in Documents, job'[d].status = "PROCESSING", ~(faults' > 0)
                 PROVE  \E t \in Runs : run'[t].phase \in Holding /\ run'[t].doc = d
      OBVIOUS
    <3>1. job'[d] = job[d]
      BY <2>1, <2>2
    <3> QED BY <3>1, <2>6
  <2>8. ForgottenByFault'
    BY <1>7, <2>1, <2>2, <2>6 DEF FinishCleanup, Fault
  <2> QED BY <2>3, <2>4, <2>5, <2>7, <2>8
<1> QED BY <1>1, <1>2, <1>3, <1>4, <1>5, <1>6, <1>7 DEF HandlerNext

\* The timer and the worker keep the invariant.
LEMMA WorkerKeeps ==
    ASSUME QueueInv, Tick \/ \E t \in Runs : WorkerStep(t) PROVE QueueInv'
<1> USE DEF QueueInv, Shape, RowsAreStored, QueueIsOfRemoved, RunsAreHonest, DoneIsErased,
            StuckByFault, ForgottenByFault, RowState, Holding, Holds, Queued, rowVars, Row, At,
            MoveRun
<1>1. CASE Tick
  <2>1. /\ job' = [d \in Documents |-> job'[d]]
        /\ \A d \in Documents : job'[d].status = job[d].status
    BY <1>1 DEF Tick
  <2>2. /\ run' = [t \in Runs |-> run'[t]]
        /\ \A t \in Runs :
              \/ run'[t] = run[t]
              \/ run[t].phase = "idle" /\ run'[t].phase = "checking"
    <3>1. ASSUME NEW t \in Runs, run[t].phase = "idle", MoveRun(t, At("checking", NoDocument, 0, 0))
          PROVE  /\ run' = [s \in Runs |-> run'[s]]
                 /\ run'[t].phase = "checking"
                 /\ \A s \in Runs \ {t} : run'[s] = run[s]
      BY <3>1
    <3>2. CASE UNCHANGED run
      BY <3>2
    <3> QED BY <1>1, <3>1, <3>2, Zenon DEF Tick
  <2>3. UNCHANGED <<document, stored, cleanup, faults>>
    BY <1>1 DEF Tick
  <2>4. Shape' /\ RowsAreStored' /\ QueueIsOfRemoved' /\ ForgottenByFault'
    BY <2>1, <2>2, <2>3
  <2>5. RunsAreHonest'
    BY <2>1, <2>2, <2>3
  <2>6. StuckByFault'
    BY <2>1, <2>2, <2>3
  <2> QED BY <2>4, <2>5, <2>6
<1>2. ASSUME NEW t \in Runs, BeginRun(t) PROVE QueueInv'
  BY <1>2 DEF BeginRun
<1>3. ASSUME NEW t \in Runs, NEW d \in Documents, Claim(t, d) PROVE QueueInv'
  <2>1. /\ job' = [e \in Documents |-> job'[e]]
        /\ job'[d].status = "PROCESSING" /\ job[d].status \in Waiting
        /\ \A e \in Documents \ {d} : job'[e] = job[e]
    BY <1>3 DEF Claim, Due
  <2>2. /\ run' = [s \in Runs |-> run'[s]]
        /\ run'[t].phase = "deleting" /\ run'[t].doc = d
        /\ \A s \in Runs \ {t} : run'[s] = run[s]
        /\ run[t].phase = "claiming"
    BY <1>3 DEF Claim
  <2>3. UNCHANGED <<document, stored, cleanup, faults>>
    BY <1>3 DEF Claim
  <2>4. Shape' /\ RowsAreStored' /\ QueueIsOfRemoved' /\ ForgottenByFault'
    BY <2>1, <2>2, <2>3 DEF Waiting
  <2>5. RunsAreHonest'
    BY <2>1, <2>2, <2>3 DEF Waiting
  <2>6. StuckByFault'
    BY <2>1, <2>2, <2>3
  <2> QED BY <2>4, <2>5, <2>6
<1>4. ASSUME NEW t \in Runs, EndRun(t) PROVE QueueInv'
  BY <1>4 DEF EndRun, Idle
<1>5. ASSUME NEW t \in Runs, DeleteSucceeds(t) PROVE QueueInv'
  BY <1>5 DEF DeleteSucceeds
<1>6. ASSUME NEW t \in Runs, DeleteFails(t) PROVE QueueInv'
  BY <1>6 DEF DeleteFails
<1>7. ASSUME NEW t \in Runs, MarkDone(t) PROVE QueueInv'
  BY <1>7 DEF MarkDone
<1>8. ASSUME NEW t \in Runs, MarkFailed(t) PROVE QueueInv'
  BY <1>8 DEF MarkFailed
<1> QED BY <1>1, <1>2, <1>3, <1>4, <1>5, <1>6, <1>7, <1>8 DEF WorkerStep

\* Neither a failing database call of the worker nor a crash breaks it.
LEMMA FaultsKeep ==
    ASSUME QueueInv, Crash \/ \E t \in Runs : FaultStep(t) PROVE QueueInv'
<1> USE DEF QueueInv, Shape, RowsAreStored, QueueIsOfRemoved, RunsAreHonest, DoneIsErased,
            StuckByFault, ForgottenByFault, RowState, Holding, Holds, Queued, rowVars, Row, At,
            MoveRun, Idle, Fault
<1>1. CASE Crash
  BY <1>1 DEF Crash
<1>2. ASSUME NEW t \in Runs, CheckFails(t) PROVE QueueInv'
  BY <1>2 DEF CheckFails
<1>3. ASSUME NEW t \in Runs, ClaimFails(t) PROVE QueueInv'
  <2>1. /\ job' = [e \in Documents |-> job'[e]]
        /\ \A e \in Documents :
              \/ job'[e] = job[e]
              \/ job'[e].status = "PROCESSING" /\ job[e].status \in Waiting
    BY <1>3 DEF ClaimFails, Due
  <2>2. /\ run' = [s \in Runs |-> run'[s]]
        /\ run'[t].phase = "idle"
        /\ \A s \in Runs \ {t} : run'[s] = run[s]
    BY <1>3 DEF ClaimFails
  <2> QED BY <1>3, <2>1, <2>2 DEF ClaimFails, Waiting
<1>4. ASSUME NEW t \in Runs, MarkDoneFails(t) PROVE QueueInv'
  BY <1>4 DEF MarkDoneFails
<1>5. ASSUME NEW t \in Runs, MarkFailedFails(t) PROVE QueueInv'
  BY <1>5 DEF MarkFailedFails
<1> QED BY <1>1, <1>2, <1>3, <1>4, <1>5 DEF FaultStep

\* The invariant holds in every reachable state.
THEOREM QueueSafety == Spec => []QueueInv
<1>1. QueueInv /\ [Next]_vars => QueueInv'
  <2> SUFFICES ASSUME QueueInv, [Next]_vars PROVE QueueInv'
    OBVIOUS
  <2>1. CASE UNCHANGED vars
    BY <2>1 DEF vars, QueueInv, Shape, RowsAreStored, QueueIsOfRemoved, RunsAreHonest,
                DoneIsErased, StuckByFault, ForgottenByFault, Holds, Queued
  <2> QED BY <2>1, HandlersStep, WorkerKeeps, FaultsKeep DEF Next
<1> QED BY <1>1, InitQueue, PTL DEF Spec

\* A row that lives can be read: the queue never erases its object.
THEOREM LiveAlwaysReadable == Spec => []LiveIsReadable
<1>1. QueueInv => LiveIsReadable
  BY DEF QueueInv, RowsAreStored, LiveIsReadable
<1> QED BY <1>1, QueueSafety, PTL

\* What is marked as done is erased, however many runs overlap.
THEOREM DoneAlwaysErased == Spec => []DoneIsErased
<1>1. QueueInv => DoneIsErased
  BY DEF QueueInv, RunsAreHonest
<1> QED BY <1>1, QueueSafety, PTL

\* Only a crash or a failing database call leaves a job in PROCESSING.
THEOREM StuckOnlyByFault == Spec => []StuckByFault
<1>1. QueueInv => StuckByFault
  BY DEF QueueInv
<1> QED BY <1>1, QueueSafety, PTL

\* Only a crash or a failing database call forgets a removed document's object.
THEOREM ForgottenOnlyByFault == Spec => []ForgottenByFault
<1>1. QueueInv => ForgottenByFault
  BY DEF QueueInv
<1> QED BY <1>1, QueueSafety, PTL

-----------------------------------------------------------------------------
(* The types of jobs and runs, which the properties above do not need.     *)

\* The numbers of the constants, and a wait that is never longer than MaxWait.
LEMMA Bounds ==
    /\ Limit \in Nat /\ MaxWait \in Nat /\ AttemptsCap \in Nat /\ MaxFaults \in Nat
    /\ \A n : Backoff(n) \in 0 .. MaxWait
BY QueueConstants DEF Backoff

\* Ids go on from the number of jobs there are.
LEMMA EnqueueTypes ==
    ASSUME job \in [Documents -> JobRow], NEW batch \in SUBSET Documents, Enqueue(batch)
    PROVE  job' \in [Documents -> JobRow]
<1> DEFINE new == batch \ Queued
           used == Cardinality(Queued)
<1>1. used \in Nat
  <2>1. IsFiniteSet(Documents)
    BY ONLY QueueConstants
  <2>2. Queued \subseteq Documents
    BY DEF Queued
  <2>3. IsFiniteSet(Queued)
    BY <2>1, <2>2, FS_Subset
  <2> QED BY ONLY <2>3, FS_CardinalityType
<1>2. PICK id \in [new -> used + 1 .. used + Cardinality(new)] :
        job' = [d \in Documents |->
                  IF d \notin batch THEN job[d]
                  ELSE Row("PENDING", 0, 0, IF d \in new THEN id[d] ELSE job[d].id)]
  BY DEF Enqueue
<1>3. \A d \in new : id[d] \in Nat
  <2> HIDE DEF used, new
  <2>1. \A n \in used + 1 .. used + Cardinality(new) : n \in Nat
    BY <1>1
  <2> QED BY <2>1
<1>4. \A n \in Nat : Row("PENDING", 0, 0, n) \in JobRow
  BY Bounds DEF Row, JobRow, JobStatus, Waiting
<1>5. \A d \in Documents : job[d] \in JobRow /\ job[d].id \in Nat
  BY DEF JobRow
<1> HIDE DEF new, used
<1> QED BY <1>2, <1>3, <1>4, <1>5

\* A run that moves stays well formed.
LEMMA RunTypes ==
    ASSUME run \in [Runs -> RunState], NEW t \in Runs, NEW phase \in Phase,
           NEW d \in Documents \cup {NoDocument}, NEW a \in 0 .. AttemptsCap, NEW l \in 0 .. Limit,
           MoveRun(t, At(phase, d, a, l))
    PROVE  run' \in [Runs -> RunState]
BY DEF MoveRun, At, RunState

\* Claiming a job counts an attempt and keeps its wait and its id.
LEMMA ClaimTypes ==
    ASSUME job \in [Documents -> JobRow], NEW d \in Documents,
           job' = [job EXCEPT ![d] = Row("PROCESSING", NextAttempt(d), @.wait, @.id)]
    PROVE  job' \in [Documents -> JobRow] /\ NextAttempt(d) \in 0 .. AttemptsCap
<1>1. job[d].attempts \in 0 .. AttemptsCap /\ job[d].wait \in 0 .. MaxWait /\ job[d].id \in Nat
  BY DEF JobRow
<1>2. NextAttempt(d) \in 0 .. AttemptsCap
  BY <1>1, Bounds DEF NextAttempt
<1>3. job' = [job EXCEPT ![d] = Row("PROCESSING", NextAttempt(d), job[d].wait, job[d].id)]
  OBVIOUS
<1>4. "PROCESSING" \in JobStatus
  BY DEF JobStatus
<1>5. Row("PROCESSING", NextAttempt(d), job[d].wait, job[d].id) \in JobRow
  BY <1>1, <1>2, <1>4 DEF Row, JobRow
<1>6. job' \in [Documents -> JobRow]
  <2> DEFINE row == Row("PROCESSING", NextAttempt(d), job[d].wait, job[d].id)
  <2> HIDE DEF row
  <2> QED BY <1>3, <1>5 DEF row
<1> QED BY <1>2, <1>6

LEMMA FaultTypes == ASSUME faults \in 0 .. MaxFaults, Fault PROVE faults' \in 0 .. MaxFaults
BY Bounds DEF Fault

\* What a run has at its place.
LEMMA OfRun ==
    ASSUME run \in [Runs -> RunState], NEW t \in Runs
    PROVE  /\ run[t].doc \in Documents \cup {NoDocument} /\ run[t].attempt \in 0 .. AttemptsCap
           /\ run[t].left \in 0 .. Limit
BY DEF RunState

LEMMA IdleType == Idle \in RunState
BY Bounds DEF Idle, At, RunState, Phase

LEMMA HandlerTypes == ASSUME TypeOK, HandlerNext PROVE TypeOK'
<1> USE DEF TypeOK, RowState, workerVars
<1>1. ASSUME NEW d \in Documents, PutObject(d) \/ StoreRow(d) \/ UploadFails(d) PROVE TypeOK'
  BY <1>1 DEF PutObject, StoreRow, UploadFails
<1>2. ASSUME NEW d \in Documents, NEW again \in BOOLEAN, DeleteDocument(d, again) PROVE TypeOK'
  <2>1. job' \in [Documents -> JobRow]
    BY <1>2, EnqueueTypes DEF DeleteDocument
  <2>2. cleanup' \subseteq SUBSET Documents
    BY <1>2 DEF DeleteDocument
  <2> QED BY <1>2, <2>1, <2>2 DEF DeleteDocument
<1>3. ASSUME NEW batch \in SUBSET Documents, ReplaceDocuments(batch) \/ CascadeDelete(batch) PROVE TypeOK'
  BY <1>3 DEF ReplaceDocuments, CascadeDelete
<1>4. ASSUME NEW batch \in cleanup, NEW dropped \in SUBSET Documents, FinishCleanup(batch, dropped)
      PROVE  TypeOK'
  <2>1. batch \ dropped \in SUBSET Documents
    OBVIOUS
  <2>2. job' \in [Documents -> JobRow]
    BY <1>4, <2>1, EnqueueTypes DEF FinishCleanup
  <2>3. faults' \in 0 .. MaxFaults
    BY <1>4, FaultTypes DEF FinishCleanup
  <2> QED BY <1>4, <2>2, <2>3 DEF FinishCleanup
<1> QED BY <1>1, <1>2, <1>3, <1>4 DEF HandlerNext

LEMMA TickTypes == ASSUME TypeOK, Tick PROVE TypeOK'
<1>1. job' \in [Documents -> JobRow]
  <2>1. ASSUME NEW d \in Documents
        PROVE  Row(job[d].status, job[d].attempts,
                   IF job[d].wait = 0 THEN 0 ELSE job[d].wait - 1, job[d].id) \in JobRow
    <3>1. /\ job[d].status \in JobStatus \cup {"NONE"} /\ job[d].attempts \in 0 .. AttemptsCap
          /\ job[d].wait \in 0 .. MaxWait /\ job[d].id \in Nat
      BY DEF TypeOK, JobRow
    <3>2. (IF job[d].wait = 0 THEN 0 ELSE job[d].wait - 1) \in 0 .. MaxWait
      BY <3>1, Bounds
    <3> QED BY <3>1, <3>2 DEF Row, JobRow
  <2> QED BY <2>1 DEF Tick
<1>2. run' \in [Runs -> RunState]
  <2>1. ASSUME NEW t \in Runs, MoveRun(t, At("checking", NoDocument, 0, 0)) PROVE run' \in [Runs -> RunState]
    <3>1. 0 \in 0 .. AttemptsCap /\ 0 \in 0 .. Limit /\ "checking" \in Phase
      BY Bounds DEF Phase
    <3> QED BY <2>1, <3>1, RunTypes DEF TypeOK
  <2> QED BY <2>1 DEF Tick, TypeOK
<1> QED BY <1>1, <1>2 DEF Tick, TypeOK, rowVars

LEMMA WorkerTypes == ASSUME TypeOK, NEW t \in Runs, WorkerStep(t) PROVE TypeOK'
<1> USE DEF rowVars, Phase
<1>0. /\ run[t].doc \in Documents \cup {NoDocument} /\ run[t].attempt \in 0 .. AttemptsCap
      /\ run[t].left \in 0 .. Limit /\ 0 \in 0 .. AttemptsCap /\ Limit \in 0 .. Limit
      /\ run \in [Runs -> RunState] /\ job \in [Documents -> JobRow]
  BY OfRun, Bounds DEF TypeOK
<1>1. CASE BeginRun(t)
  <2>1. run' \in [Runs -> RunState]
    BY <1>0, <1>1, RunTypes DEF BeginRun
  <2> QED BY <1>1, <2>1 DEF BeginRun, TypeOK
<1>2. ASSUME NEW d \in Documents, Claim(t, d) PROVE TypeOK'
  <2>1. job' \in [Documents -> JobRow] /\ NextAttempt(d) \in 0 .. AttemptsCap
    BY <1>0, <1>2, ClaimTypes DEF Claim
  <2>2. run[t].left - 1 \in 0 .. Limit
    BY <1>0, <1>2, Bounds DEF Claim
  <2>3. run' \in [Runs -> RunState]
    BY <1>0, <1>2, <2>1, <2>2, RunTypes DEF Claim
  <2> QED BY <1>2, <2>1, <2>3 DEF Claim, TypeOK
<1>3. CASE EndRun(t)
  BY <1>3, IdleType DEF EndRun, MoveRun, TypeOK
<1>4. CASE DeleteSucceeds(t) \/ DeleteFails(t)
  <2>1. run' \in [Runs -> RunState]
    BY <1>0, <1>4, RunTypes DEF DeleteSucceeds, DeleteFails
  <2> QED BY <1>4, <2>1 DEF DeleteSucceeds, DeleteFails, TypeOK
<1>5. CASE MarkDone(t)
  <2>1. run' \in [Runs -> RunState]
    BY <1>0, <1>5, RunTypes DEF MarkDone
  <2>2. job' \in [Documents -> JobRow]
    BY <1>0, <1>5 DEF MarkDone, Row, JobRow, JobStatus
  <2> QED BY <1>5, <2>1, <2>2 DEF MarkDone, TypeOK
<1>6. CASE MarkFailed(t)
  <2>1. run' \in [Runs -> RunState]
    BY <1>0, <1>6, RunTypes DEF MarkFailed
  <2>2. Backoff(run[t].attempt) \in 0 .. MaxWait
    BY Bounds
  <2>3. job' \in [Documents -> JobRow]
    BY <1>0, <1>6, <2>2 DEF MarkFailed, Row, JobRow, JobStatus, Waiting
  <2> QED BY <1>6, <2>1, <2>3 DEF MarkFailed, TypeOK
<1> QED BY <1>1, <1>2, <1>3, <1>4, <1>5, <1>6 DEF WorkerStep

LEMMA FaultStepTypes == ASSUME TypeOK, Crash \/ \E t \in Runs : FaultStep(t) PROVE TypeOK'
<1> USE DEF rowVars, Phase
<1>1. CASE Crash
  <2>1. run' \in [Runs -> RunState]
    BY <1>1, IdleType DEF Crash
  <2>2. faults' \in 0 .. MaxFaults
    BY <1>1, FaultTypes DEF Crash, TypeOK
  <2> QED BY <1>1, <2>1, <2>2 DEF Crash, TypeOK, RowState
<1>2. ASSUME NEW t \in Runs, FaultStep(t) PROVE TypeOK'
  <2>1. faults' \in 0 .. MaxFaults
    BY <1>2, FaultTypes DEF FaultStep, CheckFails, ClaimFails, MarkDoneFails, MarkFailedFails, TypeOK
  <2>2. run' \in [Runs -> RunState]
    <3>1. ASSUME MoveRun(t, Idle) PROVE run' \in [Runs -> RunState]
      BY <3>1, IdleType DEF MoveRun, TypeOK
    <3>2. ASSUME MarkDoneFails(t) PROVE run' \in [Runs -> RunState]
      <4>1. /\ run[t].doc \in Documents \cup {NoDocument} /\ run[t].attempt \in 0 .. AttemptsCap
            /\ run[t].left \in 0 .. Limit /\ run \in [Runs -> RunState]
        BY OfRun DEF TypeOK
      <4> QED BY <3>2, <4>1, RunTypes DEF MarkDoneFails
    <3> QED BY <1>2, <3>1, <3>2 DEF FaultStep, CheckFails, ClaimFails, MarkFailedFails
  <2>3. job' \in [Documents -> JobRow]
    <3>1. ASSUME NEW d \in Documents,
                 job' = [job EXCEPT ![d] = Row("PROCESSING", NextAttempt(d), @.wait, @.id)]
          PROVE  job' \in [Documents -> JobRow]
      BY <3>1, ClaimTypes DEF TypeOK
    <3> QED BY <1>2, <3>1 DEF FaultStep, CheckFails, ClaimFails, MarkDoneFails, MarkFailedFails, TypeOK
  <2> QED
    BY <1>2, <2>1, <2>2, <2>3
    DEF FaultStep, CheckFails, ClaimFails, MarkDoneFails, MarkFailedFails, TypeOK
<1> QED BY <1>1, <1>2

\* The rows, the jobs and the runs are well formed, and no wait is longer than
\* the longest backoff.
THEOREM TypeCorrectness == Spec => []TypeOK
<1>1. Init => TypeOK
  <2>1. Row("NONE", 0, 0, 0) \in JobRow
    BY Bounds DEF Row, JobRow
  <2>2. 0 \in 0 .. MaxFaults
    BY Bounds
  <2> QED BY <2>1, <2>2, IdleType DEF Init, TypeOK, RowState
<1>2. TypeOK /\ [Next]_vars => TypeOK'
  <2> SUFFICES ASSUME TypeOK, [Next]_vars PROVE TypeOK'
    OBVIOUS
  <2>1. CASE UNCHANGED vars
    BY <2>1 DEF vars, TypeOK
  <2> QED BY <2>1, HandlerTypes, TickTypes, WorkerTypes, FaultStepTypes DEF Next
<1> QED BY <1>1, <1>2, PTL DEF Spec
=============================================================================
