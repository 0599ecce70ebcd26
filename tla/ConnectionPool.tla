--------------------------- MODULE ConnectionPool ---------------------------
(***************************************************************************)
(* The pool of database connections (src/src/database/connection.ts) and   *)
(* the handlers that take more than one of its connections at a time.      *)
(*                                                                         *)
(* A handler takes a connection, opens a transaction, locks the row of its *)
(* negotiation or contract, writes, commits and releases the connection in *)
(* its finally block.  Four shapes of handler differ in what else they ask *)
(* of the pool while they hold that first connection:                      *)
(*   "plain"  nothing;                                                     *)
(*   "inside" a statement of the pool inside the transaction, under the    *)
(*            row lock (enqueueNegotiationDocumentDeletion asks            *)
(*            information_schema whether its table exists);                *)
(*   "notify" a statement of the pool after the commit (the administrators *)
(*            notification of uploadSignedProposal);                       *)
(*   "clean"  a second transaction after the commit, which asks as         *)
(*            "inside" does (cleanupContractDocumentAssets): three at once.*)
(* The pool makes a request wait when it is empty (waitForConnections),    *)
(* without a limit on the queue (queueLimit 0) and without a timeout.      *)
(***************************************************************************)
EXTENDS Integers, Sequences, FiniteSets, FiniteSetsExt

CONSTANTS Handlers,     \* requests in flight
          LockedRows,   \* rows they lock
          NoHandler,
          Shape,        \* Shape[h]: the shape of the handler h runs
          Row,          \* Row[h]: the row it locks
          Limit         \* connectionLimit

Shapes == {"plain", "inside", "notify", "clean"}

ASSUME PoolAssumption ==
  /\ Limit \in Nat \ {0}
  /\ Shape \in [Handlers -> Shapes]
  /\ Row \in [Handlers -> LockedRows]
  /\ NoHandler \notin Handlers

VARIABLES free,         \* idle connections of the pool
          waiting,      \* the pool's queue of requests for a connection
          held,         \* connections each handler holds
          at,           \* where each handler is
          lockedBy      \* the handler that holds each row's lock

vars == <<free, waiting, held, at, lockedBy>>

Places == {"idle", "begin", "locked", "asking", "written", "notifying",
           "cleaning", "queueing", "cleaned", "closing"}

\* The connections a handler is to hold where it is.
Needs(p) ==
  CASE p = "idle" -> 0
    [] p \in {"asking", "notifying", "cleaning", "cleaned"} -> 2
    [] p = "queueing" -> 3
    [] OTHER -> 1

Queued(h) == \E i \in DOMAIN waiting : waiting[i] = h

Ready(h) == ~Queued(h) /\ held[h] = Needs(at[h])

\* The connections the handlers hold.
InUse == Cardinality({u \in Handlers \X (1..3) : u[2] <= held[u[1]]})

Init ==
  /\ free = Limit
  /\ waiting = <<>>
  /\ held = [h \in Handlers |-> 0]
  /\ at = [h \in Handlers |-> "idle"]
  /\ lockedBy = [r \in LockedRows |-> NoHandler]

-----------------------------------------------------------------------------
(* The pool. *)

\* getConnection and pool.query: an idle connection, or a place in the queue.
Ask(h) ==
  /\ ~Queued(h)
  /\ held[h] < Needs(at[h])
  /\ \/ /\ free > 0
        /\ free' = free - 1
        /\ held' = [held EXCEPT ![h] = @ + 1]
        /\ UNCHANGED waiting
     \/ /\ free = 0
        /\ waiting' = Append(waiting, h)
        /\ UNCHANGED <<free, held>>
  /\ UNCHANGED <<at, lockedBy>>

\* Faulty variant: a released connection becomes idle although a request waits.
ReleaseWithoutWaking(h, k) ==
  /\ free' = free + k
  /\ held' = [held EXCEPT ![h] = @ - k]
  /\ UNCHANGED waiting

\* Faulty variant: a released connection goes to the last request of the queue.
ReleaseToLast(h, k) ==
  LET n      == Len(waiting)
      served == Min({k, n})
      last   == {waiting[i] : i \in (n - served + 1)..n} IN
  /\ waiting' = SubSeq(waiting, 1, n - served)
  /\ free' = free + k - served
  /\ held' = [g \in Handlers |->
                held[g] + (IF g \in last THEN 1 ELSE 0)
                        - (IF g = h THEN k ELSE 0)]

\* release: each connection goes to the first request of the queue, or is idle.
Release(h, k) ==
  LET served == Min({k, Len(waiting)})
      first  == {waiting[i] : i \in 1..served} IN
  /\ waiting' = SubSeq(waiting, served + 1, Len(waiting))
  /\ free' = free + k - served
  /\ held' = [g \in Handlers |->
                held[g] + (IF g \in first THEN 1 ELSE 0)
                        - (IF g = h THEN k ELSE 0)]

-----------------------------------------------------------------------------
(* The handlers. *)

Arrive(h) ==
  /\ at[h] = "idle"
  /\ at' = [at EXCEPT ![h] = "begin"]
  /\ UNCHANGED <<free, waiting, held, lockedBy>>

\* SELECT ... FOR UPDATE of the negotiation or the contract.
LockRow(h) ==
  /\ at[h] = "begin" /\ Ready(h)
  /\ lockedBy[Row[h]] = NoHandler
  /\ lockedBy' = [lockedBy EXCEPT ![Row[h]] = h]
  /\ at' = [at EXCEPT ![h] = "locked"]
  /\ UNCHANGED <<free, waiting, held>>

\* Faulty variant: every handler asks the pool inside its transaction.
WriteAsking(h) ==
  /\ at[h] = "locked" /\ Ready(h)
  /\ at' = [at EXCEPT ![h] = "asking"]
  /\ UNCHANGED <<free, waiting, held, lockedBy>>

\* The writes of the transaction; "inside" asks the pool in the middle of them.
Write(h) ==
  /\ at[h] = "locked" /\ Ready(h)
  /\ at' = [at EXCEPT ![h] = IF Shape[h] = "inside" THEN "asking" ELSE "written"]
  /\ UNCHANGED <<free, waiting, held, lockedBy>>

\* The pool's statement inside the transaction returns.
Asked(h) ==
  /\ at[h] = "asking" /\ Ready(h)
  /\ Release(h, 1)
  /\ at' = [at EXCEPT ![h] = "written"]
  /\ UNCHANGED lockedBy

Unlock(h) == [r \in LockedRows |-> IF lockedBy[r] = h THEN NoHandler ELSE lockedBy[r]]

\* commit: the row is free, the connection is still held.
Commit(h) ==
  /\ at[h] = "written" /\ Ready(h)
  /\ lockedBy' = Unlock(h)
  /\ at' = [at EXCEPT ![h] = CASE Shape[h] = "notify" -> "notifying"
                               [] Shape[h] = "clean"  -> "cleaning"
                               [] OTHER -> "closing"]
  /\ UNCHANGED <<free, waiting, held>>

\* The notification's statement returns.
Notified(h) ==
  /\ at[h] = "notifying" /\ Ready(h)
  /\ Release(h, 1)
  /\ at' = [at EXCEPT ![h] = "closing"]
  /\ UNCHANGED lockedBy

\* The cleanup's transaction is open and queues a document's object.
Queue(h) ==
  /\ at[h] = "cleaning" /\ Ready(h)
  /\ at' = [at EXCEPT ![h] = "queueing"]
  /\ UNCHANGED <<free, waiting, held, lockedBy>>

QueueAsked(h) ==
  /\ at[h] = "queueing" /\ Ready(h)
  /\ Release(h, 1)
  /\ at' = [at EXCEPT ![h] = "cleaned"]
  /\ UNCHANGED lockedBy

\* Faulty variant: the cleanup ends without cleanupTx.release().
CleanedWithoutRelease(h) ==
  /\ at[h] = "cleaned" /\ Ready(h)
  /\ held' = [held EXCEPT ![h] = @ - 1]
  /\ at' = [at EXCEPT ![h] = "closing"]
  /\ UNCHANGED <<free, waiting, lockedBy>>

\* cleanupTx.commit() and its finally block.
Cleaned(h) ==
  /\ at[h] = "cleaned" /\ Ready(h)
  /\ Release(h, 1)
  /\ at' = [at EXCEPT ![h] = "closing"]
  /\ UNCHANGED lockedBy

\* The finally block of the handler.
Close(h) ==
  /\ at[h] = "closing" /\ Ready(h)
  /\ Release(h, 1)
  /\ at' = [at EXCEPT ![h] = "idle"]
  /\ UNCHANGED lockedBy

\* Faulty variant: the error path releases without a rollback.
EndInErrorWithoutRollback(h) ==
  /\ Release(h, held[h])
  /\ at' = [at EXCEPT ![h] = "idle"]
  /\ UNCHANGED lockedBy

\* An error: every catch on the way rolls back, every finally releases.
EndInError(h) ==
  /\ Release(h, held[h])
  /\ at' = [at EXCEPT ![h] = "idle"]
  /\ lockedBy' = Unlock(h)

Fail(h) ==
  /\ at[h] # "idle" /\ held[h] > 0 /\ Ready(h)
  /\ EndInError(h)

\* InnoDB ends the wait for a row that stays locked: the statement fails.
LockWaitTimesOut(h) ==
  /\ at[h] = "begin" /\ Ready(h)
  /\ lockedBy[Row[h]] # NoHandler
  /\ EndInError(h)

Steps(h) ==
  Ask(h) \/ LockRow(h) \/ LockWaitTimesOut(h) \/ Write(h) \/ Asked(h) \/ Commit(h)
    \/ Notified(h) \/ Queue(h) \/ QueueAsked(h) \/ Cleaned(h) \/ Close(h)

Next == \E h \in Handlers : Arrive(h) \/ Steps(h) \/ Fail(h)

Spec == Init /\ [][Next]_vars

\* A handler whose next statement can run runs it, and InnoDB times a wait for
\* a row out.  Nothing is assumed of the pool: a request stays in its queue for
\* as long as no connection is released.
FairSpec == Spec /\ \A h \in Handlers : WF_vars(Steps(h))

-----------------------------------------------------------------------------
(* Properties. *)

\* A connection is idle, or held by a handler that has not ended: the catch and
\* finally blocks of every shape of handler give back what it took.
NoConnectionIsLost ==
  /\ free + InUse = Limit
  /\ \A h \in Handlers : at[h] = "idle" => held[h] = 0

\* A request waits for a connection only while the pool has none idle.
WaitersMeanNoneIdle == waiting # <<>> => free = 0

\* A lock on a row is held by a handler inside its transaction, which has a
\* connection: what a rollback or a commit leaves locked is locked for good.
LockedByATransaction ==
  \A r \in LockedRows : lockedBy[r] # NoHandler =>
    /\ held[lockedBy[r]] > 0
    /\ at[lockedBy[r]] \in {"locked", "asking", "written"}

\* No connection is lost, none is idle while a request waits for one, and what is
\* locked is held by an open transaction.
PoolIsSound == NoConnectionIsLost /\ WaitersMeanNoneIdle /\ LockedByATransaction

\* Every connection is held by a handler that waits for one more.
Exhausted ==
  /\ \A h \in Handlers : held[h] > 0 => Queued(h)
  /\ InUse = Limit

\* Every request ends, or the handlers hold the whole pool between them and
\* each of them waits for another connection.
EndsUnlessExhausted ==
  \A h \in Handlers : at[h] # "idle" ~> (at[h] = "idle" \/ Exhausted)

\* The pool is never exhausted in that way (when it has more connections than
\* the handlers in flight ask for beyond their first).
NeverExhausted == ~Exhausted

\* Every request ends (in the same case).
EveryRequestIsAnswered == \A h \in Handlers : at[h] # "idle" ~> at[h] = "idle"
=============================================================================
