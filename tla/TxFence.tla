------------------------------ MODULE TxFence ------------------------------
(***************************************************************************)
(* The indexer database's one shared transaction.                          *)
(*                                                                         *)
(* A Database object holds ONE transaction connection.  The block loop     *)
(* (blocks and reorg rollbacks) and the fee-quote dry runs of the API      *)
(* share it behind a FIFO mutex.  A transaction's owner starts a run, an   *)
(* asynchronous computation that issues statements, and may stop waiting   *)
(* for it (the watchdog).  The abandoned run lives on as a zombie whose    *)
(* statements are refused by the epoch fence: every begin and every        *)
(* teardown advances `epoch', and a run carries the epoch it started in.   *)
(*                                                                         *)
(* A connection is a FIFO pipe of commands.  The server executes the head  *)
(* and answers in one step, because no JavaScript state changes between a  *)
(* command's execution and the answer that resumes its caller.             *)
(***************************************************************************)
EXTENDS Integers, Sequences, FiniteSets

CONSTANTS
    Loop,              \* the block loop's flow
    Quotes,            \* the dry-run flows of the API
    Conns,             \* the connections of the pool
    NoConn,            \* transactionConnection = null
    MaxTx,             \* bound: transactions requested
    MaxStmts,          \* bound: statements per run
    MaxCrashes,        \* bound: process restarts
    PostCommitFaults   \* may a step after a block's commit throw?

ASSUME FlowsAssumption == Loop \notin Quotes
ASSUME ConnsAssumption == NoConn \notin Conns
ASSUME BoundsAssumption ==
    /\ MaxTx \in Nat
    /\ MaxStmts \in Nat
    /\ MaxCrashes \in Nat
    /\ PostCommitFaults \in BOOLEAN

Flows == {Loop} \cup Quotes

VARIABLES
    locked,     \* _txLock.locked
    queue,      \* _txLock.queue: waiters [flow, settled]
    conn,       \* transactionConnection
    epoch,      \* _txEpoch
    pool,       \* connections that nobody has checked out
    srv,        \* the server's side of a connection: [open, writes]
    pipe,       \* commands sent on a connection and not yet answered
    pc,         \* where a flow is
    tx,         \* the transaction a flow is working on (a ghost number)
    runs,       \* runs in progress, abandoned ones included
    lastTx,     \* the last transaction number handed out
    durable,    \* statements that survive a restart
    issued,     \* statements the server has executed
    reported,   \* transactions whose commitTransaction returned true
    crashes

js     == <<locked, queue, conn, epoch, pool>>
server == <<srv, pipe, durable, issued>>
vars   == <<js, server, pc, tx, runs, lastTx, reported, crashes>>

Closed == [open |-> FALSE, writes |-> {}]

Init ==
    /\ locked = FALSE
    /\ queue = <<>>
    /\ conn = NoConn
    /\ epoch = 0
    /\ pool = Conns
    /\ srv = [c \in Conns |-> Closed]
    /\ pipe = [c \in Conns |-> <<>>]
    /\ pc = [f \in Flows |-> "idle"]
    /\ tx = [f \in Flows |-> 0]
    /\ runs = {}
    /\ lastTx = 0
    /\ durable = {}
    /\ issued = {}
    /\ reported = {}
    /\ crashes = 0

Send(c, cmd) == pipe' = [pipe EXCEPT ![c] = Append(@, cmd)]

----------------------------------------------------------------------------
(* The mutex.                                                              *)

\* beginTransaction's acquireTxLock: take a free lock, else queue up.
Acquire(f) ==
    /\ pc[f] = "idle"
    /\ lastTx < MaxTx
    /\ lastTx' = lastTx + 1
    /\ tx' = [tx EXCEPT ![f] = lastTx']
    /\ \/ /\ ~locked
          /\ locked' = TRUE
          /\ pc' = [pc EXCEPT ![f] = "locked"]
          /\ UNCHANGED queue
       \/ /\ locked
          /\ queue' = Append(queue, [flow |-> f, settled |-> FALSE])
          /\ pc' = [pc EXCEPT ![f] = "waiting"]
          /\ UNCHANGED locked
    /\ UNCHANGED <<conn, epoch, pool, server, runs, reported, crashes>>

\* A dry run's wait is bounded: its waiter stays queued, marked settled, and
\* the caller answers "busy".  The block loop waits without a bound.
LockTimeout(f) ==
    /\ f \in Quotes
    /\ pc[f] = "waiting"
    /\ queue' = [i \in 1 .. Len(queue) |->
                    IF queue[i].flow = f THEN [queue[i] EXCEPT !.settled = TRUE]
                                         ELSE queue[i]]
    /\ pc' = [pc EXCEPT ![f] = "idle"]
    /\ UNCHANGED <<locked, conn, epoch, pool, server, tx, runs, lastTx, reported, crashes>>

Live == {i \in 1 .. Len(queue) : ~queue[i].settled}

\* Faulty variant: a waiter that has given up is granted the lock too.
ReleaseToAnyone(f, next) ==
    \/ /\ queue = <<>>
       /\ locked' = FALSE
       /\ pc' = [pc EXCEPT ![f] = next]
       /\ UNCHANGED queue
    \/ /\ queue # <<>>
       /\ queue' = Tail(queue)
       /\ pc' = [g \in Flows |->
                    IF g = f THEN next
                    ELSE IF g = Head(queue).flow /\ ~Head(queue).settled THEN "locked"
                    ELSE pc[g]]
       /\ UNCHANGED locked

\* releaseTxLock by f, which goes on at `next': the first waiter that has not
\* given up is granted the lock, the settled ones before it are dropped.
ReleaseTxLock(f, next) ==
    \/ /\ Live = {}
       /\ locked' = FALSE
       /\ queue' = <<>>
       /\ pc' = [pc EXCEPT ![f] = next]
    \/ \E i \in Live :
          /\ \A j \in Live : i <= j
          /\ queue' = SubSeq(queue, i + 1, Len(queue))
          /\ pc' = [pc EXCEPT ![f] = next, ![queue[i].flow] = "locked"]
          /\ UNCHANGED locked

----------------------------------------------------------------------------
(* beginTransaction, rollbackTransaction, commitTransaction.               *)

Held == {conn} \ {NoConn}

\* Faulty variant: released without looking whether there is a connection.
ReleaseConnectionBlindly ==
    /\ pool' = pool \cup {conn}
    /\ srv' = [c \in Conns |-> IF c = conn THEN Closed ELSE srv[c]]
    /\ conn' = NoConn

\* releaseConnection: the transaction connection, if any, goes back to the
\* pool, which rolls back whatever is still open on it.
ReleaseConnection ==
    /\ pool' = pool \cup Held
    /\ srv' = [c \in Conns |-> IF c = conn THEN Closed ELSE srv[c]]
    /\ conn' = NoConn

\* With the lock held: a transaction connection somebody left behind is
\* released, then one is taken from the pool and BEGIN is sent on it.
Connect(f) ==
    /\ pc[f] = "locked"
    /\ srv' = [c \in Conns |-> IF c = conn THEN Closed ELSE srv[c]]
    /\ \E c \in pool \cup Held :
          /\ pool' = (pool \cup Held) \ {c}
          /\ conn' = c
          /\ Send(c, [cmd |-> "begin", by |-> f])
    /\ pc' = [pc EXCEPT ![f] = "beginning"]
    /\ UNCHANGED <<locked, queue, epoch, durable, issued, tx, runs, lastTx, reported, crashes>>

\* No connection can be had: beginTransaction throws and gives up the lock.
ConnectFails(f) ==
    /\ pc[f] = "locked"
    /\ ReleaseConnection
    /\ ReleaseTxLock(f, "idle")
    /\ UNCHANGED <<epoch, pipe, durable, issued, tx, runs, lastTx, reported, crashes>>

\* Faulty variant: the connection BEGIN failed on is forgotten.
BeginFailsLeaking(f, c) ==
    /\ pc[f] = "beginning"
    /\ pipe[c] # <<>>
    /\ Head(pipe[c]) = [cmd |-> "begin", by |-> f]
    /\ pipe' = [pipe EXCEPT ![c] = Tail(@)]
    /\ conn' = NoConn
    /\ ReleaseTxLock(f, "idle")
    /\ UNCHANGED <<epoch, pool, srv, durable, issued, tx, runs, lastTx, reported, crashes>>

\* BEGIN fails: the same, once the connection is back in the pool.
BeginFails(f, c) ==
    /\ pc[f] = "beginning"
    /\ pipe[c] # <<>>
    /\ Head(pipe[c]) = [cmd |-> "begin", by |-> f]
    /\ pipe' = [pipe EXCEPT ![c] = Tail(@)]
    /\ ReleaseConnection
    /\ ReleaseTxLock(f, "idle")
    /\ UNCHANGED <<epoch, durable, issued, tx, runs, lastTx, reported, crashes>>

NewRun(f, e) == [tx |-> tx[f], flow |-> f, epoch |-> e, at |-> "idle", db |-> NoConn, n |-> 0]

\* BEGIN is answered (it commits a transaction still open on the connection)
\* and the epoch advances.  The block loop reads the new epoch at once and
\* starts its run; a dry run first reads the tip.
Begun(f, c) ==
    /\ pc[f] = "beginning"
    /\ pipe[c] # <<>>
    /\ Head(pipe[c]) = [cmd |-> "begin", by |-> f]
    /\ pipe' = [pipe EXCEPT ![c] = Tail(@)]
    /\ durable' = durable \cup srv[c].writes
    /\ srv' = [srv EXCEPT ![c] = [open |-> TRUE, writes |-> {}]]
    /\ epoch' = epoch + 1
    /\ pc' = [pc EXCEPT ![f] = IF f = Loop THEN "running" ELSE "open"]
    /\ runs' = IF f = Loop THEN runs \cup {NewRun(f, epoch')} ELSE runs
    /\ UNCHANGED <<locked, queue, conn, pool, issued, tx, lastTx, reported, crashes>>

\* Faulty variant: the teardown does not advance the fence.
TearDownUnfenced(f) ==
    \/ /\ conn # NoConn
       /\ Send(conn, [cmd |-> "rollback", by |-> f])
       /\ pc' = [pc EXCEPT ![f] = "rollingback"]
       /\ UNCHANGED epoch
    \/ /\ conn = NoConn
       /\ pc' = [pc EXCEPT ![f] = "idle"]
       /\ UNCHANGED <<epoch, pipe>>

\* rollbackTransaction, up to the ROLLBACK it sends: the fence comes first.
\* With no transaction connection it does nothing.
TearDown(f) ==
    \/ /\ conn # NoConn
       /\ epoch' = epoch + 1
       /\ Send(conn, [cmd |-> "rollback", by |-> f])
       /\ pc' = [pc EXCEPT ![f] = "rollingback"]
    \/ /\ conn = NoConn
       /\ pc' = [pc EXCEPT ![f] = "idle"]
       /\ UNCHANGED <<epoch, pipe>>

\* The process stops and starts again: the sessions end, so the server rolls
\* back what was open on them.
Restart ==
    /\ locked' = FALSE
    /\ queue' = <<>>
    /\ conn' = NoConn
    /\ epoch' = 0
    /\ pool' = Conns
    /\ srv' = [c \in Conns |-> Closed]
    /\ pipe' = [c \in Conns |-> <<>>]
    /\ pc' = [f \in Flows |-> "idle"]
    /\ runs' = {}

\* The ROLLBACK is answered: the rest of rollbackTransaction.  The connection
\* it releases is the one the object holds NOW.  If there is none it throws: a
\* dry run ends without giving up the lock, the block loop's process exits.
RolledBack(f, c) ==
    /\ pc[f] = "rollingback"
    /\ pipe[c] # <<>>
    /\ Head(pipe[c]) = [cmd |-> "rollback", by |-> f]
    /\ \/ /\ conn # NoConn
          /\ pool' = pool \cup {conn}
          /\ srv' = [srv EXCEPT ![c] = Closed, ![conn] = Closed]
          /\ pipe' = [pipe EXCEPT ![c] = Tail(@)]
          /\ conn' = NoConn
          /\ ReleaseTxLock(f, "idle")
          /\ UNCHANGED <<epoch, runs>>
       \/ /\ conn = NoConn
          /\ f # Loop
          /\ srv' = [srv EXCEPT ![c] = Closed]
          /\ pipe' = [pipe EXCEPT ![c] = Tail(@)]
          /\ pc' = [pc EXCEPT ![f] = "idle"]
          /\ UNCHANGED <<locked, queue, conn, epoch, pool, runs>>
       \/ conn = NoConn /\ f = Loop /\ Restart
    /\ UNCHANGED <<durable, issued, tx, lastTx, reported, crashes>>

\* commitTransaction, up to the COMMIT it sends.  With no transaction
\* connection it returns false and the block is abandoned.
StartCommit(f) ==
    \/ /\ conn # NoConn
       /\ Send(conn, [cmd |-> "commit", by |-> f])
       /\ pc' = [pc EXCEPT ![f] = "committing"]
    \/ /\ conn = NoConn
       /\ pc' = [pc EXCEPT ![f] = "idle"]
       /\ UNCHANGED pipe

\* The COMMIT is answered: the connection goes back, the fence advances, the
\* lock is passed on and the caller is told true.  With the connection gone
\* from under it, commitTransaction throws and holds on to the lock.
Committed(f, c) ==
    /\ pc[f] = "committing"
    /\ pipe[c] # <<>>
    /\ Head(pipe[c]) = [cmd |-> "commit", by |-> f]
    /\ pipe' = [pipe EXCEPT ![c] = Tail(@)]
    /\ durable' = durable \cup srv[c].writes
    /\ \/ /\ conn # NoConn
          /\ srv' = [srv EXCEPT ![c] = Closed, ![conn] = Closed]
          /\ pool' = pool \cup {conn}
          /\ conn' = NoConn
          /\ epoch' = epoch + 1
          /\ ReleaseTxLock(f, "committed")
          /\ reported' = reported \cup {tx[f]}
       \/ /\ conn = NoConn
          /\ srv' = [srv EXCEPT ![c] = Closed]
          /\ pc' = [pc EXCEPT ![f] = "idle"]
          /\ UNCHANGED <<js, reported>>
    /\ UNCHANGED <<issued, tx, runs, lastTx, crashes>>

\* Faulty variant: a failed COMMIT is reported like a successful one.
CommitFailsSilently(f, c) ==
    /\ pc[f] = "committing"
    /\ conn # NoConn
    /\ pipe[c] # <<>>
    /\ Head(pipe[c]) = [cmd |-> "commit", by |-> f]
    /\ pipe' = [pipe EXCEPT ![c] = Tail(@)]
    /\ srv' = [srv EXCEPT ![c] = Closed, ![conn] = Closed]
    /\ pool' = pool \cup {conn}
    /\ conn' = NoConn
    /\ epoch' = epoch + 1
    /\ ReleaseTxLock(f, "committed")
    /\ reported' = reported \cup {tx[f]}
    /\ UNCHANGED <<durable, issued, tx, runs, lastTx, crashes>>

\* COMMIT fails, before or after the server applied it.  The transaction is
\* rolled back and torn down, commitTransaction throws, and abandonBlock's own
\* rollback finds no transaction.
CommitFails(f, c) ==
    /\ pc[f] = "committing"
    /\ conn # NoConn
    /\ pipe[c] # <<>>
    /\ Head(pipe[c]) = [cmd |-> "commit", by |-> f]
    /\ pipe' = [pipe EXCEPT ![c] = Tail(@)]
    /\ durable' \in {durable, durable \cup srv[c].writes}
    /\ srv' = [srv EXCEPT ![c] = Closed, ![conn] = Closed]
    /\ pool' = pool \cup {conn}
    /\ conn' = NoConn
    /\ epoch' = epoch + 1
    /\ ReleaseTxLock(f, "idle")
    /\ UNCHANGED <<issued, tx, runs, lastTx, reported, crashes>>

----------------------------------------------------------------------------
(* Runs: doQuery under an epoch, and the flow that waits for the run.      *)

\* The flow waits for this run (it has not been abandoned).
Awaited(r) == pc[r.flow] = "running" /\ tx[r.flow] = r.tx

\* The statement a run issues next.
Statement(r) == [flow |-> r.flow, tx |-> r.tx, n |-> r.n + 1]

Step(r, s) == runs' = (runs \ {r}) \cup {s}

\* assertTxNotFenced passes.
Unfenced(r) == r.epoch = epoch

\* doQuery up to its await of getConnection: the shared connection when there
\* is one, else a pooled one (db = NoConn), where statements autocommit.
Query(r) ==
    /\ r.at = "idle"
    /\ r.n < MaxStmts
    /\ Unfenced(r)
    /\ Step(r, [r EXCEPT !.at = "checked", !.db = conn])
    /\ UNCHANGED <<js, server, pc, tx, lastTx, reported, crashes>>

\* Faulty variant: the fence is not looked at again after the await.
SendUnchecked(r) ==
    /\ r.at = "checked"
    /\ \/ /\ r.db # NoConn
          /\ Send(r.db, [cmd |-> "write", by |-> r.tx])
          /\ Step(r, [r EXCEPT !.at = "sent"])
          /\ UNCHANGED <<durable, issued>>
       \/ /\ r.db = NoConn
          /\ durable' = durable \cup {Statement(r)}
          /\ issued' = issued \cup {Statement(r)}
          /\ Step(r, [r EXCEPT !.at = "idle", !.n = @ + 1])
          /\ UNCHANGED pipe
    /\ UNCHANGED <<js, srv, pc, tx, lastTx, reported, crashes>>

\* The rest of doQuery: the fence again, then the statement goes out.
SendStatement(r) ==
    /\ r.at = "checked"
    /\ Unfenced(r)
    /\ \/ /\ r.db # NoConn
          /\ Send(r.db, [cmd |-> "write", by |-> r.tx])
          /\ Step(r, [r EXCEPT !.at = "sent"])
          /\ UNCHANGED <<durable, issued>>
       \/ /\ r.db = NoConn
          /\ durable' = durable \cup {Statement(r)}
          /\ issued' = issued \cup {Statement(r)}
          /\ Step(r, [r EXCEPT !.at = "idle", !.n = @ + 1])
          /\ UNCHANGED pipe
    /\ UNCHANGED <<js, srv, pc, tx, lastTx, reported, crashes>>

\* The server executes a statement: inside the open transaction, or in
\* autocommit when none is open.
Executed(r, c) ==
    /\ r.at = "sent"
    /\ pipe[c] # <<>>
    /\ Head(pipe[c]) = [cmd |-> "write", by |-> r.tx]
    /\ pipe' = [pipe EXCEPT ![c] = Tail(@)]
    /\ issued' = issued \cup {Statement(r)}
    /\ \/ /\ srv[c].open
          /\ srv' = [srv EXCEPT ![c].writes = @ \cup {Statement(r)}]
          /\ UNCHANGED durable
       \/ /\ ~srv[c].open
          /\ durable' = durable \cup {Statement(r)}
          /\ UNCHANGED srv
    /\ Step(r, [r EXCEPT !.at = "idle", !.n = @ + 1])
    /\ UNCHANGED <<js, pc, tx, lastTx, reported, crashes>>

\* The run throws: the fence refuses it, or the action does.  The flow that
\* waits for it tears the transaction down; a zombie's error is swallowed.
RunThrows(r) ==
    /\ r.at # "sent"
    /\ r.at = "checked" => ~Unfenced(r)
    /\ runs' = runs \ {r}
    /\ \/ Awaited(r) /\ TearDown(r.flow)
       \/ ~Awaited(r) /\ UNCHANGED <<epoch, pipe, pc>>
    /\ UNCHANGED <<locked, queue, conn, pool, srv, durable, issued, tx, lastTx, reported, crashes>>

\* Faulty variant: a dry run that ends well is committed like a block.
RunReturnsCommitting(r) ==
    /\ r.at = "idle"
    /\ runs' = runs \ {r}
    /\ \/ Awaited(r) /\ StartCommit(r.flow)
       \/ ~Awaited(r) /\ UNCHANGED <<pipe, pc>>
    /\ UNCHANGED <<js, srv, durable, issued, tx, lastTx, reported, crashes>>

\* The run returns.  The block loop commits, a dry run rolls back.
RunReturns(r) ==
    /\ r.at = "idle"
    /\ runs' = runs \ {r}
    /\ \/ Awaited(r) /\ r.flow = Loop /\ StartCommit(r.flow) /\ UNCHANGED epoch
       \/ Awaited(r) /\ r.flow # Loop /\ TearDown(r.flow)
       \/ ~Awaited(r) /\ UNCHANGED <<epoch, pipe, pc>>
    /\ UNCHANGED <<locked, queue, conn, pool, srv, durable, issued, tx, lastTx, reported, crashes>>

\* A dry run has read the tip under the mutex and starts its handler, or a
\* read fails or the launch gate refuses the action, and it rolls back.
StartDryRun(f) ==
    /\ pc[f] = "open"
    /\ \/ /\ runs' = runs \cup {NewRun(f, epoch)}
          /\ pc' = [pc EXCEPT ![f] = "running"]
          /\ UNCHANGED <<epoch, pipe>>
       \/ TearDown(f) /\ UNCHANGED runs
    /\ UNCHANGED <<locked, queue, conn, pool, srv, durable, issued, tx, lastTx, reported, crashes>>

\* Faulty variant: the caller gives up without rolling back.
WatchdogLeaves(f) ==
    /\ pc[f] = "running"
    /\ pc' = [pc EXCEPT ![f] = "idle"]
    /\ UNCHANGED <<js, server, tx, runs, lastTx, reported, crashes>>

\* withTimeout fires: the flow stops waiting, rolls back, and leaves the run
\* behind as a zombie.
Watchdog(f) ==
    /\ pc[f] = "running"
    /\ TearDown(f)
    /\ UNCHANGED <<locked, queue, conn, pool, srv, durable, issued, tx, runs, lastTx,
                   reported, crashes>>

\* The steps after a block's commit (hub deliveries, decoder tip).  When one
\* throws, the block loop's catch calls rollbackTransaction all the same.
AfterCommit ==
    /\ pc[Loop] = "committed"
    /\ \/ pc' = [pc EXCEPT ![Loop] = "idle"] /\ UNCHANGED <<epoch, pipe>>
       \/ PostCommitFaults /\ TearDown(Loop)
    /\ UNCHANGED <<locked, queue, conn, pool, srv, durable, issued, tx, runs, lastTx,
                   reported, crashes>>

\* The process dies.  A COMMIT on its way may still be applied.
Crash ==
    /\ crashes < MaxCrashes
    /\ crashes' = crashes + 1
    /\ Restart
    /\ \/ UNCHANGED durable
       \/ \E c \in Conns :
             /\ pipe[c] # <<>>
             /\ Head(pipe[c]).cmd = "commit"
             /\ durable' = durable \cup srv[c].writes
    /\ UNCHANGED <<issued, tx, lastTx, reported>>

Answer(f) ==
    \E c \in Conns : Begun(f, c) \/ BeginFails(f, c) \/ RolledBack(f, c)
                     \/ Committed(f, c) \/ CommitFails(f, c)

FlowStep(f) == Connect(f) \/ ConnectFails(f) \/ Answer(f) \/ StartDryRun(f)

RunStep(r) ==
    \/ Query(r) \/ SendStatement(r) \/ RunThrows(r) \/ RunReturns(r)
    \/ \E c \in Conns : Executed(r, c)

Next ==
    \/ \E f \in Flows : Acquire(f) \/ LockTimeout(f) \/ FlowStep(f) \/ Watchdog(f)
    \/ \E r \in runs : RunStep(r)
    \/ AfterCommit
    \/ Crash

Spec == Init /\ [][Next]_vars

\* The server answers every command, promises that can resolve do, and the
\* watchdog is a timer: it fires unless the run ends first.
FairSpec ==
    /\ Spec
    /\ \A f \in Flows : WF_vars(FlowStep(f)) /\ WF_vars(Watchdog(f))
    /\ WF_vars(AfterCommit)
    /\ WF_vars(\E r \in runs, c \in Conns : Executed(r, c))

----------------------------------------------------------------------------
(* Properties.                                                             *)

\* A transaction is all or nothing: either every statement the server ran for
\* it survives or none does, whatever zombies, watchdogs, failed commits and
\* restarts do in between.
AllOrNothing ==
    \A w \in durable : \A v \in issued : v.tx = w.tx => v \in durable

\* A statement only ever runs inside its own transaction: no transaction that
\* is open on the server holds a statement of another one.
NoForeignWrites ==
    \A c \in Conns : \A v, w \in srv[c].writes : v.tx = w.tx

\* When commitTransaction tells the block loop that a block is committed, its
\* statements are durable.
CommitIsTruthful ==
    \A w \in issued : w.tx \in reported => w \in durable

\* What begin, doQuery and commit promise together of a transaction: it is
\* whole, it is its own, and a reported one is durable.
TransactionsHold == AllOrNothing /\ NoForeignWrites /\ CommitIsTruthful

\* A dry run leaves nothing behind.
DryRunsLeaveNothing ==
    \A w \in durable : w.flow = Loop

Holders == {f \in Flows : pc[f] \notin {"idle", "waiting", "committed"}}

\* The mutex has exactly one holder when it is locked and none when it is
\* free, so it is neither stranded by a caller that gave up nor shared.
LockHasOneHolder ==
    /\ \A f, g \in Holders : f = g
    /\ locked <=> Holders # {}

\* Every connection is idle in the pool or is the transaction connection: the
\* error paths of begin, commit and rollback return what they took.
NoConnectionLeak ==
    /\ pool \cup Held = Conns
    /\ conn \notin pool

\* No error path of begin, commit and rollback keeps the mutex or a connection,
\* nor gives back one that is not its own.
NothingIsHeldBack == LockHasOneHolder /\ NoConnectionLeak

\* Whoever asked for the mutex is through with it eventually: the block loop
\* does not wait forever behind dry runs, given up or stuck.
FlowsFinish ==
    \A f \in Flows : []<>(pc[f] = "idle")

=============================================================================
