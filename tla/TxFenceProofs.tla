-------------------------- MODULE TxFenceProofs --------------------------
(***************************************************************************)
(* Proofs about TxFence for any number of dry runs, connections,           *)
(* transactions, statements and restarts, where no step after a block's    *)
(* commit throws.                                                          *)
(***************************************************************************)
EXTENDS TxFence, SequenceTheorems, TLAPS

Write(t) == [cmd |-> "write", by |-> t]

\* Flows that hold the transaction connection, and flows with a transaction
\* that has not come to its end.
Using   == {f \in Flows : pc[f] \in {"beginning", "open", "running", "rollingback", "committing"}}
Pending == {f \in Flows : pc[f] \notin {"idle", "committed"}}

Places ==
    {"idle", "waiting", "locked", "beginning", "open", "running", "rollingback", "committing",
     "committed"}

Command == [cmd : {"begin", "rollback", "commit"}, by : Flows] \cup [cmd : {"write"}, by : Nat]

Waiter == [flow : Flows, settled : BOOLEAN]

Run ==
    [tx : Nat, flow : Flows, epoch : Nat, at : {"idle", "checked", "sent"},
     db : Conns \cup {NoConn}, n : Nat]

Stmt == [flow : Flows, tx : Nat, n : Nat]

Types ==
    /\ locked \in BOOLEAN
    /\ queue \in Seq(Waiter)
    /\ conn \in Conns \cup {NoConn}
    /\ epoch \in Nat
    /\ pool \in SUBSET Conns
    /\ srv \in [Conns -> [open : BOOLEAN, writes : SUBSET Stmt]]
    /\ pipe \in [Conns -> Seq(Command)]
    /\ pc \in [Flows -> Places]
    /\ tx \in [Flows -> Nat]
    /\ runs \in SUBSET Run
    /\ lastTx \in Nat
    /\ durable \in SUBSET Stmt
    /\ issued \in SUBSET Stmt
    /\ reported \in SUBSET Nat

\* A waiter that has not given up is a flow that waits, once.
QueueIsWaiting ==
    /\ \A i \in 1 .. Len(queue) : ~queue[i].settled => pc[queue[i].flow] = "waiting"
    /\ \A i, j \in 1 .. Len(queue) :
          ~queue[i].settled /\ ~queue[j].settled /\ queue[i].flow = queue[j].flow => i = j

\* The transaction connection is there exactly while a flow uses it.
ConnectionIsUsed == conn # NoConn <=> Using # {}

\* A number is handed out to one transaction, and a transaction has one run.
NumbersAreFresh ==
    /\ \A f \in Flows : tx[f] <= lastTx
    /\ \A f, g \in Flows : f # g => tx[f] = 0 \/ tx[f] # tx[g]
    /\ \A f \in Pending : tx[f] # 0
    /\ \A r \in runs : r.tx <= lastTx /\ \A f \in Flows : r.tx = tx[f] => r.flow = f
    /\ \A r, q \in runs : r.tx = q.tx => r = q
    /\ \A f \in Flows : pc[f] \in {"waiting", "locked", "beginning", "open"}
                        => \A r \in runs : r.tx # tx[f]
    /\ \A w \in issued \cup durable : w.tx <= lastTx
    /\ \A t \in reported : t <= lastTx

\* A run passes the fence only while its flow waits for it, and what it looked
\* up before its await is still the transaction connection.
FenceHolds ==
    \A r \in runs :
        /\ r.epoch <= epoch
        /\ r.epoch = epoch => Awaited(r) /\ (r.at = "checked" => r.db = conn)

\* The commands of s are statements of transaction t, up to the last, which is m.
EndsIn(s, t, m) ==
    /\ Len(s) > 0
    /\ s[Len(s)] = m
    /\ \A i \in 1 .. Len(s) - 1 : s[i] = Write(t)

Statements(s, t) == \A i \in 1 .. Len(s) : s[i] = Write(t)

\* What is on its way: nothing but on the transaction connection, and there
\* the statements of its transaction, then at most the command that ends it.
PipesAreOwned ==
    /\ \A c \in Conns : c # conn => pipe[c] = <<>>
    /\ \A f \in Using :
          /\ pc[f] = "beginning" => pipe[conn] = << [cmd |-> "begin", by |-> f] >>
          /\ pc[f] = "open" => pipe[conn] = <<>>
          /\ pc[f] = "running" => Statements(pipe[conn], tx[f])
          /\ pc[f] = "rollingback" => EndsIn(pipe[conn], tx[f], [cmd |-> "rollback", by |-> f])
          /\ pc[f] = "committing" => EndsIn(pipe[conn], tx[f], [cmd |-> "commit", by |-> f])

\* Nothing is open on a connection but the transaction of the flow that uses it.
SessionsAreOwned ==
    /\ \A c \in Conns : c # conn => srv[c] = Closed
    /\ \A f \in Using :
          /\ pc[f] = "beginning" => srv[conn] = Closed
          /\ pc[f] # "beginning" => srv[conn].open
          /\ \A w \in srv[conn].writes : w.tx = tx[f] /\ w.flow = f

\* A transaction that has not come to its end has nothing durable and is not
\* reported, and what ran of it is what the server holds open.
PendingIsOpen ==
    \A f \in Pending :
        /\ tx[f] \notin reported
        /\ \A w \in durable : w.tx # tx[f]
        /\ \A w \in issued : w.tx = tx[f] => f \in Using /\ w \in srv[conn].writes

OnlyBlocksCommit == \A f \in Flows : pc[f] = "committing" => f = Loop

Inv ==
    /\ Types
    /\ LockHasOneHolder /\ QueueIsWaiting
    /\ NoConnectionLeak /\ ConnectionIsUsed
    /\ NumbersAreFresh /\ FenceHolds
    /\ PipesAreOwned /\ SessionsAreOwned
    /\ PendingIsOpen /\ OnlyBlocksCommit
    /\ AllOrNothing /\ CommitIsTruthful /\ DryRunsLeaveNothing

----------------------------------------------------------------------------
(* Facts about command sequences.                                          *)

\* Sending a statement keeps a pipe a sequence of statements of t.
LEMMA SendWrite ==
    ASSUME NEW s \in Seq(Command), NEW t \in Nat, Statements(s, t)
    PROVE  Append(s, Write(t)) \in Seq(Command) /\ Statements(Append(s, Write(t)), t)
<1>1. Write(t) \in Command
    BY DEF Write, Command
<1> QED BY <1>1 DEF Statements

\* Sending the command that ends a transaction makes it the last one.
LEMMA SendLast ==
    ASSUME NEW s \in Seq(Command), NEW t \in Nat, Statements(s, t), NEW m \in Command
    PROVE  Append(s, m) \in Seq(Command) /\ EndsIn(Append(s, m), t, m)
<1>1. /\ Append(s, m) \in Seq(Command)
      /\ Len(Append(s, m)) = Len(s) + 1 /\ Len(s) \in Nat
      /\ Append(s, m)[Len(s) + 1] = m
      /\ \A i \in 1 .. Len(s) : Append(s, m)[i] = s[i]
    OBVIOUS
<1> QED BY <1>1 DEF Statements, EndsIn

\* Executing a statement leaves the rest of the pipe as it was.
LEMMA TakeWrite ==
    ASSUME NEW s \in Seq(Command), s # <<>>
    PROVE  /\ Tail(s) \in Seq(Command)
           /\ \A t : Statements(s, t) => Head(s) = Write(t) /\ Statements(Tail(s), t)
           /\ \A t, m : EndsIn(s, t, m) /\ Head(s) # m => Head(s) = Write(t) /\ EndsIn(Tail(s), t, m)
<1>1. Tail(s) \in Seq(Command) /\ Len(Tail(s)) = Len(s) - 1 /\ Len(s) \in Nat /\ Len(s) # 0
    OBVIOUS
<1>2. \A i \in 1 .. Len(s) - 1 : Tail(s)[i] = s[i + 1]
    OBVIOUS
<1>3. Head(s) = s[1]
    OBVIOUS
<1>4. ASSUME NEW t, Statements(s, t) PROVE Head(s) = Write(t) /\ Statements(Tail(s), t)
    BY <1>1, <1>2, <1>3, <1>4 DEF Statements
<1>5. ASSUME NEW t, NEW m, EndsIn(s, t, m), Head(s) # m
      PROVE  Head(s) = Write(t) /\ EndsIn(Tail(s), t, m)
    <2>1. Len(s) > 1
        BY <1>1, <1>3, <1>5 DEF EndsIn
    <2>2. Head(s) = Write(t)
        BY <2>1, <1>1, <1>3, <1>5 DEF EndsIn
    <2>3. Len(Tail(s)) > 0
        BY <2>1, <1>1
    <2>4. Tail(s)[Len(Tail(s))] = m
        BY <2>1, <1>1, <1>2, <1>5 DEF EndsIn
    <2>5. \A i \in 1 .. Len(Tail(s)) - 1 : Tail(s)[i] = Write(t)
        BY <2>1, <1>1, <1>2, <1>5 DEF EndsIn
    <2> QED BY <2>2, <2>3, <2>4, <2>5 DEF EndsIn
<1> QED BY <1>1, <1>4, <1>5

\* The command that ends a transaction is reached last.
LEMMA TakeLast ==
    ASSUME NEW s \in Seq(Command), NEW t, NEW m, EndsIn(s, t, m), Head(s) = m, m.cmd # "write"
    PROVE  Tail(s) = <<>>
<1>0. Len(s) \in Nat /\ Len(s) > 0
    BY DEF EndsIn
<1>1. Head(s) = s[1]
    BY <1>0
<1>2. Write(t).cmd = "write"
    BY DEF Write
<1>3. Len(s) = 1
    <2>1. SUFFICES ASSUME Len(s) # 1 PROVE FALSE
        OBVIOUS
    <2>2. 1 \in 1 .. Len(s) - 1
        <3> DEFINE n == Len(s)
        <3>1. n \in Nat /\ n > 0 /\ n # 1
            BY <1>0, <2>1
        <3> HIDE DEF n
        <3>2. 1 \in 1 .. n - 1
            BY ONLY <3>1
        <3> QED BY <3>2 DEF n
    <2>3. s[1] = Write(t)
        BY <2>2 DEF EndsIn
    <2> QED BY <1>1, <1>2, <2>3
<1>4. s # <<>>
    BY <1>3, EmptySeq
<1>5. Tail(s) \in Seq(Command) /\ Len(Tail(s)) = 0
    BY <1>3, <1>4, HeadTailProperties
<1> QED BY Zenon, <1>5, EmptySeq

----------------------------------------------------------------------------
(* The mutex.                                                              *)

\* The holder gives the mutex up: it goes to the first live waiter or is free,
\* and nobody else moves.
LEMMA ReleaseLock ==
    ASSUME Types, LockHasOneHolder, QueueIsWaiting,
           NEW f \in Holders, NEW next \in {"idle", "committed"}, ReleaseTxLock(f, next)
    PROVE  /\ locked' \in BOOLEAN /\ queue' \in Seq(Waiter) /\ pc' \in [Flows -> Places]
           /\ pc'[f] = next
           /\ \A g \in Flows \ {f} : pc'[g] = pc[g] \/ (pc[g] = "waiting" /\ pc'[g] = "locked")
           /\ LockHasOneHolder' /\ QueueIsWaiting'
<1>1. /\ f \in Flows /\ locked
      /\ pc \in [Flows -> Places] /\ queue \in Seq(Waiter) /\ Len(queue) \in Nat
      /\ pc[f] \notin {"idle", "waiting", "committed"}
      /\ \A g \in Flows : g # f => pc[g] \in {"idle", "waiting", "committed"}
    BY DEF Types, LockHasOneHolder, Holders, Places
<1>2. next \in Places
    BY DEF Places
<1>3. CASE Live = {} /\ locked' = FALSE /\ queue' = <<>> /\ pc' = [pc EXCEPT ![f] = next]
    <2>1. \A g \in Flows : pc'[g] = IF g = f THEN next ELSE pc[g]
        BY <1>1, <1>3
    <2>2. pc' \in [Flows -> Places]
        BY <1>1, <1>2, <1>3
    <2>3. Holders' = {}
        BY <1>1, <2>1 DEF Holders
    <2>4. QueueIsWaiting'
        BY <1>3 DEF QueueIsWaiting
    <2>5. <<>> \in Seq(Waiter)
        OBVIOUS
    <2> QED BY Zenon, <1>1, <1>3, <2>1, <2>2, <2>3, <2>4, <2>5 DEF LockHasOneHolder
<1>4. CASE \E i \in Live :
                /\ \A j \in Live : i <= j
                /\ queue' = SubSeq(queue, i + 1, Len(queue))
                /\ pc' = [pc EXCEPT ![f] = next, ![queue[i].flow] = "locked"]
                /\ UNCHANGED locked
    <2>1. PICK i \in Live :
                /\ queue' = SubSeq(queue, i + 1, Len(queue))
                /\ pc' = [pc EXCEPT ![f] = next, ![queue[i].flow] = "locked"]
                /\ UNCHANGED locked
        BY Zenon, <1>4
    <2>2. i \in 1 .. Len(queue) /\ ~queue[i].settled /\ queue[i] \in Waiter
        BY <2>1, <1>1, ElementOfSeq DEF Live
    <2> DEFINE g0 == queue[i].flow
    <2>3. g0 \in Flows /\ pc[g0] = "waiting" /\ g0 # f
        BY <2>2, <1>1 DEF Waiter, QueueIsWaiting
    <2>4. /\ pc' \in [Flows -> Places]
          /\ \A g \in Flows : pc'[g] = IF g = g0 THEN "locked" ELSE IF g = f THEN next ELSE pc[g]
        BY Zenon, <2>1, <2>3, <1>1, <1>2 DEF Places
    <2>5. Holders' = {g0}
        BY <2>3, <2>4, <1>1 DEF Holders
    <2>6. LockHasOneHolder'
        BY <2>5, <2>1, <1>1 DEF LockHasOneHolder
    <2>7. /\ queue' \in Seq(Waiter) /\ Len(queue') = Len(queue) - i
          /\ \A j \in 1 .. Len(queue) - i : queue'[j] = queue[i + j]
        <3>1. \A j \in i + 1 .. Len(queue) : queue[j] \in Waiter
            BY <2>2, <1>1, ElementOfSeq
        <3>2. i + 1 \in Int /\ Len(queue) \in Int
            BY <2>2, <1>1
        <3> DEFINE rest == SubSeq(queue, i + 1, Len(queue))
        <3>3. /\ rest \in Seq(Waiter)
              /\ Len(rest) = IF i + 1 <= Len(queue) THEN Len(queue) - (i + 1) + 1 ELSE 0
              /\ \A j \in 1 .. Len(queue) - (i + 1) + 1 : rest[j] = queue[i + 1 + j - 1]
            BY ONLY <3>1, <3>2, SubSeqProperties
        <3>4. queue' = rest
            BY <2>1
        <3> HIDE DEF rest
        <3>5. \A j \in 1 .. Len(queue) - i : rest[j] = queue[i + j]
            BY <3>3, <2>2, <1>1
        <3>6. Len(rest) = Len(queue) - i
            BY <3>3, <2>2, <1>1
        <3> QED BY <3>3, <3>4, <3>5, <3>6
    <2>8. QueueIsWaiting'
        <3>1. ASSUME NEW j \in 1 .. Len(queue'), ~queue'[j].settled
              PROVE  /\ i + j \in 1 .. Len(queue) /\ queue'[j] = queue[i + j]
                     /\ ~queue[i + j].settled
                     /\ pc[queue[i + j].flow] = "waiting" /\ queue[i + j].flow # g0
                     /\ queue[i + j].flow \in Flows
            <4>0. j \in 1 .. Len(queue) - i
                BY <2>7
            <4>1. i + j \in 1 .. Len(queue) /\ queue'[j] = queue[i + j] /\ i + j # i
                <5>1. i \in 1 .. Len(queue) /\ Len(queue) \in Nat
                    BY <2>2, <1>1
                <5>2. i + j \in 1 .. Len(queue) /\ i + j # i
                    BY ONLY <5>1, <4>0
                <5> QED BY <5>2, <4>0, <2>7
            <4>2. queue[i + j] \in Waiter
                BY <4>1, <1>1, ElementOfSeq
            <4> QED BY <3>1, <4>1, <4>2, <2>2 DEF QueueIsWaiting, Waiter
        <3>2. ASSUME NEW j \in 1 .. Len(queue'), ~queue'[j].settled
              PROVE  pc'[queue'[j].flow] = "waiting"
            BY <3>1, <3>2, <2>4, <1>1
        <3>3. ASSUME NEW j \in 1 .. Len(queue'), NEW k \in 1 .. Len(queue'),
                     ~queue'[j].settled, ~queue'[k].settled, queue'[j].flow = queue'[k].flow
              PROVE  j = k
            <4>1. i + j = i + k
                BY <3>1, <3>3 DEF QueueIsWaiting
            <4> QED BY <4>1, <2>2, <2>7, <1>1
        <3> QED BY <3>2, <3>3 DEF QueueIsWaiting
    <2> QED BY Zenon, <2>1, <2>3, <2>4, <2>6, <2>7, <2>8, <1>1
<1> QED BY Zenon, <1>3, <1>4 DEF ReleaseTxLock


\* Nobody but the holder of the mutex is past it.
LEMMA OneHolder ==
    ASSUME Types, LockHasOneHolder, NEW f \in Holders
    PROVE  /\ f \in Flows /\ locked
           /\ \A g \in Flows : g # f => pc[g] \in {"idle", "waiting", "committed"}
           /\ Using \subseteq {f}
BY Zenon DEF Types, LockHasOneHolder, Holders, Using, Places

----------------------------------------------------------------------------
(* The end of a transaction: the connection is back and closed, the mutex  *)
(* is passed on, and what was open is gone or, for a block, may have been  *)
(* committed.                                                              *)

LEMMA EndTransaction ==
    ASSUME Inv, NEW f \in Holders, NEW next \in {"idle", "committed"}, ReleaseTxLock(f, next),
           conn' = NoConn, pool' = Conns,
           pipe' = [c \in Conns |-> <<>>], srv' = [c \in Conns |-> Closed],
           epoch' \in {epoch, epoch + 1}, pc[f] # "running",
           UNCHANGED <<tx, runs, lastTx, issued>>,
           \/ durable' = durable /\ reported' = reported
           \/ /\ pc[f] = "committing" /\ durable' = durable \cup srv[conn].writes
              /\ reported' \in {reported, reported \cup {tx[f]}}
    PROVE  Inv'
<1>1. /\ f \in Flows
      /\ \A g \in Flows : g # f => pc[g] \in {"idle", "waiting", "committed"}
      /\ Using \subseteq {f}
    BY OneHolder DEF Inv
<1>2. /\ locked' \in BOOLEAN /\ queue' \in Seq(Waiter) /\ pc' \in [Flows -> Places]
      /\ pc'[f] = next
      /\ \A g \in Flows \ {f} : pc'[g] = pc[g] \/ (pc[g] = "waiting" /\ pc'[g] = "locked")
      /\ LockHasOneHolder' /\ QueueIsWaiting'
    BY ReleaseLock DEF Inv
<1>3. Using' = {}
    BY <1>1, <1>2 DEF Using
<1>4. \A g \in Pending' : g \in Pending /\ g # f
    BY <1>1, <1>2 DEF Pending
<1>5. f \in Pending
    BY <1>1 DEF Pending, Holders
<1>6. pc[f] = "committing" =>
        /\ conn \in Conns /\ f = Loop
        /\ \A w \in srv[conn].writes : w \in Stmt /\ w.tx = tx[f] /\ w.flow = f
    <2>1. SUFFICES ASSUME pc[f] = "committing"
                   PROVE  /\ conn \in Conns /\ f = Loop
                          /\ \A w \in srv[conn].writes :
                                w \in Stmt /\ w.tx = tx[f] /\ w.flow = f
        OBVIOUS
    <2>2. f \in Using
        BY <1>1, <2>1 DEF Using
    <2>3. conn \in Conns
        BY <2>2 DEF Inv, ConnectionIsUsed, Types
    <2>4. srv[conn].writes \subseteq Stmt
        BY <2>3 DEF Inv, Types
    <2> QED BY <2>1, <2>2, <2>3, <2>4, <1>1 DEF Inv, SessionsAreOwned, OnlyBlocksCommit
<1>7. Types'
    <2>1. epoch' \in Nat /\ tx \in [Flows -> Nat]
        BY DEF Inv, Types
    <2>2. \A c \in Conns : <<>> \in Seq(Command)
        OBVIOUS
    <2>3. pipe' \in [Conns -> Seq(Command)]
        BY <2>2
    <2>4. srv' \in [Conns -> [open : BOOLEAN, writes : SUBSET Stmt]]
        BY DEF Closed
    <2>5. durable' \in SUBSET Stmt
        BY <1>6 DEF Inv, Types
    <2>6. reported' \in SUBSET Nat
        <3>1. tx[f] \in Nat /\ reported \in SUBSET Nat
            BY <2>1, <1>1 DEF Inv, Types
        <3> QED BY <3>1
    <2> QED BY <1>2, <2>1, <2>3, <2>4, <2>5, <2>6 DEF Inv, Types
<1>8. NoConnectionLeak' /\ ConnectionIsUsed'
    BY <1>3, ConnsAssumption DEF NoConnectionLeak, ConnectionIsUsed, Held
<1>9. NumbersAreFresh'
    <2>1. \A w \in durable' : w.tx <= lastTx
        BY <1>1, <1>6 DEF Inv, NumbersAreFresh
    <2>2. \A t \in reported' : t <= lastTx
        BY <1>1 DEF Inv, NumbersAreFresh
    <2>3. \A g \in Pending' : tx[g] # 0
        BY <1>4 DEF Inv, NumbersAreFresh
    <2>4. \A g \in Flows : pc'[g] \in {"waiting", "locked", "beginning", "open"}
                            => \A r \in runs : r.tx # tx[g]
        BY <1>2 DEF Inv, NumbersAreFresh
    <2> QED BY <2>1, <2>2, <2>3, <2>4 DEF Inv, NumbersAreFresh
<1>10. FenceHolds'
    <2>1. SUFFICES ASSUME NEW r \in runs
                   PROVE  r.epoch <= epoch' /\ r.epoch # epoch'
        BY DEF FenceHolds
    <2>2. r.flow \in Flows /\ r.epoch \in Nat /\ epoch \in Nat
        BY <2>1 DEF Inv, Types, Run
    <2>3. r.epoch <= epoch /\ (r.epoch = epoch => pc[r.flow] = "running")
        BY <2>1 DEF Inv, FenceHolds, Awaited
    <2>4. r.epoch # epoch
        BY <2>2, <2>3, <1>1
    <2> QED BY <2>2, <2>3, <2>4
<1>11. PipesAreOwned' /\ SessionsAreOwned'
    BY <1>3 DEF PipesAreOwned, SessionsAreOwned
<1>12. PendingIsOpen'
    <2>1. SUFFICES ASSUME NEW g \in Pending'
                   PROVE  /\ tx[g] \notin reported'
                          /\ \A w \in durable' : w.tx # tx[g]
                          /\ \A w \in issued : w.tx # tx[g]
        BY DEF PendingIsOpen
    <2>2. g \in Pending /\ g # f /\ g \in Flows
        BY <2>1, <1>4 DEF Pending
    <2>3. tx[g] # tx[f]
        BY <2>2, <1>1 DEF Inv, NumbersAreFresh
    <2>4. g \notin Using
        BY <2>2, <1>1
    <2> QED BY <2>2, <2>3, <2>4, <1>6 DEF Inv, PendingIsOpen
<1>13. OnlyBlocksCommit'
    BY <1>3 DEF OnlyBlocksCommit, Using
<1>14. AllOrNothing' /\ CommitIsTruthful' /\ DryRunsLeaveNothing'
    <2>1. CASE durable' = durable /\ reported' = reported
        BY <2>1 DEF Inv, AllOrNothing, CommitIsTruthful, DryRunsLeaveNothing
    <2>2. CASE /\ pc[f] = "committing" /\ durable' = durable \cup srv[conn].writes
               /\ reported' \in {reported, reported \cup {tx[f]}}
        <3>1. \A v \in issued : v.tx = tx[f] => v \in srv[conn].writes
            BY <1>5 DEF Inv, PendingIsOpen
        <3>2. AllOrNothing'
            BY <2>2, <3>1, <1>6 DEF Inv, AllOrNothing
        <3>3. CommitIsTruthful'
            BY <2>2, <3>1 DEF Inv, CommitIsTruthful
        <3>4. DryRunsLeaveNothing'
            BY <2>2, <1>6 DEF Inv, DryRunsLeaveNothing
        <3> QED BY <3>2, <3>3, <3>4
    <2> QED BY <2>1, <2>2
<1> QED BY <1>2, <1>7, <1>8, <1>9, <1>10, <1>11, <1>12, <1>13, <1>14 DEF Inv


\* The answer to the command that ends a transaction, or that was to begin it,
\* finds nothing else on its way.
LEMMA LastAnswer ==
    ASSUME Inv, NEW f \in Flows, NEW c \in Conns, NEW m \in {"begin", "rollback", "commit"},
           pipe[c] # <<>>, Head(pipe[c]) = [cmd |-> m, by |-> f],
           \/ pc[f] = "beginning" /\ m = "begin"
           \/ pc[f] = "rollingback" /\ m = "rollback"
           \/ pc[f] = "committing" /\ m = "commit"
    PROVE  /\ f \in Holders /\ f \in Using /\ c = conn /\ conn # NoConn
           /\ pool \cup {conn} = Conns
           /\ [pipe EXCEPT ![c] = Tail(@)] = [d \in Conns |-> <<>>]
           /\ [d \in Conns |-> IF d = conn THEN Closed ELSE srv[d]] = [d \in Conns |-> Closed]
           /\ [srv EXCEPT ![c] = Closed, ![conn] = Closed] = [d \in Conns |-> Closed]
<1>1. f \in Holders /\ f \in Using
    BY DEF Holders, Using
<1>2. conn # NoConn
    BY <1>1 DEF Inv, ConnectionIsUsed
<1>3. c = conn /\ \A d \in Conns : d # c => pipe[d] = <<>> /\ srv[d] = Closed
    BY DEF Inv, PipesAreOwned, SessionsAreOwned
<1>4. pool \cup {conn} = Conns
    BY <1>2 DEF Inv, NoConnectionLeak, Held
<1>5. pipe \in [Conns -> Seq(Command)] /\ srv \in [Conns -> [open : BOOLEAN, writes : SUBSET Stmt]]
    BY DEF Inv, Types
<1>6. Tail(pipe[c]) = <<>>
    <2>1. CASE m = "begin"
        <3> DEFINE first == [cmd |-> "begin", by |-> f]
        <3>1. pipe[c] = <<first>>
            BY Zenon, <2>1, <1>1, <1>3 DEF Inv, PipesAreOwned
        <3> HIDE DEF first
        <3> QED BY <3>1
    <2>2. CASE m # "begin"
        <3> DEFINE last == [cmd |-> m, by |-> f]
        <3>1. EndsIn(pipe[c], tx[f], last)
            BY Zenon, <2>2, <1>1, <1>3 DEF Inv, PipesAreOwned
        <3>2. last.cmd # "write" /\ Head(pipe[c]) = last /\ pipe[c] \in Seq(Command)
            BY <1>5
        <3> HIDE DEF last
        <3> QED BY Zenon, <3>1, <3>2, TakeLast
    <2> QED BY <2>1, <2>2
<1>7. [pipe EXCEPT ![c] = Tail(@)] = [d \in Conns |-> <<>>]
    BY Zenon, <1>3, <1>5, <1>6
<1>8. [d \in Conns |-> IF d = conn THEN Closed ELSE srv[d]] = [d \in Conns |-> Closed]
    BY <1>3
<1>9. [srv EXCEPT ![c] = Closed, ![conn] = Closed] = [d \in Conns |-> Closed]
    BY Zenon, <1>3, <1>5
<1> QED BY SMTT(60), <1>1, <1>2, <1>3, <1>4, <1>7, <1>8, <1>9

\* beginTransaction gives up before BEGIN.
LEMMA ConnectFailsKeeps ==
    ASSUME Inv, NEW f \in Flows, ConnectFails(f)
    PROVE  Inv'
<1>1. f \in Holders /\ f \notin Using
    BY DEF ConnectFails, Holders, Using
<1>2. Using = {}
    BY <1>1, OneHolder DEF Inv
<1>3. conn = NoConn /\ Held = {} /\ pool = Conns
    BY SMTT(60), <1>2 DEF Inv, ConnectionIsUsed, NoConnectionLeak, Held
<1>4. \A c \in Conns : pipe[c] = <<>> /\ srv[c] = Closed /\ c # conn
    BY <1>3, ConnsAssumption DEF Inv, PipesAreOwned, SessionsAreOwned
<1>5. pipe' = [c \in Conns |-> <<>>]
    BY <1>4 DEF Inv, Types, ConnectFails
<1>6. srv' = [c \in Conns |-> Closed] /\ pool' = Conns /\ conn' = NoConn
    BY <1>3, <1>4 DEF ConnectFails, ReleaseConnection
<1> QED BY <1>1, <1>5, <1>6, EndTransaction DEF ConnectFails

\* BEGIN fails.
LEMMA BeginFailsKeeps ==
    ASSUME Inv, NEW f \in Flows, NEW c \in Conns, BeginFails(f, c)
    PROVE  Inv'
<1>1. /\ pipe[c] # <<>> /\ Head(pipe[c]) = [cmd |-> "begin", by |-> f] /\ pc[f] = "beginning"
    BY DEF BeginFails
<1>2. /\ f \in Holders /\ conn # NoConn /\ pool \cup {conn} = Conns
      /\ [pipe EXCEPT ![c] = Tail(@)] = [d \in Conns |-> <<>>]
      /\ [d \in Conns |-> IF d = conn THEN Closed ELSE srv[d]] = [d \in Conns |-> Closed]
    BY Zenon, <1>1, LastAnswer
<1>3. /\ conn' = NoConn /\ pool' = Conns
      /\ pipe' = [d \in Conns |-> <<>>] /\ srv' = [d \in Conns |-> Closed]
    BY <1>2 DEF BeginFails, ReleaseConnection, Held
<1> QED BY Zenon, <1>1, <1>2, <1>3, EndTransaction DEF BeginFails

\* The ROLLBACK is answered.
LEMMA RolledBackKeeps ==
    ASSUME Inv, NEW f \in Flows, NEW c \in Conns, RolledBack(f, c)
    PROVE  Inv'
<1>1. /\ pipe[c] # <<>> /\ Head(pipe[c]) = [cmd |-> "rollback", by |-> f] /\ pc[f] = "rollingback"
    BY DEF RolledBack
<1>2. /\ f \in Holders /\ conn # NoConn /\ pool \cup {conn} = Conns
      /\ [pipe EXCEPT ![c] = Tail(@)] = [d \in Conns |-> <<>>]
      /\ [srv EXCEPT ![c] = Closed, ![conn] = Closed] = [d \in Conns |-> Closed]
    BY Zenon, <1>1, LastAnswer
<1>3. /\ conn' = NoConn /\ pool' = Conns
      /\ pipe' = [d \in Conns |-> <<>>] /\ srv' = [d \in Conns |-> Closed]
      /\ ReleaseTxLock(f, "idle")
      /\ UNCHANGED <<epoch, runs, durable, issued, tx, lastTx, reported>>
    BY Zenon, <1>2 DEF RolledBack
<1> QED BY <1>1, <1>2, <1>3, EndTransaction

\* The COMMIT is answered.
LEMMA CommittedKeeps ==
    ASSUME Inv, NEW f \in Flows, NEW c \in Conns, Committed(f, c)
    PROVE  Inv'
<1>1. /\ pipe[c] # <<>> /\ Head(pipe[c]) = [cmd |-> "commit", by |-> f] /\ pc[f] = "committing"
    BY DEF Committed
<1>2. /\ f \in Holders /\ c = conn /\ conn # NoConn /\ pool \cup {conn} = Conns
      /\ [pipe EXCEPT ![c] = Tail(@)] = [d \in Conns |-> <<>>]
      /\ [srv EXCEPT ![c] = Closed, ![conn] = Closed] = [d \in Conns |-> Closed]
    BY Zenon, <1>1, LastAnswer
<1>3. /\ conn' = NoConn /\ pool' = Conns
      /\ pipe' = [d \in Conns |-> <<>>] /\ srv' = [d \in Conns |-> Closed]
      /\ epoch' = epoch + 1 /\ ReleaseTxLock(f, "committed")
      /\ durable' = durable \cup srv[conn].writes /\ reported' = reported \cup {tx[f]}
      /\ UNCHANGED <<tx, runs, lastTx, issued>>
    BY Zenon, <1>2 DEF Committed
<1> QED BY <1>1, <1>2, <1>3, EndTransaction

\* The COMMIT fails, applied or not.
LEMMA CommitFailsKeeps ==
    ASSUME Inv, NEW f \in Flows, NEW c \in Conns, CommitFails(f, c)
    PROVE  Inv'
<1>1. /\ pipe[c] # <<>> /\ Head(pipe[c]) = [cmd |-> "commit", by |-> f] /\ pc[f] = "committing"
    BY Zenon DEF CommitFails
<1>2. /\ f \in Holders /\ c = conn /\ conn # NoConn /\ pool \cup {conn} = Conns
      /\ [pipe EXCEPT ![c] = Tail(@)] = [d \in Conns |-> <<>>]
      /\ [srv EXCEPT ![c] = Closed, ![conn] = Closed] = [d \in Conns |-> Closed]
    BY Zenon, <1>1, LastAnswer
<1>3. /\ conn' = NoConn /\ pool' = Conns
      /\ pipe' = [d \in Conns |-> <<>>] /\ srv' = [d \in Conns |-> Closed]
      /\ epoch' = epoch + 1 /\ ReleaseTxLock(f, "idle")
      /\ durable' \in {durable, durable \cup srv[conn].writes} /\ reported' = reported
      /\ UNCHANGED <<tx, runs, lastTx, issued>>
    BY Zenon, <1>2 DEF CommitFails
<1> QED BY Zenon, <1>1, <1>2, <1>3, EndTransaction


----------------------------------------------------------------------------
(* The holder of the mutex on its way through a transaction.               *)

\* A pipe without a command holds statements only.
LEMMA NothingSent == ASSUME NEW t PROVE Statements(<<>>, t)
BY DEF Statements

\* A connection taken from a full pool is not leaked.
LEMMA ConnectionIsTaken ==
    ASSUME NEW c \in Conns, pool' = Conns \ {c}, conn' = c, Using' # {}
    PROVE  NoConnectionLeak' /\ ConnectionIsUsed'
<1>1. c # NoConn
    BY ConnsAssumption
<1> QED BY <1>1 DEF NoConnectionLeak, ConnectionIsUsed, Held

\* A step of the flow that uses the connection does not leak it.
LEMMA ConnectionIsKept ==
    ASSUME NoConnectionLeak, ConnectionIsUsed, Using # {}, Using' # {}, UNCHANGED <<conn, pool>>
    PROVE  NoConnectionLeak' /\ ConnectionIsUsed'
BY DEF NoConnectionLeak, ConnectionIsUsed, Held

\* Past BEGIN, the open transaction stays that of the flow that uses it.
LEMMA SessionIsKept ==
    ASSUME SessionsAreOwned, NEW f \in Using, Using' = {f},
           pc[f] # "beginning", pc'[f] # "beginning", UNCHANGED <<conn, srv, tx>>
    PROVE  SessionsAreOwned'
<1>1. srv[conn].open /\ \A w \in srv[conn].writes : w.tx = tx[f] /\ w.flow = f
    BY DEF SessionsAreOwned
<1>2. \A c \in Conns : c # conn => srv[c] = Closed
    BY DEF SessionsAreOwned
<1> QED BY <1>1, <1>2 DEF SessionsAreOwned

\* The holder moves on: it stays the only one, and nobody in the queue moves.
LEMMA HolderMoves ==
    ASSUME Inv, NEW f \in Holders,
           NEW p \in {"beginning", "open", "running", "rollingback", "committing"},
           pc' = [pc EXCEPT ![f] = p], UNCHANGED <<locked, queue>>
    PROVE  /\ pc' \in [Flows -> Places] /\ pc'[f] = p
           /\ \A g \in Flows : g # f => pc'[g] = pc[g]
           /\ LockHasOneHolder' /\ QueueIsWaiting'
           /\ Using' = {f} /\ Pending' = Pending /\ f \in Pending
<1>1. /\ f \in Flows /\ locked
      /\ \A g \in Flows : g # f => pc[g] \in {"idle", "waiting", "committed"}
    BY OneHolder DEF Inv
<1>2. pc \in [Flows -> Places] /\ p \in Places /\ queue \in Seq(Waiter)
    BY DEF Inv, Types, Places
<1>3. /\ pc' \in [Flows -> Places] /\ pc'[f] = p
      /\ \A g \in Flows : g # f => pc'[g] = pc[g]
    BY <1>1, <1>2
<1>4. Holders' = {f} /\ Using' = {f}
    BY <1>1, <1>3 DEF Holders, Using
<1>5. LockHasOneHolder'
    BY <1>1, <1>4 DEF LockHasOneHolder
<1>6. Pending' = Pending /\ f \in Pending
    BY <1>1, <1>3 DEF Pending, Holders
<1>7. QueueIsWaiting'
    <2>0. \A i \in 1 .. Len(queue) : queue[i] \in Waiter
        BY <1>2, ElementOfSeq
    <2>1. \A i \in 1 .. Len(queue) : queue[i].flow \in Flows
        BY <2>0 DEF Waiter
    <2>2. \A i \in 1 .. Len(queue) : ~queue[i].settled => queue[i].flow # f
        BY DEF Inv, QueueIsWaiting, Holders
    <2> QED BY <2>1, <2>2, <1>3 DEF Inv, QueueIsWaiting
<1> QED BY <1>3, <1>4, <1>5, <1>6, <1>7

\* The connection is taken and BEGIN is sent.
LEMMA ConnectKeeps ==
    ASSUME Inv, NEW f \in Flows, Connect(f)
    PROVE  Inv'
<1>1. f \in Holders /\ f \notin Using
    BY DEF Connect, Holders, Using
<1>2. Using = {}
    BY <1>1, OneHolder DEF Inv
<1>3. conn = NoConn /\ Held = {} /\ pool = Conns
    BY <1>2 DEF Inv, ConnectionIsUsed, NoConnectionLeak, Held
<1>4. \A d \in Conns : pipe[d] = <<>> /\ srv[d] = Closed /\ d # conn
    BY <1>3, ConnsAssumption DEF Inv, PipesAreOwned, SessionsAreOwned
<1> DEFINE first == [cmd |-> "begin", by |-> f]
<1>5. PICK c \in Conns : pool' = Conns \ {c} /\ conn' = c
                         /\ pipe' = [pipe EXCEPT ![c] = Append(@, first)]
    BY Zenon, <1>3 DEF Connect, Send
<1>6. first \in Command
    BY DEF Command
<1>7. \A d \in Conns : pipe'[d] = IF d = c THEN <<first>> ELSE <<>>
    <2>1. Append(<<>>, first) = <<first>>
        OBVIOUS
    <2> QED BY Zenon, <2>1, <1>4, <1>5 DEF Inv, Types
<1>8. srv' = srv
    BY <1>4 DEF Connect, Inv, Types
<1>9. /\ pc' \in [Flows -> Places] /\ pc'[f] = "beginning"
      /\ \A g \in Flows : g # f => pc'[g] = pc[g]
      /\ LockHasOneHolder' /\ QueueIsWaiting'
      /\ Using' = {f} /\ Pending' = Pending /\ f \in Pending
    BY Zenon, <1>1, HolderMoves DEF Connect
<1>10. UNCHANGED <<locked, queue, epoch, durable, issued, tx, runs, lastTx, reported>>
    BY DEF Connect
<1>11. Types'
    <2>1. <<first>> \in Seq(Command) /\ <<>> \in Seq(Command)
        BY <1>6
    <2>2. pipe' \in [Conns -> Seq(Command)]
        <3> HIDE DEF first
        <3>1. DOMAIN pipe' = Conns /\ pipe' = [d \in Conns |-> pipe'[d]]
            BY Zenon, <1>5 DEF Inv, Types
        <3> QED BY Zenon, <3>1, <1>7, <2>1
    <2> QED BY <2>2, <1>5, <1>8, <1>9, <1>10 DEF Inv, Types
<1>12. NoConnectionLeak' /\ ConnectionIsUsed'
    BY Zenon, <1>5, <1>9, ConnectionIsTaken
<1>13. NumbersAreFresh'
    BY SMTT(30), Zenon, <1>9, <1>10 DEF Inv, NumbersAreFresh, Connect
<1>14. FenceHolds'
    <2>1. SUFFICES ASSUME NEW r \in runs PROVE r.epoch <= epoch /\ r.epoch # epoch
        BY <1>10 DEF FenceHolds
    <2>2. r.flow \in Flows
        BY <2>1 DEF Inv, Types, Run
    <2> QED BY <2>1, <2>2, <1>2 DEF Inv, FenceHolds, Awaited, Using
<1>15. PipesAreOwned'
    BY Zenon, <1>5, <1>7, <1>9 DEF PipesAreOwned
<1>16. SessionsAreOwned'
    <2>1. \A d \in Conns : srv'[d] = Closed
        BY Zenon, <1>4, <1>8
    <2>2. conn' \in Conns
        BY Zenon, <1>5
    <2>3. Closed.writes = {}
        BY DEF Closed
    <2>4. srv'[conn'] = Closed /\ srv'[conn'].writes = {}
        BY ZenonT(60), <2>1, <2>2, <2>3
    <2> QED BY Zenon, <2>1, <2>4, <1>9 DEF SessionsAreOwned
<1>17. PendingIsOpen'
    BY SMTT(30), Zenon, <1>2, <1>8, <1>9, <1>10 DEF Inv, PendingIsOpen
<1>18. OnlyBlocksCommit'
    BY <1>9 DEF Inv, OnlyBlocksCommit
<1>19. AllOrNothing' /\ CommitIsTruthful' /\ DryRunsLeaveNothing'
    BY <1>10 DEF Inv, AllOrNothing, CommitIsTruthful, DryRunsLeaveNothing
<1> QED BY <1>9, <1>11, <1>12, <1>13, <1>14, <1>15, <1>16, <1>17, <1>18, <1>19 DEF Inv


\* ROLLBACK or COMMIT is sent, and no run passes the fence from then on.
LEMMA SendEnd ==
    ASSUME Inv, NEW f \in Flows, pc[f] \in {"open", "running"},
           NEW m \in {"rollback", "commit"}, m = "commit" => f = Loop,
           pipe' = [pipe EXCEPT ![conn] = Append(@, [cmd |-> m, by |-> f])],
           pc' = [pc EXCEPT ![f] = IF m = "rollback" THEN "rollingback" ELSE "committing"],
           runs' \subseteq runs, epoch' \in {epoch, epoch + 1},
           epoch' = epoch => \A r \in runs' : r.epoch # epoch,
           UNCHANGED <<locked, queue, conn, pool, srv, durable, issued, tx, lastTx, reported>>
    PROVE  Inv'
<1> DEFINE p == IF m = "rollback" THEN "rollingback" ELSE "committing"
           last == [cmd |-> m, by |-> f]
<1>1. f \in Holders /\ f \in Using
    BY DEF Holders, Using
<1>2. conn \in Conns
    BY <1>1 DEF Inv, ConnectionIsUsed, Types
<1>3. /\ pc' \in [Flows -> Places] /\ pc'[f] = p
      /\ \A g \in Flows : g # f => pc'[g] = pc[g]
      /\ LockHasOneHolder' /\ QueueIsWaiting'
      /\ Using' = {f} /\ Pending' = Pending /\ f \in Pending
    <2>1. p \in {"beginning", "open", "running", "rollingback", "committing"}
        OBVIOUS
    <2>2. pc' = [pc EXCEPT ![f] = p]
        BY SMTT(60)
    <2> HIDE DEF p
    <2> QED BY Zenon, <1>1, <2>1, <2>2, HolderMoves
<1>4. last \in Command /\ tx[f] \in Nat /\ pipe \in [Conns -> Seq(Command)]
    BY DEF Command, Inv, Types
<1>5. Statements(pipe[conn], tx[f])
    <2>1. CASE pc[f] = "open"
        <3>1. pipe[conn] = <<>>
            BY Zenon, <2>1, <1>1 DEF Inv, PipesAreOwned
        <3> QED BY Zenon, <3>1, NothingSent
    <2>2. CASE pc[f] = "running"
        BY Zenon, <2>2, <1>1 DEF Inv, PipesAreOwned
    <2> QED BY Zenon, <2>1, <2>2
<1>6. /\ pipe' \in [Conns -> Seq(Command)] /\ EndsIn(pipe'[conn], tx[f], last)
      /\ \A c \in Conns : c # conn => pipe'[c] = <<>>
    <2>1. pipe' = [pipe EXCEPT ![conn] = Append(pipe[conn], last)]
        BY <1>2, <1>4
    <2> HIDE DEF last
    <2>2. pipe[conn] \in Seq(Command)
        BY Zenon, <1>2, <1>4
    <2>3. Append(pipe[conn], last) \in Seq(Command) /\ EndsIn(Append(pipe[conn], last), tx[f], last)
        BY Zenon, <2>2, <1>4, <1>5, SendLast
    <2>4. \A c \in Conns : c # conn => pipe[c] = <<>>
        BY Zenon DEF Inv, PipesAreOwned
    <2> QED BY Zenon, <2>1, <2>3, <2>4, <1>2, <1>4
<1>7. Types'
    <2>1. epoch' \in Nat /\ runs' \in SUBSET Run
        BY DEF Inv, Types
    <2> QED BY Zenon, <2>1, <1>3, <1>6 DEF Inv, Types
<1>8. NoConnectionLeak' /\ ConnectionIsUsed'
    BY Zenon, <1>1, <1>3, ConnectionIsKept DEF Inv
<1>9. NumbersAreFresh'
    <2>1. \A g \in Flows : pc'[g] \in {"waiting", "locked", "beginning", "open"} => g # f
        BY <1>3
    <2> QED BY SMTT(30), Zenon, <1>3, <2>1 DEF Inv, NumbersAreFresh
<1>10. FenceHolds'
    <2>1. SUFFICES ASSUME NEW r \in runs' PROVE r.epoch <= epoch' /\ r.epoch # epoch'
        BY DEF FenceHolds
    <2>2. r \in runs /\ r.epoch \in Nat /\ epoch \in Nat
        BY <2>1 DEF Inv, Types, Run
    <2>3. r.epoch <= epoch
        BY <2>2 DEF Inv, FenceHolds
    <2> QED BY <2>1, <2>2, <2>3
<1>11. PipesAreOwned'
    <2>1. \/ pc'[f] = "rollingback" /\ last = [cmd |-> "rollback", by |-> f]
          \/ pc'[f] = "committing" /\ last = [cmd |-> "commit", by |-> f]
        BY Zenon, <1>3
    <2> HIDE DEF last
    <2> QED BY ZenonT(60), <2>1, <1>3, <1>6 DEF PipesAreOwned
<1>12. SessionsAreOwned'
    <2>1. pc[f] # "beginning" /\ pc'[f] # "beginning"
        BY Zenon, <1>3
    <2> QED BY Zenon, <2>1, <1>1, <1>3, SessionIsKept DEF Inv
<1>13. PendingIsOpen'
    BY ZenonT(60), <1>1, <1>3, OneHolder DEF Inv, PendingIsOpen
<1>14. OnlyBlocksCommit'
    BY <1>3 DEF Inv, OnlyBlocksCommit
<1>15. AllOrNothing' /\ CommitIsTruthful' /\ DryRunsLeaveNothing'
    BY Zenon DEF Inv, AllOrNothing, CommitIsTruthful, DryRunsLeaveNothing
<1> QED BY SMTT(60), <1>3, <1>7, <1>8, <1>9, <1>10, <1>11, <1>12, <1>13, <1>14, <1>15 DEF Inv

\* rollbackTransaction by the holder of an open transaction.
LEMMA TearDownKeeps ==
    ASSUME Inv, NEW f \in Flows, pc[f] \in {"open", "running"}, TearDown(f), runs' \subseteq runs,
           UNCHANGED <<locked, queue, conn, pool, srv, durable, issued, tx, lastTx, reported>>
    PROVE  Inv'
<1>1. conn # NoConn
    BY DEF Inv, ConnectionIsUsed, Using
<1>2. /\ epoch' = epoch + 1 /\ pc' = [pc EXCEPT ![f] = "rollingback"]
      /\ pipe' = [pipe EXCEPT ![conn] = Append(@, [cmd |-> "rollback", by |-> f])]
    BY <1>1 DEF TearDown, Send
<1>3. epoch' # epoch
    BY <1>2 DEF Inv, Types
<1> QED BY Zenon, <1>2, <1>3, SendEnd


----------------------------------------------------------------------------
(* The beginning of a transaction and of its run.                          *)

\* BEGIN is answered: nothing was open, and every earlier run is fenced off.
LEMMA BegunKeeps ==
    ASSUME Inv, NEW f \in Flows, NEW c \in Conns, Begun(f, c)
    PROVE  Inv'
<1> DEFINE p == IF f = Loop THEN "running" ELSE "open"
           opened == [open |-> TRUE, writes |-> {}]
           new == NewRun(f, epoch')
<1>1. /\ pipe[c] # <<>> /\ Head(pipe[c]) = [cmd |-> "begin", by |-> f] /\ pc[f] = "beginning"
    BY DEF Begun
<1>2. /\ f \in Holders /\ f \in Using /\ c = conn /\ conn # NoConn
      /\ [pipe EXCEPT ![c] = Tail(@)] = [d \in Conns |-> <<>>]
    BY Zenon, <1>1, LastAnswer
<1>3. srv[c] = Closed /\ \A d \in Conns : d # c => srv[d] = Closed
    BY Zenon, <1>1, <1>2 DEF Inv, SessionsAreOwned
<1>4. /\ pc' \in [Flows -> Places] /\ pc'[f] = p
      /\ \A g \in Flows : g # f => pc'[g] = pc[g]
      /\ LockHasOneHolder' /\ QueueIsWaiting'
      /\ Using' = {f} /\ Pending' = Pending /\ f \in Pending
    <2>1. p \in {"beginning", "open", "running", "rollingback", "committing"}
        OBVIOUS
    <2>2. pc' = [pc EXCEPT ![f] = p] /\ UNCHANGED <<locked, queue>>
        BY SMTT(60) DEF Begun
    <2> HIDE DEF p
    <2> QED BY Zenon, <1>2, <2>1, <2>2, HolderMoves
<1>5. /\ pipe' = [d \in Conns |-> <<>>] /\ durable' = durable
      /\ srv' = [srv EXCEPT ![c] = opened] /\ epoch' = epoch + 1
      /\ runs' = (IF f = Loop THEN runs \cup {new} ELSE runs)
      /\ UNCHANGED <<locked, queue, conn, pool, issued, tx, lastTx, reported>>
    BY SMTT(30), Zenon, <1>2, <1>3 DEF Begun, Closed
<1>6. epoch \in Nat /\ epoch' \in Nat /\ tx[f] \in Nat
    <2>1. Types
        BY DEF Inv
    <2>2. epoch \in Nat /\ tx[f] \in Nat
        BY <2>1 DEF Types
    <2> QED BY <2>2, <1>5
<1>7. /\ new \in Run /\ new.tx = tx[f] /\ new.flow = f /\ new.epoch = epoch' /\ new.at = "idle"
    BY Zenon, <1>6 DEF NewRun, Run
<1>8. /\ srv' \in [Conns -> [open : BOOLEAN, writes : SUBSET Stmt]]
      /\ srv'[c] = opened /\ \A d \in Conns : d # c => srv'[d] = Closed
    BY Zenon, <1>3, <1>5 DEF Inv, Types
<1>9. Types'
    <2>1. \A d \in Conns : <<>> \in Seq(Command)
        OBVIOUS
    <2>2. pipe' \in [Conns -> Seq(Command)]
        BY <2>1, <1>5
    <2>3. runs' \in SUBSET Run
        <3> HIDE DEF new
        <3> QED BY Zenon, <1>5, <1>7 DEF Inv, Types
    <2> QED BY Zenon, <2>2, <2>3, <1>4, <1>5, <1>6, <1>8 DEF Inv, Types
<1>10. NoConnectionLeak' /\ ConnectionIsUsed'
    BY Zenon, <1>2, <1>4, <1>5, ConnectionIsKept DEF Inv
<1>11. NumbersAreFresh'
    <2> HIDE DEF new
    <2>1. \A r \in runs : r.tx # tx[f]
        BY Zenon, <1>1 DEF Inv, NumbersAreFresh
    <2>2. \A g \in Flows : tx[g] = tx[f] => g = f
        BY Zenon, <1>4 DEF Inv, NumbersAreFresh
    <2>3. \A r \in runs' : r.tx <= lastTx /\ \A g \in Flows : r.tx = tx[g] => r.flow = g
        BY Zenon, <2>2, <1>5, <1>7 DEF Inv, NumbersAreFresh
    <2>4. \A r, q \in runs' : r.tx = q.tx => r = q
        BY Zenon, <2>1, <1>5, <1>7 DEF Inv, NumbersAreFresh
    <2>5. \A g \in Flows : pc'[g] \in {"waiting", "locked", "beginning", "open"}
                            => \A r \in runs' : r.tx # tx[g]
        <3>1. SUFFICES ASSUME NEW g \in Flows, NEW r \in runs',
                              pc'[g] \in {"waiting", "locked", "beginning", "open"}
                       PROVE  r.tx # tx[g]
            BY SMTT(30), Zenon
        <3>2. CASE g = f
            BY Zenon, <3>1, <3>2, <2>1, <1>4, <1>5
        <3>3. CASE g # f
            <4>1. pc[g] \in {"waiting", "locked", "beginning", "open"}
                BY <3>1, <3>3, <1>4
            <4>2. tx[g] # tx[f]
                BY <2>2, <3>3
            <4> QED BY Zenon, <4>1, <4>2, <3>1, <1>5, <1>7 DEF Inv, NumbersAreFresh
        <3> QED BY Zenon, <3>2, <3>3
    <2> QED BY ZenonT(60), <2>3, <2>4, <2>5, <1>4, <1>5 DEF Inv, NumbersAreFresh
<1>12. FenceHolds'
    <2>1. SUFFICES ASSUME NEW r \in runs'
                   PROVE  /\ r.epoch <= epoch'
                          /\ r.epoch = epoch' => Awaited(r)' /\ (r.at = "checked" => r.db = conn')
        BY DEF FenceHolds
    <2> HIDE DEF new
    <2>2. CASE r \in runs
        <3>1. r.epoch \in Nat /\ r.epoch <= epoch
            BY SMTT(60), <2>2 DEF Inv, Types, Run, FenceHolds
        <3> QED BY <3>1, <1>5, <1>6
    <2>3. CASE f = Loop /\ r = new
        BY SMTT(30), Zenon, <2>3, <1>4, <1>5, <1>6, <1>7 DEF Awaited
    <2> QED BY <2>1, <2>2, <2>3, <1>5
<1>13. PipesAreOwned'
    <2>1. Statements(<<>>, tx[f])
        BY Zenon, NothingSent
    <2> QED BY Zenon, <2>1, <1>2, <1>4, <1>5 DEF PipesAreOwned
<1>14. SessionsAreOwned'
    BY Zenon, <1>2, <1>4, <1>5, <1>8 DEF SessionsAreOwned
<1>15. PendingIsOpen'
    <2>1. \A w \in issued : w.tx # tx[f]
        <3>1. Closed.writes = {}
            BY DEF Closed
        <3>2. srv[conn].writes = {}
            BY Zenon, <3>1, <1>2, <1>3
        <3>3. \A w \in issued : w.tx = tx[f] => w \in srv[conn].writes
            BY Zenon, <1>4 DEF Inv, PendingIsOpen
        <3> QED BY Zenon, <3>2, <3>3
    <2>2. \A g \in Using : g = f
        BY <1>2, OneHolder DEF Inv
    <2> QED BY Zenon, <2>1, <2>2, <1>4, <1>5 DEF Inv, PendingIsOpen
<1>16. OnlyBlocksCommit'
    BY <1>4 DEF Inv, OnlyBlocksCommit
<1>17. AllOrNothing' /\ CommitIsTruthful' /\ DryRunsLeaveNothing'
    BY <1>5 DEF Inv, AllOrNothing, CommitIsTruthful, DryRunsLeaveNothing
<1> QED BY SMTT(60), <1>4, <1>9, <1>10, <1>11, <1>12, <1>13, <1>14, <1>15, <1>16, <1>17 DEF Inv


\* A dry run starts its handler in the epoch of its transaction, or rolls back.
LEMMA StartDryRunKeeps ==
    ASSUME Inv, NEW f \in Flows, StartDryRun(f)
    PROVE  Inv'
<1> DEFINE new == NewRun(f, epoch)
<1>1. pc[f] = "open" /\ f \in Holders /\ f \in Using
    BY DEF StartDryRun, Holders, Using
<1>2. CASE TearDown(f) /\ UNCHANGED runs
    BY <1>1, <1>2, TearDownKeeps DEF StartDryRun
<1>3. CASE /\ runs' = runs \cup {new} /\ pc' = [pc EXCEPT ![f] = "running"]
           /\ UNCHANGED <<epoch, pipe>>
    <2>1. UNCHANGED <<locked, queue, conn, epoch, pool, srv, pipe, durable, issued, tx, lastTx,
                      reported>>
        BY <1>3 DEF StartDryRun
    <2>2. /\ pc' \in [Flows -> Places] /\ pc'[f] = "running"
          /\ \A g \in Flows : g # f => pc'[g] = pc[g]
          /\ LockHasOneHolder' /\ QueueIsWaiting'
          /\ Using' = {f} /\ Pending' = Pending /\ f \in Pending
        BY Zenon, <1>1, <1>3, <2>1, HolderMoves
    <2>3. /\ new \in Run /\ new.tx = tx[f] /\ new.flow = f /\ new.epoch = epoch /\ new.at = "idle"
        <3>1. epoch \in Nat /\ tx[f] \in Nat
            BY DEF Inv, Types
        <3> QED BY Zenon, <3>1 DEF NewRun, Run
    <2>4. \A g \in Using : g = f
        BY <1>1, OneHolder DEF Inv
    <2> HIDE DEF new
    <2>5. Types'
        <3>1. runs' \in SUBSET Run
            BY <1>3, <2>3 DEF Inv, Types
        <3> QED BY <3>1, <2>1, <2>2 DEF Inv, Types
    <2>6. NoConnectionLeak' /\ ConnectionIsUsed'
        BY Zenon, <1>1, <2>1, <2>2, ConnectionIsKept DEF Inv
    <2>7. NumbersAreFresh'
        <3>1. \A r \in runs : r.tx # tx[f]
            BY Zenon, <1>1 DEF Inv, NumbersAreFresh
        <3>2. \A g \in Flows : tx[g] = tx[f] => g = f
            BY Zenon, <2>2 DEF Inv, NumbersAreFresh
        <3>3. \A r \in runs' : r.tx <= lastTx /\ \A g \in Flows : r.tx = tx[g] => r.flow = g
            BY Zenon, <3>2, <1>3, <2>3 DEF Inv, NumbersAreFresh
        <3>4. \A r, q \in runs' : r.tx = q.tx => r = q
            BY ZenonT(60), <3>1, <1>3, <2>3 DEF Inv, NumbersAreFresh
        <3>5. \A g \in Flows : pc'[g] \in {"waiting", "locked", "beginning", "open"}
                                => \A r \in runs' : r.tx # tx[g]
            <4>1. SUFFICES ASSUME NEW g \in Flows, NEW r \in runs',
                                  pc'[g] \in {"waiting", "locked", "beginning", "open"}
                           PROVE  r.tx # tx[g]
                OBVIOUS
            <4>2. g # f /\ pc[g] \in {"waiting", "locked", "beginning", "open"}
                BY <4>1, <2>2
            <4>3. tx[g] # tx[f]
                BY <3>2, <4>2
            <4> QED BY ZenonT(60), <4>1, <4>2, <4>3, <1>3, <2>3 DEF Inv, NumbersAreFresh
        <3> QED BY Zenon, <3>3, <3>4, <3>5, <2>1, <2>2 DEF Inv, NumbersAreFresh
    <2>8. FenceHolds'
        <3>1. SUFFICES ASSUME NEW r \in runs'
                       PROVE  /\ r.epoch <= epoch
                              /\ r.epoch = epoch => Awaited(r)' /\ (r.at = "checked" => r.db = conn')
            BY <2>1 DEF FenceHolds
        <3>2. CASE r \in runs
            <4>1. r.flow \in Flows
                BY <3>2 DEF Inv, Types, Run
            <4>2. r.epoch <= epoch /\ (r.epoch = epoch => pc[r.flow] = "running")
                BY Zenon, <3>2 DEF Inv, FenceHolds, Awaited
            <4>3. pc[r.flow] # "running"
                BY Zenon, <4>1, <1>1, <2>4 DEF Using
            <4> QED BY <4>2, <4>3
        <3>3. CASE r = new
            <4>1. epoch \in Nat
                BY DEF Inv, Types
            <4> QED BY <3>3, <4>1, <2>1, <2>2, <2>3 DEF Awaited
        <3> QED BY <1>3, <3>2, <3>3
    <2>9. PipesAreOwned'
        <3>1. pipe[conn] = <<>>
            BY Zenon, <1>1 DEF Inv, PipesAreOwned
        <3>2. Statements(pipe[conn], tx[f])
            BY Zenon, <3>1, NothingSent
        <3> QED BY Zenon, <3>2, <2>1, <2>2 DEF Inv, PipesAreOwned
    <2>10. SessionsAreOwned'
        <3>1. pc[f] # "beginning" /\ pc'[f] # "beginning"
            BY Zenon, <1>1, <2>2
        <3> QED BY Zenon, <3>1, <1>1, <2>1, <2>2, SessionIsKept DEF Inv
    <2>11. PendingIsOpen'
        BY Zenon, <2>1, <2>2, <2>4 DEF Inv, PendingIsOpen
    <2>12. OnlyBlocksCommit'
        BY <2>2 DEF Inv, OnlyBlocksCommit
    <2>13. AllOrNothing' /\ CommitIsTruthful' /\ DryRunsLeaveNothing'
        BY SMTT(60), <2>1 DEF Inv, AllOrNothing, CommitIsTruthful, DryRunsLeaveNothing
    <2> QED BY SMTT(60), <2>2, <2>5, <2>6, <2>7, <2>8, <2>9, <2>10, <2>11, <2>12, <2>13 DEF Inv
<1> QED BY <1>2, <1>3 DEF StartDryRun

----------------------------------------------------------------------------
(* Runs.                                                                   *)

\* A step of a run keeps its number and its epoch, and with them the fence.
LEMMA RunMoves ==
    ASSUME Inv, NEW r \in runs, NEW s \in Run, Step(r, s),
           s.tx = r.tx, s.flow = r.flow, s.epoch = r.epoch, s.at = "checked" => s.db = conn,
           \A w \in issued' \cup durable' : w.tx <= lastTx,
           UNCHANGED <<conn, epoch, pc, tx, lastTx, reported>>
    PROVE  /\ runs' \in SUBSET Run /\ NumbersAreFresh' /\ FenceHolds'
           /\ Using' = Using /\ Pending' = Pending
<1>1. runs' = (runs \ {r}) \cup {s}
    BY DEF Step
<1>2. runs' \in SUBSET Run
    BY <1>1 DEF Inv, Types
<1>3. Using' = Using /\ Pending' = Pending
    BY DEF Using, Pending
<1>4. \A q \in runs' : \E p \in runs : p.tx = q.tx /\ p.flow = q.flow
    BY SMTT(60), <1>1
<1>5. \A p, q \in runs' : p.tx = q.tx => p = q
    <2>1. \A q \in runs : q.tx = r.tx => q = r
        BY Zenon DEF Inv, NumbersAreFresh
    <2> QED BY SMTT(30), Zenon, <1>1, <2>1 DEF Inv, NumbersAreFresh
<1>6. NumbersAreFresh'
    <2>1. ASSUME NEW q \in runs'
          PROVE  q.tx <= lastTx /\ \A f \in Flows : q.tx = tx[f] => q.flow = f
        <3>1. PICK p \in runs : p.tx = q.tx /\ p.flow = q.flow
            BY <1>4
        <3>2. p.tx <= lastTx /\ \A f \in Flows : p.tx = tx[f] => p.flow = f
            BY Zenon DEF Inv, NumbersAreFresh
        <3> QED BY Zenon, <3>1, <3>2
    <2>2. \A f \in Flows : pc[f] \in {"waiting", "locked", "beginning", "open"}
                            => \A q \in runs' : q.tx # tx[f]
        BY <1>4 DEF Inv, NumbersAreFresh
    <2> QED BY Zenon, <1>3, <1>5, <2>1, <2>2 DEF Inv, NumbersAreFresh
<1>7. FenceHolds'
    <2>1. SUFFICES ASSUME NEW q \in runs'
                   PROVE  /\ q.epoch <= epoch
                          /\ q.epoch = epoch => Awaited(q) /\ (q.at = "checked" => q.db = conn)
        BY Zenon DEF FenceHolds, Awaited
    <2>2. CASE q \in runs
        BY ZenonT(60), <2>2 DEF Inv, FenceHolds
    <2>3. CASE q = s
        BY Zenon, <2>3 DEF Inv, FenceHolds, Awaited
    <2> QED BY <1>1, <2>2, <2>3
<1> QED BY <1>2, <1>3, <1>6, <1>7


\* The first half of doQuery.
LEMMA QueryKeeps ==
    ASSUME Inv, NEW r \in runs, Query(r)
    PROVE  Inv'
<1> DEFINE s == [r EXCEPT !.at = "checked", !.db = conn]
<1>1. r \in Run /\ conn \in Conns \cup {NoConn}
    BY DEF Inv, Types
<1>2. /\ s \in Run /\ s.tx = r.tx /\ s.flow = r.flow /\ s.epoch = r.epoch
      /\ s.at = "checked" => s.db = conn
    BY Zenon, <1>1 DEF Run
<1>3. /\ Step(r, s)
      /\ UNCHANGED <<locked, queue, conn, epoch, pool, srv, pipe, durable, issued, pc, tx, lastTx,
                     reported>>
    BY DEF Query, js, server
<1> HIDE DEF s
<1>4. \A w \in issued' \cup durable' : w.tx <= lastTx
    BY Zenon, <1>3 DEF Inv, NumbersAreFresh
<1>5. /\ runs' \in SUBSET Run /\ NumbersAreFresh' /\ FenceHolds'
      /\ Using' = Using /\ Pending' = Pending
    BY Zenon, <1>2, <1>3, <1>4, RunMoves
<1>6. Types'
    BY <1>3, <1>5 DEF Inv, Types
<1>7. LockHasOneHolder' /\ QueueIsWaiting' /\ NoConnectionLeak' /\ ConnectionIsUsed'
    BY Zenon, <1>3, <1>5 DEF Inv, LockHasOneHolder, Holders, QueueIsWaiting, NoConnectionLeak, Held,
                      ConnectionIsUsed
<1>8. PipesAreOwned' /\ SessionsAreOwned' /\ PendingIsOpen' /\ OnlyBlocksCommit'
    <2>1. PipesAreOwned'
        BY Zenon, <1>3, <1>5 DEF Inv, PipesAreOwned
    <2>2. SessionsAreOwned'
        BY ZenonT(60), <1>3, <1>5 DEF Inv, SessionsAreOwned
    <2>3. PendingIsOpen' /\ OnlyBlocksCommit'
        BY Zenon, <1>3, <1>5 DEF Inv, PendingIsOpen, OnlyBlocksCommit
    <2> QED BY <2>1, <2>2, <2>3
<1>9. AllOrNothing' /\ CommitIsTruthful' /\ DryRunsLeaveNothing'
    BY <1>3 DEF Inv, AllOrNothing, CommitIsTruthful, DryRunsLeaveNothing
<1> QED BY <1>5, <1>6, <1>7, <1>8, <1>9 DEF Inv

\* The second half: the fence lets through only the run that is waited for, and
\* that run has the transaction connection.
LEMMA SendStatementKeeps ==
    ASSUME Inv, NEW r \in runs, SendStatement(r)
    PROVE  Inv'
<1> DEFINE f == r.flow
           s == [r EXCEPT !.at = "sent"]
<1>1. r \in Run /\ f \in Flows /\ r.tx \in Nat
    BY DEF Inv, Types, Run
<1>2. Awaited(r) /\ r.db = conn
    BY DEF SendStatement, Unfenced, Inv, FenceHolds
<1>3. pc[f] = "running" /\ tx[f] = r.tx /\ f \in Using /\ f \in Holders
    BY Zenon, <1>1, <1>2 DEF Awaited, Using, Holders
<1>4. conn # NoConn /\ conn \in Conns
    BY <1>3 DEF Inv, ConnectionIsUsed, Types
<1>5. /\ pipe' = [pipe EXCEPT ![conn] = Append(pipe[conn], Write(r.tx))] /\ Step(r, s)
      /\ UNCHANGED <<locked, queue, conn, epoch, pool, srv, durable, issued, pc, tx, lastTx, reported>>
    BY <1>2, <1>4 DEF SendStatement, Send, Write, js, Inv, Types
<1>6. s \in Run /\ s.tx = r.tx /\ s.flow = r.flow /\ s.epoch = r.epoch /\ s.at # "checked"
    BY <1>1 DEF Run
<1> HIDE DEF s
<1>7. \A w \in issued' \cup durable' : w.tx <= lastTx
    BY Zenon, <1>5 DEF Inv, NumbersAreFresh
<1>8. /\ runs' \in SUBSET Run /\ NumbersAreFresh' /\ FenceHolds'
      /\ Using' = Using /\ Pending' = Pending
    BY Zenon, <1>5, <1>6, <1>7, RunMoves
<1>9. /\ pipe' \in [Conns -> Seq(Command)] /\ Statements(pipe'[conn], tx[f])
      /\ \A c \in Conns : c # conn => pipe'[c] = <<>>
    <2>1. pipe \in [Conns -> Seq(Command)] /\ \A c \in Conns : c # conn => pipe[c] = <<>>
        BY Zenon DEF Inv, Types, PipesAreOwned
    <2>2. pipe[conn] \in Seq(Command) /\ Statements(pipe[conn], r.tx)
        BY Zenon, <2>1, <1>3, <1>4 DEF Inv, PipesAreOwned
    <2>3. /\ Append(pipe[conn], Write(r.tx)) \in Seq(Command)
          /\ Statements(Append(pipe[conn], Write(r.tx)), r.tx)
        BY Zenon, <2>2, <1>1, SendWrite
    <2> QED BY Zenon, <2>1, <2>3, <1>3, <1>4, <1>5
<1>10. Types'
    BY <1>5, <1>8, <1>9 DEF Inv, Types
<1>11. LockHasOneHolder' /\ QueueIsWaiting' /\ NoConnectionLeak' /\ ConnectionIsUsed'
    BY Zenon, <1>5, <1>8 DEF Inv, LockHasOneHolder, Holders, QueueIsWaiting, NoConnectionLeak, Held,
                      ConnectionIsUsed
<1>12. PipesAreOwned'
    <2>1. \A g \in Using : g = f
        BY Zenon, <1>3, OneHolder DEF Inv
    <2> QED BY ZenonT(60), <2>1, <1>3, <1>5, <1>8, <1>9 DEF PipesAreOwned
<1>13. SessionsAreOwned' /\ PendingIsOpen' /\ OnlyBlocksCommit'
    <2>1. SessionsAreOwned'
        BY Zenon, <1>5, <1>8 DEF Inv, SessionsAreOwned
    <2>2. PendingIsOpen' /\ OnlyBlocksCommit'
        BY Zenon, <1>5, <1>8 DEF Inv, PendingIsOpen, OnlyBlocksCommit
    <2> QED BY <2>1, <2>2
<1>14. AllOrNothing' /\ CommitIsTruthful' /\ DryRunsLeaveNothing'
    BY <1>5 DEF Inv, AllOrNothing, CommitIsTruthful, DryRunsLeaveNothing
<1> QED BY <1>8, <1>10, <1>11, <1>12, <1>13, <1>14 DEF Inv

\* The server executes a statement: it is of the transaction that is open there.
LEMMA ExecutedKeeps ==
    ASSUME Inv, NEW r \in runs, NEW c \in Conns, Executed(r, c)
    PROVE  Inv'
<1> DEFINE w0 == Statement(r)
           s == [r EXCEPT !.at = "idle", !.n = @ + 1]
<1>1. r \in Run /\ r.flow \in Flows /\ r.tx \in Nat /\ r.n \in Nat
    BY DEF Inv, Types, Run
<1>2. pipe[c] # <<>> /\ Head(pipe[c]) = Write(r.tx) /\ pipe[c] \in Seq(Command)
    BY DEF Executed, Write, Inv, Types
<1>3. c = conn /\ c # NoConn
    BY Zenon, <1>2, ConnsAssumption DEF Inv, PipesAreOwned
<1>4. PICK f \in Using : TRUE
    BY <1>3 DEF Inv, ConnectionIsUsed
<1>5. f \in Flows /\ f \in Holders /\ \A g \in Using : g = f
    BY <1>4, OneHolder DEF Inv, Using, Holders
<1>6. Write(r.tx).cmd = "write" /\ Write(r.tx).by = r.tx /\ Write(tx[f]).by = tx[f]
    BY DEF Write
<1>7. /\ pc[f] \in {"running", "rollingback", "committing"}
      /\ r.tx = tx[f]
      /\ pc[f] = "running" => Statements(Tail(pipe[c]), tx[f])
      /\ pc[f] = "rollingback" => EndsIn(Tail(pipe[c]), tx[f], [cmd |-> "rollback", by |-> f])
      /\ pc[f] = "committing" => EndsIn(Tail(pipe[c]), tx[f], [cmd |-> "commit", by |-> f])
    <2>1. CASE pc[f] = "beginning"
        <3> DEFINE first == [cmd |-> "begin", by |-> f]
        <3>1. pipe[c] = <<first>> /\ first.cmd = "begin"
            BY Zenon, <2>1, <1>3, <1>4 DEF Inv, PipesAreOwned
        <3> HIDE DEF first
        <3>2. Head(pipe[c]) = first
            BY SMTT(30), Zenon, <3>1
        <3> QED BY Zenon, <3>1, <3>2, <1>2, <1>6
    <2>2. CASE pc[f] = "open"
        BY Zenon, <2>2, <1>2, <1>3, <1>4 DEF Inv, PipesAreOwned
    <2>3. CASE pc[f] = "running"
        <3>1. Statements(pipe[c], tx[f])
            BY Zenon, <2>3, <1>3, <1>4 DEF Inv, PipesAreOwned
        <3>2. Head(pipe[c]) = Write(tx[f]) /\ Statements(Tail(pipe[c]), tx[f])
            BY Zenon, <3>1, <1>2, TakeWrite
        <3> QED BY Zenon, <3>2, <2>3, <1>2, <1>6
    <2>4. CASE pc[f] = "rollingback"
        <3> DEFINE last == [cmd |-> "rollback", by |-> f]
        <3>1. EndsIn(pipe[c], tx[f], last) /\ last.cmd # "write"
            BY Zenon, <2>4, <1>3, <1>4 DEF Inv, PipesAreOwned
        <3>2. SUFFICES Write(r.tx) = Write(tx[f]) /\ EndsIn(Tail(pipe[c]), tx[f], last)
            BY Zenon, <2>4, <1>6
        <3> HIDE DEF last
        <3> QED BY Zenon, <3>1, <1>2, <1>6, TakeWrite
    <2>5. CASE pc[f] = "committing"
        <3> DEFINE last == [cmd |-> "commit", by |-> f]
        <3>1. EndsIn(pipe[c], tx[f], last) /\ last.cmd # "write"
            BY Zenon, <2>5, <1>3, <1>4 DEF Inv, PipesAreOwned
        <3>2. SUFFICES Write(r.tx) = Write(tx[f]) /\ EndsIn(Tail(pipe[c]), tx[f], last)
            BY Zenon, <2>5, <1>6
        <3> HIDE DEF last
        <3> QED BY Zenon, <3>1, <1>2, <1>6, TakeWrite
    <2> QED BY Zenon, <2>1, <2>2, <2>3, <2>4, <2>5, <1>4 DEF Using
<1>8. r.flow = f /\ f \in Pending /\ tx[f] <= lastTx
    BY ZenonT(60), <1>5, <1>7 DEF Inv, NumbersAreFresh, Pending
<1>9. w0 \in Stmt /\ w0.tx = tx[f] /\ w0.flow = f
    <2> DEFINE k == r.n + 1
    <2>1. k \in Nat
        BY <1>1
    <2>2. w0 = [flow |-> r.flow, tx |-> r.tx, n |-> k]
        BY Zenon DEF Statement
    <2> HIDE DEF k, w0
    <2> QED BY Zenon, <2>1, <2>2, <1>1, <1>7, <1>8 DEF Stmt
<1>10. s \in Run /\ s.tx = r.tx /\ s.flow = r.flow /\ s.epoch = r.epoch /\ s.at # "checked"
    <2> DEFINE k == r.n + 1
    <2>1. k \in Nat
        BY <1>1
    <2>2. s = [r EXCEPT !.at = "idle", !.n = k]
        BY <1>1 DEF Run
    <2> HIDE DEF k, s
    <2> QED BY Zenon, <1>1, <2>1, <2>2 DEF Run
<1>11. srv[c].open
    BY Zenon, <1>3, <1>4, <1>7 DEF Inv, SessionsAreOwned
<1>12. /\ pipe' = [pipe EXCEPT ![c] = Tail(@)] /\ issued' = issued \cup {w0}
       /\ srv' = [srv EXCEPT ![c].writes = @ \cup {w0}] /\ Step(r, s)
       /\ UNCHANGED <<locked, queue, conn, epoch, pool, durable, pc, tx, lastTx, reported>>
    BY <1>11 DEF Executed, js
<1> HIDE DEF w0, s
<1>13. \A w \in issued' \cup durable' : w.tx <= lastTx
    BY <1>8, <1>9, <1>12 DEF Inv, NumbersAreFresh
<1>14. /\ runs' \in SUBSET Run /\ NumbersAreFresh' /\ FenceHolds'
       /\ Using' = Using /\ Pending' = Pending
    BY <1>10, <1>12, <1>13, RunMoves
<1>15. /\ srv' \in [Conns -> [open : BOOLEAN, writes : SUBSET Stmt]]
       /\ srv'[c].open /\ srv'[c].writes = srv[c].writes \cup {w0}
       /\ \A d \in Conns : d # c => srv'[d] = srv[d]
    <2>1. srv \in [Conns -> [open : BOOLEAN, writes : SUBSET Stmt]]
        BY DEF Inv, Types
    <2> QED BY <2>1, <1>9, <1>11, <1>12
<1>16. pipe' \in [Conns -> Seq(Command)] /\ pipe'[c] = Tail(pipe[c]) /\ \A d \in Conns : d # c => pipe'[d] = pipe[d]
    <2>1. Tail(pipe[c]) \in Seq(Command) /\ pipe \in [Conns -> Seq(Command)]
        BY <1>2, TakeWrite DEF Inv, Types
    <2> QED BY <2>1, <1>12
<1>17. Types'
    <2>1. issued' \in SUBSET Stmt
        BY <1>9, <1>12 DEF Inv, Types
    <2> QED BY <2>1, <1>12, <1>14, <1>15, <1>16 DEF Inv, Types
<1>18. LockHasOneHolder' /\ QueueIsWaiting' /\ NoConnectionLeak' /\ ConnectionIsUsed'
    BY <1>12, <1>14 DEF Inv, LockHasOneHolder, Holders, QueueIsWaiting, NoConnectionLeak, Held,
                        ConnectionIsUsed
<1>19. PipesAreOwned'
    BY <1>3, <1>5, <1>7, <1>12, <1>14, <1>16 DEF Inv, PipesAreOwned
<1>20. SessionsAreOwned'
    BY <1>3, <1>5, <1>7, <1>9, <1>12, <1>14, <1>15 DEF Inv, SessionsAreOwned
<1>21. PendingIsOpen'
    <2>1. \A g \in Pending : tx[g] = tx[f] => g = f
        BY <1>8 DEF Inv, NumbersAreFresh, Pending
    <2>2. \A w \in srv[conn].writes : w \in srv'[conn].writes
        BY <1>3, <1>15
    <2>3. w0 \in srv'[conn].writes
        BY <1>3, <1>15
    <2> QED BY SMTT(60), <2>1, <2>2, <2>3, <1>4, <1>9, <1>12, <1>14 DEF Inv, PendingIsOpen
<1>22. OnlyBlocksCommit'
    BY <1>12 DEF Inv, OnlyBlocksCommit
<1>23. AllOrNothing' /\ CommitIsTruthful' /\ DryRunsLeaveNothing'
    <2>1. tx[f] \notin reported /\ \A w \in durable : w.tx # tx[f]
        BY <1>8 DEF Inv, PendingIsOpen
    <2> QED BY SMTT(60), <2>1, <1>9, <1>12 DEF Inv, AllOrNothing, CommitIsTruthful, DryRunsLeaveNothing
<1> QED BY SMTT(60), <1>14, <1>17, <1>18, <1>19, <1>20, <1>21, <1>22, <1>23 DEF Inv


\* A zombie ends and nobody notices.
LEMMA ZombieEnds ==
    ASSUME Inv, runs' \subseteq runs,
           UNCHANGED <<locked, queue, conn, epoch, pool, srv, pipe, durable, issued, pc, tx, lastTx,
                       reported>>
    PROVE  Inv'
<1>1. Using' = Using /\ Pending' = Pending /\ Holders' = Holders
    BY DEF Using, Pending, Holders
<1>2. Types'
    BY DEF Inv, Types
<1>3. LockHasOneHolder' /\ QueueIsWaiting' /\ NoConnectionLeak' /\ ConnectionIsUsed'
    BY Zenon, <1>1 DEF Inv, LockHasOneHolder, QueueIsWaiting, NoConnectionLeak, Held, ConnectionIsUsed
<1>4. NumbersAreFresh'
    BY ZenonT(60), <1>1 DEF Inv, NumbersAreFresh
<1>5. FenceHolds'
    BY Zenon DEF Inv, FenceHolds, Awaited
<1>6. PipesAreOwned' /\ SessionsAreOwned' /\ PendingIsOpen' /\ OnlyBlocksCommit'
    <2>1. PipesAreOwned'
        BY Zenon, <1>1 DEF Inv, PipesAreOwned
    <2>2. SessionsAreOwned'
        BY Zenon, <1>1 DEF Inv, SessionsAreOwned
    <2>3. PendingIsOpen' /\ OnlyBlocksCommit'
        BY Zenon, <1>1 DEF Inv, PendingIsOpen, OnlyBlocksCommit
    <2> QED BY <2>1, <2>2, <2>3
<1>7. AllOrNothing' /\ CommitIsTruthful' /\ DryRunsLeaveNothing'
    BY DEF Inv, AllOrNothing, CommitIsTruthful, DryRunsLeaveNothing
<1> QED BY <1>2, <1>3, <1>4, <1>5, <1>6, <1>7 DEF Inv

LEMMA RunThrowsKeeps ==
    ASSUME Inv, NEW r \in runs, RunThrows(r)
    PROVE  Inv'
<1>1. r.flow \in Flows
    BY DEF Inv, Types, Run
<1>2. /\ runs' \subseteq runs
      /\ UNCHANGED <<locked, queue, conn, pool, srv, durable, issued, tx, lastTx, reported>>
    BY DEF RunThrows
<1>3. CASE Awaited(r) /\ TearDown(r.flow)
    BY <1>1, <1>2, <1>3, TearDownKeeps DEF Awaited
<1>4. CASE ~Awaited(r) /\ UNCHANGED <<epoch, pipe, pc>>
    BY <1>2, <1>4, ZombieEnds
<1> QED BY <1>3, <1>4 DEF RunThrows

\* The run a block waits for returns: it is the only one the fence would let
\* through, so no statement follows the COMMIT.
LEMMA RunReturnsKeeps ==
    ASSUME Inv, NEW r \in runs, RunReturns(r)
    PROVE  Inv'
<1>1. r.flow \in Flows
    BY DEF Inv, Types, Run
<1>2. /\ runs' = runs \ {r}
      /\ UNCHANGED <<locked, queue, conn, pool, srv, durable, issued, tx, lastTx, reported>>
    BY DEF RunReturns
<1>3. CASE Awaited(r) /\ r.flow = Loop /\ StartCommit(r.flow) /\ UNCHANGED epoch
    <2>1. pc[r.flow] = "running" /\ tx[r.flow] = r.tx /\ r.flow \in Holders /\ r.flow \in Using
        BY <1>1, <1>3 DEF Awaited, Holders, Using
    <2>2. conn # NoConn
        BY <2>1 DEF Inv, ConnectionIsUsed
    <2>3. /\ pipe' = [pipe EXCEPT ![conn] = Append(@, [cmd |-> "commit", by |-> r.flow])]
          /\ pc' = [pc EXCEPT ![r.flow] = "committing"]
        BY <2>2, <1>3 DEF StartCommit, Send
    <2>4. \A q \in runs' : q.epoch # epoch
        <3>1. SUFFICES ASSUME NEW q \in runs, q.epoch = epoch PROVE q = r
            BY <1>2
        <3>2. q.flow \in Flows /\ pc[q.flow] = "running" /\ tx[q.flow] = q.tx
            BY SMTT(30), Zenon, <3>1 DEF Inv, Types, Run, FenceHolds, Awaited
        <3>3. q.flow = r.flow
            BY ZenonT(60), <3>2, <2>1, OneHolder DEF Inv
        <3> QED BY Zenon, <3>2, <3>3, <2>1 DEF Inv, NumbersAreFresh
    <2>5. runs' \subseteq runs /\ pc[r.flow] \in {"open", "running"} /\ epoch' \in {epoch, epoch + 1}
        BY ZenonT(60), <1>2, <1>3, <2>1
    <2> QED BY Zenon, <1>1, <1>2, <1>3, <2>3, <2>4, <2>5, SendEnd
<1>4. CASE Awaited(r) /\ r.flow # Loop /\ TearDown(r.flow)
    BY Zenon, <1>1, <1>2, <1>4, TearDownKeeps DEF Awaited
<1>5. CASE ~Awaited(r) /\ UNCHANGED <<epoch, pipe, pc>>
    BY <1>2, <1>5, ZombieEnds
<1> QED BY <1>3, <1>4, <1>5 DEF RunReturns

\* The watchdog rolls back and leaves its run behind the fence.
LEMMA WatchdogKeeps ==
    ASSUME Inv, NEW f \in Flows, Watchdog(f)
    PROVE  Inv'
BY TearDownKeeps DEF Watchdog


----------------------------------------------------------------------------
(* Flows that do not hold the mutex.                                       *)

\* Such a flow moves, and nothing the others rely on does.
LEMMA BystanderMoves ==
    ASSUME Inv, NEW f \in Flows, NEW p \in {"idle", "waiting"},
           pc[f] \in {"idle", "waiting", "committed"}, pc' = [pc EXCEPT ![f] = p],
           UNCHANGED <<conn, epoch, pool, srv, pipe, durable, issued, runs, reported>>
    PROVE  /\ pc' \in [Flows -> Places] /\ pc'[f] = p
           /\ \A g \in Flows : g # f => pc'[g] = pc[g]
           /\ Using' = Using /\ Holders' = Holders /\ f \notin Using
           /\ \A g \in Pending' : g # f => g \in Pending
           /\ NoConnectionLeak' /\ ConnectionIsUsed' /\ OnlyBlocksCommit'
           /\ AllOrNothing' /\ CommitIsTruthful' /\ DryRunsLeaveNothing'
<1>1. /\ pc' \in [Flows -> Places] /\ pc'[f] = p
      /\ \A g \in Flows : g # f => pc'[g] = pc[g]
    BY DEF Inv, Types, Places
<1>2. Using' = Using /\ Holders' = Holders /\ f \notin Using
    BY <1>1 DEF Using, Holders
<1>3. \A g \in Pending' : g # f => g \in Pending
    BY <1>1 DEF Pending
<1>4. NoConnectionLeak' /\ ConnectionIsUsed'
    BY <1>2 DEF Inv, NoConnectionLeak, ConnectionIsUsed, Held
<1>5. OnlyBlocksCommit'
    BY <1>1 DEF Inv, OnlyBlocksCommit
<1>6. AllOrNothing' /\ CommitIsTruthful' /\ DryRunsLeaveNothing'
    BY DEF Inv, AllOrNothing, CommitIsTruthful, DryRunsLeaveNothing
<1> QED BY SMTT(60), <1>1, <1>2, <1>3, <1>4, <1>5, <1>6

\* Where a flow keeps its number, what belongs to transactions is untouched.
LEMMA BystanderKeeps ==
    ASSUME Inv, NEW f \in Flows, pc[f] \in {"waiting", "committed"},
           pc' = [pc EXCEPT ![f] = "idle"], queue' \in Seq(Waiter), QueueIsWaiting',
           UNCHANGED <<locked, conn, epoch, pool, srv, pipe, durable, issued, runs, reported, tx, lastTx>>
    PROVE  Inv'
<1>1. /\ pc' \in [Flows -> Places] /\ pc'[f] = "idle"
      /\ \A g \in Flows : g # f => pc'[g] = pc[g]
      /\ Using' = Using /\ Holders' = Holders /\ f \notin Using
      /\ \A g \in Pending' : g # f => g \in Pending
      /\ NoConnectionLeak' /\ ConnectionIsUsed' /\ OnlyBlocksCommit'
      /\ AllOrNothing' /\ CommitIsTruthful' /\ DryRunsLeaveNothing'
    BY Zenon, BystanderMoves
<1>2. \A g \in Pending' : g \in Pending
    BY <1>1 DEF Pending
<1>3. Types' /\ LockHasOneHolder'
    BY Zenon, <1>1 DEF Inv, Types, LockHasOneHolder
<1>4. NumbersAreFresh'
    <2>1. \A g \in Flows : pc'[g] \in {"waiting", "locked", "beginning", "open"}
                            => \A r \in runs : r.tx # tx[g]
        BY Zenon, <1>1 DEF Inv, NumbersAreFresh
    <2> QED BY Zenon, <2>1, <1>2 DEF Inv, NumbersAreFresh
<1>5. FenceHolds'
    <2>1. SUFFICES ASSUME NEW r \in runs
                   PROVE  /\ r.epoch <= epoch
                          /\ r.epoch = epoch => Awaited(r)' /\ (r.at = "checked" => r.db = conn)
        BY DEF FenceHolds
    <2>2. r.flow \in Flows
        BY <2>1 DEF Inv, Types, Run
    <2> QED BY Zenon, <2>1, <2>2, <1>1 DEF Inv, FenceHolds, Awaited
<1>6. PipesAreOwned' /\ SessionsAreOwned'
    <2>1. \A g \in Using : g \in Flows /\ pc'[g] = pc[g]
        BY SMTT(30), Zenon, <1>1 DEF Using
    <2>2. PipesAreOwned'
        BY Zenon, <2>1, <1>1 DEF Inv, PipesAreOwned
    <2>3. SessionsAreOwned'
        <3>1. srv' = srv /\ conn' = conn /\ tx' = tx /\ Using' = Using
            BY Zenon, <1>1
        <3>2. \A g \in Using : /\ pc'[g] = "beginning" => srv[conn] = Closed
                               /\ pc'[g] # "beginning" => srv[conn].open
                               /\ \A w \in srv[conn].writes : w.tx = tx[g] /\ w.flow = g
            BY Zenon, <2>1 DEF Inv, SessionsAreOwned
        <3>3. \A c \in Conns : c # conn => srv[c] = Closed
            BY Zenon DEF Inv, SessionsAreOwned
        <3> QED BY ZenonT(60), <3>1, <3>2, <3>3 DEF SessionsAreOwned
    <2> QED BY SMTT(60), <2>2, <2>3
<1>7. PendingIsOpen'
    BY Zenon, <1>1, <1>2 DEF Inv, PendingIsOpen
<1> QED BY Zenon, <1>1, <1>3, <1>4, <1>5, <1>6, <1>7 DEF Inv

\* A dry run stops waiting for the mutex; its waiter stays behind, settled.
LEMMA LockTimeoutKeeps ==
    ASSUME Inv, NEW f \in Flows, LockTimeout(f)
    PROVE  Inv'
<1>1. pc[f] = "waiting" /\ pc' = [pc EXCEPT ![f] = "idle"]
    BY DEF LockTimeout
<1>2. queue \in Seq(Waiter) /\ Len(queue) \in Nat /\ pc \in [Flows -> Places]
    BY DEF Inv, Types
<1>3. \A i \in 1 .. Len(queue) : queue[i] \in Waiter
    BY <1>2, ElementOfSeq
<1> DEFINE given(w) == IF w.flow = f THEN [w EXCEPT !.settled = TRUE] ELSE w
<1>4. \A w \in Waiter : /\ given(w) \in Waiter /\ given(w).flow = w.flow
                        /\ ~given(w).settled => ~w.settled /\ w.flow # f
    BY Zenon DEF Waiter
<1>5. queue' = [i \in 1 .. Len(queue) |-> given(queue[i])]
    BY DEF LockTimeout
<1> HIDE DEF given
<1>6. queue' \in Seq(Waiter) /\ Len(queue') = Len(queue)
    BY <1>2, <1>3, <1>4, <1>5
<1>7. \A i \in 1 .. Len(queue) :
        /\ queue'[i].flow = queue[i].flow /\ queue[i].flow \in Flows
        /\ ~queue'[i].settled => ~queue[i].settled /\ queue[i].flow # f
    <2>1. \A i \in 1 .. Len(queue) : queue'[i] = given(queue[i])
        BY <1>5
    <2>2. \A w \in Waiter : w.flow \in Flows
        BY DEF Waiter
    <2> QED BY Zenon, <2>1, <2>2, <1>3, <1>4
<1>8. QueueIsWaiting'
    BY Zenon, <1>1, <1>2, <1>6, <1>7 DEF Inv, QueueIsWaiting
<1> QED BY Zenon, <1>1, <1>6, <1>8, BystanderKeeps DEF LockTimeout, server

\* The steps after a block's commit are over.
LEMMA AfterCommitKeeps ==
    ASSUME Inv, ~PostCommitFaults, AfterCommit
    PROVE  Inv'
<1>1. /\ Loop \in Flows /\ pc[Loop] = "committed" /\ pc' = [pc EXCEPT ![Loop] = "idle"]
      /\ UNCHANGED <<locked, queue, conn, epoch, pool, srv, pipe, durable, issued, runs, reported,
                     tx, lastTx>>
    BY DEF AfterCommit, Flows
<1>2. queue \in Seq(Waiter) /\ pc \in [Flows -> Places]
    BY DEF Inv, Types
<1>3. QueueIsWaiting'
    <2>1. \A i \in 1 .. Len(queue) : queue[i] \in Waiter
        BY SMTT(60), <1>2, ElementOfSeq
    <2>2. \A i \in 1 .. Len(queue) : queue[i].flow \in Flows
        BY SMTT(30), Zenon, <2>1 DEF Waiter
    <2> QED BY Zenon, <2>2, <1>1, <1>2 DEF Inv, QueueIsWaiting
<1> QED BY Zenon, <1>1, <1>2, <1>3, BystanderKeeps


\* A flow asks for the mutex under a number of its own.
LEMMA AcquireKeeps ==
    ASSUME Inv, NEW f \in Flows, Acquire(f)
    PROVE  Inv'
<1>1. /\ pc[f] = "idle" /\ lastTx' = lastTx + 1 /\ tx' = [tx EXCEPT ![f] = lastTx + 1]
      /\ UNCHANGED <<conn, epoch, pool, srv, pipe, durable, issued, runs, reported>>
    BY DEF Acquire, server
<1>2. lastTx \in Nat /\ tx \in [Flows -> Nat] /\ queue \in Seq(Waiter) /\ pc \in [Flows -> Places]
    BY DEF Inv, Types
<1>3. /\ tx' \in [Flows -> Nat] /\ tx'[f] = lastTx + 1 /\ tx'[f] \in Nat
      /\ \A g \in Flows : g # f => tx'[g] = tx[g]
    BY SMTT(60), <1>1, <1>2
<1>4. \A g \in Flows : tx[g] \in Nat /\ tx[g] <= lastTx
    BY <1>2 DEF Inv, NumbersAreFresh
<1>5. \A r \in runs : r.tx \in Nat /\ r.tx <= lastTx
    BY Zenon DEF Inv, Types, Run, NumbersAreFresh
<1>6. \A w \in issued \cup durable : w.tx \in Nat /\ w.tx <= lastTx
    BY Zenon DEF Inv, Types, Stmt, NumbersAreFresh
<1>7. \A t \in reported : t \in Nat /\ t <= lastTx
    BY Zenon DEF Inv, Types, NumbersAreFresh
<1>8. /\ pc' \in [Flows -> Places] /\ pc'[f] \in {"locked", "waiting"}
      /\ \A g \in Flows : g # f => pc'[g] = pc[g]
    BY Zenon, <1>2 DEF Acquire, Places
<1>9. Using' = Using /\ f \notin Using /\ \A g \in Pending' : g # f => g \in Pending
    BY <1>1, <1>8 DEF Using, Pending
<1>10. \A i \in 1 .. Len(queue) :
          queue[i] \in Waiter /\ queue[i].flow \in Flows /\ (~queue[i].settled => queue[i].flow # f)
    <2>1. \A i \in 1 .. Len(queue) : queue[i] \in Waiter
        BY <1>2, ElementOfSeq
    <2> QED BY Zenon, <2>1, <1>1 DEF Waiter, Inv, QueueIsWaiting
<1>11. queue' \in Seq(Waiter) /\ locked' \in BOOLEAN /\ LockHasOneHolder' /\ QueueIsWaiting'
    <2>1. CASE ~locked /\ locked' = TRUE /\ pc' = [pc EXCEPT ![f] = "locked"] /\ UNCHANGED queue
        <3>1. \A g \in Flows : pc'[g] = IF g = f THEN "locked" ELSE pc[g]
            BY <2>1, <1>2
        <3>2. \A g \in Flows : pc[g] \in {"idle", "waiting", "committed"}
            BY SMTT(60), <2>1 DEF Inv, LockHasOneHolder, Holders
        <3>3. Holders' = {f}
            BY <3>1, <3>2 DEF Holders
        <3>4. LockHasOneHolder'
            BY SMTT(60), <2>1, <3>3 DEF LockHasOneHolder
        <3>5. QueueIsWaiting'
            BY SMTT(60), <2>1, <1>10, <3>1 DEF Inv, QueueIsWaiting
        <3> QED BY <2>1, <1>2, <3>4, <3>5
    <2>2. CASE /\ locked /\ queue' = Append(queue, [flow |-> f, settled |-> FALSE])
               /\ pc' = [pc EXCEPT ![f] = "waiting"] /\ UNCHANGED locked
        <3> DEFINE w == [flow |-> f, settled |-> FALSE]
        <3>1. \A g \in Flows : pc'[g] = IF g = f THEN "waiting" ELSE pc[g]
            BY SMTT(60), <2>2, <1>2
        <3>2. Holders' = Holders
            BY <3>1, <1>1 DEF Holders
        <3>3. LockHasOneHolder' /\ locked' \in BOOLEAN
            BY Zenon, <2>2, <3>2 DEF Inv, Types, LockHasOneHolder
        <3>4. w \in Waiter /\ w.flow = f
            BY DEF Waiter
        <3>5. queue' = Append(queue, w)
            BY <2>2
        <3> HIDE DEF w
        <3>6. /\ queue' \in Seq(Waiter) /\ Len(queue') = Len(queue) + 1 /\ Len(queue) \in Nat
              /\ queue'[Len(queue) + 1] = w
              /\ \A i \in 1 .. Len(queue) : queue'[i] = queue[i]
            BY <1>2, <3>4, <3>5
        <3>7. \A i \in 1 .. Len(queue') : i \in 1 .. Len(queue) \/ i = Len(queue) + 1
            BY SMTT(60), <3>6
        <3>8. \A i \in 1 .. Len(queue') : ~queue'[i].settled => pc'[queue'[i].flow] = "waiting"
            BY SMTT(30), Zenon, <3>1, <3>4, <3>6, <3>7, <1>10 DEF Inv, QueueIsWaiting
        <3>9. \A i, j \in 1 .. Len(queue') :
                ~queue'[i].settled /\ ~queue'[j].settled /\ queue'[i].flow = queue'[j].flow => i = j
            BY Zenon, <3>4, <3>6, <3>7, <1>10 DEF Inv, QueueIsWaiting
        <3>10. QueueIsWaiting'
            BY Zenon, <3>8, <3>9 DEF QueueIsWaiting
        <3> QED BY SMTT(30), Zenon, <3>3, <3>6, <3>10
    <2> QED BY Zenon, <2>1, <2>2 DEF Acquire
<1>12. Types'
    BY Zenon, <1>1, <1>2, <1>3, <1>8, <1>11 DEF Inv, Types
<1>13. NoConnectionLeak' /\ ConnectionIsUsed'
    BY <1>1, <1>9 DEF Inv, NoConnectionLeak, ConnectionIsUsed, Held
<1>14. NumbersAreFresh'
    <2>1. \A g \in Flows : tx'[g] <= lastTx'
        BY <1>1, <1>2, <1>3, <1>4
    <2>2. \A g, h \in Flows : g # h => tx'[g] = 0 \/ tx'[g] # tx'[h]
        <3>1. SUFFICES ASSUME NEW g \in Flows, NEW h \in Flows, g # h
                       PROVE  tx'[g] = 0 \/ tx'[g] # tx'[h]
            BY Zenon
        <3>2. \A a \in Flows : tx[a] # lastTx + 1
            BY <1>2, <1>4
        <3>3. tx[g] = 0 \/ tx[g] # tx[h]
            BY Zenon, <3>1 DEF Inv, NumbersAreFresh
        <3> QED BY ZenonT(60), <3>1, <3>2, <3>3, <1>3
    <2>3. \A g \in Pending' : tx'[g] # 0
        <3>1. lastTx + 1 # 0
            BY <1>2
        <3>2. \A g \in Pending : g \in Flows /\ tx[g] # 0
            BY Zenon DEF Inv, NumbersAreFresh, Pending
        <3> QED BY <3>1, <3>2, <1>3, <1>9
    <2>4. \A r \in runs : r.tx # tx'[f] /\ r.tx <= lastTx'
        BY <1>1, <1>2, <1>3, <1>5
    <2>5. \A r \in runs : \A g \in Flows : r.tx = tx'[g] => r.flow = g
        BY ZenonT(60), <2>4, <1>3 DEF Inv, NumbersAreFresh
    <2>6. \A g \in Flows : pc'[g] \in {"waiting", "locked", "beginning", "open"}
                            => \A r \in runs : r.tx # tx'[g]
        BY SMTT(30), Zenon, <2>4, <1>3, <1>8 DEF Inv, NumbersAreFresh
    <2>7. (\A w \in issued \cup durable : w.tx <= lastTx') /\ \A t \in reported : t <= lastTx'
        BY <1>1, <1>2, <1>6, <1>7
    <2>8. \A r, q \in runs : r.tx = q.tx => r = q
        BY Zenon DEF Inv, NumbersAreFresh
    <2> QED BY Zenon, <2>1, <2>2, <2>3, <2>4, <2>5, <2>6, <2>7, <2>8, <1>1 DEF NumbersAreFresh
<1>15. FenceHolds'
    <2>1. SUFFICES ASSUME NEW r \in runs
                   PROVE  /\ r.epoch <= epoch
                          /\ r.epoch = epoch => Awaited(r)' /\ (r.at = "checked" => r.db = conn)
        BY <1>1 DEF FenceHolds
    <2>2. r.flow \in Flows
        BY SMTT(60), <2>1 DEF Inv, Types, Run
    <2>3. Awaited(r) => Awaited(r)'
        BY <2>2, <1>1, <1>3, <1>8 DEF Awaited
    <2> QED BY <2>1, <2>3 DEF Inv, FenceHolds
<1>16. PipesAreOwned' /\ SessionsAreOwned'
    <2>1. \A g \in Using : g \in Flows /\ g # f /\ pc'[g] = pc[g] /\ tx'[g] = tx[g]
        BY Zenon, <1>3, <1>8, <1>9 DEF Using
    <2>2. PipesAreOwned'
        BY Zenon, <2>1, <1>1, <1>9 DEF Inv, PipesAreOwned
    <2>3. \A c \in Conns : c # conn' => srv'[c] = Closed
        BY Zenon, <1>1 DEF Inv, SessionsAreOwned
    <2>4. ASSUME NEW g \in Using'
          PROVE  /\ pc'[g] = "beginning" => srv'[conn'] = Closed
                 /\ pc'[g] # "beginning" => srv'[conn'].open
                 /\ \A w \in srv'[conn'].writes : w.tx = tx'[g] /\ w.flow = g
        <3>1. g \in Using
            BY <1>9
        <3> QED BY Zenon, <2>1, <3>1, <1>1 DEF Inv, SessionsAreOwned
    <2>5. SessionsAreOwned'
        BY Zenon, <2>3, <2>4 DEF SessionsAreOwned
    <2> QED BY <2>2, <2>5
<1>17. PendingIsOpen'
    <2>1. SUFFICES ASSUME NEW g \in Pending'
                   PROVE  /\ tx'[g] \notin reported
                          /\ \A w \in durable : w.tx # tx'[g]
                          /\ \A w \in issued : w.tx = tx'[g] => g \in Using /\ w \in srv[conn].writes
        BY ZenonT(60), <1>1, <1>9 DEF PendingIsOpen
    <2>2. CASE g = f
        BY SMTT(30), Zenon, <2>2, <1>2, <1>3, <1>6, <1>7
    <2>3. CASE g # f
        <3>1. g \in Pending /\ tx'[g] = tx[g]
            BY Zenon, <2>1, <2>3, <1>3, <1>9 DEF Pending
        <3> QED BY Zenon, <3>1 DEF Inv, PendingIsOpen
    <2> QED BY Zenon, <2>2, <2>3
<1>18. OnlyBlocksCommit'
    BY <1>8 DEF Inv, OnlyBlocksCommit
<1>19. AllOrNothing' /\ CommitIsTruthful' /\ DryRunsLeaveNothing'
    BY <1>1 DEF Inv, AllOrNothing, CommitIsTruthful, DryRunsLeaveNothing
<1> QED BY SMTT(60), <1>11, <1>12, <1>13, <1>14, <1>15, <1>16, <1>17, <1>18, <1>19 DEF Inv


----------------------------------------------------------------------------
(* Restarts, and the theorems.                                             *)

\* A COMMIT that is next on a connection belongs to a block, and everything
\* that ran of the block is what it commits.
LEMMA CommitOnItsWay ==
    ASSUME Inv, NEW c \in Conns, pipe[c] # <<>>, Head(pipe[c]).cmd = "commit"
    PROVE  /\ c = conn /\ Loop \in Pending
           /\ \A w \in srv[c].writes : w.tx = tx[Loop] /\ w.flow = Loop
<1>1. c = conn /\ c # NoConn /\ pipe[c] \in Seq(Command)
    BY Zenon, ConnsAssumption DEF Inv, PipesAreOwned, Types
<1>2. PICK f \in Using : TRUE
    BY <1>1 DEF Inv, ConnectionIsUsed
<1>3. \A t : Write(t).cmd = "write"
    BY DEF Write
<1>4. pc[f] = "committing"
    <2>1. CASE pc[f] = "beginning"
        <3> DEFINE first == [cmd |-> "begin", by |-> f]
        <3>1. pipe[c] = <<first>> /\ first.cmd = "begin"
            BY Zenon, <2>1, <1>1, <1>2 DEF Inv, PipesAreOwned
        <3> HIDE DEF first
        <3>2. Head(pipe[c]) = first
            BY <3>1
        <3> QED BY <3>1, <3>2
    <2>2. CASE pc[f] = "open"
        BY Zenon, <2>2, <1>1, <1>2 DEF Inv, PipesAreOwned
    <2>3. CASE pc[f] = "running"
        <3>1. Statements(pipe[c], tx[f])
            BY Zenon, <2>3, <1>1, <1>2 DEF Inv, PipesAreOwned
        <3> QED BY Zenon, <3>1, <1>1, <1>3, TakeWrite
    <2>4. CASE pc[f] = "rollingback"
        <3> DEFINE last == [cmd |-> "rollback", by |-> f]
        <3>1. EndsIn(pipe[c], tx[f], last) /\ last.cmd = "rollback"
            BY Zenon, <2>4, <1>1, <1>2 DEF Inv, PipesAreOwned
        <3> HIDE DEF last
        <3> QED BY Zenon, <3>1, <1>1, <1>3, TakeWrite
    <2> QED BY Zenon, <2>1, <2>2, <2>3, <2>4, <1>2 DEF Using
<1>5. f = Loop /\ f \in Pending
    BY SMTT(60), <1>2, <1>4 DEF Inv, OnlyBlocksCommit, Using, Pending
<1> QED BY Zenon, <1>1, <1>2, <1>5 DEF Inv, SessionsAreOwned

\* Everything in memory is gone, and every session is closed.
LEMMA RestartKeeps ==
    ASSUME Inv, Restart, UNCHANGED <<issued, tx, lastTx, reported>>,
           durable' \in SUBSET Stmt, \A w \in durable' : w.tx <= lastTx,
           AllOrNothing', CommitIsTruthful', DryRunsLeaveNothing'
    PROVE  Inv'
<1>1. \A f \in Flows : pc'[f] = "idle"
    BY DEF Restart
<1>2. Using' = {} /\ Holders' = {} /\ Pending' = {}
    BY <1>1 DEF Using, Holders, Pending
<1>3. Types'
    <2>1. \A c \in Conns : <<>> \in Seq(Command)
        OBVIOUS
    <2>2. pipe' \in [Conns -> Seq(Command)]
        BY <2>1 DEF Restart
    <2>3. srv' \in [Conns -> [open : BOOLEAN, writes : SUBSET Stmt]]
        BY Zenon DEF Restart, Closed
    <2>4. pc' \in [Flows -> Places] /\ queue' \in Seq(Waiter)
        BY DEF Restart, Places
    <2>5. locked' \in BOOLEAN /\ conn' \in Conns \cup {NoConn} /\ epoch' \in Nat
          /\ pool' \in SUBSET Conns /\ runs' \in SUBSET Run
        BY Zenon DEF Restart
    <2> QED BY Zenon, <2>2, <2>3, <2>4, <2>5 DEF Inv, Types
<1>4. LockHasOneHolder' /\ NoConnectionLeak' /\ ConnectionIsUsed'
    BY SMTT(60), <1>2, ConnsAssumption DEF Restart, LockHasOneHolder, NoConnectionLeak, ConnectionIsUsed, Held
<1>5. QueueIsWaiting'
    <2>1. Len(queue') = 0
        BY DEF Restart
    <2> QED BY SMTT(30), Zenon, <2>1 DEF QueueIsWaiting
<1>6. NumbersAreFresh'
    <2>1. runs' = {}
        BY DEF Restart
    <2> QED BY Zenon, <2>1, <1>2 DEF Inv, NumbersAreFresh
<1>7. FenceHolds' /\ PipesAreOwned' /\ SessionsAreOwned' /\ PendingIsOpen'
    BY Zenon, <1>2 DEF Restart, FenceHolds, PipesAreOwned, SessionsAreOwned, PendingIsOpen
<1>8. OnlyBlocksCommit'
    BY <1>1 DEF OnlyBlocksCommit
<1> QED BY SMTT(60), <1>3, <1>4, <1>5, <1>6, <1>7, <1>8 DEF Inv

\* The process dies, and a COMMIT on its way is applied or not.
LEMMA CrashKeeps ==
    ASSUME Inv, Crash
    PROVE  Inv'
<1>1. Restart /\ UNCHANGED <<issued, tx, lastTx, reported>>
    BY DEF Crash
<1>2. CASE UNCHANGED durable
    <2>1. AllOrNothing' /\ CommitIsTruthful' /\ DryRunsLeaveNothing'
        BY SMTT(60), <1>1, <1>2 DEF Inv, AllOrNothing, CommitIsTruthful, DryRunsLeaveNothing
    <2>2. durable' \in SUBSET Stmt /\ \A w \in durable' : w.tx <= lastTx
        BY <1>2 DEF Inv, Types, NumbersAreFresh
    <2> QED BY <1>1, <2>1, <2>2, RestartKeeps
<1>3. CASE \E c \in Conns : /\ pipe[c] # <<>> /\ Head(pipe[c]).cmd = "commit"
                            /\ durable' = durable \cup srv[c].writes
    <2>1. PICK c \in Conns : /\ pipe[c] # <<>> /\ Head(pipe[c]).cmd = "commit"
                             /\ durable' = durable \cup srv[c].writes
        BY Zenon, <1>3
    <2>2. /\ c = conn /\ Loop \in Pending
          /\ \A w \in srv[c].writes : w.tx = tx[Loop] /\ w.flow = Loop
        BY Zenon, <2>1, CommitOnItsWay
    <2>3. \A v \in issued : v.tx = tx[Loop] => v \in srv[c].writes
        BY SMTT(30), Zenon, <2>2 DEF Inv, PendingIsOpen
    <2>4. Loop \in Flows /\ tx[Loop] <= lastTx
        BY Zenon DEF Flows, Inv, NumbersAreFresh
    <2>5. srv[c].writes \in SUBSET Stmt
        BY DEF Inv, Types
    <2>6. durable' \in SUBSET Stmt
        BY <2>1, <2>5 DEF Inv, Types
    <2>7. \A w \in durable' : w.tx <= lastTx
        BY Zenon, <2>1, <2>2, <2>4 DEF Inv, NumbersAreFresh
    <2>8. AllOrNothing'
        BY Zenon, <1>1, <2>1, <2>2, <2>3 DEF Inv, AllOrNothing
    <2>9. CommitIsTruthful' /\ DryRunsLeaveNothing'
        BY SMTT(30), Zenon, <1>1, <2>1, <2>2 DEF Inv, CommitIsTruthful, DryRunsLeaveNothing
    <2> QED BY <1>1, <2>6, <2>7, <2>8, <2>9, RestartKeeps
<1> QED BY SMTT(60), <1>2, <1>3 DEF Crash

\* The invariant holds initially.
LEMMA InitKeeps == Init => Inv
<1> SUFFICES ASSUME Init PROVE Inv
    OBVIOUS
<1>1. \A f \in Flows : pc[f] = "idle" /\ tx[f] = 0
    BY DEF Init
<1>2. Using = {} /\ Holders = {} /\ Pending = {}
    BY <1>1 DEF Using, Holders, Pending
<1>3. Types
    <2>1. \A c \in Conns : <<>> \in Seq(Command)
        OBVIOUS
    <2>2. pipe \in [Conns -> Seq(Command)]
        BY SMTT(60), <2>1 DEF Init
    <2>3. srv \in [Conns -> [open : BOOLEAN, writes : SUBSET Stmt]]
        BY SMTT(30), Zenon DEF Init, Closed
    <2>4. pc \in [Flows -> Places] /\ queue \in Seq(Waiter) /\ tx \in [Flows -> Nat]
        BY DEF Init, Places
    <2>5. /\ locked \in BOOLEAN /\ conn \in Conns \cup {NoConn} /\ epoch \in Nat
          /\ pool \in SUBSET Conns /\ runs \in SUBSET Run
          /\ lastTx \in Nat /\ durable \in SUBSET Stmt /\ issued \in SUBSET Stmt
          /\ reported \in SUBSET Nat
        BY Zenon DEF Init
    <2> QED BY <2>2, <2>3, <2>4, <2>5 DEF Types
<1>4. LockHasOneHolder /\ NoConnectionLeak /\ ConnectionIsUsed
    BY SMTT(60), <1>2, ConnsAssumption DEF Init, LockHasOneHolder, NoConnectionLeak, ConnectionIsUsed, Held
<1>5. QueueIsWaiting
    <2>1. Len(queue) = 0
        BY SMTT(60) DEF Init
    <2> QED BY SMTT(30), Zenon, <2>1 DEF QueueIsWaiting
<1>6. NumbersAreFresh
    BY <1>1, <1>2 DEF Init, NumbersAreFresh
<1>7. FenceHolds /\ PipesAreOwned /\ SessionsAreOwned /\ PendingIsOpen /\ OnlyBlocksCommit
    BY Zenon, <1>1, <1>2 DEF Init, FenceHolds, PipesAreOwned, SessionsAreOwned, PendingIsOpen, OnlyBlocksCommit
<1>8. AllOrNothing /\ CommitIsTruthful /\ DryRunsLeaveNothing
    BY DEF Init, AllOrNothing, CommitIsTruthful, DryRunsLeaveNothing
<1> QED BY <1>3, <1>4, <1>5, <1>6, <1>7, <1>8 DEF Inv

\* The invariant holds in every reachable state, where no step after a
\* block's commit throws.
THEOREM TxFenceInvariant == ~PostCommitFaults => (Spec => []Inv)
<1> SUFFICES ASSUME ~PostCommitFaults PROVE Spec => []Inv
    OBVIOUS
<1>1. Inv /\ [Next]_vars => Inv'
    <2> SUFFICES ASSUME Inv, [Next]_vars PROVE Inv'
        OBVIOUS
    <2>1. CASE UNCHANGED vars
        BY <2>1, ZombieEnds DEF vars, js, server
    <2>2. CASE Next
        <3>1. ASSUME NEW f \in Flows, Acquire(f) PROVE Inv'
            BY <3>1, AcquireKeeps
        <3>2. ASSUME NEW f \in Flows, LockTimeout(f) PROVE Inv'
            BY <3>2, LockTimeoutKeeps
        <3>3. ASSUME NEW f \in Flows, FlowStep(f) PROVE Inv'
            <4>1. ASSUME NEW c \in Conns,
                         Begun(f, c) \/ BeginFails(f, c) \/ RolledBack(f, c)
                         \/ Committed(f, c) \/ CommitFails(f, c)
                  PROVE  Inv'
                BY <4>1, BegunKeeps, BeginFailsKeeps, RolledBackKeeps, CommittedKeeps, CommitFailsKeeps
            <4>2. CASE Connect(f) \/ ConnectFails(f) \/ StartDryRun(f)
                BY <4>2, ConnectKeeps, ConnectFailsKeeps, StartDryRunKeeps
            <4> QED BY <3>3, <4>1, <4>2 DEF FlowStep, Answer
        <3>4. ASSUME NEW f \in Flows, Watchdog(f) PROVE Inv'
            BY <3>4, WatchdogKeeps
        <3>5. ASSUME NEW r \in runs, RunStep(r) PROVE Inv'
            <4>1. ASSUME NEW c \in Conns, Executed(r, c) PROVE Inv'
                BY <4>1, ExecutedKeeps
            <4>2. CASE Query(r) \/ SendStatement(r) \/ RunThrows(r) \/ RunReturns(r)
                BY <4>2, QueryKeeps, SendStatementKeeps, RunThrowsKeeps, RunReturnsKeeps
            <4> QED BY <3>5, <4>1, <4>2 DEF RunStep
        <3>6. CASE AfterCommit
            BY <3>6, AfterCommitKeeps
        <3>7. CASE Crash
            BY <3>7, CrashKeeps
        <3> QED BY <2>2, <3>1, <3>2, <3>3, <3>4, <3>5, <3>6, <3>7 DEF Next
    <2> QED BY <2>1, <2>2
<1> QED BY <1>1, InitKeeps, PTL DEF Spec

\* For any number of flows and connections, watchdogs, failed commits and
\* restarts tear no transaction, no statement runs in a transaction that is
\* not its own, and a commit that was reported is durable.
THEOREM TransactionsAreAtomic == ~PostCommitFaults => (Spec => []TransactionsHold)
<1>1. Inv => TransactionsHold
    <2>1. SUFFICES ASSUME Inv, NEW c \in Conns, NEW v \in srv[c].writes, NEW w \in srv[c].writes
                   PROVE  v.tx = w.tx
        BY Zenon DEF TransactionsHold, NoForeignWrites, Inv
    <2>2. c = conn /\ c # NoConn
        BY SMTT(30), Zenon, <2>1, ConnsAssumption DEF Inv, SessionsAreOwned, Closed
    <2>3. PICK f \in Using : TRUE
        BY <2>2, <2>1 DEF Inv, ConnectionIsUsed
    <2> QED BY SMTT(30), Zenon, <2>1, <2>2, <2>3 DEF Inv, SessionsAreOwned
<1> QED BY <1>1, TxFenceInvariant, PTL

\* A fee quote's dry run never leaves a durable statement.
THEOREM DryRunsAreClean == ~PostCommitFaults => (Spec => []DryRunsLeaveNothing)
<1>1. Inv => DryRunsLeaveNothing
    BY DEF Inv
<1> QED BY <1>1, TxFenceInvariant, PTL

\* No error path of begin, commit and rollback strands the mutex or leaks a
\* connection.
THEOREM NothingLeaks == ~PostCommitFaults => (Spec => []NothingIsHeldBack)
<1>1. Inv => NothingIsHeldBack
    BY DEF Inv, NothingIsHeldBack
<1> QED BY <1>1, TxFenceInvariant, PTL


=============================================================================
