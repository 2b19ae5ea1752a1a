----------------------------- MODULE HubMirror -----------------------------
(***************************************************************************)
(* The hub mirror: the copy of the hub's tables that an indexer keeps in   *)
(* its own database (src/hub/hub_db_sync/).  Two transports feed it.  The  *)
(* socket streams every change from the moment it is subscribed; the REST  *)
(* drain pages each table by wire id.  The block loop reads the copy only  *)
(* behind barriers, which trust a table the drain has certified.           *)
(*                                                                         *)
(* Two tables stand for the two ways a live event meets a running drain:   *)
(* price_snapshots buffers it until the drain is over, oracle_prices (and  *)
(* every other table) applies it at once.  The drain takes oracle_prices   *)
(* first and price_snapshots last.                                         *)
(*                                                                         *)
(* The hub itself is another program.  It is modelled by the changes its   *)
(* rows can undergo, which the comments of mirror_tables.js, row_upserts.js*)
(* and mirror_write.js list.  Every change has a version, its place in     *)
(* `log'; `past' keeps the tables at every version.  The stream position   *)
(* `pos' is the version of the last frame the message chain has handled.   *)
(* One hub is followed throughout; the price bound is not in force; schema *)
(* refusals, signatures and foreign rows are left out.                     *)
(***************************************************************************)
EXTENDS Integers, FiniteSets, Sequences, FiniteSetsExt

CONSTANTS MaxRound,      \* price rounds are 1 .. MaxRound
          MaxChanges,    \* bound on hub changes
          MaxTroubles,   \* bound on sockets lost, failed fetches and writes, forced resyncs
          MaxLag,        \* how far the stream may trail the hub: what the grace covers
          PageLimit,     \* rows per snapshot page
          EventCap       \* PENDING_PRICE_EVENT_CAP

ASSUME MirrorAssumption ==
    /\ {MaxRound, MaxLag, PageLimit} \subseteq Nat \ {0}
    /\ {MaxChanges, MaxTroubles, EventCap} \subseteq Nat

P == "price_snapshots"
O == "oracle_prices"
Tables == {P, O}
Keys(t) == IF t = P THEN 1 .. MaxRound ELSE {1}

NoRow == [st |-> "none", gen |-> 0]

VARIABLES
    hub,        \* [table -> [key -> row]], what the hub holds
    ids,        \* [table -> [key -> wire id]]
    gen,        \* the source chain's rollback generation
    log,        \* the changes the hub has streamed
    past,       \* past[v + 1]: the hub's tables after v changes
    conn,       \* the socket is open and subscribed
    pos,        \* version of the last frame handled on this connection
    local,      \* [table -> [key -> row]], the mirror
    position,   \* _drainPositions
    owed,       \* _repageOwed
    ceiling,    \* _readyMaxIds
    drain,      \* the drain under way
    allOk,      \* every table so far of this bootstrap drained
    due,        \* a bootstrap that is due: "no", "retry" or "now"
    certified,  \* _tableDrainEpochs[t] = _wsEpoch
    wm,         \* _tableWatermarks
    bootDrained, priceDrained,
    buffer, overflow,          \* _pendingPriceEvents, _pendingPriceOverflow
    applyFailure,              \* _applyFailureSeen
    height,                    \* priceSyncHeight
    troubles,   \* how often the environment has interfered
    tainted     \* history: this connection's price table was drained without a
                \* socket, or again after its live rows were let through

hubVars  == <<hub, ids, gen, log, past>>
connVars == <<conn, pos, ceiling>>
drainVars == <<drain, allOk, position>>
gateVars == <<certified, wm, bootDrained, applyFailure>>
priceVars == <<priceDrained, buffer, overflow, height, tainted>>
vars == <<hubVars, connVars, drainVars, gateVars, priceVars, local, owed, due, troubles>>

Now == Len(log)
Trouble == troubles < MaxTroubles /\ troubles' = troubles + 1
NoDrain == [on |-> FALSE]

-----------------------------------------------------------------------------
(* The hub.                                                                *)

Finalized(r) == r.st = "finalized"

Publish(table, e) ==
    IF e.op = "row" THEN [table EXCEPT ![e.k] = e.row]
    ELSE [k \in DOMAIN table |->
            IF k >= e.k /\ table[k].gen <= e.row.gen THEN NoRow ELSE table[k]]

HubChange(e, newIds) ==
    /\ Now < MaxChanges
    /\ conn => Now - pos < MaxLag
    /\ log' = Append(log, e)
    /\ hub' = [hub EXCEPT ![e.t] = Publish(@, e)]
    /\ past' = Append(past, hub')
    /\ ids' = newIds
    /\ UNCHANGED <<connVars, drainVars, gateVars, priceVars, local, owed, due, troubles>>

NewId(t) == Max({ids[t][k] : k \in Keys(t)}) + 1

\* A new row, or a row published again after its chain rolled back.  An upsert
\* keeps the id of the row it replaces; a row inserted again gets a new one.
\* One rollback is enough for a fence to matter: gen is 0 before it and 1 after.
HubInsert(t, k, st) ==
    /\ gen' \in gen .. 1
    /\ hub[t][k] = NoRow \/ hub[t][k].gen < gen'
    /\ t = P => \A j \in Keys(P) : j > k => hub[P][j] = NoRow
    /\ HubChange([t |-> t, op |-> "row", k |-> k, row |-> [st |-> st, gen |-> gen']],
                 IF hub[t][k] = NoRow THEN [ids EXCEPT ![t][k] = NewId(t)] ELSE ids)

\* skipped -> finalized, and finalized -> disputed: changes in place.
HubAmend(k, st) ==
    /\ <<hub[P][k].st, st>> \in {<<"skipped", "finalized">>, <<"finalized", "disputed">>}
    /\ UNCHANGED gen
    /\ HubChange([t |-> P, op |-> "row", k |-> k, row |-> [hub[P][k] EXCEPT !.st = st]], ids)

\* The deletion a rollback makes the hub send, fenced by the generation before it.
HubRetract(t, k) ==
    /\ gen' = 1
    /\ \E j \in Keys(t) : j >= k /\ hub[t][j] # NoRow /\ hub[t][j].gen < gen'
    /\ HubChange([t |-> t, op |-> "del", k |-> k, row |-> [st |-> "none", gen |-> gen' - 1]], ids)

-----------------------------------------------------------------------------
(* Writes to the mirror.                                                   *)

\* Mutant: an incoming row always wins.
TakesAny(t, old, row) == TRUE

\* priceUpsertSql and oraclePriceUpsertSql.
Takes(t, old, row) ==
    \/ old = NoRow
    \/ t = P /\ row.st # "skipped"
    \/ t = O /\ row.gen >= old.gen

Upsert(t, old, row) == IF Takes(t, old, row) THEN row ELSE old

\* handleInsertedRowEvent / handleDeletedRowEvent, and the same two for a replay.
Apply(table, e) ==
    IF e.op = "row" THEN [table EXCEPT ![e.k] = Upsert(e.t, @, e.row)]
    ELSE Publish(table, e)

\* The price table after the buffered events, in arrival order.
Replay(table, events) ==
    LET after[i \in 0 .. Len(events)] ==
            IF i = 0 THEN table ELSE Apply(after[i - 1], events[i])
    IN  after[Len(events)]

\* refreshPriceSyncHeight: the newest finalized round.
HeightOf(table) == Max({0} \cup {k \in Keys(P) : Finalized(table[k])})

-----------------------------------------------------------------------------
(* The socket.                                                             *)

\* resetOnSocketClose, and with it every certificate given under the old epoch.
ResetConnection ==
    /\ conn' = FALSE
    /\ certified' = [t \in Tables |-> FALSE]
    /\ wm' = [t \in Tables |-> 0]
    /\ bootDrained' = FALSE
    /\ priceDrained' = FALSE
    /\ buffer' = <<>>
    /\ overflow' = FALSE
    /\ tainted' = FALSE
    /\ drain' = IF drain.on THEN [drain EXCEPT !.live = FALSE] ELSE drain

\* The 'close' event, of an open socket or of an attempt that failed.
Close ==
    /\ Trouble
    /\ ResetConnection
    /\ UNCHANGED <<hubVars, pos, ceiling, allOk, position, applyFailure, height, local, owed,
                   due>>

\* markRepageOwed: a drain opened before the mark cannot settle it.
MarkOwed == owed' = [t \in Tables |-> TRUE]
DrainUnmarked == IF drain.on THEN [drain EXCEPT !.under = FALSE] ELSE drain

\* adoptReadyFrame, the refresh of every height, and the bootstrap that follows
\* (which finds the previous one still running, if it is).
Connect ==
    /\ ~conn
    /\ conn' = TRUE
    /\ pos' = Now
    /\ ceiling' = [t \in Tables |-> Max({ids[t][k] : k \in {j \in Keys(t) : hub[t][j] # NoRow}}
                                        \cup {0})]
    /\ MarkOwed
    /\ drain' = DrainUnmarked
    /\ height' = HeightOf(local[P])
    /\ due' = IF drain.on THEN due ELSE "now"
    /\ UNCHANGED <<hubVars, allOk, position, gateVars, priceDrained, buffer, overflow,
                   tainted, local, troubles>>

\* driveResync: from the stall detector when a latch freezes the watermark, or
\* from the block loop's hold ceiling while no socket is open.
Resync ==
    /\ ~drain.on /\ due = "no"
    /\ position' = [t \in Tables |-> 0]
    /\ MarkOwed
    /\ \/ /\ conn /\ applyFailure
          /\ ResetConnection
          /\ UNCHANGED <<due, troubles>>
       \/ /\ ~conn /\ Trouble
          /\ due' = "now"
          /\ UNCHANGED <<conn, certified, wm, bootDrained, priceDrained, buffer, overflow,
                         tainted, drain>>
    /\ UNCHANGED <<hubVars, pos, ceiling, allOk, applyFailure, height, local>>

\* One row event through the message chain: buffered, applied or failed.
BufferEvent(e) ==
    /\ IF overflow THEN UNCHANGED <<buffer, overflow>>
       ELSE IF Len(buffer) >= EventCap THEN buffer' = <<>> /\ overflow' = TRUE
       ELSE buffer' = Append(buffer, e) /\ UNCHANGED overflow
    /\ UNCHANGED <<local, height, applyFailure, troubles, drain>>

\* A deletion gives the key's next row a new local id, above the mark of a
\* running drain; an upsert in place keeps the old one.
LiveApply(e) ==
    /\ local' = [local EXCEPT ![e.t] = Apply(@, e)]
    /\ height' = IF e.t = P THEN HeightOf(local'[P]) ELSE height
    /\ drain' = IF drain.on /\ drain.t = e.t
                THEN [drain EXCEPT !.pre = {k \in @ : local'[e.t][k] # NoRow}] ELSE drain
    /\ UNCHANGED <<buffer, overflow, applyFailure, troubles>>

LiveApplyFails ==
    /\ Trouble
    /\ applyFailure' = TRUE
    /\ UNCHANGED <<buffer, overflow, local, height, drain>>

HandleRowEvent(e) ==
    IF e.t = P /\ ~priceDrained THEN BufferEvent(e) ELSE LiveApply(e) \/ LiveApplyFails

\* handleWatermarkFrame: every frame up to version p has been handled.
AdvanceWatermarks(p) ==
    wm' = [t \in Tables |-> IF conn /\ ~applyFailure' /\ certified[t] /\ p > wm[t] THEN p
                            ELSE wm[t]]

\* The hub's heartbeat follows every change: the watermark is as bold as it can be.
Deliver ==
    /\ conn /\ pos < Now
    /\ pos' = pos + 1
    /\ HandleRowEvent(log[pos + 1])
    /\ AdvanceWatermarks(pos')
    /\ UNCHANGED <<hubVars, conn, ceiling, allOk, position, certified, bootDrained,
                   priceDrained, tainted, owed, due>>

-----------------------------------------------------------------------------
(* The drain.                                                              *)

\* openTableDrain: the cursor, and what the passes after the last page need.
OpenDrain(t) ==
    LET since == IF owed[t] THEN 0 ELSE position[t] IN
    [on |-> TRUE, t |-> t, since |-> since, full |-> since = 0, under |-> owed[t],
     pre |-> {k \in Keys(t) : t = O /\ local[t][k] # NoRow}, served |-> {}, pending |-> <<>>,
     last |-> FALSE, caughtUp |-> FALSE, mark |-> 0, live |-> TRUE, judged |-> FALSE]

Open(t) ==
    /\ drain' = OpenDrain(t)
    /\ position' = [position EXCEPT ![t] = OpenDrain(t).since]
    /\ tainted' = (tainted \/ (t = P /\ (priceDrained \/ ~conn)))

\* bootstrapAll: a retry gives way to a bootstrap that has drained meanwhile.
StartBootstrap ==
    /\ due # "no" /\ ~drain.on
    /\ due' = "no"
    /\ IF due = "retry" /\ bootDrained
       THEN UNCHANGED <<drain, position, tainted, allOk>>
       ELSE Open(O) /\ allOk' = TRUE
    /\ UNCHANGED <<hubVars, connVars, gateVars, priceDrained, buffer, overflow, height, local,
                   owed, troubles>>

\* The rows of a table above a wire id, in id order: one snapshot page.
PageRows(t, since) ==
    LET after == {k \in Keys(t) : hub[t][k] # NoRow /\ ids[t][k] > since}
        first == {k \in after : Cardinality({j \in after : ids[t][j] < ids[t][k]}) < PageLimit}
        rank(k) == Cardinality({j \in first : ids[t][j] < ids[t][k]}) + 1
    IN  [i \in 1 .. Cardinality(first) |->
            LET k == CHOOSE k \in first : rank(k) = i
            IN  [k |-> k, id |-> ids[t][k], row |-> hub[t][k]]]

\* pageTableDrain until a short page, then catchUpToReadyCeiling.
FetchPage ==
    LET t == drain.t
        rows == PageRows(t, drain.since)
        catchUp == drain.last
    IN  /\ drain.on /\ drain.live /\ drain.pending = <<>> /\ ~drain.judged
        /\ drain.last => position[t] < ceiling[t] /\ ~drain.caughtUp
        /\ drain' = [drain EXCEPT !.pending = rows,
                                  !.last = catchUp \/ Len(rows) < PageLimit,
                                  !.caughtUp = catchUp,
                                  !.mark = IF catchUp THEN @ ELSE Now]
        /\ UNCHANGED <<hubVars, connVars, allOk, position, gateVars, priceVars, local, owed, due,
                       troubles>>


\* applyPendingRow: the page goes on to its end even after the socket is lost.
ApplyPendingRow ==
    LET t == drain.t
        head == Head(drain.pending)
    IN  /\ drain.on /\ drain.pending # <<>>
        /\ local' = [local EXCEPT ![t][head.k] = Upsert(t, @, head.row)]
        /\ position' = [position EXCEPT ![t] = head.id]
        /\ drain' = [drain EXCEPT
              !.pending = Tail(@), !.since = head.id,
              !.served = IF t = P /\ ~Finalized(head.row) THEN @ ELSE @ \cup {head.k}]
        /\ UNCHANGED <<hubVars, connVars, allOk, gateVars, priceVars, owed, due, troubles>>

Drained(t) == drain.on /\ drain.t = t /\ drain.live /\ drain.last /\ drain.pending = <<>>
              /\ (position[t] < ceiling[t] => drain.caughtUp)

Judged(t) == drain.on /\ drain.t = t /\ drain.live /\ drain.judged

\* reconcileForeignPriceRounds and reconcileRetractedOracleRows: after a
\* complete page from zero, the rows it did not serve go.
Unserved(t) ==
    LET held == {k \in Keys(t) : local[t][k] # NoRow /\ (t = P => Finalized(local[t][k]))}
        gone == {k \in held : k \notin drain.served /\ (t = O => k \in drain.pre)}
        mistrusted == drain.served # {} /\ held # {} /\ held \cap drain.served = {}
    IN  IF drain.full /\ ~mistrusted THEN gone ELSE {}


Reconcile(t) ==
    /\ Drained(t) /\ ~drain.judged
    /\ local' = [local EXCEPT ![t] = [k \in Keys(t) |-> IF k \in Unserved(t) THEN NoRow ELSE @[k]]]
    /\ height' = IF t = P /\ Unserved(P) # {} THEN HeightOf(local'[P]) ELSE height
    /\ drain' = [drain EXCEPT !.judged = TRUE, !.served = {}, !.pre = {}]
    /\ UNCHANGED <<hubVars, connVars, allOk, position, gateVars, priceDrained, buffer, overflow,
                   tainted, owed, due, troubles>>

\* Mutant: the re-page stays owed after it has run.
CertifyKeepsOwed(t) ==
    /\ certified' = [certified EXCEPT ![t] = TRUE]
    /\ wm' = [wm EXCEPT ![t] = drain.mark]
    /\ UNCHANGED owed

\* certifyTableDrain, and the owed mark it was opened under.
Certify(t) ==
    /\ certified' = [certified EXCEPT ![t] = TRUE]
    /\ wm' = [wm EXCEPT ![t] = drain.mark]
    /\ owed' = [owed EXCEPT ![t] = @ /\ ~(drain.full /\ drain.under)]

\* What closes the bootstrap: certifyFullDrain, or a retry.
EndBootstrap(ok) ==
    IF ok /\ \A t \in Tables : ~owed'[t]
    THEN bootDrained' = TRUE /\ applyFailure' = FALSE /\ UNCHANGED due
    ELSE due' = "retry" /\ UNCHANGED <<bootDrained, applyFailure>>

FinishOracle ==
    /\ Judged(O)
    /\ Certify(O)
    /\ Open(P)
    /\ UNCHANGED <<hubVars, connVars, allOk, bootDrained, applyFailure, priceDrained, buffer,
                   overflow, height, local, due, troubles>>

\* replayDrainedPriceEvents, refreshPriceSyncHeight and the certificate.
FinishPrice ==
    /\ Judged(P)
    /\ drain' = NoDrain
    /\ UNCHANGED <<hubVars, connVars, position, tainted, allOk>>
    /\ \/ /\ overflow
          /\ overflow' = FALSE /\ buffer' = <<>>
          /\ UNCHANGED <<certified, wm, owed, priceDrained, height, local, troubles>>
          /\ EndBootstrap(FALSE)
       \/ /\ ~overflow
          /\ local' = [local EXCEPT ![P] = Replay(@, buffer)]
          /\ buffer' = <<>>
          /\ priceDrained' = TRUE
          /\ height' = HeightOf(local'[P])
          /\ Certify(P)
          /\ EndBootstrap(allOk)
          /\ UNCHANGED <<overflow, troubles>>
       \/ /\ ~overflow /\ Trouble               \* the write of event n + 1 fails
          /\ \E n \in 0 .. Len(buffer) - 1 :
                /\ local' = [local EXCEPT ![P] = Replay(@, SubSeq(buffer, 1, n))]
                /\ buffer' = SubSeq(buffer, n + 1, Len(buffer))
          /\ applyFailure' = TRUE
          /\ due' = "retry"
          /\ UNCHANGED <<certified, wm, owed, priceDrained, height, overflow, bootDrained>>

\* A fetch that throws, a page refused or a row that cannot be written: the
\* table is not drained, and the bootstrap goes on to the next one.
FailTable ==
    /\ drain.on /\ drain.live /\ ~drain.judged
    /\ Trouble
    /\ \/ /\ drain.t = O
          /\ Open(P) /\ allOk' = FALSE
          /\ UNCHANGED <<due>>
       \/ /\ drain.t = P
          /\ drain' = NoDrain /\ due' = "retry"
          /\ UNCHANGED <<position, tainted, allOk>>
    /\ UNCHANGED <<hubVars, connVars, gateVars, priceDrained, buffer, overflow, height, local,
                   owed>>

\* The connection changed under the drain: every check of it ends the bootstrap.
AbandonDrain ==
    /\ drain.on /\ ~drain.live /\ drain.pending = <<>>
    /\ drain' = NoDrain
    /\ due' = IF due = "now" THEN due ELSE "retry"
    /\ UNCHANGED <<hubVars, connVars, allOk, position, gateVars, priceVars, local, owed, troubles>>

-----------------------------------------------------------------------------

\* One hub round is final when the indexer starts; its mirror may be empty or
\* hold what an earlier process left there.
Init ==
    /\ hub = [t \in Tables |-> [k \in Keys(t) |->
                IF k = 1 THEN [st |-> "finalized", gen |-> 0] ELSE NoRow]]
    /\ ids = [t \in Tables |-> [k \in Keys(t) |-> IF k = 1 THEN 1 ELSE 0]]
    /\ gen = 0 /\ log = <<>> /\ past = <<hub>>
    /\ conn = FALSE /\ pos = 0 /\ troubles = 0
    /\ ceiling = [t \in Tables |-> 0]
    /\ local \in {[t \in Tables |-> [k \in Keys(t) |->
                      IF k \in left THEN [st |-> "finalized", gen |-> 0] ELSE NoRow]] :
                    left \in {{}, {MaxRound}}}
    /\ position = [t \in Tables |-> 0]
    /\ owed = [t \in Tables |-> FALSE]
    /\ drain = NoDrain /\ allOk = TRUE /\ due = "no"
    /\ certified = [t \in Tables |-> FALSE]
    /\ wm = [t \in Tables |-> 0]
    /\ bootDrained = FALSE /\ priceDrained = FALSE
    /\ buffer = <<>> /\ overflow = FALSE /\ applyFailure = FALSE
    /\ height = HeightOf(local[P])
    /\ tainted = FALSE

HubStep ==
    \/ \E t \in Tables : \E k \in Keys(t), st \in {"skipped", "finalized"} :
          (t = O => st = "finalized") /\ HubInsert(t, k, st)
    \/ \E k \in Keys(P), st \in {"finalized", "disputed"} : HubAmend(k, st)
    \/ \E t \in Tables : \E k \in Keys(t) : HubRetract(t, k)

MirrorStep ==
    \/ Deliver
    \/ StartBootstrap \/ FetchPage \/ ApplyPendingRow
    \/ (\E t \in Tables : Reconcile(t)) \/ FinishOracle \/ FinishPrice \/ AbandonDrain

Next == HubStep \/ MirrorStep \/ Close \/ Connect \/ Resync \/ FailTable

\* The timers and promises of the mirror all run; the hub, the socket's loss and
\* the failures owe nothing.  The reconnect timer and the stall detector fire.
Fairness ==
    /\ WF_vars(MirrorStep)
    /\ WF_vars(Connect)
    /\ WF_vars(Resync /\ conn)

Spec == Init /\ [][Next]_vars
LiveSpec == Spec /\ Fairness

-----------------------------------------------------------------------------

\* What the hub held of a key at every version from v on.
HeldSince(t, k, v) == {past[i + 1][t][k] : i \in v .. Now}

\* priceSyncSatisfied, its first case: a finalized round at or past the block.
HeightBarrierOpen(h) == certified[P] /\ ~applyFailure /\ height >= h

\* A round the hub has held as final since the stream position, missing here.
Missing(k) ==
    /\ \A r \in HeldSince(P, k, pos) : Finalized(r)
    /\ ~Finalized(local[P][k])

\* (transport.js, watermark_state.js) "An epoch from a closed socket never
\* certifies the replacement connection", and live price rows wait for this
\* connection's drain: whenever the height barrier is open for a block, every
\* round at or below it that the hub holds is in the mirror.
NoHoleUnderHeight ==
    \A h \in 1 .. MaxRound : conn /\ HeightBarrierOpen(h) => \A k \in 1 .. h : ~Missing(k)



\* The generation fence of oraclePriceUpsertSql: a page fetched before a row was
\* published again can land after the live row, and must not take it back.
GenerationsNeverFall ==
    [][\A k \in Keys(O) :
          local[O][k] # NoRow /\ local'[O][k] # NoRow => local'[O][k].gen >= local[O][k].gen]_vars

\* Once the hub, the socket and the database settle, the mirror certifies every
\* table and stays certified: no latch, owed re-page, overflow or abandoned
\* drain leaves the barriers shut for good.
MirrorCertifies == <>[](conn /\ bootDrained /\ ~applyFailure /\ \A t \in Tables : certified[t])

=============================================================================
