-------------------------------- MODULE Polls --------------------------------
(***************************************************************************)
(* Token-weighted polls: VOTE v0 (create), v1 (ballot), v3 (delegate), the *)
(* VOTE v2 the per-block sweep injects when a poll closes or is decided    *)
(* early, the escrow a poll releases, the contract callback it fires, and  *)
(* what a reorganisation does to all of them (actions/vote,                *)
(* utility/vote_passes.js, db/polls, db/votes, db/rollback).               *)
(*                                                                         *)
(* A poll armed for an early decision is tallied at every block, unless a  *)
(* fingerprint of its input rows says that nothing changed since the last  *)
(* tally.  The fingerprints live in the memory of the process: no          *)
(* transaction undoes them.  The database is one record of tables, and a   *)
(* block is a function on it, so that the tables of a node can be compared *)
(* with those of a node that processes the same chain from the start.      *)
(***************************************************************************)
EXTENDS Integers, Sequences, FiniteSets, FiniteSetsExt, SequencesExt

CONSTANTS
    Voters,      \* addresses, holders of TICK and of GAS
    Holding,     \* TICK held by each of them before the first block
    GasHolding,  \* GAS held by each of them
    Treasury,    \* ADDRESS.DONATE1
    Options,     \* the option indexes, 0..n
    Definitions, \* the polls a user may create
    Selections,  \* the ballots a user may cast, from options to shares
    ExactFrom,   \* VOTE_SETTLEMENT_EXACT_ACTIVATION
    Replaces,    \* whether the chain may replace a block the node failed to commit
    MaxHeight,   \* bound: the last block
    MaxPolls,    \* bound: polls on the chain
    MaxFaults    \* bound: failed attempts, rollbacks and restarts together

ASSUME PollsAssumption ==
    /\ Holding \in [Voters -> Nat] /\ GasHolding \in [Voters -> Nat]
    /\ Treasury \notin Voters /\ 0 \notin Voters
    /\ Options \subseteq Nat /\ ExactFrom \in Nat /\ Replaces \in BOOLEAN
    /\ MaxHeight \in Nat /\ MaxPolls \in Nat /\ MaxFaults \in Nat

VARIABLES
    db,      \* the committed tables
    memo,    \* _pollTallyWatermark: the fingerprint each poll was last tallied at
    chain,   \* the user action of every committed block, in order
    failed,  \* <<the block whose last attempt was undone>>, or <<>>
    faults   \* failed attempts, rollbacks and restarts so far

vars == <<db, memo, chain, failed, faults>>

None == 0
Quiet == [kind |-> "none"]      \* a block without a VOTE or a transfer of TICK
height == Len(chain)

Sum(f(_), S) == MapThenSumSet(f, S)
MaxOf(S) == IF S = {} THEN 0 ELSE Max(S)
RoundDiv(n, d) == (2 * n + d) \div (2 * d)

-----------------------------------------------------------------------------
(* The tables.  The position of an action in d.actions is its action_index *)
(* and its value the block_index; every other row carries an action_index. *)

EmptyTables ==
    [actions |-> <<>>, polls |-> {}, votes |-> {}, delegations |-> {},
     moves |-> {}, gas |-> {}, executes |-> {}]

\* getNextActionIndex and createActionIndex.
NextIndex(d) == Len(d.actions) + 1
Numbered(d, b) == [d EXCEPT !.actions = Append(@, b)]

UpTo(d, rows, b) == {r \in rows : d.actions[r.idx] <= b}

BalanceAt(d, a, b) ==
    Holding[a] + Sum(LAMBDA r : r.amount, {r \in UpTo(d, d.moves, b) : r.to = a})
               - Sum(LAMBDA r : r.amount, {r \in UpTo(d, d.moves, b) : r.from = a})

GasLeg(d, leg, a) ==
    Sum(LAMBDA r : r.amount, {r \in d.gas : r.leg = leg /\ r.address = a})
GasEscrow(d, a) == GasLeg(d, "escrow", a)
GasOf(d, a) ==
    (IF a \in Voters THEN GasHolding[a] ELSE 0) + GasLeg(d, "credit", a) - GasLeg(d, "debit", a)

GasRow(i, leg, a, n) == [idx |-> i, leg |-> leg, address |-> a, amount |-> n]

\* The result columns of an open poll.
NoResult == [total |-> [o \in Options |-> 0], turnout |-> 0, headcount |-> 0, winner |-> None]

PollAt(d, i) == CHOOSE p \in d.polls : p.idx = i
Updated(d, p) == [d EXCEPT !.polls = {q \in @ : q.idx # p.idx} \cup {p}]

-----------------------------------------------------------------------------
(* The tally (db/votes/poll_tally.js).                                     *)

Exact(b) == b >= ExactFrom

\* Average holdings over [s, e], from the balance at the end of each block.
TimeWeighted(d, a, s, e) ==
    IF e <= s THEN BalanceAt(d, a, s)
    ELSE RoundDiv(Sum(LAMBDA b : BalanceAt(d, a, b), s .. e - 1), e - s)

FloorSqrt(n) == CHOOSE r \in 0 .. n : r * r <= n /\ (r + 1) * (r + 1) > n

WeightFor(d, p, a, b) ==
    CASE p.def.weight = "flat" -> 1
      [] p.def.weight = "quadratic" -> FloorSqrt(BalanceAt(d, a, b))
      [] p.def.weight = "time_weighted" -> TimeWeighted(d, a, d.actions[p.idx], b)
      [] OTHER -> BalanceAt(d, a, b)

Ballots(d, p) == {v \in d.votes : v.poll = p.idx}
Voted(d, p) == {v.voter : v \in Ballots(d, p)}
CurrentBallot(d, p, a) ==
    (CHOOSE v \in Ballots(d, p) : v.voter = a
        /\ \A w \in Ballots(d, p) : w.voter = a => w.idx <= v.idx).picks

\* getActiveDelegations: the latest row of each delegator, None when it is a clear.
DelegateAt(d, a, b) ==
    LET rows == {r \in UpTo(d, d.delegations, b) : r.from = a}
    IN  IF rows = {} THEN None
        ELSE (CHOOSE r \in rows : \A q \in rows : q.idx <= r.idx).to

DelegatedInbound(d, p, a, b) ==
    Sum(LAMBDA g : WeightFor(d, p, g, b),
        {g \in Voters \ Voted(d, p) : DelegateAt(d, g, b) = a /\ BalanceAt(d, g, b) > 0})

\* The portions of a split ballot: each rounded half up on its own, or from the
\* activation floored, with the remainder on the largest share, lowest option.
HalfUpPortion(w, picks, o) ==
    RoundDiv(w * picks[o], Sum(LAMBDA c : picks[c], DOMAIN picks))

ExactPortion(w, picks, o) ==
    LET shares == Sum(LAMBDA c : picks[c], DOMAIN picks)
        floor(c) == (w * picks[c]) \div shares
        largest == Max({picks[c] : c \in DOMAIN picks})
        top == Min({c \in DOMAIN picks : picks[c] = largest})
    IN  floor(o) + IF o = top THEN w - Sum(floor, DOMAIN picks) ELSE 0

Portion(p, w, picks, o, b) ==
    CASE o \notin DOMAIN picks -> 0
      [] p.def.tally = "approval" -> w
      [] OTHER -> IF Exact(b) THEN ExactPortion(w, picks, o) ELSE HalfUpPortion(w, picks, o)

\* countBallots: the weight behind each address whose ballot counts.
BallotWeights(d, p, b) ==
    [a \in {v \in Voted(d, p) : BalanceAt(d, v, b) > 0} |->
        WeightFor(d, p, a, b) + DelegatedInbound(d, p, a, b)]

CountBallots(d, p, b, weights) ==
    [total |-> [o \in Options |->
        Sum(LAMBDA a : Portion(p, weights[a], CurrentBallot(d, p, a), o, b), DOMAIN weights)],
     turnout |-> Sum(LAMBDA a : weights[a], DOMAIN weights),
     headcount |-> Cardinality({a \in DOMAIN weights : BalanceAt(d, a, b) >= p.def.minBalance})]

\* decideOutcome.  Fractions of the supply are compared as percentages, and 0
\* stands for a threshold not set.
DecideOutcome(p, supply, count) ==
    LET leader == Max({count.total[o] : o \in Options})
    IN  [total |-> count.total, turnout |-> count.turnout, headcount |-> count.headcount,
         leader |-> leader, supply |-> supply,
         winner |-> IF leader = 0 THEN None
                    ELSE 1 + Min({o \in Options : count.total[o] = leader}),
         valid |-> /\ count.turnout * 100 >= p.def.quorum * supply
                   /\ p.def.quorum > 0 => supply > 0
                   /\ count.headcount >= p.def.minVoters]

\* getPollTally at block m.
PollTally(d, p, m) ==
    LET b == Min({m, p.end})
    IN  DecideOutcome(p, Sum(LAMBDA a : BalanceAt(d, a, b), Voters),
                      CountBallots(d, p, b, BallotWeights(d, p, b)))

-----------------------------------------------------------------------------
(* The user actions of a block.  A refused action only takes its index.    *)

\* The rules of a binding poll: its turnout floors and the funds for its escrow.
CallbackValid(d, t) ==
    t.def.callback # "none" =>
        /\ t.def.quorum > 0 /\ t.def.minVoters >= 1
        /\ GasOf(d, t.source) >= t.def.deposit + t.def.gas

CreateValid(d, t, b) ==
    /\ BalanceAt(d, t.source, b) > 0
    /\ t.def.weight = "quadratic" => t.def.minBalance > 0
    /\ GasOf(d, t.source) >= t.def.deposit
    /\ CallbackValid(d, t)

\* createPoll.
PollRow(t, i, b) ==
    [idx |-> i, def |-> t.def, creator |-> t.source, end |-> b + t.def.term,
     status |-> "open", result |-> NoResult, early |-> FALSE, close |-> None,
     finalized |-> None, resolved |-> None, settled |-> "null",
     due |-> None, execute |-> None]

\* settleCreatePoll: DEPOSIT and GAS_ESCROW are locked in one escrow row.
SettleCreatePoll(d, t, b) ==
    LET i == NextIndex(d)
        lock == t.def.deposit + t.def.gas
    IN  [Numbered(d, b) EXCEPT
            !.polls = @ \cup {PollRow(t, i, b)},
            !.gas = @ \cup (IF lock = 0 THEN {} ELSE
                        {GasRow(i, "debit", t.source, lock), GasRow(i, "escrow", t.source, lock)})]

\* VOTE v0.
ParseCreate(d, t, b) ==
    IF CreateValid(d, t, b) THEN SettleCreatePoll(d, t, b) ELSE Numbered(d, b)

BallotValid(d, t, b) ==
    /\ b <= PollAt(d, t.poll).end
    /\ Exact(b) => PollAt(d, t.poll).status = "open"
    /\ BalanceAt(d, t.source, b) > 0
    /\ Cardinality(DOMAIN t.picks) <= PollAt(d, t.poll).def.picks

\* VOTE v1: a ballot is added, the earlier ones stay for a reorganisation.
ParseBallot(d, t, b) ==
    IF BallotValid(d, t, b)
    THEN [Numbered(d, b) EXCEPT !.votes =
            @ \cup {[idx |-> NextIndex(d), poll |-> t.poll, voter |-> t.source, picks |-> t.picks]}]
    ELSE Numbered(d, b)

\* VOTE v3: set a delegation, or clear it with None.
ParseDelegate(d, t, b) ==
    IF t.to # t.source
    THEN [Numbered(d, b) EXCEPT !.delegations =
            @ \cup {[idx |-> NextIndex(d), from |-> t.source, to |-> t.to]}]
    ELSE Numbered(d, b)

\* A transfer of one unit of TICK, whichever action makes it.
Transfer(d, t, b) ==
    IF BalanceAt(d, t.source, b) >= 1
    THEN [Numbered(d, b) EXCEPT !.moves =
            @ \cup {[idx |-> NextIndex(d), from |-> t.source, to |-> t.to, amount |-> 1]}]
    ELSE Numbered(d, b)

UserAction(d, t, b) ==
    CASE t.kind = "create"   -> ParseCreate(d, t, b)
      [] t.kind = "ballot"   -> ParseBallot(d, t, b)
      [] t.kind = "delegate" -> ParseDelegate(d, t, b)
      [] t.kind = "transfer" -> Transfer(d, t, b)
      [] OTHER -> d

-----------------------------------------------------------------------------
(* VOTE v2, injected by the sweep.                                         *)

\* settleDeposit: release the hold of v0; a poll that failed its gates forfeits
\* the deposit, and the gas escrow always returns to the creator.
SettleDeposit(d, p, i) ==
    LET held == p.def.deposit + p.def.gas
        refunded == p.status # "failed_quorum"
        target == IF refunded THEN p.creator ELSE Treasury
        \* two credits to one address in one action are one row here
        credits == IF target = p.creator
                   THEN {GasRow(i, "credit", p.creator, held)}
                   ELSE {GasRow(i, "credit", target, p.def.deposit),
                         GasRow(i, "credit", p.creator, p.def.gas)}
    IN  IF held = 0 \/ p.settled # "null" THEN d
        ELSE [Updated(d, [p EXCEPT !.settled = IF refunded THEN "refunded" ELSE "forfeited"])
                EXCEPT !.gas = @ \cup {GasRow(i, "escrow", p.creator, -held)} \cup credits]

\* injectCallbackExecute: the EXECUTE takes an index; a contract that throws
\* leaves nothing else, and the result of the poll stands.
InjectCallbackExecute(d, p, b) ==
    IF p.def.throws THEN Numbered(d, b)
    ELSE [Updated(Numbered(d, b), [p EXCEPT !.execute = NextIndex(d)])
            EXCEPT !.executes = @ \cup {[idx |-> NextIndex(d), poll |-> p.idx]}]

CallbackGate(p) ==
    \/ p.def.callback = "always"
    \/ p.def.callback = "pass" /\ p.status = "finalized" /\ p.result.winner # None

FireBindingCallback(d, p, b) ==
    IF ~CallbackGate(p) THEN d
    ELSE IF p.def.delay > 0 THEN Updated(d, [p EXCEPT !.due = b + p.def.delay])
         ELSE InjectCallbackExecute(d, p, b)

\* finalizePoll: the row as VOTE v2 with action_index n freezes it.
FinalizePoll(p, tally, close, early, n, b) ==
    [p EXCEPT
        !.status = IF tally.valid THEN "finalized" ELSE "failed_quorum",
        !.result = [total |-> tally.total, turnout |-> tally.turnout,
                    headcount |-> tally.headcount,
                    winner |-> IF tally.valid THEN tally.winner ELSE None],
        !.early = early, !.close = close, !.finalized = n, !.resolved = b]

\* The effects of VOTE v2 once the row is frozen: the escrow, then the callback.
SettleFrozen(d, frozen, b) ==
    SettleDeposit(Updated(Numbered(d, b), frozen), frozen, NextIndex(d))
CallBack(d, i, b) == FireBindingCallback(d, PollAt(d, i), b)

ParseFinalize(d, i, close, early, b) ==
    LET p == PollAt(d, i)
        frozen == FinalizePoll(p, PollTally(d, p, close), close, early, NextIndex(d), b)
    IN  IF p.status # "open" THEN d ELSE CallBack(SettleFrozen(d, frozen, b), i, b)

-----------------------------------------------------------------------------
(* The sweep at the end of a block (utility/vote_passes.js).  It works on  *)
(* the tables of the open transaction and on the memo together.            *)

LastIndex(rows) == MaxOf({r.idx : r \in rows})

\* getPollTallyInputWatermark and tallyRuleSuffix.
Fingerprint(d, p, b) ==
    <<LastIndex(Ballots(d, p)), LastIndex(d.delegations), LastIndex(d.moves), Exact(b)>>

Forgotten(m, i) == [j \in DOMAIN m \ {i} |-> m[j]]
Remembered(m, i, f) == [j \in DOMAIN m \cup {i} |-> IF j = i THEN f ELSE m[j]]

Crosses(p, tally) ==
    /\ tally.supply > 0 /\ tally.leader * 100 >= p.def.decide * tally.supply
    /\ tally.valid

Cacheable(p) == p.def.weight # "time_weighted"

EvaluateArmedPoll(s, i, b) ==
    LET p == PollAt(s.db, i)
        f == Fingerprint(s.db, p, b)
    IN  IF Cacheable(p) /\ i \in DOMAIN s.memo /\ s.memo[i] = f THEN s
        ELSE IF Crosses(p, PollTally(s.db, p, b))
             THEN [db |-> ParseFinalize(s.db, i, b, TRUE, b), memo |-> Forgotten(s.memo, i)]
             ELSE IF Cacheable(p) THEN [s EXCEPT !.memo = Remembered(@, i, f)] ELSE s

DuePolls(d, b) == {p.idx : p \in {q \in d.polls : q.status = "open" /\ q.end <= b}}
ArmedPolls(d, b) ==
    {p.idx : p \in {q \in d.polls : q.status = "open" /\ q.def.decide > 0 /\ q.end > b}}
DueCallbackPolls(d, b) ==
    {p.idx : p \in {q \in d.polls : q.status # "open" /\ q.due = b /\ q.execute = None}}

InOrder(S) == SetToSortSeq(S, <)

ProcessDueCallbacks(d, b) ==
    FoldLeft(LAMBDA c, i : InjectCallbackExecute(c, PollAt(c, i), b), d,
             InOrder(DueCallbackPolls(d, b)))

CloseDuePolls(d, b) ==
    FoldLeft(LAMBDA c, i : ParseFinalize(c, i, PollAt(c, i).end, FALSE, b), d,
             InOrder(DuePolls(d, b)))

DecideArmedPolls(s, b) ==
    FoldLeft(LAMBDA c, i : EvaluateArmedPoll(c, i, b), s, InOrder(ArmedPolls(s.db, b)))

\* processVoteFinalizations: the polls whose time is up, the armed ones, and
\* the callbacks whose timelock ends.
ProcessVoteFinalizations(s, b) ==
    [DecideArmedPolls([s EXCEPT !.db = CloseDuePolls(@, b)], b)
        EXCEPT !.db = ProcessDueCallbacks(@, b)]

ProcessBlock(s, t, b) == ProcessVoteFinalizations([s EXCEPT !.db = UserAction(@, t, b)], b)

-----------------------------------------------------------------------------
(* A reorganisation to below block b (db/rollback/in_place_flips.js, then  *)
(* the generic delete by action_index).                                    *)

\* Mutant: the reset forgets deposit_resolved.
ReopenKeepsSettlement(p, b) ==
    IF p.status # "open" /\ p.resolved >= b
    THEN [p EXCEPT !.status = "open", !.result = NoResult, !.early = FALSE, !.close = None,
                   !.finalized = None, !.resolved = None, !.due = None, !.execute = None]
    ELSE p

ReopenOrphanedPolls(p, b) ==
    IF p.status # "open" /\ p.resolved >= b
    THEN [p EXCEPT !.status = "open", !.result = NoResult, !.early = FALSE, !.close = None,
                   !.finalized = None, !.resolved = None, !.settled = "null",
                   !.due = None, !.execute = None]
    ELSE p

\* Mutant: a fired callback stays marked as fired.
KeepPollCallbacks(p, b) == p

ResetOrphanedPollCallbacks(p, b) ==
    IF p.status # "open" /\ p.due >= b THEN [p EXCEPT !.execute = None] ELSE p

RolledBack(d, b) ==
    LET kept == SelectSeq(d.actions, LAMBDA h : h < b)
        stays(rows) == {r \in rows : r.idx <= Len(kept)}
        flipped == {ResetOrphanedPollCallbacks(ReopenOrphanedPolls(p, b), b) : p \in d.polls}
    IN  [actions |-> kept, polls |-> stays(flipped), votes |-> stays(d.votes),
         delegations |-> stays(d.delegations), moves |-> stays(d.moves),
         gas |-> stays(d.gas), executes |-> stays(d.executes)]

-----------------------------------------------------------------------------
(* The node.                                                               *)

Creates == [kind : {"create"}, source : Voters, def : Definitions]
BallotsFor(d) == [kind : {"ballot"}, source : Voters, poll : {p.idx : p \in d.polls}, picks : Selections]
Delegates == [kind : {"delegate"}, source : Voters, to : Voters \cup {None}]
Transfers == [kind : {"transfer"}, source : Voters, to : Voters]

\* What the next block may hold.  A block whose attempt failed comes again,
\* unless the chain replaced it before the node committed it.
UserActions ==
    {Quiet} \cup BallotsFor(db) \cup {t \in Delegates \cup Transfers : t.to # t.source}
            \cup (IF Cardinality(db.polls) < MaxPolls THEN Creates ELSE {})
NextBlocks == IF failed = <<>> \/ Replaces THEN UserActions ELSE {failed[1]}

Attempted(t) == ProcessBlock([db |-> db, memo |-> memo], t, height + 1)

Init ==
    /\ db = EmptyTables /\ memo = [i \in {} |-> None]
    /\ chain = <<>> /\ failed = <<>> /\ faults = 0

CommitBlock ==
    \E t \in NextBlocks :
        /\ height < MaxHeight
        /\ \E after \in {Attempted(t)} : db' = after.db /\ memo' = after.memo
        /\ chain' = Append(chain, t) /\ failed' = <<>>
        /\ UNCHANGED faults

\* A fault after the sweep: the transaction is undone, the memo is not.
FailBlock ==
    \E t \in NextBlocks :
        /\ height < MaxHeight /\ faults < MaxFaults
        /\ memo' = Attempted(t).memo /\ failed' = <<t>>
        /\ faults' = faults + 1
        /\ UNCHANGED <<db, chain>>

\* Mutant: the memo survives the reorganisation.
KeepMemo(m) == m

ForgetMemo(m) == [i \in {} |-> None]

Rollback ==
    \E b \in 1 .. height :
        /\ faults < MaxFaults
        /\ db' = RolledBack(db, b) /\ chain' = SubSeq(chain, 1, b - 1)
        /\ memo' = ForgetMemo(memo) /\ failed' = <<>>
        /\ faults' = faults + 1

\* A new process starts with an empty map.
Restart ==
    /\ faults < MaxFaults
    /\ memo' = [i \in {} |-> None]
    /\ faults' = faults + 1
    /\ UNCHANGED <<db, chain, failed>>

Next == CommitBlock \/ FailBlock \/ Rollback \/ Restart
Spec == Init /\ [][Next]_vars

-----------------------------------------------------------------------------
(* The tables of a node that processes the chain from the start, never     *)
(* fails, and tallies every armed poll at every block.                     *)

Unmemoised ==
    FoldLeft(LAMBDA d, b :
                ProcessBlock([db |-> d, memo |-> [i \in {} |-> None]], chain[b], b).db,
             EmptyTables, [b \in 1 .. height |-> b])

\* A poll is decided by the first block of the chain whose tally crosses its
\* threshold, and its result is the tally there, on every node: failed attempts,
\* restarts, reorganisations and skipped tallies leave no trace in the tables.
FirstCrossingDecides == db = Unmemoised

\* The GAS in escrow for an address is exactly what its open polls locked, and
\* what a closed poll released went to its creator or to the treasury.
EscrowIsOpenPolls ==
    /\ \A a \in Voters : GasEscrow(db, a) =
        Sum(LAMBDA p : p.def.deposit + p.def.gas,
            {p \in db.polls : p.status = "open" /\ p.creator = a})
    /\ Sum(LAMBDA a : GasOf(db, a) + GasEscrow(db, a), Voters \cup {Treasury})
        = Sum(LAMBDA a : GasHolding[a], Voters)

\* A closed poll whose gate is met has run its callback exactly once by its due
\* block, and no other poll has run one, however often the due block or the
\* closing block was undone and processed again.
CallbackRunsOnce ==
    \A p \in db.polls :
        LET runs == {e \in db.executes : e.poll = p.idx}
            owed == /\ p.status # "open" /\ CallbackGate(p) /\ ~p.def.throws
                    /\ p.resolved + p.def.delay <= height
        IN  Cardinality(runs) = IF owed THEN 1 ELSE 0
=============================================================================
