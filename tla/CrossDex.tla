------------------------------ MODULE CrossDex ------------------------------
(***************************************************************************)
(* Swaps, cross-chain offers and CROSS_SETTLE.  A swap between two tokens  *)
(* of this chain is matched here (actions/swap, swap_match, swap_expire).  *)
(* A swap or an order that asks for a token of another chain only escrows  *)
(* here: the hubs match it and sign the match, the mirror delivers the     *)
(* signed row, and a capped pass of the block releases the escrow          *)
(* (actions/cross_settle, utility/block_passes.js).                        *)
(*                                                                         *)
(* The escrow of an offer is claimed by its owner (cancel), by the clock   *)
(* (expiry) and by every match that names it; two matches may together     *)
(* name more than there is.  A match whose leg is not an offer of this     *)
(* chain is dismissed in the memory of the process, which no rollback      *)
(* clears; a rollback deletes the mirrored matches of the legs it undoes,  *)
(* and the hubs may form them again under the same match_id.  The database *)
(* is a record of tables and a block a function on it, so that a node can  *)
(* be compared with one that remembers no dismissal.                       *)
(***************************************************************************)
EXTENDS Integers, Sequences, FiniteSets, FiniteSetsExt, SequencesExt

CONSTANTS
    Users,      \* addresses of this chain
    Remote,     \* the payout address of the counterparties
    Ticks,      \* tokens of this chain
    Holding,    \* what every user holds of every token before the first block
    Here,       \* COIN, this chain
    Offers,     \* the offers a user may create
    Edits,      \* the changes of a SWAP v2: expiration (0: none) and allow list
    Mirrors,    \* the contents the mirror may have: signed matches, in pass order
    Cap,        \* CROSS_SETTLE_MAX_PER_BLOCK
    Grace,      \* RETIREMENT_GRACE_BLOCKS
    MaxHeight,  \* bound: the last block
    MaxOffers,  \* bound: offers on the chain
    MaxFaults   \* bound: failed attempts, rollbacks and restarts together

ASSUME CrossDexAssumption ==
    /\ Remote \notin Users /\ Holding \in Nat
    /\ Cap \in Nat \ {0} /\ Grace \in Nat
    /\ MaxHeight \in Nat /\ MaxOffers \in Nat /\ MaxFaults \in Nat

VARIABLES
    db,         \* the committed tables
    height,     \* the last committed block
    dismissed,  \* Cross_Settle.dismissed: match position -> the block that judged it
    mirror,     \* cross_chain_matches: rows, selectable from their admission height on
    faults,     \* failed attempts, rollbacks and restarts so far
    peer        \* history: the tables of a node that starts before every block

vars == <<db, height, dismissed, mirror, faults, peer>>

Sum(f(_), S) == MapThenSumSet(f, S)
NoMemo == [k \in 1 .. 0 |-> 0]

-----------------------------------------------------------------------------
(* The tables.  d.actions gives the block of every action_index; every     *)
(* other row carries the action_index that wrote it.                       *)

EmptyTables ==
    [actions |-> <<>>, offers |-> {}, edits |-> {}, statuses |-> {},
     fills |-> {}, settlements |-> {}, ledger |-> {}]

\* createActionIndex.
Minted(d, b) == [d EXCEPT !.actions = Append(@, b)]

LedgerRow(i, leg, tick, a, n) ==
    [idx |-> i, leg |-> leg, tick |-> tick, address |-> a, amount |-> n]

\* processTransactionLedgerChanges.
Posted(d, rows) == [d EXCEPT !.ledger = @ \union rows]

LegSum(d, leg, tick, who) ==
    Sum(LAMBDA r : r.amount,
        {r \in d.ledger : r.leg = leg /\ r.tick = tick /\ r.address \in who})
Balance(d, a, tick) == Holding + LegSum(d, "credit", tick, {a}) - LegSum(d, "debit", tick, {a})
Escrow(d, tick) == LegSum(d, "escrow", tick, Users \union {Remote})

\* createSwapStatus and createOrderStatus.
WithStatus(d, o, s) ==
    [d EXCEPT !.statuses = @ \union {[idx |-> Len(d.actions), offer |-> o, status |-> s]}]

\* The latest status row of an offer; an invalid offer has none.
StatusOf(d, o) ==
    LET rows == {r \in d.statuses : r.offer = o}
    IN  IF rows = {} THEN "none"
        ELSE (CHOOSE r \in rows : \A q \in rows : q.idx <= r.idx).status

\* The offer rows that getSwapInfo and getOrderInfo join.
Known(d) == {o \in d.offers : StatusOf(d, o.idx) # "none"}
Open(d) == {o \in d.offers : StatusOf(d, o.idx) = "open"}

\* getSwapEdits: the last valid edit that sets the field wins.
EffectiveUntil(d, o) ==
    LET rows == {e \in d.edits : e.offer = o.idx /\ e.until # 0}
    IN  IF rows = {} THEN o.until ELSE (CHOOSE e \in rows : \A q \in rows : q.idx <= e.idx).until
EffectiveAllow(d, o) ==
    LET rows == {e \in d.edits : e.offer = o.idx}
    IN  IF rows = {} THEN o.allow ELSE (CHOOSE e \in rows : \A q \in rows : q.idx <= e.idx).allow

\* getOrderAmountsRemaining; a swap has no fills, its GIVE_AMOUNT stays whole.
GiveRemaining(d, o) == o.give - Sum(LAMBDA f : f.give, {f \in d.fills : f.offer = o.idx})

\* The escrow goes back to the source of the offer under the last action.
Refunded(d, o, s) ==
    LET i == Len(d.actions)
        n == GiveRemaining(d, o)
    IN  WithStatus(Posted(d, {LedgerRow(i, "escrow", o.tick, o.src, -n),
                              LedgerRow(i, "credit", o.tick, o.src, n)}), o.idx, s)

-----------------------------------------------------------------------------
(* SWAP_MATCH                                                              *)

\* An attached allow list must name the other side.
Allows(d, o, other) ==
    EffectiveAllow(d, o) = {} \/ other.src \in EffectiveAllow(d, o)

\* findSwapMatches, swapCandidateIsReciprocal and swapCandidateAllowed.
Reciprocal(d, o, c) ==
    /\ c.kind = "swap" /\ c.src # o.src
    /\ c.coin = Here /\ o.coin = Here
    /\ c.tick = o.get /\ c.get = o.tick
    /\ c.give = o.want /\ c.want = o.give
    /\ Allows(d, o, c) /\ Allows(d, c, o)

\* settleSwapMatch: each GIVE side goes to the other, both swaps complete.
SettleSwapMatch(d, b, o, c) ==
    LET e == Minted(d, b)
        i == Len(e.actions)
        side(x) == {LedgerRow(i, "escrow", x.get, x.src, -x.want),
                    LedgerRow(i, "credit", x.get, x.src, x.want)}
    IN  WithStatus(WithStatus(Posted(e, side(c) \union side(o)), o.idx, "complete"),
                   c.idx, "complete")

SwapMatch(d, b, i) ==
    LET origin == {o \in Open(d) : o.idx = i /\ o.kind = "swap" /\ o.coin = Here}
        found == {c \in Open(d) : \E o \in origin : Reciprocal(d, o, c)}
    IN  IF origin = {} \/ found = {} THEN d
        ELSE SettleSwapMatch(d, b, CHOOSE o \in origin : TRUE,
                             CHOOSE c \in found : \A q \in found : c.idx <= q.idx)

-----------------------------------------------------------------------------
(* The user's transactions: SWAP v0 and ORDER v0 (create), v1 (cancel),    *)
(* SWAP v2 (edit), or an action of another kind.  Each takes an            *)
(* action_index, valid or not.                                             *)

CreateValid(d, b, t) == t.until > b /\ Balance(d, t.src, t.tick) >= t.give

ParseCreate(d, b, t) ==
    LET e == Minted(d, b)
        i == Len(e.actions)
        row == [idx |-> i, kind |-> t.kind, src |-> t.src, tick |-> t.tick, give |-> t.give,
                coin |-> t.coin, get |-> t.get, want |-> t.want, until |-> t.until,
                allow |-> t.allow]
        stored == [e EXCEPT !.offers = @ \union {row}]
    IN  IF ~CreateValid(d, b, t) THEN stored
        ELSE SwapMatch(
               WithStatus(Posted(stored, {LedgerRow(i, "debit", t.tick, t.src, t.give),
                                          LedgerRow(i, "escrow", t.tick, t.src, t.give)}),
                          i, "open"), b, i)

\* Only the source of an open offer cancels it; the SWAP_MATCH that follows
\* finds its origin closed.
ParseCancel(d, b, t) ==
    LET e == Minted(d, b)
        mine == {o \in Open(d) : o.idx = t.offer /\ o.src = t.src}
    IN  IF mine = {} THEN e
        ELSE SwapMatch(Refunded(e, CHOOSE o \in mine : TRUE, "cancelled"), b, t.offer)

EditValid(d, b, t) ==
    /\ \E o \in Open(d) : o.idx = t.offer /\ o.src = t.src /\ o.kind = "swap"
    /\ t.until = 0 \/ t.until > b

Edited(d, b, t) ==
    LET e == Minted(d, b)
    IN  [e EXCEPT !.edits = @ \union {[idx |-> Len(e.actions), offer |-> t.offer,
                                       until |-> t.until, allow |-> t.allow]}]

EditLeavesTheBook(d, b, t) == IF EditValid(d, b, t) THEN Edited(d, b, t) ELSE Minted(d, b)

\* An edited swap is matched again.
ParseEdit(d, b, t) ==
    IF EditValid(d, b, t) THEN SwapMatch(Edited(d, b, t), b, t.offer) ELSE Minted(d, b)

UserAction(d, b, t) ==
    CASE t.kind \in {"swap", "order"} -> ParseCreate(d, b, t)
      [] t.kind = "cancel" -> ParseCancel(d, b, t)
      [] t.kind = "edit" -> ParseEdit(d, b, t)
      [] t.kind = "other" -> Minted(d, b)
      [] t.kind = "none" -> d

\* processExpirations: ORDER_EXPIRE and SWAP_EXPIRE of every offer past its
\* expiration, in action_index order.  A block's time is its height.
ProcessExpirations(d, b) ==
    LET due == {o \in Open(d) : EffectiveUntil(d, o) < b}
    IN  FoldLeft(LAMBDA e, o : Refunded(Minted(e, b), o, "expired"), d,
                 SetToSortSeq(due, LAMBDA x, y : x.idx < y.idx))

-----------------------------------------------------------------------------
(* CROSS_SETTLE.  A match row names the action_index of its leg on this    *)
(* chain, the kind, tick and amount of that leg and what it is owed; its   *)
(* admission height, the block from which the validator set it was signed  *)
(* under is mirrored, whether its signatures reach the quorum, and whether *)
(* the mirror has it.  Its position is its place in the pass and match_id. *)

Settled(d, k) == \E s \in d.settlements : s.match = k

\* getEffectiveUnsettledMatches: the positions of the rows that are admitted
\* and not settled, the first Cap of them.
Effective(d, b) ==
    LET due == SelectSeq([k \in 1 .. Len(mirror) |-> k],
                         LAMBDA k : mirror[k].live /\ mirror[k].admit <= b /\ ~Settled(d, k))
    IN  SubSeq(due, 1, IF Len(due) < Cap THEN Len(due) ELSE Cap)

\* rowAgedOut.
AgedOut(m, b) == m.admit + Grace <= b

\* recordCrossChainSettlement and recordCrossChainSettlementRetirement.
WithSettlement(d, k, retired) ==
    [d EXCEPT !.settlements =
        @ \union {[idx |-> Len(d.actions), match |-> k, retired |-> retired]}]

RetireUnapplicableMatch(d, b, k) ==
    IF AgedOut(mirror[k], b) THEN WithSettlement(Minted(d, b), k, TRUE) ELSE d


RecordNoopSettlement(d, b, k) == WithSettlement(Minted(d, b), k, FALSE)

\* releaseEscrow: to the counterparty, under the last action.
ReleaseEscrow(d, m, n) ==
    LET i == Len(d.actions)
    IN  Posted(d, {LedgerRow(i, "escrow", m.tick, Remote, -n),
                   LedgerRow(i, "credit", m.tick, Remote, n)})

TrustsTheStamp(d, o, n) == n

\* clampFillToEscrow and clampSwapReleaseToEscrow: the escrow, not the
\* signed row, decides what can leave it.
ClampToEscrow(d, o, n) == IF GiveRemaining(d, o) < n THEN GiveRemaining(d, o) ELSE n

SettleSwapLeg(d, b, k, o) ==
    LET m == mirror[k]
    IN  IF StatusOf(d, o.idx) # "open" \/ m.tick # o.tick THEN RecordNoopSettlement(d, b, k)
        ELSE WithSettlement(
               WithStatus(ReleaseEscrow(Minted(d, b), m, ClampToEscrow(d, o, m.give)),
                          o.idx, "complete"), k, FALSE)

\* applyOrderFill: the order completes when nothing remains to give.
ApplyOrderFill(d, b, k, o, n) ==
    LET m == mirror[k]
        e == ReleaseEscrow(Minted(d, b), m, n)
        f == [e EXCEPT !.fills = @ \union {[idx |-> Len(e.actions), offer |-> o.idx,
                                           give |-> n, get |-> m.get]}]
        g == IF GiveRemaining(f, o) <= 0 THEN WithStatus(f, o.idx, "complete") ELSE f
    IN  WithSettlement(g, k, FALSE)

SettleOrderLeg(d, b, k, o) ==
    LET m == mirror[k]
    IN  IF \/ StatusOf(d, o.idx) # "open" \/ m.tick # o.tick
           \/ GiveRemaining(d, o) <= 0
        THEN RecordNoopSettlement(d, b, k)
        ELSE ApplyOrderFill(d, b, k, o, ClampToEscrow(d, o, m.give))

\* The local leg: a cross-chain offer of the kind the match names.
LegOf(d, m) == {o \in Known(d) : o.idx = m.leg /\ o.kind = m.kind /\ o.coin = m.coin}

\* probeLocalLeg: a dismissal stands above the block that judged it.
Dismissed(memo, k, b) == k \in DOMAIN memo /\ b > memo[k]

Without(memo, k) == [j \in DOMAIN memo \ {k} |-> memo[j]]
Judged(memo, k, b) == [j \in DOMAIN memo \union {k} |-> IF j = k THEN b ELSE memo[j]]

\* parse of one match: the database and the memo after it.
ParseMatch(s, k, b) ==
    LET d == s.db
        m == mirror[k]
        legs == LegOf(d, m)
        unleg == legs = {} /\ m.leg \in DOMAIN d.actions
        memo == IF Dismissed(s.memo, k, b) THEN s.memo
                ELSE IF unleg THEN Judged(s.memo, k, b) ELSE Without(s.memo, k)
        gone == Dismissed(s.memo, k, b) \/ unleg
        next == IF gone THEN RetireUnapplicableMatch(d, b, k)
                ELSE IF m.snap > b THEN d
                ELSE IF ~m.quorum \/ legs = {} THEN RetireUnapplicableMatch(d, b, k)
                ELSE IF m.kind = "order" THEN SettleOrderLeg(d, b, k, CHOOSE o \in legs : TRUE)
                ELSE SettleSwapLeg(d, b, k, CHOOSE o \in legs : TRUE)
    IN  [db |-> next, memo |-> memo]

ProcessCrossChainSettlements(s, b) ==
    FoldLeft(LAMBDA t, k : ParseMatch(t, k, b), s, Effective(s.db, b))

\* One block: its transaction, then the passes in the order of block_passes.js.
Block(s, b, t) ==
    ProcessCrossChainSettlements(
        [s EXCEPT !.db = ProcessExpirations(UserAction(s.db, b, t), b)], b)

-----------------------------------------------------------------------------
(* The node: blocks, failed attempts, reorganisations and restarts.        *)

Transactions(d) ==
    {[kind |-> "none"], [kind |-> "other"]}
    \union (IF Cardinality(d.offers) < MaxOffers THEN Offers ELSE {})
    \union {[kind |-> "cancel", src |-> o.src, offer |-> o.idx] : o \in d.offers}
    \union {[kind |-> "edit", src |-> o.src, offer |-> o.idx, until |-> e.until,
             allow |-> e.allow] : o \in {x \in d.offers : x.kind = "swap"}, e \in Edits}

Init ==
    /\ db = EmptyTables /\ peer = EmptyTables
    /\ height = 0 /\ dismissed = NoMemo /\ faults = 0
    /\ mirror \in Mirrors

CommitBlock ==
    /\ height < MaxHeight /\ height' = height + 1
    /\ \E t \in Transactions(db) :
         LET s == Block([db |-> db, memo |-> dismissed], height + 1, t)
         IN  /\ db' = s.db /\ dismissed' = s.memo
             /\ peer' = Block([db |-> peer, memo |-> NoMemo], height + 1, t).db
    /\ UNCHANGED <<mirror, faults>>

\* The transaction of the block is rolled back; the memo keeps what it judged.
FailBlock ==
    /\ height < MaxHeight /\ faults < MaxFaults
    /\ \E t \in Transactions(db) :
         dismissed' = Block([db |-> db, memo |-> dismissed], height + 1, t).memo
    /\ faults' = faults + 1
    /\ UNCHANGED <<db, height, mirror, peer>>

LastIndex(d, b) == Cardinality({i \in DOMAIN d.actions : d.actions[i] <= b})

\* A rollback deletes the rows of the actions above the fork.
RolledBack(d, b) ==
    LET kept(rows) == {r \in rows : r.idx <= LastIndex(d, b)}
    IN  [actions |-> SubSeq(d.actions, 1, LastIndex(d, b)), offers |-> kept(d.offers),
         edits |-> kept(d.edits), statuses |-> kept(d.statuses), fills |-> kept(d.fills),
         settlements |-> kept(d.settlements), ledger |-> kept(d.ledger)]

\* purgeCrossChainMirrors: the matches of a leg from the first orphaned action on.
PurgedMirror(d, b) ==
    IF LastIndex(d, b) = Len(d.actions) THEN mirror
    ELSE [k \in DOMAIN mirror |->
            [mirror[k] EXCEPT !.live = @ /\ mirror[k].leg <= LastIndex(d, b)]]

Rollback ==
    /\ faults < MaxFaults /\ faults' = faults + 1
    /\ \E b \in 0 .. height - 1 :
         /\ height' = b
         /\ db' = RolledBack(db, b) /\ peer' = RolledBack(peer, b)
         /\ mirror' = PurgedMirror(db, b)
    /\ UNCHANGED dismissed

\* The crossing forms again: the hubs revive the match under its match_id,
\* admitted at a later block than any the node has processed.
Revive ==
    /\ \E k \in DOMAIN mirror :
         /\ ~mirror[k].live
         /\ mirror' = [mirror EXCEPT ![k].live = TRUE, ![k].admit = height + 1]
    /\ UNCHANGED <<db, height, dismissed, faults, peer>>

Restart ==
    /\ faults < MaxFaults /\ faults' = faults + 1
    /\ dismissed' = NoMemo
    /\ UNCHANGED <<db, height, mirror, peer>>

Next == CommitBlock \/ FailBlock \/ Rollback \/ Revive \/ Restart

Spec == Init /\ [][Next]_vars

-----------------------------------------------------------------------------
(* Properties                                                              *)

\* What leaves an offer's escrow never exceeds what the offer put there, and
\* the escrow of every token covers what its open offers may still give or
\* take back, whichever of cancel, expiry, local match and signed matches
\* (two of which may name more than the order has) reaches it first.
EscrowCovers ==
    /\ \A o \in db.offers : GiveRemaining(db, o) >= 0
    /\ \A tick \in Ticks :
         Escrow(db, tick) >= Sum(LAMBDA o : GiveRemaining(db, o), {o \in Open(db) : o.tick = tick})

\* No two open swaps of this chain that could trade with each other rest in
\* the book: a swap is matched when it is created and when it is edited.
SwapsAreUncrossed ==
    \A o, c \in Open(db) : o.kind = "swap" => ~Reciprocal(db, o, c)

\* The dismissals of the process leave no trace: the tables are those of a
\* node that has none ("it changes no row, mints no action and moves no match
\* out of the per-block prefix"), whatever was rolled back and matched again.
DismissalLeavesNoTrace == db = peer


=============================================================================
