------------------------------- MODULE Orders -------------------------------
(***************************************************************************)
(* The decentralised exchange of one chain: ORDER (create, cancel, edit),  *)
(* ORDER_MATCH, ORDER_EXPIRE, the two-phase COINPAY / COINPAY_EXPIRE       *)
(* settlement of trades against the native coin, and the ORDERS part of    *)
(* SWEEP (actions/order, order_match, order_expire, coinpay,               *)
(* coinpay_expire.js, sweep), under the rules in force once every          *)
(* activation gate of these handlers is active.                            *)
(*                                                                         *)
(* A block first applies its transactions, then expires orders, then       *)
(* expires obligations (utility/block_passes.js).  Amounts are whole       *)
(* units; a price is the exact ratio of an order's two opening amounts.    *)
(* Order k is the k-th valid ORDER, match k the k-th ORDER_MATCH.          *)
(***************************************************************************)
EXTENDS Integers, Sequences, FiniteSets, FiniteSetsExt

CONSTANTS
    Addresses,           \* accounts; an order's GET_ADDRESS is its SOURCE
    Ticks,               \* the chain's tokens
    Coin,                \* the native coin: a NULL tick in the code
    Markets,             \* sets of ORDER payloads; the orders of one behaviour are all from one
    InitialBalance,      \* balances before the first order
    InitialOwner,        \* tokens.owner_id before the first order
    Refused,             \* (taker, maker) payloads some allow or block list keeps apart
    Lifetimes,           \* EXPIRATION minus the block time, for creates and edits
    Nobody,              \* no SWEEP destination
    COINPAY_EXPIRATION,  \* the payment window of an obligation
    MaxOrders,           \* bound: orders ever created
    MaxTime              \* bound: the block time stops growing here

(***************************************************************************)
(* An offer gives something real or the coin, never coin for coin and      *)
(* never a token for itself, and an ownership leg counts as one unit       *)
(* (order/validate.js, order_info.js openingAmounts).                      *)
(***************************************************************************)
ASSUME OrdersAssumption ==
    /\ Coin \notin Ticks /\ IsFiniteSet(Addresses) /\ Nobody \notin Addresses
    /\ \A o \in UNION Markets :
          /\ o.source \in Addresses
          /\ o.give \in Ticks \cup {Coin} /\ o.get \in Ticks \cup {Coin}
          /\ o.give # o.get
          /\ o.giveAmount \in Nat \ {0} /\ o.getAmount \in Nat \ {0}
          /\ o.giveOwn \in BOOLEAN /\ o.getOwn \in BOOLEAN
          /\ o.giveOwn => (o.giveAmount = 1 /\ o.give # Coin)
          /\ o.getOwn => (o.getAmount = 1 /\ o.get # Coin)
    /\ InitialBalance \in [Addresses -> [Ticks -> Nat]]
    /\ InitialOwner \in [Ticks -> Addresses]
    /\ Refused \subseteq (UNION Markets) \X (UNION Markets)
    /\ Lifetimes \subseteq Nat \ {0}
    /\ COINPAY_EXPIRATION \in Nat \ {0}
    /\ MaxOrders \in Nat /\ MaxTime \in Nat

VARIABLES
    orders,      \* orders joined with their latest order_statuses row
    matches,     \* order_matches joined with coinpay_obligations and their status
    balances,    \* balances
    escrows,     \* the sum of the escrows rows of each tick
    owner,       \* tokens.owner_id
    gate,        \* tokens.escrow_action_index, 0 for NULL
    now,         \* the block time
    phase,       \* the pass of the block under way
    taker,       \* ORDER_MATCH: the order being matched, 0 outside a pass
    candidates   \* ORDER_MATCH: the makers still to be tried

ledger == <<balances, escrows, owner, gate>>
matching == <<taker, candidates>>
vars == <<orders, matches, balances, escrows, owner, gate, now, phase, taker, candidates>>

Live  == {"open", "cancelling", "expiring"}
Final == {"complete", "cancelled", "expired"}

-----------------------------------------------------------------------------
(* Reads.                                                                  *)

GivenBy(m, i)  == IF m.taker = i THEN m.give ELSE m.get
GottenBy(m, i) == IF m.taker = i THEN m.get ELSE m.give

\* The matches deducted from order i: order_matches rows valid or pending_coinpay.
MatchesOf(ms, i) ==
    {k \in DOMAIN ms : /\ i \in {ms[k].taker, ms[k].maker}
                       /\ ms[k].status \in {"valid", "pending_coinpay"}}

Given(ms, i)  == SumFunction([k \in MatchesOf(ms, i) |-> GivenBy(ms[k], i)])
Gotten(ms, i) == SumFunction([k \in MatchesOf(ms, i) |-> GottenBy(ms[k], i)])

GiveRemaining(ms, i) == orders[i].giveAmount - Given(ms, i)
GetRemaining(ms, i)  == orders[i].getAmount - Gotten(ms, i)

Pending(ms, i) ==
    {k \in DOMAIN ms : /\ i \in {ms[k].taker, ms[k].maker}
                       /\ ms[k].obligation = "pending_coinpay"}

\* The order of a coin match that escrowed a token, and the one that owes the coin.
SellerOf(m) == IF orders[m.taker].give = Coin THEN m.maker ELSE m.taker
BuyerOf(m)  == IF orders[m.taker].give = Coin THEN m.taker ELSE m.maker

-----------------------------------------------------------------------------
(* Ledger writes.                                                          *)

Credit(bal, dest, t, n) == [bal EXCEPT ![dest][t] = @ + n]

\* One escrow release of n units of t with its matching credit.
Release(t, n, dest) ==
    /\ escrows' = [escrows EXCEPT ![t] = @ - n]
    /\ balances' = Credit(balances, dest, t, n)
    /\ UNCHANGED <<owner, gate>>

\* Faulty: the ownership moves and the gate stays.
TransferKeepingGate(t, dest) ==
    /\ owner' = [owner EXCEPT ![t] = dest]
    /\ UNCHANGED <<balances, escrows, gate>>

\* The synthetic ISSUE+TRANSFER of an ownership delivery; it clears the gate first.
TransferTokenOwnership(t, dest) ==
    /\ owner' = [owner EXCEPT ![t] = dest]
    /\ gate' = [gate EXCEPT ![t] = 0]
    /\ UNCHANGED <<balances, escrows>>

ClearTokenEscrow(t) == gate' = [gate EXCEPT ![t] = 0] /\ UNCHANGED <<balances, escrows, owner>>

\* Faulty: hands back the opening amount, not the remaining one.
ReturnOpeningAmount(i) ==
    LET o == orders[i] IN
    \/ o.giveOwn /\ ClearTokenEscrow(o.give)
    \/ o.give = Coin /\ UNCHANGED ledger
    \/ ~o.giveOwn /\ o.give # Coin /\ Release(o.give, o.giveAmount, o.source)

\* What an immediate cancel or expiry hands back to the order's SOURCE.
ReturnGiveSide(i) ==
    LET o == orders[i] IN
    \/ o.giveOwn /\ ClearTokenEscrow(o.give)
    \/ o.give = Coin /\ UNCHANGED ledger
    \/ ~o.giveOwn /\ o.give # Coin /\ Release(o.give, GiveRemaining(matches, i), o.source)

SetStatus(i, s) == orders' = [orders EXCEPT ![i].status = s]

-----------------------------------------------------------------------------
(* ORDER_MATCH.                                                            *)

\* a ranks before b: higher GET_PRICE first, the older order on a tie.
Better(a, b) ==
    LET x == orders[a].giveAmount * orders[b].getAmount
        y == orders[b].giveAmount * orders[a].getAmount
    IN  x > y \/ (x = y /\ a < b)

\* The open orders of other addresses that take the other side.  The reverse leg of the
\* query is relaxed when either tick is NULL; fillMatch checks it again.
FindOrderMatches(os, i) ==
    {j \in DOMAIN os :
        /\ os[j].status = "open" /\ os[j].source # os[i].source
        /\ os[i].give = os[j].get
        /\ os[i].get = os[j].give \/ Coin \in {os[i].get, os[j].give}
        /\ os[j].giveOwn = os[i].getOwn /\ os[j].getOwn = os[i].giveOwn}

\* The pass tries its candidates in their order.
IsNext(j) == \A k \in candidates : k = j \/ Better(j, k)

\* Dispatch ORDER_MATCH for order i over the order table os.
StartMatching(os, i) ==
    /\ phase' = "match"
    /\ taker' = i
    /\ candidates' = FindOrderMatches(os, i)

\* floor(n / d + 1/2): bcround at a tick without decimals.
BcRound(n, d) == (2 * n + d) \div (2 * d)

\* Faulty: the taker's bounds are read once, before the pass.
ComputeFillAmountsStale(i, j) ==
    LET maxGive == Min({GetRemaining(matches, j), orders[i].giveAmount})
        maxGet  == Min({GiveRemaining(matches, j), orders[i].getAmount})
        p == orders[i].giveAmount
        q == orders[i].getAmount
    IN  IF maxGet * p > maxGive * q
        THEN [give |-> maxGive, get |-> BcRound(maxGive * q, p)]
        ELSE [give |-> BcRound(maxGet * p, q), get |-> maxGet]

\* How much the two orders trade, at the taker's price, within all four remainders.
ComputeFillAmounts(i, j) ==
    LET maxGive == Min({GetRemaining(matches, j), GiveRemaining(matches, i)})
        maxGet  == Min({GiveRemaining(matches, j), GetRemaining(matches, i)})
        p == orders[i].giveAmount
        q == orders[i].getAmount
    IN  IF maxGet * p > maxGive * q
        THEN [give |-> maxGive, get |-> BcRound(maxGive * q, p)]
        ELSE [give |-> BcRound(maxGet * p, q), get |-> maxGet]

\* Both sides have something left to give and to get, and the taker's ask is within
\* the maker's bid.
HasFillRoom(i, j) ==
    /\ \A x \in {i, j} : GiveRemaining(matches, x) > 0 /\ GetRemaining(matches, x) > 0
    /\ orders[i].getAmount * orders[j].getAmount <= orders[j].giveAmount * orders[i].giveAmount

IsOwnershipFillExact(i, fill) ==
    (orders[i].giveOwn \/ orders[i].getOwn)
        => fill.give = orders[i].giveAmount /\ fill.get = orders[i].getAmount

\* The payload an order was created with.
OfferOf(o) ==
    [source |-> o.source, give |-> o.give, get |-> o.get,
     giveAmount |-> o.giveAmount, getAmount |-> o.getAmount,
     giveOwn |-> o.giveOwn, getOwn |-> o.getOwn]

\* Every gate of fillMatch: reciprocity of both legs, room, a fill that did not round to
\* zero, exact ownership fills and the allow and block lists.
Fillable(i, j) ==
    LET fill == ComputeFillAmounts(i, j) IN
    /\ orders[i].give = orders[j].get /\ orders[i].get = orders[j].give
    /\ HasFillRoom(i, j)
    /\ fill.give > 0 /\ fill.get > 0
    /\ IsOwnershipFillExact(i, fill)
    /\ <<OfferOf(orders[i]), OfferOf(orders[j])>> \notin Refused

\* The fill loop is over: no candidate left, or the taker has nothing left on one side.
TakerExhausted == GiveRemaining(matches, taker) <= 0 \/ GetRemaining(matches, taker) <= 0

MatchDone ==
    /\ phase = "match"
    /\ candidates = {} \/ TakerExhausted
    /\ phase' = "txs" /\ taker' = 0 /\ candidates' = {}
    /\ UNCHANGED <<orders, matches, ledger, now>>

\* Faulty: a refused candidate ends the pass.
StopAtRefusal(j) ==
    /\ phase = "match" /\ IsNext(j) /\ ~TakerExhausted
    /\ ~Fillable(taker, j)
    /\ candidates' = {}
    /\ UNCHANGED <<orders, matches, ledger, now, phase, taker>>

SkipCandidate(j) ==
    /\ phase = "match" /\ IsNext(j) /\ ~TakerExhausted
    /\ ~Fillable(taker, j)
    /\ candidates' = candidates \ {j}
    /\ UNCHANGED <<orders, matches, ledger, now, phase, taker>>

\* A match row; its obligation is the COINPay obligation opened with it, if any.
NewMatch(i, j, fill, native) ==
    [taker |-> i, maker |-> j, give |-> fill.give, get |-> fill.get,
     status |-> IF native THEN "pending_coinpay" ELSE "valid",
     obligation |-> IF native THEN "pending_coinpay" ELSE "none",
     expiration |-> IF native THEN now + COINPAY_EXPIRATION ELSE 0]

\* A trade against the coin: both orders stay open, the token stays in escrow.
SettleByCoinpay(j) ==
    /\ phase = "match" /\ IsNext(j) /\ ~TakerExhausted
    /\ Fillable(taker, j)
    /\ Coin \in {orders[taker].give, orders[taker].get}
    /\ matches' = Append(matches, NewMatch(taker, j, ComputeFillAmounts(taker, j), TRUE))
    /\ candidates' = candidates \ {j}
    /\ UNCHANGED <<orders, ledger, now, phase, taker>>

\* Nothing left to give or nothing left to get.
Done(ms, i) == GiveRemaining(ms, i) <= 0 \/ GetRemaining(ms, i) <= 0

\* A trade between tokens: each GIVE side is delivered to the other order at once.
SettleInstantly(j) ==
    LET i == taker
        fill == ComputeFillAmounts(i, j)
        ms == Append(matches, NewMatch(i, j, fill, FALSE))
        g == orders[i].give
        h == orders[j].give
        gives == IF orders[i].giveOwn THEN 0 ELSE fill.give
        gets  == IF orders[j].giveOwn THEN 0 ELSE fill.get
        delivered(t) == \/ t = g /\ orders[i].giveOwn
                        \/ t = h /\ orders[j].giveOwn
    IN
    /\ phase = "match" /\ IsNext(j) /\ ~TakerExhausted
    /\ Fillable(i, j)
    /\ Coin \notin {g, h}
    /\ matches' = ms
    /\ escrows' = [escrows EXCEPT ![g] = @ - gives, ![h] = @ - gets]
    /\ balances' = Credit(Credit(balances, orders[j].source, g, gives), orders[i].source, h, gets)
    /\ owner' = [t \in Ticks |-> IF ~delivered(t) THEN owner[t]
                                 ELSE IF t = g THEN orders[j].source ELSE orders[i].source]
    /\ gate' = [t \in Ticks |-> IF delivered(t) THEN 0 ELSE gate[t]]
    /\ orders' = [k \in DOMAIN orders |->
                    IF k \in {i, j} /\ Done(ms, k)
                    THEN [orders[k] EXCEPT !.status = "complete"] ELSE orders[k]]
    /\ candidates' = candidates \ {j}
    /\ UNCHANGED <<now, phase, taker>>

-----------------------------------------------------------------------------
(* ORDER and the ORDERS flag of SWEEP: the transactions of a block.        *)

\* Bound: orders are opened and edited early enough for their obligations to fall due.
TradingOpen == now + COINPAY_EXPIRATION <= MaxTime

\* The orders row of a valid create, joined with its 'open' status.
NewOrder(o, expiration) ==
    [source |-> o.source, give |-> o.give, get |-> o.get,
     giveAmount |-> o.giveAmount, getAmount |-> o.getAmount,
     giveOwn |-> o.giveOwn, getOwn |-> o.getOwn,
     expiration |-> expiration, status |-> "open", sweep |-> Nobody]

\* ORDER format 0: a valid create takes its escrow, then looks for matches.
CreateOrder(offer, life) ==
    LET new == Append(orders, NewOrder(offer, now + life)) IN
    /\ phase = "txs" /\ Len(orders) < MaxOrders /\ TradingOpen
    /\ \/ /\ offer.giveOwn
          /\ owner[offer.give] = offer.source /\ gate[offer.give] = 0
          /\ gate' = [gate EXCEPT ![offer.give] = Len(new)]
          /\ UNCHANGED <<balances, escrows, owner>>
       \/ offer.give = Coin /\ UNCHANGED ledger
       \/ /\ ~offer.giveOwn /\ offer.give # Coin
          /\ balances[offer.source][offer.give] >= offer.giveAmount
          /\ balances' = [balances EXCEPT ![offer.source][offer.give] = @ - offer.giveAmount]
          /\ escrows' = [escrows EXCEPT ![offer.give] = @ + offer.giveAmount]
          /\ UNCHANGED <<owner, gate>>
    /\ orders' = new
    /\ StartMatching(new, Len(new))
    /\ UNCHANGED <<matches, now>>

\* ORDER format 1: the owner of an open order cancels it, at once or, while an obligation
\* is pending, through 'cancelling'.  A closed order is no origin of a match.
CancelOrder(i) ==
    /\ phase = "txs" /\ orders[i].status = "open"
    /\ \/ Pending(matches, i) # {} /\ SetStatus(i, "cancelling") /\ UNCHANGED ledger
       \/ Pending(matches, i) = {} /\ SetStatus(i, "cancelled") /\ ReturnGiveSide(i)
    /\ UNCHANGED <<matches, now, phase, matching>>

\* ORDER format 2: a new expiration, and another look for matches.
EditOrder(i, life) ==
    LET new == [orders EXCEPT ![i].expiration = now + life] IN
    /\ phase = "txs" /\ orders[i].status = "open" /\ TradingOpen
    /\ orders' = new
    /\ StartMatching(new, i)
    /\ UNCHANGED <<matches, ledger, now>>

\* SWEEP with ORDERS=1: every open order of the source is cancelled, its give side going
\* to the destination; one with a pending obligation waits in 'cancelling'.
SweepOrders(a, dest) ==
    LET open == {i \in DOMAIN orders : orders[i].status = "open" /\ orders[i].source = a}
        waits == {i \in open : Pending(matches, i) # {}}
        closes == open \ waits
        swept(t) == SumFunction([i \in {i \in closes : orders[i].give = t /\ ~orders[i].giveOwn}
                                    |-> GiveRemaining(matches, i)])
        delivered(t) == \E i \in closes : orders[i].give = t /\ orders[i].giveOwn
    IN
    /\ phase = "txs" /\ open # {}
    /\ orders' = [i \in DOMAIN orders |->
                    CASE i \in waits  -> [orders[i] EXCEPT !.status = "cancelling", !.sweep = dest]
                      [] i \in closes -> [orders[i] EXCEPT !.status = "cancelled"]
                      [] OTHER        -> orders[i]]
    /\ escrows' = [t \in Ticks |-> escrows[t] - swept(t)]
    /\ balances' = [balances EXCEPT ![dest] = [t \in Ticks |-> @[t] + swept(t)]]
    /\ owner' = [t \in Ticks |-> IF delivered(t) THEN dest ELSE owner[t]]
    /\ gate' = [t \in Ticks |-> IF delivered(t) THEN 0 ELSE gate[t]]
    /\ UNCHANGED <<matches, now, phase, matching>>

\* Bound: the ticks whose ownership some order is about.
Deeds == {o.give : o \in {o \in Range(orders) : o.giveOwn}}
            \cup {o.get : o \in {o \in Range(orders) : o.getOwn}}

\* ISSUE with TRANSFER: the owner of a tick whose ownership is not escrowed passes it on.
IssueTransfer(t, dest) ==
    /\ phase = "txs" /\ t \in Deeds /\ gate[t] = 0 /\ dest # owner[t]
    /\ owner' = [owner EXCEPT ![t] = dest]
    /\ UNCHANGED <<orders, matches, balances, escrows, gate, now, phase, matching>>

-----------------------------------------------------------------------------
(* COINPAY and COINPAY_EXPIRE.                                             *)

FinalStatus(s) == IF s = "cancelling" THEN "cancelled" ELSE "expired"

\* Faulty: counts the pending obligations before this one is resolved.
FinalizesStale(ms, s) ==
    orders[s].status \in {"cancelling", "expiring"} /\ Pending(matches, s) = {}

\* Seller s waits in a transitional status and ms holds no pending obligation of it.
Finalizes(ms, s) == orders[s].status \in {"cancelling", "expiring"} /\ Pending(ms, s) = {}

\* The residual escrow a finalized seller gets back, and who gets it.
Refund(ms, s) ==
    IF Finalizes(ms, s) /\ ~orders[s].giveOwn THEN Max({0, GiveRemaining(ms, s)}) ELSE 0

RefundTo(s) ==
    IF orders[s].status = "cancelling" /\ orders[s].sweep # Nobody
    THEN orders[s].sweep ELSE orders[s].source

\* Faulty: the residual is credited and stays in escrow.
RefundWithoutRelease(ms, s, n, dest) ==
    LET t == orders[s].give IN
    /\ escrows' = [escrows EXCEPT ![t] = @ - n]
    /\ balances' = Credit(Credit(balances, dest, t, n), RefundTo(s), t, Refund(ms, s))
    /\ UNCHANGED <<owner, gate>>

\* n units of seller s's escrow to dest and the residual to RefundTo.
ReleaseAndRefund(ms, s, n, dest) ==
    LET t == orders[s].give IN
    /\ escrows' = [escrows EXCEPT ![t] = @ - n - Refund(ms, s)]
    /\ balances' = Credit(Credit(balances, dest, t, n), RefundTo(s), t, Refund(ms, s))
    /\ UNCHANGED <<owner, gate>>

\* A full payment arrives in time: the sold token goes to the buyer, the match becomes
\* valid, finished orders complete and a waiting seller is finalized.
Coinpay(k) ==
    LET m == matches[k]
        s == SellerOf(m)
        b == BuyerOf(m)
        ms == [matches EXCEPT ![k].obligation = "fulfilled", ![k].status = "valid"]
        settled(i) == CASE i = s /\ Finalizes(ms, s) -> FinalStatus(orders[s].status)
                        [] i \in {s, b} /\ Done(ms, i) -> "complete"
                        [] OTHER -> orders[i].status
    IN
    /\ phase = "txs" /\ m.obligation = "pending_coinpay" /\ now < m.expiration
    /\ \/ orders[s].giveOwn /\ TransferTokenOwnership(orders[s].give, orders[b].source)
       \/ ~orders[s].giveOwn /\ ReleaseAndRefund(ms, s, GivenBy(m, s), orders[b].source)
    /\ matches' = ms
    /\ orders' = [i \in DOMAIN orders |-> [orders[i] EXCEPT !.status = settled(i)]]
    /\ UNCHANGED <<now, phase, matching>>

\* The earliest index of a nonempty set, and only it.
First(i, S) == i \in S /\ \A j \in S : i <= j

DueOrders == {i \in DOMAIN orders : orders[i].status = "open" /\ orders[i].expiration < now}
\* Faulty: a paid obligation falls due too.
DueThoughPaid ==
    {k \in DOMAIN matches : /\ matches[k].obligation \in {"pending_coinpay", "fulfilled"}
                            /\ matches[k].expiration <= now}

DueObligations ==
    {k \in DOMAIN matches : /\ matches[k].obligation = "pending_coinpay"
                            /\ matches[k].expiration <= now}

\* The unpaid token leg returns to the seller (or to the SWEEP destination), a waiting
\* seller is finalized; the match row and the buyer's order are left as they are.
CoinpayExpire(k) ==
    LET m == matches[k]
        s == SellerOf(m)
        ms == [matches EXCEPT ![k].obligation = "expired"]
        dest == RefundTo(s)
    IN
    /\ phase = "coinpays" /\ First(k, DueObligations)
    /\ \/ orders[s].giveOwn /\ dest = orders[s].source /\ ClearTokenEscrow(orders[s].give)
       \/ orders[s].giveOwn /\ dest # orders[s].source /\ TransferTokenOwnership(orders[s].give, dest)
       \/ ~orders[s].giveOwn /\ ReleaseAndRefund(ms, s, GivenBy(m, s), dest)
    /\ matches' = ms
    /\ SetStatus(s, IF Finalizes(ms, s) THEN FinalStatus(orders[s].status) ELSE orders[s].status)
    /\ UNCHANGED <<now, phase, matching>>

\* ORDER_EXPIRE of the first due order.
OrderExpire(i) ==
    /\ phase = "orders" /\ First(i, DueOrders)
    /\ \/ Pending(matches, i) # {} /\ SetStatus(i, "expiring") /\ UNCHANGED ledger
       \/ Pending(matches, i) = {} /\ SetStatus(i, "expired") /\ ReturnGiveSide(i)
    /\ UNCHANGED <<matches, now, phase, matching>>

\* Faulty: the block ends without its COINPAY_EXPIRE pass.
SkipCoinpayPass ==
    /\ \/ phase = "txs" /\ phase' = "orders" /\ UNCHANGED now
       \/ /\ phase = "orders" /\ DueOrders = {} /\ phase' = "txs"
          /\ now' = IF now < MaxTime THEN now + 1 ELSE now
    /\ UNCHANGED <<orders, matches, ledger, matching>>

\* The passes of processExpirations follow the transactions, then the next block begins.
NextPass ==
    /\ \/ phase = "txs" /\ phase' = "orders" /\ UNCHANGED now
       \/ phase = "orders" /\ DueOrders = {} /\ phase' = "coinpays" /\ UNCHANGED now
       \/ /\ phase = "coinpays" /\ DueObligations = {} /\ phase' = "txs"
          /\ now' = IF now < MaxTime THEN now + 1 ELSE now
    /\ UNCHANGED <<orders, matches, ledger, matching>>

-----------------------------------------------------------------------------
Init ==
    /\ orders = <<>> /\ matches = <<>>
    /\ balances = InitialBalance
    /\ escrows = [t \in Ticks |-> 0]
    /\ owner = InitialOwner
    /\ gate = [t \in Ticks |-> 0]
    /\ now = 0 /\ phase = "txs" /\ taker = 0 /\ candidates = {}

Next ==
    \/ \E market \in Markets :
          /\ {OfferOf(o) : o \in Range(orders)} \subseteq market
          /\ \E o \in market, life \in Lifetimes : CreateOrder(o, life)
    \/ \E i \in DOMAIN orders : CancelOrder(i) \/ OrderExpire(i)
    \/ \E i \in DOMAIN orders, life \in Lifetimes : EditOrder(i, life)
    \/ \E a, dest \in Addresses : SweepOrders(a, dest)
    \/ \E t \in Ticks, dest \in Addresses : IssueTransfer(t, dest)
    \/ \E k \in DOMAIN matches : Coinpay(k) \/ CoinpayExpire(k)
    \/ MatchDone
    \/ \E j \in candidates : SkipCandidate(j) \/ SettleByCoinpay(j) \/ SettleInstantly(j)
    \/ NextPass

Spec == Init /\ [][Next]_vars

(***************************************************************************)
(* A block has finitely many transactions, so its passes come however the  *)
(* transactions interleave with matching (SF); a match pass runs to its    *)
(* end, the expiry passes handle what is due, and blocks keep arriving.    *)
(***************************************************************************)
FairSpec ==
    /\ Spec
    /\ SF_vars(NextPass)
    /\ WF_vars(\/ MatchDone
               \/ \E j \in candidates : SkipCandidate(j) \/ SettleByCoinpay(j) \/ SettleInstantly(j))
    /\ WF_vars(\E i \in DOMAIN orders : OrderExpire(i))
    /\ WF_vars(\E k \in DOMAIN matches : CoinpayExpire(k))

-----------------------------------------------------------------------------
(* Properties.                                                             *)

\* No handler mints or burns: the balances and the escrow of a tick always add up to its
\* supply (what sanityCheck verifies after each block).
SupplyConserved ==
    \A t \in Ticks :
        SumFunction([a \in Addresses |-> balances[a][t]]) + escrows[t]
            = SumFunction([a \in Addresses |-> InitialBalance[a][t]])

\* What the exchange still owes in t: the unmatched part of every live order and the
\* token leg of every unpaid match.
Owed(t) ==
    LET offers == {i \in DOMAIN orders : /\ orders[i].status \in Live
                                         /\ orders[i].give = t /\ ~orders[i].giveOwn}
        unpaid == {k \in DOMAIN matches : LET s == orders[SellerOf(matches[k])] IN
                     /\ matches[k].obligation = "pending_coinpay"
                     /\ s.give = t /\ ~s.giveOwn}
    IN  SumFunction([i \in offers |-> GiveRemaining(matches, i)])
        + SumFunction([k \in unpaid |-> GivenBy(matches[k], SellerOf(matches[k]))])

\* Every fill, refund and expiry still to come is covered: the escrow of a tick is never
\* below what its live orders and unpaid matches can draw from it.
EscrowCovers == \A t \in Ticks : escrows[t] >= Owed(t)

\* The tokens of the exchange are all there and all spoken for at most once.
TokensAreAccounted == SupplyConserved /\ EscrowCovers

\* Rounding, running remainders and several makers in one pass never fill an order beyond
\* what it offered or asked for, and a fill respects the limit price of both orders up to
\* the rounding of one unit, the maker's too although it is computed at the taker's price
\* (computeFillAmounts, hasFillRoom).
FillWithinLimits ==
    /\ \A i \in DOMAIN orders :
          GiveRemaining(matches, i) >= 0 /\ GetRemaining(matches, i) >= 0
    /\ \A k \in DOMAIN matches :
          LET m == matches[k]
              i == orders[m.taker]
              j == orders[m.maker]
          IN  /\ (2 * m.give - 1) * i.getAmount <= (2 * m.get + 1) * i.giveAmount
              /\ (2 * m.get - 1) * j.getAmount <= (2 * m.give + 1) * j.giveAmount

\* Between handlers the book is uncrossed: no open order could still trade as taker with
\* an older open order, whatever was filled, cancelled, paid or expired since it came.
BookIsUncrossed ==
    phase # "match" =>
        \A i, j \in DOMAIN orders :
            ~ /\ j < i /\ orders[i].status = "open"
              /\ j \in FindOrderMatches(orders, i)
              /\ Fillable(i, j)

\* Matching gives nobody less than the limit of the order and leaves no trade
\* undone that both sides asked for.
FillsAreFair == FillWithinLimits /\ BookIsUncrossed

\* A seller left 'cancelling' or 'expiring' is waiting for a payment; the settlement or
\* expiry of its last obligation finalizes it in the same action.
SellersAreFinalized ==
    \A i \in DOMAIN orders :
        orders[i].status \in {"cancelling", "expiring"} /\ orders[i].give # Coin
            => Pending(matches, i) # {}

\* A raised ownership gate names a live offer of that tick whose seller owns it.
GateNamesLiveOffer ==
    \A t \in Ticks : gate[t] # 0 =>
        LET o == orders[gate[t]] IN
        o.status \in Live /\ o.giveOwn /\ o.give = t /\ o.source = owner[t]

\* No order waits for a payment that nobody owes, and no token is gated by an
\* offer that is over.
NothingDangles == SellersAreFinalized /\ GateNamesLiveOffer

\* A seller waiting in a two-phase cancel or expiry is closed in the end, paid or not.
WaitingSellersFinish ==
    \A i \in 1 .. MaxOrders :
        (/\ i \in DOMAIN orders /\ orders[i].give # Coin
         /\ orders[i].status \in {"cancelling", "expiring"})
            ~> (i \in DOMAIN orders /\ orders[i].status \in Final)

-----------------------------------------------------------------------------
(* What the repository says of the exchange and the handlers do not do.    *)

\* While an ownership offer can still be filled, tokens.owner_id stays with its seller
\* (order/settle.js: admin actions are gated until the offer ends).
OwnershipStaysWithSeller ==
    \A i \in DOMAIN orders :
        orders[i].status \in Live /\ orders[i].giveOwn /\ GiveRemaining(matches, i) > 0
            => owner[orders[i].give] = orders[i].source

\* The token leg of a lapsed match of a swept order goes to the SWEEP destination
\* (coinpay_expire.js openExpireAction), never back to the seller.
SweptLegFollowsSweep ==
    [][\A k \in DOMAIN matches :
          LET o == orders[SellerOf(matches[k])] IN
          (/\ matches[k].obligation = "pending_coinpay" /\ matches'[k].obligation = "expired"
           /\ o.sweep \notin {Nobody, o.source} /\ ~o.giveOwn)
              => balances'[o.source][o.give] = balances[o.source][o.give]]_vars
=============================================================================
