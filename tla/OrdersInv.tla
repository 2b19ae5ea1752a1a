----------------------------- MODULE OrdersInv ------------------------------
(***************************************************************************)
(* The inductive invariant of the book of the exchange, BookInv: the types *)
(* of its rows, the matches that join them, the remainders and the pass    *)
(* that is running; and the relations between two states in which          *)
(* OrdersRows, OrdersBook and OrdersLedger are told.                       *)
(***************************************************************************)
EXTENDS Orders, Functions

\* The sum of f over a finite set.
Sum(f, S) == SumFunctionOnSet(f, S)

\* What computeFillAmounts makes of its two bounds and the taker's price.
FillOf(maxGive, maxGet, p, q) ==
    IF maxGet * p > maxGive * q
    THEN [give |-> maxGive, get |-> BcRound(maxGive * q, p)]
    ELSE [give |-> BcRound(maxGet * p, q), get |-> maxGet]

\* A row of the table orders, and one of order_matches.
OrderRow ==
    [source : Addresses, give : Ticks \cup {Coin}, get : Ticks \cup {Coin},
     giveAmount : Nat \ {0}, getAmount : Nat \ {0}, giveOwn : BOOLEAN, getOwn : BOOLEAN,
     expiration : Nat, status : Live \cup Final, sweep : Addresses \cup {Nobody}]

MatchRow ==
    [taker : Nat, maker : Nat, give : Nat, get : Nat,
     status : {"valid", "pending_coinpay"},
     obligation : {"none", "pending_coinpay", "fulfilled", "expired"}, expiration : Nat]

BookTypes ==
    /\ orders \in Seq(OrderRow) /\ matches \in Seq(MatchRow) /\ now \in Nat
    /\ phase \in {"txs", "match", "orders", "coinpays"}
    /\ taker \in Nat /\ candidates \subseteq DOMAIN orders

\* No order swaps a tick for itself, and the coin has no ownership to give.
OffersAreReal ==
    \A i \in DOMAIN orders : orders[i].give # orders[i].get /\ (orders[i].giveOwn => orders[i].give # Coin)

\* A match joins two orders of opposite markets; one that waits for a payment has the coin on a side.
MatchesJoin ==
    \A k \in DOMAIN matches :
        LET m == matches[k] IN
        /\ m.taker \in DOMAIN orders /\ m.maker \in DOMAIN orders /\ m.taker # m.maker
        /\ orders[m.taker].give = orders[m.maker].get
        /\ orders[m.taker].get = orders[m.maker].give
        /\ m.obligation # "none" => Coin \in {orders[m.taker].give, orders[m.taker].get}

\* A running match pass has an open taker, or one that it has just exhausted.
PassIsOpen ==
    phase = "match" =>
        /\ taker \in DOMAIN orders
        /\ orders[taker].status = "open" \/ TakerExhausted
        /\ candidates \subseteq FindOrderMatches(orders, taker)

\* No order has given or gotten more than it offered or asked for.
WithinOffer ==
    \A i \in DOMAIN orders : GiveRemaining(matches, i) >= 0 /\ GetRemaining(matches, i) >= 0

\* Two orders that could trade are the taker of the pass and a maker it has still to try.
CrossedOnlyInPass ==
    \A i, j \in DOMAIN orders :
        (/\ j < i /\ orders[i].status = "open" /\ j \in FindOrderMatches(orders, i)
         /\ Fillable(i, j)) => (phase = "match" /\ i = taker /\ j \in candidates)

\* Two order rows with the same payload.
SameOffer(o, p) ==
    /\ o.source = p.source /\ o.give = p.give /\ o.get = p.get
    /\ o.giveAmount = p.giveAmount /\ o.getAmount = p.getAmount
    /\ o.giveOwn = p.giveOwn /\ o.getOwn = p.getOwn

\* What a step that creates no order does to the book: payloads stay, nothing reopens.
RowsKept(os, new) ==
    /\ new \in Seq(OrderRow) /\ Len(new) = Len(os)
    /\ \A i \in 1 .. Len(os) : /\ SameOffer(new[i], os[i])
                               /\ new[i].status = "open" => os[i].status = "open"

\* What a step that makes no match does to the matches.
AmountsKept(ms, new) ==
    /\ new \in Seq(MatchRow) /\ Len(new) = Len(ms)
    /\ \A k \in 1 .. Len(ms) :
          /\ new[k].taker = ms[k].taker /\ new[k].maker = ms[k].maker
          /\ new[k].give = ms[k].give /\ new[k].get = ms[k].get
          /\ new[k].obligation # "none" => ms[k].obligation # "none"

\* What order i still gives and gets in the book os with the matches ms.
Gives(os, ms, i) == os[i].giveAmount - Given(ms, i)
Gets(os, ms, i)  == os[i].getAmount - Gotten(ms, i)

\* computeFillAmounts and fillMatch's gates, of a book and its matches.
FillOn(os, ms, i, j) ==
    FillOf(Min({Gets(os, ms, j), Gives(os, ms, i)}), Min({Gives(os, ms, j), Gets(os, ms, i)}),
           os[i].giveAmount, os[i].getAmount)

Room(os, ms, i, j) ==
    /\ \A x \in {i, j} : Gives(os, ms, x) > 0 /\ Gets(os, ms, x) > 0
    /\ os[i].getAmount * os[j].getAmount <= os[j].giveAmount * os[i].giveAmount

Exact(os, i, fill) ==
    (os[i].giveOwn \/ os[i].getOwn)
        => fill.give = os[i].giveAmount /\ fill.get = os[i].getAmount

Trades(os, ms, i, j) ==
    /\ os[i].give = os[j].get /\ os[i].get = os[j].give
    /\ Room(os, ms, i, j)
    /\ FillOn(os, ms, i, j).give > 0 /\ FillOn(os, ms, i, j).get > 0
    /\ Exact(os, i, FillOn(os, ms, i, j))
    /\ <<OfferOf(os[i]), OfferOf(os[j])>> \notin Refused

\* Every match keeps the limit price of its two orders up to the rounding of one unit.
PriceKept(m, i, j) ==
    /\ (2 * m.give - 1) * i.getAmount <= (2 * m.get + 1) * i.giveAmount
    /\ (2 * m.get - 1) * j.getAmount <= (2 * m.give + 1) * j.giveAmount

PricesKept == \A k \in DOMAIN matches : PriceKept(matches[k], orders[matches[k].taker], orders[matches[k].maker])

Book == OffersAreReal /\ MatchesJoin /\ WithinOffer /\ PricesKept

BookInv == BookTypes /\ Book /\ PassIsOpen /\ CrossedOnlyInPass

BookGoal == BookTypes' /\ Book' /\ PassIsOpen' /\ CrossedOnlyInPass'

\* m is the row of a match of i with j at the fill f.
IsMatchRow(m, i, j, f, ob) ==
    m \in MatchRow /\ m.taker = i /\ m.maker = j /\ m.give = f.give /\ m.get = f.get /\ m.obligation = ob

\* Order n joins the book, open, with the payload o.
OrderJoins(n, o) ==
    /\ orders' \in Seq(OrderRow) /\ n \in Nat /\ n \notin DOMAIN orders
    /\ DOMAIN orders' = DOMAIN orders \cup {n} /\ Len(orders') = n
    /\ \A i \in DOMAIN orders : orders'[i] = orders[i] /\ i < n
    /\ orders'[n].status = "open" /\ SameOffer(orders'[n], o)

\* ... and its match pass begins.
PassBegins(n) ==
    phase = "txs" /\ phase' = "match" /\ taker' = n /\ candidates' = FindOrderMatches(orders', n)

\* The types of the ledger.
LedgerTypes ==
    /\ balances \in [Addresses -> [Ticks -> Int]] /\ escrows \in [Ticks -> Int]
    /\ owner \in [Ticks -> Addresses] /\ gate \in [Ticks -> Nat]
=============================================================================
