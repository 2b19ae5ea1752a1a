----------------------------- MODULE OrdersLaws -----------------------------
(***************************************************************************)
(* What the proofs of OrdersBook and OrdersLedger take from sums over      *)
(* finite sets and from the rows of the exchange. The laws are formulas    *)
(* here, not theorems: the lemmas of OrdersRows state them one by one,     *)
(* OrdersProofs concludes the laws from the lemmas, and the proofs in      *)
(* between see the few laws and not the many lemmas.                       *)
(***************************************************************************)
EXTENDS OrdersInv

\* The empty sum.
SumEmptyLaw ==
    \A f :
        Sum(f, {}) = 0

\* The sum of integers is an integer.
SumTypeLaw ==
    \A f, S :
        (/\ IsFiniteSet(S)
         /\ \A x \in S : f[x] \in Int)
        => Sum(f, S) \in Int

\* An element more adds its value.
SumAddLaw ==
    \A f, S, x :
        (/\ IsFiniteSet(S)
         /\ x \notin S
         /\ \A y \in S \cup {x} : f[y] \in Int)
        => Sum(f, S \cup {x}) = Sum(f, S) + f[x]

\* The sum depends only on the values at the elements.
SumAgreeLaw ==
    \A f, g, S :
        (/\ IsFiniteSet(S)
         /\ \A x \in S : f[x] = g[x])
        => Sum(f, S) = Sum(g, S)

\* A change at one element changes the sum by as much.
SumUpdateLaw ==
    \A f, g, S : \A x \in S :
        (/\ IsFiniteSet(S)
         /\ \A y \in S : f[y] \in Int /\ g[y] \in Int
         /\ \A y \in S : y # x => g[y] = f[y])
        => Sum(g, S) = Sum(f, S) - f[x] + g[x]

\* The sum of pointwise sums.
SumPlusLaw ==
    \A f, g, h, S :
        (/\ IsFiniteSet(S)
         /\ \A x \in S : f[x] \in Int /\ g[x] \in Int /\ h[x] = f[x] + g[x])
        => Sum(h, S) = Sum(f, S) + Sum(g, S)

\* Summing over a part is summing a function that is 0 elsewhere over the whole.
SumOfPartLaw ==
    \A f, g, S : \A T \in SUBSET S :
        (/\ IsFiniteSet(S)
         /\ \A x \in T : f[x] \in Int /\ g[x] = f[x]
         /\ \A x \in S \ T : g[x] = 0)
        => Sum(g, S) = Sum(f, T)

\* SumFunction adds up all the values of a function.
SumFunctionIsSumLaw ==
    \A f, S :
        DOMAIN f = S => SumFunction(f) = Sum(f, S)

\* Numbered rows are finitely many.
IntervalIsFiniteLaw ==
    \A n \in Nat :
        IsFiniteSet(1 .. n)

\* A part of a finite set is finite.
PartIsFiniteLaw ==
    \A S : \A T \in SUBSET S :
        IsFiniteSet(S) => IsFiniteSet(T)

\* The fields of a match row have their types.
MatchRowFieldsLaw ==
    \A ms \in Seq(MatchRow) : \A k \in 1 .. Len(ms) :
        /\ ms[k] \in MatchRow
        /\ ms[k].taker \in Nat /\ ms[k].maker \in Nat
        /\ ms[k].give \in Nat /\ ms[k].get \in Nat
        /\ ms[k].status \in {"valid", "pending_coinpay"}
        /\ ms[k].obligation \in {"none", "pending_coinpay", "fulfilled", "expired"}
        /\ ms[k].expiration \in Nat

\* A match moves natural amounts on both sides.
MatchAmountsLaw ==
    \A ms \in Seq(MatchRow) : \A i : \A k \in 1 .. Len(ms) :
        GivenBy(ms[k], i) \in Nat /\ GottenBy(ms[k], i) \in Nat

\* What an order has given and gotten are natural numbers.
GivenTypeLaw ==
    \A ms \in Seq(MatchRow) : \A i :
        Given(ms, i) \in Nat /\ Gotten(ms, i) \in Nat

\* A settled or lapsed obligation leaves the amounts of its match as they are.
GivenIsKeptLaw ==
    \A ms, new \in Seq(MatchRow) : \A i :
        (/\ Len(new) = Len(ms)
         /\ \A k \in 1 .. Len(ms) : /\ new[k].taker = ms[k].taker /\ new[k].maker = ms[k].maker
                                     /\ new[k].give = ms[k].give /\ new[k].get = ms[k].get)
        => Given(new, i) = Given(ms, i) /\ Gotten(new, i) = Gotten(ms, i)

\* The fields of an order row have their types.
OrderRowFieldsLaw ==
    \A os \in Seq(OrderRow) : \A i \in 1 .. Len(os) :
        /\ os[i] \in OrderRow
        /\ os[i].source \in Addresses
        /\ os[i].give \in Ticks \cup {Coin} /\ os[i].get \in Ticks \cup {Coin}
        /\ os[i].giveAmount \in Nat \ {0} /\ os[i].getAmount \in Nat \ {0}
        /\ os[i].giveOwn \in BOOLEAN /\ os[i].getOwn \in BOOLEAN
        /\ os[i].status \in Live \cup Final /\ os[i].sweep \in Addresses \cup {Nobody}

\* Every row has its own payload.
SameOfferReflLaw ==
    \A o :
        SameOffer(o, o)

\* An unchanged book keeps its rows.
RowsStayLaw ==
    \A os \in Seq(OrderRow) :
        RowsKept(os, os)

\* Unchanged matches keep their amounts.
MatchesStayLaw ==
    \A ms \in Seq(MatchRow) :
        AmountsKept(ms, ms)

\* The rows of the book and of the matches are numbered from 1.
DomainsLaw ==
    BookTypes
    => /\ orders \in Seq(OrderRow) /\ DOMAIN orders = 1 .. Len(orders) /\ Len(orders) \in Nat
       /\ matches \in Seq(MatchRow) /\ DOMAIN matches = 1 .. Len(matches) /\ Len(matches) \in Nat

\* What CancelOrder and OrderExpire do to the rows: one open order waits, or is closed
\* and handed its give side.
CancelEffectLaw ==
    \A i \in DOMAIN orders :
        (/\ BookTypes
         /\ CancelOrder(i) \/ OrderExpire(i))
        => /\ RowsKept(orders, orders') /\ orders[i].status = "open"
           /\ \A j \in DOMAIN orders : j # i => orders'[j] = orders[j]
           /\ Pending(matches, i) # {} => orders'[i].status \in {"cancelling", "expiring"} /\ UNCHANGED ledger
           /\ Pending(matches, i) = {} => orders'[i].status \in Final /\ ReturnGiveSide(i)
           /\ UNCHANGED <<matches, now, phase, matching>> /\ phase # "match"

\* EditOrder changes neither the payload nor the status of an order.
EditEffectLaw ==
    \A i \in DOMAIN orders : \A life \in Lifetimes :
        (/\ BookTypes
         /\ Lifetimes \subseteq Nat
         /\ EditOrder(i, life))
        => /\ RowsKept(orders, orders') /\ orders[i].status = "open"
           /\ \A j \in DOMAIN orders : orders'[j].status = orders[j].status

\* SweepOrders closes the open orders of one source, or lets them wait for their payments.
SweepEffectLaw ==
    \A a, dest \in Addresses :
        (/\ BookTypes
         /\ SweepOrders(a, dest))
        => /\ RowsKept(orders, orders')
           /\ \A i \in DOMAIN orders :
                 LET open == orders[i].status = "open" /\ orders[i].source = a IN
                 /\ open /\ Pending(matches, i) # {} => orders'[i].status = "cancelling"
                 /\ open /\ Pending(matches, i) = {} => orders'[i].status = "cancelled"
                 /\ ~open => orders'[i] = orders[i]

\* The two sides of a coin match: the seller gives a token, the buyer the coin.
SellerAndBuyerLaw ==
    \A k \in DOMAIN matches : \A s, b :
        (/\ BookTypes
         /\ OffersAreReal
         /\ MatchesJoin
         /\ matches[k].obligation # "none"
         /\ s = SellerOf(matches[k])
         /\ b = BuyerOf(matches[k]))
        => /\ s \in DOMAIN orders /\ b \in DOMAIN orders /\ s # b
           /\ {matches[k].taker, matches[k].maker} = {s, b}
           /\ orders[s].give \in Ticks /\ orders[s].give # Coin
           /\ orders[b].give = Coin /\ ~orders[b].giveOwn

\* What Coinpay does to the rows: one obligation is fulfilled, its seller is finalized if it
\* waited for it, and seller and buyer complete when nothing is left of them.
CoinpayEffectLaw ==
    \A k \in DOMAIN matches : \A s, b :
        (/\ BookTypes
         /\ OffersAreReal
         /\ MatchesJoin
         /\ Coinpay(k)
         /\ s = SellerOf(matches[k])
         /\ b = BuyerOf(matches[k]))
        => /\ RowsKept(orders, orders') /\ AmountsKept(matches, matches')
           /\ matches[k].obligation = "pending_coinpay" /\ matches'[k].obligation = "fulfilled"
           /\ \A l \in DOMAIN matches : l # k => matches'[l] = matches[l]
           /\ \A i \in DOMAIN orders : i \notin {s, b} => orders'[i].status = orders[i].status
           /\ Finalizes(matches', s) => orders'[s].status \in Final
           /\ ~Finalizes(matches', s) => orders'[s].status \in {orders[s].status, "complete"}

\* What CoinpayExpire does to the rows: one obligation lapses and only its seller can be
\* finalized.
CoinpayExpireEffectLaw ==
    \A k \in DOMAIN matches : \A s :
        (/\ BookTypes
         /\ OffersAreReal
         /\ MatchesJoin
         /\ CoinpayExpire(k)
         /\ s = SellerOf(matches[k]))
        => /\ RowsKept(orders, orders') /\ AmountsKept(matches, matches')
           /\ matches[k].obligation = "pending_coinpay" /\ matches'[k].obligation = "expired"
           /\ \A l \in DOMAIN matches : l # k => matches'[l] = matches[l]
           /\ \A i \in DOMAIN orders : i # s => orders'[i] = orders[i]
           /\ Finalizes(matches', s) => orders'[s].status \in Final
           /\ ~Finalizes(matches', s) => orders'[s].status = orders[s].status

\* The remainders of an order are those of the book and matches at hand.
RemainsIsGivesLaw ==
    \A i :
        /\ GiveRemaining(matches, i) = Gives(orders, matches, i)
        /\ GetRemaining(matches, i) = Gets(orders, matches, i)
        /\ GiveRemaining(matches, i)' = Gives(orders', matches', i)
        /\ GetRemaining(matches, i)' = Gets(orders', matches', i)

\* The gates of fillMatch are those of the book and matches at hand.
FillableIsTradesLaw ==
    \A i, j :
        /\ Fillable(i, j) <=> Trades(orders, matches, i, j)
        /\ Fillable(i, j)' <=> Trades(orders', matches', i, j)

\* Remainders are integers within what was offered.
RemainderTypesLaw ==
    \A os \in Seq(OrderRow) : \A ms \in Seq(MatchRow) : \A i \in 1 .. Len(os) :
        /\ Gives(os, ms, i) \in Int /\ Gets(os, ms, i) \in Int
        /\ Gives(os, ms, i) <= os[i].giveAmount /\ Gets(os, ms, i) <= os[i].getAmount

\* Two orders that can trade could trade before their remainders shrank.
TradedBeforeLaw ==
    \A os, new \in Seq(OrderRow) : \A ms, mn \in Seq(MatchRow) : \A i, j \in 1 .. Len(os) :
        (/\ i \in 1 .. Len(new)
         /\ j \in 1 .. Len(new)
         /\ SameOffer(new[i], os[i])
         /\ SameOffer(new[j], os[j])
         /\ \A x \in {i, j} : Given(ms, x) <= Given(mn, x) /\ Gotten(ms, x) <= Gotten(mn, x)
         /\ Trades(new, mn, i, j))
        => Trades(os, ms, i, j)

\* What a new match takes from the remainders.
RemaindersAfterMatchLaw ==
    \A i, j \in DOMAIN orders : \A m \in MatchRow :
        (/\ BookTypes
         /\ RowsKept(orders, orders')
         /\ i # j
         /\ m.taker = i
         /\ m.maker = j
         /\ matches' = Append(matches, m))
        => /\ matches' \in Seq(MatchRow)
           /\ GiveRemaining(matches, i)' = GiveRemaining(matches, i) - m.give
           /\ GetRemaining(matches, i)' = GetRemaining(matches, i) - m.get
           /\ GiveRemaining(matches, j)' = GiveRemaining(matches, j) - m.get
           /\ GetRemaining(matches, j)' = GetRemaining(matches, j) - m.give
           /\ \A x \in DOMAIN orders \ {i, j} :
                 /\ GiveRemaining(matches, x)' = GiveRemaining(matches, x)
                 /\ GetRemaining(matches, x)' = GetRemaining(matches, x)
           /\ \A x \in DOMAIN orders : /\ Given(matches, x) <= Given(matches', x)
                                       /\ Gotten(matches, x) <= Gotten(matches', x)

\* The fill of two orders that can trade.
FairFillLaw ==
    \A i, j \in DOMAIN orders : \A f :
        (/\ BookTypes
         /\ Fillable(i, j)
         /\ f = ComputeFillAmounts(i, j))
        => /\ f.give \in Nat /\ f.get \in Nat /\ f.give > 0 /\ f.get > 0
           /\ f.give <= GiveRemaining(matches, i) /\ f.give <= GetRemaining(matches, j)
           /\ f.get <= GetRemaining(matches, i) /\ f.get <= GiveRemaining(matches, j)
           /\ \/ f.give = GiveRemaining(matches, i) \/ f.give = GetRemaining(matches, j)
              \/ f.get = GetRemaining(matches, i) \/ f.get = GiveRemaining(matches, j)
           /\ PriceKept(f, orders[i], orders[j])

\* Remainders are integers.
RemaindersAreIntegersLaw ==
    \A i \in DOMAIN orders :
        BookTypes => GiveRemaining(matches, i) \in Int /\ GetRemaining(matches, i) \in Int

\* The passes of a block differ.
PhasesDifferLaw ==
    "txs" # "match" /\ "orders" # "match" /\ "coinpays" # "match"

\* During a pass the taker and its candidates are different orders of the book.
PassFactsLaw ==
    \A c \in candidates :
        (/\ BookInv
         /\ phase = "match")
        => /\ taker \in DOMAIN orders /\ c \in DOMAIN orders /\ taker # c
           /\ orders[taker].status = "open" \/ TakerExhausted
           /\ candidates \subseteq FindOrderMatches(orders, taker)
           /\ orders[c].status = "open" /\ orders[c].giveOwn = orders[taker].getOwn
           /\ orders[c].getOwn = orders[taker].giveOwn

\* The row a fill adds.
MatchOfPassLaw ==
    \A c \in candidates : \A f :
        (/\ BookInv
         /\ OrdersAssumption
         /\ phase = "match"
         /\ Fillable(taker, c)
         /\ f = ComputeFillAmounts(taker, c))
        => /\ IsMatchRow(NewMatch(taker, c, f, TRUE), taker, c, f, "pending_coinpay")
           /\ IsMatchRow(NewMatch(taker, c, f, FALSE), taker, c, f, "none")

\* What an instant settlement does to the rows: the two orders complete when they are done.
InstantEffectLaw ==
    \A c \in DOMAIN orders :
        (/\ BookTypes
         /\ taker \in DOMAIN orders
         /\ SettleInstantly(c))
        => /\ RowsKept(orders, orders')
           /\ \A k \in DOMAIN orders \ {taker, c} : orders'[k] = orders[k]
           /\ \A k \in {taker, c} : orders'[k].status \in {orders[k].status, "complete"}
           /\ orders'[taker].status = orders[taker].status \/ TakerExhausted'

\* What a user offers has the types of a payload.
OfferIsRealLaw ==
    \A o \in UNION Markets :
        OrdersAssumption
        => /\ o.source \in Addresses /\ o.give \in Ticks \cup {Coin} /\ o.get \in Ticks \cup {Coin}
           /\ o.give # o.get /\ o.giveAmount \in Nat \ {0} /\ o.getAmount \in Nat \ {0}
           /\ o.giveOwn \in BOOLEAN /\ o.getOwn \in BOOLEAN /\ (o.giveOwn => o.give # Coin)

\* What CreateOrder does to the rows: one open order joins the book, its match pass begins, and
\* nothing has been given or gotten for it.
CreateEffectLaw ==
    \A o \in UNION Markets : \A life \in Lifetimes : \A n :
        (/\ BookInv
         /\ OrdersAssumption
         /\ CreateOrder(o, life)
         /\ n = Len(orders) + 1)
        => /\ OrderJoins(n, o) /\ PassBegins(n) /\ UNCHANGED <<matches, now>>
           /\ Given(matches, n) = 0 /\ Gotten(matches, n) = 0

\* An order is live or final.
LiveOrFinalLaw ==
    /\ \A s : s \in Final => s \notin Live /\ s # "open"
    /\ {"open", "cancelling", "expiring"} = Live

\* The laws of sums.
SumLaws ==
    /\ SumEmptyLaw /\ SumTypeLaw /\ SumAddLaw /\ SumAgreeLaw
    /\ SumUpdateLaw /\ SumPlusLaw /\ SumOfPartLaw /\ SumFunctionIsSumLaw
    /\ IntervalIsFiniteLaw /\ PartIsFiniteLaw

\* The laws of the rows.
RowLaws ==
    /\ MatchRowFieldsLaw /\ MatchAmountsLaw /\ GivenTypeLaw /\ GivenIsKeptLaw
    /\ OrderRowFieldsLaw /\ SameOfferReflLaw /\ RowsStayLaw /\ MatchesStayLaw
    /\ DomainsLaw /\ CancelEffectLaw /\ EditEffectLaw /\ SweepEffectLaw
    /\ SellerAndBuyerLaw /\ CoinpayEffectLaw /\ CoinpayExpireEffectLaw /\ RemainsIsGivesLaw
    /\ FillableIsTradesLaw /\ RemainderTypesLaw /\ TradedBeforeLaw /\ RemaindersAfterMatchLaw
    /\ FairFillLaw /\ RemaindersAreIntegersLaw /\ PhasesDifferLaw /\ PassFactsLaw
    /\ MatchOfPassLaw /\ InstantEffectLaw /\ OfferIsRealLaw /\ CreateEffectLaw
    /\ LiveOrFinalLaw
=============================================================================
