------------------------------ MODULE MCOrders ------------------------------
(* Instances of Orders: token trades, coin trades and ownership trades.    *)
EXTENDS Orders

CONSTANTS ann, bob, cat, T, U, coin, nobody

Offer(s, give, n, get, m) ==
    [source |-> s, give |-> give, get |-> get, giveAmount |-> n, getAmount |-> m,
     giveOwn |-> FALSE, getOwn |-> FALSE]

\* Ownership of t offered for n units of get, and the mirror offer.
Deed(s, t, get, n) ==
    [source |-> s, give |-> t, get |-> get, giveAmount |-> 1, getAmount |-> n,
     giveOwn |-> TRUE, getOwn |-> FALSE]
DeedBid(s, t, give, n) ==
    [source |-> s, give |-> give, get |-> t, giveAmount |-> n, getAmount |-> 1,
     giveOwn |-> FALSE, getOwn |-> TRUE]

\* Prices that cross with room to spare, prices that only just cross, partial fills and
\* fills that round.
TokenOffers ==
    {Offer(ann, T, 3, U, 2), Offer(bob, U, 3, T, 4), Offer(bob, U, 4, T, 2),
     Offer(cat, U, 2, T, 2), Offer(cat, T, 3, U, 2)}

CoinOffers ==
    {Offer(ann, T, 3, coin, 2), Offer(bob, coin, 1, T, 1)}

SweepOffers == {Offer(ann, T, 2, coin, 2), Offer(bob, coin, 1, T, 1)}

\* bob may sell on, for tokens, what they buy for coin; ownership sold for tokens at once.
DeedOffers ==
    {Deed(ann, T, coin, 1), DeedBid(bob, T, coin, 1), Deed(bob, T, U, 1)}
InstantDeeds == {Deed(ann, T, U, 1), DeedBid(cat, T, U, 1)}

GateOffers == {Deed(ann, T, coin, 1), DeedBid(bob, T, coin, 1)}

Rich == [x \in Addresses |-> [t \in Ticks |-> 4]]
OwnedByAnn == [t \in Ticks |-> ann]
CatRefusesAnn ==
    {p \in TokenOffers \X TokenOffers : p[1].source = ann /\ p[2].source = cat}
NoneRefused == {}

AllMarkets  == {TokenOffers, CoinOffers, DeedOffers, InstantDeeds}
SweepMarket == {SweepOffers}
GateMarket  == {GateOffers}
=============================================================================
