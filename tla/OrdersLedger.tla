---------------------------- MODULE OrdersLedger ----------------------------
(***************************************************************************)
(* The ledger of the exchange, for any number of orders: every operation   *)
(* keeps the inductive invariant behind TokensAreAccounted, that nothing   *)
(* is minted or burnt and that the escrow of a tick holds at least what    *)
(* the orders and pending matches can still draw. Each operation takes out *)
(* of an escrow no more than what some order or match can draw less        *)
(* afterwards.                                                             *)
(***************************************************************************)
EXTENDS OrdersLaws, TLAPS

-----------------------------------------------------------------------------
(* Sums that differ in one place.                                          *)

DifferAt(f, g, S, x) ==
    /\ x \in S /\ \A y \in S : f[y] \in Int /\ g[y] \in Int
    /\ \A y \in S : y # x => g[y] = f[y]

\* A sum in which one term changes moves by that change.
LEMMA SumMoves ==
  ASSUME SumLaws, NEW f, NEW g, NEW S, IsFiniteSet(S), NEW x, DifferAt(f, g, S, x)
  PROVE  Sum(f, S) \in Int /\ Sum(g, S) = Sum(f, S) - f[x] + g[x]
<1>1. x \in S /\ (\A y \in S : f[y] \in Int /\ g[y] \in Int) /\ \A y \in S : y # x => g[y] = f[y]
  BY Zenon DEF DifferAt
<1>2. Sum(g, S) = Sum(f, S) - f[x] + g[x]
  BY <1>1 DEF SumLaws, SumUpdateLaw
<1> QED BY <1>1, <1>2 DEF SumLaws, SumTypeLaw

\* A function updated at one place with a value of its range.
LEMMA Written ==
  ASSUME NEW S, NEW T, NEW f \in [S -> T], NEW x, NEW y \in T
  PROVE  [f EXCEPT ![x] = y] \in [S -> T]
BY Zenon

\* The rows of a table are finitely many.
LEMMA RowsAreFinite ==
  ASSUME SumLaws, NEW os \in Seq(OrderRow), NEW ms \in Seq(MatchRow)
  PROVE  IsFiniteSet(1 .. Len(os)) /\ IsFiniteSet(1 .. Len(ms))
BY DEF SumLaws, IntervalIsFiniteLaw

(* What balances and escrows add up to.                                    *)

Column(bal, t) == Sum([a \in Addresses |-> bal[a][t]], Addresses)

\* What all addresses hold of a tick is an integer.
LEMMA ColumnType ==
  ASSUME SumLaws, IsFiniteSet(Addresses), NEW bal \in [Addresses -> [Ticks -> Int]], NEW t \in Ticks
  PROVE  Column(bal, t) \in Int
<1> DEFINE f == [a \in Addresses |-> bal[a][t]]
<1>1. \A a \in Addresses : f[a] \in Int
  OBVIOUS
<1> HIDE DEF f
<1>2. Sum(f, Addresses) \in Int
  BY Zenon, <1>1 DEF SumLaws, SumTypeLaw
<1> QED BY Zenon, <1>2 DEF Column, f

\* The balances `new` are bal with n more units of t.
Credited(bal, new, t, n) ==
    /\ new \in [Addresses -> [Ticks -> Int]]
    /\ Column(new, t) = Column(bal, t) + n
    /\ \A u \in Ticks : u # t => Column(new, u) = Column(bal, u)

\* A credit adds to the balances of one tick and to no other.
LEMMA CreditIsMade ==
  ASSUME SumLaws, IsFiniteSet(Addresses), NEW bal \in [Addresses -> [Ticks -> Int]],
         NEW a \in Addresses, NEW t \in Ticks, NEW n \in Int, NEW new, new = Credit(bal, a, t, n)
  PROVE  Credited(bal, new, t, n)
<1>1. /\ new \in [Addresses -> [Ticks -> Int]]
      /\ new[a][t] = bal[a][t] + n
      /\ \A b \in Addresses, u \in Ticks : b # a \/ u # t => new[b][u] = bal[b][u]
  BY DEF Credit
<1>2. Column(new, t) = Column(bal, t) + n
  <2> DEFINE f == [b \in Addresses |-> bal[b][t]]
             g == [b \in Addresses |-> new[b][t]]
  <2>1. /\ \A b \in Addresses : f[b] \in Int /\ g[b] \in Int
        /\ \A b \in Addresses : b # a => g[b] = f[b]
        /\ g[a] = f[a] + n
    BY <1>1
  <2> HIDE DEF f, g
  <2>2. DifferAt(f, g, Addresses, a)
    BY Zenon, <2>1 DEF DifferAt
  <2>3. Sum(f, Addresses) \in Int /\ Sum(g, Addresses) = Sum(f, Addresses) - f[a] + g[a]
    BY Zenon, <2>2, SumMoves
  <2>4. Sum(g, Addresses) = Sum(f, Addresses) + n
    BY <2>1, <2>3
  <2> QED BY Zenon, <2>4 DEF Column, f, g
<1>3. ASSUME NEW u \in Ticks, u # t PROVE Column(new, u) = Column(bal, u)
  <2> DEFINE f == [b \in Addresses |-> bal[b][u]]
             g == [b \in Addresses |-> new[b][u]]
  <2>1. \A b \in Addresses : g[b] = f[b]
    BY <1>1, <1>3
  <2> HIDE DEF f, g
  <2>2. Sum(g, Addresses) = Sum(f, Addresses)
    BY <2>1 DEF SumLaws, SumAgreeLaw
  <2> QED BY Zenon, <2>2 DEF Column, f, g
<1> QED BY Zenon, <1>1, <1>2, <1>3 DEF Credited

\* SupplyConserved, tick by tick.
LEMMA SupplyIsColumns ==
  ASSUME SumLaws
  PROVE  /\ SupplyConserved <=> \A t \in Ticks : Column(balances, t) + escrows[t] = Column(InitialBalance, t)
         /\ SupplyConserved' <=> \A t \in Ticks : Column(balances', t) + escrows'[t] = Column(InitialBalance, t)
<1>1. ASSUME NEW bal, NEW t
      PROVE  SumFunction([a \in Addresses |-> bal[a][t]]) = Column(bal, t)
  <2> DEFINE f == [a \in Addresses |-> bal[a][t]]
  <2>1. DOMAIN f = Addresses
    BY Zenon
  <2> HIDE DEF f
  <2>2. SumFunction(f) = Sum(f, Addresses)
    BY Zenon, <2>1 DEF SumLaws, SumFunctionIsSumLaw
  <2> QED BY Zenon, <2>2 DEF Column, f
<1> QED BY Zenon, <1>1 DEF SupplyConserved

\* A step that moves as much out of the balances of each tick as into its escrow.
LEMMA SupplyIsKept ==
  ASSUME SumLaws, SupplyConserved,
         \A t \in Ticks : Column(balances', t) + escrows'[t] = Column(balances, t) + escrows[t]
  PROVE  SupplyConserved'
BY Zenon, SupplyIsColumns

-----------------------------------------------------------------------------
(* What the escrows owe.                                                   *)

SellerIn(os, m) == IF os[m.taker].give = Coin THEN m.maker ELSE m.taker

OfferDue(os, ms, t, i) ==
    IF os[i].status \in Live /\ os[i].give = t /\ ~os[i].giveOwn THEN Gives(os, ms, i) ELSE 0

MatchDue(os, ms, t, k) ==
    IF /\ ms[k].obligation = "pending_coinpay"
       /\ os[SellerIn(os, ms[k])].give = t /\ ~os[SellerIn(os, ms[k])].giveOwn
    THEN GivenBy(ms[k], SellerIn(os, ms[k])) ELSE 0

OffersDue(os, ms, t) == Sum([i \in 1 .. Len(os) |-> OfferDue(os, ms, t, i)], 1 .. Len(os))
MatchesDue(os, ms, t) == Sum([k \in 1 .. Len(ms) |-> MatchDue(os, ms, t, k)], 1 .. Len(ms))

\* What an order and a match can draw are integers.
LEMMA DueTypes ==
  ASSUME RowLaws, NEW os \in Seq(OrderRow), NEW ms \in Seq(MatchRow), NEW t
  PROVE  /\ \A i \in 1 .. Len(os) : OfferDue(os, ms, t, i) \in Int
         /\ \A k \in 1 .. Len(ms) : MatchDue(os, ms, t, k) \in Int
<1>1. ASSUME NEW i \in 1 .. Len(os) PROVE OfferDue(os, ms, t, i) \in Int
  <2>1. Gives(os, ms, i) \in Int
    BY Zenon DEF RowLaws, RemainderTypesLaw
  <2> QED BY <2>1 DEF OfferDue
<1>2. ASSUME NEW k \in 1 .. Len(ms) PROVE MatchDue(os, ms, t, k) \in Int
  <2>1. GivenBy(ms[k], SellerIn(os, ms[k])) \in Nat
    BY Zenon DEF RowLaws, MatchAmountsLaw
  <2> QED BY <2>1 DEF MatchDue
<1> QED BY Zenon, <1>1, <1>2

\* Every order outside X, or every match outside X, is due as much of t as before.
SameOffersDue(os, ms, new, mn, t, X) ==
    \A i \in (1 .. Len(os)) \ X : OfferDue(new, mn, t, i) = OfferDue(os, ms, t, i)

SameMatchesDue(os, ms, new, mn, t, X) ==
    \A k \in (1 .. Len(ms)) \ X : MatchDue(new, mn, t, k) = MatchDue(os, ms, t, k)

\* The sums change where one due changes.
LEMMA OffersDueMove ==
  ASSUME SumLaws, RowLaws, NEW os \in Seq(OrderRow), NEW ms \in Seq(MatchRow), NEW new \in Seq(OrderRow), NEW mn \in Seq(MatchRow),
         Len(new) = Len(os), NEW t, NEW x \in 1 .. Len(os),
         SameOffersDue(os, ms, new, mn, t, {x})
  PROVE  /\ OffersDue(os, ms, t) \in Int
         /\ OffersDue(new, mn, t) = OffersDue(os, ms, t) - OfferDue(os, ms, t, x) + OfferDue(new, mn, t, x)
<1> DEFINE S == 1 .. Len(os)
           f == [i \in S |-> OfferDue(os, ms, t, i)]
           g == [i \in S |-> OfferDue(new, mn, t, i)]
<1>1. IsFiniteSet(S)
  BY Zenon, RowsAreFinite
<1>2. /\ \A i \in S : f[i] \in Int /\ g[i] \in Int
      /\ \A i \in S : i # x => g[i] = f[i]
      /\ f[x] = OfferDue(os, ms, t, x) /\ g[x] = OfferDue(new, mn, t, x) /\ x \in S
  BY Zenon, DueTypes DEF SameOffersDue
<1>3. OffersDue(os, ms, t) = Sum(f, S) /\ OffersDue(new, mn, t) = Sum(g, S)
  BY Zenon DEF OffersDue
<1> HIDE DEF S, f, g
<1>4. Sum(g, S) = Sum(f, S) - f[x] + g[x] /\ Sum(f, S) \in Int
  <2>1. DifferAt(f, g, S, x)
    BY Zenon, <1>2 DEF DifferAt
  <2> QED BY Zenon, <1>1, <2>1, SumMoves
<1> QED BY Zenon, <1>2, <1>3, <1>4

\* The offers are due the same if every one of them is.
LEMMA OffersDueSame ==
  ASSUME SumLaws, RowLaws, NEW os \in Seq(OrderRow), NEW ms \in Seq(MatchRow), NEW new, NEW mn, Len(new) = Len(os), NEW t,
         SameOffersDue(os, ms, new, mn, t, {})
  PROVE  OffersDue(os, ms, t) \in Int /\ OffersDue(new, mn, t) = OffersDue(os, ms, t)
<1> DEFINE S == 1 .. Len(os)
           f == [i \in S |-> OfferDue(os, ms, t, i)]
           g == [i \in S |-> OfferDue(new, mn, t, i)]
<1>1. IsFiniteSet(S)
  BY Zenon, RowsAreFinite
<1>2. /\ \A i \in S : f[i] \in Int
      /\ \A i \in S : g[i] = f[i]
  BY Zenon, DueTypes DEF SameOffersDue
<1>3. OffersDue(os, ms, t) = Sum(f, S) /\ OffersDue(new, mn, t) = Sum(g, S)
  BY Zenon DEF OffersDue
<1> HIDE DEF S, f, g
<1>4. Sum(g, S) = Sum(f, S) /\ Sum(f, S) \in Int
  BY Zenon, <1>1, <1>2 DEF SumLaws, SumAgreeLaw, SumTypeLaw
<1> QED BY Zenon, <1>3, <1>4

\* n is the row after the last.
RowAppended(os, new, n) == n = Len(os) + 1 /\ Len(new) = n /\ \A i \in 1 .. Len(os) : new[i] = os[i]

\* A new offer adds what it can draw.
LEMMA OffersDueAppend ==
  ASSUME SumLaws, RowLaws, NEW os \in Seq(OrderRow), NEW ms \in Seq(MatchRow), NEW new \in Seq(OrderRow), NEW n,
         RowAppended(os, new, n), NEW t
  PROVE  /\ OffersDue(os, ms, t) \in Int /\ OfferDue(new, ms, t, n) \in Int
         /\ OffersDue(new, ms, t) = OffersDue(os, ms, t) + OfferDue(new, ms, t, n)
<1> DEFINE S == 1 .. Len(os)
           T == S \cup {n}
           f == [i \in S |-> OfferDue(os, ms, t, i)]
           g == [i \in T |-> OfferDue(new, ms, t, i)]
<1>0. n = Len(os) + 1 /\ Len(new) = n /\ \A i \in 1 .. Len(os) : new[i] = os[i]
  BY Zenon DEF RowAppended
<1>1. IsFiniteSet(S)
  BY Zenon, RowsAreFinite
<1>2. T = 1 .. Len(new) /\ n \notin S /\ n \in 1 .. Len(new) /\ n \in T
  BY <1>0
<1>3. \A i \in S : OfferDue(new, ms, t, i) = OfferDue(os, ms, t, i)
  BY Zenon, <1>0 DEF OfferDue, Gives
<1>4. /\ \A i \in S : f[i] \in Int /\ g[i] = f[i]
      /\ \A i \in S \cup {n} : g[i] \in Int
      /\ g[n] = OfferDue(new, ms, t, n) /\ OfferDue(new, ms, t, n) \in Int
  BY Zenon, <1>2, <1>3, DueTypes
<1>5. OffersDue(os, ms, t) = Sum(f, S) /\ OffersDue(new, ms, t) = Sum(g, T)
  BY Zenon, <1>2 DEF OffersDue
<1> HIDE DEF S, f, g
<1>6. Sum(g, S \cup {n}) = Sum(g, S) + g[n]
  BY Zenon, <1>1, <1>2, <1>4 DEF SumLaws, SumAddLaw
<1>7. Sum(g, S) = Sum(f, S) /\ Sum(f, S) \in Int
  BY Zenon, <1>1, <1>4 DEF SumLaws, SumAgreeLaw, SumTypeLaw
<1> QED BY Zenon, <1>4, <1>5, <1>6, <1>7

\* One match that moves, moves what the matches are due.
LEMMA MatchesDueMove ==
  ASSUME SumLaws, RowLaws, NEW os \in Seq(OrderRow), NEW ms \in Seq(MatchRow), NEW new \in Seq(OrderRow), NEW mn \in Seq(MatchRow),
         Len(mn) = Len(ms), NEW t, NEW x \in 1 .. Len(ms),
         SameMatchesDue(os, ms, new, mn, t, {x})
  PROVE  /\ MatchesDue(os, ms, t) \in Int
         /\ MatchesDue(new, mn, t) = MatchesDue(os, ms, t) - MatchDue(os, ms, t, x) + MatchDue(new, mn, t, x)
<1> DEFINE S == 1 .. Len(ms)
           f == [k \in S |-> MatchDue(os, ms, t, k)]
           g == [k \in S |-> MatchDue(new, mn, t, k)]
<1>1. IsFiniteSet(S)
  BY Zenon, RowsAreFinite
<1>2. /\ \A k \in S : f[k] \in Int /\ g[k] \in Int
      /\ \A k \in S : k # x => g[k] = f[k]
      /\ f[x] = MatchDue(os, ms, t, x) /\ g[x] = MatchDue(new, mn, t, x) /\ x \in S
  BY Zenon, DueTypes DEF SameMatchesDue
<1>3. MatchesDue(os, ms, t) = Sum(f, S) /\ MatchesDue(new, mn, t) = Sum(g, S)
  BY Zenon DEF MatchesDue
<1> HIDE DEF S, f, g
<1>4. Sum(g, S) = Sum(f, S) - f[x] + g[x] /\ Sum(f, S) \in Int
  <2>1. DifferAt(f, g, S, x)
    BY Zenon, <1>2 DEF DifferAt
  <2> QED BY Zenon, <1>1, <2>1, SumMoves
<1> QED BY Zenon, <1>2, <1>3, <1>4

\* The matches are due the same if every one of them is.
LEMMA MatchesDueSame ==
  ASSUME SumLaws, RowLaws, NEW os \in Seq(OrderRow), NEW ms \in Seq(MatchRow), NEW new, NEW mn, Len(mn) = Len(ms), NEW t,
         SameMatchesDue(os, ms, new, mn, t, {})
  PROVE  MatchesDue(os, ms, t) \in Int /\ MatchesDue(new, mn, t) = MatchesDue(os, ms, t)
<1> DEFINE S == 1 .. Len(ms)
           f == [k \in S |-> MatchDue(os, ms, t, k)]
           g == [k \in S |-> MatchDue(new, mn, t, k)]
<1>1. IsFiniteSet(S)
  BY Zenon, RowsAreFinite
<1>2. /\ \A k \in S : f[k] \in Int
      /\ \A k \in S : g[k] = f[k]
  BY Zenon, DueTypes DEF SameMatchesDue
<1>3. MatchesDue(os, ms, t) = Sum(f, S) /\ MatchesDue(new, mn, t) = Sum(g, S)
  BY Zenon DEF MatchesDue
<1> HIDE DEF S, f, g
<1>4. Sum(g, S) = Sum(f, S) /\ Sum(f, S) \in Int
  BY Zenon, <1>1, <1>2 DEF SumLaws, SumAgreeLaw, SumTypeLaw
<1> QED BY Zenon, <1>3, <1>4

\* A new match adds what it can draw.
LEMMA MatchesDueAppend ==
  ASSUME SumLaws, RowLaws, NEW os \in Seq(OrderRow), NEW ms \in Seq(MatchRow), NEW new \in Seq(OrderRow), NEW mn \in Seq(MatchRow),
         NEW n, RowAppended(ms, mn, n), NEW t, SameMatchesDue(os, ms, new, mn, t, {})
  PROVE  /\ MatchesDue(os, ms, t) \in Int /\ MatchDue(new, mn, t, n) \in Int
         /\ MatchesDue(new, mn, t) = MatchesDue(os, ms, t) + MatchDue(new, mn, t, n)
<1> DEFINE S == 1 .. Len(ms)
           T == S \cup {n}
           f == [k \in S |-> MatchDue(os, ms, t, k)]
           g == [k \in T |-> MatchDue(new, mn, t, k)]
<1>0. n = Len(ms) + 1 /\ Len(mn) = n
  BY Zenon DEF RowAppended
<1>1. IsFiniteSet(S)
  BY Zenon, RowsAreFinite
<1>2. T = 1 .. Len(mn) /\ n \notin S /\ n \in 1 .. Len(mn) /\ n \in T
  BY <1>0
<1>4. /\ \A k \in S : f[k] \in Int /\ g[k] = f[k]
      /\ \A k \in S \cup {n} : g[k] \in Int
      /\ g[n] = MatchDue(new, mn, t, n) /\ MatchDue(new, mn, t, n) \in Int
  BY Zenon, <1>2, DueTypes DEF SameMatchesDue
<1>5. MatchesDue(os, ms, t) = Sum(f, S) /\ MatchesDue(new, mn, t) = Sum(g, T)
  BY Zenon, <1>2 DEF MatchesDue
<1> HIDE DEF S, f, g
<1>6. Sum(g, S \cup {n}) = Sum(g, S) + g[n]
  BY Zenon, <1>1, <1>2, <1>4 DEF SumLaws, SumAddLaw
<1>7. Sum(g, S) = Sum(f, S) /\ Sum(f, S) \in Int
  BY Zenon, <1>1, <1>4 DEF SumLaws, SumAgreeLaw, SumTypeLaw
<1> QED BY Zenon, <1>4, <1>5, <1>6, <1>7

OwedIn(os, ms, t) ==
    LET offers == {i \in DOMAIN os : os[i].status \in Live /\ os[i].give = t /\ ~os[i].giveOwn}
        unpaid == {k \in DOMAIN ms : /\ ms[k].obligation = "pending_coinpay"
                                     /\ os[SellerIn(os, ms[k])].give = t
                                     /\ ~os[SellerIn(os, ms[k])].giveOwn}
    IN  SumFunction([i \in offers |-> Gives(os, ms, i)])
        + SumFunction([k \in unpaid |-> GivenBy(ms[k], SellerIn(os, ms[k]))])

\* Owed is that of the book and matches at hand.
LEMMA OwedIsOwedIn ==
  ASSUME NEW t
  PROVE  Owed(t) = OwedIn(orders, matches, t) /\ Owed(t)' = OwedIn(orders', matches', t)
<1>1. Owed(t) = OwedIn(orders, matches, t)
  BY Zenon DEF Owed, OwedIn, SellerOf, SellerIn, GiveRemaining, Gives
<1>2. Owed(t)' = OwedIn(orders', matches', t)
  BY Zenon DEF Owed, OwedIn, SellerOf, SellerIn, GiveRemaining, Gives
<1> QED BY <1>1, <1>2

\* What the exchange owes in a tick is what its orders and its matches can draw.
LEMMA OwedIsDue ==
  ASSUME SumLaws, RowLaws, NEW os \in Seq(OrderRow), NEW ms \in Seq(MatchRow), NEW t
  PROVE  OwedIn(os, ms, t) = OffersDue(os, ms, t) + MatchesDue(os, ms, t)
<1> DEFINE S == 1 .. Len(os)
           T == 1 .. Len(ms)
           offers == {i \in S : os[i].status \in Live /\ os[i].give = t /\ ~os[i].giveOwn}
           unpaid == {k \in T : /\ ms[k].obligation = "pending_coinpay"
                                /\ os[SellerIn(os, ms[k])].give = t
                                /\ ~os[SellerIn(os, ms[k])].giveOwn}
           f == [i \in offers |-> Gives(os, ms, i)]
           g == [i \in S |-> OfferDue(os, ms, t, i)]
           h == [k \in unpaid |-> GivenBy(ms[k], SellerIn(os, ms[k]))]
           e == [k \in T |-> MatchDue(os, ms, t, k)]
<1>1. IsFiniteSet(S) /\ IsFiniteSet(T) /\ offers \in SUBSET S /\ unpaid \in SUBSET T
  BY DEF SumLaws, IntervalIsFiniteLaw
<1>2. OwedIn(os, ms, t) = SumFunction(f) + SumFunction(h)
  <2>1. DOMAIN os = S /\ DOMAIN ms = T
    OBVIOUS
  <2> HIDE DEF S, T
  <2> QED BY Zenon, <2>1 DEF OwedIn
<1>3. /\ \A i \in offers : f[i] \in Int /\ g[i] = f[i]
      /\ \A i \in S \ offers : g[i] = 0
  <2>1. ASSUME NEW i \in offers PROVE f[i] \in Int /\ g[i] = f[i]
    <3>1. i \in S /\ f[i] = Gives(os, ms, i) /\ g[i] = Gives(os, ms, i)
      BY Zenon DEF OfferDue
    <3>2. Gives(os, ms, i) \in Int
      BY Zenon, <3>1 DEF RowLaws, RemainderTypesLaw
    <3> QED BY <3>1, <3>2
  <2>2. \A i \in S \ offers : g[i] = 0
    BY Zenon DEF OfferDue
  <2> QED BY Zenon, <2>1, <2>2
<1>4. /\ \A k \in unpaid : h[k] \in Int /\ e[k] = h[k]
      /\ \A k \in T \ unpaid : e[k] = 0
  <2>1. ASSUME NEW k \in unpaid PROVE h[k] \in Int /\ e[k] = h[k]
    <3>1. /\ k \in T /\ h[k] = GivenBy(ms[k], SellerIn(os, ms[k]))
          /\ e[k] = GivenBy(ms[k], SellerIn(os, ms[k]))
      BY Zenon DEF MatchDue
    <3>2. GivenBy(ms[k], SellerIn(os, ms[k])) \in Nat
      BY Zenon, <3>1 DEF RowLaws, MatchAmountsLaw
    <3> QED BY <3>1, <3>2
  <2>2. \A k \in T \ unpaid : e[k] = 0
    BY Zenon DEF MatchDue
  <2> QED BY Zenon, <2>1, <2>2
<1>5. DOMAIN f = offers /\ DOMAIN h = unpaid
  BY Zenon
<1>6. OffersDue(os, ms, t) = Sum(g, S) /\ MatchesDue(os, ms, t) = Sum(e, T)
  BY Zenon DEF OffersDue, MatchesDue
<1> HIDE DEF S, T, offers, unpaid, f, g, h, e
<1>7. SumFunction(f) = Sum(f, offers) /\ SumFunction(h) = Sum(h, unpaid)
  BY Zenon, <1>5 DEF SumLaws, SumFunctionIsSumLaw
<1>8. Sum(g, S) = Sum(f, offers)
  BY <1>1, <1>3 DEF SumLaws, SumOfPartLaw
<1>9. Sum(e, T) = Sum(h, unpaid)
  BY <1>1, <1>4 DEF SumLaws, SumOfPartLaw
<1> QED BY Zenon, <1>2, <1>6, <1>7, <1>8, <1>9

\* The escrow of every tick covers what is due.
LEMMA CoversIsDue ==
  ASSUME SumLaws, RowLaws, orders \in Seq(OrderRow), matches \in Seq(MatchRow), orders' \in Seq(OrderRow), matches' \in Seq(MatchRow)
  PROVE  /\ EscrowCovers <=> \A t \in Ticks : escrows[t] >= OffersDue(orders, matches, t) + MatchesDue(orders, matches, t)
         /\ EscrowCovers' <=> \A t \in Ticks : escrows'[t] >= OffersDue(orders', matches', t) + MatchesDue(orders', matches', t)
<1>1. \A t : Owed(t) = OffersDue(orders, matches, t) + MatchesDue(orders, matches, t)
  BY Zenon, OwedIsOwedIn, OwedIsDue
<1>2. \A t : Owed(t)' = OffersDue(orders', matches', t) + MatchesDue(orders', matches', t)
  BY Zenon, OwedIsOwedIn, OwedIsDue
<1> QED BY Zenon, <1>1, <1>2 DEF EscrowCovers

\* A step that takes no more out of an escrow than its dues shrink.
LEMMA EscrowStillCovers ==
  ASSUME SumLaws, RowLaws, orders \in Seq(OrderRow), matches \in Seq(MatchRow), orders' \in Seq(OrderRow), matches' \in Seq(MatchRow),
         escrows \in [Ticks -> Int], escrows' \in [Ticks -> Int], EscrowCovers,
         \A t \in Ticks :
            /\ OffersDue(orders, matches, t) \in Int /\ OffersDue(orders', matches', t) \in Int
            /\ MatchesDue(orders, matches, t) \in Int /\ MatchesDue(orders', matches', t) \in Int
            /\ escrows'[t] - escrows[t] >= (OffersDue(orders', matches', t) - OffersDue(orders, matches, t))
                                            + (MatchesDue(orders', matches', t) - MatchesDue(orders, matches, t))
  PROVE  EscrowCovers'
<1>1. ASSUME NEW t \in Ticks
      PROVE  escrows'[t] >= OffersDue(orders', matches', t) + MatchesDue(orders', matches', t)
  <2> DEFINE a == OffersDue(orders, matches, t)
             b == MatchesDue(orders, matches, t)
             a2 == OffersDue(orders', matches', t)
             b2 == MatchesDue(orders', matches', t)
             e == escrows[t]
             e2 == escrows'[t]
  <2> HIDE DEF a, b, a2, b2, e, e2
  <2>1. e >= a + b
    BY Zenon, CoversIsDue DEF a, b, e
  <2>2. a \in Int /\ b \in Int /\ a2 \in Int /\ b2 \in Int /\ e2 - e >= (a2 - a) + (b2 - b)
    BY Zenon DEF a, b, a2, b2, e, e2
  <2>3. e \in Int /\ e2 \in Int
    BY DEF e, e2
  <2>4. e2 >= a2 + b2
    BY <2>1, <2>2, <2>3
  <2> QED BY Zenon, <2>4 DEF a2, b2, e2
<1> QED BY Zenon, <1>1, CoversIsDue

LedgerInv == BookInv /\ LedgerTypes /\ SupplyConserved /\ EscrowCovers

LedgerGoal == LedgerTypes' /\ SupplyConserved' /\ EscrowCovers'

\* The supply of t moves between the balances and the escrow.
Balanced == \A t \in Ticks : Column(balances', t) + escrows'[t] = Column(balances, t) + escrows[t]

\* Every order outside S is as live, and every obligation outside S as pending, as before.
LiveAsBefore(S) == \A i \in DOMAIN orders \ S : (orders'[i].status \in Live <=> orders[i].status \in Live)

PendingAsBefore(S) ==
    \A k \in DOMAIN matches \ S : (matches'[k].obligation = "pending_coinpay" <=> matches[k].obligation = "pending_coinpay")

\* Every order outside S can draw as much from its escrow as before.
OffersAsBefore(S) ==
    \A t \in Ticks : \A i \in DOMAIN orders \ S : OfferDue(orders', matches', t, i) = OfferDue(orders, matches, t, i)

\* The escrow of every tick moves with what order x and match y can draw from it.
OfferIsCovered(x) ==
    \A t \in Ticks : escrows'[t] - escrows[t] >= OfferDue(orders', matches', t, x) - OfferDue(orders, matches, t, x)

MatchIsCovered(x, y) ==
    \A t \in Ticks : escrows'[t] - escrows[t]
                        >= (OfferDue(orders', matches', t, x) - OfferDue(orders, matches, t, x))
                           + (MatchDue(orders', matches', t, y) - MatchDue(orders, matches, t, y))

\* What the invariant says of the rows.
LEMMA LedgerFacts ==
  ASSUME RowLaws, LedgerInv
  PROVE  /\ BookTypes /\ Book /\ OffersAreReal /\ MatchesJoin /\ WithinOffer /\ LedgerTypes
         /\ orders \in Seq(OrderRow) /\ DOMAIN orders = 1 .. Len(orders)
         /\ matches \in Seq(MatchRow) /\ DOMAIN matches = 1 .. Len(matches)
BY Zenon DEF LedgerInv, BookInv, Book, BookTypes, RowLaws, DomainsLaw

\* Dues that depend on nothing a step changed.
LEMMA OfferDueKept ==
  ASSUME RowLaws, NEW os \in Seq(OrderRow), NEW new, RowsKept(os, new), NEW ms \in Seq(MatchRow), NEW mn, AmountsKept(ms, mn),
         NEW t, NEW i \in 1 .. Len(os), new[i].status \in Live <=> os[i].status \in Live
  PROVE  OfferDue(new, mn, t, i) = OfferDue(os, ms, t, i)
<1>1. SameOffer(new[i], os[i])
  BY Zenon DEF RowsKept
<1>2. Given(mn, i) = Given(ms, i)
  BY Zenon DEF AmountsKept, RowLaws, GivenIsKeptLaw
<1>3. Gives(new, mn, i) = Gives(os, ms, i)
  BY Zenon, <1>1, <1>2 DEF Gives, SameOffer
<1> QED BY Zenon, <1>1, <1>3 DEF OfferDue, SameOffer

\* A match that keeps its amounts, orders and obligation can draw as much as before.
LEMMA MatchDueKept ==
  ASSUME NEW os \in Seq(OrderRow), NEW new, RowsKept(os, new), NEW ms \in Seq(MatchRow), NEW mn, AmountsKept(ms, mn),
         NEW t, NEW k \in 1 .. Len(ms), ms[k].taker \in 1 .. Len(os), ms[k].maker \in 1 .. Len(os),
         mn[k].obligation = "pending_coinpay" <=> ms[k].obligation = "pending_coinpay"
  PROVE  MatchDue(new, mn, t, k) = MatchDue(os, ms, t, k)
<1>1. /\ mn[k].taker = ms[k].taker /\ mn[k].maker = ms[k].maker
      /\ mn[k].give = ms[k].give /\ mn[k].get = ms[k].get
  BY Zenon DEF AmountsKept
<1>2. SameOffer(new[ms[k].taker], os[ms[k].taker]) /\ SameOffer(new[ms[k].maker], os[ms[k].maker])
  BY Zenon DEF RowsKept
<1>3. /\ SellerIn(new, mn[k]) = SellerIn(os, ms[k])
      /\ SellerIn(os, ms[k]) \in {ms[k].taker, ms[k].maker}
  BY Zenon, <1>1, <1>2 DEF SellerIn, SameOffer
<1>4. GivenBy(mn[k], SellerIn(os, ms[k])) = GivenBy(ms[k], SellerIn(os, ms[k]))
  BY Zenon, <1>1 DEF GivenBy
<1>5. SameOffer(new[SellerIn(os, ms[k])], os[SellerIn(os, ms[k])])
  BY Zenon, <1>2, <1>3
<1> QED BY Zenon, <1>3, <1>4, <1>5 DEF MatchDue, SameOffer

\* The same for an order across a step.
LEMMA OfferStays ==
  ASSUME RowLaws, LedgerInv, RowsKept(orders, orders'), AmountsKept(matches, matches'), NEW t, NEW i \in DOMAIN orders,
         orders'[i].status \in Live <=> orders[i].status \in Live
  PROVE  OfferDue(orders', matches', t, i) = OfferDue(orders, matches, t, i)
<1>1. orders \in Seq(OrderRow) /\ matches \in Seq(MatchRow) /\ i \in 1 .. Len(orders)
  BY Zenon, LedgerFacts
<1> QED BY <1>1, OfferDueKept

\* The same for a match across a step.
LEMMA MatchStays ==
  ASSUME RowLaws, LedgerInv, RowsKept(orders, orders'), AmountsKept(matches, matches'), NEW t, NEW k \in DOMAIN matches,
         matches'[k].obligation = "pending_coinpay" <=> matches[k].obligation = "pending_coinpay"
  PROVE  MatchDue(orders', matches', t, k) = MatchDue(orders, matches, t, k)
<1>1. orders \in Seq(OrderRow) /\ matches \in Seq(MatchRow) /\ k \in 1 .. Len(matches)
  BY Zenon, LedgerFacts
<1>2. matches[k].taker \in 1 .. Len(orders) /\ matches[k].maker \in 1 .. Len(orders)
  BY Zenon, LedgerFacts DEF MatchesJoin
<1> QED BY <1>1, <1>2, MatchDueKept

\* Steps after which every order is as live and every obligation as pending as before.
LEMMA DuesStay ==
  ASSUME SumLaws, RowLaws, LedgerInv, RowsKept(orders, orders'), AmountsKept(matches, matches'),
         LiveAsBefore({}), PendingAsBefore({}), UNCHANGED <<balances, escrows>>, owner' \in [Ticks -> Addresses], gate' \in [Ticks -> Nat]
  PROVE  LedgerGoal
<1>1. /\ MatchesJoin /\ LedgerTypes /\ SupplyConserved /\ EscrowCovers
      /\ orders \in Seq(OrderRow) /\ DOMAIN orders = 1 .. Len(orders)
      /\ matches \in Seq(MatchRow) /\ DOMAIN matches = 1 .. Len(matches)
  BY Zenon, LedgerFacts DEF LedgerInv
<1>2. /\ orders' \in Seq(OrderRow) /\ Len(orders') = Len(orders)
      /\ matches' \in Seq(MatchRow) /\ Len(matches') = Len(matches)
  BY Zenon DEF RowsKept, AmountsKept
<1>3. ASSUME NEW t
      PROVE  /\ OffersDue(orders', matches', t) = OffersDue(orders, matches, t)
             /\ MatchesDue(orders', matches', t) = MatchesDue(orders, matches, t)
  <2>1. SameOffersDue(orders, matches, orders', matches', t, {})
    BY Zenon, <1>1, OfferStays DEF LiveAsBefore, SameOffersDue
  <2>2. SameMatchesDue(orders, matches, orders', matches', t, {})
    BY Zenon, <1>1, MatchStays DEF PendingAsBefore, SameMatchesDue
  <2>3. OffersDue(orders', matches', t) = OffersDue(orders, matches, t)
    BY <1>1, <1>2, <2>1, OffersDueSame
  <2>4. MatchesDue(orders', matches', t) = MatchesDue(orders, matches, t)
    BY <1>1, <1>2, <2>2, MatchesDueSame
  <2> QED BY Zenon, <2>3, <2>4
<1>4. EscrowCovers'
  BY Zenon, <1>1, <1>2, <1>3, CoversIsDue
<1>5. SupplyConserved'
  BY Zenon, <1>1, SupplyIsColumns
<1>6. LedgerTypes'
  BY Zenon, <1>1 DEF LedgerTypes
<1> QED BY Zenon, <1>4, <1>5, <1>6 DEF LedgerGoal

\* Steps after which at most order x is less live.
LEMMA OneOfferMoves ==
  ASSUME SumLaws, RowLaws, LedgerInv, RowsKept(orders, orders'), AmountsKept(matches, matches'), NEW x \in DOMAIN orders,
         LiveAsBefore({x}), PendingAsBefore({}), LedgerTypes', Balanced, OfferIsCovered(x)
  PROVE  LedgerGoal
<1>1. /\ MatchesJoin /\ LedgerTypes /\ SupplyConserved /\ EscrowCovers
      /\ orders \in Seq(OrderRow) /\ DOMAIN orders = 1 .. Len(orders)
      /\ matches \in Seq(MatchRow) /\ DOMAIN matches = 1 .. Len(matches)
  BY Zenon, LedgerFacts DEF LedgerInv
<1>2. /\ orders' \in Seq(OrderRow) /\ Len(orders') = Len(orders)
      /\ matches' \in Seq(MatchRow) /\ Len(matches') = Len(matches)
  BY Zenon DEF RowsKept, AmountsKept
<1>3. ASSUME NEW t \in Ticks
      PROVE  /\ OffersDue(orders, matches, t) \in Int /\ OffersDue(orders', matches', t) \in Int
             /\ MatchesDue(orders, matches, t) \in Int /\ MatchesDue(orders', matches', t) \in Int
             /\ escrows'[t] - escrows[t] >= (OffersDue(orders', matches', t) - OffersDue(orders, matches, t))
                                             + (MatchesDue(orders', matches', t) - MatchesDue(orders, matches, t))
  <2> DEFINE a == OffersDue(orders, matches, t)
             a2 == OffersDue(orders', matches', t)
             b == MatchesDue(orders, matches, t)
             b2 == MatchesDue(orders', matches', t)
             d == OfferDue(orders, matches, t, x)
             d2 == OfferDue(orders', matches', t, x)
             e == escrows'[t] - escrows[t]
  <2>1. SameOffersDue(orders, matches, orders', matches', t, {x})
    BY Zenon, <1>1, OfferStays DEF LiveAsBefore, SameOffersDue
  <2>2. SameMatchesDue(orders, matches, orders', matches', t, {})
    BY Zenon, <1>1, MatchStays DEF PendingAsBefore, SameMatchesDue
  <2>3. a \in Int /\ a2 = a - d + d2
    BY <1>1, <1>2, <2>1, OffersDueMove
  <2>4. b \in Int /\ b2 = b
    BY <1>1, <1>2, <2>2, MatchesDueSame
  <2>5. d \in Int /\ d2 \in Int
    BY Zenon, <1>1, <1>2, DueTypes
  <2>6. e \in Int
    BY <1>1 DEF LedgerTypes
  <2>7. e >= d2 - d
    BY Zenon DEF OfferIsCovered
  <2> HIDE DEF a, a2, b, b2, d, d2, e
  <2>8. a2 \in Int /\ b2 \in Int /\ e >= (a2 - a) + (b2 - b)
    BY <2>3, <2>4, <2>5, <2>6, <2>7
  <2> QED BY Zenon, <2>3, <2>4, <2>8 DEF a, a2, b, b2, e
<1>4. EscrowCovers'
  <2>1. escrows \in [Ticks -> Int] /\ escrows' \in [Ticks -> Int]
    BY Zenon, <1>1 DEF LedgerTypes
  <2> QED BY Zenon, <1>1, <1>2, <1>3, <2>1, EscrowStillCovers
<1>5. SupplyConserved'
  BY Zenon, <1>1, SupplyIsKept DEF Balanced
<1> QED BY Zenon, <1>4, <1>5 DEF LedgerGoal

\* Steps after which at most order x is less live and match y is resolved.
LEMMA OneMatchMoves ==
  ASSUME SumLaws, RowLaws, LedgerInv, RowsKept(orders, orders'), AmountsKept(matches, matches'),
         NEW x \in DOMAIN orders, NEW y \in DOMAIN matches,
         OffersAsBefore({x}), PendingAsBefore({y}), LedgerTypes', Balanced, MatchIsCovered(x, y)
  PROVE  LedgerGoal
<1>1. /\ MatchesJoin /\ LedgerTypes /\ SupplyConserved /\ EscrowCovers
      /\ orders \in Seq(OrderRow) /\ DOMAIN orders = 1 .. Len(orders)
      /\ matches \in Seq(MatchRow) /\ DOMAIN matches = 1 .. Len(matches)
  BY Zenon, LedgerFacts DEF LedgerInv
<1>2. /\ orders' \in Seq(OrderRow) /\ Len(orders') = Len(orders)
      /\ matches' \in Seq(MatchRow) /\ Len(matches') = Len(matches)
  BY Zenon DEF RowsKept, AmountsKept
<1>3. ASSUME NEW t \in Ticks
      PROVE  /\ OffersDue(orders, matches, t) \in Int /\ OffersDue(orders', matches', t) \in Int
             /\ MatchesDue(orders, matches, t) \in Int /\ MatchesDue(orders', matches', t) \in Int
             /\ escrows'[t] - escrows[t] >= (OffersDue(orders', matches', t) - OffersDue(orders, matches, t))
                                             + (MatchesDue(orders', matches', t) - MatchesDue(orders, matches, t))
  <2> DEFINE a == OffersDue(orders, matches, t)
             a2 == OffersDue(orders', matches', t)
             b == MatchesDue(orders, matches, t)
             b2 == MatchesDue(orders', matches', t)
             d == OfferDue(orders, matches, t, x)
             d2 == OfferDue(orders', matches', t, x)
             m == MatchDue(orders, matches, t, y)
             m2 == MatchDue(orders', matches', t, y)
             e == escrows'[t] - escrows[t]
  <2>1. SameOffersDue(orders, matches, orders', matches', t, {x})
    BY Zenon, <1>1 DEF OffersAsBefore, SameOffersDue
  <2>2. SameMatchesDue(orders, matches, orders', matches', t, {y})
    BY Zenon, <1>1, MatchStays DEF PendingAsBefore, SameMatchesDue
  <2>3. a \in Int /\ a2 = a - d + d2
    BY <1>1, <1>2, <2>1, OffersDueMove
  <2>4. b \in Int /\ b2 = b - m + m2
    BY SMTT(30), <1>1, <1>2, <2>2, MatchesDueMove
  <2>5. d \in Int /\ d2 \in Int /\ m \in Int /\ m2 \in Int
    BY Zenon, <1>1, <1>2, DueTypes
  <2>6. e \in Int
    BY <1>1 DEF LedgerTypes
  <2>7. e >= (d2 - d) + (m2 - m)
    BY Zenon DEF MatchIsCovered
  <2> HIDE DEF a, a2, b, b2, d, d2, m, m2, e
  <2>8. a2 \in Int /\ b2 \in Int /\ e >= (a2 - a) + (b2 - b)
    BY <2>3, <2>4, <2>5, <2>6, <2>7
  <2> QED BY Zenon, <2>3, <2>4, <2>8 DEF a, a2, b, b2, e
<1>4. EscrowCovers'
  <2>1. escrows \in [Ticks -> Int] /\ escrows' \in [Ticks -> Int]
    BY Zenon, <1>1 DEF LedgerTypes
  <2> QED BY Zenon, <1>1, <1>2, <1>3, <2>1, EscrowStillCovers
<1>5. SupplyConserved'
  BY Zenon, <1>1, SupplyIsKept DEF Balanced
<1> QED BY Zenon, <1>4, <1>5 DEF LedgerGoal

-----------------------------------------------------------------------------
(* Payments out of the escrows.                                            *)

\* The balances and the escrows are those of a ledger, and nothing was minted.
Settled ==
    balances' \in [Addresses -> [Ticks -> Int]] /\ escrows' \in [Ticks -> Int] /\ Balanced

\* n units of t left their escrow, and nothing of another tick.
Drawn(t, n) == escrows'[t] = escrows[t] - n /\ \A u \in Ticks : u # t => escrows'[u] = escrows[u]

\* A release and its credit.
LEMMA OnePayment ==
  ASSUME SumLaws, IsFiniteSet(Addresses), LedgerTypes, NEW a \in Addresses, NEW t \in Ticks, NEW n \in Int,
         balances' = Credit(balances, a, t, n), escrows' = [escrows EXCEPT ![t] = @ - n]
  PROVE  Settled /\ Drawn(t, n)
<1>1. balances \in [Addresses -> [Ticks -> Int]] /\ escrows \in [Ticks -> Int]
  BY Zenon DEF LedgerTypes
<1>d. Credited(balances, balances', t, n)
  BY Zenon, <1>1, CreditIsMade
<1>3. /\ balances' \in [Addresses -> [Ticks -> Int]]
      /\ Column(balances', t) = Column(balances, t) + n
      /\ \A u \in Ticks : u # t => Column(balances', u) = Column(balances, u)
  BY Zenon, <1>d DEF Credited
<1>4. /\ escrows' \in [Ticks -> Int] /\ escrows'[t] = escrows[t] - n
      /\ \A u \in Ticks : u # t => escrows'[u] = escrows[u]
  BY <1>1
<1>5. ASSUME NEW u \in Ticks PROVE Column(balances', u) + escrows'[u] = Column(balances, u) + escrows[u]
  <2>1. CASE u = t
    <3>1. Column(balances, t) \in Int /\ escrows[t] \in Int
      BY <1>1, ColumnType
    <3> QED BY <1>3, <1>4, <2>1, <3>1
  <2>2. CASE u # t
    BY Zenon, <1>3, <1>4, <2>2
  <2> QED BY <2>1, <2>2
<1> QED BY Zenon, <1>3, <1>4, <1>5 DEF Settled, Drawn, Balanced

\* A payment and a refund in one tick.
LEMMA PaymentAndRefund ==
  ASSUME SumLaws, IsFiniteSet(Addresses), LedgerTypes, NEW a \in Addresses, NEW b \in Addresses, NEW t \in Ticks,
         NEW n \in Int, NEW m \in Int,
         balances' = Credit(Credit(balances, a, t, n), b, t, m),
         escrows' = [escrows EXCEPT ![t] = @ - n - m]
  PROVE  Settled /\ Drawn(t, n + m)
<1>1. balances \in [Addresses -> [Ticks -> Int]] /\ escrows \in [Ticks -> Int]
  BY Zenon DEF LedgerTypes
<1> DEFINE mid == Credit(balances, a, t, n)
<1>2. balances' = Credit(mid, b, t, m)
  BY Zenon
<1>m. mid = Credit(balances, a, t, n)
  BY Zenon
<1> HIDE DEF mid
<1>d. Credited(balances, mid, t, n)
  BY Zenon, <1>1, <1>m, CreditIsMade
<1>3. /\ mid \in [Addresses -> [Ticks -> Int]]
      /\ Column(mid, t) = Column(balances, t) + n
      /\ \A u \in Ticks : u # t => Column(mid, u) = Column(balances, u)
  BY Zenon, <1>d DEF Credited
<1>e. Credited(mid, balances', t, m)
  BY Zenon, <1>2, <1>3, CreditIsMade
<1>4. /\ balances' \in [Addresses -> [Ticks -> Int]]
      /\ Column(balances', t) = Column(mid, t) + m
      /\ \A u \in Ticks : u # t => Column(balances', u) = Column(mid, u)
  BY Zenon, <1>e DEF Credited
<1>5. /\ escrows' \in [Ticks -> Int] /\ escrows'[t] = escrows[t] - (n + m)
      /\ \A u \in Ticks : u # t => escrows'[u] = escrows[u]
  BY <1>1
<1>6. ASSUME NEW u \in Ticks PROVE Column(balances', u) + escrows'[u] = Column(balances, u) + escrows[u]
  <2>1. CASE u = t
    <3>1. Column(balances, t) \in Int /\ escrows[t] \in Int
      BY <1>1, ColumnType
    <3> QED BY <1>3, <1>4, <1>5, <2>1, <3>1
  <2>2. CASE u # t
    BY Zenon, <1>3, <1>4, <1>5, <2>2
  <2> QED BY <2>1, <2>2
<1> QED BY Zenon, <1>4, <1>5, <1>6 DEF Settled, Drawn, Balanced

\* The two legs of a trade: n units of t go to a and m units of u to b.
LegsPaid(a, t, n, b, u, m) ==
    /\ balances' = Credit(Credit(balances, a, t, n), b, u, m)
    /\ escrows' = [escrows EXCEPT ![t] = @ - n, ![u] = @ - m]

\* They mint nothing and draw n and m.
LEMMA TwoPayments ==
  ASSUME SumLaws, IsFiniteSet(Addresses), LedgerTypes, NEW a \in Addresses, NEW b \in Addresses,
         NEW t \in Ticks, NEW u \in Ticks, t # u, NEW n \in Int, NEW m \in Int,
         LegsPaid(a, t, n, b, u, m)
  PROVE  /\ Settled /\ escrows'[t] = escrows[t] - n /\ escrows'[u] = escrows[u] - m
         /\ \A v \in Ticks \ {t, u} : escrows'[v] = escrows[v]
<1>1. balances \in [Addresses -> [Ticks -> Int]] /\ escrows \in [Ticks -> Int]
  BY Zenon DEF LedgerTypes
<1> DEFINE mid == Credit(balances, a, t, n)
<1>2. balances' = Credit(mid, b, u, m) /\ escrows' = [escrows EXCEPT ![t] = @ - n, ![u] = @ - m]
  BY Zenon DEF LegsPaid
<1>m. mid = Credit(balances, a, t, n)
  BY Zenon
<1> HIDE DEF mid
<1>d. Credited(balances, mid, t, n)
  BY Zenon, <1>1, <1>m, CreditIsMade
<1>3. /\ mid \in [Addresses -> [Ticks -> Int]]
      /\ Column(mid, t) = Column(balances, t) + n
      /\ \A v \in Ticks : v # t => Column(mid, v) = Column(balances, v)
  BY Zenon, <1>d DEF Credited
<1>e. Credited(mid, balances', u, m)
  BY Zenon, <1>2, <1>3, CreditIsMade
<1>4. /\ balances' \in [Addresses -> [Ticks -> Int]]
      /\ Column(balances', u) = Column(mid, u) + m
      /\ \A v \in Ticks : v # u => Column(balances', v) = Column(mid, v)
  BY Zenon, <1>e DEF Credited
<1>5. /\ escrows' \in [Ticks -> Int] /\ escrows'[t] = escrows[t] - n /\ escrows'[u] = escrows[u] - m
      /\ \A v \in Ticks \ {t, u} : escrows'[v] = escrows[v]
  BY <1>1, <1>2
<1>6. ASSUME NEW v \in Ticks PROVE Column(balances', v) + escrows'[v] = Column(balances, v) + escrows[v]
  <2>0. Column(balances, v) \in Int /\ escrows[v] \in Int
    BY <1>1, ColumnType
  <2>1. CASE v = t
    <3>1. Column(balances', t) = Column(balances, t) + n /\ escrows'[t] = escrows[t] - n
      BY Zenon, <1>3, <1>4, <1>5
    <3> QED BY <2>0, <2>1, <3>1
  <2>2. CASE v = u
    <3>1. Column(balances', u) = Column(balances, u) + m /\ escrows'[u] = escrows[u] - m
      BY Zenon, <1>3, <1>4, <1>5
    <3> QED BY <2>0, <2>2, <3>1
  <2>3. CASE v \notin {t, u}
    BY Zenon, <1>3, <1>4, <1>5, <2>3
  <2> QED BY Zenon, <2>1, <2>2, <2>3
<1> QED BY Zenon, <1>4, <1>5, <1>6 DEF Settled, Balanced

-----------------------------------------------------------------------------
(* Steps that close an order.                                              *)

\* What an order can draw from the escrow of t.
LEMMA DueOf ==
  ASSUME NEW os, NEW ms, NEW t, NEW i
  PROVE  /\ os[i].status \notin Live \/ os[i].give # t \/ os[i].giveOwn => OfferDue(os, ms, t, i) = 0
         /\ os[i].status \in Live /\ os[i].give = t /\ ~os[i].giveOwn => OfferDue(os, ms, t, i) = Gives(os, ms, i)
BY Zenon DEF OfferDue

\* An immediate cancel or expiry hands back what the order could still draw.
LEMMA ClosedOfferIsCovered ==
  ASSUME SumLaws, RowLaws, LedgerInv, OrdersAssumption, NEW i \in DOMAIN orders, orders[i].status \in Live, orders'[i].status \notin Live,
         ReturnGiveSide(i)
  PROVE  LedgerTypes' /\ Balanced /\ OfferIsCovered(i)
<1>1. /\ LedgerTypes /\ BookTypes /\ IsFiniteSet(Addresses) /\ Coin \notin Ticks
      /\ orders \in Seq(OrderRow) /\ DOMAIN orders = 1 .. Len(orders)
  BY Zenon, LedgerFacts DEF OrdersAssumption
<1>2. /\ orders[i].source \in Addresses /\ orders[i].give \in Ticks \cup {Coin}
      /\ orders[i].giveOwn \in BOOLEAN
  BY Zenon, <1>1 DEF RowLaws, OrderRowFieldsLaw
<1>3. \A t : OfferDue(orders', matches', t, i) = 0
  BY Zenon, DueOf
<1>4. CASE ~orders[i].giveOwn /\ orders[i].give # Coin
  <2> DEFINE n == GiveRemaining(matches, i)
             t == orders[i].give
  <2>1. Release(t, n, orders[i].source)
    BY Zenon, <1>4 DEF ReturnGiveSide
  <2>2. n \in Int /\ n = Gives(orders, matches, i)
    BY Zenon, <1>1 DEF RowLaws, RemaindersAreIntegersLaw, RemainsIsGivesLaw
  <2>3. t \in Ticks
    BY Zenon, <1>2, <1>4
  <2> HIDE DEF n
  <2>4. Settled /\ Drawn(t, n)
    BY Zenon, <1>1, <1>2, <2>1, <2>2, <2>3, OnePayment DEF Release
  <2>5. LedgerTypes'
    BY Zenon, <1>1, <2>1, <2>4 DEF LedgerTypes, Settled, Release
  <2>6. ASSUME NEW u \in Ticks
        PROVE  escrows'[u] - escrows[u] >= OfferDue(orders', matches', u, i) - OfferDue(orders, matches, u, i)
    <3>0. escrows[u] \in Int
      BY <1>1 DEF LedgerTypes
    <3>1. CASE u = t
      <4>1. OfferDue(orders, matches, u, i) = n
        BY Zenon, <1>4, <2>2, <3>1 DEF OfferDue
      <4>2. escrows'[u] = escrows[u] - n
        BY Zenon, <2>4, <3>1 DEF Drawn
      <4> QED BY <1>3, <2>2, <3>0, <4>1, <4>2
    <3>2. CASE u # t
      <4>1. OfferDue(orders, matches, u, i) = 0 /\ escrows'[u] = escrows[u]
        BY Zenon, <2>4, <3>2 DEF Drawn, OfferDue
      <4> QED BY <1>3, <3>0, <4>1
    <3> QED BY Zenon, <3>1, <3>2
  <2> QED BY Zenon, <2>4, <2>5, <2>6 DEF Settled, OfferIsCovered
<1>5. CASE orders[i].giveOwn \/ orders[i].give = Coin
  <2>1. UNCHANGED <<balances, escrows, owner>> /\ (gate' = gate \/ gate' = [gate EXCEPT ![orders[i].give] = 0])
    BY Zenon, <1>5 DEF ReturnGiveSide, ClearTokenEscrow, ledger
  <2>2. LedgerTypes'
    <3>1. gate \in [Ticks -> Nat]
      BY Zenon, <1>1 DEF LedgerTypes
    <3>2. gate' \in [Ticks -> Nat]
      BY SMTT(30), <2>1, <3>1
    <3> QED BY Zenon, <1>1, <2>1, <3>2 DEF LedgerTypes
  <2>3. Balanced
    BY Zenon, <2>1 DEF Balanced
  <2>4. ASSUME NEW u \in Ticks
        PROVE  escrows'[u] - escrows[u] >= OfferDue(orders', matches', u, i) - OfferDue(orders, matches, u, i)
    <3>1. OfferDue(orders, matches, u, i) = 0
      BY Zenon, <1>1, <1>5 DEF OfferDue
    <3>2. escrows[u] \in Int /\ escrows'[u] = escrows[u]
      BY <1>1, <2>1 DEF LedgerTypes
    <3> QED BY <1>3, <3>1, <3>2
  <2> QED BY Zenon, <2>2, <2>3, <2>4 DEF OfferIsCovered
<1> QED BY Zenon, <1>2, <1>4, <1>5

\* CancelOrder and OrderExpire.
LEMMA CancelLedger ==
  ASSUME SumLaws, RowLaws, LedgerInv, OrdersAssumption, NEW i \in DOMAIN orders, CancelOrder(i) \/ OrderExpire(i)
  PROVE  LedgerGoal
<1>1. /\ BookTypes /\ LedgerTypes /\ orders \in Seq(OrderRow) /\ matches \in Seq(MatchRow)
  BY Zenon, LedgerFacts
<1>2. /\ RowsKept(orders, orders') /\ orders[i].status = "open"
      /\ \A j \in DOMAIN orders : j # i => orders'[j] = orders[j]
      /\ matches' = matches
  BY Zenon, <1>1 DEF RowLaws, CancelEffectLaw
<1>3. AmountsKept(matches, matches') /\ PendingAsBefore({})
  BY Zenon, <1>1, <1>2 DEF PendingAsBefore, RowLaws, MatchesStayLaw
<1>4. CASE Pending(matches, i) # {}
  <2>1. orders'[i].status \in {"cancelling", "expiring"} /\ UNCHANGED ledger
    BY Zenon, <1>1, <1>4 DEF RowLaws, CancelEffectLaw
  <2>2. LiveAsBefore({})
    BY Zenon, <1>2, <2>1 DEF LiveAsBefore, RowLaws, LiveOrFinalLaw
  <2>3. UNCHANGED <<balances, escrows>> /\ owner' \in [Ticks -> Addresses] /\ gate' \in [Ticks -> Nat]
    BY Zenon, <1>1, <2>1 DEF ledger, LedgerTypes
  <2> QED BY Zenon, <1>2, <1>3, <2>2, <2>3, DuesStay
<1>5. CASE Pending(matches, i) = {}
  <2>1. orders'[i].status \in Final /\ ReturnGiveSide(i)
    BY Zenon, <1>1, <1>5 DEF RowLaws, CancelEffectLaw
  <2>2. orders[i].status \in Live /\ orders'[i].status \notin Live
    BY Zenon, <1>2, <2>1 DEF RowLaws, LiveOrFinalLaw
  <2>3. LedgerTypes' /\ Balanced /\ OfferIsCovered(i)
    BY Zenon, <2>1, <2>2, ClosedOfferIsCovered
  <2>4. LiveAsBefore({i})
    BY Zenon, <1>2 DEF LiveAsBefore
  <2> QED BY Zenon, <1>2, <1>3, <2>3, <2>4, OneOfferMoves
<1> QED BY <1>4, <1>5

-----------------------------------------------------------------------------
(* Steps that move no token.                                               *)

\* A step that moves no token and ends no order or obligation.
LEMMA QuietLedger ==
  ASSUME SumLaws, RowLaws, LedgerInv, RowsKept(orders, orders'), matches' = matches,
         \A j \in DOMAIN orders : orders'[j].status = orders[j].status,
         UNCHANGED <<balances, escrows, gate>>, owner' \in [Ticks -> Addresses]
  PROVE  LedgerGoal
<1>1. LedgerTypes /\ matches \in Seq(MatchRow)
  BY Zenon, LedgerFacts
<1>2. AmountsKept(matches, matches') /\ PendingAsBefore({}) /\ LiveAsBefore({})
  BY Zenon, <1>1 DEF PendingAsBefore, LiveAsBefore, RowLaws, MatchesStayLaw
<1>3. UNCHANGED <<balances, escrows>> /\ gate' \in [Ticks -> Nat]
  BY Zenon, <1>1 DEF LedgerTypes
<1> QED BY Zenon, <1>2, <1>3, DuesStay

\* EditOrder keeps the ledger.
LEMMA EditLedger ==
  ASSUME SumLaws, RowLaws, LedgerInv, OrdersAssumption, NEW i \in DOMAIN orders, NEW life \in Lifetimes, EditOrder(i, life)
  PROVE  LedgerGoal
<1>1. LedgerTypes /\ BookTypes /\ Lifetimes \subseteq Nat
  BY Zenon, LedgerFacts DEF OrdersAssumption
<1>2. RowsKept(orders, orders') /\ \A j \in DOMAIN orders : orders'[j].status = orders[j].status
  BY Zenon, <1>1 DEF RowLaws, EditEffectLaw
<1>3. matches' = matches /\ UNCHANGED ledger
  BY Zenon DEF EditOrder
<1> QED BY Zenon, <1>1, <1>2, <1>3, QuietLedger DEF ledger, LedgerTypes

\* A step that touches neither rows nor tokens.
LEMMA RestLedger ==
  ASSUME SumLaws, RowLaws, LedgerInv, UNCHANGED <<orders, matches, balances, escrows, gate>>, owner' \in [Ticks -> Addresses]
  PROVE  LedgerGoal
<1>1. orders \in Seq(OrderRow)
  BY Zenon, LedgerFacts
<1>2. RowsKept(orders, orders')
  BY Zenon, <1>1 DEF RowLaws, RowsStayLaw
<1> QED BY Zenon, <1>2, QuietLedger

\* MatchDone, NextPass, SkipCandidate and IssueTransfer keep the ledger.
LEMMA PassLedger ==
  ASSUME SumLaws, RowLaws, LedgerInv,
         \/ MatchDone \/ NextPass \/ (\E j \in candidates : SkipCandidate(j))
         \/ (\E t \in Ticks, dest \in Addresses : IssueTransfer(t, dest))
  PROVE  LedgerGoal
<1>1. owner \in [Ticks -> Addresses]
  BY Zenon, LedgerFacts DEF LedgerTypes
<1>2. CASE MatchDone \/ NextPass \/ \E j \in candidates : SkipCandidate(j)
  <2>1. UNCHANGED <<orders, matches, balances, escrows, gate, owner>>
    BY Zenon, <1>2 DEF MatchDone, NextPass, SkipCandidate, ledger
  <2> QED BY Zenon, <1>1, <2>1, RestLedger
<1>3. CASE \E t \in Ticks, dest \in Addresses : IssueTransfer(t, dest)
  <2>1. PICK t \in Ticks, dest \in Addresses : IssueTransfer(t, dest)
    BY Zenon, <1>3
  <2>2. owner' = [owner EXCEPT ![t] = dest] /\ UNCHANGED <<orders, matches, balances, escrows, gate>>
    BY Zenon, <2>1 DEF IssueTransfer
  <2>3. owner' \in [Ticks -> Addresses]
    BY <1>1, <2>2
  <2> QED BY Zenon, <2>2, <2>3, RestLedger
<1> QED BY Zenon, <1>2, <1>3

-----------------------------------------------------------------------------
(* A new order takes its escrow.                                           *)

JoinsSameRows(os, new, m) == new[m.taker] = os[m.taker] /\ new[m.maker] = os[m.maker]

\* Matches owe the same when the orders they join are the same.
LEMMA MatchDueJoins ==
  ASSUME NEW os, NEW new, NEW ms, NEW k, JoinsSameRows(os, new, ms[k]), NEW t
  PROVE  MatchDue(new, ms, t, k) = MatchDue(os, ms, t, k)
<1>1. SellerIn(new, ms[k]) = SellerIn(os, ms[k]) /\ SellerIn(os, ms[k]) \in {ms[k].taker, ms[k].maker}
  BY Zenon DEF SellerIn, JoinsSameRows
<1>2. new[SellerIn(os, ms[k])] = os[SellerIn(os, ms[k])]
  BY Zenon, <1>1 DEF JoinsSameRows
<1> QED BY Zenon, <1>1, <1>2 DEF MatchDue

\* The escrow of every tick grows by what the new order can draw from it.
NewOfferIsCovered(n) == \A t \in Ticks : escrows'[t] - escrows[t] >= OfferDue(orders', matches, t, n)

\* Taking the escrow of a new offer moves its amount out of the balance of its source.
LEMMA TakenEscrow ==
  ASSUME SumLaws, RowLaws, LedgerInv, OrdersAssumption, NEW o \in UNION Markets, NEW life \in Lifetimes, CreateOrder(o, life),
         NEW n, n = Len(orders) + 1, OrderJoins(n, o), Given(matches, n) = 0
  PROVE  LedgerTypes' /\ Balanced /\ NewOfferIsCovered(n)
<1>1. /\ LedgerTypes /\ IsFiniteSet(Addresses) /\ Coin \notin Ticks
      /\ balances \in [Addresses -> [Ticks -> Int]] /\ escrows \in [Ticks -> Int]
      /\ owner \in [Ticks -> Addresses] /\ gate \in [Ticks -> Nat]
  BY Zenon, LedgerFacts DEF OrdersAssumption, LedgerTypes
<1>2. /\ o.source \in Addresses /\ o.give \in Ticks \cup {Coin} /\ o.giveAmount \in Nat \ {0} /\ o.giveOwn \in BOOLEAN
      /\ n \in Nat /\ Len(orders') = n /\ orders'[n].status = "open" /\ SameOffer(orders'[n], o)
  BY Zenon DEF OrderJoins, RowLaws, OfferIsRealLaw
<1>s. orders'[n].give = o.give /\ orders'[n].giveOwn = o.giveOwn /\ orders'[n].giveAmount = o.giveAmount
  BY Zenon, <1>2 DEF SameOffer
<1>3. CASE o.giveOwn \/ o.give = Coin
  <2>1. /\ UNCHANGED <<balances, escrows, owner>>
        /\ gate' = gate \/ gate' = [gate EXCEPT ![o.give] = Len(orders')]
    BY Zenon, <1>3 DEF CreateOrder, ledger
  <2>2. LedgerTypes'
    <3>1. gate' \in [Ticks -> Nat]
      <4>1. gate \in [Ticks -> Nat] /\ Len(orders') \in Nat
        BY Zenon, <1>1, <1>2
      <4>2. [gate EXCEPT ![o.give] = Len(orders')] \in [Ticks -> Nat]
        BY Zenon, <4>1, Written
      <4> QED BY Zenon, <2>1, <4>1, <4>2
    <3> QED BY Zenon, <1>1, <2>1, <3>1 DEF LedgerTypes
  <2>3. ASSUME NEW t \in Ticks PROVE escrows'[t] - escrows[t] >= OfferDue(orders', matches, t, n)
    <3>1. OfferDue(orders', matches, t, n) = 0
      <4>1. ~(orders'[n].give = t /\ ~orders'[n].giveOwn)
        BY ZenonT(30), <1>1, <1>s, <1>3
      <4> QED BY Zenon, <4>1 DEF OfferDue
    <3>2. escrows[t] \in Int /\ escrows'[t] = escrows[t]
      BY <1>1, <2>1
    <3> QED BY <3>1, <3>2
  <2> QED BY Zenon, <2>1, <2>2, <2>3 DEF Balanced, NewOfferIsCovered
<1>4. CASE ~o.giveOwn /\ o.give # Coin
  <2> DEFINE g == o.give
             a == o.source
             w == -o.giveAmount
  <2>1. /\ g \in Ticks /\ a \in Addresses /\ UNCHANGED <<owner, gate>>
        /\ balances' = [balances EXCEPT ![a][g] = balances[a][g] - o.giveAmount]
        /\ escrows' = [escrows EXCEPT ![g] = escrows[g] + o.giveAmount]
    BY Zenon, <1>2, <1>4 DEF CreateOrder
  <2>2. /\ balances[a][g] - o.giveAmount = balances[a][g] + w /\ escrows[g] + o.giveAmount = escrows[g] - w
        /\ w \in Int /\ -w = o.giveAmount
    <3>1. g \in Ticks /\ a \in Addresses
      BY Zenon, <2>1
    <3> HIDE DEF g, a
    <3>2. PICK u \in Int, v \in Int : balances[a][g] = u /\ escrows[g] = v
      BY <1>1, <3>1
    <3>3. PICK k \in Nat : o.giveAmount = k
      BY Zenon, <1>2
    <3>4. u - k = u + (-k) /\ v + k = v - (-k) /\ -k \in Int /\ -(-k) = k
      OBVIOUS
    <3> QED BY Zenon, <3>2, <3>3, <3>4
  <2>3. w = -o.giveAmount
    BY Zenon
  <2> HIDE DEF w, g, a
  <2>4. balances' = Credit(balances, a, g, w) /\ escrows' = [escrows EXCEPT ![g] = @ - w]
    BY Zenon, <2>1, <2>2 DEF Credit
  <2>5. Settled /\ Drawn(g, w)
    BY Zenon, <1>1, <2>1, <2>2, <2>4, OnePayment
  <2>6. LedgerTypes'
    BY Zenon, <1>1, <2>1, <2>5 DEF LedgerTypes, Settled
  <2>7. ASSUME NEW t \in Ticks PROVE escrows'[t] - escrows[t] >= OfferDue(orders', matches, t, n)
    <3>0. escrows[t] \in Int
      BY SMTT(30), <1>1
    <3>1. CASE t = g
      <4>1. Gives(orders', matches, n) = o.giveAmount - 0
        BY Zenon, <1>s DEF Gives
      <4>2. OfferDue(orders', matches, t, n) = o.giveAmount - 0
        BY Zenon, <1>2, <1>s, <1>4, <3>1, <4>1 DEF OfferDue, g, RowLaws, LiveOrFinalLaw
      <4>3. escrows'[t] = escrows[t] - w
        BY Zenon, <2>5, <3>1 DEF Drawn
      <4> QED BY SMTT(30), <1>2, <2>2, <3>0, <4>2, <4>3
    <3>2. CASE t # g
      <4>1. OfferDue(orders', matches, t, n) = 0 /\ escrows'[t] = escrows[t]
        BY Zenon, <1>s, <2>5, <3>2 DEF OfferDue, g, Drawn
      <4> QED BY <3>0, <4>1
    <3> QED BY Zenon, <3>1, <3>2
  <2> QED BY Zenon, <2>5, <2>6, <2>7 DEF Settled, NewOfferIsCovered
<1> QED BY Zenon, <1>2, <1>3, <1>4

\* CreateOrder keeps the ledger.
LEMMA CreateLedger ==
  ASSUME SumLaws, RowLaws, LedgerInv, OrdersAssumption, NEW o \in UNION Markets, NEW life \in Lifetimes, CreateOrder(o, life)
  PROVE  LedgerGoal
<1>e. PICK n : n = Len(orders) + 1
  BY Zenon
<1>0. /\ LedgerTypes /\ SupplyConserved /\ EscrowCovers /\ MatchesJoin
      /\ orders \in Seq(OrderRow) /\ DOMAIN orders = 1 .. Len(orders)
      /\ matches \in Seq(MatchRow) /\ DOMAIN matches = 1 .. Len(matches)
      /\ escrows \in [Ticks -> Int]
  BY Zenon, LedgerFacts DEF LedgerInv, LedgerTypes
<1>1. OrderJoins(n, o) /\ matches' = matches /\ Given(matches, n) = 0
  BY Zenon, <1>e DEF LedgerInv, RowLaws, CreateEffectLaw
<1>2. LedgerTypes' /\ Balanced /\ NewOfferIsCovered(n)
  BY Zenon, <1>1, <1>e, TakenEscrow
<1>3. orders' \in Seq(OrderRow) /\ Len(orders') = n /\ \A i \in 1 .. Len(orders) : orders'[i] = orders[i]
  BY Zenon, <1>0, <1>1 DEF OrderJoins
<1>4. ASSUME NEW t \in Ticks
      PROVE  /\ OffersDue(orders, matches, t) \in Int /\ OffersDue(orders', matches', t) \in Int
             /\ MatchesDue(orders, matches, t) \in Int /\ MatchesDue(orders', matches', t) \in Int
             /\ escrows'[t] - escrows[t] >= (OffersDue(orders', matches', t) - OffersDue(orders, matches, t))
                                             + (MatchesDue(orders', matches', t) - MatchesDue(orders, matches, t))
  <2> DEFINE a == OffersDue(orders, matches, t)
             a2 == OffersDue(orders', matches', t)
             b == MatchesDue(orders, matches, t)
             b2 == MatchesDue(orders', matches', t)
             d == OfferDue(orders', matches, t, n)
             e == escrows'[t] - escrows[t]
  <2>1. a \in Int /\ d \in Int /\ a2 = a + d
    <3>1. RowAppended(orders, orders', n)
      BY Zenon, <1>3, <1>e DEF RowAppended
    <3> QED BY SMTT(30), <1>0, <1>1, <1>3, <3>1, OffersDueAppend
  <2>2. ASSUME NEW k \in 1 .. Len(matches) PROVE MatchDue(orders', matches', t, k) = MatchDue(orders, matches, t, k)
    <3>1. matches[k].taker \in DOMAIN orders /\ matches[k].maker \in DOMAIN orders
      BY Zenon, <1>0 DEF MatchesJoin
    <3>2. JoinsSameRows(orders, orders', matches[k])
      BY Zenon, <1>0, <1>3, <3>1 DEF JoinsSameRows
    <3>3. MatchDue(orders', matches, t, k) = MatchDue(orders, matches, t, k)
      BY SMTT(30), <3>2, MatchDueJoins
    <3> QED BY Zenon, <1>1, <3>3
  <2>3. b \in Int /\ b2 = b
    <3>1. SameMatchesDue(orders, matches, orders', matches', t, {})
      BY Zenon, <2>2 DEF SameMatchesDue
    <3> QED BY SMTT(30), <1>0, <1>1, <3>1, MatchesDueSame
  <2>4. e >= d /\ e \in Int
    <3>1. e >= d
      BY Zenon, <1>2 DEF NewOfferIsCovered
    <3>2. e \in Int
      BY SMTT(30), <1>0, <1>2 DEF LedgerTypes
    <3> QED BY <3>1, <3>2
  <2> HIDE DEF a, a2, b, b2, d, e
  <2>5. a2 \in Int /\ b2 \in Int /\ e >= (a2 - a) + (b2 - b)
    BY <2>1, <2>3, <2>4
  <2> QED BY ZenonT(30), <2>1, <2>3, <2>5 DEF a, a2, b, b2, e
<1>5. EscrowCovers'
  <2>1. escrows' \in [Ticks -> Int] /\ matches' \in Seq(MatchRow)
    BY Zenon, <1>0, <1>1, <1>2 DEF LedgerTypes
  <2> QED BY Zenon, <1>0, <1>3, <1>4, <2>1, EscrowStillCovers
<1>6. SupplyConserved'
  BY Zenon, <1>0, <1>2, SupplyIsKept DEF Balanced
<1> QED BY Zenon, <1>2, <1>5, <1>6 DEF LedgerGoal

-----------------------------------------------------------------------------
(* A sweep closes several orders at once.                                  *)

OpenOf(a) == {i \in DOMAIN orders : orders[i].status = "open" /\ orders[i].source = a}
ClosesOf(a) == OpenOf(a) \ {i \in OpenOf(a) : Pending(matches, i) # {}}

\* The closed offers of t, and what a sweep takes out of the escrow of t.
SweptOffers(a, t) == {i \in ClosesOf(a) : orders[i].give = t /\ ~orders[i].giveOwn}
Swept(a, t) == SumFunction([i \in SweptOffers(a, t) |-> GiveRemaining(matches, i)])

\* What it leaves the destination.
SweptRow(a, dest) == [t \in Ticks |-> balances[dest][t] + Swept(a, t)]

\* What a sweep takes out of an escrow is the sum over the orders it closes.
LEMMA SweptFacts ==
  ASSUME SumLaws, RowLaws, LedgerInv, NEW a, NEW t
  PROVE  /\ Swept(a, t) \in Int
         /\ Sum([i \in 1 .. Len(orders) |-> IF i \in SweptOffers(a, t) THEN GiveRemaining(matches, i) ELSE 0],
                1 .. Len(orders)) = Swept(a, t)
<1> DEFINE S == 1 .. Len(orders)
           T == SweptOffers(a, t)
           f == [i \in T |-> GiveRemaining(matches, i)]
           g == [i \in S |-> IF i \in T THEN GiveRemaining(matches, i) ELSE 0]
<1>1. BookTypes /\ DOMAIN orders = S /\ orders \in Seq(OrderRow) /\ matches \in Seq(MatchRow)
  BY Zenon, LedgerFacts
<1>2. IsFiniteSet(S) /\ T \in SUBSET S
  BY Zenon, <1>1, RowsAreFinite DEF SweptOffers, ClosesOf, OpenOf
<1>3. IsFiniteSet(T)
  BY Zenon, <1>2 DEF SumLaws, PartIsFiniteLaw
<1>4. \A i \in T : f[i] \in Int /\ g[i] = f[i]
  BY Zenon, <1>1, <1>2 DEF RowLaws, RemaindersAreIntegersLaw
<1>5. \A i \in S \ T : g[i] = 0
  BY Zenon
<1>6. DOMAIN f = T
  BY Zenon
<1>7. Swept(a, t) = SumFunction(f)
  BY Zenon DEF Swept
<1> HIDE DEF S, T, f, g
<1>8. SumFunction(f) = Sum(f, T) /\ Sum(f, T) \in Int
  BY Zenon, <1>3, <1>4, <1>6 DEF SumLaws, SumFunctionIsSumLaw, SumTypeLaw
<1>9. Sum(g, S) = Sum(f, T)
  BY <1>2, <1>4, <1>5 DEF SumLaws, SumOfPartLaw
<1> QED BY Zenon, <1>7, <1>8, <1>9 DEF S, T, g

\* What SweepOrders does to the ledger.
LEMMA SweepMoves ==
  ASSUME LedgerTypes, NEW a, NEW dest \in Addresses, SweepOrders(a, dest)
  PROVE  /\ escrows' = [t \in Ticks |-> escrows[t] - Swept(a, t)]
         /\ balances' = [balances EXCEPT ![dest] = SweptRow(a, dest)]
         /\ owner' \in [Ticks -> Addresses] /\ gate' \in [Ticks -> Nat] /\ matches' = matches
<1>1. /\ escrows' = [t \in Ticks |-> escrows[t] - Swept(a, t)]
      /\ balances' = [balances EXCEPT ![dest] = SweptRow(a, dest)]
      /\ matches' = matches
  BY Zenon DEF SweepOrders, SweptRow, Swept, SweptOffers, ClosesOf, OpenOf
<1> DEFINE delivered(t) == \E i \in ClosesOf(a) : orders[i].give = t /\ orders[i].giveOwn
<1>2. /\ owner' = [t \in Ticks |-> IF delivered(t) THEN dest ELSE owner[t]]
      /\ gate' = [t \in Ticks |-> IF delivered(t) THEN 0 ELSE gate[t]]
  BY Zenon DEF SweepOrders, ClosesOf, OpenOf
<1> HIDE DEF delivered
<1>3. owner \in [Ticks -> Addresses] /\ gate \in [Ticks -> Nat]
  BY Zenon DEF LedgerTypes
<1>4. owner' \in [Ticks -> Addresses]
  BY Zenon, <1>2, <1>3
<1>5. gate' \in [Ticks -> Nat]
  BY <1>2, <1>3
<1> QED BY Zenon, <1>1, <1>4, <1>5

\* It mints nothing.
LEMMA SweepSettles ==
  ASSUME SumLaws, RowLaws, LedgerInv, OrdersAssumption, NEW a \in Addresses, NEW dest \in Addresses, SweepOrders(a, dest)
  PROVE  /\ LedgerTypes' /\ Balanced /\ \A t \in Ticks : escrows'[t] = escrows[t] - Swept(a, t)
<1>1. /\ balances \in [Addresses -> [Ticks -> Int]] /\ escrows \in [Ticks -> Int]
      /\ IsFiniteSet(Addresses) /\ LedgerTypes
  BY Zenon, LedgerFacts DEF LedgerTypes, OrdersAssumption
<1>2. \A t : Swept(a, t) \in Int
  BY Zenon, SweptFacts
<1> DEFINE row == SweptRow(a, dest)
<1>3. /\ escrows' = [t \in Ticks |-> escrows[t] - Swept(a, t)]
      /\ balances' = [balances EXCEPT ![dest] = row]
      /\ owner' \in [Ticks -> Addresses] /\ gate' \in [Ticks -> Nat]
  BY SMTT(30), <1>1, SweepMoves
<1>4. row \in [Ticks -> Int] /\ \A t \in Ticks : row[t] = balances[dest][t] + Swept(a, t)
  BY <1>1, <1>2 DEF SweptRow
<1> HIDE DEF row
<1>5. balances' \in [Addresses -> [Ticks -> Int]]
  BY Zenon, <1>1, <1>3, <1>4, Written
<1>6. escrows' \in [Ticks -> Int] /\ \A t \in Ticks : escrows'[t] = escrows[t] - Swept(a, t)
  BY <1>1, <1>2, <1>3
<1>7. LedgerTypes'
  BY ZenonT(30), <1>3, <1>5, <1>6 DEF LedgerTypes
<1>8. ASSUME NEW t \in Ticks PROVE Column(balances', t) + escrows'[t] = Column(balances, t) + escrows[t]
  <2> DEFINE f == [b \in Addresses |-> balances[b][t]]
             g == [b \in Addresses |-> balances'[b][t]]
  <2>1. /\ balances'[dest] = row /\ \A b \in Addresses : b # dest => balances'[b] = balances[b]
    BY SMTT(30), <1>1, <1>3
  <2>2. \A b \in Addresses : balances[b][t] \in Int /\ balances'[b][t] \in Int
    BY <1>1, <1>5
  <2>3. DifferAt(f, g, Addresses, dest)
    BY Zenon, <2>1, <2>2 DEF DifferAt
  <2>4. /\ f[dest] = balances[dest][t] /\ g[dest] = balances[dest][t] + Swept(a, t)
        /\ Column(balances, t) = Sum(f, Addresses) /\ Column(balances', t) = Sum(g, Addresses)
    BY Zenon, <1>4, <2>1 DEF Column
  <2> HIDE DEF f, g
  <2>5. Sum(f, Addresses) \in Int /\ Sum(g, Addresses) = Sum(f, Addresses) - f[dest] + g[dest]
    BY SMTT(30), <1>1, <2>3, SumMoves
  <2>6. /\ escrows[t] \in Int /\ escrows'[t] = escrows[t] - Swept(a, t) /\ Swept(a, t) \in Int
        /\ balances[dest][t] \in Int
    BY <1>1, <1>2, <1>6
  <2> QED BY SMTT(30), <2>4, <2>5, <2>6
<1> QED BY Zenon, <1>6, <1>7, <1>8 DEF Balanced

\* What the closed orders could draw is what the sweep takes.
LEMMA SweepDues ==
  ASSUME SumLaws, RowLaws, LedgerInv, NEW a \in Addresses, NEW dest \in Addresses, SweepOrders(a, dest), NEW t \in Ticks
  PROVE  /\ OffersDue(orders, matches, t) \in Int /\ OffersDue(orders', matches', t) \in Int
         /\ OffersDue(orders, matches, t) = OffersDue(orders', matches', t) + Swept(a, t)
<1>1. /\ BookTypes /\ DOMAIN orders = 1 .. Len(orders) /\ orders \in Seq(OrderRow) /\ matches \in Seq(MatchRow)
  BY Zenon, LedgerFacts
<1>2. /\ RowsKept(orders, orders') /\ matches' = matches /\ AmountsKept(matches, matches')
  BY ZenonT(30), <1>1, SweepMoves, LedgerFacts DEF RowLaws, SweepEffectLaw, MatchesStayLaw
<1> DEFINE S == 1 .. Len(orders)
           f == [i \in S |-> OfferDue(orders', matches', t, i)]
           g == [i \in S |-> IF i \in SweptOffers(a, t) THEN GiveRemaining(matches, i) ELSE 0]
           h == [i \in S |-> OfferDue(orders, matches, t, i)]
<1>3. ASSUME NEW i \in S
      PROVE  f[i] \in Int /\ g[i] \in Int /\ h[i] = f[i] + g[i]
  <2>1. /\ OfferDue(orders, matches, t, i) \in Int /\ GiveRemaining(matches, i) \in Int
        /\ GiveRemaining(matches, i) = Gives(orders, matches, i)
    BY Zenon, <1>1, DueTypes DEF RowLaws, RemaindersAreIntegersLaw, RemainsIsGivesLaw
  <2>2. CASE i \in ClosesOf(a)
    <3>1. orders[i].status = "open" /\ orders[i].source = a /\ Pending(matches, i) = {} /\ i \in DOMAIN orders
      BY Zenon, <2>2 DEF ClosesOf, OpenOf
    <3>2. orders'[i].status = "cancelled"
      BY Zenon, <1>1, <3>1 DEF RowLaws, SweepEffectLaw
    <3>3. orders'[i].status \notin Live /\ orders[i].status \in Live
      BY <3>1, <3>2 DEF Live
    <3>4. f[i] = 0
      BY Zenon, <3>3 DEF OfferDue
    <3>5. h[i] = g[i]
      BY Zenon, <2>1, <2>2, <3>3 DEF OfferDue, SweptOffers
    <3>6. g[i] \in Int
      BY <2>1
    <3> QED BY <3>4, <3>5, <3>6
  <2>3. CASE i \notin ClosesOf(a)
    <3>1. orders'[i].status \in Live <=> orders[i].status \in Live
      <4>1. i \in DOMAIN orders
        BY Zenon, <1>1
      <4>2. CASE orders[i].status = "open" /\ orders[i].source = a
        <5>1. Pending(matches, i) # {}
          BY Zenon, <2>3, <4>1, <4>2 DEF ClosesOf, OpenOf
        <5>2. orders'[i].status = "cancelling"
          BY Zenon, <1>1, <4>1, <4>2, <5>1 DEF RowLaws, SweepEffectLaw
        <5> QED BY <4>2, <5>2 DEF Live
      <4>3. CASE ~(orders[i].status = "open" /\ orders[i].source = a)
        <5>1. orders'[i] = orders[i]
          BY Zenon, <1>1, <4>1, <4>3 DEF RowLaws, SweepEffectLaw
        <5> QED BY Zenon, <5>1
      <4> QED BY <4>2, <4>3
    <3>2. OfferDue(orders', matches', t, i) = OfferDue(orders, matches, t, i)
      BY Zenon, <1>1, <1>2, <3>1, OfferStays
    <3>3. g[i] = 0 /\ f[i] = h[i] /\ h[i] = OfferDue(orders, matches, t, i)
      BY Zenon, <2>3, <3>2 DEF SweptOffers
    <3> HIDE DEF f, g, h
    <3> QED BY <2>1, <3>3
  <2> QED BY <2>2, <2>3
<1>4. IsFiniteSet(S) /\ Len(orders') = Len(orders)
  BY Zenon, <1>1, <1>2, RowsAreFinite DEF RowsKept
<1>5. /\ OffersDue(orders, matches, t) = Sum(h, S) /\ OffersDue(orders', matches', t) = Sum(f, S)
      /\ Sum(g, S) = Swept(a, t)
  BY Zenon, <1>4, SweptFacts DEF OffersDue
<1> HIDE DEF S, f, g, h
<1>6. Sum(h, S) = Sum(f, S) + Sum(g, S) /\ Sum(f, S) \in Int /\ Sum(g, S) \in Int
  BY <1>3, <1>4 DEF SumLaws, SumPlusLaw, SumTypeLaw
<1>7. Sum(h, S) \in Int
  BY <1>6
<1> QED BY Zenon, <1>5, <1>6, <1>7

\* SweepOrders keeps the ledger: it takes out what the orders it closes could draw.
LEMMA SweepLedger ==
  ASSUME SumLaws, RowLaws, LedgerInv, OrdersAssumption, NEW a \in Addresses, NEW dest \in Addresses, SweepOrders(a, dest)
  PROVE  LedgerGoal
<1>0. /\ LedgerTypes /\ BookTypes /\ SupplyConserved /\ EscrowCovers
      /\ orders \in Seq(OrderRow) /\ matches \in Seq(MatchRow) /\ DOMAIN matches = 1 .. Len(matches)
  BY Zenon, LedgerFacts DEF LedgerInv
<1>1. LedgerTypes' /\ Balanced /\ \A t \in Ticks : escrows'[t] = escrows[t] - Swept(a, t)
  BY Zenon, SweepSettles
<1>2. RowsKept(orders, orders') /\ matches' = matches
  BY Zenon, <1>0, SweepMoves DEF RowLaws, SweepEffectLaw
<1>3. AmountsKept(matches, matches')
  BY Zenon, <1>0, <1>2 DEF RowLaws, MatchesStayLaw
<1>4. ASSUME NEW t \in Ticks
      PROVE  /\ OffersDue(orders, matches, t) \in Int /\ OffersDue(orders', matches', t) \in Int
             /\ MatchesDue(orders, matches, t) \in Int /\ MatchesDue(orders', matches', t) \in Int
             /\ escrows'[t] - escrows[t] >= (OffersDue(orders', matches', t) - OffersDue(orders, matches, t))
                                             + (MatchesDue(orders', matches', t) - MatchesDue(orders, matches, t))
  <2> DEFINE a1 == OffersDue(orders, matches, t)
             a2 == OffersDue(orders', matches', t)
             b1 == MatchesDue(orders, matches, t)
             b2 == MatchesDue(orders', matches', t)
             w == Swept(a, t)
  <2>1. a1 \in Int /\ a2 \in Int /\ a1 = a2 + w
    BY Zenon, SweepDues
  <2>2. SameMatchesDue(orders, matches, orders', matches', t, {})
    BY Zenon, <1>0, <1>2, <1>3, MatchStays DEF SameMatchesDue
  <2>3. b1 \in Int /\ b2 = b1
    BY <1>0, <1>2, <2>2, MatchesDueSame
  <2>4. escrows[t] \in Int /\ w \in Int /\ escrows'[t] = escrows[t] - w
    <3>1. escrows[t] \in Int
      BY SMTT(30), <1>0 DEF LedgerTypes
    <3> QED BY Zenon, <1>1, <3>1, SweptFacts
  <2> HIDE DEF a1, a2, b1, b2, w
  <2>5. b2 \in Int /\ escrows'[t] - escrows[t] >= (a2 - a1) + (b2 - b1)
    BY <2>1, <2>3, <2>4
  <2> QED BY Zenon, <2>1, <2>3, <2>5 DEF a1, a2, b1, b2
<1>5. EscrowCovers'
  <2>1. escrows \in [Ticks -> Int] /\ escrows' \in [Ticks -> Int] /\ orders' \in Seq(OrderRow) /\ matches' \in Seq(MatchRow)
    BY Zenon, <1>0, <1>1, <1>2 DEF LedgerTypes, RowsKept
  <2> QED BY Zenon, <1>0, <1>4, <2>1, EscrowStillCovers
<1>6. SupplyConserved'
  BY Zenon, <1>0, <1>1, SupplyIsKept DEF Balanced
<1> QED BY Zenon, <1>1, <1>5, <1>6 DEF LedgerGoal

-----------------------------------------------------------------------------
(* A match joins two open orders.                                          *)

\* What order k hands over in t by the match m.
HandsOver(k, m, t) == IF orders[k].give = t /\ ~orders[k].giveOwn THEN GivenBy(m, k) ELSE 0

\* Match m joins the open orders i and j; no other order changes.
Joins(m, i, j) ==
    /\ m \in MatchRow /\ m.taker = i /\ m.maker = j /\ matches' = Append(matches, m)
    /\ i \in DOMAIN orders /\ j \in DOMAIN orders /\ i # j
    /\ orders[i].status = "open" /\ orders[j].status = "open"
    /\ RowsKept(orders, orders') /\ \A k \in DOMAIN orders \ {i, j} : orders'[k] = orders[k]

\* An order can draw less by what it hands over.
LEMMA SideTrades ==
  ASSUME RowLaws, LedgerInv, WithinOffer', NEW m, NEW i, NEW j, Joins(m, i, j), NEW k \in {i, j}, NEW t
  PROVE  /\ OfferDue(orders, matches, t, k) \in Int /\ OfferDue(orders', matches', t, k) \in Int
         /\ HandsOver(k, m, t) \in Nat
         /\ OfferDue(orders', matches', t, k) <= OfferDue(orders, matches, t, k) - HandsOver(k, m, t)
<1>0. /\ BookTypes /\ orders \in Seq(OrderRow) /\ DOMAIN orders = 1 .. Len(orders) /\ matches \in Seq(MatchRow)
  BY Zenon, LedgerFacts
<1>1. /\ m \in MatchRow /\ m.taker = i /\ m.maker = j /\ matches' = Append(matches, m)
      /\ i \in DOMAIN orders /\ j \in DOMAIN orders /\ i # j
      /\ orders[i].status = "open" /\ orders[j].status = "open" /\ RowsKept(orders, orders')
  BY Zenon DEF Joins
<1> DEFINE n == GivenBy(m, k)
           r == GiveRemaining(matches, k)
<1>2. /\ k \in DOMAIN orders /\ orders[k].status = "open" /\ n \in Nat
  BY Zenon, <1>1 DEF GivenBy, MatchRow
<1>3. SameOffer(orders'[k], orders[k]) /\ orders' \in Seq(OrderRow) /\ DOMAIN orders' = DOMAIN orders
  <2>1. SameOffer(orders'[k], orders[k]) /\ orders' \in Seq(OrderRow) /\ Len(orders') = Len(orders)
    BY Zenon, <1>0, <1>1, <1>2 DEF RowsKept
  <2>2. DOMAIN orders' = 1 .. Len(orders')
    BY <2>1
  <2> QED BY Zenon, <1>0, <2>1, <2>2
<1>4. /\ GiveRemaining(matches, k)' = r - n /\ r \in Int /\ GiveRemaining(matches, k)' >= 0
      /\ r = Gives(orders, matches, k) /\ GiveRemaining(matches, k)' = Gives(orders', matches', k)
  <2>1. GivenBy(m, i) = m.give /\ GivenBy(m, j) = m.get
    BY Zenon, <1>1 DEF GivenBy
  <2>2. /\ GiveRemaining(matches, i)' = GiveRemaining(matches, i) - m.give
        /\ GiveRemaining(matches, j)' = GiveRemaining(matches, j) - m.get
    BY Zenon, <1>0, <1>1 DEF RowLaws, RemaindersAfterMatchLaw
  <2>3. GiveRemaining(matches, k)' = r - n
    <3>1. CASE k = i
      BY Zenon, <2>1, <2>2, <3>1 DEF GiveRemaining
    <3>2. CASE k = j
      BY Zenon, <2>1, <2>2, <3>2 DEF GiveRemaining
    <3> QED BY Zenon, <3>1, <3>2
  <2>4. r \in Int /\ r = Gives(orders, matches, k) /\ GiveRemaining(matches, k)' = Gives(orders', matches', k)
    BY Zenon, <1>0, <1>2 DEF RowLaws, RemaindersAreIntegersLaw, RemainsIsGivesLaw
  <2>5. GiveRemaining(matches, k)' >= 0
    BY Zenon, <1>2, <1>3 DEF WithinOffer
  <2> QED BY Zenon, <2>3, <2>4, <2>5
<1> DEFINE d == OfferDue(orders, matches, t, k)
           d2 == OfferDue(orders', matches', t, k)
           w == HandsOver(k, m, t)
<1>5. CASE orders[k].give = t /\ ~orders[k].giveOwn
  <2>1. orders'[k].give = t /\ ~orders'[k].giveOwn
    BY Zenon, <1>3, <1>5 DEF SameOffer
  <2>2. d = r /\ d2 \in {0, r - n} /\ w = n
    BY ZenonT(30), <1>2, <1>4, <1>5, <2>1 DEF OfferDue, HandsOver, RowLaws, LiveOrFinalLaw
  <2> HIDE DEF d, d2, w, n, r
  <2>3. d \in Int /\ d2 \in Int /\ w \in Nat /\ d2 <= d - w
    BY SMTT(30), <1>2, <1>4, <2>2
  <2> QED BY Zenon, <2>3 DEF d, d2, w
<1>6. CASE ~(orders[k].give = t /\ ~orders[k].giveOwn)
  <2>1. ~(orders'[k].give = t /\ ~orders'[k].giveOwn)
    BY Zenon, <1>3, <1>6 DEF SameOffer
  <2>2. d = 0 /\ d2 = 0 /\ w = 0
    BY Zenon, <1>6, <2>1 DEF OfferDue, HandsOver
  <2> QED BY <2>2
<1> QED BY Zenon, <1>5, <1>6

\* Nothing else is due more or less.
LEMMA OthersDoNotTrade ==
  ASSUME RowLaws, LedgerInv, NEW m, NEW i, NEW j, Joins(m, i, j), NEW t
  PROVE  /\ SameOffersDue(orders, matches, orders', matches', t, {i, j})
         /\ SameMatchesDue(orders, matches, orders', matches', t, {})
         /\ matches' \in Seq(MatchRow) /\ RowAppended(matches, matches', Len(matches) + 1)
         /\ matches'[Len(matches) + 1] = m
<1>0. /\ BookTypes /\ orders \in Seq(OrderRow) /\ DOMAIN orders = 1 .. Len(orders)
      /\ matches \in Seq(MatchRow) /\ DOMAIN matches = 1 .. Len(matches) /\ MatchesJoin
  BY Zenon, LedgerFacts
<1>1. /\ m \in MatchRow /\ m.taker = i /\ m.maker = j /\ matches' = Append(matches, m)
      /\ i \in DOMAIN orders /\ j \in DOMAIN orders /\ i # j
      /\ RowsKept(orders, orders') /\ \A k \in DOMAIN orders \ {i, j} : orders'[k] = orders[k]
  BY Zenon DEF Joins
<1>2. /\ matches' \in Seq(MatchRow) /\ Len(matches') = Len(matches) + 1
      /\ \A k \in 1 .. Len(matches) : matches'[k] = matches[k]
      /\ matches'[Len(matches) + 1] = m
  BY <1>0, <1>1
<1>3. RowAppended(matches, matches', Len(matches) + 1)
  BY Zenon, <1>2 DEF RowAppended
<1>4. ASSUME NEW k \in (1 .. Len(orders)) \ {i, j}
      PROVE  OfferDue(orders', matches', t, k) = OfferDue(orders, matches, t, k)
  <2>1. GiveRemaining(matches, k)' = GiveRemaining(matches, k)
    <3>1. \A x \in DOMAIN orders \ {i, j} : GiveRemaining(matches, x)' = GiveRemaining(matches, x)
      BY SMTT(30), <1>0, <1>1 DEF RowLaws, RemaindersAfterMatchLaw
    <3> QED BY ZenonT(30), <1>0, <1>4, <3>1
  <2>2. Gives(orders', matches', k) = Gives(orders, matches, k)
    BY Zenon, <2>1 DEF RowLaws, RemainsIsGivesLaw
  <2>3. orders'[k] = orders[k]
    BY Zenon, <1>0, <1>1
  <2> QED BY Zenon, <2>2, <2>3 DEF OfferDue
<1>5. ASSUME NEW k \in 1 .. Len(matches)
      PROVE  MatchDue(orders', matches', t, k) = MatchDue(orders, matches, t, k)
  <2>1. matches[k].taker \in 1 .. Len(orders) /\ matches[k].maker \in 1 .. Len(orders)
    BY Zenon, <1>0 DEF MatchesJoin
  <2>2. /\ SameOffer(orders'[matches[k].taker], orders[matches[k].taker])
        /\ SameOffer(orders'[matches[k].maker], orders[matches[k].maker])
    BY Zenon, <1>1, <2>1 DEF RowsKept
  <2>3. /\ SellerIn(orders', matches[k]) = SellerIn(orders, matches[k])
        /\ SellerIn(orders, matches[k]) \in {matches[k].taker, matches[k].maker}
    BY Zenon, <2>2 DEF SellerIn, SameOffer
  <2>4. SameOffer(orders'[SellerIn(orders, matches[k])], orders[SellerIn(orders, matches[k])])
    BY Zenon, <2>2, <2>3
  <2>5. matches'[k] = matches[k]
    BY Zenon, <1>2
  <2> QED BY Zenon, <2>3, <2>4, <2>5 DEF MatchDue, SameOffer
<1> QED BY Zenon, <1>2, <1>3, <1>4, <1>5 DEF SameOffersDue, SameMatchesDue

\* What the new match leaves due.
NewMatchDue(t) == MatchDue(orders', matches', t, Len(matches) + 1)

\* The escrow of every tick loses no more than the two orders hand over, less what their
\* match leaves due.
TradeIsCovered(m, i, j) ==
    \A t \in Ticks : escrows'[t] - escrows[t] >= NewMatchDue(t) - HandsOver(i, m, t) - HandsOver(j, m, t)

\* A match keeps the ledger if what leaves the escrows is what the two orders hand over and
\* their match is not due.
LEMMA TradeLedger ==
  ASSUME SumLaws, RowLaws, LedgerInv, WithinOffer', NEW m, NEW i, NEW j, Joins(m, i, j),
         orders[i].give # orders[j].give, LedgerTypes', Balanced, TradeIsCovered(m, i, j)
  PROVE  LedgerGoal
<1>0. /\ BookTypes /\ orders \in Seq(OrderRow) /\ DOMAIN orders = 1 .. Len(orders)
      /\ matches \in Seq(MatchRow) /\ LedgerTypes /\ SupplyConserved /\ EscrowCovers
  BY Zenon, LedgerFacts DEF LedgerInv
<1>1. /\ i \in 1 .. Len(orders) /\ j \in 1 .. Len(orders) /\ i # j
      /\ orders' \in Seq(OrderRow) /\ Len(orders') = Len(orders)
      /\ RowsKept(orders, orders')
  BY Zenon, <1>0 DEF Joins, RowsKept
<1>2. matches' \in Seq(MatchRow)
  BY Zenon, OthersDoNotTrade
<1>3. ASSUME NEW t \in Ticks
      PROVE  /\ OffersDue(orders, matches, t) \in Int /\ OffersDue(orders', matches', t) \in Int
             /\ MatchesDue(orders, matches, t) \in Int /\ MatchesDue(orders', matches', t) \in Int
             /\ escrows'[t] - escrows[t] >= (OffersDue(orders', matches', t) - OffersDue(orders, matches, t))
                                             + (MatchesDue(orders', matches', t) - MatchesDue(orders, matches, t))
  <2> DEFINE a == OffersDue(orders, matches, t)
             a2 == OffersDue(orders', matches', t)
             b == MatchesDue(orders, matches, t)
             b2 == MatchesDue(orders', matches', t)
             e == escrows'[t] - escrows[t]
             u == HandsOver(i, m, t)
             v == HandsOver(j, m, t)
             p == NewMatchDue(t)
  <2>1. b \in Int /\ p \in Int /\ b2 = b + p
    <3>1. /\ SameMatchesDue(orders, matches, orders', matches', t, {})
          /\ RowAppended(matches, matches', Len(matches) + 1)
      BY Zenon, OthersDoNotTrade
    <3> QED BY SMTT(30), <1>0, <1>1, <1>2, <3>1, MatchesDueAppend DEF NewMatchDue
  <2>2. e \in Int /\ e >= p - u - v
    <3>1. e \in Int
      BY <1>0 DEF LedgerTypes
    <3> QED BY Zenon, <3>1 DEF TradeIsCovered
  <2>3. u \in Nat /\ v \in Nat
    BY Zenon, SideTrades
  <2>4. a \in Int /\ a2 \in Int /\ a2 - a <= -(u + v)
    <3>1. ASSUME NEW x \in {i, j}, NEW y \in {i, j}, x # y, orders[y].give # t
          PROVE  /\ a \in Int /\ a2 \in Int /\ a2 - a <= -HandsOver(x, m, t) /\ HandsOver(y, m, t) = 0
      <4>1. OfferDue(orders, matches, t, y) = 0 /\ OfferDue(orders', matches', t, y) = 0 /\ HandsOver(y, m, t) = 0
        <5>1. orders'[y].give = orders[y].give
          BY Zenon, <1>1, <3>1 DEF RowsKept, SameOffer
        <5> QED BY Zenon, <3>1, <5>1 DEF OfferDue, HandsOver
      <4>2. SameOffersDue(orders, matches, orders', matches', t, {x})
        <5>1. SameOffersDue(orders, matches, orders', matches', t, {i, j})
          BY Zenon, OthersDoNotTrade
        <5>2. ASSUME NEW k \in (1 .. Len(orders)) \ {x}
              PROVE  OfferDue(orders', matches', t, k) = OfferDue(orders, matches, t, k)
          <6>1. CASE k = y
            BY Zenon, <4>1, <6>1
          <6>2. CASE k # y
            BY Zenon, <3>1, <5>1, <5>2, <6>2 DEF SameOffersDue
          <6> QED BY Zenon, <6>1, <6>2
        <5> QED BY Zenon, <5>2 DEF SameOffersDue
      <4>3. x \in 1 .. Len(orders)
        BY Zenon, <1>1, <3>1
      <4> DEFINE d == OfferDue(orders, matches, t, x)
                 d2 == OfferDue(orders', matches', t, x)
                 w == HandsOver(x, m, t)
      <4>4. a \in Int /\ a2 = a - d + d2
        <5>1. /\ orders \in Seq(OrderRow) /\ orders' \in Seq(OrderRow) /\ Len(orders') = Len(orders)
              /\ matches \in Seq(MatchRow) /\ matches' \in Seq(MatchRow)
          BY Zenon, <1>0, <1>1, <1>2
        <5> QED BY SMTT(30), <5>1, <4>2, <4>3, OffersDueMove
      <4>5. d \in Int /\ d2 \in Int /\ w \in Nat /\ d2 <= d - w
        BY ZenonT(30), <3>1, SideTrades
      <4> HIDE DEF a, a2, d, d2, w
      <4>6. a2 \in Int /\ a2 - a <= -w
        BY <4>4, <4>5
      <4> QED BY Zenon, <4>1, <4>4, <4>6 DEF w
    <3>2. CASE orders[i].give # t
      <4>1. a \in Int /\ a2 \in Int /\ a2 - a <= -v /\ u = 0
        BY Zenon, <1>1, <3>1, <3>2
      <4> HIDE DEF a, a2, u, v
      <4> QED BY SMTT(30), <2>3, <4>1
    <3>3. CASE orders[j].give # t
      <4>1. a \in Int /\ a2 \in Int /\ a2 - a <= -u /\ v = 0
        BY Zenon, <1>1, <3>1, <3>3
      <4> HIDE DEF a, a2, u, v
      <4> QED BY <2>3, <4>1
    <3> QED BY Zenon, <3>2, <3>3
  <2> HIDE DEF a, a2, b, b2, e, u, v, p
  <2>5. b2 \in Int /\ e >= (a2 - a) + (b2 - b)
    BY SMTT(30), <2>1, <2>2, <2>3, <2>4
  <2> QED BY Zenon, <2>1, <2>4, <2>5 DEF a, a2, b, b2, e
<1>4. EscrowCovers'
  <2>1. escrows \in [Ticks -> Int] /\ escrows' \in [Ticks -> Int]
    BY Zenon, <1>0 DEF LedgerTypes
  <2> QED BY Zenon, <1>0, <1>1, <1>2, <1>3, <2>1, EscrowStillCovers
<1>5. SupplyConserved'
  BY Zenon, <1>0, SupplyIsKept DEF Balanced
<1> QED BY Zenon, <1>4, <1>5 DEF LedgerGoal

\* The match of a pass joins its taker and a candidate, which give different ticks.
LEMMA PassJoins ==
  ASSUME RowLaws, LedgerInv, phase = "match", NEW c \in candidates, ~TakerExhausted, Fillable(taker, c),
         NEW f, NEW ob, NEW m, IsMatchRow(m, taker, c, f, ob), matches' = Append(matches, m),
         RowsKept(orders, orders'), \A k \in DOMAIN orders \ {taker, c} : orders'[k] = orders[k]
  PROVE  /\ Joins(m, taker, c) /\ m.obligation = ob
         /\ orders[taker].get = orders[c].give /\ orders[taker].give = orders[c].get
         /\ orders[taker].give # orders[c].give
         /\ taker \in DOMAIN orders /\ c \in DOMAIN orders
<1>1. BookInv /\ OffersAreReal
  BY Zenon, LedgerFacts DEF LedgerInv
<1>2. /\ taker \in DOMAIN orders /\ c \in DOMAIN orders /\ taker # c
      /\ orders[taker].status = "open" /\ orders[c].status = "open"
  BY Zenon, <1>1 DEF RowLaws, PassFactsLaw
<1>3. m \in MatchRow /\ m.taker = taker /\ m.maker = c /\ m.obligation = ob
  BY Zenon DEF IsMatchRow
<1>4. orders[taker].get = orders[c].give /\ orders[taker].give = orders[c].get
  BY Zenon DEF Fillable
<1>5. orders[taker].give # orders[taker].get
  BY Zenon, <1>1, <1>2 DEF OffersAreReal
<1>6. Joins(m, taker, c)
  BY Zenon, <1>2, <1>3 DEF Joins
<1> QED BY Zenon, <1>2, <1>3, <1>4, <1>5, <1>6

\* SettleByCoinpay: what the seller sold stays in escrow, due to the match.
LEMMA CoinpayMatchLedger ==
  ASSUME SumLaws, RowLaws, LedgerInv, WithinOffer', OrdersAssumption, NEW c \in candidates, SettleByCoinpay(c)
  PROVE  LedgerGoal
<1>0. /\ BookTypes /\ BookInv /\ LedgerTypes /\ orders \in Seq(OrderRow) /\ matches \in Seq(MatchRow)
      /\ DOMAIN orders = 1 .. Len(orders) /\ Coin \notin Ticks
  BY Zenon, LedgerFacts DEF LedgerInv, OrdersAssumption
<1>1. /\ phase = "match" /\ ~TakerExhausted /\ Fillable(taker, c)
      /\ orders' = orders /\ UNCHANGED ledger
      /\ matches' = Append(matches, NewMatch(taker, c, ComputeFillAmounts(taker, c), TRUE))
  BY Zenon DEF SettleByCoinpay
<1>2. PICK f : f = ComputeFillAmounts(taker, c)
  BY Zenon
<1>3. PICK m : m = NewMatch(taker, c, f, TRUE)
  BY Zenon
<1>4. IsMatchRow(m, taker, c, f, "pending_coinpay")
  BY ZenonT(30), <1>0, <1>1, <1>2, <1>3 DEF RowLaws, MatchOfPassLaw
<1>5. RowsKept(orders, orders') /\ \A k \in DOMAIN orders \ {taker, c} : orders'[k] = orders[k]
  BY ZenonT(30), <1>0, <1>1 DEF RowLaws, RowsStayLaw
<1>6. /\ Joins(m, taker, c) /\ m.obligation = "pending_coinpay"
      /\ orders[taker].get = orders[c].give /\ orders[taker].give # orders[c].give
      /\ taker \in DOMAIN orders /\ c \in DOMAIN orders
  <2>1. phase = "match" /\ ~TakerExhausted /\ Fillable(taker, c) /\ matches' = Append(matches, m)
    BY Zenon, <1>1, <1>2, <1>3
  <2> QED BY SMTT(30), <2>1, <1>4, <1>5, PassJoins
<1>7. LedgerTypes' /\ Balanced
  BY ZenonT(30), <1>0, <1>1 DEF LedgerTypes, Balanced, ledger
<1>8. ASSUME NEW t \in Ticks
      PROVE  escrows'[t] - escrows[t] >= NewMatchDue(t) - HandsOver(taker, m, t) - HandsOver(c, m, t)
  <2>1. escrows' = escrows /\ escrows[t] \in Int
    BY <1>0, <1>1 DEF ledger, LedgerTypes
  <2>2. HandsOver(taker, m, t) \in Nat /\ HandsOver(c, m, t) \in Nat
    BY Zenon, <1>6, SideTrades
  <2>3. PICK s : s = SellerIn(orders, m)
    BY Zenon
  <2>4. s \in {taker, c}
    BY Zenon, <1>6, <2>3 DEF SellerIn, Joins
  <2>5. NewMatchDue(t) = HandsOver(s, m, t)
    <3>1. matches'[Len(matches) + 1] = m
      BY Zenon, <1>6, OthersDoNotTrade
    <3> QED BY Zenon, <1>1, <1>6, <2>3, <3>1 DEF NewMatchDue, MatchDue, HandsOver
  <2>6. NewMatchDue(t) = HandsOver(taker, m, t) \/ NewMatchDue(t) = HandsOver(c, m, t)
    BY Zenon, <2>4, <2>5
  <2> QED BY SMTT(30), <2>1, <2>2, <2>6
<1>9. TradeIsCovered(m, taker, c)
  BY Zenon, <1>8 DEF TradeIsCovered
<1> QED BY Zenon, <1>6, <1>7, <1>9, TradeLedger

\* SettleInstantly: each side gives the other what the match is about.
LEMMA InstantMatchLedger ==
  ASSUME SumLaws, RowLaws, LedgerInv, WithinOffer', OrdersAssumption, NEW c \in candidates, SettleInstantly(c)
  PROVE  LedgerGoal
<1>0. /\ BookTypes /\ BookInv /\ LedgerTypes /\ orders \in Seq(OrderRow) /\ matches \in Seq(MatchRow)
      /\ DOMAIN orders = 1 .. Len(orders) /\ IsFiniteSet(Addresses)
  BY Zenon, LedgerFacts DEF LedgerInv, OrdersAssumption
<1> DEFINE g == orders[taker].give
           h == orders[c].give
           fill == ComputeFillAmounts(taker, c)
           gives == IF orders[taker].giveOwn THEN 0 ELSE fill.give
           gets  == IF orders[c].giveOwn THEN 0 ELSE fill.get
           delivered(t) == \/ t = g /\ orders[taker].giveOwn
                           \/ t = h /\ orders[c].giveOwn
<1>1. /\ phase = "match" /\ ~TakerExhausted /\ Fillable(taker, c) /\ Coin \notin {g, h}
      /\ matches' = Append(matches, NewMatch(taker, c, fill, FALSE))
  BY Zenon DEF SettleInstantly
<1>2. LegsPaid(orders[c].source, g, gives, orders[taker].source, h, gets)
  BY Zenon DEF SettleInstantly, LegsPaid
<1>3. /\ owner' = [t \in Ticks |-> IF ~delivered(t) THEN owner[t]
                                   ELSE IF t = g THEN orders[c].source ELSE orders[taker].source]
      /\ gate' = [t \in Ticks |-> IF delivered(t) THEN 0 ELSE gate[t]]
  BY Zenon DEF SettleInstantly
<1> HIDE DEF delivered
<1>f. PICK f : f = fill
  BY Zenon
<1>m. PICK m : m = NewMatch(taker, c, f, FALSE)
  BY Zenon
<1>4. IsMatchRow(m, taker, c, f, "none") /\ f.give \in Nat /\ f.get \in Nat
  <2>1. IsMatchRow(m, taker, c, f, "none")
    BY ZenonT(30), <1>0, <1>1, <1>f, <1>m DEF RowLaws, MatchOfPassLaw
  <2>2. taker \in DOMAIN orders /\ c \in DOMAIN orders
    BY Zenon, <1>0, <1>1 DEF RowLaws, PassFactsLaw
  <2> QED BY ZenonT(30), <1>0, <1>1, <1>f, <2>1, <2>2 DEF RowLaws, FairFillLaw
<1>5. RowsKept(orders, orders') /\ \A k \in DOMAIN orders \ {taker, c} : orders'[k] = orders[k]
  <2>1. taker \in DOMAIN orders /\ c \in DOMAIN orders
    BY Zenon, <1>0, <1>1 DEF RowLaws, PassFactsLaw
  <2> QED BY ZenonT(30), <1>0, <2>1 DEF RowLaws, InstantEffectLaw
<1>6. /\ Joins(m, taker, c) /\ m.obligation = "none" /\ g # h
      /\ taker \in DOMAIN orders /\ c \in DOMAIN orders
  BY Zenon, <1>1, <1>f, <1>m, <1>4, <1>5, PassJoins
<1>7. /\ g \in Ticks /\ h \in Ticks /\ gives \in Int /\ gets \in Int
      /\ orders[taker].source \in Addresses /\ orders[c].source \in Addresses
  <2>1. /\ g \in Ticks \cup {Coin} /\ h \in Ticks \cup {Coin}
        /\ orders[taker].source \in Addresses /\ orders[c].source \in Addresses
    BY ZenonT(30), <1>0, <1>6 DEF RowLaws, OrderRowFieldsLaw
  <2>2. gives \in Int /\ gets \in Int
    BY <1>4, <1>f
  <2> QED BY Zenon, <1>1, <2>1, <2>2
<1>v. HandsOver(taker, m, g) = gives /\ HandsOver(c, m, h) = gets
  <2>1. GivenBy(m, taker) = fill.give /\ GivenBy(m, c) = fill.get
    BY ZenonT(30), <1>4, <1>6, <1>f DEF GivenBy, IsMatchRow, Joins
  <2> QED BY Zenon, <2>1 DEF HandsOver
<1> HIDE DEF gives, gets, fill
<1>8. /\ Settled /\ escrows'[g] = escrows[g] - gives /\ escrows'[h] = escrows[h] - gets
      /\ \A v \in Ticks \ {g, h} : escrows'[v] = escrows[v]
  <2>1. IsFiniteSet(Addresses) /\ LedgerTypes
    BY Zenon, <1>0
  <2> QED BY SMTT(30), <2>1, <1>2, <1>6, <1>7, TwoPayments
<1>9. LedgerTypes' /\ Balanced
  <2>1. owner' \in [Ticks -> Addresses] /\ gate' \in [Ticks -> Nat]
    <3>1. owner \in [Ticks -> Addresses] /\ gate \in [Ticks -> Nat]
      BY Zenon, <1>0 DEF LedgerTypes
    <3> QED BY <1>3, <1>7, <3>1
  <2> QED BY Zenon, <1>8, <2>1 DEF LedgerTypes, Settled
<1>10. ASSUME NEW t \in Ticks
       PROVE  escrows'[t] - escrows[t] >= NewMatchDue(t) - HandsOver(taker, m, t) - HandsOver(c, m, t)
  <2>0. escrows[t] \in Int
    BY <1>0 DEF LedgerTypes
  <2>1. NewMatchDue(t) = 0
    <3>1. matches'[Len(matches) + 1] = m
      BY Zenon, <1>6, OthersDoNotTrade
    <3>2. "none" # "pending_coinpay"
      BY SMTT(30)
    <3> QED BY Zenon, <1>6, <3>1, <3>2 DEF NewMatchDue, MatchDue
  <2>2. CASE t = g
    <3>1. HandsOver(c, m, t) = 0 /\ HandsOver(taker, m, t) = gives /\ escrows'[t] = escrows[t] - gives
      BY ZenonT(30), <1>6, <1>8, <1>v, <2>2 DEF HandsOver
    <3> QED BY SMTT(30), <1>7, <2>0, <2>1, <3>1
  <2>3. CASE t = h
    <3>1. HandsOver(taker, m, t) = 0 /\ HandsOver(c, m, t) = gets /\ escrows'[t] = escrows[t] - gets
      BY Zenon, <1>6, <1>8, <1>v, <2>3 DEF HandsOver
    <3> QED BY SMTT(30), <1>7, <2>0, <2>1, <3>1
  <2>4. CASE t \notin {g, h}
    <3>1. HandsOver(taker, m, t) = 0 /\ HandsOver(c, m, t) = 0 /\ escrows'[t] = escrows[t]
      BY Zenon, <1>8, <2>4 DEF HandsOver
    <3> QED BY <2>0, <2>1, <3>1
  <2> QED BY Zenon, <2>2, <2>3, <2>4
<1>11. TradeIsCovered(m, taker, c)
  BY Zenon, <1>10 DEF TradeIsCovered
<1> QED BY Zenon, <1>6, <1>9, <1>11, TradeLedger

-----------------------------------------------------------------------------
(* A payment obligation ends.                                              *)

\* The remainder of an order within its offer is the amount refunded.
LEMMA MaxOfZero ==
  ASSUME NEW r \in Int, r >= 0
  PROVE  Max({0, r}) = r
<1>1. /\ r \in {0, r} /\ \A y \in {0, r} : r >= y
  OBVIOUS
<1>2. \E x \in {0, r} : \A y \in {0, r} : x >= y
  BY Zenon, <1>1
<1> DEFINE x == CHOOSE x \in {0, r} : \A y \in {0, r} : x >= y
<1>3. x \in {0, r} /\ \A y \in {0, r} : x >= y
  BY Zenon, <1>2
<1>4. x = r
  BY <1>3
<1> QED BY Zenon, <1>4 DEF Max

\* Obligation k of seller s ends, and s is finalized if it waited for it.
Resolves(k, s) ==
    /\ RowsKept(orders, orders') /\ AmountsKept(matches, matches')
    /\ matches[k].obligation = "pending_coinpay" /\ matches'[k].obligation # "pending_coinpay"
    /\ \A l \in DOMAIN matches : l # k => matches'[l] = matches[l]
    /\ Finalizes(matches', s) => orders'[s].status \in Final
    /\ ~Finalizes(matches', s) => orders'[s].status \in {orders[s].status, "complete"}

\* What a resolved seller can draw falls by its refund.
LEMMA RefundIsDue ==
  ASSUME RowLaws, LedgerInv, NEW k \in DOMAIN matches, NEW s \in DOMAIN orders, Resolves(k, s),
         ~orders[s].giveOwn, NEW t, t = orders[s].give
  PROVE  /\ OfferDue(orders, matches, t, s) \in Int /\ OfferDue(orders', matches', t, s) \in Int
         /\ Refund(matches', s) \in Int
         /\ OfferDue(orders', matches', t, s) - OfferDue(orders, matches, t, s) <= -Refund(matches', s)
<1>0. /\ BookTypes /\ orders \in Seq(OrderRow) /\ DOMAIN orders = 1 .. Len(orders)
      /\ matches \in Seq(MatchRow) /\ WithinOffer
  BY Zenon, LedgerFacts
<1>1. /\ RowsKept(orders, orders') /\ AmountsKept(matches, matches')
      /\ Finalizes(matches', s) => orders'[s].status \in Final
      /\ ~Finalizes(matches', s) => orders'[s].status \in {orders[s].status, "complete"}
  BY Zenon DEF Resolves
<1>2. PICK r : r = GiveRemaining(matches, s)
  BY Zenon
<1>3. r \in Int /\ r >= 0 /\ r = Gives(orders, matches, s)
  BY Zenon, <1>0, <1>2 DEF WithinOffer, RowLaws, RemaindersAreIntegersLaw, RemainsIsGivesLaw
<1>4. Given(matches', s) = Given(matches, s)
  BY Zenon, <1>0, <1>1 DEF AmountsKept, RowLaws, GivenIsKeptLaw
<1>5. GiveRemaining(matches', s) = r
  BY Zenon, <1>2, <1>4 DEF GiveRemaining
<1>6. SameOffer(orders'[s], orders[s])
  BY Zenon, <1>0, <1>1 DEF RowsKept
<1>7. Gives(orders', matches', s) = r /\ orders'[s].give = t /\ ~orders'[s].giveOwn
  BY Zenon, <1>3, <1>4, <1>6 DEF Gives, SameOffer
<1> DEFINE d == OfferDue(orders, matches, t, s)
           d2 == OfferDue(orders', matches', t, s)
           w == Refund(matches', s)
<1>8. CASE Finalizes(matches', s)
  <2>1. d2 = 0
    BY Zenon, <1>1, <1>8 DEF OfferDue, RowLaws, LiveOrFinalLaw
  <2>2. orders[s].status \in Live
    BY Zenon, <1>8 DEF Finalizes, RowLaws, LiveOrFinalLaw
  <2>3. d = r
    BY Zenon, <1>3, <2>2 DEF OfferDue
  <2>4. w = Max({0, r})
    BY Zenon, <1>5, <1>8 DEF Refund
  <2>5. w = r
    BY Zenon, <1>3, <2>4, MaxOfZero
  <2> HIDE DEF d, d2, w
  <2>6. d \in Int /\ d2 \in Int /\ w \in Int /\ d2 - d <= -w
    BY SMTT(30), <1>3, <2>1, <2>3, <2>5
  <2> QED BY Zenon, <2>6 DEF d, d2, w
<1>9. CASE ~Finalizes(matches', s)
  <2>1. w = 0
    BY Zenon, <1>9 DEF Refund
  <2>2. d \in {0, r}
    BY Zenon, <1>3 DEF OfferDue
  <2>3. d2 = 0 \/ d2 = d
    <3>1. CASE orders'[s].status = orders[s].status
      BY Zenon, <1>3, <1>7, <3>1 DEF OfferDue
    <3>2. CASE orders'[s].status = "complete"
      <4>1. "complete" \notin Live
        BY DEF Live
      <4> QED BY Zenon, <3>2, <4>1 DEF OfferDue
    <3> QED BY Zenon, <1>1, <1>9, <3>1, <3>2
  <2> HIDE DEF d, d2, w
  <2>4. d \in Int /\ d2 \in Int /\ w \in Int /\ d2 - d <= -w
    BY SMTT(30), <1>3, <2>1, <2>2, <2>3
  <2> QED BY Zenon, <2>4 DEF d, d2, w
<1> QED BY Zenon, <1>8, <1>9

\* The obligation was due what it sold, and is due nothing afterwards.
LEMMA ObligationIsDue ==
  ASSUME RowLaws, LedgerInv, NEW k \in DOMAIN matches, NEW s, s = SellerOf(matches[k]), Resolves(k, s), NEW t
  PROVE  /\ MatchDue(orders', matches', t, k) = 0
         /\ orders[s].give = t /\ ~orders[s].giveOwn => MatchDue(orders, matches, t, k) = GivenBy(matches[k], s)
         /\ ~(orders[s].give = t /\ ~orders[s].giveOwn) => MatchDue(orders, matches, t, k) = 0
         /\ GivenBy(matches[k], s) \in Int
<1>1. s = SellerIn(orders, matches[k])
  BY Zenon DEF SellerIn, SellerOf
<1>2. matches[k].obligation = "pending_coinpay" /\ matches'[k].obligation # "pending_coinpay"
  BY Zenon DEF Resolves
<1>3. MatchDue(orders', matches', t, k) = 0
  BY Zenon, <1>2 DEF MatchDue
<1>4. /\ orders[s].give = t /\ ~orders[s].giveOwn => MatchDue(orders, matches, t, k) = GivenBy(matches[k], s)
      /\ ~(orders[s].give = t /\ ~orders[s].giveOwn) => MatchDue(orders, matches, t, k) = 0
  BY Zenon, <1>1, <1>2 DEF MatchDue
<1>5. matches \in Seq(MatchRow) /\ DOMAIN matches = 1 .. Len(matches)
  BY Zenon, LedgerFacts
<1>6. matches[k].give \in Nat /\ matches[k].get \in Nat
  BY Zenon, <1>5 DEF RowLaws, MatchRowFieldsLaw
<1>7. GivenBy(matches[k], s) \in Nat
  BY Zenon, <1>6 DEF GivenBy
<1> QED BY SMTT(30), <1>3, <1>4, <1>7

\* What seller s sold by match k leaves its escrow: a token's ownership, or units with the
\* residual of a finalized seller.
LegMoves(k, s, dest) ==
    \/ /\ orders[s].giveOwn /\ UNCHANGED <<balances, escrows>>
       /\ owner' \in [Ticks -> Addresses] /\ gate' \in [Ticks -> Nat]
    \/ ~orders[s].giveOwn /\ ReleaseAndRefund(matches', s, GivenBy(matches[k], s), dest)

\* A resolved obligation keeps the ledger.
LEMMA ResolvedLedger ==
  ASSUME SumLaws, RowLaws, LedgerInv, OrdersAssumption, NEW k \in DOMAIN matches, NEW s, s = SellerOf(matches[k]), Resolves(k, s),
         OffersAsBefore({s}), NEW dest \in Addresses, LegMoves(k, s, dest)
  PROVE  LedgerGoal
<1>0. /\ BookTypes /\ orders \in Seq(OrderRow) /\ DOMAIN orders = 1 .. Len(orders) /\ IsFiniteSet(Addresses)
      /\ matches \in Seq(MatchRow) /\ OffersAreReal /\ MatchesJoin /\ LedgerTypes
  BY Zenon, LedgerFacts DEF OrdersAssumption
<1>1. /\ RowsKept(orders, orders') /\ AmountsKept(matches, matches')
      /\ matches[k].obligation = "pending_coinpay"
      /\ \A l \in DOMAIN matches : l # k => matches'[l] = matches[l]
  BY Zenon DEF Resolves
<1>2. s \in DOMAIN orders /\ orders[s].give \in Ticks
  <2>1. matches[k].obligation # "none"
    BY <1>1
  <2>2. PICK b : b = BuyerOf(matches[k])
    BY Zenon
  <2> QED BY ZenonT(30), <1>0, <2>1, <2>2 DEF RowLaws, SellerAndBuyerLaw
<1>3. PendingAsBefore({k})
  BY Zenon, <1>1 DEF PendingAsBefore
<1>4. CASE orders[s].giveOwn
  <2>1. /\ UNCHANGED <<balances, escrows>>
        /\ owner' \in [Ticks -> Addresses] /\ gate' \in [Ticks -> Nat]
    BY Zenon, <1>4 DEF LegMoves
  <2>2. LedgerTypes' /\ Balanced
    BY ZenonT(30), <1>0, <2>1 DEF LedgerTypes, Balanced
  <2>3. ASSUME NEW t \in Ticks
        PROVE  escrows'[t] - escrows[t] >= (OfferDue(orders', matches', t, s) - OfferDue(orders, matches, t, s))
                                            + (MatchDue(orders', matches', t, k) - MatchDue(orders, matches, t, k))
    <3>1. orders'[s].giveOwn
      BY Zenon, <1>0, <1>1, <1>2, <1>4 DEF RowsKept, SameOffer
    <3>2. OfferDue(orders', matches', t, s) = 0 /\ OfferDue(orders, matches, t, s) = 0
      BY Zenon, <1>4, <3>1 DEF OfferDue
    <3>3. MatchDue(orders', matches', t, k) = 0 /\ MatchDue(orders, matches, t, k) = 0
      <4>1. ~(orders[s].give = t /\ ~orders[s].giveOwn)
        BY Zenon, <1>4
      <4>2. MatchDue(orders', matches', t, k) = 0
        BY Zenon, ObligationIsDue
      <4>3. MatchDue(orders, matches, t, k) = 0
        BY ZenonT(30), <4>1, ObligationIsDue
      <4> QED BY Zenon, <4>2, <4>3
    <3>4. escrows' = escrows /\ escrows[t] \in Int
      BY <1>0, <2>1 DEF LedgerTypes
    <3> QED BY SMTT(30), <3>2, <3>3, <3>4
  <2>4. MatchIsCovered(s, k)
    BY Zenon, <2>3 DEF MatchIsCovered
  <2> QED BY Zenon, <1>1, <1>2, <1>3, <2>2, <2>4, OneMatchMoves
<1>5. CASE ~orders[s].giveOwn
  <2> DEFINE u == orders[s].give
             n == GivenBy(matches[k], s)
             w == Refund(matches', s)
  <2>1. /\ escrows' = [escrows EXCEPT ![u] = @ - n - w]
        /\ balances' = Credit(Credit(balances, dest, u, n), RefundTo(s), u, w)
        /\ UNCHANGED <<owner, gate>>
    BY Zenon, <1>5 DEF LegMoves, ReleaseAndRefund
  <2>2. n \in Int /\ w \in Int /\ RefundTo(s) \in Addresses
    <3>1. n \in Int
      BY Zenon, ObligationIsDue
    <3>2. w \in Int
      BY Zenon, <1>2, <1>5, RefundIsDue
    <3>3. orders[s].source \in Addresses /\ orders[s].sweep \in Addresses \cup {Nobody}
      BY ZenonT(30), <1>0, <1>2 DEF RowLaws, OrderRowFieldsLaw
    <3> QED BY Zenon, <3>1, <3>2, <3>3 DEF RefundTo
  <2> HIDE DEF u, n, w
  <2>3. Settled /\ Drawn(u, n + w)
    BY ZenonT(30), <1>0, <1>2, <2>1, <2>2, PaymentAndRefund DEF u
  <2>4. LedgerTypes' /\ Balanced
    BY Zenon, <1>0, <2>1, <2>3 DEF LedgerTypes, Settled
  <2>5. ASSUME NEW t \in Ticks
        PROVE  escrows'[t] - escrows[t] >= (OfferDue(orders', matches', t, s) - OfferDue(orders, matches, t, s))
                                            + (MatchDue(orders', matches', t, k) - MatchDue(orders, matches, t, k))
    <3>0. escrows[t] \in Int
      BY <1>0 DEF LedgerTypes
    <3>1. CASE t = u
      <4> DEFINE d == OfferDue(orders, matches, t, s)
                 d2 == OfferDue(orders', matches', t, s)
      <4>1. d \in Int /\ d2 \in Int /\ d2 - d <= -w
        BY Zenon, <1>2, <1>5, <3>1, RefundIsDue DEF u, w
      <4>2. MatchDue(orders', matches', t, k) = 0 /\ MatchDue(orders, matches, t, k) = n
        BY Zenon, <1>5, <3>1, ObligationIsDue DEF u, n
      <4>3. escrows'[t] = escrows[t] - (n + w)
        BY ZenonT(30), <2>3, <3>1 DEF Drawn
      <4> HIDE DEF d, d2
      <4>4. escrows'[t] - escrows[t] >= (d2 - d) + (0 - n)
        BY SMTT(30), <2>2, <3>0, <4>1, <4>3
      <4> QED BY Zenon, <4>2, <4>4 DEF d, d2
    <3>2. CASE t # u
      <4>1. orders'[s].give = u
        BY ZenonT(30), <1>0, <1>1, <1>2 DEF RowsKept, SameOffer, u
      <4>2. OfferDue(orders', matches', t, s) = 0 /\ OfferDue(orders, matches, t, s) = 0
        BY Zenon, <3>2, <4>1 DEF OfferDue, u
      <4>3. MatchDue(orders', matches', t, k) = 0 /\ MatchDue(orders, matches, t, k) = 0
        BY Zenon, <3>2, ObligationIsDue DEF u
      <4>4. escrows'[t] = escrows[t]
        BY Zenon, <2>3, <3>2 DEF Drawn
      <4> QED BY SMTT(30), <3>0, <4>2, <4>3, <4>4
    <3> QED BY ZenonT(30), <3>1, <3>2
  <2>6. MatchIsCovered(s, k)
    BY Zenon, <2>5 DEF MatchIsCovered
  <2> QED BY Zenon, <1>1, <1>2, <1>3, <2>4, <2>6, OneMatchMoves
<1> QED BY Zenon, <1>4, <1>5

\* Coinpay: the buyer's own offer is in coin, which no escrow holds.
LEMMA CoinpayLedger ==
  ASSUME SumLaws, RowLaws, LedgerInv, OrdersAssumption, NEW k \in DOMAIN matches, Coinpay(k)
  PROVE  LedgerGoal
<1>0. /\ BookTypes /\ orders \in Seq(OrderRow) /\ DOMAIN orders = 1 .. Len(orders) /\ Coin \notin Ticks
      /\ OffersAreReal /\ MatchesJoin /\ LedgerTypes
  BY Zenon, LedgerFacts DEF OrdersAssumption
<1>1. PICK s : s = SellerOf(matches[k])
  BY Zenon
<1>2. PICK b : b = BuyerOf(matches[k])
  BY ZenonT(30)
<1>3. /\ RowsKept(orders, orders') /\ AmountsKept(matches, matches')
      /\ matches[k].obligation = "pending_coinpay" /\ matches'[k].obligation = "fulfilled"
      /\ \A l \in DOMAIN matches : l # k => matches'[l] = matches[l]
      /\ \A i \in DOMAIN orders : i \notin {s, b} => orders'[i].status = orders[i].status
      /\ Finalizes(matches', s) => orders'[s].status \in Final
      /\ ~Finalizes(matches', s) => orders'[s].status \in {orders[s].status, "complete"}
  <2>1. CoinpayEffectLaw
    BY Zenon DEF RowLaws
  <2>2. BookTypes /\ OffersAreReal /\ MatchesJoin /\ Coinpay(k) /\ s = SellerOf(matches[k]) /\ b = BuyerOf(matches[k])
    BY Zenon, <1>0, <1>1, <1>2
  <2> QED BY SMTT(60), <2>1, <2>2 DEF CoinpayEffectLaw
<1>4. "none" # "pending_coinpay" /\ "fulfilled" # "pending_coinpay"
  OBVIOUS
<1>5. Resolves(k, s)
  BY Zenon, <1>3, <1>4 DEF Resolves
<1>6. s \in DOMAIN orders /\ b \in DOMAIN orders /\ orders[s].give \in Ticks /\ orders[b].give = Coin
  <2>1. matches[k].obligation # "none"
    BY Zenon, <1>3, <1>4
  <2> QED BY ZenonT(30), <1>0, <1>1, <1>2, <2>1 DEF RowLaws, SellerAndBuyerLaw
<1>7. ASSUME NEW t \in Ticks, NEW i \in DOMAIN orders \ {s}
      PROVE  OfferDue(orders', matches', t, i) = OfferDue(orders, matches, t, i)
  <2>1. CASE i = b
    <3>1. orders'[b].give = Coin
      BY ZenonT(30), <1>0, <1>3, <1>6 DEF RowsKept, SameOffer
    <3>2. orders[b].give # t /\ orders'[b].give # t
      BY Zenon, <1>0, <1>6, <3>1
    <3> QED BY Zenon, <2>1, <3>2 DEF OfferDue
  <2>2. CASE i # b
    <3>1. orders'[i].status = orders[i].status
      BY Zenon, <1>3, <1>7, <2>2
    <3> QED BY Zenon, <1>3, <1>7, <3>1, OfferStays
  <2> QED BY Zenon, <2>1, <2>2
<1>8. OffersAsBefore({s})
  BY Zenon, <1>7 DEF OffersAsBefore
<1>9. PICK dest \in Addresses : dest = orders[b].source
  BY ZenonT(30), <1>0, <1>6 DEF RowLaws, OrderRowFieldsLaw
<1>10. \/ orders[s].giveOwn /\ TransferTokenOwnership(orders[s].give, dest)
       \/ ~orders[s].giveOwn /\ ReleaseAndRefund(matches', s, GivenBy(matches[k], s), dest)
  BY Zenon, <1>1, <1>2, <1>9 DEF Coinpay
<1>11. ASSUME orders[s].giveOwn PROVE LegMoves(k, s, dest)
  <2>1. UNCHANGED <<balances, escrows>> /\ owner' \in [Ticks -> Addresses] /\ gate' \in [Ticks -> Nat]
    <3>1. /\ owner' = [owner EXCEPT ![orders[s].give] = dest] /\ gate' = [gate EXCEPT ![orders[s].give] = 0]
          /\ UNCHANGED <<balances, escrows>>
      BY ZenonT(30), <1>10, <1>11 DEF TransferTokenOwnership
    <3>2. owner \in [Ticks -> Addresses] /\ gate \in [Ticks -> Nat] /\ 0 \in Nat
      BY <1>0 DEF LedgerTypes
    <3> QED BY Zenon, <3>1, <3>2, Written
  <2> QED BY Zenon, <1>11, <2>1 DEF LegMoves
<1>12. ASSUME ~orders[s].giveOwn PROVE LegMoves(k, s, dest)
  BY Zenon, <1>10, <1>12 DEF LegMoves
<1>13. LegMoves(k, s, dest)
  BY Zenon, <1>11, <1>12
<1> QED BY ZenonT(30), <1>1, <1>5, <1>8, <1>9, <1>13, ResolvedLedger

\* CoinpayExpire.
LEMMA CoinpayExpireLedger ==
  ASSUME SumLaws, RowLaws, LedgerInv, OrdersAssumption, NEW k \in DOMAIN matches, CoinpayExpire(k)
  PROVE  LedgerGoal
<1>0. /\ BookTypes /\ orders \in Seq(OrderRow) /\ DOMAIN orders = 1 .. Len(orders)
      /\ OffersAreReal /\ MatchesJoin /\ LedgerTypes
  BY ZenonT(30), LedgerFacts
<1>1. PICK s : s = SellerOf(matches[k])
  BY Zenon
<1>3. /\ RowsKept(orders, orders') /\ AmountsKept(matches, matches')
      /\ matches[k].obligation = "pending_coinpay" /\ matches'[k].obligation = "expired"
      /\ \A l \in DOMAIN matches : l # k => matches'[l] = matches[l]
      /\ \A i \in DOMAIN orders : i # s => orders'[i] = orders[i]
      /\ Finalizes(matches', s) => orders'[s].status \in Final
      /\ ~Finalizes(matches', s) => orders'[s].status = orders[s].status
  <2>1. CoinpayExpireEffectLaw
    BY Zenon DEF RowLaws
  <2>2. BookTypes /\ OffersAreReal /\ MatchesJoin /\ CoinpayExpire(k) /\ s = SellerOf(matches[k])
    BY Zenon, <1>0, <1>1
  <2> QED BY SMTT(60), <2>1, <2>2 DEF CoinpayExpireEffectLaw
<1>4. "none" # "pending_coinpay" /\ "expired" # "pending_coinpay"
  OBVIOUS
<1>5. Resolves(k, s)
  BY Zenon, <1>3, <1>4 DEF Resolves
<1>6. s \in DOMAIN orders /\ orders[s].give \in Ticks
  <2>1. matches[k].obligation # "none"
    BY Zenon, <1>3, <1>4
  <2>2. PICK b : b = BuyerOf(matches[k])
    BY Zenon
  <2> QED BY ZenonT(30), <1>0, <1>1, <2>1, <2>2 DEF RowLaws, SellerAndBuyerLaw
<1>7. ASSUME NEW t \in Ticks, NEW i \in DOMAIN orders \ {s}
      PROVE  OfferDue(orders', matches', t, i) = OfferDue(orders, matches, t, i)
  <2>1. orders'[i].status = orders[i].status
    BY Zenon, <1>3, <1>7
  <2> QED BY Zenon, <1>3, <1>7, <2>1, OfferStays
<1>8. OffersAsBefore({s})
  BY Zenon, <1>7 DEF OffersAsBefore
<1>9. PICK dest \in Addresses : dest = RefundTo(s)
  <2>1. orders[s].source \in Addresses /\ orders[s].sweep \in Addresses \cup {Nobody}
    BY Zenon, <1>0, <1>6 DEF RowLaws, OrderRowFieldsLaw
  <2> QED BY Zenon, <2>1 DEF RefundTo
<1>10. \/ orders[s].giveOwn /\ ClearTokenEscrow(orders[s].give)
       \/ orders[s].giveOwn /\ TransferTokenOwnership(orders[s].give, dest)
       \/ ~orders[s].giveOwn /\ ReleaseAndRefund(matches', s, GivenBy(matches[k], s), dest)
  BY ZenonT(30), <1>1, <1>9 DEF CoinpayExpire
<1>11. ASSUME orders[s].giveOwn PROVE LegMoves(k, s, dest)
  <2>1. UNCHANGED <<balances, escrows>> /\ owner' \in [Ticks -> Addresses] /\ gate' \in [Ticks -> Nat]
    <3>1. /\ owner' = [owner EXCEPT ![orders[s].give] = dest] \/ owner' = owner
          /\ gate' = [gate EXCEPT ![orders[s].give] = 0] /\ UNCHANGED <<balances, escrows>>
      BY ZenonT(30), <1>10, <1>11 DEF TransferTokenOwnership, ClearTokenEscrow
    <3>2. owner \in [Ticks -> Addresses] /\ gate \in [Ticks -> Nat] /\ 0 \in Nat
      BY <1>0 DEF LedgerTypes
    <3>3. gate' \in [Ticks -> Nat]
      BY Zenon, <3>1, <3>2, Written
    <3>4. [owner EXCEPT ![orders[s].give] = dest] \in [Ticks -> Addresses]
      BY Zenon, <3>2, Written
    <3> QED BY Zenon, <3>1, <3>2, <3>3, <3>4
  <2> QED BY Zenon, <1>11, <2>1 DEF LegMoves
<1>12. ASSUME ~orders[s].giveOwn PROVE LegMoves(k, s, dest)
  BY ZenonT(30), <1>10, <1>12 DEF LegMoves
<1>13. LegMoves(k, s, dest)
  BY Zenon, <1>11, <1>12
<1> QED BY ZenonT(30), <1>1, <1>5, <1>8, <1>9, <1>13, ResolvedLedger

\* Every operation keeps the ledger.
LEMMA LedgerStep ==
  ASSUME SumLaws, RowLaws, LedgerInv, BookInv', [Next]_vars
  PROVE  LedgerInv'
<1>0. OrdersAssumption /\ WithinOffer'
  BY Zenon, OrdersAssumption DEF BookInv, Book
<1>1. ASSUME NEW o \in UNION Markets, NEW life \in Lifetimes, CreateOrder(o, life)
      PROVE  LedgerGoal
  BY Zenon, <1>0, <1>1, CreateLedger
<1>2. ASSUME NEW i \in DOMAIN orders, CancelOrder(i) \/ OrderExpire(i)
      PROVE  LedgerGoal
  BY Zenon, <1>0, <1>2, CancelLedger
<1>3. ASSUME NEW i \in DOMAIN orders, NEW life \in Lifetimes, EditOrder(i, life)
      PROVE  LedgerGoal
  BY Zenon, <1>0, <1>3, EditLedger
<1>4. ASSUME NEW a \in Addresses, NEW dest \in Addresses, SweepOrders(a, dest)
      PROVE  LedgerGoal
  BY Zenon, <1>0, <1>4, SweepLedger
<1>5. ASSUME NEW k \in DOMAIN matches, Coinpay(k) \/ CoinpayExpire(k)
      PROVE  LedgerGoal
  BY Zenon, <1>0, <1>5, CoinpayLedger, CoinpayExpireLedger
<1>6. ASSUME \/ MatchDone \/ NextPass \/ (\E j \in candidates : SkipCandidate(j))
             \/ (\E t \in Ticks, dest \in Addresses : IssueTransfer(t, dest))
      PROVE  LedgerGoal
  BY Zenon, <1>6, PassLedger
<1>7. ASSUME NEW j \in candidates, SettleByCoinpay(j) \/ SettleInstantly(j)
      PROVE  LedgerGoal
  BY Zenon, <1>0, <1>7, CoinpayMatchLedger, InstantMatchLedger
<1>8. CASE UNCHANGED vars
  <2>1. UNCHANGED <<orders, matches, balances, escrows, owner, gate>>
    BY Zenon, <1>8 DEF vars
  <2>2. owner' \in [Ticks -> Addresses]
    BY Zenon, <2>1, LedgerFacts DEF LedgerTypes
  <2> QED BY Zenon, <2>1, <2>2, RestLedger DEF LedgerGoal, LedgerInv
<1>9. ASSUME LedgerGoal
      PROVE  LedgerInv'
  BY Zenon, <1>9 DEF LedgerGoal, LedgerInv
<1>10. (\E market \in Markets : \E o \in market, life \in Lifetimes : CreateOrder(o, life))
        => \E o \in UNION Markets, life \in Lifetimes : CreateOrder(o, life)
  BY Zenon
<1>11. CASE Next
  BY ZenonT(30), <1>10, <1>11, <1>1, <1>2, <1>3, <1>4, <1>5, <1>6, <1>7, <1>9 DEF Next
<1> QED BY Zenon, <1>8, <1>11

\* The initial balances, and empty escrows that owe nothing.
LEMMA LedgerStarts ==
  ASSUME SumLaws, RowLaws, Init, BookInv
  PROVE  LedgerInv
<1>1. /\ orders = <<>> /\ matches = <<>> /\ balances = InitialBalance /\ escrows = [t \in Ticks |-> 0]
      /\ owner = InitialOwner /\ gate = [t \in Ticks |-> 0]
  BY Zenon DEF Init
<1>2. LedgerTypes
  <2>1. InitialBalance \in [Addresses -> [Ticks -> Nat]] /\ InitialOwner \in [Ticks -> Addresses]
    BY Zenon, OrdersAssumption DEF OrdersAssumption
  <2>2. ASSUME NEW a \in Addresses PROVE InitialBalance[a] \in [Ticks -> Int]
    BY <2>1
  <2>3. InitialBalance \in [Addresses -> [Ticks -> Int]]
    BY Zenon, <2>1, <2>2
  <2>4. escrows \in [Ticks -> Int] /\ gate \in [Ticks -> Nat]
    BY <1>1
  <2> QED BY Zenon, <1>1, <2>1, <2>3, <2>4 DEF LedgerTypes
<1>3. SupplyConserved
  <2>1. ASSUME NEW t \in Ticks PROVE Column(balances, t) + escrows[t] = Column(InitialBalance, t)
    <3>1. IsFiniteSet(Addresses)
      BY Zenon, OrdersAssumption DEF OrdersAssumption
    <3>2. Column(balances, t) \in Int
      BY SMTT(30), <1>2, <3>1, ColumnType DEF LedgerTypes
    <3>3. escrows[t] = 0
      BY Zenon, <1>1
    <3> QED BY <1>1, <3>2, <3>3
  <2> QED BY Zenon, <2>1, SupplyIsColumns
<1>4. EscrowCovers
  <2>1. ASSUME NEW t \in Ticks PROVE escrows[t] >= Owed(t)
    <3>1. escrows[t] = 0
      BY Zenon, <1>1
    <3>2. OffersDue(orders, matches, t) = 0 /\ MatchesDue(orders, matches, t) = 0
      <4>1. 1 .. Len(orders) = {} /\ 1 .. Len(matches) = {}
        BY <1>1
      <4> QED BY Zenon, <4>1 DEF OffersDue, MatchesDue, SumLaws, SumEmptyLaw
    <3>3. orders \in Seq(OrderRow) /\ matches \in Seq(MatchRow)
      BY Zenon DEF BookInv, BookTypes
    <3>4. Owed(t) = 0
      <4>1. Owed(t) = OffersDue(orders, matches, t) + MatchesDue(orders, matches, t)
        BY Zenon, <3>3, OwedIsOwedIn, OwedIsDue
      <4> QED BY <3>2, <4>1
    <3> QED BY SMTT(30), <3>1, <3>4
  <2> QED BY Zenon, <2>1 DEF EscrowCovers
<1> QED BY Zenon, <1>2, <1>3, <1>4 DEF LedgerInv
=============================================================================
