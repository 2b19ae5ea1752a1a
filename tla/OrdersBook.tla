----------------------------- MODULE OrdersBook -----------------------------
(***************************************************************************)
(* The book of the exchange, for any number of orders: every operation     *)
(* keeps the inductive invariant behind FillsAreFair (rows, joins and      *)
(* remainders make sense, and two orders that could trade are the taker of *)
(* the pass and a maker it has still to try), and the step behind          *)
(* NothingDangles (gates and sellers that wait for a payment).             *)
(***************************************************************************)
EXTENDS OrdersLaws, TLAPS

\* Sequences of rows are numbered from 1.
LEMMA DomainsOf ==
  ASSUME NEW os \in Seq(OrderRow), NEW ms \in Seq(MatchRow)
  PROVE  DOMAIN os = 1 .. Len(os) /\ DOMAIN ms = 1 .. Len(ms)
BY SMT

\* Steps that keep the payloads keep the offers real.
LEMMA OffersStayReal ==
  ASSUME RowLaws, BookTypes, OffersAreReal, RowsKept(orders, orders')
  PROVE  OffersAreReal' /\ DOMAIN orders' = DOMAIN orders
<1>1. DOMAIN orders' = 1 .. Len(orders) /\ DOMAIN orders = 1 .. Len(orders)
  BY Zenon, DomainsOf DEF RowsKept, BookTypes, RowLaws, DomainsLaw
<1>2. ASSUME NEW i \in DOMAIN orders'
      PROVE  orders'[i].give # orders'[i].get /\ (orders'[i].giveOwn => orders'[i].give # Coin)
  <2>1. SameOffer(orders'[i], orders[i])
    BY Zenon, <1>1 DEF RowsKept
  <2>2. orders[i].give # orders[i].get /\ (orders[i].giveOwn => orders[i].give # Coin)
    BY Zenon, <1>1 DEF OffersAreReal
  <2> QED BY Zenon, <2>1, <2>2 DEF SameOffer
<1> QED BY Zenon, <1>1, <1>2 DEF OffersAreReal

\* Candidates of an order: none appears.
LEMMA CandidatesShrink ==
  ASSUME RowLaws, BookTypes, RowsKept(orders, orders'), NEW i \in DOMAIN orders
  PROVE  FindOrderMatches(orders', i) \subseteq FindOrderMatches(orders, i)
<1>1. DOMAIN orders' = 1 .. Len(orders) /\ DOMAIN orders = 1 .. Len(orders)
  BY Zenon, DomainsOf DEF RowsKept, BookTypes, RowLaws, DomainsLaw
<1>2. ASSUME NEW j \in FindOrderMatches(orders', i)
      PROVE  j \in FindOrderMatches(orders, i)
  <2>1. j \in 1 .. Len(orders) /\ SameOffer(orders'[j], orders[j]) /\ SameOffer(orders'[i], orders[i])
        /\ orders[j].status = "open"
    BY Zenon, <1>1, <1>2 DEF FindOrderMatches, RowsKept
  <2> QED BY Zenon, <1>1, <1>2, <2>1 DEF FindOrderMatches, SameOffer
<1> QED BY Zenon, <1>2

\* A match whose two orders keep their payloads still joins them.
LEMMA MatchStaysJoined ==
  ASSUME RowLaws, BookTypes, MatchesJoin, PricesKept, RowsKept(orders, orders'), NEW k \in DOMAIN matches, NEW m,
         m.taker = matches[k].taker, m.maker = matches[k].maker, m.give = matches[k].give, m.get = matches[k].get,
         m.obligation # "none" => matches[k].obligation # "none"
  PROVE  /\ m.taker \in DOMAIN orders' /\ m.maker \in DOMAIN orders' /\ m.taker # m.maker
         /\ orders'[m.taker].give = orders'[m.maker].get
         /\ orders'[m.taker].get = orders'[m.maker].give
         /\ m.obligation # "none" => Coin \in {orders'[m.taker].give, orders'[m.taker].get}
         /\ PriceKept(m, orders'[m.taker], orders'[m.maker])
<1>1. DOMAIN orders' = 1 .. Len(orders) /\ DOMAIN orders = 1 .. Len(orders)
  BY Zenon, DomainsOf DEF RowsKept, BookTypes, RowLaws, DomainsLaw
<1>2. /\ m.taker \in DOMAIN orders /\ m.maker \in DOMAIN orders /\ m.taker # m.maker
      /\ orders[m.taker].give = orders[m.maker].get /\ orders[m.taker].get = orders[m.maker].give
      /\ m.obligation # "none" => Coin \in {orders[m.taker].give, orders[m.taker].get}
  BY Zenon DEF MatchesJoin
<1>3. SameOffer(orders'[m.taker], orders[m.taker]) /\ SameOffer(orders'[m.maker], orders[m.maker])
  BY Zenon, <1>1, <1>2 DEF RowsKept
<1>4. PriceKept(matches[k], orders[m.taker], orders[m.maker])
  BY Zenon DEF PricesKept
<1>5. PriceKept(m, orders'[m.taker], orders'[m.maker])
  BY Zenon, <1>3, <1>4 DEF PriceKept, SameOffer
<1>6. orders'[m.taker].give = orders'[m.maker].get /\ orders'[m.taker].get = orders'[m.maker].give
  BY Zenon, <1>2, <1>3 DEF SameOffer
<1>7. m.obligation # "none" => Coin \in {orders'[m.taker].give, orders'[m.taker].get}
  BY Zenon, <1>2, <1>3 DEF SameOffer
<1> QED BY Zenon, <1>1, <1>2, <1>5, <1>6, <1>7

\* Steps that make no order and no match.
LEMMA BookIsKept ==
  ASSUME RowLaws, BookTypes, Book, RowsKept(orders, orders'), AmountsKept(matches, matches')
  PROVE  /\ Book' /\ DOMAIN orders' = DOMAIN orders
         /\ \A i \in DOMAIN orders : /\ GiveRemaining(matches, i)' = GiveRemaining(matches, i)
                                     /\ GetRemaining(matches, i)' = GetRemaining(matches, i)
                                     /\ FindOrderMatches(orders', i) \subseteq FindOrderMatches(orders, i)
         /\ \A i, j \in DOMAIN orders : Fillable(i, j)' => Fillable(i, j)
<1>0. /\ orders \in Seq(OrderRow) /\ DOMAIN orders = 1 .. Len(orders)
      /\ matches \in Seq(MatchRow) /\ DOMAIN matches = 1 .. Len(matches)
      /\ orders' \in Seq(OrderRow) /\ Len(orders') = Len(orders)
      /\ matches' \in Seq(MatchRow) /\ Len(matches') = Len(matches)
      /\ DOMAIN matches' = 1 .. Len(matches') /\ DOMAIN orders' = 1 .. Len(orders)
  BY Zenon, DomainsOf DEF RowsKept, AmountsKept, RowLaws, DomainsLaw
<1>1. \A i : Given(matches', i) = Given(matches, i) /\ Gotten(matches', i) = Gotten(matches, i)
  BY Zenon, <1>0 DEF AmountsKept, RowLaws, GivenIsKeptLaw
<1>2. ASSUME NEW i \in DOMAIN orders
      PROVE  /\ GiveRemaining(matches, i)' = GiveRemaining(matches, i)
             /\ GetRemaining(matches, i)' = GetRemaining(matches, i)
  BY Zenon, <1>0, <1>1 DEF GiveRemaining, GetRemaining, RowsKept, SameOffer
<1>3. WithinOffer'
  BY Zenon, <1>0, <1>2 DEF WithinOffer, Book
<1>4. OffersAreReal'
  BY Zenon, OffersStayReal DEF Book
<1>5. MatchesJoin' /\ PricesKept'
  <2>1. ASSUME NEW k \in DOMAIN matches'
        PROVE  LET m == matches'[k] IN
               /\ m.taker \in DOMAIN orders' /\ m.maker \in DOMAIN orders' /\ m.taker # m.maker
               /\ orders'[m.taker].give = orders'[m.maker].get
               /\ orders'[m.taker].get = orders'[m.maker].give
               /\ m.obligation # "none" => Coin \in {orders'[m.taker].give, orders'[m.taker].get}
               /\ PriceKept(m, orders'[m.taker], orders'[m.maker])
    <3> DEFINE m == matches'[k]
    <3>1. k \in DOMAIN matches
      BY Zenon, <1>0
    <3>2. /\ m.taker = matches[k].taker /\ m.maker = matches[k].maker
          /\ m.give = matches[k].give /\ m.get = matches[k].get
          /\ m.obligation # "none" => matches[k].obligation # "none"
      BY Zenon, <1>0, <3>1 DEF AmountsKept
    <3> HIDE DEF m
    <3>3. /\ m.taker \in DOMAIN orders' /\ m.maker \in DOMAIN orders' /\ m.taker # m.maker
          /\ orders'[m.taker].give = orders'[m.maker].get
          /\ orders'[m.taker].get = orders'[m.maker].give
          /\ m.obligation # "none" => Coin \in {orders'[m.taker].give, orders'[m.taker].get}
          /\ PriceKept(m, orders'[m.taker], orders'[m.maker])
      BY Zenon, <3>1, <3>2, MatchStaysJoined DEF Book
    <3> QED BY Zenon, <3>3 DEF m
  <2>2. MatchesJoin'
    BY Zenon, <2>1 DEF MatchesJoin
  <2>3. PricesKept'
    BY Zenon, <2>1 DEF PricesKept
  <2> QED BY SMT, <2>2, <2>3
<1>6. ASSUME NEW i \in DOMAIN orders, NEW j \in DOMAIN orders, Fillable(i, j)'
      PROVE  Fillable(i, j)
  <2>1. Trades(orders', matches', i, j)
    BY Zenon, <1>6 DEF RowLaws, FillableIsTradesLaw
  <2>2. SameOffer(orders'[i], orders[i]) /\ SameOffer(orders'[j], orders[j])
    BY Zenon, <1>0 DEF RowsKept
  <2>3. \A x \in {i, j} : Given(matches, x) <= Given(matches', x) /\ Gotten(matches, x) <= Gotten(matches', x)
    <3> TAKE x \in {i, j}
    <3>1. Given(matches, x) \in Nat /\ Gotten(matches, x) \in Nat
      BY Zenon, <1>0 DEF RowLaws, GivenTypeLaw
    <3> QED BY SMT, <1>1, <3>1
  <2>4. Trades(orders, matches, i, j)
    BY Zenon, <1>0, <2>1, <2>2, <2>3 DEF RowLaws, TradedBeforeLaw
  <2> QED BY Zenon, <2>4 DEF RowLaws, FillableIsTradesLaw
<1>7. \A i \in DOMAIN orders : FindOrderMatches(orders', i) \subseteq FindOrderMatches(orders, i)
  BY Zenon, CandidatesShrink
<1> QED BY Zenon, <1>0, <1>2, <1>3, <1>4, <1>5, <1>6, <1>7 DEF Book

\* A step that makes a match.
LEMMA BookTakesMatch ==
  ASSUME RowLaws, BookTypes, Book, RowsKept(orders, orders'),
         NEW i \in DOMAIN orders, NEW j \in DOMAIN orders, i # j, Fillable(i, j),
         NEW m \in MatchRow, m.taker = i, m.maker = j,
         NEW f, f = ComputeFillAmounts(i, j), m.give = f.give, m.get = f.get,
         m.obligation # "none" => Coin \in {orders[i].give, orders[i].get},
         matches' = Append(matches, m)
  PROVE  /\ Book' /\ DOMAIN orders' = DOMAIN orders
         /\ \A x \in DOMAIN orders : FindOrderMatches(orders', x) \subseteq FindOrderMatches(orders, x)
         /\ \A x, y \in DOMAIN orders : Fillable(x, y)' => Fillable(x, y)
         /\ ~Fillable(i, j)' /\ ~Fillable(j, i)'
<1>0. /\ orders \in Seq(OrderRow) /\ DOMAIN orders = 1 .. Len(orders)
      /\ matches \in Seq(MatchRow) /\ DOMAIN matches = 1 .. Len(matches)
      /\ orders' \in Seq(OrderRow) /\ Len(orders') = Len(orders) /\ DOMAIN orders' = 1 .. Len(orders)
  BY Zenon, DomainsOf DEF RowsKept, RowLaws, DomainsLaw
<1>1. /\ matches' \in Seq(MatchRow)
      /\ GiveRemaining(matches, i)' = GiveRemaining(matches, i) - m.give
      /\ GetRemaining(matches, i)' = GetRemaining(matches, i) - m.get
      /\ GiveRemaining(matches, j)' = GiveRemaining(matches, j) - m.get
      /\ GetRemaining(matches, j)' = GetRemaining(matches, j) - m.give
      /\ \A x \in DOMAIN orders \ {i, j} :
            /\ GiveRemaining(matches, x)' = GiveRemaining(matches, x)
            /\ GetRemaining(matches, x)' = GetRemaining(matches, x)
      /\ \A x \in DOMAIN orders : /\ Given(matches, x) <= Given(matches', x)
                                  /\ Gotten(matches, x) <= Gotten(matches', x)
  BY Zenon DEF RowLaws, RemaindersAfterMatchLaw
<1>2. /\ m.give \in Nat /\ m.get \in Nat
      /\ m.give <= GiveRemaining(matches, i) /\ m.give <= GetRemaining(matches, j)
      /\ m.get <= GetRemaining(matches, i) /\ m.get <= GiveRemaining(matches, j)
      /\ \/ m.give = GiveRemaining(matches, i) \/ m.give = GetRemaining(matches, j)
         \/ m.get = GetRemaining(matches, i) \/ m.get = GiveRemaining(matches, j)
      /\ PriceKept(f, orders[i], orders[j])
  <2>1. /\ f.give \in Nat /\ f.get \in Nat
        /\ f.give <= GiveRemaining(matches, i) /\ f.give <= GetRemaining(matches, j)
        /\ f.get <= GetRemaining(matches, i) /\ f.get <= GiveRemaining(matches, j)
        /\ \/ f.give = GiveRemaining(matches, i) \/ f.give = GetRemaining(matches, j)
           \/ f.get = GetRemaining(matches, i) \/ f.get = GiveRemaining(matches, j)
        /\ PriceKept(f, orders[i], orders[j])
    BY Zenon DEF RowLaws, FairFillLaw
  <2> QED BY Zenon, <2>1
<1>3. /\ GiveRemaining(matches, i) \in Int /\ GetRemaining(matches, i) \in Int
      /\ GiveRemaining(matches, j) \in Int /\ GetRemaining(matches, j) \in Int
  BY Zenon DEF RowLaws, RemaindersAreIntegersLaw
<1>4. /\ GiveRemaining(matches, i)' >= 0 /\ GetRemaining(matches, i)' >= 0
      /\ GiveRemaining(matches, j)' >= 0 /\ GetRemaining(matches, j)' >= 0
      /\ \/ GiveRemaining(matches, i)' = 0 \/ GetRemaining(matches, i)' = 0
         \/ GiveRemaining(matches, j)' = 0 \/ GetRemaining(matches, j)' = 0
  <2> DEFINE a == GiveRemaining(matches, i)
             b == GetRemaining(matches, i)
             c == GiveRemaining(matches, j)
             d == GetRemaining(matches, j)
             a2 == GiveRemaining(matches, i)'
             b2 == GetRemaining(matches, i)'
             c2 == GiveRemaining(matches, j)'
             d2 == GetRemaining(matches, j)'
             u == m.give
             v == m.get
  <2> HIDE DEF a, b, c, d, a2, b2, c2, d2, u, v
  <2>1. /\ u \in Nat /\ v \in Nat /\ u <= a /\ u <= d /\ v <= b /\ v <= c
        /\ u = a \/ u = d \/ v = b \/ v = c
        /\ a2 = a - u /\ b2 = b - v /\ c2 = c - v /\ d2 = d - u
        /\ a \in Int /\ b \in Int /\ c \in Int /\ d \in Int
    BY Zenon, <1>1, <1>2, <1>3 DEF a, b, c, d, a2, b2, c2, d2, u, v
  <2>2. a2 >= 0 /\ b2 >= 0 /\ c2 >= 0 /\ d2 >= 0 /\ (a2 = 0 \/ b2 = 0 \/ c2 = 0 \/ d2 = 0)
    BY SMT, <2>1
  <2> QED BY Zenon, <2>2 DEF a2, b2, c2, d2
<1>5. WithinOffer'
  BY Zenon, <1>0, <1>1, <1>4 DEF WithinOffer, Book
<1>6. OffersAreReal'
  BY Zenon, OffersStayReal DEF Book
<1>7. \A x \in DOMAIN orders : SameOffer(orders'[x], orders[x])
  BY Zenon, <1>0 DEF RowsKept
<1>8. MatchesJoin' /\ PricesKept'
  <2> DEFINE Joined(r) == /\ r.taker \in DOMAIN orders' /\ r.maker \in DOMAIN orders' /\ r.taker # r.maker
                          /\ orders'[r.taker].give = orders'[r.maker].get
                          /\ orders'[r.taker].get = orders'[r.maker].give
                          /\ r.obligation # "none" => Coin \in {orders'[r.taker].give, orders'[r.taker].get}
                          /\ PriceKept(r, orders'[r.taker], orders'[r.maker])
  <2>1. /\ DOMAIN matches' = DOMAIN matches \cup {Len(matches) + 1}
        /\ matches'[Len(matches) + 1] = m
        /\ \A k \in DOMAIN matches : matches'[k] = matches[k]
    BY SMT, <1>0
  <2>2. ASSUME NEW k \in DOMAIN matches PROVE Joined(matches[k])
    BY Zenon, MatchStaysJoined DEF Book
  <2>3. Joined(m)
    <3>1. orders[i].give = orders[j].get /\ orders[i].get = orders[j].give
      BY Zenon DEF Fillable
    <3>2. PriceKept(m, orders'[i], orders'[j])
      BY Zenon, <1>2, <1>7 DEF PriceKept, SameOffer
    <3>3. orders'[i].give = orders'[j].get /\ orders'[i].get = orders'[j].give
      BY Zenon, <1>7, <3>1 DEF SameOffer
    <3>4. m.obligation # "none" => Coin \in {orders'[i].give, orders'[i].get}
      BY Zenon, <1>7 DEF SameOffer
    <3> QED BY Zenon, <1>0, <3>2, <3>3, <3>4
  <2> HIDE DEF Joined
  <2>4. \A k \in DOMAIN matches' : Joined(matches'[k])
    BY Zenon, <2>1, <2>2, <2>3
  <2>5. MatchesJoin'
    BY Zenon, <2>4 DEF MatchesJoin, Joined
  <2>6. PricesKept'
    BY Zenon, <2>4 DEF PricesKept, Joined
  <2> QED BY SMT, <2>5, <2>6
<1>9. ASSUME NEW x \in DOMAIN orders, NEW y \in DOMAIN orders, Fillable(x, y)'
      PROVE  Fillable(x, y)
  <2>1. Trades(orders', matches', x, y)
    BY Zenon, <1>9 DEF RowLaws, FillableIsTradesLaw
  <2>2. Trades(orders, matches, x, y)
    BY Zenon, <1>0, <1>1, <1>7, <2>1 DEF RowLaws, TradedBeforeLaw
  <2> QED BY Zenon, <2>2 DEF RowLaws, FillableIsTradesLaw
<1>10. ASSUME NEW x \in {i, j}, NEW y \in {i, j}, x # y, Fillable(x, y)'
       PROVE  FALSE
  <2>1. /\ Gives(orders', matches', i) > 0 /\ Gets(orders', matches', i) > 0
        /\ Gives(orders', matches', j) > 0 /\ Gets(orders', matches', j) > 0
    <3>1. Room(orders', matches', x, y)
      BY Zenon, <1>10 DEF Trades, RowLaws, FillableIsTradesLaw
    <3>2. \A z \in {x, y} : Gives(orders', matches', z) > 0 /\ Gets(orders', matches', z) > 0
      BY Zenon, <3>1 DEF Room
    <3>3. i \in {x, y} /\ j \in {x, y}
      BY SMT, <1>10
    <3> QED BY Zenon, <3>2, <3>3
  <2>2. /\ GiveRemaining(matches, i)' > 0 /\ GetRemaining(matches, i)' > 0
        /\ GiveRemaining(matches, j)' > 0 /\ GetRemaining(matches, j)' > 0
    BY Zenon, <2>1 DEF RowLaws, RemainsIsGivesLaw
  <2>3. ~(0 > 0)
    BY SMT
  <2> QED BY Zenon, <1>4, <2>2, <2>3
<1>11. \A x \in DOMAIN orders : FindOrderMatches(orders', x) \subseteq FindOrderMatches(orders, x)
  BY Zenon, CandidatesShrink
<1> QED BY Zenon, <1>0, <1>5, <1>6, <1>8, <1>9, <1>10, <1>11 DEF Book

\* Outside the match passes a step that makes no order and no match crosses nothing.
LEMMA QuietStep ==
  ASSUME RowLaws, BookInv, RowsKept(orders, orders'), AmountsKept(matches, matches'),
         phase # "match", phase' # "match", phase' \in {"txs", "match", "orders", "coinpays"},
         now' \in Nat, UNCHANGED matching
  PROVE  BookGoal
<1>1. BookTypes /\ Book /\ CrossedOnlyInPass
  BY Zenon DEF BookInv
<1>2. /\ Book' /\ DOMAIN orders' = DOMAIN orders
      /\ \A i \in DOMAIN orders : FindOrderMatches(orders', i) \subseteq FindOrderMatches(orders, i)
      /\ \A i, j \in DOMAIN orders : Fillable(i, j)' => Fillable(i, j)
  BY Zenon, <1>1, BookIsKept
<1>3. PassIsOpen'
  BY Zenon DEF PassIsOpen
<1>4. CrossedOnlyInPass'
  <2>1. SUFFICES ASSUME NEW i \in DOMAIN orders', NEW j \in DOMAIN orders', j < i, orders'[i].status = "open",
                        j \in FindOrderMatches(orders', i), Fillable(i, j)'
                 PROVE  FALSE
    BY Zenon DEF CrossedOnlyInPass
  <2>2. i \in DOMAIN orders /\ j \in DOMAIN orders /\ j \in FindOrderMatches(orders, i) /\ Fillable(i, j)
    BY Zenon, <1>2, <2>1
  <2>3. orders[i].status = "open"
    BY Zenon, <1>1, <2>1, <2>2 DEF RowsKept, RowLaws, DomainsLaw
  <2> QED BY Zenon, <1>1, <2>1, <2>2, <2>3 DEF CrossedOnlyInPass
<1>5. BookTypes'
  BY Zenon, <1>1, <1>2 DEF BookTypes, RowsKept, AmountsKept, matching
<1> QED BY Zenon, <1>2, <1>3, <1>4, <1>5 DEF BookGoal

\* A match pass begins.
LEMMA EditBook ==
  ASSUME RowLaws, BookInv, OrdersAssumption, NEW e \in DOMAIN orders, NEW life \in Lifetimes, EditOrder(e, life)
  PROVE  BookGoal
<1>1. BookTypes /\ Book /\ CrossedOnlyInPass
  BY Zenon DEF BookInv
<1>0. Lifetimes \subseteq Nat
  BY SMT DEF OrdersAssumption
<1>2. /\ phase = "txs" /\ phase' = "match" /\ taker' = e /\ candidates' = FindOrderMatches(orders', e)
      /\ UNCHANGED <<matches, now>>
  BY Zenon DEF EditOrder, StartMatching
<1>3. RowsKept(orders, orders') /\ orders[e].status = "open" /\ orders'[e].status = "open"
  BY Zenon, <1>0, <1>1 DEF RowLaws, EditEffectLaw
<1>4. AmountsKept(matches, matches')
  BY Zenon, <1>1, <1>2 DEF RowLaws, DomainsLaw, MatchesStayLaw
<1>5. /\ Book' /\ DOMAIN orders' = DOMAIN orders
      /\ \A i \in DOMAIN orders : FindOrderMatches(orders', i) \subseteq FindOrderMatches(orders, i)
      /\ \A i, j \in DOMAIN orders : Fillable(i, j)' => Fillable(i, j)
  BY Zenon, <1>1, <1>3, <1>4, BookIsKept
<1>6. PassIsOpen'
  BY Zenon, <1>2, <1>3, <1>5 DEF PassIsOpen
<1>7. CrossedOnlyInPass'
  <2>1. SUFFICES ASSUME NEW i \in DOMAIN orders', NEW j \in DOMAIN orders', j < i, orders'[i].status = "open",
                        j \in FindOrderMatches(orders', i), Fillable(i, j)'
                 PROVE  phase' = "match" /\ i = taker' /\ j \in candidates'
    BY Zenon DEF CrossedOnlyInPass
  <2>2. i \in DOMAIN orders /\ j \in DOMAIN orders /\ j \in FindOrderMatches(orders, i) /\ Fillable(i, j)
    BY Zenon, <1>5, <2>1
  <2>3. orders[i].status = "open"
    BY Zenon, <1>1, <1>3, <2>1, <2>2 DEF RowsKept, RowLaws, DomainsLaw
  <2> QED BY Zenon, <1>1, <1>2, <2>1, <2>2, <2>3 DEF CrossedOnlyInPass, RowLaws, PhasesDifferLaw
<1>8. candidates' \subseteq DOMAIN orders'
  BY Zenon, <1>2 DEF FindOrderMatches
<1>9. taker' \in Nat /\ now' \in Nat /\ matches' \in Seq(MatchRow) /\ orders' \in Seq(OrderRow)
  <2>1. e \in Nat
    BY SMT, <1>1 DEF RowLaws, DomainsLaw
  <2> QED BY Zenon, <1>1, <1>2, <1>3, <2>1 DEF BookTypes, RowsKept
<1>10. phase' \in {"txs", "match", "orders", "coinpays"}
  BY Zenon, <1>2
<1> QED BY Zenon, <1>5, <1>6, <1>7, <1>8, <1>9, <1>10 DEF BookGoal, BookTypes

\* The pass ends when nothing is left to try or nothing left to fill.
LEMMA MatchDoneBook ==
  ASSUME RowLaws, BookInv, MatchDone
  PROVE  BookGoal
<1>1. BookTypes /\ Book /\ CrossedOnlyInPass
  BY Zenon DEF BookInv
<1>2. /\ phase = "match" /\ phase' = "txs" /\ taker' = 0 /\ candidates' = {}
      /\ orders' = orders /\ matches' = matches /\ now' = now /\ (candidates = {} \/ TakerExhausted)
  BY Zenon DEF MatchDone
<1>3. RowsKept(orders, orders') /\ AmountsKept(matches, matches')
  BY Zenon, <1>1, <1>2 DEF RowLaws, DomainsLaw, MatchesStayLaw, RowsStayLaw
<1>4. Book' /\ \A i, j \in DOMAIN orders : Fillable(i, j)' => Fillable(i, j)
  BY Zenon, <1>1, <1>3, BookIsKept
<1>5. PassIsOpen'
  BY Zenon, <1>2 DEF PassIsOpen, RowLaws, PhasesDifferLaw
<1>6. CrossedOnlyInPass'
  <2>1. SUFFICES ASSUME NEW i \in DOMAIN orders, NEW j \in DOMAIN orders, j < i, orders[i].status = "open",
                        j \in FindOrderMatches(orders, i), Fillable(i, j)'
                 PROVE  FALSE
    BY Zenon, <1>2 DEF CrossedOnlyInPass
  <2>2. Fillable(i, j)
    BY Zenon, <1>4, <2>1
  <2>3. i = taker /\ j \in candidates
    BY Zenon, <1>1, <2>1, <2>2 DEF CrossedOnlyInPass
  <2>4. TakerExhausted
    BY Zenon, <1>2, <2>3
  <2>5. GiveRemaining(matches, i) > 0 /\ GetRemaining(matches, i) > 0
    BY Zenon, <2>2 DEF Fillable, HasFillRoom
  <2>6. GiveRemaining(matches, i) \in Int /\ GetRemaining(matches, i) \in Int
    BY Zenon, <1>1 DEF RowLaws, RemaindersAreIntegersLaw
  <2>7. GiveRemaining(matches, i) <= 0 \/ GetRemaining(matches, i) <= 0
    BY Zenon, <2>3, <2>4 DEF TakerExhausted
  <2> QED BY SMT, <2>5, <2>6, <2>7
<1>7. BookTypes'
  BY SMT, <1>1, <1>2 DEF BookTypes
<1> QED BY Zenon, <1>4, <1>5, <1>6, <1>7 DEF BookGoal

\* A candidate that cannot be filled is passed over.
LEMMA SkipBook ==
  ASSUME RowLaws, BookInv, NEW c \in candidates, SkipCandidate(c)
  PROVE  BookGoal
<1>1. BookTypes /\ Book /\ CrossedOnlyInPass /\ PassIsOpen
  BY Zenon DEF BookInv
<1>2. /\ phase = "match" /\ ~Fillable(taker, c) /\ candidates' = candidates \ {c}
      /\ orders' = orders /\ matches' = matches /\ now' = now /\ phase' = phase /\ taker' = taker
  BY Zenon DEF SkipCandidate
<1>3. RowsKept(orders, orders') /\ AmountsKept(matches, matches')
  BY Zenon, <1>1, <1>2 DEF RowLaws, DomainsLaw, MatchesStayLaw, RowsStayLaw
<1>4. /\ Book' /\ \A i, j \in DOMAIN orders : Fillable(i, j)' => Fillable(i, j)
      /\ \A i \in DOMAIN orders : /\ GiveRemaining(matches, i)' = GiveRemaining(matches, i)
                                  /\ GetRemaining(matches, i)' = GetRemaining(matches, i)
  BY Zenon, <1>1, <1>3, BookIsKept
<1>5. PassIsOpen'
  <2>1. taker \in DOMAIN orders /\ (orders[taker].status = "open" \/ TakerExhausted)
        /\ candidates \subseteq FindOrderMatches(orders, taker)
    BY Zenon, <1>1, <1>2 DEF PassIsOpen
  <2>2. TakerExhausted' <=> TakerExhausted
    BY Zenon, <1>2 DEF TakerExhausted, GiveRemaining, GetRemaining
  <2> QED BY Zenon, <1>2, <2>1, <2>2 DEF PassIsOpen
<1>6. CrossedOnlyInPass'
  <2>1. SUFFICES ASSUME NEW i \in DOMAIN orders, NEW j \in DOMAIN orders, j < i, orders[i].status = "open",
                        j \in FindOrderMatches(orders, i), Fillable(i, j)'
                 PROVE  i = taker /\ j \in candidates'
    BY Zenon, <1>2 DEF CrossedOnlyInPass
  <2>2. Fillable(i, j)
    BY Zenon, <1>4, <2>1
  <2>3. i = taker /\ j \in candidates
    BY Zenon, <1>1, <2>1, <2>2 DEF CrossedOnlyInPass
  <2> QED BY Zenon, <1>2, <2>2, <2>3
<1>7. BookTypes'
  BY Zenon, <1>1, <1>2 DEF BookTypes
<1> QED BY Zenon, <1>4, <1>5, <1>6, <1>7 DEF BookGoal

\* Candidate c leaves the pass, which goes on.
PassGoesOn(c) ==
    /\ candidates' = candidates \ {c} /\ phase' = phase /\ taker' = taker /\ now' = now
    /\ orders'[taker].status = "open" \/ TakerExhausted'
    /\ \A x \in candidates \ {c} : orders'[x].status = orders[x].status

\* A candidate is filled.
LEMMA SettleBook ==
  ASSUME RowLaws, BookInv, phase = "match", NEW c \in candidates, Fillable(taker, c),
         RowsKept(orders, orders'), PassGoesOn(c),
         NEW f, f = ComputeFillAmounts(taker, c), NEW m, NEW ob, IsMatchRow(m, taker, c, f, ob),
         ob # "none" => Coin \in {orders[taker].give, orders[taker].get},
         matches' = Append(matches, m)
  PROVE  BookGoal
<1>p. /\ candidates' = candidates \ {c} /\ phase' = phase /\ taker' = taker /\ now' = now
      /\ orders'[taker].status = "open" \/ TakerExhausted'
      /\ \A x \in candidates \ {c} : orders'[x].status = orders[x].status
  BY Zenon DEF PassGoesOn
<1>m. /\ m \in MatchRow /\ m.taker = taker /\ m.maker = c /\ m.give = f.give /\ m.get = f.get
      /\ m.obligation # "none" => Coin \in {orders[taker].give, orders[taker].get}
  BY Zenon DEF IsMatchRow
<1>1. BookTypes /\ Book /\ CrossedOnlyInPass
  BY Zenon DEF BookInv
<1>2. /\ taker \in DOMAIN orders /\ c \in DOMAIN orders /\ taker # c
      /\ candidates \subseteq FindOrderMatches(orders, taker)
  BY Zenon DEF RowLaws, PassFactsLaw
<1>3. /\ Book' /\ DOMAIN orders' = DOMAIN orders
      /\ \A x \in DOMAIN orders : FindOrderMatches(orders', x) \subseteq FindOrderMatches(orders, x)
      /\ \A x, y \in DOMAIN orders : Fillable(x, y)' => Fillable(x, y)
      /\ ~Fillable(taker, c)'
  <2> DEFINE i == taker
  <2>1. i \in DOMAIN orders /\ i # c /\ Fillable(i, c) /\ f = ComputeFillAmounts(i, c) /\ m.taker = i
        /\ (m.obligation # "none" => Coin \in {orders[i].give, orders[i].get})
    BY Zenon, <1>2, <1>m
  <2>2. SUFFICES ASSUME NEW t \in DOMAIN orders, t # c, Fillable(t, c), f = ComputeFillAmounts(t, c), m.taker = t,
                        m.obligation # "none" => Coin \in {orders[t].give, orders[t].get}
                 PROVE  /\ Book' /\ DOMAIN orders' = DOMAIN orders
                        /\ \A x \in DOMAIN orders : FindOrderMatches(orders', x) \subseteq FindOrderMatches(orders, x)
                        /\ \A x, y \in DOMAIN orders : Fillable(x, y)' => Fillable(x, y)
                        /\ ~Fillable(t, c)'
    <3>1. taker' = taker
      BY Zenon, <1>p
    <3> QED BY SMT, <2>1, <2>2, <3>1
  <2> QED BY ZenonT(30), <1>1, <1>2, <1>m, <1>p, <2>2, BookTakesMatch
<1>4. ASSUME NEW x \in candidates \ {c}
      PROVE  x \in FindOrderMatches(orders', taker)
  <2>1. x \in DOMAIN orders /\ x \in FindOrderMatches(orders, taker)
    BY Zenon, <1>1, <1>2 DEF BookTypes
  <2>2. SameOffer(orders'[x], orders[x]) /\ SameOffer(orders'[taker], orders[taker])
    BY Zenon, <1>1, <1>2, <2>1 DEF RowsKept, RowLaws, DomainsLaw
  <2>3. orders'[x].status = "open"
    BY Zenon, <1>p, <2>1 DEF FindOrderMatches
  <2> QED BY Zenon, <1>3, <2>1, <2>2, <2>3 DEF FindOrderMatches, SameOffer
<1>5. PassIsOpen'
  BY Zenon, <1>2, <1>3, <1>4, <1>p DEF PassIsOpen
<1>6. CrossedOnlyInPass'
  <2>1. SUFFICES ASSUME NEW i \in DOMAIN orders', NEW j \in DOMAIN orders', j < i, orders'[i].status = "open",
                        j \in FindOrderMatches(orders', i), Fillable(i, j)'
                 PROVE  i = taker /\ j \in candidates'
    BY Zenon, <1>p DEF CrossedOnlyInPass
  <2>2. i \in DOMAIN orders /\ j \in DOMAIN orders /\ j \in FindOrderMatches(orders, i) /\ Fillable(i, j)
    BY Zenon, <1>3, <2>1
  <2>3. orders[i].status = "open"
    BY Zenon, <1>1, <2>1, <2>2 DEF RowsKept, RowLaws, DomainsLaw
  <2>4. i = taker /\ j \in candidates
    BY Zenon, <1>1, <2>1, <2>2, <2>3 DEF CrossedOnlyInPass
  <2>5. j # c
    <3>1. Fillable(taker, j)'
      BY SMT, <1>p, <2>1, <2>4
    <3> QED BY SMT, <1>3, <3>1
  <2> QED BY Zenon, <1>p, <2>4, <2>5
<1>7. BookTypes'
  <2>1. matches' \in Seq(MatchRow)
    BY SMT, <1>1, <1>m DEF RowLaws, DomainsLaw
  <2>2. candidates' \subseteq DOMAIN orders'
    BY Zenon, <1>1, <1>3, <1>p DEF BookTypes
  <2> QED BY Zenon, <1>1, <1>p, <2>1, <2>2 DEF BookTypes, RowsKept
<1> QED BY Zenon, <1>3, <1>5, <1>6, <1>7 DEF BookGoal

\* SettleByCoinpay keeps the book.
LEMMA CoinpayMatchBook ==
  ASSUME RowLaws, BookInv, OrdersAssumption, NEW c \in candidates, SettleByCoinpay(c)
  PROVE  BookGoal
<1> DEFINE f == ComputeFillAmounts(taker, c)
           m == NewMatch(taker, c, f, TRUE)
<1>1. /\ phase = "match" /\ Fillable(taker, c) /\ ~TakerExhausted
      /\ Coin \in {orders[taker].give, orders[taker].get}
      /\ matches' = Append(matches, m)
      /\ candidates' = candidates \ {c}
      /\ orders' = orders /\ now' = now /\ phase' = phase /\ taker' = taker
  BY Zenon DEF SettleByCoinpay
<1>e. f = ComputeFillAmounts(taker, c) /\ m = NewMatch(taker, c, f, TRUE)
  BY Zenon
<1> HIDE DEF f, m
<1>r. IsMatchRow(m, taker, c, f, "pending_coinpay")
  BY Zenon, <1>1, <1>e DEF RowLaws, MatchOfPassLaw
<1>2. RowsKept(orders, orders')
  BY Zenon, <1>1 DEF BookInv, RowLaws, DomainsLaw, RowsStayLaw
<1>3. PassGoesOn(c)
  BY Zenon, <1>1 DEF PassGoesOn, RowLaws, PassFactsLaw
<1> QED BY Zenon, <1>1, <1>2, <1>3, <1>e, <1>r, SettleBook

\* SettleInstantly keeps the book.
LEMMA InstantMatchBook ==
  ASSUME RowLaws, BookInv, OrdersAssumption, NEW c \in candidates, SettleInstantly(c)
  PROVE  BookGoal
<1> DEFINE f == ComputeFillAmounts(taker, c)
           m == NewMatch(taker, c, f, FALSE)
<1>1. /\ phase = "match" /\ Fillable(taker, c) /\ ~TakerExhausted
      /\ matches' = Append(matches, m)
      /\ candidates' = candidates \ {c}
      /\ now' = now /\ phase' = phase /\ taker' = taker
  BY Zenon DEF SettleInstantly
<1>e. f = ComputeFillAmounts(taker, c) /\ m = NewMatch(taker, c, f, FALSE)
  BY Zenon
<1> HIDE DEF f, m
<1>r. IsMatchRow(m, taker, c, f, "none")
  BY Zenon, <1>1, <1>e DEF RowLaws, MatchOfPassLaw
<1>2. /\ taker \in DOMAIN orders /\ c \in DOMAIN orders /\ orders[taker].status = "open"
      /\ candidates \subseteq FindOrderMatches(orders, taker)
  BY Zenon, <1>1 DEF RowLaws, PassFactsLaw
<1>3. /\ RowsKept(orders, orders') /\ \A k \in DOMAIN orders \ {taker, c} : orders'[k] = orders[k]
      /\ orders'[taker].status = "open" \/ TakerExhausted'
  BY Zenon, <1>2 DEF BookInv, RowLaws, InstantEffectLaw
<1>4. \A x \in candidates \ {c} : orders'[x].status = orders[x].status
  BY Zenon, <1>2, <1>3 DEF FindOrderMatches
<1>5. PassGoesOn(c)
  BY Zenon, <1>1, <1>3, <1>4 DEF PassGoesOn
<1> QED BY Zenon, <1>1, <1>3, <1>5, <1>e, <1>r, SettleBook

\* CreateOrder keeps the book: the crossings it makes are those its pass will try.
LEMMA CreateBook ==
  ASSUME RowLaws, BookInv, OrdersAssumption, NEW o \in UNION Markets, NEW life \in Lifetimes, CreateOrder(o, life)
  PROVE  BookGoal
<1>1. BookTypes /\ Book /\ CrossedOnlyInPass
  BY Zenon DEF BookInv
<1>e. PICK n : n = Len(orders) + 1
  BY Zenon
<1>2. OrderJoins(n, o) /\ PassBegins(n) /\ UNCHANGED <<matches, now>> /\ Given(matches, n) = 0 /\ Gotten(matches, n) = 0
  BY Zenon, <1>e DEF RowLaws, CreateEffectLaw
<1>3. orders' \in Seq(OrderRow) /\ n \in Nat /\ DOMAIN orders' = DOMAIN orders \cup {n} /\ Len(orders') = n
  BY Zenon, <1>2 DEF OrderJoins
<1>4. \A i \in DOMAIN orders : orders'[i] = orders[i] /\ i < n
  BY Zenon, <1>2 DEF OrderJoins
<1>5. PassBegins(n)
  BY Zenon, <1>2
<1>6. matches' = matches /\ now' = now
  BY Zenon, <1>2
<1>o. /\ SameOffer(orders'[n], o) /\ o.give # o.get /\ (o.giveOwn => o.give # Coin)
      /\ o.giveAmount \in Nat \ {0} /\ o.getAmount \in Nat \ {0}
  <2>1. SameOffer(orders'[n], o)
    BY Zenon, <1>2 DEF OrderJoins
  <2> QED BY Zenon, <2>1 DEF RowLaws, OfferIsRealLaw
<1>z. Given(matches', n) = 0 /\ Gotten(matches', n) = 0
  BY Zenon, <1>2
<1>7. OffersAreReal'
  <2>1. orders'[n].give # orders'[n].get /\ (orders'[n].giveOwn => orders'[n].give # Coin)
    BY Zenon, <1>o DEF SameOffer
  <2>2. \A i \in DOMAIN orders : orders'[i].give # orders'[i].get /\ (orders'[i].giveOwn => orders'[i].give # Coin)
    BY Zenon, <1>1, <1>4 DEF OffersAreReal, Book
  <2> QED BY Zenon, <1>3, <2>1, <2>2 DEF OffersAreReal
<1>8. WithinOffer'
  <2>1. ASSUME NEW i \in DOMAIN orders
        PROVE  GiveRemaining(matches, i)' >= 0 /\ GetRemaining(matches, i)' >= 0
    BY Zenon, <1>1, <1>4, <1>6 DEF Book, WithinOffer, GiveRemaining, GetRemaining
  <2>2. GiveRemaining(matches, n)' >= 0 /\ GetRemaining(matches, n)' >= 0
    <3>1. orders'[n].giveAmount \in Nat \ {0} /\ orders'[n].getAmount \in Nat \ {0}
      BY Zenon, <1>o DEF SameOffer
    <3>2. /\ GiveRemaining(matches, n)' = orders'[n].giveAmount - 0
          /\ GetRemaining(matches, n)' = orders'[n].getAmount - 0
      BY Zenon, <1>z DEF GiveRemaining, GetRemaining
    <3> QED BY SMT, <3>1, <3>2
  <2> QED BY Zenon, <1>3, <2>1, <2>2 DEF WithinOffer
<1>9. MatchesJoin' /\ PricesKept'
  <2>1. ASSUME NEW k \in DOMAIN matches
        PROVE  /\ matches[k].taker \in DOMAIN orders /\ matches[k].maker \in DOMAIN orders
               /\ matches[k].taker \in DOMAIN orders' /\ matches[k].maker \in DOMAIN orders'
               /\ orders'[matches[k].taker] = orders[matches[k].taker]
               /\ orders'[matches[k].maker] = orders[matches[k].maker]
    BY Zenon, <1>1, <1>3, <1>4 DEF Book, MatchesJoin
  <2>2. MatchesJoin'
    BY ZenonT(30), <1>1, <1>6, <2>1 DEF MatchesJoin, Book
  <2>3. PricesKept'
    BY Zenon, <1>1, <1>6, <2>1 DEF PricesKept, Book
  <2> QED BY SMT, <2>2, <2>3
<1>a. PassIsOpen'
  BY Zenon, <1>2, <1>3 DEF PassIsOpen, PassBegins, OrderJoins
<1>b. CrossedOnlyInPass'
  <2>1. SUFFICES ASSUME NEW i \in DOMAIN orders', NEW j \in DOMAIN orders', j < i, orders'[i].status = "open",
                        j \in FindOrderMatches(orders', i), Fillable(i, j)', i # n
                 PROVE  FALSE
    BY Zenon, <1>5, <1>6 DEF CrossedOnlyInPass, PassBegins
  <2>2. i \in DOMAIN orders /\ j \in DOMAIN orders
    <3>1. i \in DOMAIN orders
      BY Zenon, <1>3, <2>1
    <3>2. j \in Nat /\ i \in Nat /\ i < n
      BY SMT, <1>1, <1>3, <1>4, <2>1, <3>1 DEF RowLaws, DomainsLaw
    <3>3. j # n
      BY SMT, <1>3, <2>1, <3>2
    <3> QED BY Zenon, <1>3, <2>1, <3>1, <3>3
  <2>3. orders'[i] = orders[i] /\ orders'[j] = orders[j]
    BY Zenon, <1>4, <2>2
  <2>4. Fillable(i, j)
    <3>1. Trades(orders', matches', i, j)
      BY Zenon, <2>1 DEF RowLaws, FillableIsTradesLaw
    <3>2. Trades(orders, matches, i, j)
      BY Zenon, <1>6, <2>3, <3>1 DEF Trades, Room, Exact, FillOn, Gives, Gets
    <3> QED BY Zenon, <3>2 DEF RowLaws, FillableIsTradesLaw
  <2>5. j \in FindOrderMatches(orders, i)
    BY Zenon, <2>1, <2>2, <2>3 DEF FindOrderMatches
  <2>6. orders[i].status = "open"
    BY Zenon, <2>1, <2>3
  <2> QED BY Zenon, <1>1, <1>5, <2>1, <2>2, <2>4, <2>5, <2>6 DEF CrossedOnlyInPass, PassBegins, RowLaws, PhasesDifferLaw
<1>c. BookTypes'
  <2>1. candidates' \subseteq DOMAIN orders'
    BY Zenon, <1>5 DEF FindOrderMatches, PassBegins
  <2>2. phase' \in {"txs", "match", "orders", "coinpays"} /\ taker' = n
    BY Zenon, <1>5 DEF PassBegins
  <2> QED BY Zenon, <1>1, <1>3, <1>6, <2>1, <2>2 DEF BookTypes
<1> QED BY Zenon, <1>7, <1>8, <1>9, <1>a, <1>b, <1>c DEF BookGoal, Book

\* CancelOrder and OrderExpire keep the book.
LEMMA CancelBook ==
  ASSUME RowLaws, BookInv, NEW i \in DOMAIN orders, CancelOrder(i) \/ OrderExpire(i)
  PROVE  BookGoal
<1>1. BookTypes
  BY Zenon DEF BookInv
<1>2. RowsKept(orders, orders') /\ UNCHANGED <<matches, now, phase, matching>> /\ phase # "match"
  BY Zenon, <1>1 DEF RowLaws, CancelEffectLaw
<1>3. AmountsKept(matches, matches')
  BY Zenon, <1>1, <1>2 DEF RowLaws, DomainsLaw, MatchesStayLaw
<1>4. now' \in Nat /\ phase' \in {"txs", "match", "orders", "coinpays"} /\ phase' # "match" /\ UNCHANGED matching
  BY Zenon, <1>1, <1>2 DEF BookTypes
<1> QED BY Zenon, <1>2, <1>3, <1>4, QuietStep

\* SweepOrders keeps the book.
LEMMA SweepBook ==
  ASSUME RowLaws, BookInv, NEW a \in Addresses, NEW dest \in Addresses, SweepOrders(a, dest)
  PROVE  BookGoal
<1>1. BookTypes
  BY Zenon DEF BookInv
<1>2. phase = "txs" /\ UNCHANGED <<matches, now, phase, matching>>
  BY Zenon DEF SweepOrders
<1>3. AmountsKept(matches, matches')
  BY Zenon, <1>1, <1>2 DEF RowLaws, DomainsLaw, MatchesStayLaw
<1>4. RowsKept(orders, orders')
  BY Zenon, <1>1 DEF RowLaws, SweepEffectLaw
<1>5. now' \in Nat /\ phase' \in {"txs", "match", "orders", "coinpays"} /\ phase' # "match" /\ UNCHANGED matching
  BY Zenon, <1>1, <1>2 DEF BookTypes, RowLaws, PhasesDifferLaw
<1> QED BY Zenon, <1>2, <1>3, <1>4, <1>5, QuietStep DEF RowLaws, PhasesDifferLaw

\* Coinpay and CoinpayExpire keep the book.
LEMMA PaymentBook ==
  ASSUME RowLaws, BookInv, NEW k \in DOMAIN matches, Coinpay(k) \/ CoinpayExpire(k)
  PROVE  BookGoal
<1>1. BookTypes /\ OffersAreReal /\ MatchesJoin
  BY Zenon DEF BookInv, Book
<1>2. phase # "match" /\ UNCHANGED <<now, phase, matching>>
  BY Zenon DEF Coinpay, CoinpayExpire, RowLaws, PhasesDifferLaw
<1>3. RowsKept(orders, orders') /\ AmountsKept(matches, matches')
  <2>1. CASE Coinpay(k)
    BY Zenon, <1>1, <2>1 DEF RowLaws, CoinpayEffectLaw
  <2>2. CASE CoinpayExpire(k)
    BY Zenon, <1>1, <2>2 DEF RowLaws, CoinpayExpireEffectLaw
  <2> QED BY SMT, <2>1, <2>2
<1>4. now' \in Nat /\ phase' \in {"txs", "match", "orders", "coinpays"} /\ phase' # "match" /\ UNCHANGED matching
  BY Zenon, <1>1, <1>2 DEF BookTypes
<1> QED BY Zenon, <1>2, <1>3, <1>4, QuietStep

\* NextPass and IssueTransfer keep the book.
LEMMA PassBook ==
  ASSUME RowLaws, BookInv, NextPass \/ \E t \in Ticks, dest \in Addresses : IssueTransfer(t, dest)
  PROVE  BookGoal
<1>1. BookTypes
  BY Zenon DEF BookInv
<1>2. /\ phase # "match" /\ phase' # "match" /\ phase' \in {"txs", "match", "orders", "coinpays"}
      /\ UNCHANGED <<orders, matches, matching>> /\ now' \in {now, now + 1}
  BY Zenon DEF NextPass, IssueTransfer, RowLaws, PhasesDifferLaw
<1>3. RowsKept(orders, orders') /\ AmountsKept(matches, matches')
  BY Zenon, <1>1, <1>2 DEF RowLaws, DomainsLaw, MatchesStayLaw, RowsStayLaw
<1>4. now' \in Nat
  BY SMT, <1>1, <1>2 DEF BookTypes
<1> QED BY Zenon, <1>2, <1>3, <1>4, QuietStep

\* Every step of the exchange keeps the book.
LEMMA BookStep ==
  ASSUME RowLaws, BookInv, [Next]_vars
  PROVE  BookInv'
<1>0. OrdersAssumption
  BY SMT, OrdersAssumption
<1>1. ASSUME NEW o \in UNION Markets, NEW life \in Lifetimes, CreateOrder(o, life)
      PROVE  BookGoal
  BY Zenon, <1>0, <1>1, CreateBook
<1>2. ASSUME NEW i \in DOMAIN orders, CancelOrder(i) \/ OrderExpire(i)
      PROVE  BookGoal
  BY Zenon, <1>2, CancelBook
<1>3. ASSUME NEW i \in DOMAIN orders, NEW life \in Lifetimes, EditOrder(i, life)
      PROVE  BookGoal
  BY Zenon, <1>0, <1>3, EditBook
<1>4. ASSUME NEW a \in Addresses, NEW dest \in Addresses, SweepOrders(a, dest)
      PROVE  BookGoal
  BY Zenon, <1>4, SweepBook
<1>5. ASSUME NextPass \/ \E t \in Ticks, dest \in Addresses : IssueTransfer(t, dest)
      PROVE  BookGoal
  BY Zenon, <1>5, PassBook
<1>6. ASSUME NEW k \in DOMAIN matches, Coinpay(k) \/ CoinpayExpire(k)
      PROVE  BookGoal
  BY Zenon, <1>6, PaymentBook
<1>7. CASE MatchDone
  BY Zenon, <1>7, MatchDoneBook DEF BookGoal, BookInv
<1>8. ASSUME NEW j \in candidates, SkipCandidate(j) \/ SettleByCoinpay(j) \/ SettleInstantly(j)
      PROVE  BookGoal
  BY Zenon, <1>0, <1>8, SkipBook, CoinpayMatchBook, InstantMatchBook
<1>9. CASE UNCHANGED vars
  <2>1. UNCHANGED <<orders, matches, now, phase, taker, candidates>>
    BY Zenon, <1>9 DEF vars
  <2>2. BookTypes' /\ Book'
    BY Zenon, <2>1 DEF BookInv, BookTypes, Book, OffersAreReal, MatchesJoin, WithinOffer, PricesKept,
       GiveRemaining, GetRemaining
  <2>3. PassIsOpen' /\ CrossedOnlyInPass'
    BY Zenon, <2>1 DEF BookInv, PassIsOpen, CrossedOnlyInPass, TakerExhausted, GiveRemaining, GetRemaining, RowLaws, FillableIsTradesLaw
  <2> QED BY Zenon, <2>2, <2>3 DEF BookInv
<1>a. ASSUME BookGoal
      PROVE  BookInv'
  BY Zenon, <1>a DEF BookGoal, BookInv
<1>b. (\E market \in Markets : \E o \in market, life \in Lifetimes : CreateOrder(o, life))
        => \E o \in UNION Markets, life \in Lifetimes : CreateOrder(o, life)
  BY Zenon
<1>c. CASE Next
  BY Zenon, <1>c, <1>b, <1>1, <1>2, <1>3, <1>4, <1>5, <1>6, <1>7, <1>8, <1>a DEF Next
<1> QED BY Zenon, <1>9, <1>c

\* The empty book.
LEMMA BookStarts == Init => BookInv
<1>1. SUFFICES ASSUME Init PROVE BookInv
  BY SMT
<1>2. /\ orders = <<>> /\ matches = <<>> /\ now = 0 /\ phase = "txs" /\ taker = 0 /\ candidates = {}
  BY Zenon, <1>1 DEF Init
<1>3. BookTypes /\ DOMAIN orders = {} /\ DOMAIN matches = {}
  BY SMT, <1>2 DEF BookTypes
<1>4. Book
  BY Zenon, <1>3 DEF Book, OffersAreReal, MatchesJoin, WithinOffer, PricesKept
<1>5. PassIsOpen
  <2>1. phase # "match"
    BY SMT, <1>2
  <2> QED BY Zenon, <2>1 DEF PassIsOpen
<1>6. CrossedOnlyInPass
  BY Zenon, <1>3 DEF CrossedOnlyInPass
<1> QED BY Zenon, <1>3, <1>4, <1>5, <1>6 DEF BookInv

-----------------------------------------------------------------------------
(* Gates and waiting sellers.                                              *)

Waiting == {"cancelling", "expiring"}

\* Order i does not wait for a payment that nobody owes.
SellerWaits(os, ms, i) == os[i].status \in Waiting /\ os[i].give # Coin => Pending(ms, i) # {}

\* A raised gate of t names a live ownership offer of t by the owner of t.
GateNames(os, n, a, t) ==
    n # 0 => /\ n \in DOMAIN os /\ os[n].status \in Live /\ os[n].giveOwn
             /\ os[n].give = t /\ os[n].source = a

SellersWait == \A i \in DOMAIN orders : SellerWaits(orders, matches, i)
GatesName == \A t \in Ticks : GateNames(orders, gate[t], owner[t], t)

DangleInv == BookInv /\ LedgerTypes /\ SellersWait /\ GatesName
DangleGoal == SellersWait' /\ GatesName'

\* Every order of the book is still there, with its payload.
OffersStay == \A i \in DOMAIN orders : i \in DOMAIN orders' /\ SameOffer(orders'[i], orders[i])

\* A gate is lowered, or it stays with the owner and the offer it names stays live.
GateStays(t) ==
    gate'[t] # 0 =>
        /\ gate'[t] = gate[t] /\ owner'[t] = owner[t]
        /\ \A i \in DOMAIN orders :
              orders[i].status \in Live /\ orders[i].giveOwn /\ orders[i].give = t => orders'[i].status \in Live

\* Then the gate still names a live offer by the owner.
LEMMA GateStillNames ==
  ASSUME OffersStay, NEW t, GateNames(orders, gate[t], owner[t], t), GateStays(t)
  PROVE  GateNames(orders', gate'[t], owner'[t], t)
<1>1. SUFFICES ASSUME gate'[t] # 0
               PROVE  /\ gate'[t] \in DOMAIN orders' /\ orders'[gate'[t]].status \in Live
                      /\ orders'[gate'[t]].giveOwn /\ orders'[gate'[t]].give = t
                      /\ orders'[gate'[t]].source = owner'[t]
  BY Zenon DEF GateNames
<1>2. /\ gate'[t] = gate[t] /\ owner'[t] = owner[t]
      /\ \A i \in DOMAIN orders :
            orders[i].status \in Live /\ orders[i].giveOwn /\ orders[i].give = t => orders'[i].status \in Live
  BY Zenon, <1>1 DEF GateStays
<1>3. PICK n : n = gate[t]
  BY Zenon
<1>4. /\ n \in DOMAIN orders /\ orders[n].status \in Live /\ orders[n].giveOwn
      /\ orders[n].give = t /\ orders[n].source = owner[t]
  BY Zenon, <1>1, <1>2, <1>3 DEF GateNames
<1>5. n \in DOMAIN orders' /\ SameOffer(orders'[n], orders[n])
  BY Zenon, <1>4 DEF OffersStay
<1>6. orders'[n].status \in Live
  BY Zenon, <1>2, <1>4
<1>7. orders'[n].giveOwn /\ orders'[n].give = t /\ orders'[n].source = owner[t]
  BY Zenon, <1>4, <1>5 DEF SameOffer
<1> QED BY Zenon, <1>2, <1>3, <1>5, <1>6, <1>7

\* Rows that are kept keep their offers.
LEMMA RowsKeptStay ==
  ASSUME orders \in Seq(OrderRow), RowsKept(orders, orders')
  PROVE  OffersStay /\ DOMAIN orders' = DOMAIN orders
<1>1. orders' \in Seq(OrderRow) /\ Len(orders') = Len(orders)
  BY Zenon DEF RowsKept
<1>2. DOMAIN orders = 1 .. Len(orders) /\ DOMAIN orders' = 1 .. Len(orders')
  BY SMT, <1>1
<1> QED BY Zenon, <1>1, <1>2 DEF RowsKept, OffersStay

\* What the invariant says of the rows.
LEMMA DangleFacts ==
  ASSUME RowLaws, DangleInv
  PROVE  /\ BookTypes /\ BookInv /\ OffersAreReal /\ MatchesJoin /\ LedgerTypes
         /\ orders \in Seq(OrderRow) /\ DOMAIN orders = 1 .. Len(orders)
         /\ matches \in Seq(MatchRow) /\ DOMAIN matches = 1 .. Len(matches)
         /\ owner \in [Ticks -> Addresses] /\ gate \in [Ticks -> Nat]
         /\ SellersWait /\ GatesName
<1>1. BookTypes /\ BookInv /\ OffersAreReal /\ MatchesJoin /\ LedgerTypes /\ SellersWait /\ GatesName
  BY Zenon DEF DangleInv, BookInv, Book
<1> QED BY Zenon, <1>1 DEF LedgerTypes, RowLaws, DomainsLaw

\* What a step on the rows of the book has to show.
LEMMA StepOnRows ==
  ASSUME RowLaws, DangleInv, RowsKept(orders, orders'),
         \A i \in DOMAIN orders : SellerWaits(orders', matches', i), \A t \in Ticks : GateStays(t)
  PROVE  DangleGoal
<1>1. orders \in Seq(OrderRow) /\ GatesName
  BY Zenon, DangleFacts
<1>2. OffersStay /\ DOMAIN orders' = DOMAIN orders
  BY Zenon, <1>1, RowsKeptStay
<1>3. SellersWait'
  BY Zenon, <1>2 DEF SellersWait
<1>4. ASSUME NEW t \in Ticks PROVE GateNames(orders', gate'[t], owner'[t], t)
  BY Zenon, <1>1, <1>2, GateStillNames DEF GatesName
<1>5. GatesName'
  BY Zenon, <1>4 DEF GatesName
<1> QED BY Zenon, <1>3, <1>5 DEF DangleGoal

\* A seller whose status stays, or which is closed, waits as before if no obligation of it ended.
LEMMA StillWaits ==
  ASSUME RowLaws, DangleInv, RowsKept(orders, orders'), NEW i \in DOMAIN orders,
         orders'[i].status \in Waiting => orders'[i].status = orders[i].status,
         Pending(matches, i) \subseteq Pending(matches', i)
  PROVE  SellerWaits(orders', matches', i)
<1>1. SameOffer(orders'[i], orders[i]) /\ SellerWaits(orders, matches, i)
  BY Zenon, DangleFacts, RowsKeptStay DEF OffersStay, SellersWait
<1>2. SUFFICES ASSUME orders'[i].status \in Waiting, orders'[i].give # Coin
               PROVE  Pending(matches', i) # {}
  BY Zenon DEF SellerWaits
<1>3. orders[i].status \in Waiting /\ orders[i].give # Coin
  BY Zenon, <1>1, <1>2 DEF SameOffer
<1>4. Pending(matches, i) # {}
  BY Zenon, <1>1, <1>3 DEF SellerWaits
<1> QED BY Zenon, <1>4

\* A waiting order is live and a final one does not wait.
LEMMA WaitingIsLive == Waiting \subseteq Live /\ \A s \in Final : s \notin Waiting /\ s \notin Live
BY SMT DEF Waiting, Live, Final

\* The gates of a step that leaves the ledger's ownership alone and closes no ownership offer.
LEMMA GatesUntouched ==
  ASSUME UNCHANGED <<owner, gate>>, NEW t,
         \A i \in DOMAIN orders : orders[i].status \in Live /\ orders[i].giveOwn => orders'[i].status \in Live
  PROVE  GateStays(t)
BY Zenon DEF GateStays

\* CancelOrder and OrderExpire.
LEMMA CancelDangles ==
  ASSUME RowLaws, DangleInv, NEW i \in DOMAIN orders, CancelOrder(i) \/ OrderExpire(i)
  PROVE  DangleGoal
<1>0. /\ BookTypes /\ OffersAreReal /\ gate \in [Ticks -> Nat]
  BY Zenon, DangleFacts
<1>1. /\ RowsKept(orders, orders') /\ matches' = matches
      /\ \A j \in DOMAIN orders : j # i => orders'[j] = orders[j]
  BY Zenon, <1>0 DEF RowLaws, CancelEffectLaw
<1>2. CASE Pending(matches, i) # {}
  <2>1. orders'[i].status \in Waiting /\ UNCHANGED <<owner, gate>>
    BY Zenon, <1>0, <1>2 DEF Waiting, ledger, RowLaws, CancelEffectLaw
  <2>2. ASSUME NEW j \in DOMAIN orders PROVE SellerWaits(orders', matches', j)
    <3>1. CASE j = i
      BY Zenon, <1>1, <1>2, <3>1 DEF SellerWaits
    <3>2. CASE j # i
      BY Zenon, <1>1, <3>2, StillWaits
    <3> QED BY Zenon, <3>1, <3>2
  <2>3. ASSUME NEW t \in Ticks PROVE GateStays(t)
    <3>1. \A j \in DOMAIN orders : orders[j].status \in Live => orders'[j].status \in Live
      BY Zenon, <1>1, <2>1, WaitingIsLive
    <3> QED BY Zenon, <2>1, <3>1, GatesUntouched
  <2> QED BY Zenon, <1>1, <2>2, <2>3, StepOnRows
<1>3. CASE Pending(matches, i) = {}
  <2>1. orders'[i].status \in Final /\ ReturnGiveSide(i)
    BY Zenon, <1>0, <1>3 DEF RowLaws, CancelEffectLaw
  <2>2. ASSUME NEW j \in DOMAIN orders PROVE SellerWaits(orders', matches', j)
    <3>1. CASE j = i
      BY Zenon, <2>1, <3>1, WaitingIsLive DEF SellerWaits
    <3>2. CASE j # i
      BY Zenon, <1>1, <3>2, StillWaits
    <3> QED BY Zenon, <3>1, <3>2
  <2>3. ASSUME NEW t \in Ticks PROVE GateStays(t)
    <3>1. CASE orders[i].giveOwn
      <4>1. gate' = [gate EXCEPT ![orders[i].give] = 0] /\ owner' = owner
        <5>1. orders[i].give # Coin
          BY Zenon, <1>0, <3>1 DEF OffersAreReal
        <5> QED BY Zenon, <2>1, <3>1, <5>1 DEF ReturnGiveSide, ClearTokenEscrow
      <4>2. CASE t = orders[i].give
        <5>1. gate'[t] = 0
          BY Zenon, <1>0, <4>1, <4>2
        <5> QED BY Zenon, <5>1 DEF GateStays
      <4>3. CASE t # orders[i].give
        <5>1. gate'[t] = gate[t]
          BY Zenon, <1>0, <4>1, <4>3
        <5> QED BY Zenon, <1>1, <4>1, <4>3, <5>1 DEF GateStays
      <4> QED BY Zenon, <4>2, <4>3
    <3>2. CASE ~orders[i].giveOwn
      <4>1. UNCHANGED <<owner, gate>>
        BY Zenon, <2>1, <3>2 DEF ReturnGiveSide, Release, ledger
      <4>2. \A j \in DOMAIN orders : orders[j].status \in Live /\ orders[j].giveOwn => orders'[j].status \in Live
        BY Zenon, <1>1, <3>2
      <4> QED BY Zenon, <4>1, <4>2, GatesUntouched
    <3> QED BY Zenon, <3>1, <3>2
  <2> QED BY Zenon, <1>1, <2>2, <2>3, StepOnRows
<1> QED BY Zenon, <1>2, <1>3

\* A step that changes no status, obligation or gate, and transfers only an ungated tick.
LEMMA QuietDangles ==
  ASSUME RowLaws, DangleInv, RowsKept(orders, orders'), matches' = matches,
         \A j \in DOMAIN orders : orders'[j].status = orders[j].status, gate' = gate,
         \A t \in Ticks : owner'[t] = owner[t] \/ gate[t] = 0
  PROVE  DangleGoal
<1>1. ASSUME NEW j \in DOMAIN orders PROVE SellerWaits(orders', matches', j)
  BY Zenon, StillWaits
<1>2. ASSUME NEW t \in Ticks PROVE GateStays(t)
  BY Zenon DEF GateStays
<1> QED BY Zenon, <1>1, <1>2, StepOnRows

\* EditOrder.
LEMMA EditDangles ==
  ASSUME RowLaws, DangleInv, OrdersAssumption, NEW i \in DOMAIN orders, NEW life \in Lifetimes, EditOrder(i, life)
  PROVE  DangleGoal
<1>1. BookTypes /\ Lifetimes \subseteq Nat
  BY Zenon, DangleFacts DEF OrdersAssumption
<1>2. /\ RowsKept(orders, orders') /\ \A j \in DOMAIN orders : orders'[j].status = orders[j].status
  BY Zenon, <1>1 DEF RowLaws, EditEffectLaw
<1>3. matches' = matches /\ gate' = gate /\ owner' = owner
  BY Zenon DEF EditOrder, ledger
<1> QED BY Zenon, <1>2, <1>3, QuietDangles

\* MatchDone, NextPass, SkipCandidate, IssueTransfer.
LEMMA PassDangles ==
  ASSUME RowLaws, DangleInv,
         \/ MatchDone \/ NextPass \/ (\E j \in candidates : SkipCandidate(j))
         \/ (\E t \in Ticks, dest \in Addresses : IssueTransfer(t, dest)) \/ UNCHANGED vars
  PROVE  DangleGoal
<1>0. orders \in Seq(OrderRow) /\ owner \in [Ticks -> Addresses]
  BY Zenon, DangleFacts
<1>1. UNCHANGED <<orders, matches, gate>>
  BY Zenon DEF MatchDone, NextPass, SkipCandidate, IssueTransfer, ledger, vars
<1>2. RowsKept(orders, orders') /\ \A j \in DOMAIN orders : orders'[j].status = orders[j].status
  BY Zenon, <1>0, <1>1 DEF RowLaws, RowsStayLaw
<1>3. ASSUME NEW u \in Ticks, NEW dest \in Addresses, IssueTransfer(u, dest)
      PROVE  \A t \in Ticks : owner'[t] = owner[t] \/ gate[t] = 0
  <2>1. gate[u] = 0 /\ owner' = [owner EXCEPT ![u] = dest]
    BY Zenon, <1>3 DEF IssueTransfer
  <2>2. ASSUME NEW t \in Ticks PROVE owner'[t] = owner[t] \/ gate[t] = 0
    <3>1. CASE t = u
      BY Zenon, <2>1, <3>1
    <3>2. CASE t # u
      BY Zenon, <1>0, <2>1, <3>2
    <3> QED BY Zenon, <3>1, <3>2
  <2> QED BY Zenon, <2>2
<1>4. ASSUME MatchDone \/ NextPass \/ (\E j \in candidates : SkipCandidate(j)) \/ UNCHANGED vars
      PROVE  \A t \in Ticks : owner'[t] = owner[t] \/ gate[t] = 0
  <2>1. owner' = owner
    BY Zenon, <1>4 DEF MatchDone, NextPass, SkipCandidate, ledger, vars
  <2> QED BY Zenon, <2>1
<1>5. \A t \in Ticks : owner'[t] = owner[t] \/ gate[t] = 0
  BY Zenon, <1>3, <1>4
<1> QED BY Zenon, <1>1, <1>2, <1>5, QuietDangles

\* CreateOrder: a new ownership offer raises the gate of its tick.
LEMMA CreateDangles ==
  ASSUME RowLaws, DangleInv, OrdersAssumption, NEW o \in UNION Markets, NEW life \in Lifetimes, CreateOrder(o, life)
  PROVE  DangleGoal
<1>0. /\ BookInv /\ orders \in Seq(OrderRow) /\ gate \in [Ticks -> Nat] /\ SellersWait /\ GatesName
      /\ DOMAIN orders = 1 .. Len(orders)
  BY Zenon, DangleFacts
<1>e. PICK n : n = Len(orders) + 1
  BY Zenon
<1>1. OrderJoins(n, o) /\ matches' = matches
  BY Zenon, <1>0, <1>e DEF RowLaws, CreateEffectLaw
<1>2. /\ n \notin DOMAIN orders /\ DOMAIN orders' = DOMAIN orders \cup {n} /\ Len(orders') = n
      /\ \A i \in DOMAIN orders : orders'[i] = orders[i]
      /\ orders'[n].status = "open" /\ SameOffer(orders'[n], o)
  BY Zenon, <1>1 DEF OrderJoins
<1>3. ASSUME NEW j \in DOMAIN orders' PROVE SellerWaits(orders', matches', j)
  <2>1. CASE j = n
    <3>1. "open" \notin Waiting
      BY SMT DEF Waiting
    <3> QED BY Zenon, <1>2, <2>1, <3>1 DEF SellerWaits
  <2>2. CASE j \in DOMAIN orders
    <3>1. SellerWaits(orders, matches, j)
      BY Zenon, <1>0, <2>2 DEF SellersWait
    <3> QED BY Zenon, <1>1, <1>2, <2>2, <3>1 DEF SellerWaits
  <2> QED BY Zenon, <1>2, <2>1, <2>2
<1>4. SellersWait'
  BY Zenon, <1>3 DEF SellersWait
<1>5. OffersStay
  BY Zenon, <1>2 DEF OffersStay, RowLaws, SameOfferReflLaw
<1>6. ASSUME NEW t \in Ticks PROVE GateNames(orders', gate'[t], owner'[t], t)
  <2>0. GateNames(orders, gate[t], owner[t], t)
    BY Zenon, <1>0 DEF GatesName
  <2>1. CASE owner' = owner /\ gate'[t] = gate[t]
    <3>1. GateStays(t)
      BY Zenon, <1>2, <2>1 DEF GateStays
    <3> QED BY Zenon, <1>5, <2>0, <3>1, GateStillNames
  <2>2. CASE /\ t = o.give /\ o.giveOwn /\ owner[o.give] = o.source /\ owner' = owner
             /\ gate' = [gate EXCEPT ![o.give] = n]
    <3>1. gate'[t] = n /\ owner'[t] = o.source
      BY Zenon, <1>0, <2>2
    <3>2. "open" \in Live
      BY Zenon DEF RowLaws, LiveOrFinalLaw
    <3>3. n \in DOMAIN orders' /\ orders'[n].status \in Live
      BY Zenon, <1>2, <3>2
    <3>4. orders'[n].giveOwn /\ orders'[n].give = t /\ orders'[n].source = o.source
      BY Zenon, <1>2, <2>2 DEF SameOffer
    <3> QED BY Zenon, <3>1, <3>3, <3>4 DEF GateNames
  <2>3. \/ /\ o.giveOwn /\ owner[o.give] = o.source /\ owner' = owner
           /\ gate' = [gate EXCEPT ![o.give] = Len(orders')]
        \/ UNCHANGED <<owner, gate>>
    BY Zenon DEF CreateOrder, ledger
  <2>4. CASE t # o.give
    <3>1. owner' = owner /\ gate'[t] = gate[t]
      BY Zenon, <1>0, <2>3, <2>4
    <3> QED BY Zenon, <2>1, <3>1
  <2> QED BY Zenon, <1>2, <2>1, <2>2, <2>3, <2>4
<1>7. GatesName'
  BY Zenon, <1>6 DEF GatesName
<1> QED BY Zenon, <1>4, <1>7 DEF DangleGoal

\* SweepOrders: what it closes it also ungates.
LEMMA SweepDangles ==
  ASSUME RowLaws, DangleInv, NEW a \in Addresses, NEW dest \in Addresses, SweepOrders(a, dest)
  PROVE  DangleGoal
<1>0. BookTypes
  BY Zenon, DangleFacts
<1> DEFINE open(i) == orders[i].status = "open" /\ orders[i].source = a
           delivered(t) == \E i \in DOMAIN orders :
                              /\ open(i) /\ Pending(matches, i) = {} /\ orders[i].give = t /\ orders[i].giveOwn
<1>1. /\ RowsKept(orders, orders')
      /\ \A i \in DOMAIN orders :
            /\ open(i) /\ Pending(matches, i) # {} => orders'[i].status = "cancelling"
            /\ open(i) /\ Pending(matches, i) = {} => orders'[i].status = "cancelled"
            /\ ~open(i) => orders'[i] = orders[i]
  BY Zenon, <1>0 DEF RowLaws, SweepEffectLaw
<1>2. matches' = matches
  BY Zenon DEF SweepOrders
<1>3. /\ owner' = [t \in Ticks |-> IF delivered(t) THEN dest ELSE owner[t]]
      /\ gate' = [t \in Ticks |-> IF delivered(t) THEN 0 ELSE gate[t]]
  <2>1. \A t : (\E i \in {i \in DOMAIN orders : orders[i].status = "open" /\ orders[i].source = a}
                          \ {i \in {i \in DOMAIN orders : orders[i].status = "open" /\ orders[i].source = a} :
                                Pending(matches, i) # {}} : orders[i].give = t /\ orders[i].giveOwn)
               <=> delivered(t)
    BY Zenon
  <2> HIDE DEF delivered
  <2> QED BY Zenon, <2>1 DEF SweepOrders
<1>s. "cancelled" \notin Waiting /\ "cancelling" \in Live
  BY SMT DEF Waiting, Live
<1>4. ASSUME NEW i \in DOMAIN orders PROVE SellerWaits(orders', matches', i)
  <2>1. CASE open(i) /\ Pending(matches, i) # {}
    BY Zenon, <1>2, <2>1 DEF SellerWaits
  <2>2. CASE open(i) /\ Pending(matches, i) = {}
    BY Zenon, <1>1, <1>s, <2>2 DEF SellerWaits
  <2>3. CASE ~open(i)
    BY Zenon, <1>1, <1>2, <2>3, StillWaits
  <2> QED BY Zenon, <2>1, <2>2, <2>3
<1>5. ASSUME NEW t \in Ticks PROVE GateStays(t)
  <2>1. CASE delivered(t)
    <3>1. gate'[t] = 0
      BY Zenon, <1>3, <2>1
    <3> QED BY Zenon, <3>1 DEF GateStays
  <2>2. CASE ~delivered(t)
    <3>1. gate'[t] = gate[t] /\ owner'[t] = owner[t]
      BY Zenon, <1>3, <2>2
    <3>2. ASSUME NEW i \in DOMAIN orders, orders[i].status \in Live, orders[i].giveOwn, orders[i].give = t
          PROVE  orders'[i].status \in Live
      <4>1. ~(open(i) /\ Pending(matches, i) = {})
        BY Zenon, <2>2, <3>2
      <4> QED BY Zenon, <1>1, <1>s, <3>2, <4>1
    <3> QED BY Zenon, <3>1, <3>2 DEF GateStays
  <2> QED BY Zenon, <2>1, <2>2
<1> QED BY Zenon, <1>1, <1>4, <1>5, StepOnRows

\* A new match ends no obligation.
LEMMA PendingGrows ==
  ASSUME matches \in Seq(MatchRow), NEW m, matches' = Append(matches, m), NEW i
  PROVE  Pending(matches, i) \subseteq Pending(matches', i)
<1>1. /\ DOMAIN matches \subseteq DOMAIN matches' /\ \A k \in DOMAIN matches : matches'[k] = matches[k]
  BY SMT
<1> QED BY Zenon, <1>1 DEF Pending

\* SettleByCoinpay.
LEMMA CoinpayMatchDangles ==
  ASSUME RowLaws, DangleInv, NEW c \in candidates, SettleByCoinpay(c)
  PROVE  DangleGoal
<1>0. orders \in Seq(OrderRow) /\ matches \in Seq(MatchRow)
  BY Zenon, DangleFacts
<1>1. /\ orders' = orders /\ UNCHANGED <<owner, gate>>
      /\ matches' = Append(matches, NewMatch(taker, c, ComputeFillAmounts(taker, c), TRUE))
  BY Zenon DEF SettleByCoinpay, ledger
<1>2. RowsKept(orders, orders')
  BY Zenon, <1>0, <1>1 DEF RowLaws, RowsStayLaw
<1>3. ASSUME NEW j \in DOMAIN orders PROVE SellerWaits(orders', matches', j)
  <2>1. Pending(matches, j) \subseteq Pending(matches', j)
    BY Zenon, <1>0, <1>1, PendingGrows
  <2> QED BY Zenon, <1>1, <1>2, <2>1, StillWaits
<1>4. ASSUME NEW t \in Ticks PROVE GateStays(t)
  BY Zenon, <1>1 DEF GateStays
<1> QED BY Zenon, <1>2, <1>3, <1>4, StepOnRows

\* SettleInstantly: an ownership that changes hands is ungated.
LEMMA InstantMatchDangles ==
  ASSUME RowLaws, DangleInv, NEW c \in candidates, SettleInstantly(c)
  PROVE  DangleGoal
<1>0. /\ BookTypes /\ BookInv /\ orders \in Seq(OrderRow) /\ matches \in Seq(MatchRow)
      /\ owner \in [Ticks -> Addresses] /\ gate \in [Ticks -> Nat]
  BY Zenon, DangleFacts
<1> DEFINE g == orders[taker].give
           h == orders[c].give
           delivered(t) == \/ t = g /\ orders[taker].giveOwn
                           \/ t = h /\ orders[c].giveOwn
<1>1. /\ phase = "match"
      /\ matches' = Append(matches, NewMatch(taker, c, ComputeFillAmounts(taker, c), FALSE))
  BY Zenon DEF SettleInstantly
<1>2. /\ owner' = [t \in Ticks |-> IF ~delivered(t) THEN owner[t]
                                   ELSE IF t = g THEN orders[c].source ELSE orders[taker].source]
      /\ gate' = [t \in Ticks |-> IF delivered(t) THEN 0 ELSE gate[t]]
  BY Zenon DEF SettleInstantly
<1>3. taker \in DOMAIN orders /\ c \in DOMAIN orders
  BY Zenon, <1>0, <1>1 DEF RowLaws, PassFactsLaw
<1>4. /\ RowsKept(orders, orders')
      /\ \A k \in DOMAIN orders \ {taker, c} : orders'[k] = orders[k]
      /\ \A k \in {taker, c} : orders'[k].status \in {orders[k].status, "complete"}
  BY Zenon, <1>0, <1>3 DEF RowLaws, InstantEffectLaw
<1>5. "complete" \notin Waiting
  BY SMT DEF Waiting
<1>6. ASSUME NEW j \in DOMAIN orders PROVE SellerWaits(orders', matches', j)
  <2>1. Pending(matches, j) \subseteq Pending(matches', j)
    BY Zenon, <1>0, <1>1, PendingGrows
  <2>2. orders'[j].status \in Waiting => orders'[j].status = orders[j].status
    <3>1. CASE j \in {taker, c}
      <4>1. orders'[j].status \in {orders[j].status, "complete"}
        BY Zenon, <1>4, <3>1
      <4> QED BY Zenon, <1>5, <4>1
    <3>2. CASE j \notin {taker, c}
      BY Zenon, <1>4, <3>2
    <3> QED BY Zenon, <3>1, <3>2
  <2> QED BY Zenon, <1>4, <2>1, <2>2, StillWaits
<1>7. ASSUME NEW t \in Ticks PROVE GateStays(t)
  <2>1. CASE delivered(t)
    <3>1. gate'[t] = 0
      BY Zenon, <1>2, <2>1
    <3> QED BY Zenon, <3>1 DEF GateStays
  <2>2. CASE ~delivered(t)
    <3>1. gate'[t] = gate[t] /\ owner'[t] = owner[t]
      BY Zenon, <1>2, <2>2
    <3>2. ASSUME NEW i \in DOMAIN orders, orders[i].status \in Live, orders[i].giveOwn, orders[i].give = t
          PROVE  orders'[i].status \in Live
      <4>1. i \notin {taker, c}
        BY Zenon, <2>2, <3>2
      <4> QED BY Zenon, <1>4, <3>2, <4>1
    <3> QED BY Zenon, <3>1, <3>2 DEF GateStays
  <2> QED BY Zenon, <2>1, <2>2
<1> QED BY Zenon, <1>4, <1>6, <1>7, StepOnRows

\* The obligation k between seller s and buyer b ends, and the ownership of what s sold, if
\* that is an ownership, is ungated.
PaymentEnds(k, s, b) ==
    /\ RowsKept(orders, orders')
    /\ s \in DOMAIN orders /\ b \in DOMAIN orders
    /\ matches[k].taker \in {s, b} /\ matches[k].maker \in {s, b} /\ orders[b].give = Coin
    /\ DOMAIN matches' = DOMAIN matches
    /\ \A l \in DOMAIN matches : l # k => matches'[l] = matches[l]
    /\ \A i \in DOMAIN orders : i \notin {s, b} => orders'[i].status = orders[i].status
    /\ Finalizes(matches', s) => orders'[s].status \in Final
    /\ ~Finalizes(matches', s) => orders'[s].status \in {orders[s].status, "complete"}
    /\ IF orders[s].giveOwn
       THEN /\ gate' = [gate EXCEPT ![orders[s].give] = 0]
            /\ \A t \in Ticks \ {orders[s].give} : owner'[t] = owner[t]
       ELSE UNCHANGED <<owner, gate>>

\* The end of a payment leaves no gate and no seller behind.
LEMMA PaymentDangles ==
  ASSUME RowLaws, DangleInv, OrdersAssumption, NEW k \in DOMAIN matches, NEW s, NEW b, PaymentEnds(k, s, b)
  PROVE  DangleGoal
<1>0. /\ BookTypes /\ OffersAreReal /\ orders \in Seq(OrderRow) /\ matches \in Seq(MatchRow)
      /\ owner \in [Ticks -> Addresses] /\ gate \in [Ticks -> Nat]
  BY Zenon, DangleFacts
<1>1. /\ RowsKept(orders, orders')
      /\ s \in DOMAIN orders /\ b \in DOMAIN orders
      /\ matches[k].taker \in {s, b} /\ matches[k].maker \in {s, b} /\ orders[b].give = Coin
      /\ DOMAIN matches' = DOMAIN matches
      /\ \A l \in DOMAIN matches : l # k => matches'[l] = matches[l]
      /\ \A i \in DOMAIN orders : i \notin {s, b} => orders'[i].status = orders[i].status
  BY Zenon DEF PaymentEnds
<1>2. ASSUME NEW j \in DOMAIN orders PROVE SellerWaits(orders', matches', j)
  <2>1. CASE j = s
    <3>1. CASE Finalizes(matches', s)
      <4>1. orders'[s].status \in Final
        BY Zenon, <3>1 DEF PaymentEnds
      <4> QED BY Zenon, <2>1, <4>1, WaitingIsLive DEF SellerWaits
    <3>2. CASE ~Finalizes(matches', s)
      <4>1. orders'[s].status \in {orders[s].status, "complete"}
        BY Zenon, <3>2 DEF PaymentEnds
      <4>2. "complete" \notin Waiting
        BY SMT DEF Waiting
      <4>3. orders[s].status \in Waiting => Pending(matches', s) # {}
        BY Zenon, <3>2 DEF Finalizes, Waiting
      <4> QED BY Zenon, <2>1, <4>1, <4>2, <4>3 DEF SellerWaits
    <3> QED BY Zenon, <3>1, <3>2
  <2>2. CASE j = b
    <3>1. orders'[b].give = Coin
      BY Zenon, <1>0, <1>1, RowsKeptStay DEF OffersStay, SameOffer
    <3> QED BY Zenon, <2>2, <3>1 DEF SellerWaits
  <2>3. CASE j \notin {s, b}
    <3>1. j \notin {matches[k].taker, matches[k].maker}
      BY Zenon, <1>1, <2>3
    <3>2. Pending(matches, j) \subseteq Pending(matches', j)
      BY Zenon, <1>1, <3>1 DEF Pending
    <3> QED BY Zenon, <1>1, <2>3, <3>2, StillWaits
  <2> QED BY Zenon, <2>1, <2>2, <2>3
<1>3. ASSUME NEW i \in DOMAIN orders, i # s, orders[i].status \in Live, orders[i].giveOwn
      PROVE  orders'[i].status \in Live
  <2>1. orders[i].give # Coin
    BY Zenon, <1>0, <1>3 DEF OffersAreReal
  <2>2. i \notin {s, b}
    BY Zenon, <1>1, <1>3, <2>1
  <2> QED BY Zenon, <1>1, <1>3, <2>2
<1>4. ASSUME NEW t \in Ticks PROVE GateStays(t)
  <2>1. CASE orders[s].giveOwn
    <3>0. /\ gate' = [gate EXCEPT ![orders[s].give] = 0]
          /\ \A u \in Ticks \ {orders[s].give} : owner'[u] = owner[u]
      BY Zenon, <2>1 DEF PaymentEnds
    <3>1. CASE t = orders[s].give
      <4>1. gate'[t] = 0
        BY Zenon, <1>0, <3>0, <3>1
      <4> QED BY Zenon, <4>1 DEF GateStays
    <3>2. CASE t # orders[s].give
      <4>1. gate'[t] = gate[t] /\ owner'[t] = owner[t]
        BY Zenon, <1>0, <3>0, <3>2
      <4>2. ASSUME NEW i \in DOMAIN orders, orders[i].status \in Live, orders[i].giveOwn, orders[i].give = t
            PROVE  orders'[i].status \in Live
        BY Zenon, <1>3, <3>2, <4>2
      <4> QED BY Zenon, <4>1, <4>2 DEF GateStays
    <3> QED BY Zenon, <3>1, <3>2
  <2>2. CASE ~orders[s].giveOwn
    <3>1. UNCHANGED <<owner, gate>>
      BY Zenon, <2>2 DEF PaymentEnds
    <3>2. \A i \in DOMAIN orders : orders[i].status \in Live /\ orders[i].giveOwn => orders'[i].status \in Live
      BY Zenon, <1>3, <2>2
    <3> QED BY Zenon, <3>1, <3>2, GatesUntouched
  <2> QED BY Zenon, <2>1, <2>2
<1> QED BY Zenon, <1>1, <1>2, <1>4, StepOnRows

\* Coinpay and CoinpayExpire.
LEMMA EndedPaymentDangles ==
  ASSUME RowLaws, DangleInv, OrdersAssumption, NEW k \in DOMAIN matches, Coinpay(k) \/ CoinpayExpire(k)
  PROVE  DangleGoal
<1>0. /\ BookTypes /\ OffersAreReal /\ MatchesJoin /\ owner \in [Ticks -> Addresses]
      /\ matches \in Seq(MatchRow) /\ DOMAIN matches = 1 .. Len(matches)
  BY Zenon, DangleFacts
<1>1. PICK s : s = SellerOf(matches[k])
  BY Zenon
<1>2. PICK b : b = BuyerOf(matches[k])
  BY Zenon
<1>3. /\ RowsKept(orders, orders') /\ AmountsKept(matches, matches')
      /\ matches[k].obligation = "pending_coinpay"
      /\ \A l \in DOMAIN matches : l # k => matches'[l] = matches[l]
      /\ \A i \in DOMAIN orders : i \notin {s, b} => orders'[i].status = orders[i].status
      /\ Finalizes(matches', s) => orders'[s].status \in Final
      /\ ~Finalizes(matches', s) => orders'[s].status \in {orders[s].status, "complete"}
  <2>1. CASE Coinpay(k)
    <3>1. CoinpayEffectLaw
      BY Zenon DEF RowLaws
    <3>2. BookTypes /\ OffersAreReal /\ MatchesJoin /\ Coinpay(k) /\ s = SellerOf(matches[k]) /\ b = BuyerOf(matches[k])
      BY Zenon, <1>0, <1>1, <1>2, <2>1
    <3> QED BY SMTT(60), <3>1, <3>2 DEF CoinpayEffectLaw
  <2>2. CASE CoinpayExpire(k)
    <3>1. CoinpayExpireEffectLaw
      BY Zenon DEF RowLaws
    <3>2. BookTypes /\ OffersAreReal /\ MatchesJoin /\ CoinpayExpire(k) /\ s = SellerOf(matches[k])
      BY Zenon, <1>0, <1>1, <2>2
    <3> QED BY SMTT(60), <3>1, <3>2 DEF CoinpayExpireEffectLaw
  <2> QED BY Zenon, <2>1, <2>2
<1>4. /\ s \in DOMAIN orders /\ b \in DOMAIN orders
      /\ matches[k].taker \in {s, b} /\ matches[k].maker \in {s, b} /\ orders[b].give = Coin
  <2>1. matches[k].obligation # "none"
    BY SMT, <1>3
  <2>2. s \in DOMAIN orders /\ b \in DOMAIN orders /\ orders[b].give = Coin
    BY Zenon, <1>0, <1>1, <1>2, <2>1 DEF RowLaws, SellerAndBuyerLaw
  <2>3. matches[k].taker \in {s, b} /\ matches[k].maker \in {s, b}
    BY Zenon, <1>1, <1>2 DEF SellerOf, BuyerOf
  <2> QED BY Zenon, <2>2, <2>3
<1>5. DOMAIN matches' = DOMAIN matches
  <2>1. matches' \in Seq(MatchRow) /\ Len(matches') = Len(matches)
    BY Zenon, <1>3 DEF AmountsKept
  <2> QED BY SMT, <1>0, <2>1
<1>6. IF orders[s].giveOwn
      THEN /\ gate' = [gate EXCEPT ![orders[s].give] = 0]
           /\ \A t \in Ticks \ {orders[s].give} : owner'[t] = owner[t]
      ELSE UNCHANGED <<owner, gate>>
  <2>1. ASSUME ~orders[s].giveOwn PROVE UNCHANGED <<owner, gate>>
    BY Zenon, <1>1, <2>1 DEF Coinpay, CoinpayExpire, ReleaseAndRefund
  <2>2. ASSUME orders[s].giveOwn
        PROVE  /\ gate' = [gate EXCEPT ![orders[s].give] = 0]
               /\ \A t \in Ticks \ {orders[s].give} : owner'[t] = owner[t]
    <3>1. \/ ClearTokenEscrow(orders[s].give)
          \/ \E dest : TransferTokenOwnership(orders[s].give, dest)
      BY Zenon, <1>1, <2>2 DEF Coinpay, CoinpayExpire
    <3>2. CASE ClearTokenEscrow(orders[s].give)
      BY Zenon, <3>2 DEF ClearTokenEscrow
    <3>3. ASSUME NEW dest, TransferTokenOwnership(orders[s].give, dest)
          PROVE  /\ gate' = [gate EXCEPT ![orders[s].give] = 0]
                 /\ \A t \in Ticks \ {orders[s].give} : owner'[t] = owner[t]
      <4>1. /\ gate' = [gate EXCEPT ![orders[s].give] = 0]
            /\ owner' = [owner EXCEPT ![orders[s].give] = dest]
        BY Zenon, <3>3 DEF TransferTokenOwnership
      <4>2. ASSUME NEW t \in Ticks \ {orders[s].give} PROVE owner'[t] = owner[t]
        BY Zenon, <1>0, <4>1, <4>2
      <4> QED BY Zenon, <4>1, <4>2
    <3> QED BY Zenon, <3>1, <3>2, <3>3
  <2> QED BY Zenon, <2>1, <2>2
<1>7. PaymentEnds(k, s, b)
  BY Zenon, <1>3, <1>4, <1>5, <1>6 DEF PaymentEnds
<1> QED BY Zenon, <1>7, PaymentDangles

\* No operation leaves a gate or a seller behind.
LEMMA DangleStep ==
  ASSUME RowLaws, DangleInv, [Next]_vars
  PROVE  DangleGoal
<1>0. OrdersAssumption
  BY Zenon, OrdersAssumption
<1>1. ASSUME NEW o \in UNION Markets, NEW life \in Lifetimes, CreateOrder(o, life)
      PROVE  DangleGoal
  BY Zenon, <1>0, <1>1, CreateDangles
<1>2. ASSUME NEW i \in DOMAIN orders, CancelOrder(i) \/ OrderExpire(i)
      PROVE  DangleGoal
  BY Zenon, <1>2, CancelDangles
<1>3. ASSUME NEW i \in DOMAIN orders, NEW life \in Lifetimes, EditOrder(i, life)
      PROVE  DangleGoal
  BY Zenon, <1>0, <1>3, EditDangles
<1>4. ASSUME NEW a \in Addresses, NEW dest \in Addresses, SweepOrders(a, dest)
      PROVE  DangleGoal
  BY Zenon, <1>4, SweepDangles
<1>5. ASSUME NEW k \in DOMAIN matches, Coinpay(k) \/ CoinpayExpire(k)
      PROVE  DangleGoal
  BY Zenon, <1>0, <1>5, EndedPaymentDangles
<1>6. ASSUME \/ MatchDone \/ NextPass \/ (\E j \in candidates : SkipCandidate(j))
             \/ (\E t \in Ticks, dest \in Addresses : IssueTransfer(t, dest)) \/ UNCHANGED vars
      PROVE  DangleGoal
  BY Zenon, <1>6, PassDangles
<1>7. ASSUME NEW j \in candidates, SettleByCoinpay(j) \/ SettleInstantly(j)
      PROVE  DangleGoal
  BY Zenon, <1>7, CoinpayMatchDangles, InstantMatchDangles
<1>8. (\E market \in Markets : \E o \in market, life \in Lifetimes : CreateOrder(o, life))
        => \E o \in UNION Markets, life \in Lifetimes : CreateOrder(o, life)
  BY Zenon
<1> QED BY Zenon, <1>8, <1>1, <1>2, <1>3, <1>4, <1>5, <1>6, <1>7 DEF Next

\* At first no gate is raised and nobody waits.
LEMMA DangleStarts ==
  ASSUME Init
  PROVE  SellersWait /\ GatesName
<1>1. orders = <<>> /\ gate = [t \in Ticks |-> 0]
  BY Zenon DEF Init
<1>2. DOMAIN orders = {}
  BY SMT, <1>1
<1> QED BY Zenon, <1>1, <1>2 DEF SellersWait, GatesName, GateNames
=============================================================================
