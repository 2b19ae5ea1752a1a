--------------------------- MODULE HubPushProofs ---------------------------
(***************************************************************************)
(* Proofs about HubPush for any number of hubs, actions, reorgs, crashes   *)
(* and failed sends.                                                       *)
(***************************************************************************)
EXTENDS HubPush, TLAPS

Row ==
    [id : Nat, kind : {"price", "retraction"}, from : Nat \ {0}, to : Nat, gen : Nat]

Types ==
    /\ chain \in Seq(Nat)
    /\ gen \in Nat
    /\ outbox \in SUBSET Row
    /\ delivered \in SUBSET (Nat \X Hubs)
    /\ nextId \in Nat \ {0}
    /\ hub \in [Hubs -> [Actions -> Nat \cup {None}]]
    /\ pc \in {"idle", "staged", "committed", "pausing"}
    /\ work \in Row \cup {NoRow}
    /\ batch \in SUBSET Row
    /\ row \in Row \cup {NoRow}
    /\ left \in SUBSET Hubs
    /\ got \in SUBSET Hubs

\* The rows a drain has fetched, and all rows the process or the table knows.
Fetched == batch \cup ({row} \ {NoRow})
Known   == outbox \cup Fetched \cup ({work} \ {NoRow})

\* An id is given to one row, and no row is noted as delivered before it exists.
IdsAreUnique ==
    /\ \A r \in Known : r.id < nextId
    /\ \A r, q \in Known : r.id = q.id => r = q
    /\ \A p \in delivered : p[1] < nextId

\* A retraction is older than every price of the chain at the indices it names.
RetractionsArePast ==
    \A r \in Known : r.kind = "retraction" =>
        /\ r.gen < gen
        /\ \A a \in 1 .. Len(chain) : r.from <= a => r.gen < chain[a]

\* A price is not newer than what the chain has at its index.
PricesAreBehind ==
    \A r \in Known : r.kind = "price" =>
        /\ r.from \in Actions
        /\ r.gen <= gen
        /\ r.from <= Len(chain) => r.gen <= chain[r.from]

HubsAreBehind ==
    \A h \in Hubs : \A a \in Actions :
        /\ hub[h][a] <= gen
        /\ a <= Len(chain) => hub[h][a] <= chain[a]

\* The prices in the table, and the one sent live, are on the chain.
QueuedIsOnChain ==
    /\ \A r \in outbox : r.kind = "price" => OnChain(r.from, r.gen)
    /\ pc = "staged" /\ work.kind = "price" => OnChain(work.from, work.gen)
    /\ \A a \in 1 .. Len(chain) : chain[a] <= gen
    /\ Len(chain) <= MaxActions

\* A row of the drain that a reorg orphaned: only while the rollback waits for
\* the drain, and then its retraction is in the table, not sent to any hub.
Stale == {r \in Fetched : r.kind = "price" /\ ~OnChain(r.from, r.gen)}

StaleIsCovered ==
    \A r \in Stale :
        /\ pc \in {"committed", "pausing"}
        /\ work \in outbox \ Fetched
        /\ work.kind = "retraction" /\ work.from <= r.from /\ r.from <= work.to
        /\ r.gen <= work.gen
        /\ \A h \in Hubs : <<work.id, h>> \notin delivered

\* Where the loop and the drain are determines what they hold.
PlacesHold ==
    /\ pc = "idle" <=> work = NoRow
    /\ pc \in {"committed", "pausing"} => work.kind = "retraction"
    /\ ~draining => batch = {} /\ row = NoRow
    /\ row = NoRow => left = {}
    /\ \A h \in got : row \in outbox => <<row.id, h>> \in delivered

Inv ==
    /\ Types
    /\ IdsAreUnique
    /\ RetractionsArePast /\ PricesAreBehind
    /\ HubsAreBehind
    /\ QueuedIsOnChain /\ StaleIsCovered
    /\ PlacesHold
    /\ OutboxAccountsForHubs

----------------------------------------------------------------------------
(* The chain, and what a delivery does to a hub.                           *)

\* A block appends to the chain.
LEMMA ChainGrows ==
    ASSUME NEW s \in Seq(Nat), NEW g \in Nat
    PROVE  /\ Append(s, g) \in Seq(Nat)
           /\ Len(s) \in Nat
           /\ Len(Append(s, g)) = Len(s) + 1
           /\ Append(s, g)[Len(s) + 1] = g
           /\ \A a \in 1 .. Len(s) : Append(s, g)[a] = s[a] /\ s[a] \in Nat
OBVIOUS

\* A rollback to index k cuts the chain.
LEMMA ChainIsCut ==
    ASSUME NEW s \in Seq(Nat), NEW k \in 1 .. Len(s)
    PROVE  /\ SubSeq(s, 1, k - 1) \in Seq(Nat)
           /\ Len(s) \in Nat /\ k \in Nat /\ k >= 1 /\ k <= Len(s)
           /\ Len(SubSeq(s, 1, k - 1)) = k - 1
           /\ \A a \in 1 .. (k - 1) : SubSeq(s, 1, k - 1)[a] = s[a]
           /\ \A a \in 1 .. Len(s) : s[a] \in Nat
OBVIOUS

\* Every known row is a row of the table's type, and NoRow is none.
LEMMA KnownAreRows == Types => Known \subseteq Row /\ NoRow \notin Row
BY DEF Types, Known, Fetched, Row, NoRow

\* A retraction q of the range of index a, up to generation g.
Covers(q, a, g) ==
    q.kind = "retraction" /\ q.from <= a /\ a <= q.to /\ g <= q.gen

\* What a hub makes of a row, a retraction being bounded by `to'.
Effect(holds, r, to) == IF r.kind = "price" THEN Publish(holds, r) ELSE Retract(holds, r, to)

\* What RetractionsSpareTheChain says of a step.
Spared ==
    \A h \in Hubs : \A a \in Actions :
        hub'[h][a] # hub[h][a] => hub[h][a] = None \/ ~OnChain(a, hub[h][a])

\* Index by index, what a delivery of row r to hub h leaves on the hubs.
LEMMA EffectAt ==
    ASSUME Types, NEW h \in Hubs, NEW r \in Row, NEW to \in Nat,
           r.kind = "price" => r.from \in Actions,
           hub' = [hub EXCEPT ![h] = Effect(@, r, to)]
    PROVE  /\ hub' \in [Hubs -> [Actions -> Nat \cup {None}]]
           /\ \A g \in Hubs : g # h => hub'[g] = hub[g]
           /\ \A a \in Actions :
                 /\ hub[h][a] \in Int
                 /\ r.kind = "price" =>
                       hub'[h][a] = IF a = r.from /\ r.gen >= hub[h][a] THEN r.gen ELSE hub[h][a]
                 /\ r.kind = "retraction" =>
                       hub'[h][a] = IF r.from <= a /\ a <= to /\ hub[h][a] <= r.gen
                                    THEN None ELSE hub[h][a]
<1>1. hub \in [Hubs -> [Actions -> Nat \cup {None}]] /\ None \in Int
    BY DEF Types, None
<1>2. hub[h] \in [Actions -> Nat \cup {None}]
    BY <1>1
<1>3. \A a \in Actions : hub[h][a] \in Nat \cup {None} /\ hub[h][a] \in Int
    BY <1>1, <1>2
<1>4. /\ r.gen \in Nat /\ r.from \in Nat
      /\ r.kind = "price" \/ r.kind = "retraction"
    BY DEF Row
<1>5. hub'[h] = Effect(hub[h], r, to) /\ \A g \in Hubs : g # h => hub'[g] = hub[g]
    BY <1>1
<1>6. CASE r.kind = "price"
    <2>1. hub'[h] = Publish(hub[h], r)
        BY <1>5, <1>6 DEF Effect
    <2>2. /\ hub'[h] \in [Actions -> Nat \cup {None}]
          /\ \A a \in Actions :
                hub'[h][a] = IF a = r.from /\ r.gen >= hub[h][a] THEN r.gen ELSE hub[h][a]
        BY <2>1, <1>2, <1>3, <1>4, <1>6 DEF Publish
    <2>3. hub' \in [Hubs -> [Actions -> Nat \cup {None}]]
        BY <2>1, <2>2, <1>1, <1>6 DEF Effect
    <2> QED BY <2>2, <2>3, <1>3, <1>5, <1>6
<1>7. CASE r.kind = "retraction"
    <2>1. hub'[h] = Retract(hub[h], r, to)
        BY <1>5, <1>7 DEF Effect
    <2>2. \A a \in Actions : a \in Int
        BY DEF Actions
    <2>3. /\ hub'[h] \in [Actions -> Nat \cup {None}]
          /\ \A a \in Actions :
                hub'[h][a] = IF r.from <= a /\ a <= to /\ hub[h][a] <= r.gen
                             THEN None ELSE hub[h][a]
        BY <2>1, <2>2, <1>2, <1>3, <1>4 DEF Retract
    <2>4. hub' \in [Hubs -> [Actions -> Nat \cup {None}]]
        BY <2>1, <2>3, <1>1, <1>7 DEF Effect
    <2> QED BY <2>3, <2>4, <1>3, <1>5, <1>7
<1> QED BY <1>4, <1>6, <1>7

\* A delivery of row r to hub h, from the queue or live, leaves the hubs
\* accounted for and takes no price of the chain off them, if the outbox loses
\* at most r, for h, and something owed to h covers r where r is orphaned.
LEMMA DeliveryAccounted ==
    ASSUME Inv, NEW h \in Hubs, NEW r \in Known, NEW to \in Nat,
           \A a \in Actions : a <= r.to => a <= to,
           hub' = [hub EXCEPT ![h] = Effect(@, r, to)],
           chain' = chain, gen' = gen,
           \A g \in Hubs : \A q \in Owed(g) : q \in Owed(g)' \/ (g = h /\ q = r),
           r.kind = "price" => \/ OnChain(r.from, r.gen)
                               \/ \E q \in Owed(h)' : Covers(q, r.from, r.gen)
    PROVE  /\ hub' \in [Hubs -> [Actions -> Nat \cup {None}]]
           /\ HubsAreBehind'
           /\ OutboxAccountsForHubs'
           /\ Spared
<1>1. /\ r \in Row /\ r.gen \in Nat /\ r.from \in Nat /\ r.to \in Nat
      /\ r.kind = "price" \/ r.kind = "retraction"
    BY KnownAreRows DEF Inv, Row
<1>2. /\ r.kind = "price" => /\ r.from \in Actions /\ r.gen <= gen
                             /\ r.from <= Len(chain) => r.gen <= chain[r.from]
      /\ r.kind = "retraction" => \A a \in 1 .. Len(chain) : r.from <= a => r.gen < chain[a]
    BY DEF Inv, RetractionsArePast, PricesAreBehind
<1>3. /\ hub' \in [Hubs -> [Actions -> Nat \cup {None}]]
      /\ \A g \in Hubs : g # h => hub'[g] = hub[g]
      /\ \A a \in Actions :
            /\ hub[h][a] \in Int
            /\ r.kind = "price" =>
                  hub'[h][a] = IF a = r.from /\ r.gen >= hub[h][a] THEN r.gen ELSE hub[h][a]
            /\ r.kind = "retraction" =>
                  hub'[h][a] = IF r.from <= a /\ a <= to /\ hub[h][a] <= r.gen
                               THEN None ELSE hub[h][a]
    BY Zenon, <1>1, <1>2, EffectAt DEF Inv
<1>4. /\ \A a \in 1 .. Len(chain) : a \in Actions /\ chain[a] \in Nat /\ chain[a] <= gen
      /\ Len(chain) \in Nat /\ gen \in Nat /\ None = -1
      /\ \A a \in Actions : a \in Nat /\ a >= 1
    BY BoundsAssumption DEF Inv, Types, QueuedIsOnChain, Actions, None
<1>5. \A g \in Hubs : \A a \in Actions :
         hub[g][a] <= gen /\ (a <= Len(chain) => hub[g][a] <= chain[a])
    BY DEF Inv, HubsAreBehind
<1>6. HubsAreBehind'
    BY <1>1, <1>2, <1>3, <1>4, <1>5 DEF HubsAreBehind
<1>7. Spared
    <2>1. ASSUME NEW a \in Actions, hub'[h][a] # hub[h][a], hub[h][a] # None,
                 a <= Len(chain), chain[a] = hub[h][a]
          PROVE  FALSE
        BY <2>1, <1>1, <1>2, <1>3, <1>4
    <2> QED BY <2>1, <1>3 DEF Spared, OnChain
<1>8. NoPriceLost'
    <2>1. SUFFICES ASSUME NEW g \in Hubs, NEW a \in 1 .. Len(chain)
                   PROVE  \/ hub'[g][a] = chain[a]
                          \/ \E q \in Owed(g)' : q.kind = "price" /\ q.from = a /\ q.gen = chain[a]
        BY DEF NoPriceLost
    <2>2. CASE hub[g][a] = chain[a]
        BY <2>1, <2>2, <1>1, <1>2, <1>3, <1>4
    <2>3. CASE hub[g][a] # chain[a]
        <3>1. PICK q \in Owed(g) : q.kind = "price" /\ q.from = a /\ q.gen = chain[a]
            BY <2>1, <2>3 DEF Inv, OutboxAccountsForHubs, NoPriceLost
        <3>2. CASE g = h /\ q = r
            BY <3>1, <3>2, <2>1, <1>1, <1>3, <1>4, <1>5
        <3> QED BY <3>1, <3>2
    <2> QED BY <2>2, <2>3
<1>9. NoOrphanStranded'
    <2>1. SUFFICES ASSUME NEW g \in Hubs, NEW a \in Actions,
                          hub'[g][a] # None, ~OnChain(a, hub'[g][a])
                   PROVE  \E q \in Owed(g)' :
                             \/ Covers(q, a, hub'[g][a])
                             \/ q.kind = "price" /\ q.from = a /\ hub'[g][a] <= q.gen
        <3>1. \A g \in Hubs : Owed(g)' \subseteq outbox'
            BY DEF Owed
        <3> QED BY <3>1, <1>4 DEF NoOrphanStranded, OnChain, Covers
    <2>2. CASE hub'[g][a] = hub[g][a]
        <3>1. PICK q \in Owed(g) : \/ Covers(q, a, hub[g][a])
                                   \/ q.kind = "price" /\ q.from = a /\ hub[g][a] <= q.gen
            BY <2>1, <2>2 DEF Inv, OutboxAccountsForHubs, NoOrphanStranded, Covers
        <3>2. CASE g = h /\ q = r
            <4>1. CASE r.kind = "retraction"
                BY <4>1, <3>1, <3>2, <2>1, <2>2, <1>3, <1>4 DEF Covers
            <4>2. CASE r.kind = "price"
                <5>1. hub'[h][a] = r.gen /\ r.from = a
                    BY <4>2, <3>1, <3>2, <1>3 DEF Covers
                <5> QED BY <5>1, <4>2, <3>2, <2>1
            <4> QED BY <4>1, <4>2, <1>1
        <3> QED BY <3>1, <3>2, <2>2
    <2>3. CASE hub'[g][a] # hub[g][a]
        <3>1. g = h /\ r.kind = "price" /\ a = r.from /\ hub'[g][a] = r.gen
            BY <2>1, <2>3, <1>1, <1>3
        <3> QED BY <3>1, <2>1
    <2> QED BY <2>2, <2>3
<1> QED BY <1>3, <1>6, <1>7, <1>8, <1>9 DEF OutboxAccountsForHubs

\* A step that touches neither the hubs nor the chain, and after which the hubs
\* are still owed what they were, leaves the hubs accounted for.
LEMMA NothingSent ==
    ASSUME Inv, hub' = hub, chain' = chain, gen' = gen,
           \A g \in Hubs : Owed(g) \subseteq Owed(g)'
    PROVE  HubsAreBehind' /\ OutboxAccountsForHubs' /\ Spared
<1>1. HubsAreBehind' /\ Spared
    BY DEF Inv, HubsAreBehind, Spared
<1>2. NoPriceLost'
    BY DEF Inv, OutboxAccountsForHubs, NoPriceLost
<1>3. NoOrphanStranded'
    BY DEF Inv, OutboxAccountsForHubs, NoOrphanStranded, OnChain
<1> QED BY <1>1, <1>2, <1>3 DEF OutboxAccountsForHubs

\* A step of the loop or the drain that makes no row keeps what is said of rows.
LEMMA NoNewRows ==
    ASSUME Inv, Known' \subseteq Known, chain' = chain, gen' = gen, nextId' = nextId,
           \A p \in delivered' : p[1] < nextId
    PROVE  IdsAreUnique' /\ RetractionsArePast' /\ PricesAreBehind'
BY DEF Inv, IdsAreUnique, RetractionsArePast, PricesAreBehind

----------------------------------------------------------------------------
(* The steps of the block loop.                                            *)

\* The initial state satisfies the invariant.
LEMMA InitKeeps == Init => Inv
<1> SUFFICES ASSUME Init PROVE Inv
    OBVIOUS
<1>1. chain \in Seq(Nat) /\ Len(chain) = 0
    BY DEF Init
<1>2. Types
    BY <1>1 DEF Init, Types
<1>3. Known = {} /\ Fetched = {}
    BY DEF Init, Known, Fetched
<1>4. IdsAreUnique /\ RetractionsArePast /\ PricesAreBehind
    BY <1>3 DEF IdsAreUnique, RetractionsArePast, PricesAreBehind, Init
<1>5. HubsAreBehind
    BY <1>1 DEF HubsAreBehind, Init, None, Actions
<1>6. QueuedIsOnChain /\ StaleIsCovered /\ PlacesHold
    BY <1>1, <1>3, BoundsAssumption
    DEF QueuedIsOnChain, StaleIsCovered, Stale, PlacesHold, Init, NoRow
<1>7. OutboxAccountsForHubs
    BY <1>1 DEF OutboxAccountsForHubs, NoPriceLost, NoOrphanStranded, Init
<1> QED BY <1>2, <1>4, <1>5, <1>6, <1>7 DEF Inv

\* A block's price joins the chain and the outbox at once.
LEMMA CommitBlockKeeps == ASSUME Inv, CommitBlock PROVE Inv' /\ Spared
<1> DEFINE n == Len(chain) + 1
<1>1. /\ pc = "idle" /\ work = NoRow
      /\ chain' = Append(chain, gen)
      /\ work' = [id |-> nextId, kind |-> "price", from |-> n, to |-> 0, gen |-> gen]
      /\ outbox' = outbox \cup {work'}
      /\ nextId' = nextId + 1 /\ nextId \in Nat \ {0}
      /\ pc' = "staged"
      /\ gen' = gen /\ delivered' = delivered /\ hub' = hub
      /\ draining' = draining /\ batch' = batch /\ row' = row /\ left' = left /\ got' = got
    BY DEF Inv, PlacesHold, Types, CommitBlock, drain
<1>2. /\ chain' \in Seq(Nat) /\ Len(chain) \in Nat /\ Len(chain') = n
      /\ chain'[n] = gen /\ gen \in Nat
      /\ \A a \in 1 .. Len(chain) : chain'[a] = chain[a] /\ chain[a] \in Nat
    BY <1>1, ChainGrows DEF Inv, Types
<1>3. n \in Actions /\ n \in Nat \ {0} /\ Len(chain) <= MaxActions
    BY <1>2, BoundsAssumption DEF CommitBlock, Actions
<1>4. work' \in Row /\ work'.id = nextId /\ work'.kind = "price" /\ work'.from = n /\ work'.gen = gen
    BY <1>1, <1>2, <1>3 DEF Row
<1>5. /\ Known' = Known \cup {work'} /\ Fetched' = Fetched
      /\ NoRow \notin Row
    BY <1>1, <1>4, KnownAreRows DEF Known, Fetched, Inv
<1> HIDE DEF n
<1>6. Types'
    BY <1>1, <1>2, <1>4 DEF Inv, Types
<1>7. IdsAreUnique'
    <2>1. \A r \in Known : r.id < nextId /\ r.id \in Nat
        BY KnownAreRows DEF Inv, IdsAreUnique, Row
    <2>2. \A q \in delivered : q[1] < nextId /\ q[1] \in Nat
        BY DEF Inv, IdsAreUnique, Types
    <2> QED BY <2>1, <2>2, <1>1, <1>4, <1>5 DEF Inv, IdsAreUnique
<1>8. \A a \in Nat, g \in Nat : a >= 1 /\ OnChain(a, g) => OnChain(a, g)'
    BY <1>2 DEF OnChain, n
<1>9. RetractionsArePast'
    BY <1>1, <1>2, <1>4, <1>5 DEF Inv, RetractionsArePast, n
<1>10. PricesAreBehind'
    <2>1. \A r \in Known : r.from \in Nat \ {0} /\ r.gen \in Nat
        BY KnownAreRows DEF Inv, Row
    <2> QED BY <2>1, <1>1, <1>2, <1>3, <1>4, <1>5 DEF Inv, PricesAreBehind, n
<1>11. HubsAreBehind'
    <2>1. \A a \in Actions : a \in Nat /\ a >= 1
        BY DEF Actions
    <2> QED BY <2>1, <1>1, <1>2 DEF Inv, HubsAreBehind, n
<1>12. QueuedIsOnChain'
    <2>1. \A r \in outbox : r.from \in Nat \ {0} /\ r.gen \in Nat
        BY DEF Inv, Types, Row
    <2>2. OnChain(work.from, work.gen)'
        BY <1>2, <1>4, <1>1 DEF OnChain
    <2>3. \A r \in outbox' : r.kind = "price" => OnChain(r.from, r.gen)'
        BY <2>1, <2>2, <1>1, <1>8 DEF Inv, QueuedIsOnChain
    <2>chain. \A a \in 1 .. Len(chain) : chain[a] <= gen
        BY Zenon DEF Inv, QueuedIsOnChain
    <2>4. \A a \in 1 .. Len(chain') : chain'[a] <= gen
        BY <2>chain, <1>2 DEF n
    <2> QED BY <2>2, <2>3, <2>4, <1>1, <1>2, <1>3 DEF QueuedIsOnChain, Actions
<1>13. StaleIsCovered'
    <2>1. Stale = {}
        BY <1>1 DEF Inv, StaleIsCovered
    <2>2. \A r \in Fetched : r.from \in Nat \ {0} /\ r.gen \in Nat
        BY KnownAreRows DEF Inv, Row, Known
    <2> QED BY <2>1, <2>2, <1>5, <1>8 DEF StaleIsCovered, Stale
<1>14. PlacesHold'
    <2>1. row \in outbox' => row \in outbox \/ row = NoRow
        BY <1>1, <1>4 DEF Inv, IdsAreUnique, Known, Fetched
    <2>2. NoRow \notin outbox'
        BY <1>1, <1>4, <1>5 DEF Inv, Types
    <2> QED BY <2>1, <2>2, <1>1, <1>4, <1>5 DEF Inv, PlacesHold
<1>15. \A h \in Hubs : Owed(h)' = Owed(h) \cup {work'}
    BY <1>1, <1>4 DEF Owed, Inv, IdsAreUnique, Types
<1>16. NoPriceLost'
    BY <1>1, <1>2, <1>4, <1>15 DEF Inv, OutboxAccountsForHubs, NoPriceLost, n
<1>17. NoOrphanStranded'
    <2>1. \A a \in Actions : a \in Nat /\ a >= 1
        BY DEF Actions
    <2>2. \A h \in Hubs, a \in Actions : hub[h][a] = None \/ hub[h][a] \in Nat
        BY DEF Inv, Types
    <2> QED BY <2>1, <2>2, <1>1, <1>8, <1>15 DEF Inv, OutboxAccountsForHubs, NoOrphanStranded
<1> QED BY <1>1, <1>6, <1>7, <1>9, <1>10, <1>11, <1>12, <1>13, <1>14, <1>16, <1>17
        DEF Inv, OutboxAccountsForHubs, Spared

\* A rollback purges the prices it orphans and owes every hub the retraction of
\* their range; the rows a drain has fetched become stale, and are covered.
LEMMA RollBackKeeps == ASSUME Inv, RollBack PROVE Inv' /\ Spared
<1>1. PICK k \in 1 .. Len(chain) :
        /\ chain' = SubSeq(chain, 1, k - 1)
        /\ work' = [id |-> nextId, kind |-> "retraction", from |-> k, to |-> Len(chain),
                    gen |-> gen]
        /\ Purge({r \in outbox : r.kind = "retraction" \/ r.from < k})
    BY Zenon DEF RollBack
<1> DEFINE kept == {r \in outbox : r.kind = "retraction" \/ r.from < k}
<1>2. /\ pc = "idle" /\ work = NoRow
      /\ outbox' = kept \cup {work'}
      /\ delivered' = {p \in delivered : p[1] \in {r.id : r \in kept}}
      /\ nextId' = nextId + 1 /\ nextId \in Nat \ {0}
      /\ pc' = "committed" /\ gen' = gen + 1 /\ hub' = hub
      /\ draining' = draining /\ batch' = batch /\ row' = row /\ left' = left /\ got' = got
    BY <1>1 DEF Inv, PlacesHold, Types, RollBack, Purge, drain
<1>3. /\ chain' \in Seq(Nat) /\ Len(chain) \in Nat /\ k \in Nat \ {0} /\ k <= Len(chain)
      /\ Len(chain') = k - 1 /\ gen \in Nat
      /\ \A a \in Nat : 1 <= a /\ a < k => chain'[a] = chain[a]
      /\ \A a \in 1 .. Len(chain) : chain[a] \in Nat /\ chain[a] <= gen
      /\ Len(chain) <= MaxActions
    <2>1. chain \in Seq(Nat) /\ gen \in Nat
        BY DEF Inv, Types
    <2>2. /\ chain' \in Seq(Nat) /\ Len(chain) \in Nat /\ k \in Nat \ {0} /\ k <= Len(chain)
          /\ Len(chain') = k - 1
          /\ \A a \in 1 .. (k - 1) : chain'[a] = chain[a]
          /\ \A a \in 1 .. Len(chain) : chain[a] \in Nat
        BY <2>1, <1>1, ChainIsCut
    <2>3. /\ \A a \in 1 .. Len(chain) : chain[a] <= gen
          /\ Len(chain) <= MaxActions
        BY Zenon DEF Inv, QueuedIsOnChain
    <2>4. \A a \in Nat : 1 <= a /\ a < k => a \in 1 .. (k - 1)
        BY <2>2
    <2>5. \A a \in Nat : 1 <= a /\ a < k => chain'[a] = chain[a]
        BY Zenon, <2>2, <2>4
    <2>6. \A a \in 1 .. Len(chain) : chain[a] \in Nat /\ chain[a] <= gen
        BY Zenon, <2>2, <2>3
    <2> QED BY Zenon, <2>1, <2>2, <2>3, <2>5, <2>6
<1>4. /\ work' \in Row /\ work'.id = nextId /\ work'.kind = "retraction"
      /\ work'.from = k /\ work'.to = Len(chain) /\ work'.gen = gen
    BY <1>1, <1>2, <1>3 DEF Row
<1>5. /\ Known' \subseteq Known \cup {work'} /\ Fetched' = Fetched
      /\ NoRow \notin Row /\ kept \subseteq outbox
    BY <1>2, <1>4, KnownAreRows DEF Known, Fetched, Inv
<1>6. \A r \in Known : /\ r.id \in Nat /\ r.id < nextId /\ r.from \in Nat \ {0} /\ r.gen \in Nat
                       /\ r.kind \in {"price", "retraction"}
    BY KnownAreRows DEF Inv, Row, IdsAreUnique
<1>7. Types'
    BY <1>2, <1>3, <1>4 DEF Inv, Types
<1>8. IdsAreUnique'
    <2>1. \A q \in delivered : q[1] < nextId /\ q[1] \in Nat
        BY DEF Inv, IdsAreUnique, Types
    <2> QED BY <2>1, <1>2, <1>4, <1>5, <1>6 DEF Inv, IdsAreUnique
<1>cut. /\ gen \in Nat /\ k \in Nat \ {0} /\ Len(chain) \in Nat /\ Len(chain') \in Nat
        /\ \A a \in Nat : 1 <= a /\ a <= Len(chain) =>
              chain[a] \in Nat /\ chain[a] <= gen /\ (a < k => a <= Len(chain'))
        /\ \A a \in Nat : 1 <= a /\ a <= Len(chain') =>
              a < k /\ a <= Len(chain) /\ chain'[a] = chain[a]
    <2> DEFINE n == Len(chain)
               m == Len(chain')
    <2>1. n \in Nat /\ m = k - 1 /\ k \in Nat \ {0} /\ k <= n /\ gen \in Nat
        BY <1>3
    <2>2. /\ \A a \in Nat : 1 <= a /\ a < k => chain'[a] = chain[a]
          /\ \A a \in 1 .. n : chain[a] \in Nat /\ chain[a] <= gen
        BY <1>3
    <2> HIDE DEF n, m
    <2>3. /\ m \in Nat
          /\ \A a \in Nat : 1 <= a /\ a <= n => a \in 1 .. n /\ (a < k => a <= m)
          /\ \A a \in Nat : 1 <= a /\ a <= m => a < k /\ a <= n
        BY <2>1
    <2>4. /\ \A a \in Nat : 1 <= a /\ a <= n => chain[a] \in Nat /\ chain[a] <= gen /\ (a < k => a <= m)
          /\ \A a \in Nat : 1 <= a /\ a <= m => a < k /\ a <= n /\ chain'[a] = chain[a]
        BY <2>2, <2>3
    <2> QED BY <2>1, <2>3, <2>4 DEF n, m
<1>9. RetractionsArePast'
    <2>1. SUFFICES ASSUME NEW r \in Known', r.kind = "retraction"
                   PROVE  /\ r.gen < gen + 1
                          /\ \A a \in 1 .. Len(chain') : r.from <= a => r.gen < chain'[a]
        BY <1>2 DEF RetractionsArePast
    <2>2. CASE r \in Known
        <3>1. /\ r.gen < gen /\ r.gen \in Nat
              /\ \A a \in 1 .. Len(chain) : r.from <= a => r.gen < chain[a]
            BY <2>1, <2>2, <1>6 DEF Inv, RetractionsArePast
        <3> QED BY <3>1, <1>cut
    <2>3. CASE r = work'
        BY <2>3, <1>4, <1>cut
    <2> QED BY <2>2, <2>3, <1>5
<1>10. PricesAreBehind'
    <2>1. SUFFICES ASSUME NEW r \in Known, r.kind = "price"
                   PROVE  /\ r.from \in Actions /\ r.gen <= gen + 1
                          /\ r.from <= Len(chain') => r.gen <= chain'[r.from]
        BY <1>2, <1>4, <1>5 DEF PricesAreBehind, Actions
    <2>2. /\ r.from \in Actions /\ r.gen <= gen
          /\ r.from <= Len(chain) => r.gen <= chain[r.from]
        BY <2>1 DEF Inv, PricesAreBehind
    <2> QED BY <2>1, <2>2, <1>6, <1>cut
<1>11. /\ \A a \in Actions : a \in Nat /\ a >= 1
       /\ \A h \in Hubs, a \in Actions : hub[h][a] \in Int
    <2>1. \A h \in Hubs, a \in Actions : hub[h][a] \in Nat \cup {None}
        BY DEF Inv, Types
    <2> QED BY <2>1 DEF Actions, None
<1>12. HubsAreBehind'
    BY <1>11, <1>2, <1>cut DEF Inv, HubsAreBehind
<1>13. QueuedIsOnChain'
    <2>1. ASSUME NEW r \in kept, r.kind = "price" PROVE OnChain(r.from, r.gen)'
        <3>1. r \in Known /\ r.from < k
            BY <2>1 DEF Known
        <3> QED BY <3>1, <2>1, <1>3, <1>6 DEF Inv, QueuedIsOnChain, OnChain
    <2>2. \A r \in outbox' : r.kind = "price" => OnChain(r.from, r.gen)'
        BY <2>1, <1>2, <1>4
    <2>3. \A a \in 1 .. Len(chain') : chain'[a] <= gen + 1
        BY <1>cut
    <2>4. Len(chain') <= MaxActions
        BY <1>3, BoundsAssumption
    <2> QED BY <2>2, <2>3, <2>4, <1>2 DEF QueuedIsOnChain
<1>14. StaleIsCovered'
    <2>1. SUFFICES ASSUME NEW r \in Fetched, r.kind = "price", ~OnChain(r.from, r.gen)'
                   PROVE  /\ k <= r.from /\ r.from <= Len(chain) /\ r.gen <= gen
                          /\ work' \notin Fetched
                          /\ \A h \in Hubs : <<nextId, h>> \notin delivered'
        BY <1>2, <1>4, <1>5 DEF StaleIsCovered, Stale
    <2>2. r \in Known /\ OnChain(r.from, r.gen)
        BY <2>1, <1>2 DEF Inv, StaleIsCovered, Stale, Known
    <2>3. k <= r.from /\ r.from <= Len(chain) /\ r.gen <= gen
        BY <2>1, <2>2, <1>3, <1>6 DEF OnChain
    <2>4. work' \notin Fetched
        BY <1>4, <1>6 DEF Known
    <2>5. \A h \in Hubs : <<nextId, h>> \notin delivered'
        BY <1>2, <1>5, <1>6 DEF Known
    <2> QED BY <2>3, <2>4, <2>5
<1>15. PlacesHold'
    <2>1. row \in outbox' => row \in kept
        BY <1>2, <1>4, <1>5, <1>6 DEF Known, Fetched
    <2> QED BY <2>1, <1>2, <1>4, <1>5 DEF Inv, PlacesHold
<1>16. \A h \in Hubs : /\ work' \in Owed(h)'
                       /\ \A q \in kept : q \in Owed(h) => q \in Owed(h)'
    <2>1. \A h \in Hubs : <<nextId, h>> \notin delivered'
        BY <1>2, <1>5, <1>6 DEF Known
    <2> QED BY <2>1, <1>2, <1>4 DEF Owed
<1>17. NoPriceLost'
    <2>1. SUFFICES ASSUME NEW h \in Hubs, NEW a \in 1 .. (k - 1)
                   PROVE  \/ hub[h][a] = chain[a]
                          \/ \E q \in Owed(h)' : q.kind = "price" /\ q.from = a /\ q.gen = chain[a]
        BY <1>2, <1>3 DEF NoPriceLost
    <2>2. CASE hub[h][a] # chain[a]
        <3>1. PICK q \in Owed(h) : q.kind = "price" /\ q.from = a /\ q.gen = chain[a]
            <4>1. a \in 1 .. Len(chain)
                BY <1>3
            <4> QED BY <4>1, <2>2 DEF Inv, OutboxAccountsForHubs, NoPriceLost
        <3>2. q \in kept
            BY <3>1, <2>1, <1>3 DEF Owed
        <3> QED BY <3>1, <3>2, <1>16
    <2> QED BY <2>2
<1>18. NoOrphanStranded'
    <2>1. SUFFICES ASSUME NEW h \in Hubs, NEW a \in Actions,
                          hub[h][a] # None, ~OnChain(a, hub[h][a])'
                   PROVE  \E q \in Owed(h)' :
                             \/ q.kind = "retraction" /\ a \in q.from .. q.to /\ hub[h][a] <= q.gen
                             \/ q.kind = "price" /\ q.from = a /\ hub[h][a] <= q.gen
        BY <1>2 DEF NoOrphanStranded, OnChain
    <2>2. CASE k <= a /\ a <= Len(chain)
        <3>1. hub[h][a] <= gen
            BY DEF Inv, HubsAreBehind
        <3> QED BY <3>1, <2>2, <1>3, <1>4, <1>11, <1>16
    <2>3. CASE ~(k <= a /\ a <= Len(chain))
        <3>1. ~OnChain(a, hub[h][a])
            BY <2>1, <2>3, <1>2, <1>11, <1>cut DEF OnChain
        <3>2. PICK q \in Owed(h) :
                 \/ q.kind = "retraction" /\ a \in q.from .. q.to /\ hub[h][a] <= q.gen
                 \/ q.kind = "price" /\ q.from = a /\ hub[h][a] <= q.gen
            BY <2>1, <3>1 DEF Inv, OutboxAccountsForHubs, NoOrphanStranded
        <3>3. q \in outbox
            BY <3>2 DEF Owed
        <3>4. q.kind = "price" => a < k
            BY <3>2, <3>3, <2>3, <1>3, <1>11 DEF Inv, QueuedIsOnChain, OnChain
        <3>5. q \in kept
            BY <3>2, <3>3, <3>4
        <3> QED BY <3>2, <3>5, <1>16
    <2> QED BY <2>2, <2>3
<1> QED BY <1>2, <1>7, <1>8, <1>9, <1>10, <1>12, <1>13, <1>14, <1>15, <1>17, <1>18
        DEF Inv, OutboxAccountsForHubs, Spared

\* Pausing the queue touches no row.
LEMMA PauseKeeps == ASSUME Inv, Pause PROVE Inv' /\ Spared
<1>1. /\ chain' = chain /\ gen' = gen /\ outbox' = outbox /\ delivered' = delivered
      /\ nextId' = nextId /\ hub' = hub /\ work' = work
      /\ draining' = draining /\ batch' = batch /\ row' = row /\ left' = left /\ got' = got
      /\ pc = "committed" /\ pc' = "pausing"
    BY DEF Pause, database, drain
<1>2. Types' /\ Known' = Known /\ Fetched' = Fetched
    BY <1>1 DEF Inv, Types, Known, Fetched
<1>3. IdsAreUnique' /\ RetractionsArePast' /\ PricesAreBehind'
    BY <1>1, <1>2 DEF Inv, IdsAreUnique, RetractionsArePast, PricesAreBehind
<1>4. QueuedIsOnChain' /\ StaleIsCovered' /\ PlacesHold'
    BY <1>1, <1>2 DEF Inv, QueuedIsOnChain, OnChain, StaleIsCovered, Stale, PlacesHold
<1>5. \A g \in Hubs : Owed(g) \subseteq Owed(g)'
    BY <1>1 DEF Owed
<1>6. HubsAreBehind' /\ OutboxAccountsForHubs' /\ Spared
    BY <1>1, <1>5, NothingSent
<1> QED BY <1>2, <1>3, <1>4, <1>6 DEF Inv

\* Once the drain in flight has ended, it holds no stale row.
LEMMA PausedKeeps == ASSUME Inv, Paused PROVE Inv' /\ Spared
<1>1. /\ chain' = chain /\ gen' = gen /\ outbox' = outbox /\ delivered' = delivered
      /\ nextId' = nextId /\ hub' = hub /\ work' = work
      /\ draining' = draining /\ batch' = batch /\ row' = row /\ left' = left /\ got' = got
      /\ pc = "pausing" /\ pc' = "staged" /\ ~draining
    BY DEF Paused, database, drain
<1>2. Types' /\ Known' = Known /\ Fetched' = {}
    BY <1>1 DEF Inv, Types, Known, Fetched, PlacesHold
<1>3. IdsAreUnique' /\ RetractionsArePast' /\ PricesAreBehind'
    BY <1>1, <1>2 DEF Inv, IdsAreUnique, RetractionsArePast, PricesAreBehind
<1>4. QueuedIsOnChain' /\ StaleIsCovered' /\ PlacesHold'
    BY <1>1, <1>2 DEF Inv, QueuedIsOnChain, OnChain, StaleIsCovered, Stale, PlacesHold
<1>5. \A g \in Hubs : Owed(g) \subseteq Owed(g)'
    BY <1>1 DEF Owed
<1>6. HubsAreBehind' /\ OutboxAccountsForHubs' /\ Spared
    BY <1>1, <1>5, NothingSent
<1> QED BY <1>2, <1>3, <1>4, <1>6 DEF Inv

\* Dropping a row that no hub is owed takes nothing from any hub.
LEMMA DropOwed ==
    ASSUME Inv, NEW r \in Known, Drop(r)
    PROVE  /\ outbox' \subseteq outbox /\ delivered' \subseteq delivered
           /\ \A g \in Hubs : \A q \in Owed(g) : q \in Owed(g)' \/ q = r
           /\ \A q \in outbox' : q.id # r.id
           /\ \A q \in outbox', g \in Hubs : <<q.id, g>> \in delivered => <<q.id, g>> \in delivered'
<1>1. outbox \subseteq Known /\ \A q \in Known : q.id = r.id => q = r
    BY DEF Inv, IdsAreUnique, Known
<1> QED BY <1>1 DEF Drop, Owed

\* A live delivery that was answered is noted, for that hub and row alone.
LEMMA SettleOwed ==
    ASSUME Inv, NEW h \in Hubs, NEW r \in Known, Settle(h, r)
    PROVE  /\ outbox' \subseteq outbox /\ delivered' \subseteq delivered \cup {<<r.id, h>>}
           /\ \A g \in Hubs : \A q \in Owed(g) : q \in Owed(g)' \/ (g = h /\ q = r)
           /\ \A q \in outbox', g \in Hubs : <<q.id, g>> \in delivered => <<q.id, g>> \in delivered'
<1> DEFINE noted == delivered \cup {<<r.id, h>>}
<1>1. outbox \subseteq Known /\ \A q \in Known : q.id = r.id => q = r
    BY DEF Inv, IdsAreUnique, Known
<1>2. CASE \A g \in Hubs : <<r.id, g>> \in noted
    <2>1. Drop(r)
        BY <1>2 DEF Settle
    <2>2. \A g \in Hubs : g # h => r \notin Owed(g)
        BY <1>2 DEF Owed
    <2> QED BY <2>1, <2>2, DropOwed
<1>3. CASE ~(\A g \in Hubs : <<r.id, g>> \in noted)
    <2>1. delivered' = noted /\ outbox' = outbox
        BY <1>3 DEF Settle
    <2> QED BY <2>1, <1>1 DEF Owed
<1> QED BY <1>2, <1>3

\* A live delivery: answered, failed, or taken by the hub with the reply lost.
LEMMA SendLiveKeeps == ASSUME Inv, SendLive PROVE Inv' /\ Spared
<1>1. /\ chain' = chain /\ gen' = gen /\ nextId' = nextId
      /\ draining' = draining /\ batch' = batch /\ row' = row /\ left' = left /\ got' = got
      /\ pc = "staged" /\ pc' = "idle" /\ work' = NoRow
    BY DEF SendLive, drain
<1>2. work \in Known /\ work # NoRow /\ work \in Row /\ work.id \in Nat /\ work.id < nextId
    BY <1>1, KnownAreRows DEF Inv, PlacesHold, Known, Types, Row, IdsAreUnique
<1>3. PICK h \in Hubs :
          \/ DeliverLive(h, work) /\ Settle(h, work)
          \/ UNCHANGED <<hub, outbox, delivered>>
          \/ DeliverLive(h, work) /\ UNCHANGED <<outbox, delivered>>
    BY SMTT(30), Zenon DEF SendLive
<1>4. /\ outbox' \subseteq outbox /\ delivered' \subseteq delivered \cup {<<work.id, h>>}
      /\ \A g \in Hubs : \A q \in Owed(g) : q \in Owed(g)' \/ (g = h /\ q = work)
      /\ \A q \in outbox', g \in Hubs : <<q.id, g>> \in delivered => <<q.id, g>> \in delivered'
    <2>1. CASE Settle(h, work)
        BY <2>1, <1>2, SettleOwed
    <2>2. CASE UNCHANGED <<outbox, delivered>>
        BY <2>2 DEF Owed
    <2> QED BY <2>1, <2>2, <1>3
<1>5. hub' \in [Hubs -> [Actions -> Nat \cup {None}]] /\ HubsAreBehind' /\ OutboxAccountsForHubs' /\ Spared
    <2>1. CASE DeliverLive(h, work)
        <3>1. hub' = [hub EXCEPT ![h] = Effect(@, work, MaxActions)]
            BY <2>1 DEF DeliverLive, Effect
        <3>2. MaxActions \in Nat /\ \A a \in Actions : a <= MaxActions
            BY BoundsAssumption DEF Actions
        <3>3. work.kind = "price" => OnChain(work.from, work.gen)
            BY <1>1 DEF Inv, QueuedIsOnChain
        <3> QED BY Zenon, <3>1, <3>2, <3>3, <1>1, <1>2, <1>4, DeliveryAccounted
    <2>2. CASE UNCHANGED <<hub, outbox, delivered>>
        <3>1. \A g \in Hubs : Owed(g) \subseteq Owed(g)'
            BY <2>2 DEF Owed
        <3>2. hub' \in [Hubs -> [Actions -> Nat \cup {None}]]
            BY <2>2 DEF Inv, Types
        <3> QED BY <2>2, <3>1, <3>2, <1>1, NothingSent
    <2> QED BY <2>1, <2>2, <1>3
<1>6. Types'
    BY <1>1, <1>2, <1>4, <1>5 DEF Inv, Types
<1>7. Known' \subseteq Known /\ Fetched' = Fetched
    BY <1>1, <1>4 DEF Known, Fetched
<1>8. IdsAreUnique' /\ RetractionsArePast' /\ PricesAreBehind'
    <2>1. \A p \in delivered' : p[1] < nextId
        BY <1>2, <1>4 DEF Inv, IdsAreUnique
    <2> QED BY <2>1, <1>1, <1>7, NoNewRows
<1>9. QueuedIsOnChain'
    BY <1>1, <1>4 DEF Inv, QueuedIsOnChain, OnChain
<1>10. StaleIsCovered'
    BY <1>1, <1>7 DEF Inv, StaleIsCovered, Stale, OnChain
<1>11. PlacesHold'
    BY <1>1, <1>4 DEF Inv, PlacesHold, Types
<1> QED BY <1>5, <1>6, <1>8, <1>9, <1>10, <1>11 DEF Inv

----------------------------------------------------------------------------
(* The steps of the drain.                                                 *)

\* A drain fetches rows of the table only.
LEMMA StartDrainKeeps == ASSUME Inv, StartDrain PROVE Inv' /\ Spared
<1>1. /\ chain' = chain /\ gen' = gen /\ outbox' = outbox /\ delivered' = delivered
      /\ nextId' = nextId /\ hub' = hub /\ work' = work /\ pc' = pc
      /\ draining' /\ batch' \subseteq outbox /\ row' = row /\ left' = left /\ got' = got
      /\ row = NoRow
    BY DEF StartDrain, database, loop, Inv, PlacesHold
<1>2. Known' \subseteq Known /\ Fetched' \subseteq outbox
    BY <1>1 DEF Known, Fetched
<1>3. Types'
    BY <1>1 DEF Inv, Types
<1>4. IdsAreUnique' /\ RetractionsArePast' /\ PricesAreBehind'
    <2>1. \A p \in delivered' : p[1] < nextId
        BY <1>1 DEF Inv, IdsAreUnique
    <2> QED BY <2>1, <1>1, <1>2, NoNewRows
<1>5. QueuedIsOnChain'
    BY <1>1 DEF Inv, QueuedIsOnChain, OnChain
<1>6. StaleIsCovered'
    BY <1>1, <1>2 DEF Inv, QueuedIsOnChain, StaleIsCovered, Stale, OnChain
<1>7. PlacesHold'
    BY <1>1 DEF Inv, PlacesHold
<1>8. \A g \in Hubs : Owed(g) \subseteq Owed(g)'
    BY <1>1 DEF Owed
<1>9. HubsAreBehind' /\ OutboxAccountsForHubs' /\ Spared
    BY <1>1, <1>8, NothingSent
<1> QED BY <1>3, <1>4, <1>5, <1>6, <1>7, <1>9 DEF Inv

\* The next fetched row is taken, with the hubs the table says have it.
LEMMA TakeRowKeeps == ASSUME Inv, TakeRow PROVE Inv' /\ Spared
<1>1. /\ chain' = chain /\ gen' = gen /\ outbox' = outbox /\ delivered' = delivered
      /\ nextId' = nextId /\ hub' = hub /\ work' = work /\ pc' = pc
      /\ draining /\ draining' = draining /\ row = NoRow
      /\ row' \in batch /\ batch' = batch \ {row'}
      /\ got' = {h \in Hubs : <<row'.id, h>> \in delivered /\ row' \in outbox}
      /\ left' = Hubs \ got'
    BY DEF TakeRow, database, loop
<1>2. row' \in Row /\ row' # NoRow
    BY <1>1, KnownAreRows DEF Inv, Types
<1>3. Known' = Known /\ Fetched' = Fetched
    BY <1>1, <1>2 DEF Known, Fetched
<1>4. Types'
    BY <1>1, <1>2 DEF Inv, Types
<1>5. IdsAreUnique' /\ RetractionsArePast' /\ PricesAreBehind'
    <2>1. \A p \in delivered' : p[1] < nextId
        BY <1>1 DEF Inv, IdsAreUnique
    <2> QED BY <2>1, <1>1, <1>3, NoNewRows
<1>6. QueuedIsOnChain' /\ StaleIsCovered'
    BY <1>1, <1>3 DEF Inv, QueuedIsOnChain, StaleIsCovered, Stale, OnChain
<1>7. PlacesHold'
    BY <1>1, <1>2 DEF Inv, PlacesHold
<1>8. \A g \in Hubs : Owed(g) \subseteq Owed(g)'
    BY <1>1 DEF Owed
<1>9. HubsAreBehind' /\ OutboxAccountsForHubs' /\ Spared
    BY <1>1, <1>8, NothingSent
<1> QED BY <1>4, <1>5, <1>6, <1>7, <1>9 DEF Inv

\* A fetched row is sent to a hub; one that a reorg orphaned meanwhile may
\* reach it, and is covered by the retraction that waits for the drain.
LEMMA SendToKeeps == ASSUME Inv, NEW h \in Hubs, SendTo(h) PROVE Inv' /\ Spared
<1>1. /\ chain' = chain /\ gen' = gen /\ outbox' = outbox /\ nextId' = nextId
      /\ work' = work /\ pc' = pc /\ draining' = draining /\ batch' = batch /\ row' = row
      /\ h \in left /\ left' \subseteq left
    BY DEF SendTo, loop
<1>2. /\ \/ Deliver(h, row) /\ delivered' = IF row \in outbox THEN delivered \cup {<<row.id, h>>}
                                            ELSE delivered
         \/ Deliver(h, row) /\ delivered' = delivered
         \/ hub' = hub /\ delivered' = delivered
      /\ got' = got \/ (got' = got \cup {h} /\ (row \in outbox => <<row.id, h>> \in delivered'))
      /\ delivered \subseteq delivered'
    BY DEF SendTo
<1>3. row # NoRow /\ row \in Known /\ row \in Fetched /\ row \in Row
      /\ row.id \in Nat /\ row.id < nextId /\ row.to \in Nat
    BY <1>1, KnownAreRows DEF Inv, PlacesHold, Types, Known, Fetched, Row, IdsAreUnique
<1>4. Known' = Known /\ Fetched' = Fetched /\ Stale' = Stale
    <2>1. Fetched' = Fetched
        BY <1>1 DEF Fetched
    <2>2. Known' = Known
        BY <1>1, <2>1 DEF Known
    <2>3. ASSUME NEW r PROVE OnChain(r.from, r.gen)' <=> OnChain(r.from, r.gen)
        BY <1>1 DEF OnChain
    <2>4. Stale' = Stale
        BY Zenon, <2>1, <2>3 DEF Stale
    <2> QED BY <2>1, <2>2, <2>4
<1>5. /\ delivered' \subseteq delivered \cup {<<row.id, h>>}
      /\ \A q \in Known, g \in Hubs :
            <<q.id, g>> \in delivered' => <<q.id, g>> \in delivered \/ (g = h /\ q = row)
    <2>1. \A q \in Known : q.id = row.id => q = row
        BY <1>3 DEF Inv, IdsAreUnique
    <2> QED BY <2>1, <1>2
<1>6. \A g \in Hubs : \A q \in Owed(g) : q \in Owed(g)' \/ (g = h /\ q = row)
    BY <1>1, <1>5 DEF Owed, Known
<1>7. hub' \in [Hubs -> [Actions -> Nat \cup {None}]] /\ HubsAreBehind' /\ OutboxAccountsForHubs' /\ Spared
    <2>1. CASE Deliver(h, row)
        <3>1. hub' = [hub EXCEPT ![h] = Effect(@, row, row.to)]
            BY <2>1 DEF Deliver, Effect
        <3>2. ASSUME row.kind = "price", ~OnChain(row.from, row.gen)
              PROVE  \E q \in Owed(h)' : Covers(q, row.from, row.gen)
            <4>1. row \in Stale
                BY <3>2, <1>3 DEF Stale
            <4>2. work \in outbox \ Fetched /\ Covers(work, row.from, row.gen)
                  /\ <<work.id, h>> \notin delivered
                BY <4>1 DEF Inv, StaleIsCovered, Covers
            <4>3. work \in Owed(h) /\ work # row
                BY <4>2, <1>3 DEF Owed
            <4> QED BY <4>2, <4>3, <1>6
        <3>3. \A a \in Actions : a <= row.to => a <= row.to
            OBVIOUS
        <3> QED BY Zenon, <3>1, <3>2, <3>3, <1>1, <1>3, <1>6, DeliveryAccounted
    <2>2. CASE hub' = hub /\ delivered' = delivered
        <3>1. \A g \in Hubs : Owed(g) \subseteq Owed(g)'
            BY <2>2, <1>1 DEF Owed
        <3>2. hub' \in [Hubs -> [Actions -> Nat \cup {None}]]
            BY <2>2 DEF Inv, Types
        <3> QED BY <2>2, <3>1, <3>2, <1>1, NothingSent
    <2> QED BY <2>1, <2>2, <1>2
<1>8. Types'
    BY <1>1, <1>2, <1>3, <1>5, <1>7 DEF Inv, Types
<1>9. IdsAreUnique' /\ RetractionsArePast' /\ PricesAreBehind'
    <2>1. \A p \in delivered' : p[1] < nextId
        BY <1>3, <1>5 DEF Inv, IdsAreUnique
    <2> QED BY <2>1, <1>1, <1>4, NoNewRows
<1>10. QueuedIsOnChain'
    BY <1>1 DEF Inv, QueuedIsOnChain, OnChain
<1>11. StaleIsCovered'
    BY <1>1, <1>3, <1>4, <1>5 DEF Inv, StaleIsCovered, Known
<1>12. PlacesHold'
    BY <1>1, <1>2, <1>3 DEF Inv, PlacesHold
<1> QED BY <1>7, <1>8, <1>9, <1>10, <1>11, <1>12 DEF Inv

\* A row is dropped only when every hub has it, so that no hub is owed less.
LEMMA FinishRowKeeps == ASSUME Inv, FinishRow PROVE Inv' /\ Spared
<1>1. /\ chain' = chain /\ gen' = gen /\ nextId' = nextId /\ hub' = hub
      /\ work' = work /\ pc' = pc /\ draining' = draining /\ batch' = batch
      /\ row # NoRow /\ row' = NoRow /\ left = {} /\ left' = left /\ got' = {}
      /\ \/ got = Hubs /\ Drop(row)
         \/ outbox' = outbox /\ delivered' = delivered
    BY DEF FinishRow, loop
<1>2. row \in Known /\ row \in Fetched
    BY <1>1 DEF Known, Fetched
<1>3. /\ outbox' \subseteq outbox /\ delivered' \subseteq delivered
      /\ \A g \in Hubs : Owed(g) \subseteq Owed(g)'
      /\ \A q \in outbox : q # row => q \in outbox'
    <2>1. CASE got = Hubs /\ Drop(row)
        <3>1. \A g \in Hubs : row \notin Owed(g)
            BY <2>1 DEF Inv, PlacesHold, Owed
        <3>2. \A q \in outbox : q.id = row.id => q = row
            BY <1>2 DEF Inv, IdsAreUnique, Known
        <3> QED BY <2>1, <3>1, <3>2, <1>2, DropOwed DEF Drop
    <2>2. CASE outbox' = outbox /\ delivered' = delivered
        BY <2>2 DEF Owed
    <2> QED BY <2>1, <2>2, <1>1
<1>4. Types'
    BY <1>1, <1>3 DEF Inv, Types
<1>5. Known' \subseteq Known /\ Fetched' \subseteq Fetched
    BY <1>1, <1>3 DEF Known, Fetched
<1>6. IdsAreUnique' /\ RetractionsArePast' /\ PricesAreBehind'
    <2>1. \A p \in delivered' : p[1] < nextId
        BY <1>3 DEF Inv, IdsAreUnique
    <2> QED BY <2>1, <1>1, <1>5, NoNewRows
<1>7. QueuedIsOnChain'
    BY <1>1, <1>3 DEF Inv, QueuedIsOnChain, OnChain
<1>8. StaleIsCovered'
    <2>1. Stale' \subseteq Stale
        BY <1>1, <1>5 DEF Stale, OnChain
    <2> QED BY <2>1, <1>1, <1>2, <1>3, <1>5 DEF Inv, StaleIsCovered
<1>9. PlacesHold'
    BY <1>1 DEF Inv, PlacesHold
<1>10. HubsAreBehind' /\ OutboxAccountsForHubs' /\ Spared
    BY <1>1, <1>3, NothingSent
<1> QED BY <1>4, <1>6, <1>7, <1>8, <1>9, <1>10 DEF Inv

\* The end of a drain, the end of a 429's hold, and a crash forget fetched rows
\* or nothing, and leave the tables and the hubs as they are.
LEMMA ForgettingKeeps == ASSUME Inv, EndDrain \/ Unthrottle \/ Crash PROVE Inv' /\ Spared
<1>1. /\ chain' = chain /\ gen' = gen /\ outbox' = outbox /\ delivered' = delivered
      /\ nextId' = nextId /\ hub' = hub
      /\ \/ work' = work /\ pc' = pc
         \/ work' = NoRow /\ pc' = "idle" /\ batch' = {} /\ row' = NoRow
      /\ batch' = batch \/ batch' = {}
      /\ \/ row' = row /\ left' = left /\ got' = got
         \/ row' = NoRow /\ left' = {} /\ got' = {}
      /\ ~draining' => (batch' = {} /\ row' = NoRow) \/ (~draining /\ batch' = batch /\ row' = row)
    BY DEF EndDrain, Unthrottle, Crash, database, loop, drain
<1>2. Types'
    BY <1>1 DEF Inv, Types
<1>3. Known' \subseteq Known /\ Fetched' \subseteq Fetched
    BY <1>1 DEF Known, Fetched
<1>4. IdsAreUnique' /\ RetractionsArePast' /\ PricesAreBehind'
    <2>1. \A p \in delivered' : p[1] < nextId
        BY <1>1 DEF Inv, IdsAreUnique
    <2> QED BY <2>1, <1>1, <1>3, NoNewRows
<1>5. QueuedIsOnChain'
    BY <1>1 DEF Inv, QueuedIsOnChain, OnChain
<1>6. StaleIsCovered'
    <2>1. Stale' \subseteq Stale
        BY <1>1, <1>3 DEF Stale, OnChain
    <2>2. CASE work' = work /\ pc' = pc
        BY <2>1, <2>2, <1>1, <1>3 DEF Inv, StaleIsCovered
    <2>3. CASE batch' = {} /\ row' = NoRow
        BY <2>3 DEF StaleIsCovered, Stale, Fetched
    <2> QED BY <2>2, <2>3, <1>1
<1>7. PlacesHold'
    BY <1>1 DEF Inv, PlacesHold
<1>8. \A g \in Hubs : Owed(g) \subseteq Owed(g)'
    BY <1>1 DEF Owed
<1>9. HubsAreBehind' /\ OutboxAccountsForHubs' /\ Spared
    BY <1>1, <1>8, NothingSent
<1> QED BY <1>2, <1>4, <1>5, <1>6, <1>7, <1>9 DEF Inv

----------------------------------------------------------------------------
(* The theorems.                                                           *)

\* Every step keeps the invariant and spares the prices of the chain.
LEMMA StepKeeps == ASSUME Inv, [Next]_vars PROVE Inv' /\ (Spared \/ UNCHANGED vars)
<1>1. CASE UNCHANGED vars
    <2>1. /\ chain' = chain /\ gen' = gen /\ outbox' = outbox /\ delivered' = delivered
          /\ nextId' = nextId /\ hub' = hub /\ pc' = pc /\ work' = work
          /\ draining' = draining /\ batch' = batch /\ row' = row /\ left' = left /\ got' = got
        BY <1>1 DEF vars, database, loop, drain
    <2>2. Types' /\ Known' = Known /\ Fetched' = Fetched
        BY <2>1 DEF Inv, Types, Known, Fetched
    <2>3. IdsAreUnique' /\ RetractionsArePast' /\ PricesAreBehind'
        BY <2>1, <2>2 DEF Inv, IdsAreUnique, RetractionsArePast, PricesAreBehind
    <2>4. QueuedIsOnChain' /\ StaleIsCovered' /\ PlacesHold'
        BY <2>1, <2>2 DEF Inv, QueuedIsOnChain, OnChain, StaleIsCovered, Stale, PlacesHold
    <2>5. \A g \in Hubs : Owed(g) \subseteq Owed(g)'
        BY <2>1 DEF Owed
    <2>6. HubsAreBehind' /\ OutboxAccountsForHubs'
        BY <2>1, <2>5, NothingSent
    <2> QED BY <2>2, <2>3, <2>4, <2>6, <1>1 DEF Inv
<1>2. CASE CommitBlock \/ RollBack
    BY <1>2, CommitBlockKeeps, RollBackKeeps
<1>3. CASE LoopStep
    BY <1>3, PauseKeeps, PausedKeeps, SendLiveKeeps DEF LoopStep
<1>4. CASE DrainStep
    <2>1. CASE StartDrain \/ TakeRow \/ FinishRow
        BY <2>1, StartDrainKeeps, TakeRowKeeps, FinishRowKeeps
    <2>2. CASE EndDrain \/ Unthrottle
        BY <2>2, ForgettingKeeps
    <2>3. ASSUME NEW h \in Hubs, SendTo(h) PROVE Inv' /\ Spared
        BY <2>3, SendToKeeps
    <2> QED BY <1>4, <2>1, <2>2, <2>3 DEF DrainStep
<1>5. CASE Crash
    BY <1>5, ForgettingKeeps
<1> QED BY <1>1, <1>2, <1>3, <1>4, <1>5 DEF Next

\* The invariant holds of every reachable state of the outbox and the hubs.
THEOREM HubPushInvariant == Spec => []Inv
<1>1. Inv /\ [Next]_vars => Inv'
    BY StepKeeps
<1> QED BY <1>1, InitKeeps, PTL DEF Spec

\* At every moment a crash may strike, each price of the chain is on each hub or
\* its outbox row is owed to it, and each orphaned price a hub holds is covered
\* by a row owed to it: nothing is lost by a purge, a lost reply or a drain that
\* outlives the reorg, for any number of hubs, actions, reorgs and faults.
THEOREM OutboxAccounts == Spec => []OutboxAccountsForHubs
<1>1. Inv => OutboxAccountsForHubs
    BY DEF Inv
<1> QED BY <1>1, HubPushInvariant, PTL

\* No delivery, however late, takes a price of the current chain off a hub: the
\* generation a retraction carries fences it from the prices published again at
\* the indices it names.
THEOREM ChainIsSpared == Spec => RetractionsSpareTheChain
<1>1. Inv /\ [Next]_vars => [Spared]_vars
    BY StepKeeps
<1>2. [Spared]_vars => [\A h \in Hubs : \A a \in Actions :
           hub'[h][a] # hub[h][a] => hub[h][a] = None \/ ~OnChain(a, hub[h][a])]_vars
    BY DEF Spared
<1> QED BY <1>1, <1>2, HubPushInvariant, PTL DEF Spec, RetractionsSpareTheChain

=============================================================================
