------------------------------ MODULE HubPush ------------------------------
(***************************************************************************)
(* The outbox of pushes to the hubs (pending_hub_pushes).                  *)
(*                                                                         *)
(* A block that carries a PRICE action writes an outbox row in its own     *)
(* transaction.  A reorg rollback purges the rows of the orphaned actions, *)
(* writes a retraction of the orphaned range and bumps the push            *)
(* generation, again in one transaction.  After the commit a row is sent   *)
(* live to one hub; what that misses is the work of a timer that drains    *)
(* the table, holds the rows it fetched in memory and sends each one to    *)
(* every hub that does not have it.                                        *)
(*                                                                         *)
(* Sends fail, or succeed although the reply is lost.  The process may     *)
(* crash between any two steps.  An action is named by its action index,   *)
(* which a reorg frees for the next chain to use again; its content is     *)
(* identified by the push generation it was published in.                  *)
(***************************************************************************)
EXTENDS Integers, Sequences, FiniteSets

CONSTANTS
    Hubs,         \* the candidate hubs pushes fan out to
    MaxActions,   \* bound: length of the chain of PRICE actions
    MaxReorgs,    \* bound: reorg rollbacks
    MaxFaults     \* bound: crashes and failed sends

ASSUME HubsAssumption == Hubs # {} /\ IsFiniteSet(Hubs)
ASSUME BoundsAssumption == MaxActions \in Nat /\ MaxReorgs \in Nat /\ MaxFaults \in Nat

VARIABLES
    chain,       \* action index -> the generation its action was published in
    gen,         \* push_generations: the current push generation
    outbox,      \* rows of pending_hub_pushes that wait for delivery
    delivered,   \* delivered_to: pairs <<row id, hub>>
    tried,       \* ids of the rows with a failed attempt on record
    nextId,      \* the next row id
    hub,         \* hub -> action index -> generation of the row it holds
    pc, work,    \* where the block loop is, and the row it sends live
    paused,      \* HubPushQueue.paused
    throttled,   \* the hold a 429 puts on the queue
    draining, batch, row, left, got, error,  \* the drain in flight
    faults

database == <<chain, gen, outbox, delivered, tried, nextId>>
loop     == <<pc, work>>
drain    == <<draining, batch, row, left, got, error>>
vars     == <<database, hub, loop, paused, throttled, drain, faults>>

Actions == 1 .. MaxActions
None    == -1   \* below every generation
NoRow   == [id |-> 0, kind |-> "none", from |-> 0, to |-> 0, gen |-> 0]

Init ==
    /\ chain = <<>>
    /\ gen = 0
    /\ outbox = {}
    /\ delivered = {}
    /\ tried = {}
    /\ nextId = 1
    /\ hub = [h \in Hubs |-> [a \in Actions |-> None]]
    /\ pc = "idle" /\ work = NoRow
    /\ paused = FALSE
    /\ throttled = FALSE
    /\ draining = FALSE /\ batch = {} /\ row = NoRow /\ left = {} /\ got = {} /\ error = "none"
    /\ faults = 0

----------------------------------------------------------------------------
(* What a hub does with a push (external).                                 *)

\* A price is inserted, or replaces one of the same or an older generation.
Publish(holds, r) ==
    [holds EXCEPT ![r.from] = IF r.gen >= @ THEN r.gen ELSE @]

\* A retraction deletes the prices from r.from to `to' up to its generation.
Retract(holds, r, to) ==
    [a \in Actions |-> IF a \in r.from .. to /\ holds[a] <= r.gen THEN None ELSE holds[a]]

\* A delivery from the queue; a retraction that was queued is bounded by the
\* last action it rolled back.
Deliver(h, r) ==
    hub' = [hub EXCEPT ![h] = IF r.kind = "price" THEN Publish(@, r) ELSE Retract(@, r, r.to)]

\* A live delivery right after the commit; the retraction is open-ended.
DeliverLive(h, r) ==
    hub' = [hub EXCEPT ![h] = IF r.kind = "price" THEN Publish(@, r) ELSE Retract(@, r, MaxActions)]

\* markHubPushDelivered deletes the row.
Drop(r) ==
    /\ outbox' = {q \in outbox : q.id # r.id}
    /\ delivered' = {p \in delivered : p[1] # r.id}
    /\ tried' = tried \ {r.id}

\* The hub took a row: it is noted, and the row dropped when all hubs have it.
Settle(h, r) ==
    LET noted == delivered \cup {<<r.id, h>>}
    IN  IF \A g \in Hubs : <<r.id, g>> \in noted
        THEN Drop(r)
        ELSE delivered' = noted /\ UNCHANGED <<outbox, tried>>

Fault == faults < MaxFaults /\ faults' = faults + 1

----------------------------------------------------------------------------
(* The block loop: blocks and reorg rollbacks.                             *)

\* A block with a PRICE action commits: the action, and its outbox row, which
\* carries the current generation and is staged for a live delivery.
CommitBlock ==
    /\ pc = "idle"
    /\ Len(chain) < MaxActions
    /\ chain' = Append(chain, gen)
    /\ work' = [id |-> nextId, kind |-> "price", from |-> Len(chain) + 1, to |-> 0, gen |-> gen]
    /\ outbox' = outbox \cup {work'}
    /\ nextId' = nextId + 1
    /\ pc' = "staged"
    /\ UNCHANGED <<gen, delivered, tried, hub, paused, throttled, drain, faults>>

\* The rollback's delete on the outbox keeps `kept' and its insert adds work'.
Purge(kept) ==
    LET ids == {r.id : r \in kept}
    IN  /\ outbox' = kept \cup {work'}
        /\ delivered' = {p \in delivered : p[1] \in ids}
        /\ tried' = tried \cap ids

\* Faulty variant: the purge takes earlier retractions with it.
RollBackPurgingAll ==
    /\ pc = "idle"
    /\ gen < MaxReorgs
    /\ \E k \in 1 .. Len(chain) :
          /\ chain' = SubSeq(chain, 1, k - 1)
          /\ work' = [id |-> nextId, kind |-> "retraction", from |-> k, to |-> Len(chain),
                      gen |-> gen]
          /\ Purge({r \in outbox : r.from < k})
    /\ gen' = gen + 1
    /\ nextId' = nextId + 1
    /\ pc' = "committed"
    /\ UNCHANGED <<hub, paused, throttled, drain, faults>>

\* Faulty variant: the retraction carries the bumped generation.
RollBackBumpedFence ==
    /\ pc = "idle"
    /\ gen < MaxReorgs
    /\ \E k \in 1 .. Len(chain) :
          /\ chain' = SubSeq(chain, 1, k - 1)
          /\ work' = [id |-> nextId, kind |-> "retraction", from |-> k, to |-> Len(chain),
                      gen |-> gen + 1]
          /\ Purge({r \in outbox : r.kind = "retraction" \/ r.from < k})
    /\ gen' = gen + 1
    /\ nextId' = nextId + 1
    /\ pc' = "committed"
    /\ UNCHANGED <<hub, paused, throttled, drain, faults>>

\* A reorg rollback commits: the actions from index k on are gone, their
\* queued pushes too (never a retraction), the generation is bumped, and the
\* retraction of the range carries the generation before the bump.
RollBack ==
    /\ pc = "idle"
    /\ gen < MaxReorgs
    /\ \E k \in 1 .. Len(chain) :
          /\ chain' = SubSeq(chain, 1, k - 1)
          /\ work' = [id |-> nextId, kind |-> "retraction", from |-> k, to |-> Len(chain),
                      gen |-> gen]
          /\ Purge({r \in outbox : r.kind = "retraction" \/ r.from < k})
    /\ gen' = gen + 1
    /\ nextId' = nextId + 1
    /\ pc' = "committed"
    /\ UNCHANGED <<hub, paused, throttled, drain, faults>>

\* After the rollback's commit the queue is paused ...
Pause ==
    /\ pc = "committed"
    /\ paused' = TRUE
    /\ pc' = "pausing"
    /\ UNCHANGED <<database, hub, work, throttled, drain, faults>>

\* ... and a drain in flight is waited for.
Paused ==
    /\ pc = "pausing"
    /\ ~draining
    /\ pc' = "staged"
    /\ UNCHANGED <<database, hub, work, paused, throttled, drain, faults>>

\* The live delivery, to the hub selected now; the queue is resumed.
SendLive ==
    /\ pc = "staged"
    /\ \E h \in Hubs :
          \/ DeliverLive(h, work) /\ Settle(h, work) /\ UNCHANGED faults
          \/ Fault /\ UNCHANGED <<hub, outbox, delivered, tried>>
          \/ Fault /\ DeliverLive(h, work) /\ UNCHANGED <<outbox, delivered, tried>>
    /\ pc' = "idle"
    /\ work' = NoRow
    /\ paused' = FALSE
    /\ UNCHANGED <<chain, gen, nextId, throttled, drain>>

----------------------------------------------------------------------------
(* The drain.                                                              *)

\* A timer tick fetches due rows: all that were never tried and, as their
\* backoff runs, any of the others.
StartDrain ==
    /\ ~draining /\ ~paused /\ ~throttled
    /\ outbox # {}
    /\ draining' = TRUE
    /\ \E backedOff \in SUBSET {r \in outbox : r.id \in tried} : batch' = outbox \ backedOff
    /\ UNCHANGED <<database, hub, loop, paused, throttled, row, left, got, error, faults>>

\* The oldest fetched row is next.  It goes to the hubs that the table does not
\* list as delivered; for a row purged since the fetch it lists none.
TakeRow ==
    /\ draining /\ row = NoRow /\ ~throttled
    /\ \E r \in batch :
          /\ \A q \in batch : r.id <= q.id
          /\ row' = r
          /\ batch' = batch \ {r}
          /\ got' = {h \in Hubs : <<r.id, h>> \in delivered /\ r \in outbox}
    /\ left' = Hubs \ got'
    /\ error' = "none"
    /\ UNCHANGED <<database, hub, loop, paused, throttled, draining, faults>>

\* The row is sent to a hub.  A failure leaves it owed to that hub; a 429 also
\* ends the row.  The first error is the one that counts.
SendTo(h) ==
    /\ h \in left
    /\ \/ /\ Deliver(h, row)
          /\ delivered' = IF row \in outbox THEN delivered \cup {<<row.id, h>>} ELSE delivered
          /\ got' = got \cup {h}
          /\ left' = left \ {h}
          /\ UNCHANGED <<error, faults>>
       \/ /\ Fault
          /\ Deliver(h, row) \/ UNCHANGED hub
          /\ error' = IF error = "none" THEN "failed" ELSE error
          /\ left' = left \ {h}
          /\ UNCHANGED <<delivered, got>>
       \/ /\ Fault
          /\ error' = IF error = "none" THEN "throttled" ELSE error
          /\ left' = {}
          /\ UNCHANGED <<hub, delivered, got>>
    /\ UNCHANGED <<chain, gen, outbox, tried, nextId, loop, paused, throttled, draining, batch, row>>

\* Faulty variant: a failed attempt retires the row, as the attempt cap does to
\* the re-derivable price rounds.
FinishRowCapped ==
    /\ row # NoRow /\ left = {}
    /\ Drop(row)
    /\ row' = NoRow
    /\ got' = {}
    /\ error' = "none"
    /\ UNCHANGED <<chain, gen, nextId, hub, loop, paused, throttled, draining, batch, left, faults>>

\* A row every hub has is dropped.  A failed attempt is recorded and puts the
\* row into backoff, a 429 records nothing and holds the queue.  Prices and
\* retractions have no attempt cap: they stay pending until they are taken.
FinishRow ==
    /\ row # NoRow /\ left = {}
    /\ \/ got = Hubs /\ Drop(row) /\ UNCHANGED throttled
       \/ /\ error = "failed"
          /\ tried' = IF row \in outbox THEN tried \cup {row.id} ELSE tried
          /\ UNCHANGED <<outbox, delivered, throttled>>
       \/ /\ error = "throttled"
          /\ throttled' = TRUE
          /\ UNCHANGED <<outbox, delivered, tried>>
    /\ row' = NoRow
    /\ got' = {}
    /\ error' = "none"
    /\ UNCHANGED <<chain, gen, nextId, hub, loop, paused, draining, batch, left, faults>>

EndDrain ==
    /\ draining /\ row = NoRow
    /\ batch = {} \/ throttled
    /\ draining' = FALSE
    /\ batch' = {}
    /\ UNCHANGED <<database, hub, loop, paused, throttled, row, left, got, error, faults>>

\* The hold a 429 asked for runs out.
Unthrottle ==
    /\ throttled
    /\ throttled' = FALSE
    /\ UNCHANGED <<database, hub, loop, paused, drain, faults>>

\* The process dies between two steps; the tables and the hubs stay.
Crash ==
    /\ Fault
    /\ pc' = "idle" /\ work' = NoRow
    /\ paused' = FALSE
    /\ throttled' = FALSE
    /\ draining' = FALSE /\ batch' = {} /\ row' = NoRow /\ left' = {} /\ got' = {} /\ error' = "none"
    /\ UNCHANGED <<database, hub>>

DrainStep == StartDrain \/ TakeRow \/ FinishRow \/ EndDrain \/ Unthrottle \/ \E h \in Hubs : SendTo(h)

LoopStep == Pause \/ Paused \/ SendLive

Next == CommitBlock \/ RollBack \/ LoopStep \/ DrainStep \/ Crash

Spec == Init /\ [][Next]_vars

----------------------------------------------------------------------------
(* Properties.                                                             *)

\* A row that is still owed to hub h.
Owed(h) == {r \in outbox : <<r.id, h>> \notin delivered}

OnChain(a, g) == a <= Len(chain) /\ chain[a] = g

\* Every price on the chain is on the hub or its outbox row is still owed to
\* it, through crashes, lost replies and purges.
NoPriceLost ==
    \A h \in Hubs : \A a \in 1 .. Len(chain) :
        \/ hub[h][a] = chain[a]
        \/ \E r \in Owed(h) : r.kind = "price" /\ r.from = a /\ r.gen = chain[a]

\* Every price a hub holds that is not on the chain any more is covered by a
\* retraction still owed to that hub, or by the price that will replace it.
NoOrphanStranded ==
    \A h \in Hubs : \A a \in Actions :
        \/ hub[h][a] = None
        \/ OnChain(a, hub[h][a])
        \/ \E r \in Owed(h) :
              \/ r.kind = "retraction" /\ a \in r.from .. r.to /\ hub[h][a] <= r.gen
              \/ r.kind = "price" /\ r.from = a /\ hub[h][a] <= r.gen

\* The outbox accounts for every difference between a hub and the chain, in
\* both directions, at every moment a crash may strike.
OutboxAccountsForHubs == NoPriceLost /\ NoOrphanStranded

\* No delivery takes a price of the current chain off a hub: a late retraction
\* does not reach the prices published again at the indices it names.
RetractionsSpareTheChain ==
    [][\A h \in Hubs : \A a \in Actions :
           hub'[h][a] # hub[h][a] => hub[h][a] = None \/ ~OnChain(a, hub[h][a])]_vars

\* A drain fetches the oldest pending row.
FetchesOldest == StartDrain /\ \E r \in batch' : \A o \in outbox : r.id <= o.id

\* The ticks, the sends and the holds go on.  A backoff is capped, so a row
\* that stays the oldest one is fetched again and again.
FairSpec ==
    /\ Spec
    /\ WF_vars(LoopStep)
    /\ WF_vars(DrainStep)
    /\ SF_vars(FetchesOldest)

\* Reorgs and faults being over, every hub comes to hold exactly the prices of
\* the chain, and keeps holding them.
HubsConverge ==
    <>[](\A h \in Hubs : \A a \in Actions :
            hub[h][a] = IF a <= Len(chain) THEN chain[a] ELSE None)

=============================================================================
