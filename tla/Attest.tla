------------------------------- MODULE Attest -------------------------------
(***************************************************************************)
(* External-data attestation (actions/attest).  A contract asks (ATTEST    *)
(* v0) and its caller's fee goes into escrow; validators answer on chain   *)
(* (v1) or, for a request above the response-mirror height, through the    *)
(* hub mirror that a pass of every block applies; a request nobody         *)
(* answered is expired by a sweep (v2).  Every end of a request settles    *)
(* the fee and calls the contract back.                                    *)
(*                                                                         *)
(* All attestation stake lives on the home chain.  A request of another    *)
(* chain is materialized there by the federation (v3) and its answer is    *)
(* carried back (v4), so a foreign request has a row, a deadline and an    *)
(* expiry sweep on either chain and each may roll back without the other.  *)
(***************************************************************************)
EXTENDS Integers, Sequences, FiniteSets, FiniteSetsExt, SequencesExt

CONSTANTS
    Native,          \* requests of contracts of the home chain
    Foreign,         \* requests of contracts of the origin chain
    OriginAction,    \* the origin action_index a foreign request is emitted at
    Fee, Redundancy, DeadlineBlocks,   \* fields of every request
    Ranking,         \* its eligible validators in the order of their hashes
    Fund,            \* gas tokens of the fee payer of each chain
    SignedResponses, \* what validators may sign: an outcome and its signers
    MirrorFrom,      \* ATTEST_RESPONSE_MIRROR_ACTIVATION
    ZeroConfFrom,    \* ATTEST_ZERO_CONF_ACTIVATION
    Confirmations,   \* ATTEST_RESPONSIBLE_WIDENING.confirmations
    Headroom,        \* ATTEST_RESPONSIBLE_WIDENING_V2.headroom
    MaxSlots,        \* the widening's maxSlots
    MirrorCap,       \* ATTEST_MAX_MIRROR_APPLIES_PER_BLOCK
    ExpiryCap,       \* ATTEST_MAX_EXPIRIES_PER_BLOCK
    Depth,           \* blocks the federation waits before it relays
    MaxHeight,       \* bound: the last block of each chain
    MaxRows,         \* bound: mirrored responses
    MaxRollbacks     \* bound: reorganisations

Ids == Native \union Foreign
Validators == UNION {Range(Ranking[id]) : id \in Ids}
Chains == {"home", "origin"}

ASSUME AttestAssumption ==
    /\ OriginAction \in [Foreign -> Nat \ {0}]
    /\ {Fee, Redundancy, DeadlineBlocks} \subseteq [Ids -> Nat]
    /\ \A id \in Ids : Redundancy[id] > 0 /\ DeadlineBlocks[id] > 0
    /\ Fund \in Nat /\ SignedResponses \subseteq
           [status : {"ok", "expired", "no_quorum"}, signers : SUBSET Validators]
    /\ MirrorFrom \in Nat /\ ZeroConfFrom \in Nat /\ MirrorFrom <= ZeroConfFrom
    /\ {Confirmations, Headroom, MaxSlots} \subseteq Nat
    /\ MirrorCap > 0 /\ ExpiryCap > 0 /\ Depth \in Nat
    /\ MaxHeight \in [Chains -> Nat] /\ MaxRows \in Nat /\ MaxRollbacks \in Nat

VARIABLES
    chain,     \* the tables of the indexer of each chain
    mirror,    \* attestation_responses: the home indexer's copy of the hub's rows
    rollbacks  \* reorganisations so far

vars == <<chain, mirror, rollbacks>>

-----------------------------------------------------------------------------
(* The tables of one chain.  rows holds the v0 rows, responses the valid   *)
(* v1 rows, ledger one record per processTransactionLedgerChanges, passes  *)
(* the requests every block's mirror pass dispatched.                      *)

NoStats == [v \in Validators |-> [fulfilled |-> 0, missed |-> 0, last |-> 0]]

EmptyTables ==
    [height |-> 0, rows |-> {}, responses |-> {}, ledger |-> <<>>, rewards |-> {},
     callbacks |-> <<>>, stats |-> NoStats, passes |-> <<>>]

RowOf(d, id) == CHOOSE r \in d.rows : r.id = id
HasRow(d, id) == \E r \in d.rows : r.id = id

Posted(d, id, kind, b) ==
    IF Fee[id] = 0 THEN d
    ELSE [d EXCEPT !.ledger = Append(@, [id |-> id, kind |-> kind, block |-> b])]

Postings(d, id, kinds) ==
    Len(SelectSeq(d.ledger, LAMBDA p : p.id = id /\ p.kind \in kinds))

\* What the escrow holds for a request.
Held(d, id) ==
    Fee[id] * (Postings(d, id, {"escrow"}) - Postings(d, id, {"refund", "reward", "relay"}))

\* getAddressBalances of the fee payer.
PayerBalance(d) ==
    Fund - MapThenSumSet(LAMBDA id :
               Fee[id] * (Postings(d, id, {"escrow"}) - Postings(d, id, {"refund"})), Ids)

\* updateAttestationRequestStatus.
WithStatus(d, id, status, b) ==
    [d EXCEPT !.rows = {IF r.id = id THEN [r EXCEPT !.status = status, !.resolved = b] ELSE r
                        : r \in @}]

\* incrementAttestationValidatorStat for a set of validators.
Counted(d, vs, field, b) ==
    [d EXCEPT !.stats = [v \in Validators |->
        IF v \in vs THEN [@[v] EXCEPT ![field] = @ + 1, !.last = b] ELSE @[v]]]

\* injectCallbackExecute and injectExpiredCallback.
CalledBack(d, id, status, b) ==
    [d EXCEPT !.callbacks = Append(@, [id |-> id, status |-> status, block |-> b])]

-----------------------------------------------------------------------------
(* The responsible set, and the signatures it accepts.                     *)

\* isMirrorEraRequest, and the zero-confirmation height of the same row.
MirrorEra(r) == r.block >= MirrorFrom
ZeroConf(r) == r.block >= ZeroConfFrom

\* widenSlots and widenSlotsV2, whose startOffset is 0.
WidenSlots(r, b) ==
    LET start == IF ZeroConf(r) THEN r.block ELSE r.block + Confirmations
        slots == IF r.deadline > start /\ b > start
                 THEN Min({((b - start) * (MaxSlots + 1)) \div (r.deadline - start), MaxSlots})
                 ELSE 0
    IN  IF ZeroConf(r) THEN Headroom + slots ELSE slots

\* computeResponsibleSet, in rank order.
ResponsibleSet(id, widen) ==
    SubSeq(Ranking[id], 1, Min({Len(Ranking[id]), Redundancy[id] + widen}))

\* verifyEligibleSigs and filterToResponsibleSet.
VerifiedSigs(r, signers, b) == signers \intersect Range(ResponsibleSet(r.id, WidenSlots(r, b)))

Verifies(r, signers, b) == Cardinality(VerifiedSigs(r, signers, b)) >= Redundancy[r.id]

\* canonicalSignerSet.
CanonicalSigners(r, signers, b) ==
    LET hits == SelectSeq(ResponsibleSet(r.id, WidenSlots(r, b)), LAMBDA v : v \in signers)
    IN  Range(SubSeq(hits, 1, Min({Len(hits), Redundancy[r.id]})))

\* isForeignOrigin: the contract lives on the other chain.
ForeignOrigin(c, id) == c = "home" /\ id \in Foreign

-----------------------------------------------------------------------------
(* The ends of a request.                                                  *)

WithReward(d, v, id, what, amount, b) ==
    [d EXCEPT !.rewards =
        {w \in @ : ~(w.v = v /\ w.id = id /\ w.what = what)}
            \union {[v |-> v, id |-> id, what |-> what, amount |-> amount, block |-> b]}]

\* payFeeSplit: the broadcast fee of an on-chain response first, then equal
\* floors of the rest.
FeeSplit(d, r, signers, carve, b) ==
    LET responsible == ResponsibleSet(r.id, WidenSlots(r, b))
        paid        == IF ZeroConf(r) THEN CanonicalSigners(r, signers, b) ELSE Range(responsible)
        share       == (Fee[r.id] - carve) \div Cardinality(paid)
        carved      == IF carve = 0 THEN d
                       ELSE WithReward(d, responsible[1], r.id, "attest_bcast", carve, b)
        add(acc, v) == IF share = 0 THEN acc ELSE WithReward(acc, v, r.id, "attest_fee", share, b)
    IN  FoldSet(LAMBDA v, acc : add(acc, v), carved, paid)

\* settleRequestFee of a local fulfilment, and of an error or expiry.
SettledLocally(d, r, signers, carve, b) ==
    IF Fee[r.id] = 0 THEN d
    ELSE FeeSplit(Posted(d, r.id, "reward", b), r, signers, carve, b)

Refunded(d, id, b) == Posted(d, id, "refund", b)

\* A fee is escrowed on the chain of the contract alone: the row a v3 writes
\* has none.
FeeHere(c, id) == ~ForeignOrigin(c, id)

\* What a valid terminal response does to its request on the home chain.
\* finishChainResponse, settleMirroredResponse.
Finished(d, r, status, signers, carve, b) ==
    LET flipped == WithStatus(d, r.id, IF status = "ok" THEN "fulfilled" ELSE "errored", b)
    IN  IF ForeignOrigin("home", r.id) THEN flipped
        ELSE CalledBack(IF status = "ok" THEN SettledLocally(flipped, r, signers, carve, b)
                                         ELSE Refunded(flipped, r.id, b),
                        r.id, status, b)

\* createAttestationResponse of a valid response, with its counters.
WithResponse(d, id, status, sigs, b) ==
    LET stored == [d EXCEPT !.responses =
                     @ \union {[id |-> id, status |-> status, sigs |-> sigs, block |-> b]}]
    IN  IF status = "ok" THEN Counted(stored, sigs, "fulfilled", b) ELSE stored

-----------------------------------------------------------------------------
(* The transactions.  A refused one leaves nothing that another step reads *)
(* and does not appear.                                                    *)

\* parseRequest: a refusal rolls the emitting EXECUTE back.
Requests(c, d, b) ==
    {Posted([d EXCEPT !.rows = @ \union {[id |-> id, block |-> b, status |-> "pending",
                                          deadline |-> b + DeadlineBlocks[id], resolved |-> 0]}],
            id, "escrow", b) :
        id \in {x \in IF c = "home" THEN Native ELSE Foreign :
                  /\ ~HasRow(d, x)
                  /\ c = "origin" => \A r \in d.rows : OriginAction[r.id] # OriginAction[x]
                  /\ c = "home" => Len(ResponsibleSet(x, 0)) >= Redundancy[x]
                  /\ Fee[x] <= PayerBalance(d)}}

\* parseResponse: only for a request below the response-mirror height.
ChainResponses(d, b) ==
    LET open == {r \in d.rows : r.status = "pending" /\ ~MirrorEra(r) /\ b <= r.deadline}
        signed == {x \in open \X SignedResponses : Verifies(x[1], x[2].signers, b)}
        answer(r, m, carve) ==
            LET sigs   == VerifiedSigs(r, m.signers, b)
                stored == WithResponse(d, r.id, m.status, sigs, b)
            IN  IF m.status = "no_quorum" THEN stored
                ELSE Finished(stored, r, m.status, sigs, carve, b)
    IN  {answer(x[1], x[2], carve) : x \in signed, carve \in 0 .. 1}

\* One materialization per id, and per origin action.
MaterializedById(d, id) == HasRow(d, id)

MaterializedOnce(d, id) ==
    HasRow(d, id) \/ \E r \in d.rows : r.id \in Foreign /\ OriginAction[r.id] = OriginAction[id]

\* parseRelayRequest of what the federation saw deep enough on the origin.
RelayRequests(d, o, b) ==
    {[d EXCEPT !.rows = @ \union {[id |-> r.id, block |-> b, status |-> "pending",
                                   deadline |-> b + DeadlineBlocks[r.id], resolved |-> 0]}] :
        r \in {x \in o.rows : x.block + Depth <= o.height /\ ~MaterializedOnce(d, x.id)}}

\* parseRelayResponse of what the federation saw deep enough at home.
RelayResponses(o, d, b) ==
    {LET stored  == [o EXCEPT !.responses = @ \union
                        {[id |-> m.id, status |-> m.status, sigs |-> {}, block |-> b]}]
         flipped == WithStatus(stored, m.id,
                        IF m.status = "ok" THEN "fulfilled" ELSE "errored", b)
         settled == Posted(flipped, m.id, IF m.status = "ok" THEN "relay" ELSE "refund", b)
     IN  CalledBack(settled, m.id, m.status, b) :
       m \in {x \in d.responses :
                /\ x.status \in {"ok", "expired"} /\ x.block + Depth <= d.height
                /\ \E r \in o.rows : r.id = x.id /\ r.status = "pending" /\ b <= r.deadline}}

-----------------------------------------------------------------------------
(* The mirror pass, processAttestationResponses.                           *)

\* getMirroredAttestationResponses.  The clock ticks twice a block, so that two
\* effective times can become readable at once.
BlockTime(b) == 2 * b

Readable(id, b) == {m \in mirror : m.id = id /\ m.effective <= BlockTime(b)}

ByEffectiveTime(rows) == SetToSortSeq(rows, LAMBDA x, y : x.effective < y.effective)

HeadOnly(r, b) == <<Head(ByEffectiveTime(Readable(r.id, b)))>>

\* chooseMirrorRows and orderFallThroughCandidates: one row below the
\* zero-confirmation height, all of them above it.
Candidates(r, b) ==
    LET rows == ByEffectiveTime(Readable(r.id, b))
    IN  IF ZeroConf(r) THEN rows ELSE <<Head(rows)>>

\* selectApplicableAttestationResponses: a prefix in (block_index,
\* action_index) order.
Applicable(d, b) ==
    LET due   == {r \in d.rows : /\ r.status = "pending" /\ b <= r.deadline /\ MirrorEra(r)
                                 /\ Readable(r.id, b) # {}}
        items == SetToSortSeq(due, LAMBDA x, y : x.block < y.block)
    IN  SubSeq(items, 1, Min({Len(items), MirrorCap}))

\* applyMirroredResponse: a row that does not verify is inert.
ApplyMirrored(d, r, m, b) ==
    IF ~Verifies(r, m.signers, b) THEN d
    ELSE LET sigs == CanonicalSigners(r, VerifiedSigs(r, m.signers, b), b)
         IN  Finished(WithResponse(d, r.id, m.status, sigs, b), r, m.status, sigs, 0, b)

EveryCandidate(d, r, b) ==
    FoldLeft(LAMBDA acc, m : ApplyMirrored(acc, r, m, b), d, Candidates(r, b))

\* applyMirrorCandidates: the request is read once, so the first row that
\* binds must be the last one tried.
ApplyCandidates(d, r, b) ==
    FoldLeft(LAMBDA acc, m : IF RowOf(acc, r.id).status # "pending" THEN acc
                             ELSE ApplyMirrored(acc, r, m, b), d, Candidates(r, b))

MirrorPass(d, b) ==
    LET items == Applicable(d, b)
        noted == [d EXCEPT !.passes = Append(@, {r.id : r \in Range(items)})]
    IN  FoldLeft(LAMBDA acc, r : ApplyCandidates(acc, r, b), noted, items)

-----------------------------------------------------------------------------
(* The expiry sweep, processAttestationExpirations.                        *)

\* getExpiredAttestationRequests.
Expired(d, b) ==
    LET due   == {r \in d.rows : r.status = "pending" /\ r.deadline < b}
        items == SetToSortSeq(due, LAMBDA x, y :
                     x.deadline < y.deadline \/ (x.deadline = y.deadline /\ x.block < y.block))
    IN  SubSeq(items, 1, Min({Len(items), ExpiryCap}))

\* The set pinned on the v0 row: empty off the home chain.
Pinned(c, id) == IF c = "home" THEN Range(ResponsibleSet(id, 0)) ELSE {}

\* parseExpire.
Expire(c, d, r, b) ==
    LET flipped == WithStatus(d, r.id, "expired", b)
        settled == IF FeeHere(c, r.id) THEN Refunded(flipped, r.id, b) ELSE flipped
        charged == Counted(settled, Pinned(c, r.id), "missed", b)
    IN  IF ForeignOrigin(c, r.id) THEN charged ELSE CalledBack(charged, r.id, "expired", b)

ExpirySweep(c, d, b) == FoldLeft(LAMBDA acc, r : Expire(c, acc, r, b), d, Expired(d, b))

-----------------------------------------------------------------------------
(* Rollback.                                                               *)

ResetExpiredOnly(rows, b) ==
    {IF r.status = "expired" /\ r.resolved >= b
     THEN [r EXCEPT !.status = "pending", !.resolved = 0] ELSE r : r \in rows}

\* resetOrphanedAttestRequests.
ResetOrphaned(rows, b) ==
    {IF r.status \in {"fulfilled", "errored", "expired"} /\ r.resolved >= b
     THEN [r EXCEPT !.status = "pending", !.resolved = 0] ELSE r : r \in rows}

Answered(d, id) == \E m \in d.responses : m.id = id /\ m.status \in {"ok", "expired"}

OverdueByTheFork(d, b) == {r \in d.rows : r.deadline < b /\ ~Answered(d, r.id)}

\* readExpiredRequests: the requests a replay to b-1 would have expired.
ExpiredBefore(d, b) == {r \in d.rows : r.deadline < b - 1 /\ ~Answered(d, r.id)}

\* recomputeAttestationValidatorStats.
RecomputedStats(c, d, b) ==
    LET ok(v)     == {m \in d.responses : m.status = "ok" /\ v \in m.sigs}
        missed(v) == {r \in ExpiredBefore(d, b) : v \in Pinned(c, r.id)}
    IN  [v \in Validators |->
           IF d.stats[v].last < b THEN d.stats[v]
           ELSE [fulfilled |-> Cardinality(ok(v)), missed |-> Cardinality(missed(v)),
                 last |-> Max({0} \union {m.block : m \in ok(v)}
                                  \union {r.deadline + 1 : r \in missed(v)})]]

\* restoreInPlaceFlips and the purges by action_index and block.
RolledBack(c, d, b) ==
    LET before(x) == x.block < b
        kept == [d EXCEPT !.height = b - 1,
                          !.rows = ResetOrphaned({r \in @ : r.block < b}, b),
                          !.responses = {m \in @ : m.block < b},
                          !.ledger = SelectSeq(@, before),
                          !.rewards = {w \in @ : w.block < b},
                          !.callbacks = SelectSeq(@, before),
                          !.passes = SubSeq(@, 1, Min({Len(@), b - 1}))]
    IN  [kept EXCEPT !.stats = RecomputedStats(c, kept, b)]

-----------------------------------------------------------------------------

Init ==
    /\ chain = [c \in Chains |-> EmptyTables]
    /\ mirror = {}
    /\ rollbacks = 0

\* A block of the home chain: at most one ATTEST transaction, the mirror
\* pass, the sweep.
HomeBlock ==
    LET d == chain["home"]
        b == d.height + 1
        txs == {d} \union Requests("home", d, b) \union ChainResponses(d, b)
                   \union RelayRequests(d, chain["origin"], b)
    IN  /\ b <= MaxHeight["home"]
        /\ \E t \in txs :
             chain' = [chain EXCEPT !["home"] =
                         [ExpirySweep("home", MirrorPass(t, b), b) EXCEPT !.height = b]]
        /\ UNCHANGED <<mirror, rollbacks>>

\* A block of the origin chain: no responsible set, no mirror pass.
OriginBlock ==
    LET o == chain["origin"]
        b == o.height + 1
        txs == {o} \union Requests("origin", o, b) \union RelayResponses(o, chain["home"], b)
    IN  /\ b <= MaxHeight["origin"]
        /\ \E t \in txs :
             chain' = [chain EXCEPT !["origin"] = [ExpirySweep("origin", t, b) EXCEPT !.height = b]]
        /\ UNCHANGED <<mirror, rollbacks>>

\* The hubs finalize a response to a pending request, effective at a block the
\* barrier has not let through; a round finalized under two leaders gives two.
HubFinalize ==
    LET now == BlockTime(chain["home"].height)
    IN  \E r \in chain["home"].rows, s \in SignedResponses, e \in now + 1 .. now + 2 :
            /\ r.status = "pending" /\ MirrorEra(r) /\ e <= BlockTime(r.deadline)
            /\ \A m \in mirror : m.id = r.id => m.effective # e
            /\ Cardinality(mirror) < MaxRows
            /\ s.status # "no_quorum"
            /\ mirror' = mirror \union {[id |-> r.id, effective |-> e,
                                         status |-> s.status, signers |-> s.signers]}
            /\ UNCHANGED <<chain, rollbacks>>

\* A reorganisation.  At home it does not reach an answer the federation has
\* already carried back; on the origin it may be deeper than the relay waited.
Rollback(c) ==
    \E b \in 1 .. chain[c].height :
        /\ rollbacks < MaxRollbacks
        /\ c = "home" => \A m \in chain["home"].responses :
                             m.block >= b => ~\E x \in chain["origin"].responses : x.id = m.id
        /\ chain' = [chain EXCEPT ![c] = RolledBack(c, @, b)]
        /\ rollbacks' = rollbacks + 1
        /\ UNCHANGED mirror

Next == HomeBlock \/ OriginBlock \/ HubFinalize \/ \E c \in Chains : Rollback(c)

Spec == Init /\ [][Next]_vars

-----------------------------------------------------------------------------
(* Properties.                                                             *)

Terminal(r) == r.status \in {"fulfilled", "errored", "expired"}

\* The escrow holds exactly the fees of the pending requests, on either chain
\* and after any reorganisation, and the validators' rewards of a request
\* never exceed what it paid into the reward pool (settleRequestFee writes its
\* rows under the settling action, the escrow row belongs to the request).
FeeFollowsStatus ==
    \A c \in Chains, id \in Ids :
        LET d == chain[c]
            owed == MapThenSumSet(LAMBDA w : w.amount, {w \in d.rewards : w.id = id})
        IN  /\ Held(d, id) = IF \E r \in d.rows : /\ r.id = id /\ r.status = "pending"
                                                  /\ FeeHere(c, id)
                             THEN Fee[id] ELSE 0
            /\ owed <= Fee[id] * Postings(d, id, {"reward"})

\* The contract of every ended request has been called back once, with the
\* outcome its row records, and the contract of a pending one has not: no
\* second candidate row, late relay or replayed block calls it again.
OneCallbackPerRequest ==
    \A c \in Chains, id \in Ids :
        LET d == chain[c]
            calls == SelectSeq(d.callbacks, LAMBDA k : k.id = id)
            ended == \E r \in d.rows : r.id = id /\ Terminal(r) /\ ~ForeignOrigin(c, id)
        IN  IF ended THEN /\ Len(calls) = 1
                          /\ calls[1].status = "ok" <=> RowOf(d, id).status = "fulfilled"
            ELSE calls = <<>>

\* A request ends once: by one path its fee leaves the escrow and its contract
\* is called back, and a reorganisation that takes the end back takes both.
RequestsEndOnce == FeeFollowsStatus /\ OneCallbackPerRequest

\* Above the zero-confirmation height a request expires although the mirror
\* held an answer that verified in time only when every such block's mirror
\* pass was full with other requests (the fall-through of attest_mirror.js).
AnswersAreNotDropped ==
    LET d == chain["home"]
    IN  \A r \in d.rows, m \in mirror, b \in 1 .. d.height :
            (/\ r.status = "expired" /\ ZeroConf(r) /\ m.id = r.id
             /\ r.block <= b /\ b <= r.deadline
             /\ m.effective <= BlockTime(b) /\ Verifies(r, m.signers, b))
            => Cardinality(d.passes[b] \ {r.id}) = MirrorCap

\* The validators' counters are what the chain says: one fulfilled per
\* response signed, one missed per expired request of their set.  Rollback
\* recomputes them "matching what a from-genesis replay" gives.
StatsMatchReplay ==
    LET d == chain["home"]
    IN  \A v \in Validators :
            /\ d.stats[v].fulfilled =
                 Cardinality({m \in d.responses : m.status = "ok" /\ v \in m.sigs})
            /\ d.stats[v].missed =
                 Cardinality({r \in d.rows : r.status = "expired" /\ v \in Pinned("home", r.id)})

\* What the relay tells the origin's contract is what happened at home, and
\* no action of the origin chain is served twice there, even when the origin
\* reorganises under a relay and emits the request again with another id.
RelayIsFaithful ==
    LET d == chain["home"]
        relayed == {r \in d.rows : r.id \in Foreign}
    IN  /\ \A r \in chain["origin"].rows :
              r.status \in {"fulfilled", "errored"} =>
                  HasRow(d, r.id) /\ RowOf(d, r.id).status = r.status
        /\ \A r, q \in relayed : OriginAction[r.id] = OriginAction[q.id] => r = q
=============================================================================
