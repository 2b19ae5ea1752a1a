------------------------------- MODULE Bridge -------------------------------
(***************************************************************************)
(* The token bridge.  XBRIDGE v3 locks units of a token in an escrow of    *)
(* its origin chain, XBRIDGE v4 burns units of its copy on the other chain *)
(* (actions/xbridge).  The hubs sign a transfer row for a leg that is deep *)
(* enough and a policy row for every change of the token's lists or sleep; *)
(* at the end of every block the settle pass (consensus/bridge_settle)     *)
(* applies first the policies and then the transfers addressed to its      *)
(* chain: a mint for a lock, a release of escrow for a burn.               *)
(*                                                                         *)
(* No chain sees the other's tables.  What keeps them together is the      *)
(* depth the hubs wait for, one settlement per source leg, and the proof   *)
(* of the escrow against a signed checkpoint of the origin chain.          *)
(***************************************************************************)
EXTENDS Integers, Sequences, FiniteSets, FiniteSetsExt, SequencesExt

CONSTANTS
    Holding,           \* what the user holds of the token on its origin chain
    Amounts,           \* the amounts of a lock or a burn
    Depth,             \* confirmations before the hubs sign, >= the lock's MIN_DEPTH
    Cap,               \* XBRIDGE_MAX_PER_BLOCK
    PolicyCap,         \* XPOLICY_MAX_PER_BLOCK
    GapBound,          \* XPOLICY_SEQ_GAP_BOUND_S, in blocks
    PolicyRows,        \* the contents policy_snapshots may have
    CheckpointHeights, \* the origin heights the federation checkpoints
    MaxHeight,         \* bound: the last block of each chain
    MaxLegs,           \* bound: XBRIDGE actions on each chain
    MaxFaults          \* bound: reorganisations, refused legs, duplicate and short rows

ASSUME BridgeAssumption ==
    /\ Holding \in Nat /\ Amounts \subseteq Nat \ {0}
    /\ Depth \in Nat \ {0} /\ Cap \in Nat \ {0} /\ PolicyCap \in Nat \ {0}
    /\ GapBound \in Nat /\ CheckpointHeights \subseteq Nat
    /\ MaxHeight \in [{"origin", "copy"} -> Nat]
    /\ MaxLegs \in [{"origin", "copy"} -> Nat] /\ MaxFaults \in Nat

VARIABLES
    chain,     \* the tables of the indexer of each chain
    policies,  \* policy_snapshots: rows in the mirror of both chains
    transfers, \* bridge_transfers: rows in the mirror of both chains
    faults     \* faults so far

vars == <<chain, policies, transfers, faults>>

Sum(f(_), S) == MapThenSumSet(f, S)
Chains == {"origin", "copy"}
Other(c) == IF c = "origin" THEN "copy" ELSE "origin"

-----------------------------------------------------------------------------
(* The tables of one chain.  d.actions gives the block of every            *)
(* action_index; every other row carries the action_index that wrote it.   *)
(* d.copy is the token row of the bridged copy, d.lists what the policy    *)
(* legs made of its lists and sleep.                                       *)

EmptyTables ==
    [height |-> 0, actions |-> <<>>, legs |-> {}, settled |-> {}, ledger |-> {},
     copy |-> {}, lists |-> {}]

\* createActionIndex.
Minted(d, b) == [d EXCEPT !.actions = Append(@, b)]

\* processTransactionLedgerChanges under the last action.
Posted(d, who, n) ==
    [d EXCEPT !.ledger = @ \union {[idx |-> Len(d.actions), who |-> who, amount |-> n]}]

BalanceAt(d, who, b) ==
    Sum(LAMBDA r : r.amount, {r \in d.ledger : r.who = who /\ d.actions[r.idx] <= b})
Balance(d, who) == BalanceAt(d, who, d.height + 1)

\* recordBridgeSettlement.
Recorded(d, id, kind, leg) ==
    [d EXCEPT !.settled =
        @ \union {[idx |-> Len(d.actions), id |-> id, kind |-> kind, leg |-> leg]}]

RecordedAs(d, id, kinds) == \E s \in d.settled : s.id = id /\ s.kind \in kinds

\* A row's id: transfer_id names snapshot_block and the source leg.
TransferId(snap, src, leg) == <<snap, src, leg>>
PolicyId(k) == <<k, "policy", 0>>

SourceLegSettled(d, leg) == \E s \in d.settled : s.kind = "transfer" /\ s.leg = leg

PaidUnderItsId(d, r) == RecordedAs(d, r.id, {"transfer"})

\* isSettled and isSourceLegSettled: the row, or its source leg under any
\* other transfer_id, has been paid out here.
PaidOut(d, r) == RecordedAs(d, r.id, {"transfer"}) \/ SourceLegSettled(d, r.leg)

-----------------------------------------------------------------------------
(* XBRIDGE v3 and v4.  Every action has its xbridges row; the hubs read    *)
(* the valid ones.                                                         *)

\* createXbridge.
WithLeg(d, n, valid) ==
    [d EXCEPT !.legs = @ \union {[idx |-> Len(d.actions), amount |-> n, valid |-> valid]}]

Legs(d) == {leg \in d.legs : leg.valid}

\* applyLock: from the source to the keyless escrow address.
ApplyLock(d, b, n) ==
    IF Balance(d, "user") + Holding < n THEN WithLeg(Minted(d, b), n, FALSE)
    ELSE WithLeg(Posted(Posted(Minted(d, b), "user", -n), "escrow", n), n, TRUE)

\* isActionAllowed on the copy: the policy in force has it awake.
Asleep(d) ==
    d.lists # {} /\ policies[(CHOOSE r \in d.lists : \A q \in d.lists : q.idx <= r.idx).row].sleep

\* applyBurn: a debit that nothing is credited for.
ApplyBurn(d, b, n) ==
    IF d.copy = {} \/ Asleep(d) \/ Balance(d, "user") < n THEN WithLeg(Minted(d, b), n, FALSE)
    ELSE WithLeg(Posted(Minted(d, b), "user", -n), n, TRUE)

UserAction(c, d, b, n) ==
    IF n = 0 THEN d
    ELSE IF c = "origin" THEN ApplyLock(d, b, n) ELSE ApplyBurn(d, b, n)

-----------------------------------------------------------------------------
(* The due sets.                                                           *)

\* getFinalizedBridgeTransfersForChain, in (snapshot_block, transfer_id) order.
Finalized(c, b) ==
    SetToSortSeq({r \in transfers : r.src = Other(c) /\ r.admit <= b},
                 LAMBDA x, y : x.snap < y.snap \/ (x.snap = y.snap /\ x.leg < y.leg))

\* unsettledBridgeTransfers.
UnsettledTransfers(c, d, b) ==
    SelectSeq(Finalized(c, b), LAMBDA r : ~PaidOut(d, r))

\* getPolicySeqState.
SeqState(d) ==
    LET seqs(kind) == {policies[s.id[1]].seq : s \in {x \in d.settled : x.kind = kind}}
    IN  [applied |-> Max({0} \union seqs("policy")), filled |-> seqs("refused")]

GapBefore(st, seq) ==
    Cardinality({s \in st.filled : st.applied < s /\ s < seq}) < seq - st.applied - 1

AppliesWhenever(st, p, b) ==
    IF ~GapBefore(st, p.seq) \/ b >= p.admit + GapBound THEN "apply" ELSE "hold"

HoldsForever(st, p, b) ==
    IF p.seq <= st.applied THEN "stale" ELSE IF ~GapBefore(st, p.seq) THEN "apply" ELSE "hold"

\* seqVerdict: a block's time is its height.
SeqVerdict(st, p, b) ==
    IF p.seq <= st.applied THEN "stale"
    ELSE IF ~GapBefore(st, p.seq) \/ b >= p.admit + GapBound THEN "apply" ELSE "hold"

\* selectArmed: a row selected with no gap before it stands as applied for
\* the rows after it.
SelectArmed(d, b, rows) ==
    LET step(acc, k) ==
            IF SeqVerdict(acc.st, policies[k], b) # "apply" THEN acc
            ELSE [st |-> IF GapBefore(acc.st, policies[k].seq) THEN acc.st
                         ELSE [acc.st EXCEPT !.applied = policies[k].seq],
                  out |-> Append(acc.out, k)]
    IN  IF d.copy = {} /\ Finalized("copy", b) = <<>> THEN <<>>
        ELSE FoldLeft(step, [st |-> SeqState(d), out |-> <<>>], rows).out

\* duePolicySnapshots, in (snapshot_block, policy_seq) order; a row of this
\* chain's own token is left to the refusal of the apply.
DuePolicies(c, d, b) ==
    LET due == SetToSortSeq(
                 {k \in DOMAIN policies : /\ policies[k].admit <= b
                                          /\ ~RecordedAs(d, PolicyId(k), {"policy", "refused"})},
                 LAMBDA x, y : \/ policies[x].snap < policies[y].snap
                               \/ /\ policies[x].snap = policies[y].snap
                                  /\ \/ policies[x].seq < policies[y].seq
                                     \/ policies[x].seq = policies[y].seq /\ x < y)
        rows == IF c = "origin" THEN due ELSE SelectArmed(d, b, due)
    IN  SubSeq(rows, 1, IF Len(rows) < PolicyCap THEN Len(rows) ELSE PolicyCap)
-----------------------------------------------------------------------------
(* Policies.  A row is good when its membership hashes to policy_hash and  *)
(* its signatures reach the quorum.  How its LIST, ISSUE and SLEEP legs    *)
(* fare on the copy is "all", "none" or "some" of them valid.              *)

\* recordPolicyRefusal: under the last leg that landed, or under an action
\* of its own.
PolicyRefused(d, b, k) == Recorded(Minted(d, b), PolicyId(k), "refused", 0)

\* injectBridgedToken: the token row of the copy, unless it is there.
WithCopy(d, b) ==
    IF d.copy # {} THEN d
    ELSE LET e == Minted(d, b) IN [e EXCEPT !.copy = {[idx |-> Len(e.actions)]}]

\* injectPolicyLegs, recordApplied and legFailure.
PolicyLegs(d, b, k, landed) ==
    LET e == Minted(d, b)
    IN  CASE landed = "all"  -> Recorded([e EXCEPT !.lists = @ \union {[idx |-> Len(e.actions), row |-> k]}],
                                         PolicyId(k), "policy", 0)
          [] landed = "none" -> d
          [] landed = "some" -> Recorded(Recorded(e, PolicyId(k), "policy", 0),
                                         PolicyId(k), "refused", 0)

\* applyPolicySnapshot and what the pass makes of a terminal refusal.
ApplyPolicy(c, d, b, k, landed) ==
    LET verdict == SeqVerdict(SeqState(d), policies[k], b)
    IN  IF c = "origin" \/ verdict = "stale" THEN PolicyRefused(d, b, k)
        ELSE IF verdict = "hold" THEN d
        ELSE IF ~policies[k].good THEN PolicyRefused(d, b, k)
        ELSE PolicyLegs(WithCopy(d, b), b, k, landed)

-----------------------------------------------------------------------------
(* Transfers.                                                              *)

\* The heights whose checkpoint is signed: they are deep on the origin chain.
Signed == {h \in CheckpointHeights : h + Depth <= chain["origin"].height + 1}

AnyCheckpoint(r, held) == held

\* selectCheckpoint: the first one at or after the row's snapshot_block, of
\* those a node holds; none stalls the block.
SelectCheckpoint(r, held) ==
    LET from == {h \in held : h >= r.snap} IN IF from = {} THEN {} ELSE {Min(from)}

\* verifyEscrowAgainstCheckpoint: the proven escrow covers the amount.
EscrowProven(r, h) == BalanceAt(chain["origin"], "escrow", h) >= r.amount

\* mintSettleAction: the effect of the leg, under an action of its own.
MintSettleAction(c, d, b, r) ==
    LET e == Minted(d, b)
        paid == Posted(e, "user", r.amount)
    IN  Recorded(IF c = "origin" THEN Posted(paid, "escrow", -r.amount) ELSE paid,
                 r.id, "transfer", r.leg)

EveryRefusalHolds == {}

\* The refusals that no later block changes and that leave no record.
TerminalRefusals == {"quorum", "escrow proof", "escrow short"}

\* guardQuorumAndEscrow: the signatures, then the proof of a lock's escrow.
GuardQuorumAndEscrow(c, r) ==
    LET checkpoint == SelectCheckpoint(r, Signed)
    IN  IF ~r.good THEN "quorum"
        ELSE IF c = "origin" THEN "none"
        ELSE IF checkpoint = {} THEN "stall"
        ELSE IF \E h \in checkpoint : ~EscrowProven(r, h) THEN "escrow proof"
        ELSE "none"

\* applyBridgeTransfer: the verdict, in the order of its guards.
TransferVerdict(c, d, r) ==
    LET guard == GuardQuorumAndEscrow(c, r)
    IN  IF PaidOut(d, r) THEN "paid"
        ELSE IF guard # "none" THEN guard
        ELSE IF c = "origin" /\ Balance(d, "escrow") < r.amount THEN "escrow short"
        ELSE IF c = "copy" /\ ~\E s \in d.settled : s.kind = "policy" THEN "no policy"
        ELSE "apply"

\* The pass over the due transfers: an applied row and a refusal that may
\* pass take one of the Cap slots.
TransferPass(c, s, b) ==
    LET step(acc, r) ==
            LET verdict == TransferVerdict(c, acc.db, r)
            IN  IF acc.slots >= Cap \/ acc.stalled THEN acc
                ELSE [db |-> IF verdict # "apply" THEN acc.db
                             ELSE MintSettleAction(c, IF c = "copy" THEN WithCopy(acc.db, b) ELSE acc.db, b, r),
                      slots |-> IF verdict \in TerminalRefusals THEN acc.slots ELSE acc.slots + 1,
                      stalled |-> verdict = "stall"]
    IN  FoldLeft(step, [db |-> s, slots |-> 0, stalled |-> FALSE], UnsettledTransfers(c, s, b))

\* One block: its transaction, then processBridgeSettlePass.
Block(c, d, b, n, landed) ==
    LET acted == UserAction(c, d, b, n)
        ruled == FoldLeft(LAMBDA e, k : ApplyPolicy(c, e, b, k, landed), acted,
                          DuePolicies(c, acted, b))
        paid == TransferPass(c, ruled, b)
    IN  [db |-> [paid.db EXCEPT !.height = b], stalled |-> paid.stalled]

-----------------------------------------------------------------------------
(* The two chains and the hubs.                                            *)

Init ==
    /\ chain = [c \in Chains |-> EmptyTables]
    /\ policies \in PolicyRows
    /\ transfers = {} /\ faults = 0

\* A block whose pass lacks a proof is not committed: it is tried again.
CommitBlock(c) ==
    /\ chain[c].height < MaxHeight[c]
    /\ \E n \in {0} \union (IF Cardinality(chain[c].legs) < MaxLegs[c] THEN Amounts ELSE {}),
          landed \in {"all"} \union (IF faults < MaxFaults THEN {"none", "some"} ELSE {}) :
         LET s == Block(c, chain[c], chain[c].height + 1, n, landed)
         IN  /\ ~s.stalled
             /\ chain' = [chain EXCEPT ![c] = s.db]
             /\ faults' = IF landed = "all" THEN faults ELSE faults + 1
    /\ UNCHANGED <<policies, transfers>>

\* The row the hubs sign for a leg.
Row(c, leg, good) ==
    LET snap == chain["origin"].height
    IN  [id |-> TransferId(snap, c, leg.idx), src |-> c, leg |-> leg.idx, amount |-> leg.amount,
         snap |-> snap, admit |-> chain[Other(c)].height + 1, good |-> good]

RowsOf(c, leg) == {r \in transfers : r.src = c /\ r.leg = leg.idx}

\* The legs with the confirmations the hubs wait for.
DeepLegs(c) ==
    {leg \in Legs(chain[c]) : chain[c].actions[leg.idx] + Depth <= chain[c].height + 1}

\* getPendingBridgeTransfers polled by the hubs, which sign the row and push
\* it to the mirror of both chains before it is due.
Relay(c) ==
    /\ \E leg \in DeepLegs(c) :
         /\ RowsOf(c, leg) = {}
         /\ transfers' = transfers \union {Row(c, leg, TRUE)}
    /\ UNCHANGED <<chain, policies, faults>>

\* Two hubs that poll before either row is mirrored finalize two rows; a row
\* may also be short of signatures at the chain that settles it.
RelayFault(c) ==
    /\ faults < MaxFaults /\ faults' = faults + 1
    /\ \E leg \in DeepLegs(c), good \in BOOLEAN :
         /\ good => RowsOf(c, leg) # {}
         /\ \A r \in RowsOf(c, leg) : r.id # Row(c, leg, good).id
         /\ transfers' = transfers \union {Row(c, leg, good)}
    /\ UNCHANGED <<chain, policies>>

LastIndex(d, b) == Cardinality({i \in DOMAIN d.actions : d.actions[i] <= b})

\* A rollback deletes the rows of the actions above the fork.
RolledBack(d, b) ==
    LET kept(rows) == {r \in rows : r.idx <= LastIndex(d, b)}
    IN  [height |-> b, actions |-> SubSeq(d.actions, 1, LastIndex(d, b)), legs |-> kept(d.legs),
         settled |-> kept(d.settled), ledger |-> kept(d.ledger), copy |-> kept(d.copy),
         lists |-> kept(d.lists)]

\* purgeCrossChainMirrors and the retraction the rollback sends to the hubs:
\* the rows of the orphaned legs leave the mirror of both chains.  What the
\* margin of a row is for is assumed: the fork is above every signed
\* checkpoint and above every leg the other chain has settled.
Rollback(c) ==
    /\ faults < MaxFaults /\ faults' = faults + 1
    /\ \E b \in 0 .. chain[c].height - 1 :
         LET last == LastIndex(chain[c], b)
         IN  /\ c = "origin" => \A h \in Signed : h <= b
             /\ \A s \in chain[Other(c)].settled : s.kind = "transfer" => s.leg <= last
             /\ chain' = [chain EXCEPT ![c] = RolledBack(@, b)]
             /\ transfers' = {r \in transfers : r.src = c => r.leg <= last}
    /\ UNCHANGED policies

Next == \E c \in Chains : CommitBlock(c) \/ Relay(c) \/ RelayFault(c) \/ Rollback(c)

Spec == Init /\ [][Next]_vars

-----------------------------------------------------------------------------
(* Properties                                                              *)

InFlight(c) ==
    Sum(LAMBDA leg : leg.amount,
        {leg \in Legs(chain[c]) : ~SourceLegSettled(chain[Other(c)], leg.idx)})

\* Every unit of the copy is backed: the escrow of the origin chain is the
\* supply of the copy plus what is under way in either direction, whatever
\* rows were signed twice, retracted or short, and whichever chain reorganised.
BridgedIsBacked ==
    Balance(chain["origin"], "escrow") =
        Balance(chain["copy"], "user") + InFlight("origin") + InFlight("copy")

\* Nodes that hold different checkpoints reach one verdict on a transfer:
\* each of them proves the escrow of a lock that is still to be minted
\* ("both prove the same escrow balance, so both verdicts are ok:true").
ProofsAgree ==
    \A r \in transfers :
        (r.src = "origin" /\ ~SourceLegSettled(chain["copy"], r.leg))
        => \A held \in SUBSET Signed : \A h \in SelectCheckpoint(r, held) : EscrowProven(r, h)

\* The lists and the sleep of the copy only move forward in policy_seq:
\* no snapshot that comes late is materialized over a newer one.
PoliciesNeverRegress ==
    \A x, y \in chain["copy"].lists :
        x.idx < y.idx => policies[x.row].seq < policies[y.row].seq

\* A predecessor that is missing or refused does not freeze the policy of a
\* token: a good snapshot is applied, or overtaken, at the latest GapBound
\* after it is due and the copy or a transfer that makes one is there, plus
\* the blocks the cap and the refused legs take.
PolicyNeverFrozen ==
    \A k \in DOMAIN policies :
        LET d == chain["copy"]
            wanted == {d.actions[x.idx] : x \in d.copy}
                      \union {r.admit : r \in {x \in transfers : x.src = "origin"}}
        IN  (/\ policies[k].good /\ wanted # {}
             /\ d.height >= Max({policies[k].admit, Min(wanted)}) + GapBound + Len(policies) - 1 + faults)
            => SeqState(d).applied >= policies[k].seq

\* The snapshots of a policy take effect in their order and none holds the
\* later ones back for ever (the pending_gap rule of the apply gate).
PoliciesAreOrdered == PoliciesNeverRegress /\ PolicyNeverFrozen

\* Transfers flow: a properly signed row whose leg stands is settled within
\* one block for every such row of its chain, from when it is due and the
\* copy has a policy; a row that can never apply takes no one's place.
TransfersFlow ==
    \A r \in {x \in transfers : x.good} :
        LET d == chain[Other(r.src)]
            ruled == {d.actions[s.idx] : s \in {x \in d.settled : x.kind = "policy"}}
            queue == {x \in transfers : x.good /\ x.src = r.src}
            since == Max({r.admit} \union (IF r.src = "copy" \/ ruled = {} THEN {} ELSE {Min(ruled)}))
        IN  (/\ r.src = "origin" => ruled # {}
             /\ d.height >= since + Cardinality(queue))
            => SourceLegSettled(d, r.leg)

=============================================================================
