------------------------------- MODULE Staking -------------------------------
(***************************************************************************)
(* Capability staking on BTC: STAKE v1 and v2, UNSTAKE v0, DELEGATE v0 and *)
(* v2, SLASH, the eviction of an absent source when a roll call closes,    *)
(* the release of elapsed cooldowns at the end of a block, and what a      *)
(* reorganisation does to all of their rows (actions/stake, unstake,       *)
(* delegate, slash, consensus/rollcall_close.js, db/stakes, rollback).     *)
(*                                                                         *)
(* The whole database is one record of tables, so that the state after a   *)
(* rollback can be compared with the state the same chain prefix had       *)
(* produced.  A table is a set of rows; a row carries the action_index it  *)
(* was written under.  Amounts are whole units of the staking token.       *)
(***************************************************************************)
EXTENDS Integers, Sequences, FiniteSets, FiniteSetsExt, SequencesExt

CONSTANTS
    Sources,        \* index_addresses ids of the stakers
    Keys,           \* signing pubkeys, in their byte order
    Capabilities,   \* the capabilities a proof can be about
    Amounts,        \* the AMOUNTs users submit
    Balance,        \* the spendable balance of each source before the first block
    Delay,          \* ACTIVATION_DELAY_BLOCKS
    Cooldown,       \* COOLDOWN_BLOCKS
    MinStake,       \* MIN_STAKE of the capabilities
    BountyFloor,    \* SLASH.BOUNTY_FLOOR, also its cap (BOUNTY_BPS 0)
    Treasury,       \* SLASH.TREASURY_ADDRESS, an address no source has
    ReuseFrom,      \* activation height of STAKE_KEY_REUSE
    MintsFrom,      \* activation height of UNSTAKE_COOLDOWN_COMPLETION_ACTION
    MaxHeight,      \* bound: the last block
    MaxActions,     \* bound: no user action once the chain has this many actions
    MaxEvictions    \* bound: roll-call evictions on the chain

ASSUME StakingAssumption ==
    /\ Sources \subseteq Nat \ {0} /\ Keys \subseteq Nat \ {0}
    /\ Amounts \subseteq Nat \ {0} /\ Balance \in Nat
    /\ Delay \in Nat \ {0} /\ Cooldown \in Nat \ {0} /\ MinStake \in Nat \ {0}
    /\ BountyFloor \in Nat /\ Treasury \notin Sources
    /\ ReuseFrom \in Nat /\ MintsFrom \in Nat
    /\ MaxHeight \in Nat /\ MaxActions \in Nat /\ MaxEvictions \in Nat

VARIABLES
    db,      \* the tables, with the writes of the block under way
    height,  \* the last committed block
    acted,   \* the block under way has applied an action
    past     \* history: the tables as each block of the chain committed them

vars == <<db, height, acted, past>>

Null == 0              \* a NULL deactivation_block
block == height + 1    \* BLOCK_INDEX of the block under way

Total(rows) == MapThenSumSet(LAMBDA r : r.amount, rows)

-----------------------------------------------------------------------------
(* The ledger.                                                             *)

LedgerOf(d, leg, a) == Total({l \in d.ledger : l.leg = leg /\ l.address = a})
Spendable(d, a) == Balance + LedgerOf(d, "credit", a) - LedgerOf(d, "debit", a)
Escrowed(d, a)  == LedgerOf(d, "escrow", a)

Entry(i, leg, a, n) == [idx |-> i, leg |-> leg, address |-> a, amount |-> n]

-----------------------------------------------------------------------------
(* Reads of the stake tables.                                              *)

Active(r, h) == r.activation <= h /\ (r.deactivation = Null \/ r.deactivation > h)

StakesOfKey(d, k) == {s \in d.stakes : s.key = k}

\* The modes of getActiveStakeByPubkey.
ActiveStake(d, k, h)        == {s \in StakesOfKey(d, k) : Active(s, h)}
UndeactivatedStake(d, k, h) ==
    {s \in StakesOfKey(d, k) : s.activation <= h /\ s.deactivation = Null}
ReuseBlockingStake(d, k, h) ==
    {s \in StakesOfKey(d, k) : s.deactivation = Null \/ s.deactivation + Cooldown > h}

OwnerOf(rows) == Min({s.source : s \in rows})

\* A delegation holds its key from the moment it is sent until it is deactivated.
HeldByDelegation(d, k, h) ==
    \E g \in d.delegations : g.key = k /\ (g.deactivation = Null \/ g.deactivation > h)

SlashedAt(d, k, h) == \E e \in d.events : e.key = k /\ e.block <= h

\* The current amount, whatever was burned since h.
StakeAmountAt_Current(d, s, h) == s.amount

\* The stake row's amount as it stood at height h.
StakeAmountAt(d, s, h) ==
    s.amount + Total({x \in d.debits : x.table = "stakes" /\ x.row = s.idx /\ x.block > h})

TotalAt(d, rows, h) == MapThenSumSet(LAMBDA s : StakeAmountAt(d, s, h), rows)

Revoked(d, s, h) ==
    \E r \in d.revocations : /\ r.source = s.source /\ r.key = s.key
                             /\ r.deactivation <= h /\ r.idx > s.idx

SourceStake(d, a, h) == TotalAt(d, {s \in d.stakes : s.source = a /\ Active(s, h)}, h)

KeyStake(d, k, h) ==
    TotalAt(d, {s \in ActiveStake(d, k, h) : ~Revoked(d, s, h)}, h)

\* The totals with which a key enters the effective signer set.
KeyTotals(d, k, h) ==
    {t \in {KeyStake(d, k, h)} \cup
           {SourceStake(d, g.source, h) : g \in {g \in d.delegations : g.key = k /\ Active(g, h)}}
        : t >= MinStake}

\* getValidatorsByCapability: each key with its largest total.
Validators(d, h) ==
    {[key |-> k, total |-> Max(KeyTotals(d, k, h))] :
        k \in {k \in Keys : ~SlashedAt(d, k, h) /\ KeyTotals(d, k, h) # {}}}

ValidatorKeys(d, h) == {v.key : v \in Validators(d, h)}

\* The membership test without the bar on slashed keys.
HasCapability_Slashed(d, k, h) ==
    \/ KeyStake(d, k, h) >= MinStake
    \/ \E g \in d.delegations : /\ g.key = k /\ Active(g, h)
                               /\ SourceStake(d, g.source, h) >= MinStake

\* hasCapability: the membership test of one key, over the sources that delegate to it together.
HasCapability(d, k, h) ==
    LET delegating == {g.source : g \in {g \in d.delegations : g.key = k /\ Active(g, h)}}
    IN  /\ ~SlashedAt(d, k, h)
        /\ \/ KeyStake(d, k, h) >= MinStake
           \/ TotalAt(d, {s \in d.stakes : s.source \in delegating /\ Active(s, h)}, h) >= MinStake

-----------------------------------------------------------------------------
(* Writes.                                                                 *)

NextIndex(d) == Len(d.actions) + 1

AddAction(d) == [d EXCEPT !.actions = Append(@, block)]

AddStake(d, a, k, n) ==
    [d EXCEPT !.stakes = @ \cup {[idx |-> NextIndex(d), source |-> a, key |-> k, amount |-> n,
                                  block |-> block, activation |-> block + Delay,
                                  deactivation |-> Null]}]

\* A withdrawal whose cooldown ends with its own block.
AddUnstake_NoCooldown(d, i, a, k, n) ==
    [d EXCEPT !.unstakes = @ \cup {[idx |-> i, source |-> a, key |-> k, amount |-> n,
                                    block |-> block, cooldownEnd |-> block,
                                    status |-> "valid"]}]

AddUnstake(d, i, a, k, n) ==
    [d EXCEPT !.unstakes = @ \cup {[idx |-> i, source |-> a, key |-> k, amount |-> n,
                                    block |-> block, cooldownEnd |-> block + Cooldown,
                                    status |-> "valid"]}]

\* Deactivate the rows a delay from now.
Deactivate(table, rows) ==
    (table \ rows) \cup {[r EXCEPT !.deactivation = block + Delay] : r \in rows}

\* One action of the block under way.
Acts(new) ==
    /\ block <= MaxHeight /\ Len(db.actions) < MaxActions
    /\ db' = AddAction(new)
    /\ acted' = TRUE
    /\ UNCHANGED <<height, past>>

\* settleCapabilityStake: the row, and the bond moved from the balance into escrow.
SettleStake(a, k, n) ==
    Acts([AddStake(db, a, k, n) EXCEPT
             !.ledger = @ \cup {Entry(NextIndex(db), "debit", a, n),
                                Entry(NextIndex(db), "escrow", a, n)}])


\* validateFreeKey.
KeyIsFree(k) ==
    /\ IF block >= ReuseFrom THEN ReuseBlockingStake(db, k, block) = {} ELSE StakesOfKey(db, k) = {}
    /\ ~HeldByDelegation(db, k, block)

\* STAKE v1: bond a free key.
Stake(a, k, n) ==
    /\ KeyIsFree(k)
    /\ Spendable(db, a) >= n
    /\ SettleStake(a, k, n)

\* STAKE v2: add to a bond that is in force, also one already being withdrawn.
TopUp(a, k, n) ==
    /\ ActiveStake(db, k, block) # {}
    /\ OwnerOf(ActiveStake(db, k, block)) = a
    /\ Spendable(db, a) >= n
    /\ SettleStake(a, k, n)

\* setStakeDeactivationByPubkey.
SweptRows(k) == UndeactivatedStake(db, k, block)

\* UNSTAKE v0: all of the bond in force, or part of it with the rest bonded again.
Unstake(a, k, n) ==
    LET rows  == UndeactivatedStake(db, k, block)
        total == Total(rows)
        swept == [AddUnstake(db, NextIndex(db), a, k, n) EXCEPT
                     !.stakes = Deactivate(@, SweptRows(k))]
    IN  /\ rows # {} /\ OwnerOf(rows) = a
        /\ n = total \/ (n \in Amounts /\ n < total)
        /\ Acts(IF n = total THEN swept ELSE AddStake(swept, a, k, total - n))

\* DELEGATE v0: a second key signs for the source's bond.
Delegate(a, k) ==
    /\ \E s \in db.stakes : s.source = a /\ Active(s, block)
    /\ StakesOfKey(db, k) = {}
    /\ ~HeldByDelegation(db, k, block)
    /\ Acts([db EXCEPT !.delegations = @ \cup
                 {[idx |-> NextIndex(db), source |-> a, key |-> k,
                   activation |-> block + Delay, deactivation |-> Null]}])

\* resolveRevokeTarget, recordCapabilityRevoke: a delegation in force is stamped ...
RevokeDelegation(a, k) ==
    /\ \E g \in db.delegations : g.source = a /\ g.key = k /\ Active(g, block)
    /\ Acts([db EXCEPT !.delegations = Deactivate(@,
                 {g \in @ : g.source = a /\ g.key = k /\ g.deactivation = Null})])

\* ... and without one the source's own stake key is revoked, once per stake row.
RevokeStakeKey(a, k) ==
    LET rows == {s \in ActiveStake(db, k, block) : s.source = a}
    IN  /\ ~\E g \in db.delegations : g.source = a /\ g.key = k /\ Active(g, block)
        /\ rows # {}
        /\ ~\E r \in db.revocations :
              r.source = a /\ r.key = k /\ r.idx > Max({s.idx : s \in rows})
        /\ Acts([db EXCEPT !.revocations = @ \cup
                     {[idx |-> NextIndex(db), source |-> a, key |-> k,
                       deactivation |-> block + Delay]}])

-----------------------------------------------------------------------------
(* SLASH.                                                                  *)

\* getStakeSourceForDelegatedPubkey: whose delegation was in force at h, Null for nobody's.
DelegatorAt(d, k, h) ==
    LET live == {g \in d.delegations : g.key = k /\ Active(g, h)}
    IN  IF live = {} THEN Null
        ELSE (CHOOSE g \in live : \A x \in live : x.idx <= g.idx).source

\* The rows of the bond of key k, or of the whole source that had delegated to it.
InBond(r, k, owner) == IF owner = Null THEN r.key = k ELSE r.source = owner

\* Pass 1 with the inverted window test: it also burns the copy UNSTAKE left behind.
BurnableStakes_InWindow(d, k, owner) ==
    {s \in d.stakes : InBond(s, k, owner) /\ s.amount > 0
                      /\ (s.deactivation = Null \/ s.deactivation > block)}

\* burnActiveStakeRows, burnCooldownUnstakeRows.
BurnableStakes(d, k, owner) ==
    {s \in d.stakes : InBond(s, k, owner) /\ s.amount > 0 /\ s.deactivation = Null}
BurnableUnstakes(d, k, owner) ==
    {u \in d.unstakes : InBond(u, k, owner) /\ u.amount > 0 /\ u.status = "valid"}

Zeroed(table, rows) == (table \ rows) \cup {[r EXCEPT !.amount = 0] : r \in rows}

DebitRows(table, rows) ==
    {[idx |-> NextIndex(db), table |-> table, row |-> r.idx, amount |-> r.amount,
      block |-> block] : r \in rows}

\* The bounty without its final clamp to the burned bond.
BountyOf_Unclamped(burned) == BountyFloor

\* bountyTreasurySplit with a floor only.
BountyOf(burned) == Min({BountyFloor, burned})

\* A valid proof that key k signed twice under capability c in a slot resolved at height at:
\* the whole bond burns, the submitter takes a bounty and the treasury the rest.
Slash(submitter, k, c, at) ==
    LET owner    == DelegatorAt(db, k, at)
        stakes   == BurnableStakes(db, k, owner)
        unstakes == BurnableUnstakes(db, k, owner)
        burned   == Total(stakes) + Total(unstakes)
        bounty   == BountyOf(burned)
        i        == NextIndex(db)
        releases == {Entry(i, "escrow", a, 0 - (Total({s \in stakes : s.source = a})
                                                + Total({u \in unstakes : u.source = a}))) :
                        a \in {r.source : r \in stakes \cup unstakes}}
        payouts  == {Entry(i, "credit", submitter, bounty),
                     Entry(i, "credit", Treasury, burned - bounty)}
    IN  /\ k \in ValidatorKeys(db, at)
        /\ ~\E e \in db.events : e.key = k /\ e.capability = c
        /\ Acts([db EXCEPT
                    !.stakes   = Zeroed(@, stakes),
                    !.unstakes = Zeroed(@, unstakes),
                    !.debits   = @ \cup DebitRows("stakes", stakes)
                                   \cup DebitRows("unstakes", unstakes),
                    !.ledger   = @ \cup releases \cup {p \in payouts : p.amount > 0},
                    !.events   = @ \cup {[idx |-> i, key |-> k, capability |-> c, at |-> at,
                                          block |-> block]}])

-----------------------------------------------------------------------------
(* The end of a block.                                                     *)

\* evictSource for every source of the set: one UNSTAKE per (source, key) with a bond,
\* pending rows included, and all delegations of a source that had any row left.
Evict(d, evicted) ==
    LET rows(a)   == {s \in d.stakes : s.source = a /\ s.deactivation = Null}
        bonds     == {p \in evicted \X Keys : Total({s \in rows(p[1]) : s.key = p[2]}) > 0}
        before(p) == {q \in bonds : q[1] < p[1] \/ (q[1] = p[1] /\ q[2] <= p[2])}
        swept     == {s \in d.stakes : s.deactivation = Null /\ <<s.source, s.key>> \in bonds}
        left      == {a \in evicted : rows(a) # {}}
    IN  [d EXCEPT
            !.actions     = @ \o [n \in 1 .. Cardinality(bonds) |-> block],
            !.unstakes    = @ \cup
                {[idx |-> Len(d.actions) + Cardinality(before(p)), source |-> p[1], key |-> p[2],
                  amount |-> Total({s \in rows(p[1]) : s.key = p[2]}), block |-> block,
                  cooldownEnd |-> block + Cooldown, status |-> "valid"] : p \in bonds},
            !.stakes      = Deactivate(@, swept),
            !.delegations = Deactivate(@, {g \in @ : g.source \in left /\ g.deactivation = Null}),
            !.absences    = @ \cup {[source |-> a, block |-> block] : a \in evicted}]

\* sweepCompletedCooldowns: a fully slashed row is left alone.
Elapsed(d) ==
    {u \in d.unstakes : u.status = "valid" /\ u.amount > 0 /\ u.cooldownEnd <= block}

\* processCooldownCompletions: refund every elapsed cooldown that still holds something.
ReleaseCooldowns(d) ==
    LET elapsed  == Elapsed(d)
        index(u) == IF block >= MintsFrom
                    THEN Len(d.actions) + Cardinality({v \in elapsed : v.idx <= u.idx})
                    ELSE u.idx
    IN  [d EXCEPT
            !.actions  = IF block >= MintsFrom
                         THEN @ \o [n \in 1 .. Cardinality(elapsed) |-> block] ELSE @,
            !.unstakes = (@ \ elapsed) \cup {[u EXCEPT !.status = "completed"] : u \in elapsed},
            !.ledger   = @ \cup {Entry(index(u), "credit", u.source, u.amount) : u \in elapsed}
                           \cup {Entry(index(u), "escrow", u.source, 0 - u.amount) : u \in elapsed}]

\* The sources a roll call can find absent: they were responsible at an earlier height.
Responsible ==
    {a \in Sources : \E h \in 1 .. height : SourceStake(db, a, h) >= MinStake}

\* The passes that end a block, and its commit.
EndBlock ==
    /\ block <= MaxHeight
    /\ \E evicted \in SUBSET Responsible :
          /\ Cardinality(db.absences) + Cardinality(evicted) <= MaxEvictions
          /\ db' = ReleaseCooldowns(Evict(db, evicted))
    /\ past' = Append(past, db')
    /\ height' = block
    /\ acted' = FALSE

-----------------------------------------------------------------------------
(* Rollback.                                                               *)

\* reverseMaturedRefunds: what surviving unstakes released in the orphaned blocks.
ReverseMaturities(d, b) ==
    LET matured == {u \in d.unstakes : /\ u.status = "completed"
                                       /\ u.cooldownEnd >= b /\ u.block < b}
    IN  [d EXCEPT
            !.ledger   = {l \in @ : ~\E u \in matured :
                             /\ l.idx = u.idx /\ l.address = u.source
                             /\ l.leg = "credit" \/ (l.leg = "escrow" /\ l.amount < 0)},
            !.unstakes = (@ \ matured) \cup {[u EXCEPT !.status = "valid"] : u \in matured}]

\* The blanket reset the comment on clearOrphanedDeactivations warns of.
ClearDeactivations_Blanket(d, b) ==
    LET reset(r) == [r EXCEPT !.deactivation = Null]
    IN  [d EXCEPT
            !.stakes      = {IF s.deactivation >= b THEN reset(s) ELSE s : s \in @},
            !.delegations = {IF g.deactivation >= b THEN reset(g) ELSE g : g \in @}]

\* clearOrphanedDeactivations and repairRollcallEvictions: stakes by the exact stamp of an
\* orphaned UNSTAKE of the same key, delegations by the smallest stamp an orphan can write.
ClearDeactivations(d, b) ==
    LET orphaned(s) == /\ s.deactivation # Null
                       /\ \E u \in d.unstakes : /\ u.key = s.key /\ u.block >= b
                                                /\ s.deactivation = u.block + Delay
        repaired(g) == \/ g.deactivation >= b + Delay
                       \/ /\ g.deactivation # Null
                          /\ \E e \in d.absences : /\ e.source = g.source /\ e.block >= b
                                                   /\ g.deactivation = e.block + Delay
        reset(r)    == [r EXCEPT !.deactivation = Null]
    IN  [d EXCEPT
            !.stakes      = {IF orphaned(s) THEN reset(s) ELSE s : s \in @},
            !.delegations = {IF repaired(g) THEN reset(g) ELSE g : g \in @}]

\* restoreCapabilitySlashAmounts: the amount before the earliest orphaned debit of the row.
RestoreSlashed(d, b) ==
    LET debits(table, r) == {x \in d.debits : x.table = table /\ x.row = r.idx /\ x.block >= b}
        restored(table, r) ==
            IF debits(table, r) = {} THEN r
            ELSE [r EXCEPT !.amount = (CHOOSE x \in debits(table, r) :
                                          \A y \in debits(table, r) : x.idx <= y.idx).amount]
    IN  [d EXCEPT !.stakes   = {restored("stakes", s) : s \in @},
                  !.unstakes = {restored("unstakes", u) : u \in @}]

\* A purge that misses a table.
Purge_KeepsRevocations(d, b) ==
    LET kept    == Cardinality({i \in 1 .. Len(d.actions) : d.actions[i] < b})
        by(rows) == {r \in rows : r.idx <= kept}
    IN  [d EXCEPT !.actions = SubSeq(@, 1, kept),
                  !.stakes = by(@), !.unstakes = by(@), !.delegations = by(@), !.ledger = by(@),
                  !.events = {e \in @ : e.block < b}, !.debits = {x \in @ : x.block < b},
                  !.absences = {e \in @ : e.block < b}]

\* The rows of orphaned actions and of orphaned blocks.
Purge(d, b) ==
    LET kept    == Cardinality({i \in 1 .. Len(d.actions) : d.actions[i] < b})
        by(rows) == {r \in rows : r.idx <= kept}
    IN  [actions     |-> SubSeq(d.actions, 1, kept),
         stakes      |-> by(d.stakes),      unstakes    |-> by(d.unstakes),
         delegations |-> by(d.delegations), revocations |-> by(d.revocations),
         ledger      |-> by(d.ledger),
         events      |-> {e \in d.events : e.block < b},
         debits      |-> {x \in d.debits : x.block < b},
         absences    |-> {e \in d.absences : e.block < b}]

\* The decoder reports a fork: blocks b and later are undone in one transaction.
Rollback(b) ==
    /\ ~acted
    /\ db' = Purge(RestoreSlashed(ClearDeactivations(ReverseMaturities(db, b), b), b), b)
    /\ height' = b - 1
    /\ past' = SubSeq(past, 1, b - 1)
    /\ UNCHANGED acted

-----------------------------------------------------------------------------
Empty ==
    [actions |-> <<>>, stakes |-> {}, unstakes |-> {}, delegations |-> {},
     revocations |-> {}, events |-> {}, debits |-> {}, absences |-> {}, ledger |-> {}]

Init == db = Empty /\ height = 0 /\ acted = FALSE /\ past = <<>>

UserAction ==
    \/ \E a \in Sources, k \in Keys, n \in Amounts : Stake(a, k, n)
    \/ \E a \in Sources, k \in Keys, n \in Amounts : TopUp(a, k, n)
    \/ \E a \in Sources, k \in Keys :
          \E n \in Amounts \cup {Total(UndeactivatedStake(db, k, block))} : Unstake(a, k, n)
    \/ \E a \in Sources, k \in Keys : Delegate(a, k)
    \/ \E a \in Sources, k \in Keys : RevokeDelegation(a, k)
    \/ \E a \in Sources, k \in Keys : RevokeStakeKey(a, k)
    \/ \E a \in Sources, k \in Keys, c \in Capabilities, at \in 1 .. height : Slash(a, k, c, at)

Next == UserAction \/ EndBlock \/ \E b \in 1 .. height : Rollback(b)

Spec == Init /\ [][Next]_vars

-----------------------------------------------------------------------------
(* Properties.                                                             *)

\* What stays in a source's escrow is its bond: the stake rows it has not withdrawn and the
\* withdrawals still cooling down, those past the end of their cooldown no longer.  STAKE,
\* UNSTAKE (whole or partial), SLASH, eviction, cooldown release and rollback each keep it so,
\* and so no token is refunded twice, burned twice or locked for ever (settleCapabilityStake, sweepCapabilityStake, slashCapabilityStake,
\* evictSource, processCooldownCompletions, reverseMaturedRefunds).
EscrowIsBond ==
    \A a \in Sources :
        Escrowed(db, a) = Total({s \in db.stakes : s.source = a /\ s.deactivation = Null})
                        + Total({u \in db.unstakes : /\ u.source = a /\ u.status = "valid"
                                                     /\ u.cooldownEnd > height})

\* Staking creates and destroys nothing: the debits, credits and escrows of all addresses,
\* the treasury included, cancel out (settleSlash, bountyTreasurySplit, releaseCapabilityCooldowns).
NothingIsMinted ==
    Total({l \in db.ledger : l.leg = "credit"}) + Total({l \in db.ledger : l.leg = "escrow"})
        = Total({l \in db.ledger : l.leg = "debit"})

\* Between blocks the tables are exactly what the blocks of the current chain committed: a
\* rollback leaves the rows it cannot delete (a deactivated stake, a slashed amount, a completed
\* cooldown) as a node that never saw the orphaned blocks has them (applyRollbackWrites).
RollbackIsReplay == ~acted /\ height > 0 => db = past[height]

\* The signer set of a committed height never changes again while the chain only grows: no
\* later stake, withdrawal, delegation, revocation, slash or eviction moves a set that signatures
\* at that height were made under (effectiveCapabilitySetSql, slash_add_back.js).
PastSetsAreFixed ==
    \A h \in 1 .. height : Validators(db, h) = Validators(past[h], h)


\* The membership test of one key and the signer set agree at every height
\* (hasCapability, getValidatorsByCapability).
MembershipAgrees ==
    \A h \in 1 .. block : {k \in Keys : HasCapability(db, k, h)} = ValidatorKeys(db, h)

\* Whatever a source that was never slashed counts for in the signer set at the block under way
\* is still in escrow: the stake keeps counting for a delay after UNSTAKE, and the cooldown
\* keeps it slashable for that long (sweepCapabilityStake).
CountedStakeIsEscrowed ==
    \A a \in Sources :
        (\A x \in db.debits : \A r \in db.stakes \cup db.unstakes :
             r.idx = x.row => r.source # a)
        => SourceStake(db, a, block) <= Escrowed(db, a)

\* The tokens of the stakers are where the rows say: escrow is the bonds, stake that counts
\* is in it, and the ledger as a whole balances, through partial unstakes, slashes of stakes
\* and cooldowns, evictions and rollbacks.
BondsAreAccounted == EscrowIsBond /\ NothingIsMinted /\ CountedStakeIsEscrowed

\* A signer set is the same for whoever asks and whenever they ask: by the set query or the
\* membership query, at the time or after later withdrawals, slashes and evictions.
SignerSetsAreStable == PastSetsAreFixed /\ MembershipAgrees

\* A slash burns the bond of whoever held the key at the height the proof is about
\* (slashCapabilityStake burns by key).
SlashHitsTheOffender ==
    \A e \in db.events, x \in db.debits :
        x.idx = e.idx =>
            \A r \in db[x.table] : r.idx = x.row =>
                \/ \E s \in ActiveStake(db, e.key, e.at) : s.source = r.source
                \/ \E g \in db.delegations :
                      g.source = r.source /\ g.key = e.key /\ Active(g, e.at)
=============================================================================
