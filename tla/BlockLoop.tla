----------------------------- MODULE BlockLoop -----------------------------
(***************************************************************************)
(* The indexer's block loop and its reorg handling: runBlockLoop and       *)
(* catchUpToDecoder (src/src/XChainIndexer.js), pollDecoderOnce and        *)
(* applyPendingReorgs (XChainIndexer/block_poll.js), parseBlock and        *)
(* processBlock (XChainIndexer/block_parse.js), the block-time memo        *)
(* (db/database/block_reads.js) and the tables they read.                  *)
(*                                                                         *)
(* Another process, the decoder, owns the chain.  It appends blocks and,   *)
(* on a chain reorganisation, drops them again, leaving one REORG event    *)
(* per dropped block.  The loop polls: it reads the events it has not      *)
(* recorded, rolls back, records them, and indexes block after block.      *)
(* Every await between two reads of the decoder's tables is a separate     *)
(* step, because the decoder may move there; a crash may fall anywhere.    *)
(*                                                                         *)
(* A block's content is a version number.  No version is used twice, so    *)
(* two rows agree exactly when they come from the same decoded block.      *)
(***************************************************************************)
EXTENDS Integers, Sequences

CONSTANTS
  RecheckBlocks,   \* REORG_RECHECK_BLOCKS: mid-catch-up reorg probe period
  HorizonActive,   \* the anchor-attest horizon is read before each block's time
  MaxHeight,       \* bound: the decoder's longest chain
  MaxVersion,      \* bound: blocks the decoder ever decodes
  MaxFaults        \* bound: crashes and database outages

ASSUME RecheckAssumption == RecheckBlocks \in Nat \ {0}
ASSUME HorizonAssumption == HorizonActive \in BOOLEAN
ASSUME BoundsAssumption  == MaxHeight \in Nat /\ MaxVersion \in Nat /\ MaxFaults \in Nat

VARIABLES
  chain,       \* decoder.blocks: the version decoded at each height
  events,      \* decoder.events, code REORG: orphaned height, by event id
  halted,      \* decoder.events: the newest REORG_HALT / CLEARED row is a halt
  nextV,       \* the next unused block version
  rows,        \* indexer.blocks: what was indexed, by height
  markers,     \* indexer.events, code REORG: decoder event ids, in row order
  pc,          \* the await the loop is at
  afterId,     \* lastProcessedReorgId
  reorgs,      \* unprocessedReorgs not yet recorded: event ids, oldest first
  lastDec,     \* lastDecoderBlock
  lastIdx,     \* lastIndexerBlock (0 stands for firstDecoderBlock - 1)
  haltSeen,    \* decoderReorgHalted
  input,       \* the block inputs read so far
  memo,        \* _blockTimeCache and _protocolTimeCache of the decoder handle
  mustExit,    \* _passRestartOnFault
  faults,      \* crashes and outages so far
  age          \* history: blocks committed since each REORG event landed

decoderVars == <<chain, events, halted, nextV>>
tables      == <<rows, markers>>
cursors     == <<afterId, reorgs, lastDec, lastIdx>>
vars == <<chain, events, halted, nextV, rows, markers, pc, afterId, reorgs,
          lastDec, lastIdx, haltSeen, input, memo, mustExit, faults, age>>

Row     == [h : Nat, data : Nat, time : Nat]
NoInput == [data |-> 0, time |-> 0]
NoMemo  == [h |-> 0, v |-> 0]

Steps == {"cursors", "probe", "tips", "reorg", "mark", "hold", "loop",
          "data", "time", "apply", "after"}

TypeOK ==
  /\ chain \in Seq(Nat) /\ events \in Seq(Nat \ {0}) /\ age \in Seq(Nat)
  /\ halted \in BOOLEAN /\ nextV \in Nat
  /\ rows \subseteq Row /\ markers \in Seq(Nat)
  /\ pc \in Steps
  /\ afterId \in Nat /\ reorgs \in Seq(Nat)
  /\ lastDec \in Nat /\ lastIdx \in Nat
  /\ haltSeen \in {"unread", "halted", "clear"}
  /\ input \in [data : Nat, time : Nat]
  /\ memo \in [h : Nat, v : Nat]
  /\ mustExit \in BOOLEAN /\ faults \in Nat

-----------------------------------------------------------------------------
(* Reads of the tables.                                                    *)

\* getLastProcessedReorgId: the event id in the newest marker row.
Cursor == IF markers = <<>> THEN 0 ELSE markers[Len(markers)]

\* Faulty variant: the recorded event itself is selected again.
ReorgsSinceInclusive(id) ==
  IF id = 0 THEN [i \in 1 .. Len(events) |-> i]
            ELSE [i \in 1 .. (Len(events) - id + 1) |-> id + i - 1]

\* getReorgsSince: every decoder REORG event above an id, oldest first.
ReorgsSince(id) == [i \in 1 .. (Len(events) - id) |-> id + i]

\* getBlockIndex('indexer', 'last').
IndexedTip ==
  IF rows = {} THEN 0
  ELSE CHOOSE t \in {r.h : r \in rows} : \A r \in rows : r.h <= t

\* The decoder's block at a height; 0 when it has no such row.
Decoded(h) == IF h \in 1 .. Len(chain) THEN chain[h] ELSE 0

\* getRawBlockTime and getBlockTime: the memoised height answers from the memo.
BlockTime(m, h) == IF m.h = h THEN m.v ELSE Decoded(h)

\* The memo after that read: an absent row is never memoised.
Remember(m, h) ==
  IF m.h = h \/ Decoded(h) = 0 THEN m ELSE [h |-> h, v |-> Decoded(h)]

-----------------------------------------------------------------------------
Init ==
  /\ chain = <<>> /\ events = <<>> /\ halted = FALSE /\ nextV = 1
  /\ rows = {} /\ markers = <<>>
  /\ pc = "cursors" /\ afterId = 0 /\ reorgs = <<>>
  /\ lastDec = 0 /\ lastIdx = 0 /\ haltSeen = "unread"
  /\ input = NoInput /\ memo = NoMemo /\ mustExit = FALSE
  /\ faults = 0 /\ age = <<>>

indexerVars == <<rows, markers, pc, afterId, reorgs, lastDec, lastIdx,
                 haltSeen, input, memo, mustExit, faults>>

(* The decoder.  External: modelled from what the loop reads of it.        *)

\* A block is decoded on top of the chain.
Decode ==
  /\ ~halted /\ Len(chain) < MaxHeight /\ nextV <= MaxVersion
  /\ chain' = Append(chain, nextV) /\ nextV' = nextV + 1
  /\ UNCHANGED <<events, halted, age, indexerVars>>

\* A reorg drops the newest block and records one event for it.
Orphan ==
  /\ ~halted /\ chain # <<>> /\ nextV <= MaxVersion
  /\ chain' = SubSeq(chain, 1, Len(chain) - 1)
  /\ events' = Append(events, Len(chain)) /\ age' = Append(age, 0)
  /\ UNCHANGED <<halted, nextV, indexerVars>>

\* The decoder meets a reorg it cannot rewind, or the operator clears the halt.
Halt      == ~halted /\ faults < MaxFaults /\ halted' = TRUE
             /\ faults' = faults + 1
             /\ UNCHANGED <<chain, events, nextV, age, rows, markers, pc,
                  afterId, reorgs, lastDec, lastIdx, haltSeen, input, memo,
                  mustExit>>
ClearHalt == halted /\ halted' = FALSE
             /\ UNCHANGED <<chain, events, nextV, age, indexerVars>>

-----------------------------------------------------------------------------
(* One pass of the loop.                                                   *)

\* The pass ends: its locals go, and runBlockLoop clears the flag as the next
\* one starts.
EndPass ==
  /\ pc' = "cursors" /\ afterId' = 0 /\ reorgs' = <<>>
  /\ lastDec' = 0 /\ lastIdx' = 0 /\ input' = NoInput /\ mustExit' = FALSE

\* The pass goes on to the next await.
GoTo(step) == pc' = step /\ UNCHANGED mustExit

\* readPollCursors: the durable cursor and every event above it.
ReadReorgs ==
  /\ pc = "cursors" /\ GoTo("probe")
  /\ afterId' = Cursor /\ reorgs' = ReorgsSince(Cursor)
  /\ UNCHANGED <<decoderVars, tables, lastDec, lastIdx, haltSeen, input, memo,
                 faults, age>>

\* Faulty variant: a read fault leaves the flag undefined.
ProbeHaltUndefined ==
  /\ pc = "probe" /\ GoTo("tips")
  /\ haltSeen' \in {IF halted THEN "halted" ELSE "clear", "undefined"}
  /\ UNCHANGED <<decoderVars, tables, cursors, input, memo, faults, age>>

\* checkDecoderReorgHalt: a read fault keeps the last known state.
ProbeHalt ==
  /\ pc = "probe" /\ GoTo("tips")
  /\ \/ haltSeen' = IF halted THEN "halted" ELSE "clear"
     \/ UNCHANGED haltSeen
  /\ UNCHANGED <<decoderVars, tables, cursors, input, memo, faults, age>>

\* The decoder tip, then the indexer tip.
ReadTips ==
  /\ pc = "tips" /\ GoTo(IF reorgs = <<>> THEN "hold" ELSE "reorg")
  /\ lastDec' = Len(chain) /\ lastIdx' = IndexedTip
  /\ UNCHANGED <<decoderVars, tables, afterId, reorgs, haltSeen, input, memo,
                 faults, age>>

\* Faulty variants: to the newest event's block; resuming from the tip read
\* before the rollback; only when the tip is past the block.
RollBackTo(m, tip, reached) ==
  /\ pc = "reorg" /\ pc' = "mark"
  /\ IF reached
       THEN /\ rows' = {r \in rows : r.h < m}
            /\ lastIdx' = tip
            /\ memo' = NoMemo /\ mustExit' = TRUE
       ELSE UNCHANGED <<rows, lastIdx, memo, mustExit>>
  /\ UNCHANGED <<decoderVars, markers, afterId, lastDec, reorgs, haltSeen,
                 input, faults, age>>
DeepestReorg ==
  CHOOSE m \in {events[reorgs[i]] : i \in DOMAIN reorgs} :
    \A i \in DOMAIN reorgs : m <= events[reorgs[i]]
RollBackToNewest ==
  LET m == events[reorgs[Len(reorgs)]]
  IN pc = "reorg" /\ RollBackTo(m, IndexedTip', lastIdx >= m)
RollBackStaleTip ==
  pc = "reorg" /\ RollBackTo(DeepestReorg, lastIdx, lastIdx >= DeepestReorg)
RollBackPastOnly ==
  pc = "reorg" /\ RollBackTo(DeepestReorg, IndexedTip', lastIdx > DeepestReorg)

\* applyPendingReorgs, first half: one rollback to the deepest orphaned block,
\* when the indexer has reached it.  The rollback transaction deletes every
\* row from there up; its commit clears the block-time memo; the tip is read
\* again.  A rollback that fails ends the process (Crash).
RollBack ==
  /\ pc = "reorg" /\ pc' = "mark"
  /\ \E m \in {events[reorgs[i]] : i \in DOMAIN reorgs} :
       /\ \A i \in DOMAIN reorgs : m <= events[reorgs[i]]
       /\ IF lastIdx >= m
            THEN /\ rows' = {r \in rows : r.h < m}
                 /\ lastIdx' = IndexedTip'
                 /\ memo' = NoMemo /\ mustExit' = TRUE
            ELSE UNCHANGED <<rows, lastIdx, memo, mustExit>>
  /\ UNCHANGED <<decoderVars, markers, afterId, lastDec, reorgs, haltSeen,
                 input, faults, age>>

\* Faulty variant: only the newest event is recorded.
MarkNewestOnly ==
  /\ pc = "mark" /\ GoTo("hold")
  /\ markers' = Append(markers, reorgs[Len(reorgs)]) /\ reorgs' = <<>>
  /\ afterId' = Cursor'
  /\ UNCHANGED <<decoderVars, rows, lastDec, lastIdx, haltSeen, input, memo,
                 faults, age>>

\* applyPendingReorgs, second half: createReorg, one committed marker at a
\* time, oldest first; then the cursor is read again.
Mark ==
  /\ pc = "mark" /\ GoTo(IF Len(reorgs) = 1 THEN "hold" ELSE "mark")
  /\ markers' = Append(markers, Head(reorgs)) /\ reorgs' = Tail(reorgs)
  /\ afterId' = IF Len(reorgs) = 1 THEN Cursor' ELSE afterId
  /\ UNCHANGED <<decoderVars, rows, lastDec, lastIdx, haltSeen, input, memo,
                 faults, age>>

\* A decoder that is halted, or whose marker was never read, is held here.
Hold ==
  /\ pc = "hold"
  /\ IF haltSeen = "clear" THEN GoTo("loop") /\ UNCHANGED <<cursors, input>>
                           ELSE EndPass
  /\ UNCHANGED <<decoderVars, tables, haltSeen, memo, faults, age>>

\* Faulty variant: the catch-up is never interrupted.
ReorgNeverLands == FALSE

\* reorgLandedMidCatchUp: probed only at multiples of RecheckBlocks.
ReorgLandedMidCatchUp ==
  lastIdx % RecheckBlocks = 0 /\ Len(events) > afterId

\* Faulty variant: stops one block short of the decoder tip.
CatchUpShort ==
  /\ pc = "loop"
  /\ IF lastIdx + 1 < lastDec /\ ~ReorgLandedMidCatchUp
       THEN GoTo("data") /\ UNCHANGED <<cursors, input>>
       ELSE EndPass
  /\ UNCHANGED <<decoderVars, tables, haltSeen, memo, faults, age>>

\* The head of catchUpToDecoder's loop.
CatchUp ==
  /\ pc = "loop"
  /\ IF lastIdx < lastDec /\ ~ReorgLandedMidCatchUp
       THEN GoTo("data") /\ UNCHANGED <<cursors, input>>
       ELSE EndPass
  /\ UNCHANGED <<decoderVars, tables, haltSeen, memo, faults, age>>

\* The train-activation gate refuses the block before anything is read.
DeferOnTrainGate ==
  /\ pc = "data" /\ EndPass
  /\ UNCHANGED <<decoderVars, tables, haltSeen, memo, faults, age>>

\* readBlockInputs, up to the FIX_OUTPUT_FANOUT gate, whose isEnabled reads
\* (and memoises) the block's time.
ReadBlockData ==
  /\ pc = "data" /\ GoTo("time")
  /\ input' = [data |-> Decoded(lastIdx + 1), time |-> 0]
  /\ memo' = Remember(memo, lastIdx + 1)
  /\ UNCHANGED <<decoderVars, tables, cursors, haltSeen, faults, age>>

\* Faulty variant: the memo of the first read answers the second one.
ReadBlockTimeMemo ==
  /\ pc = "time"
  /\ memo' = Remember(memo, lastIdx + 1)
  /\ IF BlockTime(memo, lastIdx + 1) = 0 THEN EndPass
     ELSE /\ GoTo("apply") /\ UNCHANGED cursors
          /\ input' = [input EXCEPT !.time = BlockTime(memo, lastIdx + 1)]
  /\ UNCHANGED <<decoderVars, tables, haltSeen, faults, age>>

\* The rest of readBlockInputs.  Reading the horizon block's time first
\* evicts whatever height the single-entry memo held.  A block with no usable
\* time is deferred.
ReadBlockTime ==
  /\ pc = "time"
  /\ LET h == lastIdx + 1
         m == IF HorizonActive THEN NoMemo ELSE memo
         t == BlockTime(m, h)
     IN /\ memo' = Remember(m, h)
        /\ IF t = 0 THEN EndPass
                    ELSE /\ GoTo("apply") /\ UNCHANGED cursors
                         /\ input' = [input EXCEPT !.time = t]
  /\ UNCHANGED <<decoderVars, tables, haltSeen, faults, age>>

\* deferOnSyncBarriers holds the block, or a pass of it fails and abandonBlock
\* rolls its transaction back: nothing is written and the pass stops.
AbandonBlock ==
  /\ pc = "apply" /\ EndPass
  /\ UNCHANGED <<decoderVars, tables, haltSeen, memo, faults, age>>

\* processBlock: every pass and the blocks row, in one transaction.
CommitBlock ==
  /\ pc = "apply" /\ GoTo("after")
  /\ rows' = rows \cup
       {[h |-> lastIdx + 1, data |-> input.data, time |-> input.time]}
  /\ age' = [i \in DOMAIN age |-> age[i] + 1]
  /\ input' = NoInput
  /\ UNCHANGED <<decoderVars, markers, cursors, haltSeen, memo, faults>>

\* afterBlockCommit: the loop counter advances and the decoder tip is read
\* again; a throw there stops the pass with the block committed.
AfterCommit ==
  /\ pc = "after"
  /\ \/ /\ GoTo("loop") /\ lastIdx' = lastIdx + 1 /\ lastDec' = Len(chain)
        /\ UNCHANGED <<afterId, reorgs, input>>
     \/ EndPass
  /\ UNCHANGED <<decoderVars, tables, haltSeen, memo, faults, age>>

-----------------------------------------------------------------------------
\* rideOutDbOutage: a read throws before rollback or replay writes started, so
\* the next pass runs in the same process, with its memory.
RideOutDbOutage ==
  /\ faults < MaxFaults /\ faults' = faults + 1
  /\ ~mustExit /\ pc \notin {"cursors", "reorg", "after"}
  /\ EndPass
  /\ UNCHANGED <<decoderVars, tables, haltSeen, memo, age>>

\* The process ends anywhere and is restarted: only the tables survive.
Crash ==
  /\ faults < MaxFaults /\ faults' = faults + 1
  /\ EndPass /\ haltSeen' = "unread" /\ memo' = NoMemo
  /\ UNCHANGED <<decoderVars, tables, age>>

Decoder == Decode \/ Orphan \/ Halt \/ ClearHalt

Pass == \/ ReadReorgs \/ ProbeHalt \/ ReadTips \/ RollBack \/ Mark \/ Hold
        \/ CatchUp \/ DeferOnTrainGate \/ ReadBlockData \/ ReadBlockTime
        \/ AbandonBlock \/ CommitBlock \/ AfterCommit

Next == Decoder \/ Pass \/ RideOutDbOutage \/ Crash

Spec == Init /\ [][Next]_vars

\* The loop keeps running, a deferred or failed block is retried until it goes
\* through, and an operator clears a halt.
Fairness ==
  /\ WF_vars(Pass) /\ WF_vars(ClearHalt)
  /\ SF_vars(ProbeHalt /\ haltSeen' = IF halted THEN "halted" ELSE "clear")
  /\ SF_vars(ReadBlockData) /\ SF_vars(CommitBlock)
  /\ SF_vars(AfterCommit /\ pc' = "loop")

FairSpec == Spec /\ Fairness

-----------------------------------------------------------------------------
(* Properties.                                                             *)

\* An event the indexer has not recorded orphans this height.
Orphaned(h) == \E i \in 1 .. Len(events) : i > Cursor /\ events[i] <= h

\* Every indexed block whose transactions are no longer the decoder's is at or
\* above the block of a reorg event that has not been recorded yet, so the
\* rollback for it is still to come.  The order in applyPendingReorgs (roll
\* back, then record) and the re-read of the cursors are what make this hold
\* through crashes and through reorgs that land between two reads.
StaleDataIsOrphaned ==
  \A r \in rows : r.data # Decoded(r.h) => Orphaned(r.h)

\* The same of the block time each block was processed under, which the
\* height-keyed memo must not carry over from an orphaned block.
StaleTimeIsOrphaned ==
  \A r \in rows : r.time # Decoded(r.h) => Orphaned(r.h)

\* The indexed heights are 1..n with one row each: no block is skipped and none
\* is indexed twice, whatever cursor the loop resumed from.
NoGap ==
  /\ \A r \in rows : r.h \in 1 .. IndexedTip
  /\ \A h \in 1 .. IndexedTip : \E r \in rows : r.h = h
  /\ \A r, s \in rows : r.h = s.h => r = s

\* At most RecheckBlocks blocks are committed on top of a reorg that has landed
\* and is not recorded yet (reorgLandedMidCatchUp).
MixedWindowBounded ==
  \A i \in 1 .. Len(events) : i > Cursor => age[i] <= RecheckBlocks

\* Whatever the decoder does between two awaits of the loop, the index is a
\* gap-free prefix of the decoder's chain, except for blocks a pending reorg
\* still covers, and it holds at most RecheckBlocks of those past the reorg.
IndexIsSound ==
  /\ TypeOK /\ NoGap
  /\ StaleDataIsOrphaned /\ StaleTimeIsOrphaned
  /\ MixedWindowBounded

\* A rollback never deletes a block below every unrecorded reorg: a reorg whose
\* marker is durable is never rolled back a second time.
RollbackIsJustified ==
  [][\A r \in rows : r \notin rows' => Orphaned(r.h)]_vars

\* The processed-reorg cursor only moves forward, one event at a time, and only
\* when nothing at or above that event's block is indexed.
MarkersFollowEvents ==
  [][Cursor' # Cursor =>
       /\ Cursor' = Cursor + 1
       /\ \A r \in rows : r.h < events[Cursor']]_vars

\* The loop neither rolls back nor records a reorg without cause: a crash
\* between applyPendingReorgs' rollback and its markers costs a repetition only.
StepsAreJustified == RollbackIsJustified /\ MarkersFollowEvents

\* Once the decoder is quiet and not halted, the index ends up equal to it and
\* every reorg is recorded.
InSync ==
  /\ Cursor = Len(events) /\ IndexedTip = Len(chain)
  /\ \A r \in rows : r.data = Decoded(r.h)
Converges == <>[]InSync

\* The loop implements the follower: the decoder's chain is the source, its
\* REORG events the drops, the blocks table the replica, and the newest marker
\* counts the acknowledged drops.
Follower == INSTANCE ChainFollower WITH
  source <- chain, dropped <- events, acked <- Cursor,
  replica <- {[h |-> r.h, v |-> r.data] : r \in rows}
FollowsChain == Follower!Spec
=============================================================================
