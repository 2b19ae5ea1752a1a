-------------------------- MODULE BlockLoopProofs --------------------------
(***************************************************************************)
(* Proofs about BlockLoop, for every recheck period, every bound and every *)
(* interleaving of decoder, loop, outage and crash.                        *)
(***************************************************************************)
EXTENDS BlockLoop, SequenceTheorems, TLAPS

\* The steps after applyPendingReorgs, and those at which a block is in hand.
CatchingUp == {"hold", "loop", "data", "time", "apply", "after"}
InBlock    == {"data", "time", "apply"}

\* The reorgs in hand are exactly the next events above the cursor.
ReorgsAreNext ==
  /\ Len(age) = Len(events)
  /\ Cursor \in Nat /\ Cursor + Len(reorgs) <= Len(events)
  /\ \A i \in 1 .. Len(reorgs) : reorgs[i] = Cursor + i
  /\ pc \in CatchingUp => reorgs = <<>>
  /\ pc \in {"reorg", "mark"} => reorgs # <<>>
  /\ pc \in CatchingUp \cup {"probe", "tips"} => afterId = Cursor

\* The loop's tip is the table's, but for the block just committed.
TipIsRead ==
  /\ IndexedTip \in Nat
  /\ pc \in {"reorg", "mark", "hold", "loop"} \cup InBlock => lastIdx = IndexedTip
  /\ pc = "after" => lastIdx + 1 = IndexedTip
  /\ pc \in InBlock => lastIdx < lastDec
  /\ pc = "cursors" => lastDec = 0

\* While markers are written nothing at or above the reorgs is indexed.
RolledBack ==
  pc = "mark" => \A i \in 1 .. Len(reorgs) : IndexedTip < events[reorgs[i]]

\* A height the loop believes decoded, and is not any more, has an event the
\* loop has not seen yet.
LostHeightsHaveEvents ==
  \A h \in 1 .. lastDec : h > Len(chain) =>
    \E i \in 1 .. Len(events) : i > Cursor + Len(reorgs) /\ events[i] <= h

\* What is indexed, and the inputs in hand, are the decoder's or orphaned.
RowsFollow ==
  \A r \in rows : (r.data # Decoded(r.h) \/ r.h > Len(chain)) => Orphaned(r.h)
InputFollows ==
  pc \in {"time", "apply"} =>
    (input.data = Decoded(lastIdx + 1) \/ Orphaned(lastIdx + 1))
TimeFollows ==
  HorizonActive =>
    /\ StaleTimeIsOrphaned
    /\ pc = "apply" => (input.time = Decoded(lastIdx + 1) \/ Orphaned(lastIdx + 1))

\* Blocks committed over an unseen reorg, counted by the probe period.
AgeFollowsProbe ==
  \A i \in 1 .. Len(events) : i > Cursor + Len(reorgs) =>
    /\ pc \in {"probe", "tips", "reorg", "mark", "hold"} => age[i] = 0
    /\ pc = "loop" => age[i] = 0 \/ age[i] <= ((lastIdx - 1) % RecheckBlocks) + 1
    /\ pc \in InBlock => age[i] <= lastIdx % RecheckBlocks
    /\ pc = "after" => age[i] <= (lastIdx % RecheckBlocks) + 1

Inv ==
  /\ TypeOK /\ ReorgsAreNext /\ NoGap /\ TipIsRead /\ RolledBack
  /\ LostHeightsHaveEvents /\ RowsFollow /\ InputFollows /\ TimeFollows
  /\ MixedWindowBounded /\ AgeFollowsProbe

-----------------------------------------------------------------------------
(* The operators.                                                          *)

\* getBlockIndex returns n when the indexed blocks, after a step, are 1..n.
LEMMA TipOfContiguous ==
  ASSUME NEW n \in Nat,
         \A r \in rows' : r.h \in 1 .. n,
         \A h \in 1 .. n : \E r \in rows' : r.h = h
  PROVE  IndexedTip' = n
<1>1. CASE rows' = {}
  <2>1. n = 0
    BY <1>1
  <2> QED BY <1>1, <2>1 DEF IndexedTip
<1>2. CASE rows' # {}
  <2> DEFINE H == {r.h : r \in rows'}
  <2>1. n \in 1 .. n /\ n \in H
    BY <1>2
  <2>2. \A t \in H : (\A r \in rows' : r.h <= t) => t = n
    BY <2>1
  <2>3. \A r \in rows' : r.h <= n
    OBVIOUS
  <2>4. IndexedTip' = CHOOSE t \in H : \A r \in rows' : r.h <= t
    BY <1>2 DEF IndexedTip
  <2> HIDE DEF H
  <2> QED BY <2>1, <2>2, <2>3, <2>4
<1> QED BY <1>1, <1>2

\* The remainder grows by one away from a multiple of the period.
LEMMA RemainderStep ==
  ASSUME NEW K \in Nat \ {0}, NEW n \in Nat, n % K # 0
  PROVE  n % K = ((n - 1) % K) + 1
<1> DEFINE q == n \div K
           r == n % K
           p == (n - 1) \div K
           t == (n - 1) % K
<1>1. /\ q \in Int /\ p \in Int /\ r \in Int /\ t \in Int
      /\ 0 <= r /\ r < K /\ 0 <= t /\ t < K
      /\ n = K * q + r /\ n - 1 = K * p + t
  BY Z3
<1> HIDE DEF q, r, p, t
<1>2. K * (q - p) = t - r + 1
  BY <1>1
<1>3. r # 0
  BY DEF r
<1>4. - K < t - r + 1 /\ t - r + 1 < K
  BY <1>1, <1>3
<1>5. ~(q - p >= 1)
  <2> SUFFICES ASSUME q - p >= 1 PROVE FALSE
    OBVIOUS
  <2>1. K * (q - p) >= K
    BY <1>1
  <2> QED BY <1>1, <1>2, <1>4, <2>1
<1>6. ~(q - p <= -1)
  <2> SUFFICES ASSUME q - p <= -1 PROVE FALSE
    OBVIOUS
  <2>1. K * (q - p) <= -K
    BY <1>1
  <2> QED BY <1>1, <1>2, <1>4, <2>1
<1>7. q = p
  BY <1>1, <1>5, <1>6
<1>8. r = t + 1
  BY <1>1, <1>2, <1>7
<1> QED BY <1>8 DEF r, t

-----------------------------------------------------------------------------
(* The steps of the decoder.                                               *)

USE DEF CatchingUp, InBlock

\* The cursor and the tip depend on the indexer's tables only.
LEMMA TableReadsFrame ==
  /\ markers' = markers => Cursor' = Cursor
  /\ rows' = rows => IndexedTip' = IndexedTip
<1>1. markers' = markers => Cursor' = Cursor
  BY DEF Cursor
<1>2. rows' = rows => IndexedTip' = IndexedTip
  BY DEF IndexedTip
<1> QED BY <1>1, <1>2

\* NoGap is about the blocks table only.
LEMMA NoGapFrame == NoGap /\ rows' = rows => NoGap'
BY TableReadsFrame DEF NoGap

\* The numbers the other invariants speak of.
LEMMA TypesOfInv ==
  Inv => /\ lastIdx \in Nat /\ lastDec \in Nat /\ afterId \in Nat
         /\ Len(chain) \in Nat /\ Len(events) \in Nat /\ Len(reorgs) \in Nat
         /\ Len(age) \in Nat /\ Cursor \in Nat /\ IndexedTip \in Nat
         /\ \A r \in rows : r \in Row /\ r.h \in Nat
         /\ \A i \in 1 .. Len(events) : events[i] \in Nat \ {0}
         /\ \A i \in 1 .. Len(age) : age[i] \in Nat
<1> SUFFICES ASSUME Inv PROVE TypesOfInv!2
  OBVIOUS
<1>1. /\ lastIdx \in Nat /\ lastDec \in Nat /\ afterId \in Nat
      /\ chain \in Seq(Nat) /\ events \in Seq(Nat \ {0}) /\ reorgs \in Seq(Nat)
      /\ age \in Seq(Nat) /\ rows \subseteq Row
  BY DEF Inv, TypeOK
<1>2. Cursor \in Nat /\ IndexedTip \in Nat
  BY DEF Inv, TipIsRead, ReorgsAreNext
<1>3. \A r \in rows : r \in Row /\ r.h \in Nat
  BY <1>1 DEF Row
<1>4. \A i \in 1 .. Len(events) : events[i] \in Nat \ {0}
  BY <1>1
<1>5. \A i \in 1 .. Len(age) : age[i] \in Nat
  BY <1>1
<1> QED BY <1>1, <1>2, <1>3, <1>4, <1>5

\* Decoding a block changes only a height that has no block: a row there is
\* orphaned already.
LEMMA DecodeKeepsInv == Inv /\ Decode => Inv'
<1> SUFFICES ASSUME Inv, Decode PROVE Inv'
  OBVIOUS
<1>u. UNCHANGED <<events, age, rows, markers, pc, afterId, reorgs, lastDec,
                  lastIdx, input>>
  BY DEF Decode, indexerVars
<1>t. /\ lastIdx \in Nat /\ lastDec \in Nat /\ Len(chain) \in Nat
      /\ Len(events) \in Nat /\ Len(reorgs) \in Nat /\ Cursor \in Nat
  BY TypesOfInv
<1>1. TypeOK'
  BY BoundsAssumption DEF Inv, TypeOK, Decode, indexerVars, Row
<1>2. Cursor' = Cursor /\ IndexedTip' = IndexedTip
  BY <1>u, TableReadsFrame
<1>3. /\ Len(chain') = Len(chain) + 1
      /\ \A h \in Nat : Decoded(h)' # Decoded(h) => h = Len(chain) + 1
  <2>1. /\ chain \in Seq(Nat) /\ nextV \in Nat
        /\ chain' = Append(chain, nextV)
    BY DEF Inv, TypeOK, Decode
  <2>2. /\ Len(chain') = Len(chain) + 1
        /\ \A h \in 1 .. Len(chain) : chain'[h] = chain[h]
    BY <2>1
  <2> QED BY <2>1, <2>2 DEF Decoded
<1>4. \A h : Orphaned(h)' <=> Orphaned(h)
  BY <1>u, <1>2 DEF Orphaned
<1>5. NoGap'
  BY <1>u, NoGapFrame DEF Inv
<1>6. ReorgsAreNext' /\ TipIsRead' /\ RolledBack'
  BY <1>u, <1>2 DEF Inv, ReorgsAreNext, TipIsRead, RolledBack
<1>7. LostHeightsHaveEvents'
  <2> SUFFICES ASSUME NEW h \in 1 .. lastDec, h > Len(chain)
               PROVE  \E i \in 1 .. Len(events) :
                        i > Cursor + Len(reorgs) /\ events[i] <= h
    BY <1>u, <1>t, <1>2, <1>3 DEF LostHeightsHaveEvents
  <2> QED BY DEF Inv, LostHeightsHaveEvents
<1>8. RowsFollow'
  <2> SUFFICES ASSUME NEW r \in rows,
                      (r.data # Decoded(r.h) \/ r.h > Len(chain))'
               PROVE  Orphaned(r.h)
    BY <1>u, <1>4 DEF RowsFollow
  <2>1. r.h \in Nat
    BY DEF Inv, TypeOK, Row
  <2> QED BY <1>3, <2>1 DEF Inv, TypeOK, RowsFollow
<1>9. InputFollows' /\ TimeFollows'
  <2>1. pc \in {"time", "apply"} /\ Decoded(lastIdx + 1)' # Decoded(lastIdx + 1)
          => Orphaned(lastIdx + 1)
    <3> SUFFICES ASSUME pc \in {"time", "apply"}, lastIdx + 1 = Len(chain) + 1
                 PROVE  Orphaned(lastIdx + 1)
      BY <1>3, <1>t, <1>u
    <3>1. lastIdx + 1 \in 1 .. lastDec /\ lastIdx + 1 > Len(chain)
      BY <1>t DEF Inv, TipIsRead
    <3>2. PICK i \in 1 .. Len(events) :
            i > Cursor + Len(reorgs) /\ events[i] <= lastIdx + 1
      BY <3>1 DEF Inv, LostHeightsHaveEvents
    <3> QED BY <1>t, <3>2 DEF Orphaned
  <2>2. InputFollows'
    BY <1>u, <1>4, <2>1 DEF Inv, InputFollows
  <2>3. \A r \in rows : r.h \in Nat
    BY DEF Inv, TypeOK, Row
  <2>4. HorizonActive => StaleTimeIsOrphaned'
    BY <1>u, <1>3, <1>4, <2>3 DEF Inv, TypeOK, TimeFollows, StaleTimeIsOrphaned, RowsFollow
  <2> QED BY <1>u, <1>4, <2>1, <2>2, <2>4 DEF Inv, TimeFollows
<1>10. MixedWindowBounded' /\ AgeFollowsProbe'
  BY <1>u, <1>2 DEF Inv, MixedWindowBounded, AgeFollowsProbe
<1> QED BY <1>1, <1>5, <1>6, <1>7, <1>8, <1>9, <1>10 DEF Inv

\* A reorg's event covers exactly the height whose block it drops.
LEMMA OrphanKeepsInv == Inv /\ Orphan => Inv'
<1> SUFFICES ASSUME Inv, Orphan PROVE Inv'
  OBVIOUS
<1>u. UNCHANGED <<rows, markers, pc, afterId, reorgs, lastDec, lastIdx, input>>
  BY DEF Orphan, indexerVars
<1>t. /\ lastIdx \in Nat /\ lastDec \in Nat /\ Len(chain) \in Nat
      /\ Len(events) \in Nat /\ Len(reorgs) \in Nat /\ Cursor \in Nat
      /\ \A r \in rows : r.h \in Nat
  BY TypesOfInv
<1>a. /\ chain \in Seq(Nat) /\ events \in Seq(Nat \ {0}) /\ age \in Seq(Nat)
      /\ chain # <<>> /\ Len(chain) # 0
      /\ chain' = SubSeq(chain, 1, Len(chain) - 1)
      /\ events' = Append(events, Len(chain)) /\ age' = Append(age, 0)
      /\ Len(age) = Len(events)
  BY DEF Inv, TypeOK, ReorgsAreNext, Orphan
<1>1. TypeOK'
  <2>1. chain' \in Seq(Nat)
    BY SMTT(30), <1>a, <1>t
  <2>2. Len(chain) \in Nat \ {0}
    BY SMTT(30), <1>a, <1>t
  <2>3. events' \in Seq(Nat \ {0}) /\ age' \in Seq(Nat)
    BY SMTT(30), <1>a, <2>2
  <2> QED BY SMTT(60), <1>u, <2>1, <2>3 DEF Inv, TypeOK, Orphan, indexerVars
<1>2. Cursor' = Cursor /\ IndexedTip' = IndexedTip
  BY <1>u, TableReadsFrame
<1>3. /\ Len(chain') = Len(chain) - 1
      /\ \A h \in 1 .. Len(chain) - 1 : chain'[h] = chain[h]
  <2>1. Len(chain) - 1 \in Nat /\ \A i \in 1 .. Len(chain) - 1 : chain[i] \in Nat
    BY <1>a, <1>t
  <2>2. /\ Len(chain') = IF 1 <= Len(chain) - 1 THEN Len(chain) - 1 - 1 + 1 ELSE 0
        /\ \A i \in 1 .. Len(chain) - 1 - 1 + 1 : chain'[i] = chain[1 + i - 1]
    BY <1>a, <2>1, SubSeqProperties
  <2>3. Len(chain') = Len(chain) - 1
    <3> DEFINE n == Len(chain) - 1
    <3>1. n \in Nat /\ Len(chain') = IF 1 <= n THEN n - 1 + 1 ELSE 0
      BY <2>1, <2>2
    <3> HIDE DEF n
    <3>2. Len(chain') = n
      BY <3>1
    <3> QED BY <3>2 DEF n
  <2>4. ASSUME NEW h \in 1 .. Len(chain) - 1 PROVE chain'[h] = chain[h]
    <3>1. h \in 1 .. Len(chain) - 1 - 1 + 1 /\ 1 + h - 1 = h
      BY <1>t
    <3> QED BY <2>2, <3>1
  <2> QED BY <2>3, <2>4
<1>4. \A h \in Nat : Decoded(h)' # Decoded(h) => h = Len(chain)
  BY <1>t, <1>3 DEF Decoded
<1>5. /\ Len(events') = Len(events) + 1 /\ Len(age') = Len(events) + 1
      /\ events'[Len(events) + 1] = Len(chain) /\ age'[Len(events) + 1] = 0
      /\ \A i \in 1 .. Len(events) : events'[i] = events[i] /\ age'[i] = age[i]
  BY <1>a
<1>6. \A h \in Nat : Orphaned(h) => Orphaned(h)'
  BY <1>a, <1>t, <1>2, <1>5 DEF Orphaned
<1>c. Cursor + Len(reorgs) <= Len(events)
  BY DEF Inv, ReorgsAreNext
<1>7. \A h \in Nat : Len(chain) <= h => Orphaned(h)'
  <2> SUFFICES ASSUME NEW h \in Nat, Len(chain) <= h
               PROVE  Orphaned(h)'
    OBVIOUS
  <2>1. Len(events) + 1 \in 1 .. Len(events') /\ Len(events) + 1 > Cursor
    BY <1>a, <1>t, <1>5, <1>c
  <2> QED BY <1>2, <1>5, <2>1 DEF Orphaned
<1>8. NoGap'
  BY <1>u, NoGapFrame DEF Inv
<1>9. ReorgsAreNext' /\ TipIsRead'
  BY <1>u, <1>2, <1>5, <1>t DEF Inv, ReorgsAreNext, TipIsRead
<1>10. RolledBack'
  <2> SUFFICES ASSUME pc = "mark", NEW i \in 1 .. Len(reorgs)
               PROVE  IndexedTip < events'[reorgs[i]]
    BY <1>u, <1>2 DEF RolledBack
  <2>1. reorgs[i] \in 1 .. Len(events)
    BY <1>t, <1>c DEF Inv, ReorgsAreNext
  <2> QED BY <1>5, <2>1 DEF Inv, RolledBack
<1>11. LostHeightsHaveEvents'
  <2> SUFFICES ASSUME NEW h \in 1 .. lastDec, h > Len(chain) - 1
               PROVE  \E i \in 1 .. Len(events) + 1 :
                        i > Cursor + Len(reorgs) /\ events'[i] <= h
    BY <1>u, <1>2, <1>3, <1>5 DEF LostHeightsHaveEvents
  <2>1. CASE h = Len(chain)
    BY <1>t, <1>c, <1>5, <2>1
  <2>2. CASE h > Len(chain)
    BY <1>t, <1>5, <2>2 DEF Inv, LostHeightsHaveEvents
  <2> QED BY <1>t, <2>1, <2>2
<1>12. RowsFollow'
  <2> SUFFICES ASSUME NEW r \in rows,
                      (r.data # Decoded(r.h) \/ r.h > Len(chain))'
               PROVE  Orphaned(r.h)'
    BY <1>u DEF RowsFollow
  <2>1. CASE r.h >= Len(chain)
    BY <1>t, <1>7, <2>1
  <2>2. CASE r.h < Len(chain)
    BY <1>t, <1>3, <1>4, <1>6, <2>2 DEF Inv, RowsFollow
  <2> QED BY <1>t, <2>1, <2>2
<1>13. InputFollows' /\ TimeFollows'
  <2>1. \A h \in Nat : Decoded(h)' # Decoded(h) => Orphaned(h)'
    BY <1>t, <1>4, <1>7
  <2>2. lastIdx + 1 \in Nat
    BY <1>t
  <2>3. InputFollows'
    BY <1>u, <1>6, <2>1, <2>2 DEF Inv, InputFollows
  <2>4. HorizonActive => StaleTimeIsOrphaned'
    BY <1>u, <1>t, <1>6, <2>1 DEF Inv, TimeFollows, StaleTimeIsOrphaned
  <2> QED BY <1>u, <1>6, <2>1, <2>2, <2>3, <2>4 DEF Inv, TimeFollows
<1>14. MixedWindowBounded'
  <2> SUFFICES ASSUME NEW i \in 1 .. Len(events) + 1, i > Cursor
               PROVE  age'[i] <= RecheckBlocks
    BY <1>a, <1>2, <1>5 DEF MixedWindowBounded
  <2>1. CASE i = Len(events) + 1
    BY <1>5, <2>1, RecheckAssumption
  <2>2. CASE i \in 1 .. Len(events)
    BY SMTT(60), <1>a, <1>5, <2>2 DEF Inv, MixedWindowBounded
  <2> QED BY <1>t, <2>1, <2>2
<1>15. AgeFollowsProbe'
  <2> SUFFICES ASSUME NEW i \in 1 .. Len(events) + 1, i > Cursor + Len(reorgs)
               PROVE  AgeFollowsProbe!(i)!2'
    BY <1>u, <1>2, <1>5 DEF AgeFollowsProbe
  <2>1. CASE i = Len(events) + 1
    BY <1>u, <1>t, <1>5, <2>1, RecheckAssumption
  <2>2. CASE i \in 1 .. Len(events)
    BY <1>u, <1>5, <2>2 DEF Inv, AgeFollowsProbe
  <2> QED BY <1>t, <2>1, <2>2
<1> QED BY <1>1, <1>8, <1>9, <1>10, <1>11, <1>12, <1>13, <1>14, <1>15 DEF Inv

\* A halt marker touches nothing the loop's invariants speak of.
LEMMA HaltKeepsInv == Inv /\ (Halt \/ ClearHalt) => Inv'
<1> SUFFICES ASSUME Inv, Halt \/ ClearHalt PROVE Inv'
  OBVIOUS
<1>u. UNCHANGED <<chain, events, age, rows, markers, pc, afterId, reorgs,
                  lastDec, lastIdx, input>>
  BY DEF Halt, ClearHalt, indexerVars
<1>1. TypeOK'
  <2>1. halted' \in BOOLEAN
    BY ZenonT(60) DEF Halt, ClearHalt
  <2>2. faults' \in Nat
    BY DEF Inv, TypeOK, Halt, ClearHalt, indexerVars
  <2>3. UNCHANGED <<nextV, haltSeen, memo, mustExit>>
    BY DEF Halt, ClearHalt, indexerVars
  <2> QED BY <1>u, <2>1, <2>2, <2>3 DEF Inv, TypeOK
<1>2. Cursor' = Cursor /\ IndexedTip' = IndexedTip
  BY <1>u, TableReadsFrame
<1>3. NoGap'
  BY <1>u, NoGapFrame DEF Inv
<1>4. ReorgsAreNext' /\ TipIsRead' /\ RolledBack' /\ LostHeightsHaveEvents'
  BY <1>u, <1>2 DEF Inv, ReorgsAreNext, TipIsRead, RolledBack, LostHeightsHaveEvents
<1>5. RowsFollow' /\ InputFollows' /\ TimeFollows'
  BY <1>u, <1>2 DEF Inv, RowsFollow, InputFollows, TimeFollows,
     StaleTimeIsOrphaned, Orphaned, Decoded
<1>6. MixedWindowBounded' /\ AgeFollowsProbe'
  BY <1>u, <1>2 DEF Inv, MixedWindowBounded, AgeFollowsProbe
<1> QED BY <1>1, <1>3, <1>4, <1>5, <1>6 DEF Inv

-----------------------------------------------------------------------------
(* The steps of the loop.                                                  *)

\* Steps that leave the decoder and the tables alone keep what is said of them.
LEMMA TablesKept ==
  ASSUME Inv, UNCHANGED <<chain, events, age, rows, markers>>
  PROVE  /\ Cursor' = Cursor /\ IndexedTip' = IndexedTip
         /\ \A h : Orphaned(h)' <=> Orphaned(h)
         /\ \A h : Decoded(h)' = Decoded(h)
         /\ NoGap' /\ RowsFollow' /\ MixedWindowBounded'
         /\ HorizonActive => StaleTimeIsOrphaned'
<1>1. Cursor' = Cursor /\ IndexedTip' = IndexedTip
  BY TableReadsFrame
<1>2. \A h : Orphaned(h)' <=> Orphaned(h)
  BY <1>1 DEF Orphaned
<1>3. \A h : Decoded(h)' = Decoded(h)
  BY DEF Decoded
<1>4. NoGap'
  BY NoGapFrame DEF Inv
<1>5. RowsFollow'
  BY <1>2, <1>3 DEF Inv, RowsFollow
<1>6. MixedWindowBounded'
  BY <1>1 DEF Inv, MixedWindowBounded
<1>7. HorizonActive => StaleTimeIsOrphaned'
  BY <1>2, <1>3 DEF Inv, TimeFollows, StaleTimeIsOrphaned
<1> QED BY <1>1, <1>2, <1>3, <1>4, <1>5, <1>6, <1>7

\* Ending a pass, however it ends, keeps the invariant.
LEMMA EndPassKeepsInv ==
  ASSUME Inv, EndPass, UNCHANGED <<decoderVars, tables, age>>,
         haltSeen' \in {"unread", "halted", "clear"},
         memo' \in [h : Nat, v : Nat], faults' \in Nat
  PROVE  Inv'
<1>u. UNCHANGED <<chain, events, age, rows, markers>>
  BY DEF decoderVars, tables
<1>e. /\ pc' = "cursors" /\ reorgs' = <<>> /\ lastDec' = 0 /\ lastIdx' = 0
  BY DEF EndPass
<1>k. /\ Cursor' = Cursor /\ IndexedTip' = IndexedTip
      /\ NoGap' /\ RowsFollow' /\ MixedWindowBounded'
      /\ HorizonActive => StaleTimeIsOrphaned'
  BY <1>u, TablesKept
<1>1. TypeOK'
  <2>1. UNCHANGED <<halted, nextV>>
    BY DEF decoderVars
  <2>2. /\ afterId' = 0 /\ mustExit' \in BOOLEAN
        /\ input' \in [data : Nat, time : Nat]
    BY ZenonT(60) DEF EndPass, NoInput
  <2>3. pc' \in Steps /\ reorgs' \in Seq(Nat) /\ lastDec' \in Nat /\ lastIdx' \in Nat
    BY <1>e DEF Steps
  <2> QED BY <1>u, <2>1, <2>2, <2>3 DEF Inv, TypeOK
<1>2. ReorgsAreNext'
  BY <1>u, <1>e, <1>k, TypesOfInv DEF Inv, ReorgsAreNext
<1>3. TipIsRead' /\ RolledBack' /\ LostHeightsHaveEvents' /\ InputFollows'
  BY <1>u, <1>e, <1>k DEF Inv, TipIsRead, RolledBack, LostHeightsHaveEvents, InputFollows
<1>4. TimeFollows'
  BY <1>e, <1>k DEF TimeFollows
<1>5. AgeFollowsProbe'
  BY <1>e DEF AgeFollowsProbe
<1> QED BY <1>k, <1>1, <1>2, <1>3, <1>4, <1>5 DEF Inv

\* The reorgs read are all the events above the cursor: none is unseen.
LEMMA ReadReorgsKeepsInv == Inv /\ ReadReorgs => Inv'
<1> SUFFICES ASSUME Inv, ReadReorgs PROVE Inv'
  OBVIOUS
<1>u. UNCHANGED <<chain, events, age, rows, markers, lastDec, lastIdx>>
  BY DEF ReadReorgs, decoderVars, tables
<1>e. /\ pc = "cursors" /\ pc' = "probe" /\ afterId' = Cursor
      /\ reorgs' = [i \in 1 .. (Len(events) - Cursor) |-> Cursor + i]
  BY DEF ReadReorgs, GoTo, ReorgsSince
<1>k. /\ Cursor' = Cursor /\ IndexedTip' = IndexedTip
      /\ NoGap' /\ RowsFollow' /\ MixedWindowBounded'
      /\ HorizonActive => StaleTimeIsOrphaned'
  BY <1>u, TablesKept
<1>t. /\ Cursor \in Nat /\ Len(events) \in Nat /\ Cursor <= Len(events)
      /\ Len(events) - Cursor \in Nat
  BY TypesOfInv DEF Inv, ReorgsAreNext
<1>1. reorgs' \in Seq(Nat) /\ Len(reorgs') = Len(events) - Cursor
  BY <1>e, <1>t
<1>2. TypeOK'
  BY <1>e, <1>1, <1>t DEF Inv, TypeOK, ReadReorgs, GoTo, decoderVars, tables, Steps
<1>3. ReorgsAreNext'
  BY <1>u, <1>e, <1>k, <1>t, <1>1 DEF Inv, ReorgsAreNext
<1>4. TipIsRead' /\ RolledBack' /\ InputFollows' /\ TimeFollows'
  BY <1>u, <1>e, <1>k DEF Inv, TipIsRead, RolledBack, InputFollows, TimeFollows
<1>5. lastDec' = 0
  BY <1>u, <1>e DEF Inv, TipIsRead
<1>6. LostHeightsHaveEvents'
  BY <1>5 DEF LostHeightsHaveEvents
<1>7. AgeFollowsProbe'
  BY <1>u, <1>k, <1>t, <1>1 DEF AgeFollowsProbe
<1> QED BY <1>k, <1>2, <1>3, <1>4, <1>6, <1>7 DEF Inv

\* The halt probe reads one flag.
LEMMA ProbeHaltKeepsInv == Inv /\ ProbeHalt => Inv'
<1> SUFFICES ASSUME Inv, ProbeHalt PROVE Inv'
  OBVIOUS
<1>u. UNCHANGED <<chain, events, age, rows, markers, afterId, reorgs, lastDec,
                  lastIdx, input>>
  BY DEF ProbeHalt, decoderVars, tables, cursors
<1>e. pc = "probe" /\ pc' = "tips"
  BY DEF ProbeHalt, GoTo
<1>k. /\ Cursor' = Cursor /\ IndexedTip' = IndexedTip
      /\ NoGap' /\ RowsFollow' /\ MixedWindowBounded'
      /\ HorizonActive => StaleTimeIsOrphaned'
  BY <1>u, TablesKept
<1>1. TypeOK'
  <2>1. haltSeen' \in {"unread", "halted", "clear"}
    BY DEF Inv, TypeOK, ProbeHalt
  <2>2. UNCHANGED <<halted, nextV, memo, mustExit, faults>>
    BY DEF ProbeHalt, GoTo, decoderVars
  <2> QED BY <1>u, <1>e, <2>1, <2>2 DEF Inv, TypeOK, Steps
<1>2. ReorgsAreNext' /\ TipIsRead' /\ RolledBack' /\ LostHeightsHaveEvents'
  BY <1>u, <1>e, <1>k DEF Inv, ReorgsAreNext, TipIsRead, RolledBack, LostHeightsHaveEvents
<1>3. InputFollows' /\ TimeFollows' /\ AgeFollowsProbe'
  BY <1>u, <1>e, <1>k DEF Inv, InputFollows, TimeFollows, AgeFollowsProbe
<1> QED BY <1>k, <1>1, <1>2, <1>3 DEF Inv

\* The tips are read together with the blocks that stand for them.
LEMMA ReadTipsKeepsInv == Inv /\ ReadTips => Inv'
<1> SUFFICES ASSUME Inv, ReadTips PROVE Inv'
  OBVIOUS
<1>u. UNCHANGED <<chain, events, age, rows, markers, afterId, reorgs, input>>
  BY DEF ReadTips, decoderVars, tables
<1>e. /\ pc = "tips" /\ pc' = IF reorgs = <<>> THEN "hold" ELSE "reorg"
      /\ lastDec' = Len(chain) /\ lastIdx' = IndexedTip
  BY DEF ReadTips, GoTo
<1>k. /\ Cursor' = Cursor /\ IndexedTip' = IndexedTip
      /\ NoGap' /\ RowsFollow' /\ MixedWindowBounded'
      /\ HorizonActive => StaleTimeIsOrphaned'
  BY <1>u, TablesKept
<1>t. Len(chain) \in Nat /\ IndexedTip \in Nat
  BY TypesOfInv
<1>1. TypeOK'
  <2>1. UNCHANGED <<halted, nextV, haltSeen, memo, mustExit, faults>>
    BY DEF ReadTips, GoTo, decoderVars
  <2> QED BY <1>u, <1>e, <1>t, <2>1 DEF Inv, TypeOK, Steps
<1>2. ReorgsAreNext' /\ TipIsRead' /\ RolledBack'
  BY <1>u, <1>e, <1>k, <1>t DEF Inv, ReorgsAreNext, TipIsRead, RolledBack
<1>3. LostHeightsHaveEvents'
  BY <1>u, <1>e, <1>t DEF LostHeightsHaveEvents
<1>4. InputFollows' /\ TimeFollows' /\ AgeFollowsProbe'
  BY <1>u, <1>e, <1>k DEF Inv, InputFollows, TimeFollows, AgeFollowsProbe
<1> QED BY <1>k, <1>1, <1>2, <1>3, <1>4 DEF Inv

\* The rollback leaves the blocks below the deepest event, all of them.
LEMMA RollBackKeepsInv == Inv /\ RollBack => Inv'
<1> SUFFICES ASSUME Inv, RollBack PROVE Inv'
  OBVIOUS
<1>u. UNCHANGED <<chain, events, age, markers, afterId, reorgs, lastDec, input>>
  BY DEF RollBack, decoderVars
<1>t. /\ lastIdx \in Nat /\ Len(events) \in Nat /\ Len(reorgs) \in Nat
      /\ Cursor \in Nat /\ IndexedTip \in Nat
      /\ \A r \in rows : r \in Row /\ r.h \in Nat
      /\ \A i \in 1 .. Len(events) : events[i] \in Nat \ {0}
      /\ reorgs \in Seq(Nat)
  BY TypesOfInv DEF Inv, TypeOK
<1>e. pc = "reorg" /\ pc' = "mark" /\ lastIdx = IndexedTip
  BY DEF RollBack, Inv, TipIsRead
<1>m. PICK m \in {events[reorgs[i]] : i \in DOMAIN reorgs} :
        /\ \A i \in DOMAIN reorgs : m <= events[reorgs[i]]
        /\ IF lastIdx >= m
             THEN /\ rows' = {r \in rows : r.h < m}
                  /\ lastIdx' = IndexedTip'
                  /\ memo' = NoMemo /\ mustExit' = TRUE
             ELSE UNCHANGED <<rows, lastIdx, memo, mustExit>>
  BY DEF RollBack
<1>n. \A i \in 1 .. Len(reorgs) : reorgs[i] \in 1 .. Len(events)
  BY <1>t DEF Inv, ReorgsAreNext
<1>p. m \in Nat \ {0}
  BY SMTT(60), <1>t, <1>m, <1>n
<1>c. Cursor' = Cursor
  BY <1>u, TableReadsFrame
<1>g. /\ IndexedTip' \in Nat /\ IndexedTip' < m /\ lastIdx' = IndexedTip'
      /\ rows' \subseteq rows /\ NoGap'
  <2>1. CASE lastIdx >= m
    <3>1. \A r \in rows' : r.h \in 1 .. m - 1
      BY <1>m, <1>e, <1>p, <1>t, <2>1 DEF Inv, NoGap
    <3>r. rows' = {r \in rows : r.h < m}
      BY <1>m, <2>1
    <3>2. ASSUME NEW h \in 1 .. m - 1 PROVE \E r \in rows' : r.h = h
      <4>1. h \in 1 .. IndexedTip /\ h < m
        BY <1>e, <1>p, <1>t, <2>1
      <4>2. PICK r \in rows : r.h = h
        BY <4>1 DEF Inv, NoGap
      <4> QED BY <3>r, <4>1, <4>2
    <3>3. m - 1 \in Nat
      BY <1>p
    <3>4. IndexedTip' = m - 1
      BY <3>1, <3>2, <3>3, TipOfContiguous
    <3>5. \A r, s \in rows' : r.h = s.h => r = s
      BY <1>m, <2>1 DEF Inv, NoGap
    <3> QED BY <1>m, <1>p, <2>1, <3>1, <3>2, <3>3, <3>4, <3>5 DEF NoGap
  <2>2. CASE ~(lastIdx >= m)
    <3>1. rows' = rows /\ lastIdx' = lastIdx
      BY <1>m, <2>2
    <3> QED BY <3>1, <1>e, <1>p, <1>t, <2>2, TableReadsFrame, NoGapFrame DEF Inv
  <2> QED BY <2>1, <2>2
<1>1. TypeOK'
  <2>1. UNCHANGED <<halted, nextV, haltSeen, faults>>
    BY DEF RollBack, decoderVars
  <2>2. memo' \in [h : Nat, v : Nat] /\ mustExit' \in BOOLEAN
    <3>1. memo \in [h : Nat, v : Nat] /\ mustExit \in BOOLEAN
      BY DEF Inv, TypeOK
    <3>2. NoMemo \in [h : Nat, v : Nat]
      BY DEF NoMemo
    <3>3. CASE lastIdx >= m
      BY <1>m, <3>2, <3>3
    <3>4. CASE ~(lastIdx >= m)
      BY <1>m, <3>1, <3>4
    <3> QED BY <3>3, <3>4
  <2> QED BY <1>u, <1>e, <1>g, <2>1, <2>2 DEF Inv, TypeOK, Steps
<1>2. ReorgsAreNext' /\ TipIsRead'
  BY <1>u, <1>e, <1>c, <1>g DEF Inv, ReorgsAreNext, TipIsRead
<1>3. RolledBack'
  <2> SUFFICES ASSUME NEW i \in 1 .. Len(reorgs)
               PROVE  IndexedTip' < events[reorgs[i]]
    BY <1>u DEF RolledBack
  <2>1. m <= events[reorgs[i]]
    BY <1>m, <1>t
  <2> QED BY <1>g, <1>n, <1>p, <1>t, <2>1
<1>4. LostHeightsHaveEvents' /\ AgeFollowsProbe' /\ MixedWindowBounded'
  BY <1>u, <1>e, <1>c DEF Inv, LostHeightsHaveEvents, AgeFollowsProbe, MixedWindowBounded
<1>5. \A h : (Orphaned(h)' <=> Orphaned(h)) /\ Decoded(h)' = Decoded(h)
  BY <1>u, <1>c DEF Orphaned, Decoded
<1>6. RowsFollow' /\ InputFollows'
  BY <1>u, <1>e, <1>g, <1>5 DEF Inv, RowsFollow, InputFollows
<1>7. TimeFollows'
  BY <1>u, <1>e, <1>g, <1>5 DEF Inv, TimeFollows, StaleTimeIsOrphaned
<1> QED BY <1>g, <1>1, <1>2, <1>3, <1>4, <1>6, <1>7 DEF Inv

\* A marker records the next event, which no indexed block is above.
LEMMA MarkAdvances ==
  Inv /\ Mark => /\ Cursor' = Cursor + 1 /\ markers' \in Seq(Nat)
                 /\ Len(reorgs) >= 1 /\ Cursor < Len(events)
                 /\ reorgs[1] = Cursor + 1
                 /\ IndexedTip < events[Cursor + 1]
                 /\ \A r \in rows : r.h < events[Cursor + 1]
<1> SUFFICES ASSUME Inv, Mark PROVE MarkAdvances!2
  OBVIOUS
<1>t. /\ Len(events) \in Nat /\ Len(reorgs) \in Nat
      /\ Cursor \in Nat /\ IndexedTip \in Nat
      /\ \A r \in rows : r.h \in Nat
      /\ \A i \in 1 .. Len(events) : events[i] \in Nat \ {0}
      /\ reorgs \in Seq(Nat) /\ markers \in Seq(Nat)
  BY TypesOfInv DEF Inv, TypeOK
<1>e. pc = "mark" /\ markers' = Append(markers, Head(reorgs))
  BY DEF Mark
<1>1. /\ reorgs # <<>> /\ Len(reorgs) >= 1 /\ Cursor + Len(reorgs) <= Len(events)
      /\ \A i \in 1 .. Len(reorgs) : reorgs[i] = Cursor + i
  BY <1>t, <1>e, EmptySeq DEF Inv, ReorgsAreNext
<1>2. Head(reorgs) = reorgs[1] /\ reorgs[1] = Cursor + 1 /\ reorgs[1] \in Nat
  BY <1>1, <1>t
<1>3. /\ markers' \in Seq(Nat) /\ markers' # <<>>
      /\ markers'[Len(markers')] = Cursor + 1
  <2>1. markers' = Append(markers, Cursor + 1) /\ Cursor + 1 \in Nat
    BY <1>e, <1>2
  <2>2. /\ markers' \in Seq(Nat) /\ markers' # <<>>
        /\ Len(markers') = Len(markers) + 1
        /\ markers'[Len(markers) + 1] = Cursor + 1
    BY <1>t, <2>1, AppendProperties
  <2> QED BY <2>2
<1>4. Cursor' = Cursor + 1
  BY <1>3 DEF Cursor
<1>5. IndexedTip < events[Cursor + 1]
  BY <1>1, <1>2, <1>e, <1>t DEF Inv, RolledBack
<1>6. Cursor < Len(events) /\ events[Cursor + 1] \in Nat
  BY <1>1, <1>t
<1>7. \A r \in rows : r.h < events[Cursor + 1]
  BY <1>5, <1>6, <1>t DEF Inv, NoGap
<1> QED BY <1>1, <1>2, <1>3, <1>4, <1>5, <1>6, <1>7

\* A marker moves the cursor past one event that no indexed block is above.
LEMMA MarkKeepsInv == Inv /\ Mark => Inv'
<1> SUFFICES ASSUME Inv, Mark PROVE Inv'
  OBVIOUS
<1>u. UNCHANGED <<chain, events, age, rows, lastDec, lastIdx, input>>
  BY DEF Mark, decoderVars
<1>t. /\ lastIdx \in Nat /\ Len(events) \in Nat /\ Len(reorgs) \in Nat
      /\ Cursor \in Nat /\ IndexedTip \in Nat
      /\ \A r \in rows : r \in Row /\ r.h \in Nat
      /\ \A i \in 1 .. Len(events) : events[i] \in Nat \ {0}
      /\ reorgs \in Seq(Nat) /\ markers \in Seq(Nat)
  BY TypesOfInv DEF Inv, TypeOK
<1>e. /\ pc = "mark" /\ pc' = IF Len(reorgs) = 1 THEN "hold" ELSE "mark"
      /\ markers' = Append(markers, Head(reorgs)) /\ reorgs' = Tail(reorgs)
      /\ afterId' = IF Len(reorgs) = 1 THEN Cursor' ELSE afterId
  BY DEF Mark, GoTo
<1>n. /\ Len(reorgs) >= 1 /\ reorgs[1] = Cursor + 1
      /\ Cursor + Len(reorgs) <= Len(events)
      /\ \A i \in 1 .. Len(reorgs) : reorgs[i] = Cursor + i
  BY <1>t, <1>e DEF Inv, ReorgsAreNext
<1>c. Cursor' = Cursor + 1 /\ markers' \in Seq(Nat)
  BY MarkAdvances
<1>r. /\ reorgs' \in Seq(Nat) /\ Len(reorgs') = Len(reorgs) - 1
      /\ \A i \in 1 .. Len(reorgs) - 1 : reorgs'[i] = reorgs[i + 1]
  BY <1>e, <1>n, <1>t
<1>s. Cursor' + Len(reorgs') = Cursor + Len(reorgs)
  BY <1>c, <1>r, <1>t
<1>i. IndexedTip' = IndexedTip /\ NoGap'
  BY <1>u, TableReadsFrame, NoGapFrame DEF Inv
<1>o. \A h \in Nat : h <= IndexedTip => (Orphaned(h) => Orphaned(h)')
  <2> SUFFICES ASSUME NEW h \in Nat, h <= IndexedTip, Orphaned(h)
               PROVE  Orphaned(h)'
    OBVIOUS
  <2>1. PICK i \in 1 .. Len(events) : i > Cursor /\ events[i] <= h
    BY DEF Orphaned
  <2>2. IndexedTip < events[Cursor + 1]
    BY MarkAdvances
  <2>3. i # Cursor + 1
    BY <1>n, <1>t, <2>1, <2>2
  <2> QED BY <1>u, <1>c, <1>t, <2>1, <2>3 DEF Orphaned
<1>1. TypeOK'
  <2>1. UNCHANGED <<halted, nextV, haltSeen, memo, mustExit, faults>>
    BY DEF Mark, GoTo, decoderVars
  <2>2. afterId' \in Nat
    BY <1>e, <1>c, <1>t DEF Inv, TypeOK
  <2> QED BY SMTT(60), <1>u, <1>e, <1>c, <1>r, <2>1, <2>2 DEF Inv, TypeOK, Steps
<1>2. ReorgsAreNext'
  <2>1. \A i \in 1 .. Len(reorgs') : reorgs'[i] = Cursor' + i
    BY SMTT(60), <1>c, <1>n, <1>r, <1>t
  <2>2. pc' \in CatchingUp => reorgs' = <<>>
    <3>1. pc' \in CatchingUp => Len(reorgs') = 0
      BY <1>e, <1>r, <1>t
    <3>2. reorgs' # <<>> => Len(reorgs') # 0
      BY <1>r, EmptySeq
    <3> QED BY <3>1, <3>2
  <2>3. pc' \in {"reorg", "mark"} => reorgs' # <<>>
    <3>1. pc' = "mark" => Len(reorgs') # 0
      BY <1>e, <1>n, <1>r, <1>t
    <3> QED BY ZenonT(60), <1>e, <3>1
  <2>4. pc' \in CatchingUp \cup {"probe", "tips"} => afterId' = Cursor'
    BY <1>e
  <2> QED BY <1>u, <1>c, <1>n, <1>s, <1>t, <2>1, <2>2, <2>3, <2>4
          DEF Inv, ReorgsAreNext
<1>3. TipIsRead'
  BY <1>u, <1>e, <1>i DEF Inv, TipIsRead
<1>4. RolledBack'
  <2> SUFFICES ASSUME NEW i \in 1 .. Len(reorgs')
               PROVE  IndexedTip < events[reorgs'[i]]
    BY <1>u, <1>i DEF RolledBack
  <2>1. i + 1 \in 1 .. Len(reorgs) /\ reorgs'[i] = reorgs[i + 1]
    BY <1>r, <1>t
  <2> QED BY <1>e, <2>1 DEF Inv, RolledBack
<1>5. LostHeightsHaveEvents' /\ AgeFollowsProbe'
  BY <1>u, <1>e, <1>s DEF Inv, LostHeightsHaveEvents, AgeFollowsProbe
<1>6. MixedWindowBounded'
  BY <1>u, <1>c, <1>t DEF Inv, MixedWindowBounded
<1>7. \A r \in rows : r.h <= IndexedTip
  BY <1>t DEF Inv, NoGap
<1>8. \A h : Decoded(h)' = Decoded(h)
  BY <1>u DEF Decoded
<1>9. RowsFollow'
  BY <1>u, <1>o, <1>t, <1>7, <1>8 DEF Inv, RowsFollow
<1>10. InputFollows' /\ TimeFollows'
  BY <1>u, <1>e, <1>o, <1>t, <1>7, <1>8 DEF Inv, InputFollows, TimeFollows,
     StaleTimeIsOrphaned
<1> QED BY <1>i, <1>1, <1>2, <1>3, <1>4, <1>5, <1>6, <1>9, <1>10 DEF Inv

\* The memory the next pass finds is typed however a pass ends.
LEMMA MemoryTypes ==
  Inv => /\ haltSeen \in {"unread", "halted", "clear"} /\ faults \in Nat
         /\ memo \in [h : Nat, v : Nat] /\ NoMemo \in [h : Nat, v : Nat]
         /\ \A h \in Nat : Remember(memo, h) \in [h : Nat, v : Nat]
         /\ \A h \in Nat : Remember(NoMemo, h) \in [h : Nat, v : Nat]
         /\ \A h \in Nat : BlockTime(memo, h) \in Nat /\ Decoded(h) \in Nat
<1> SUFFICES ASSUME Inv PROVE MemoryTypes!2
  OBVIOUS
<1>1. /\ haltSeen \in {"unread", "halted", "clear"} /\ faults \in Nat
      /\ memo \in [h : Nat, v : Nat] /\ chain \in Seq(Nat)
  BY DEF Inv, TypeOK
<1>2. NoMemo \in [h : Nat, v : Nat]
  BY DEF NoMemo
<1>3. \A h \in Nat : Decoded(h) \in Nat
  BY <1>1 DEF Decoded
<1>4. \A h \in Nat : BlockTime(memo, h) \in Nat
  BY <1>1, <1>3 DEF BlockTime
<1>5. ASSUME NEW m \in [h : Nat, v : Nat], NEW h \in Nat
      PROVE  Remember(m, h) \in [h : Nat, v : Nat]
  BY <1>3 DEF Remember
<1> QED BY ZenonT(60), <1>1, <1>2, <1>3, <1>4, <1>5

\* The hold, the head of the catch-up loop, and the ways a pass gives up.
LEMMA HoldKeepsInv == Inv /\ Hold => Inv'
<1> SUFFICES ASSUME Inv, Hold PROVE Inv'
  OBVIOUS
<1>u. UNCHANGED <<decoderVars, tables, haltSeen, memo, faults, age>>
  BY DEF Hold
<1>1. CASE EndPass
  BY <1>u, <1>1, EndPassKeepsInv, MemoryTypes
<1>2. CASE pc' = "loop" /\ UNCHANGED <<mustExit, cursors, input>>
  <2>u. UNCHANGED <<chain, events, age, rows, markers, afterId, reorgs, lastDec,
                    lastIdx, input>>
    BY <1>u, <1>2 DEF decoderVars, tables, cursors
  <2>e. pc = "hold" /\ pc' = "loop"
    BY <1>2 DEF Hold
  <2>k. /\ Cursor' = Cursor /\ IndexedTip' = IndexedTip
        /\ NoGap' /\ RowsFollow' /\ MixedWindowBounded'
        /\ HorizonActive => StaleTimeIsOrphaned'
    BY <2>u, TablesKept
  <2>1. TypeOK'
    <3>1. UNCHANGED <<halted, nextV, haltSeen, memo, mustExit, faults>>
      BY <1>u, <1>2 DEF decoderVars
    <3> QED BY <2>u, <2>e, <3>1 DEF Inv, TypeOK, Steps
  <2>2. ReorgsAreNext' /\ TipIsRead' /\ RolledBack' /\ LostHeightsHaveEvents'
    BY SMTT(60), <2>u, <2>e, <2>k DEF Inv, ReorgsAreNext, TipIsRead, RolledBack, LostHeightsHaveEvents
  <2>3. InputFollows' /\ TimeFollows' /\ AgeFollowsProbe'
    BY <2>u, <2>e, <2>k DEF Inv, InputFollows, TimeFollows, AgeFollowsProbe
  <2> QED BY <2>k, <2>1, <2>2, <2>3 DEF Inv
<1> QED BY <1>1, <1>2 DEF Hold, GoTo

\* The probe at a multiple of the period is what keeps the window short.
LEMMA CatchUpKeepsInv == Inv /\ CatchUp => Inv'
<1> SUFFICES ASSUME Inv, CatchUp PROVE Inv'
  OBVIOUS
<1>u. UNCHANGED <<decoderVars, tables, haltSeen, memo, faults, age>>
  BY DEF CatchUp
<1>1. CASE EndPass
  BY <1>u, <1>1, EndPassKeepsInv, MemoryTypes
<1>2. CASE /\ pc' = "data" /\ UNCHANGED <<mustExit, cursors, input>>
           /\ lastIdx < lastDec /\ ~ReorgLandedMidCatchUp
  <2>u. UNCHANGED <<chain, events, age, rows, markers, afterId, reorgs, lastDec,
                    lastIdx, input>>
    BY <1>u, <1>2 DEF decoderVars, tables, cursors
  <2>e. pc = "loop" /\ pc' = "data" /\ lastIdx < lastDec
    BY <1>2 DEF CatchUp
  <2>k. /\ Cursor' = Cursor /\ IndexedTip' = IndexedTip
        /\ NoGap' /\ RowsFollow' /\ MixedWindowBounded'
        /\ HorizonActive => StaleTimeIsOrphaned'
    BY <2>u, TablesKept
  <2>1. TypeOK'
    <3>1. UNCHANGED <<halted, nextV, haltSeen, memo, mustExit, faults>>
      BY <1>u, <1>2 DEF decoderVars
    <3> QED BY <2>u, <2>e, <3>1 DEF Inv, TypeOK, Steps
  <2>2. ReorgsAreNext' /\ TipIsRead' /\ RolledBack' /\ LostHeightsHaveEvents'
    BY <2>u, <2>e, <2>k DEF Inv, ReorgsAreNext, TipIsRead, RolledBack, LostHeightsHaveEvents
  <2>3. InputFollows' /\ TimeFollows'
    BY <2>u, <2>e, <2>k DEF Inv, InputFollows, TimeFollows
  <2>4. AgeFollowsProbe'
    <3> SUFFICES ASSUME NEW i \in 1 .. Len(events), i > Cursor + Len(reorgs)
                 PROVE  age[i] <= lastIdx % RecheckBlocks
      BY <2>u, <2>e, <2>k DEF AgeFollowsProbe
    <3>t. /\ lastIdx \in Nat /\ Cursor \in Nat /\ Len(reorgs) \in Nat
          /\ Len(events) \in Nat /\ age[i] \in Nat
      BY TypesOfInv DEF Inv, ReorgsAreNext
    <3>1. age[i] = 0 \/ age[i] <= ((lastIdx - 1) % RecheckBlocks) + 1
      BY <2>e DEF Inv, AgeFollowsProbe
    <3>2. afterId = Cursor
      BY <2>e DEF Inv, ReorgsAreNext
    <3>3. lastIdx % RecheckBlocks # 0
      BY <1>2, <3>2, <3>t DEF ReorgLandedMidCatchUp
    <3>4. lastIdx % RecheckBlocks = ((lastIdx - 1) % RecheckBlocks) + 1
      BY ZenonT(60), <3>3, <3>t, RecheckAssumption, RemainderStep
    <3>5. lastIdx % RecheckBlocks \in Nat
      BY <3>t, RecheckAssumption
    <3> QED BY <3>t, <3>1, <3>4, <3>5
  <2> QED BY <2>k, <2>1, <2>2, <2>3, <2>4 DEF Inv
<1> QED BY <1>1, <1>2 DEF CatchUp, GoTo

\* The block's transactions are the decoder's at the moment they are read.
LEMMA ReadBlockDataKeepsInv == Inv /\ ReadBlockData => Inv'
<1> SUFFICES ASSUME Inv, ReadBlockData PROVE Inv'
  OBVIOUS
<1>u. UNCHANGED <<chain, events, age, rows, markers, afterId, reorgs, lastDec,
                  lastIdx>>
  BY DEF ReadBlockData, decoderVars, tables, cursors
<1>e. /\ pc = "data" /\ pc' = "time"
      /\ input' = [data |-> Decoded(lastIdx + 1), time |-> 0]
  BY DEF ReadBlockData, GoTo
<1>k. /\ Cursor' = Cursor /\ IndexedTip' = IndexedTip
      /\ NoGap' /\ RowsFollow' /\ MixedWindowBounded'
      /\ HorizonActive => StaleTimeIsOrphaned'
      /\ \A h : Decoded(h)' = Decoded(h)
  BY <1>u, TablesKept
<1>t. lastIdx + 1 \in Nat
  BY TypesOfInv
<1>1. TypeOK'
  <2>1. UNCHANGED <<halted, nextV, haltSeen, mustExit, faults>>
    BY DEF ReadBlockData, GoTo, decoderVars
  <2>2. memo' \in [h : Nat, v : Nat]
    BY <1>t, MemoryTypes DEF ReadBlockData
  <2>3. input' \in [data : Nat, time : Nat]
    BY SMTT(60), <1>e, <1>t, MemoryTypes
  <2> QED BY <1>u, <1>e, <2>1, <2>2, <2>3 DEF Inv, TypeOK, Steps
<1>2. ReorgsAreNext' /\ TipIsRead' /\ RolledBack' /\ LostHeightsHaveEvents'
  BY <1>u, <1>e, <1>k DEF Inv, ReorgsAreNext, TipIsRead, RolledBack, LostHeightsHaveEvents
<1>3. InputFollows' /\ TimeFollows' /\ AgeFollowsProbe'
  BY <1>u, <1>e, <1>k DEF Inv, InputFollows, TimeFollows, AgeFollowsProbe
<1> QED BY <1>k, <1>1, <1>2, <1>3 DEF Inv

\* With the horizon read in between, the block's time is read afresh.
LEMMA ReadBlockTimeKeepsInv == Inv /\ ReadBlockTime => Inv'
<1> SUFFICES ASSUME Inv, ReadBlockTime PROVE Inv'
  OBVIOUS
<1> DEFINE h == lastIdx + 1
           m == IF HorizonActive THEN NoMemo ELSE memo
           t == BlockTime(m, h)
<1>t. lastIdx \in Nat /\ h \in Nat /\ h # 0
  BY TypesOfInv
<1>m. /\ memo' = Remember(m, h) /\ pc = "time"
      /\ IF t = 0 THEN EndPass
                  ELSE /\ pc' = "apply" /\ UNCHANGED <<mustExit, cursors>>
                       /\ input' = [input EXCEPT !.time = t]
      /\ UNCHANGED <<decoderVars, tables, haltSeen, faults, age>>
  BY DEF ReadBlockTime, GoTo
<1>n. memo' \in [h : Nat, v : Nat]
  BY <1>m, <1>t, MemoryTypes
<1>1. CASE t = 0
  BY <1>1, <1>m, <1>n, EndPassKeepsInv, MemoryTypes
<1>2. CASE t # 0
  <2>u. UNCHANGED <<chain, events, age, rows, markers, afterId, reorgs, lastDec,
                    lastIdx>>
    BY <1>2, <1>m DEF decoderVars, tables, cursors
  <2>e. pc' = "apply" /\ input' = [input EXCEPT !.time = t]
    BY <1>2, <1>m
  <2>i. input \in [data : Nat, time : Nat]
    BY DEF Inv, TypeOK
  <2>x. t \in Nat /\ (HorizonActive => t = Decoded(h))
    <3>1. HorizonActive => t = Decoded(h)
      BY <1>t DEF NoMemo, BlockTime
    <3>2. ~HorizonActive => t = BlockTime(memo, h)
      OBVIOUS
    <3> QED BY ZenonT(60), <1>t, <3>1, <3>2, MemoryTypes
  <2>d. /\ input' \in [data : Nat, time : Nat]
        /\ input'.data = input.data /\ input'.time = t
    BY <2>e, <2>i, <2>x
  <2>k. /\ Cursor' = Cursor /\ IndexedTip' = IndexedTip
        /\ NoGap' /\ RowsFollow' /\ MixedWindowBounded'
        /\ HorizonActive => StaleTimeIsOrphaned'
        /\ \A g : Decoded(g)' = Decoded(g)
        /\ \A g : Orphaned(g)' <=> Orphaned(g)
    BY <2>u, TablesKept
  <2>1. TypeOK'
    <3>1. UNCHANGED <<halted, nextV, haltSeen, mustExit, faults>>
      BY <1>2, <1>m DEF decoderVars
    <3> QED BY <1>n, <2>u, <2>e, <2>d, <3>1 DEF Inv, TypeOK, Steps
  <2>2. ReorgsAreNext' /\ TipIsRead' /\ RolledBack' /\ LostHeightsHaveEvents'
    BY <1>m, <2>u, <2>e, <2>k DEF Inv, ReorgsAreNext, TipIsRead, RolledBack,
       LostHeightsHaveEvents
  <2>3. InputFollows' /\ AgeFollowsProbe'
    BY <1>m, <2>u, <2>d, <2>e, <2>k DEF Inv, InputFollows, AgeFollowsProbe
  <2>4. TimeFollows'
    BY <2>u, <2>d, <2>k, <2>x DEF TimeFollows
  <2> QED BY <2>k, <2>1, <2>2, <2>3, <2>4 DEF Inv
<1> QED BY <1>1, <1>2

\* The committed block extends the table by one height, and is the decoder's
\* unless its height is orphaned already.
LEMMA CommitBlockKeepsInv == Inv /\ CommitBlock => Inv'
<1> SUFFICES ASSUME Inv, CommitBlock PROVE Inv'
  OBVIOUS
<1> DEFINE h == lastIdx + 1
           new == [h |-> h, data |-> input.data, time |-> input.time]
<1>u. UNCHANGED <<chain, events, markers, afterId, reorgs, lastDec, lastIdx>>
  BY DEF CommitBlock, decoderVars, cursors
<1>e. /\ pc = "apply" /\ pc' = "after" /\ rows' = rows \cup {new}
      /\ age' = [i \in DOMAIN age |-> age[i] + 1] /\ input' = NoInput
  BY DEF CommitBlock, GoTo
<1>t. /\ lastIdx \in Nat /\ h \in Nat /\ lastDec \in Nat /\ Len(chain) \in Nat
      /\ Len(events) \in Nat /\ Len(reorgs) \in Nat /\ Cursor \in Nat
      /\ \A r \in rows : r \in Row /\ r.h \in Nat
      /\ \A i \in 1 .. Len(age) : age[i] \in Nat
  BY TypesOfInv
<1>n. /\ new \in Row /\ new.h = h /\ new.data = input.data
      /\ new.time = input.time
  BY <1>t DEF Inv, TypeOK, Row
<1>l. lastIdx = IndexedTip /\ h \in 1 .. lastDec
  BY <1>e, <1>t DEF Inv, TipIsRead
<1>a. /\ age' \in Seq(Nat) /\ Len(age') = Len(age) /\ Len(age) = Len(events)
      /\ \A i \in 1 .. Len(events) : age'[i] = age[i] + 1
  <2>1. age \in Seq(Nat) /\ Len(age) = Len(events)
    BY DEF Inv, TypeOK, ReorgsAreNext
  <2>2. DOMAIN age = 1 .. Len(age)
    BY <2>1
  <2> QED BY <1>e, <1>t, <2>1, <2>2
<1>o. /\ Cursor' = Cursor
      /\ \A g : (Orphaned(g)' <=> Orphaned(g)) /\ Decoded(g)' = Decoded(g)
  <2>1. Cursor' = Cursor
    BY <1>u, TableReadsFrame
  <2> QED BY <1>u, <2>1 DEF Orphaned, Decoded
<1>g. IndexedTip' = h /\ NoGap'
  <2>1. \A r \in rows' : r.h \in 1 .. h
    BY <1>e, <1>l, <1>n, <1>t DEF Inv, NoGap
  <2>2. ASSUME NEW g \in 1 .. h PROVE \E r \in rows' : r.h = g
    <3>1. CASE g = h
      BY <1>e, <1>n, <3>1
    <3>2. CASE g \in 1 .. IndexedTip
      BY <1>e, <3>2 DEF Inv, NoGap
    <3> QED BY <1>l, <1>t, <3>1, <3>2
  <2>3. IndexedTip' = h
    BY <1>t, <2>1, <2>2, TipOfContiguous
  <2>4. \A r \in rows : r.h # h
    BY <1>l, <1>t DEF Inv, NoGap
  <2>5. \A r, s \in rows' : r.h = s.h => r = s
    BY <1>e, <1>n, <2>4 DEF Inv, NoGap
  <2> QED BY <2>1, <2>2, <2>3, <2>5 DEF NoGap
<1>1. TypeOK'
  <2>1. UNCHANGED <<halted, nextV, haltSeen, memo, mustExit, faults>>
    BY DEF CommitBlock, GoTo, decoderVars
  <2>2. rows' \subseteq Row /\ input' \in [data : Nat, time : Nat]
    BY <1>e, <1>n, <1>t DEF NoInput
  <2> QED BY <1>u, <1>e, <1>a, <2>1, <2>2 DEF Inv, TypeOK, Steps
<1>2. ReorgsAreNext'
  BY SMTT(60), <1>u, <1>e, <1>a, <1>o DEF Inv, ReorgsAreNext
<1>3. TipIsRead' /\ RolledBack' /\ LostHeightsHaveEvents'
  BY <1>u, <1>e, <1>g, <1>o, <1>t DEF Inv, TipIsRead, RolledBack, LostHeightsHaveEvents
<1>4. h > Len(chain) => Orphaned(h)
  <2> SUFFICES ASSUME h > Len(chain) PROVE Orphaned(h)
    OBVIOUS
  <2>1. PICK i \in 1 .. Len(events) : i > Cursor + Len(reorgs) /\ events[i] <= h
    BY <1>l DEF Inv, LostHeightsHaveEvents
  <2> QED BY <1>t, <2>1 DEF Orphaned
<1>5. RowsFollow'
  <2>1. (new.data # Decoded(h) \/ h > Len(chain)) => Orphaned(h)
    BY <1>e, <1>n, <1>4 DEF Inv, InputFollows
  <2> QED BY <1>u, <1>e, <1>n, <1>o, <2>1 DEF Inv, RowsFollow
<1>6. InputFollows'
  BY <1>e DEF InputFollows
<1>7. TimeFollows'
  <2> SUFFICES ASSUME HorizonActive PROVE StaleTimeIsOrphaned'
    BY <1>e DEF TimeFollows
  <2>1. new.time # Decoded(h) => Orphaned(h)
    BY <1>e, <1>n DEF Inv, TimeFollows
  <2> QED BY <1>e, <1>n, <1>o, <2>1 DEF Inv, TimeFollows, StaleTimeIsOrphaned
<1>8. ASSUME NEW i \in 1 .. Len(events), i > Cursor
      PROVE  /\ age[i] \in Nat /\ age[i] <= lastIdx % RecheckBlocks
             /\ lastIdx % RecheckBlocks \in Nat
             /\ lastIdx % RecheckBlocks < RecheckBlocks
  <2>1. Len(reorgs) = 0 /\ Cursor + Len(reorgs) = Cursor
    BY <1>e, <1>t DEF Inv, ReorgsAreNext
  <2>2. age[i] <= lastIdx % RecheckBlocks
    BY <1>e, <1>8, <2>1 DEF Inv, AgeFollowsProbe
  <2>3. lastIdx % RecheckBlocks \in Nat /\ lastIdx % RecheckBlocks < RecheckBlocks
    BY <1>t, RecheckAssumption
  <2> QED BY <1>a, <1>t, <2>2, <2>3
<1>9. MixedWindowBounded'
  BY <1>a, <1>o, <1>u, <1>8, RecheckAssumption DEF MixedWindowBounded
<1>10. AgeFollowsProbe'
  <2> SUFFICES ASSUME NEW i \in 1 .. Len(events), i > Cursor + Len(reorgs)
               PROVE  age'[i] <= (lastIdx % RecheckBlocks) + 1
    BY <1>u, <1>e, <1>o DEF AgeFollowsProbe
  <2>1. i > Cursor
    BY <1>t
  <2> QED BY <1>a, <1>8, <2>1
<1> QED BY <1>g, <1>1, <1>2, <1>3, <1>5, <1>6, <1>7, <1>9, <1>10 DEF Inv

\* The loop counter catches up with the table, and the decoder tip is fresh.
LEMMA AfterCommitKeepsInv == Inv /\ AfterCommit => Inv'
<1> SUFFICES ASSUME Inv, AfterCommit PROVE Inv'
  OBVIOUS
<1>u. UNCHANGED <<decoderVars, tables, haltSeen, memo, faults, age>> /\ pc = "after"
  BY DEF AfterCommit
<1>1. CASE EndPass
  BY <1>u, <1>1, EndPassKeepsInv, MemoryTypes
<1>2. CASE /\ pc' = "loop" /\ lastIdx' = lastIdx + 1 /\ lastDec' = Len(chain)
           /\ UNCHANGED <<mustExit, afterId, reorgs, input>>
  <2>u. UNCHANGED <<chain, events, age, rows, markers, afterId, reorgs, input>>
    BY <1>u, <1>2 DEF decoderVars, tables
  <2>k. /\ Cursor' = Cursor /\ IndexedTip' = IndexedTip
        /\ NoGap' /\ RowsFollow' /\ MixedWindowBounded'
        /\ HorizonActive => StaleTimeIsOrphaned'
    BY <2>u, TablesKept
  <2>t. lastIdx \in Nat /\ Len(chain) \in Nat
    BY TypesOfInv
  <2>1. TypeOK'
    <3>1. UNCHANGED <<halted, nextV, haltSeen, memo, mustExit, faults>>
      BY SMTT(60), <1>u, <1>2 DEF decoderVars
    <3> QED BY <1>2, <2>u, <2>t, <3>1 DEF Inv, TypeOK, Steps
  <2>2. ReorgsAreNext' /\ TipIsRead' /\ RolledBack'
    BY <1>u, <1>2, <2>u, <2>k DEF Inv, ReorgsAreNext, TipIsRead, RolledBack
  <2>3. LostHeightsHaveEvents'
    BY <1>2, <2>u, <2>t DEF LostHeightsHaveEvents
  <2>4. InputFollows' /\ TimeFollows'
    BY SMTT(60), <1>2, <2>k DEF InputFollows, TimeFollows
  <2>5. AgeFollowsProbe'
    <3>1. lastIdx' - 1 = lastIdx
      BY <1>2, <2>t
    <3> QED BY <1>u, <1>2, <2>u, <2>k, <3>1 DEF Inv, AgeFollowsProbe
  <2> QED BY <2>k, <2>1, <2>2, <2>3, <2>4, <2>5 DEF Inv
<1> QED BY <1>1, <1>2 DEF AfterCommit, GoTo

-----------------------------------------------------------------------------
(* The theorems.                                                           *)

\* The invariant holds at start-up.
LEMMA InitInv == Init => Inv
<1> SUFFICES ASSUME Init PROVE Inv
  OBVIOUS
<1>1. TypeOK
  <2>1. halted \in BOOLEAN /\ mustExit \in BOOLEAN
    BY ZenonT(60) DEF Init
  <2>2. input \in [data : Nat, time : Nat] /\ memo \in [h : Nat, v : Nat]
    BY DEF Init, NoInput, NoMemo
  <2>3. /\ chain \in Seq(Nat) /\ events \in Seq(Nat \ {0}) /\ age \in Seq(Nat)
        /\ markers \in Seq(Nat) /\ reorgs \in Seq(Nat) /\ rows \subseteq Row
    BY DEF Init
  <2>4. /\ nextV \in Nat /\ afterId \in Nat /\ lastDec \in Nat /\ lastIdx \in Nat
        /\ faults \in Nat /\ pc \in Steps
        /\ haltSeen \in {"unread", "halted", "clear"}
    BY DEF Init, Steps
  <2> QED BY <2>1, <2>2, <2>3, <2>4 DEF TypeOK
<1>2. Cursor = 0 /\ IndexedTip = 0 /\ rows = {} /\ events = <<>> /\ age = <<>>
      /\ reorgs = <<>> /\ pc = "cursors" /\ lastDec = 0
  BY DEF Init, Cursor, IndexedTip
<1>3. ReorgsAreNext /\ TipIsRead /\ RolledBack /\ LostHeightsHaveEvents
  BY <1>2 DEF ReorgsAreNext, TipIsRead, RolledBack, LostHeightsHaveEvents
<1>4. NoGap /\ RowsFollow /\ InputFollows /\ TimeFollows /\ StaleTimeIsOrphaned
  BY <1>2 DEF NoGap, RowsFollow, InputFollows, TimeFollows, StaleTimeIsOrphaned
<1>5. MixedWindowBounded /\ AgeFollowsProbe
  BY <1>2 DEF MixedWindowBounded, AgeFollowsProbe
<1> QED BY <1>1, <1>3, <1>4, <1>5 DEF Inv

\* Every step keeps the invariant.
LEMMA NextInv == Inv /\ [Next]_vars => Inv'
<1> SUFFICES ASSUME Inv, [Next]_vars PROVE Inv'
  OBVIOUS
<1>1. CASE Decoder
  BY <1>1, DecodeKeepsInv, OrphanKeepsInv, HaltKeepsInv DEF Decoder
<1>2. CASE ReadReorgs \/ ProbeHalt \/ ReadTips
  BY <1>2, ReadReorgsKeepsInv, ProbeHaltKeepsInv, ReadTipsKeepsInv
<1>3. CASE RollBack \/ Mark \/ Hold \/ CatchUp
  BY <1>3, RollBackKeepsInv, MarkKeepsInv, HoldKeepsInv, CatchUpKeepsInv
<1>4. CASE ReadBlockData \/ ReadBlockTime \/ CommitBlock \/ AfterCommit
  BY SMTT(60), <1>4, ReadBlockDataKeepsInv, ReadBlockTimeKeepsInv, CommitBlockKeepsInv,
     AfterCommitKeepsInv
<1>5. CASE DeferOnTrainGate \/ AbandonBlock
  <2>1. EndPass /\ UNCHANGED <<decoderVars, tables, haltSeen, memo, faults, age>>
    BY <1>5 DEF DeferOnTrainGate, AbandonBlock
  <2> QED BY <2>1, EndPassKeepsInv, MemoryTypes
<1>6. CASE RideOutDbOutage \/ Crash
  <2>1. /\ EndPass /\ UNCHANGED <<decoderVars, tables, age>>
        /\ faults' = faults + 1 /\ haltSeen' \in {"unread", haltSeen}
        /\ memo' \in {memo, NoMemo}
    BY <1>6 DEF RideOutDbOutage, Crash
  <2>t. faults \in Nat /\ haltSeen \in {"unread", "halted", "clear"}
    BY MemoryTypes
  <2>2. faults' \in Nat /\ haltSeen' \in {"unread", "halted", "clear"}
    BY <2>1, <2>t
  <2>3. memo' \in [h : Nat, v : Nat]
    BY ZenonT(60), <2>1, MemoryTypes
  <2> QED BY <2>1, <2>2, <2>3, EndPassKeepsInv
<1>7. CASE UNCHANGED vars
  <2>u. UNCHANGED <<chain, events, age, rows, markers, pc, afterId, reorgs,
                    lastDec, lastIdx, input>>
    BY <1>7 DEF vars
  <2>k. /\ Cursor' = Cursor /\ IndexedTip' = IndexedTip
        /\ NoGap' /\ RowsFollow' /\ MixedWindowBounded'
        /\ HorizonActive => StaleTimeIsOrphaned'
        /\ \A h : Decoded(h)' = Decoded(h)
        /\ \A h : Orphaned(h)' <=> Orphaned(h)
    BY <2>u, TablesKept
  <2>1. TypeOK'
    BY SMTT(60), <1>7 DEF Inv, TypeOK, vars
  <2>2. ReorgsAreNext' /\ TipIsRead' /\ RolledBack' /\ LostHeightsHaveEvents'
    BY SMTT(60), <2>u, <2>k DEF Inv, ReorgsAreNext, TipIsRead, RolledBack, LostHeightsHaveEvents
  <2>3. InputFollows' /\ TimeFollows' /\ AgeFollowsProbe'
    BY <2>u, <2>k DEF Inv, InputFollows, TimeFollows, AgeFollowsProbe
  <2> QED BY <2>k, <2>1, <2>2, <2>3 DEF Inv
<1> QED BY <1>1, <1>2, <1>3, <1>4, <1>5, <1>6, <1>7 DEF Next, Pass

\* The inductive invariant of the block loop holds in every reachable state.
THEOREM BlockLoopInvariant == Spec => []Inv
BY InitInv, NextInv, PTL DEF Spec

\* Every variable of the loop keeps its type.
THEOREM TypeCorrect == Spec => []TypeOK
<1>1. Inv => TypeOK
  BY DEF Inv
<1> QED BY BlockLoopInvariant, <1>1, PTL

\* An indexed block that is not the decoder's is always covered by a reorg
\* event still to be recorded: no crash, outage or racing reorg strands one.
THEOREM StaleDataOrphaned == Spec => []StaleDataIsOrphaned
<1>1. Inv => StaleDataIsOrphaned
  BY DEF Inv, RowsFollow, StaleDataIsOrphaned
<1> QED BY BlockLoopInvariant, <1>1, PTL

\* The same of the time a block was processed under, where the horizon read
\* precedes it.
THEOREM StaleTimeOrphaned == HorizonActive => (Spec => []StaleTimeIsOrphaned)
<1> SUFFICES ASSUME HorizonActive PROVE Spec => []StaleTimeIsOrphaned
  OBVIOUS
<1>1. Inv => StaleTimeIsOrphaned
  BY DEF Inv, TimeFollows
<1> QED BY BlockLoopInvariant, <1>1, PTL

\* The indexed heights never have a gap or a duplicate.
THEOREM NeverAGap == Spec => []NoGap
<1>1. Inv => NoGap
  BY DEF Inv
<1> QED BY BlockLoopInvariant, <1>1, PTL

\* At most RecheckBlocks blocks are committed over an unrecorded reorg.
THEOREM WindowBounded == Spec => []MixedWindowBounded
<1>1. Inv => MixedWindowBounded
  BY DEF Inv
<1> QED BY BlockLoopInvariant, <1>1, PTL

\* The five together: what processBlock leaves in the index is sound, whatever
\* the decoder does between two of its reads.
THEOREM IndexSound == HorizonActive => (Spec => []IndexIsSound)
<1> SUFFICES ASSUME HorizonActive PROVE Spec => []IndexIsSound
  OBVIOUS
<1>1. Inv => IndexIsSound
  BY DEF Inv, RowsFollow, TimeFollows, StaleDataIsOrphaned, IndexIsSound
<1> QED BY BlockLoopInvariant, <1>1, PTL

\* Every deleted block is at or above an unrecorded reorg: a crash between the
\* rollback and its markers, or a retry, never rolls anything else back.
THEOREM RollbackJustified == Spec => RollbackIsJustified
<1>1. Inv /\ [Next]_vars => [\A r \in rows : r \notin rows' => Orphaned(r.h)]_vars
  <2> SUFFICES ASSUME Inv, Next, NEW r \in rows, r \notin rows'
               PROVE  Orphaned(r.h)
    BY SMTT(60)
  <2>1. RollBack
    BY DEF Next, Decoder, Pass, Decode, Orphan, Halt, ClearHalt, ReadReorgs,
       ProbeHalt, ReadTips, Mark, Hold, CatchUp, DeferOnTrainGate,
       ReadBlockData, ReadBlockTime, AbandonBlock, CommitBlock, AfterCommit,
       RideOutDbOutage, Crash, tables, indexerVars
  <2>s. DOMAIN reorgs = 1 .. Len(reorgs) /\ Len(reorgs) \in Nat
    BY DEF Inv, TypeOK
  <2>n. \A i \in 1 .. Len(reorgs) :
          reorgs[i] = Cursor + i /\ reorgs[i] \in 1 .. Len(events)
    BY <2>s, TypesOfInv DEF Inv, ReorgsAreNext
  <2>2. PICK i \in 1 .. Len(reorgs) : events[reorgs[i]] <= r.h
    <3>1. PICK m \in {events[reorgs[i]] : i \in DOMAIN reorgs} : r \notin {s \in rows : s.h < m}
      BY <2>1 DEF RollBack
    <3>2. PICK i \in 1 .. Len(reorgs) : m = events[reorgs[i]]
      BY <2>s
    <3>3. r.h \in Nat /\ m \in Nat
      BY <2>n, <3>2, TypesOfInv
    <3> QED BY SMTT(60), <3>1, <3>2, <3>3
  <2>3. reorgs[i] \in 1 .. Len(events) /\ reorgs[i] > Cursor
    BY <2>n, TypesOfInv
  <2> QED BY <2>2, <2>3 DEF Orphaned
<1> QED BY <1>1, BlockLoopInvariant, PTL DEF Spec, RollbackIsJustified

\* The durable cursor advances event by event, each time over an index that
\* holds nothing at or above the event's block.
THEOREM MarkersFollow == Spec => MarkersFollowEvents
<1>1. Inv /\ [Next]_vars =>
        [Cursor' # Cursor => /\ Cursor' = Cursor + 1
                             /\ \A r \in rows : r.h < events[Cursor']]_vars
  <2> SUFFICES ASSUME Inv, Next, Cursor' # Cursor
               PROVE  /\ Cursor' = Cursor + 1
                      /\ \A r \in rows : r.h < events[Cursor']
    OBVIOUS
  <2>1. markers' # markers
    BY SMTT(60), TableReadsFrame
  <2>2. Mark
    BY <2>1 DEF Next, Decoder, Pass, Decode, Orphan, Halt, ClearHalt, ReadReorgs,
       ProbeHalt, ReadTips, RollBack, Hold, CatchUp, DeferOnTrainGate,
       ReadBlockData, ReadBlockTime, AbandonBlock, CommitBlock, AfterCommit,
       RideOutDbOutage, Crash, tables, indexerVars
  <2> QED BY <2>2, MarkAdvances
<1> QED BY <1>1, BlockLoopInvariant, PTL DEF Spec, MarkersFollowEvents

\* applyPendingReorgs neither rolls back nor records a reorg without cause.
THEOREM StepsJustified == Spec => StepsAreJustified
BY RollbackJustified, MarkersFollow, PTL DEF StepsAreJustified

\* The step that changes the replica, the cursor or the decoder's tables is one
\* step of the follower, and every other step is none.
LEMMA StepRefines == Inv /\ [Next]_vars => [Follower!Next]_(Follower!follower)
<1> DEFINE rep == {[h |-> r.h, v |-> r.data] : r \in rows}
<1> SUFFICES ASSUME Inv, [Next]_vars
             PROVE  [Follower!Next]_(Follower!follower)
  OBVIOUS
<1>q. ASSUME UNCHANGED <<chain, events, rows, markers>>
      PROVE  UNCHANGED Follower!follower
  <2>1. Cursor' = Cursor
    BY SMTT(60), <1>q, TableReadsFrame
  <2> QED BY <1>q, <2>1 DEF Follower!follower
<1>r. ASSUME UNCHANGED <<rows, markers>>
      PROVE  Cursor' = Cursor /\ rep' = rep
  BY <1>r, TableReadsFrame
<1>1. CASE Decode
  <2>1. UNCHANGED <<events, rows, markers>> /\ chain' = Append(chain, nextV)
    BY <1>1 DEF Decode, indexerVars
  <2>2. /\ Len(chain') = Len(chain) + 1
        /\ chain' = Append(chain, chain'[Len(chain) + 1])
    BY SMTT(60), <2>1, AppendProperties DEF Inv, TypeOK
  <2>3. Follower!Grow
    BY <1>r, <2>1, <2>2 DEF Follower!Grow
  <2> QED BY <2>3 DEF Follower!Next
<1>2. CASE Orphan
  <2>1. /\ chain # <<>> /\ chain' = SubSeq(chain, 1, Len(chain) - 1)
        /\ events' = Append(events, Len(chain)) /\ UNCHANGED <<rows, markers>>
    BY <1>2 DEF Orphan, indexerVars
  <2>2. Follower!Drop
    BY <1>r, <2>1 DEF Follower!Drop
  <2> QED BY <2>2 DEF Follower!Next
<1>3. CASE RollBack
  <2>u. UNCHANGED <<chain, events, markers>>
    BY <1>3 DEF RollBack, decoderVars
  <2>c. Cursor' = Cursor
    BY <2>u, TableReadsFrame
  <2>1. CASE rows' = rows
    BY <1>q, <2>u, <2>1
  <2>2. CASE rows' # rows
    <3>1. PICK i \in DOMAIN reorgs : rows' = {r \in rows : r.h < events[reorgs[i]]}
      BY <1>3, <2>2 DEF RollBack
    <3>2. DOMAIN reorgs = 1 .. Len(reorgs) /\ Len(reorgs) \in Nat
      BY DEF Inv, TypeOK
    <3>3. reorgs[i] \in 1 .. Len(events) /\ reorgs[i] > Cursor
      <4>1. ReorgsAreNext /\ Cursor \in Nat /\ Len(events) \in Nat
        BY TypesOfInv DEF Inv
      <4>2. i \in 1 .. Len(reorgs) /\ reorgs[i] = Cursor + i
        BY <3>2, <4>1 DEF ReorgsAreNext
      <4>3. Cursor + Len(reorgs) <= Len(events)
        BY SMTT(60), <4>1 DEF ReorgsAreNext
      <4> HIDE DEF Cursor
      <4> QED BY <3>2, <4>1, <4>2, <4>3
    <3>4. rep' = {x \in rep : x.h < events[reorgs[i]]}
      BY SMTT(60), <3>1
    <3>5. Follower!Unwind
      BY <2>c, <2>u, <3>3, <3>4 DEF Follower!Unwind
    <3> QED BY SMTT(60), <3>5 DEF Follower!Next
  <2> QED BY SMTT(60), <2>1, <2>2
<1>4. CASE Mark
  <2>u. UNCHANGED <<chain, events, rows>> /\ rep' = rep
    BY <1>4 DEF Mark, decoderVars
  <2>3. Cursor' = Cursor + 1 /\ Cursor < Len(events)
    BY <1>4, MarkAdvances
  <2>6. \A r \in rows : r.h < events[Cursor + 1]
    BY <1>4, MarkAdvances
  <2>7. \A x \in rep : x.h < events[Cursor + 1]
    BY SMTT(60), <2>6
  <2>8. Follower!Acknowledge
    BY <2>u, <2>3, <2>7 DEF Follower!Acknowledge
  <2> QED BY SMTT(60), <2>8 DEF Follower!Next
<1>5. CASE CommitBlock
  <2> DEFINE g == lastIdx + 1
             new == [h |-> g, v |-> input.data]
  <2>u. UNCHANGED <<chain, events, markers>>
    BY <1>5 DEF CommitBlock, decoderVars
  <2>c. Cursor' = Cursor
    BY <2>u, TableReadsFrame
  <2>t. /\ lastIdx \in Nat /\ g \in Nat /\ lastDec \in Nat /\ Len(chain) \in Nat
        /\ Len(events) \in Nat /\ Len(reorgs) \in Nat /\ Cursor \in Nat
    BY SMTT(60), TypesOfInv
  <2>1. rep' = rep \cup {new}
    <3> DEFINE row == [h |-> g, data |-> input.data, time |-> input.time]
    <3>1. rows' = rows \cup {row}
      BY <1>5 DEF CommitBlock
    <3>2. row.h = g /\ row.data = input.data
      OBVIOUS
    <3> HIDE DEF row
    <3>3. rep' = {[h |-> r.h, v |-> r.data] : r \in rows \cup {row}}
      BY <3>1
    <3>4. \A x : x \in rep' <=> x \in rep \/ x = [h |-> row.h, v |-> row.data]
      BY <3>3
    <3> QED BY <3>2, <3>4
  <2>2. lastIdx = IndexedTip /\ g \in 1 .. lastDec /\ pc = "apply"
    BY SMTT(60), <1>5, <2>t DEF Inv, TipIsRead, CommitBlock
  <2>3. {x.h : x \in rep} = 1 .. (g - 1)
    <3>1. \A x \in rep : \E r \in rows : x.h = r.h
      OBVIOUS
    <3>2. ASSUME NEW r \in rows PROVE \E x \in rep : x.h = r.h
      <4>1. [h |-> r.h, v |-> r.data] \in rep
        OBVIOUS
      <4> QED BY <4>1
    <3>3. g - 1 = IndexedTip
      BY <2>2, <2>t
    <3> QED BY <3>1, <3>2, <3>3 DEF Inv, NoGap
  <2>4. g > Len(chain) => Orphaned(g)
    <3> SUFFICES ASSUME g > Len(chain) PROVE Orphaned(g)
      OBVIOUS
    <3>1. PICK i \in 1 .. Len(events) : i > Cursor + Len(reorgs) /\ events[i] <= g
      BY <2>2 DEF Inv, LostHeightsHaveEvents
    <3> QED BY <2>t, <3>1 DEF Orphaned
  <2>5. Orphaned(g) \/ (g \in 1 .. Len(chain) /\ input.data = chain[g])
    BY SMTT(60), <2>2, <2>4, <2>t DEF Inv, InputFollows, Decoded
  <2>6. new \in rep' /\ new.h = g /\ new.v = input.data
    BY SMTT(60), <2>1
  <2>7. Follower!Invalid(g) <=> Orphaned(g)
    BY DEF Follower!Invalid, Orphaned
  <2> HIDE DEF rep, new, g
  <2>8. \E r \in rep' :
          /\ rep' = rep \cup {r}
          /\ {s.h : s \in rep} = 1 .. (r.h - 1)
          /\ Follower!Invalid(r.h) \/ (r.h \in 1 .. Len(chain) /\ r.v = chain[r.h])
    BY SMTT(60), <2>1, <2>3, <2>5, <2>6, <2>7
  <2>9. Follower!Copy
    BY SMTT(60), <2>8, <2>c, <2>u DEF Follower!Copy, rep
  <2> QED BY <2>9 DEF Follower!Next
<1>6. CASE Halt \/ ClearHalt \/ ReadReorgs \/ ProbeHalt \/ ReadTips \/ Hold \/ CatchUp
  BY <1>6, <1>q DEF Halt, ClearHalt, ReadReorgs, ProbeHalt, ReadTips, Hold, CatchUp,
     decoderVars, tables, indexerVars
<1>7. CASE \/ DeferOnTrainGate \/ ReadBlockData \/ ReadBlockTime \/ AbandonBlock
           \/ AfterCommit \/ RideOutDbOutage \/ Crash
  BY <1>7, <1>q DEF DeferOnTrainGate, ReadBlockData, ReadBlockTime, AbandonBlock,
     AfterCommit, RideOutDbOutage, Crash, decoderVars, tables
<1>8. CASE UNCHANGED vars
  BY <1>8, <1>q DEF vars
<1> QED BY <1>1, <1>2, <1>3, <1>4, <1>5, <1>6, <1>7, <1>8 DEF Next, Decoder, Pass

\* The block loop, with its polls, cursors and faults, implements the follower.
THEOREM LoopFollowsChain == Spec => FollowsChain
<1>1. Init => Follower!Init
  BY DEF Init, Follower!Init, Cursor
<1> QED BY <1>1, StepRefines, BlockLoopInvariant, PTL DEF Spec, FollowsChain, Follower!Spec
=============================================================================
