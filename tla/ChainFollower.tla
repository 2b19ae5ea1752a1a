--------------------------- MODULE ChainFollower ---------------------------
(***************************************************************************)
(* What the block loop promises, without its cursors, polls and faults: a  *)
(* replica follows a source chain that grows and drops blocks.  The source *)
(* lists every block it drops.  The replica is extended block by block, is *)
(* unwound only to a listed drop, and acknowledges the drops in order,     *)
(* each one when it holds nothing at or above it.                          *)
(***************************************************************************)
EXTENDS Integers, Sequences

VARIABLES
  source,    \* the source's block at each height
  dropped,   \* the heights the source dropped, in order
  replica,   \* what was copied: [h, v] records
  acked      \* how many drops are acknowledged

follower == <<source, dropped, replica, acked>>

Init == source = <<>> /\ dropped = <<>> /\ replica = {} /\ acked = 0

\* A drop not acknowledged yet invalidates this height.
Invalid(h) == \E i \in 1 .. Len(dropped) : i > acked /\ dropped[i] <= h

Grow ==
  /\ Len(source') = Len(source) + 1
  /\ source' = Append(source, source'[Len(source) + 1])
  /\ UNCHANGED <<dropped, replica, acked>>

Drop ==
  /\ source # <<>> /\ source' = SubSeq(source, 1, Len(source) - 1)
  /\ dropped' = Append(dropped, Len(source))
  /\ UNCHANGED <<replica, acked>>

\* The next height is copied: the source's block, unless that height is known
\* to be invalid, when it may be anything.
Copy ==
  /\ \E r \in replica' :
       /\ replica' = replica \cup {r}
       /\ {s.h : s \in replica} = 1 .. (r.h - 1)
       /\ Invalid(r.h) \/ (r.h \in 1 .. Len(source) /\ r.v = source[r.h])
  /\ UNCHANGED <<source, dropped, acked>>

Unwind ==
  /\ \E i \in 1 .. Len(dropped) :
       i > acked /\ replica' = {r \in replica : r.h < dropped[i]}
  /\ UNCHANGED <<source, dropped, acked>>

Acknowledge ==
  /\ acked < Len(dropped) /\ acked' = acked + 1
  /\ \A r \in replica : r.h < dropped[acked + 1]
  /\ UNCHANGED <<source, dropped, replica>>

Next == Grow \/ Drop \/ Copy \/ Unwind \/ Acknowledge

Spec == Init /\ [][Next]_follower
=============================================================================
