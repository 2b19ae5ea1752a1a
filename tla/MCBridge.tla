------------------------------ MODULE MCBridge ------------------------------
(* Instances of Bridge for TLC. *)
EXTENDS Bridge

Snapshot(seq, snap, admit, good, sleep) ==
    [seq |-> seq, snap |-> snap, admit |-> admit, good |-> good, sleep |-> sleep]

\* One policy from the start; a second that is due before the first, which is
\* refused or late.
MCPolicyRows ==
    {<<Snapshot(1, 1, 1, TRUE, FALSE)>>,
     <<Snapshot(1, 1, 3, TRUE, FALSE), Snapshot(2, 2, 1, TRUE, TRUE)>>,
     <<Snapshot(1, 1, 1, FALSE, FALSE), Snapshot(2, 1, 1, TRUE, FALSE)>>}

MCHeights == [c \in {"origin", "copy"} |-> IF c = "origin" THEN 5 ELSE 3]
MCLegs == [c \in {"origin", "copy"} |-> IF c = "origin" THEN 2 ELSE 1]
MCCheckpoints == {2, 4}

=============================================================================
