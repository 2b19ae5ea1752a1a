----------------------------- MODULE MCCrossDex -----------------------------
(* Instances of CrossDex for TLC. *)
EXTENDS CrossDex

\* What an offer asks for on the other chain is never read on this one.
Offer(kind, src, tick, give, coin, get, want, until, allow) ==
    [kind |-> kind, src |-> src, tick |-> tick, give |-> give, coin |-> coin, get |-> get,
     want |-> want, until |-> until, allow |-> allow]

\* Local swaps of both directions, one of them closed to user 2; a
\* cross-chain swap that expires early and a cross-chain order.
MCOffers ==
    {Offer("swap", 1, "A", 1, "here", "B", 1, 9, {3}),
     Offer("swap", 2, "B", 1, "here", "A", 1, 9, {}),
     Offer("swap", 1, "A", 2, "there", "X", 1, 2, {}),
     Offer("order", 1, "A", 2, "there", "X", 2, 9, {})}

\* An edit opens the swap to user 2 and brings its expiration forward.
MCEdits == {[until |-> 4, allow |-> {2}]}

Match(leg, kind, give, admit, snap, quorum) ==
    [leg |-> leg, kind |-> kind, tick |-> "A", give |-> give, get |-> 1, coin |-> "there",
     admit |-> admit, snap |-> snap, quorum |-> quorum, live |-> TRUE]

\* Two matches of one order that name more than it gives; a match of a swap
\* ahead of one whose validator set comes late; a match without a quorum.
MCMirrors ==
    {<<Match(1, "order", 1, 1, 0, TRUE), Match(1, "order", 2, 2, 0, TRUE)>>,
     <<Match(1, "swap", 3, 2, 0, TRUE), Match(2, "order", 2, 1, 3, TRUE)>>,
     <<Match(2, "order", 1, 1, 0, FALSE), Match(1, "swap", 2, 2, 0, TRUE)>>}
=============================================================================
