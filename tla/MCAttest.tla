------------------------------ MODULE MCAttest ------------------------------
(* Instances of Attest for TLC. *)
EXTENDS Attest

\* One request of the home chain, and one of the origin chain that a
\* reorganisation may emit again under another id.
MCOriginAction == [id \in {"f1", "f2"} |-> 1]
MCFee == ("n1" :> 3) @@ ("f1" :> 1) @@ ("f2" :> 1)
MCRedundancy == ("n1" :> 2) @@ ("f1" :> 1) @@ ("f2" :> 1)
MCDeadlineBlocks == ("n1" :> 1) @@ ("f1" :> 2) @@ ("f2" :> 2)
MCRanking == ("n1" :> <<"v1", "v2", "v3">>) @@ ("f1" :> <<"v2", "v3">>) @@ ("f2" :> <<"v2", "v3">>)
MCSignedResponses ==
    {[status |-> "ok", signers |-> {"v1", "v2"}], [status |-> "expired", signers |-> {"v3"}],
     [status |-> "no_quorum", signers |-> {"v1", "v2"}]}
MCHeights == [c \in {"home", "origin"} |-> IF c = "home" THEN 5 ELSE 3]

=============================================================================
