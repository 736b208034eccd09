---------------------------- MODULE MCWalletSync ----------------------------
(***************************************************************************)
(* Instances of WalletSync for TLC: a trunk up to height 2, and two        *)
(* branches the daemon's main chain may be on.  Difficulty is one per      *)
(* block.                                                                  *)
(*                                                                         *)
(*     g - a1 - a2 - b3 - b4          a2 - c3 - c4 - c5                    *)
(***************************************************************************)
EXTENDS WalletSync, TLC

MCPrev == "a1" :> "g" @@ "a2" :> "a1" @@ "b3" :> "a2" @@ "b4" :> "b3"
          @@ "c3" :> "a2" @@ "c4" :> "c3" @@ "c5" :> "c4"

MCBlocks == {"g"} \cup DOMAIN MCPrev

Parents(B) == B \cup {MCPrev[b] : b \in B \ {"g"}}

MCChainTo == [b \in MCBlocks |-> Parents(Parents(Parents(Parents(Parents({b})))))]

MCHeight == [b \in MCBlocks |-> Cardinality(MCChainTo[b]) - 1]
=============================================================================
