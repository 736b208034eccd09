-------------------------- MODULE MCChainSegments --------------------------
(***************************************************************************)
(* ChainSegments on a fixed tree of blocks; TLC explores every order in    *)
(* which any of them may arrive.  Forks start on four heights:             *)
(*                                                                         *)
(*     g - a1 - a2 - a3 - a4          a1 - b2 - b3 - b4 - b5               *)
(*              a2 - e3                    b2 - c3 - c4                    *)
(*     g - d1 - d2 - d3               a1 - f2 - f3                         *)
(***************************************************************************)
EXTENDS ChainSegments, TLC

MCPrev == "a1" :> "g"  @@ "a2" :> "a1" @@ "a3" :> "a2" @@ "a4" :> "a3" @@ "e3" :> "a2"
       @@ "d1" :> "g"  @@ "d2" :> "d1" @@ "d3" :> "d2"
       @@ "f2" :> "a1" @@ "f3" :> "f2"
       @@ "b2" :> "a1" @@ "b3" :> "b2" @@ "b4" :> "b3" @@ "b5" :> "b4"
       @@ "c3" :> "b2" @@ "c4" :> "c3"

MCBlocks == {"g"} \cup DOMAIN MCPrev

MCHeight ==
    LET h[b \in MCBlocks] == IF b = "g" THEN 0 ELSE h[MCPrev[b]] + 1 IN h

\* The successors of b3 and of c3 have to be heavier than other blocks.
MCNextDifficulty == [b \in MCBlocks |-> IF b \in {"b3", "c3"} THEN 2 ELSE 1]

\* k1 may be spent once on each side of the fork at a1, so d2 is valid and e3
\* is not (a2 spends it below); k2 is spent in a1, so b5 is not valid.
MCKeyImagesOf ==
    [b \in MCBlocks |->
        CASE b \in {"a2", "e3", "b3", "d2"} -> {"k1"}
          [] b \in {"a1", "b5"} -> {"k2"}
          [] OTHER -> {}]

MCCheckpoints == <<>>

\* Only a1 may be on height 1.
OneCheckpoint == 1 :> "a1"
=============================================================================
