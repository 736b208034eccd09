------------------------- MODULE MCTransactionPool -------------------------
(***************************************************************************)
(* TransactionPool on two small trees of blocks: one with two branches     *)
(* that may overtake each other, and one of these branches alone.          *)
(*                                                                         *)
(*     g - m1 - m2 - m3 - m4        g - n1 - n2 - n3 - n4        n2 - x3   *)
(*                                                                         *)
(* Transactions a and b spend the same output, and so do c and d; the ring *)
(* size of e is outdated from height 2 on.  x3 spends what n1 has spent.   *)
(***************************************************************************)
EXTENDS TransactionPool, TLC

MCTransactions == {"a", "b", "c", "d", "e"}

MCKeyImages == "a" :> {"k1"} @@ "b" :> {"k1"} @@ "c" :> {"k2"} @@ "d" :> {"k2"}
            @@ "e" :> {"k3"}

MCMixinEnd == [t \in MCTransactions |-> IF t = "e" THEN 2 ELSE 9]

MCPrev == "m1" :> "g" @@ "m2" :> "m1" @@ "m3" :> "m2" @@ "m4" :> "m3"
       @@ "n1" :> "g" @@ "n2" :> "n1" @@ "n3" :> "n2" @@ "n4" :> "n3" @@ "x3" :> "n2"

MCBlocks == {"g"} \cup DOMAIN MCPrev

MCTransactionsOf ==
    [b \in MCBlocks |->
        CASE b \in {"m1", "x3"} -> {"a"}
          [] b = "m2" -> {"c"}
          [] b = "n1" -> {"b"}
          [] OTHER -> {}]

MCChainTo ==
    LET c[b \in MCBlocks] == IF b = "g" THEN {"g"} ELSE c[MCPrev[b]] \cup {b} IN c

MCWork == [b \in MCBlocks |-> Cardinality(MCChainTo[b])]

\* The m branch alone: no switch can happen.
LinearBlocks == MCChainTo["m4"]

LinearPrev == [b \in LinearBlocks \ {"g"} |-> MCPrev[b]]

LinearChainTo == [b \in LinearBlocks |-> MCChainTo[b]]

LinearWork == [b \in LinearBlocks |-> MCWork[b]]

LinearTransactionsOf == [b \in LinearBlocks |-> MCTransactionsOf[b]]
=============================================================================
