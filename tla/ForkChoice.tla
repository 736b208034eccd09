----------------------------- MODULE ForkChoice -----------------------------
(***************************************************************************)
(* What Core promises about its block tree, whatever the bookkeeping: it   *)
(* knows a set of blocks closed under predecessors, its main chain ends in *)
(* the FIRST block seen with the largest cumulative difficulty, and a stop *)
(* of the process costs at most a suffix of the main chain (and all        *)
(* alternative blocks).  ChainSegments implements this specification.      *)
(***************************************************************************)
EXTENDS Integers

CONSTANTS
    Blocks,         \* every block that passes the checks on its own bytes
    Genesis,        \* currency.genesisBlock()
    Prev,           \* previousBlockHash of every block but the genesis block
    ChainTo,        \* the blocks from the genesis block up to a block
    Work            \* cumulative difficulty of the chain that ends in a block

\* A block's hash commits to its predecessor: the blocks form a fixed tree.
ASSUME TreeAssumption ==
    /\ Genesis \in Blocks
    /\ Prev \in [Blocks \ {Genesis} -> Blocks]
    /\ ChainTo \in [Blocks -> SUBSET Blocks]
    /\ ChainTo[Genesis] = {Genesis}
    /\ \A b \in Blocks \ {Genesis} : ChainTo[b] = ChainTo[Prev[b]] \cup {b}
    /\ Work \in [Blocks -> Int]

VARIABLES
    up,             \* the node accepts blocks
    known,          \* the blocks it has stored
    tip             \* the last block of its main chain

forkVars == <<up, known, tip>>

Init ==
    /\ up = TRUE
    /\ known = {Genesis}
    /\ tip = Genesis

\* A block whose predecessor is stored is stored; the main chain moves to it
\* only when its chain has strictly more work than the main chain.
Receive(b) ==
    /\ up
    /\ b \notin known
    /\ Prev[b] \in known
    /\ known' = known \cup {b}
    /\ tip' = IF Work[b] > Work[tip] THEN b ELSE tip
    /\ up' = up

\* An orderly shutdown gives up the alternative chains, not the main chain.
Shutdown ==
    /\ up
    /\ up' = FALSE
    /\ known' = ChainTo[tip]
    /\ tip' = tip

\* The process stops: what is left is the main chain up to some block of it.
Lose ==
    /\ up' = FALSE
    /\ tip' \in ChainTo[tip]
    /\ known' = ChainTo[tip']

Boot ==
    /\ ~up
    /\ up' = TRUE
    /\ UNCHANGED <<known, tip>>

Next ==
    \/ \E b \in Blocks \ {Genesis} : Receive(b)
    \/ Shutdown
    \/ Lose
    \/ Boot

Spec == Init /\ [][Next]_forkVars
=============================================================================
