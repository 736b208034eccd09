---------------------- MODULE MCBlockchainSynchronizer ----------------------
(***************************************************************************)
(* The daemon starts at a7 and moves to b8:                                *)
(*                                                                         *)
(*     g --- a1 --- ... --- a5 --- a6 --- a7                               *)
(*                            \                                            *)
(*                             b6 --- b7 --- b8                            *)
(***************************************************************************)
EXTENDS BlockchainSynchronizer, TLC

CONSTANTS c, d, g, a1, a2, a3, a4, a5, a6, a7, b6, b7, b8, none, t

MCConsumers == {c, d}
Trunk == <<g, a1, a2, a3, a4, a5>>
MCPath == [b \in Range(Trunk) |->
             SubSeq(Trunk, 1, CHOOSE n \in 1..Len(Trunk) : Trunk[n] = b)]
            @@ (a6 :> Trunk \o <<a6>>) @@ (a7 :> Trunk \o <<a6, a7>>)
            @@ (b6 :> Trunk \o <<b6>>) @@ (b7 :> Trunk \o <<b6, b7>>)
            @@ (b8 :> Trunk \o <<b6, b7, b8>>)
MCBlocks == DOMAIN MCPath
MCNextTips == [b \in MCBlocks |-> IF b = a7 THEN {b8} ELSE {}]
MCTxs == {t}
====
