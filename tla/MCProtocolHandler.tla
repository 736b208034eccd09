------------------------- MODULE MCProtocolHandler -------------------------
(***************************************************************************)
(* Two peers, of which p relays lite blocks.  p starts at a1 and moves to  *)
(* a2; q starts at a2 and switches to b3:                                  *)
(*                                                                         *)
(*     g --- a1 --- a2                                                     *)
(*             \                                                           *)
(*              b2 --- b3                                                  *)
(***************************************************************************)
EXTENDS ProtocolHandler, TLC

CONSTANTS us, p, q, g, a1, a2, b2, b3, none, t, u

MCPeers == {p, q}
MCLitePeers == {p}
MCBlocks == {g, a1, a2, b2, b3}
MCPath == (g :> <<g>>) @@ (a1 :> <<g, a1>>) @@ (a2 :> <<g, a1, a2>>)
            @@ (b2 :> <<g, a1, b2>>) @@ (b3 :> <<g, a1, b2, b3>>)
MCPrev == [b \in MCBlocks \ {g} |-> MCPath[b][Len(MCPath[b]) - 1]]

\* Equal difficulties: the chain of more work is the longer one.
EqualWork == [b \in MCBlocks |-> Len(MCPath[b])]

MCTxs == {t, u}
TxInA == [b \in MCBlocks |-> IF b = a2 THEN {t} ELSE {}]

MCStart == (us :> g) @@ (p :> a1) @@ (q :> a2)
MCReach == (p :> {a2, u}) @@ (q :> {b2, b3})
=============================================================================
