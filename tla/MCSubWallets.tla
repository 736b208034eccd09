---------------------------- MODULE MCSubWallets ----------------------------
(***************************************************************************)
(* An instance of SubWallets for TLC: a payment to subwallet B, and a      *)
(* transfer that spends it and returns the change to the primary address.  *)
(*                                                                         *)
(*     pay -> b1        s : b1 -> a2                                       *)
(***************************************************************************)
EXTENDS SubWallets, TLC

MCOwner == "b1" :> "B" @@ "a2" :> "A"
MCUnlock == "b1" :> 0 @@ "a2" :> 3

MCIn == "pay" :> {} @@ "s" :> {"b1"}
MCOut == "pay" :> {"b1"} @@ "s" :> {"a2"}
=============================================================================
