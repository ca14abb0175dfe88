-------------------------- MODULE MCWalletSelection --------------------------
(* Three addresses in pages of one or two; four outputs, two at one address. *)
EXTENDS WalletSelection, TLC

CONSTANTS x, y, z, o1, o2, o3, o4

MCPlace == x :> 0 @@ y :> 1 @@ z :> 2
MCOwner == o1 :> x @@ o2 :> y @@ o3 :> z @@ o4 :> z
MCCoin == o1 :> 2 @@ o2 :> 3 @@ o3 :> 1 @@ o4 :> 5
=============================================================================
