------------------------------ MODULE MCHotWallet ------------------------------
(* Instances of HotWallet for TLC. *)
EXTENDS HotWallet, TLC

CONSTANTS alice, bob, usdc, fxn

Ask(via, genuine, from, asset, amount) ==
    [via |-> via, decodes |-> TRUE, genuine |-> genuine, from |-> from,
     to |-> bob, asset |-> asset, amount |-> amount]

(* That of SOL is above MaxAmount; FXN has none; only Alice is listed.     *)
LimitOf == "SOL" :> 5 @@ usdc :> 1

(* A mesh and an HTTP request for one token; a mesh request over the limit; *)
(* an amount no instruction can carry.                                      *)
Mixed ==
    <<Ask("mesh", TRUE, alice, usdc, 1), Ask("http", TRUE, alice, usdc, 1),
      Ask("mesh", TRUE, alice, usdc, 2), Ask("http", TRUE, alice, "SOL", 4)>>

=============================================================================
