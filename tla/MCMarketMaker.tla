----------------------------- MODULE MCMarketMaker -----------------------------
(* Small instances of MarketMaker for TLC.                                 *)
EXTENDS MarketMaker
UncrossedBooks == {b \in [Side -> [Price -> Qty]] : Uncrossed(b)}
=============================================================================
