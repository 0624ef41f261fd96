----------------------------- MODULE MCWalletTx -----------------------------
(***************************************************************************)
(* WalletTx for TLC, with the values of Wallet.cfg.  Calls are             *)
(* interchangeable, but the run checks liveness, for which a symmetry      *)
(* would not be sound.                                                     *)
(***************************************************************************)
EXTENDS WalletTx

=============================================================================
