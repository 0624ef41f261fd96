----------------------------- MODULE WalletData -----------------------------
(***************************************************************************)
(* The data of the wallet: what a caller of CreditWallet and DebitWallet   *)
(* asks for, and what the two UPDATE statements do with one balance.       *)
(*                                                                         *)
(* An entry is one call's LedgerEntry together with the kind of the call.  *)
(* Its actor, summary, provider and optional references are payload no     *)
(* property tells apart: that the foreign keys among them may be refused   *)
(* is one of the failures of the INSERT (module WalletTx).                 *)
(***************************************************************************)
EXTENDS Integers

CONSTANTS
    Calls,      \* calls of CreditWallet and DebitWallet, one identity each
    Wallets,    \* ids of the rows of table wallets
    WalletIds,  \* ids a caller may pass: the rows, and ids of no row
    Amounts,    \* amounts a caller may pass, in kobo
    MaxBigint,  \* largest value of the bigint column balance
    NoEntry     \* stands for the entry of a call not made yet

(***************************************************************************)
(* Callers pass positive amounts (the comment on LedgerEntry.Amount), and  *)
(* any uuid as the wallet.                                                 *)
(***************************************************************************)
ASSUME BigintAssumption == MaxBigint \in Nat
ASSUME WalletsAssumption == Wallets \subseteq WalletIds
ASSUME AmountsAssumption == Amounts \subseteq 1 .. MaxBigint

Entries ==
    [type : {"credit", "debit"}, wallet : WalletIds, amount : Amounts]

ASSUME NoEntryAssumption == NoEntry \notin Entries

Rows == [call : Calls, entry : Entries]

Results == {"none", "ok", "insufficient", "norows", "error"}

Refusals == {"insufficient", "norows"}

(***************************************************************************)
(* What entry e adds to the balance of its wallet.                         *)
(***************************************************************************)
Delta(e) == IF e.type = "credit" THEN e.amount ELSE -e.amount

(***************************************************************************)
(* The WHERE clauses: the wallet has a row, and a debit is covered.        *)
(***************************************************************************)
MatchesUnguarded(balance, e) == e.wallet \in Wallets     \* mutant

Matches(balance, e) ==
    /\ e.wallet \in Wallets
    /\ e.type = "debit" => balance[e.wallet] >= e.amount

(***************************************************************************)
(* bigint arithmetic raises an error where it would leave the column.      *)
(***************************************************************************)
InRange(balance, e) == balance[e.wallet] + Delta(e) <= MaxBigint

(***************************************************************************)
(* What a call reports when its UPDATE returns no row: DebitWallet turns   *)
(* pgx.ErrNoRows into ErrInsufficientFunds, CreditWallet passes it on.     *)
(***************************************************************************)
NoRowResult(e) == IF e.type = "debit" THEN "insufficient" ELSE "norows"

=============================================================================
