---------------------------- MODULE WalletLedger ----------------------------
(***************************************************************************)
(* What the wallet promises its callers, with no transactions, locks or    *)
(* connections in sight: one step posts an entry to the ledger and moves   *)
(* the balance of its wallet by the same amount.  Module WalletTx          *)
(* implements it with two statements in a database transaction.            *)
(*                                                                         *)
(*   - a call that reports success has posted its entry;                   *)
(*   - a call that reports a refusal has not, and never will;              *)
(*   - a call that reports any other error may have posted it, or may      *)
(*     still do so: the caller cannot know.                                *)
(***************************************************************************)
EXTENDS WalletData, Sequences

VARIABLES
    balance,    \* the balance of each wallet
    ledger,     \* the posted entries, in the order they were posted
    entry,      \* what each call asks for
    result      \* what each call reports, "none" as long as it is not decided

vars == <<balance, ledger, entry, result>>

Posted(c) == \E i \in DOMAIN ledger : ledger[i].call = c

Init ==
    /\ balance = [w \in Wallets |-> 0]
    /\ ledger = <<>>
    /\ entry = [c \in Calls |-> NoEntry]
    /\ result = [c \in Calls |-> "none"]

Request(c) ==
    /\ entry[c] = NoEntry
    /\ \E e \in Entries : entry' = [entry EXCEPT ![c] = e]
    /\ UNCHANGED <<balance, ledger, result>>

Post(c) ==
    /\ entry[c] # NoEntry
    /\ ~Posted(c)
    /\ result[c] \in {"none", "error"}
    /\ Matches(balance, entry[c])
    /\ InRange(balance, entry[c])
    /\ balance' = [balance EXCEPT ![entry[c].wallet] = @ + Delta(entry[c])]
    /\ ledger' = Append(ledger, [call |-> c, entry |-> entry[c]])
    /\ UNCHANGED <<entry, result>>

Confirm(c) ==
    /\ Posted(c)
    /\ result[c] = "none"
    /\ result' = [result EXCEPT ![c] = "ok"]
    /\ UNCHANGED <<balance, ledger, entry>>

Refuse(c) ==
    /\ entry[c] # NoEntry
    /\ ~Posted(c)
    /\ result[c] = "none"
    /\ ~Matches(balance, entry[c])
    /\ result' = [result EXCEPT ![c] = NoRowResult(entry[c])]
    /\ UNCHANGED <<balance, ledger, entry>>

Fail(c) ==
    /\ entry[c] # NoEntry
    /\ result[c] = "none"
    /\ result' = [result EXCEPT ![c] = "error"]
    /\ UNCHANGED <<balance, ledger, entry>>

Next ==
    \E c \in Calls :
        Request(c) \/ Post(c) \/ Confirm(c) \/ Refuse(c) \/ Fail(c)

Spec == Init /\ [][Next]_vars

=============================================================================
