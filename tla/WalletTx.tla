------------------------------ MODULE WalletTx ------------------------------
(***************************************************************************)
(* The wallet ledger as the code runs it: CreditWallet and DebitWallet     *)
(* (payment_service.go) each run an UPDATE of one wallet row and an INSERT *)
(* of one ledger row inside Store.ExecTx (store.go), over a connection     *)
(* pool of PoolSize connections to PostgreSQL at READ COMMITTED.           *)
(*                                                                         *)
(* The database's share is external and modelled from what the code relies *)
(* on: an UPDATE locks its row until the transaction ends and sees the     *)
(* last committed version of it, a failed statement leaves the transaction *)
(* good for a rollback only, a transaction whose client is gone ends on    *)
(* its own, and a COMMIT may succeed without its client ever hearing of    *)
(* it.                                                                     *)
(***************************************************************************)
EXTENDS WalletData, Totals

CONSTANT
    PoolSize    \* connections of the pool (pgxpool MaxConns)

ASSUME PoolAssumption == PoolSize \in Nat \ {0}

VARIABLES
    balance,    \* committed column balance of each row of table wallets
    ledger,     \* committed rows of table transactions, in commit order
    entry,      \* the LedgerEntry of each call
    result,     \* the error ExecTx is going to return, "ok" for nil
    pc,         \* where each call is
    conn,       \* the calls that hold a connection of the pool
    txStatus,   \* the server's view of each call's transaction
    txBalance,  \* the version of its wallet row an open transaction wrote
    txRow       \* whether an open transaction wrote its ledger row

client == <<entry, result, pc, conn>>
server == <<balance, ledger, txStatus, txBalance, txRow>>
vars == <<balance, ledger, entry, result, pc, conn, txStatus, txBalance, txRow>>

PCs == {"idle", "begin", "update", "insert", "commit", "committing",
        "rollback", "done", "dead"}

Statuses == {"none", "open", "failed", "committing", "committed", "aborted"}

Unfinished == {"open", "failed", "committing"}

\* No version written: no balance, and nothing that an amount taken off leaves.
NoBalance == -MaxBigint - 1

-----------------------------------------------------------------------------
Wallet(c) == entry[c].wallet

\* The transaction of c has locked the row of its wallet.
Holds(c) == txBalance[c] # NoBalance

LockedByOther(c) ==
    \E d \in Calls \ {c} : Holds(d) /\ Wallet(d) = Wallet(c)

Posted(c) == \E i \in DOMAIN ledger : ledger[i].call = c

InFlight(c) == pc[c] \notin {"idle", "done", "dead"}

\* The server still works on a transaction whose client has gone.
Orphan(c) ==
    /\ pc[c] \in {"done", "dead"}
    /\ c \notin conn
    /\ txStatus[c] \in Unfinished

-----------------------------------------------------------------------------
Init ==
    /\ balance = [w \in Wallets |-> 0]
    /\ ledger = <<>>
    /\ entry = [c \in Calls |-> NoEntry]
    /\ result = [c \in Calls |-> "none"]
    /\ pc = [c \in Calls |-> "idle"]
    /\ conn = {}
    /\ txStatus = [c \in Calls |-> "none"]
    /\ txBalance = [c \in Calls |-> NoBalance]
    /\ txRow = [c \in Calls |-> FALSE]

-----------------------------------------------------------------------------
(***************************************************************************)
(* The client: one call of CreditWallet or DebitWallet.                    *)
(***************************************************************************)
Call(c) ==
    /\ pc[c] = "idle"
    /\ \E e \in Entries : entry' = [entry EXCEPT ![c] = e]
    /\ pc' = [pc EXCEPT ![c] = "begin"]
    /\ UNCHANGED <<result, conn, server>>

\* pool.Begin waits for a connection of the pool.
Begin(c) ==
    /\ pc[c] = "begin"
    /\ Cardinality(conn) < PoolSize
    /\ conn' = conn \cup {c}
    /\ txStatus' = [txStatus EXCEPT ![c] = "open"]
    /\ pc' = [pc EXCEPT ![c] = "update"]
    /\ UNCHANGED <<entry, result, balance, ledger, txBalance, txRow>>

\* The context ends while the call waits, or the database is unreachable.
BeginFails(c) ==
    /\ pc[c] = "begin"
    /\ result' = [result EXCEPT ![c] = "error"]
    /\ pc' = [pc EXCEPT ![c] = "done"]
    /\ UNCHANGED <<entry, conn, server>>

\* The UPDATE waits for the row's lock, then reads the committed version.
UpdateWallet(c) ==
    /\ pc[c] = "update"
    /\ txStatus[c] = "open"
    /\ Matches(balance, entry[c])
    /\ InRange(balance, entry[c])
    /\ ~LockedByOther(c)
    /\ txBalance' =
         [txBalance EXCEPT ![c] = balance[Wallet(c)] + Delta(entry[c])]
    /\ pc' = [pc EXCEPT ![c] = "insert"]
    /\ UNCHANGED <<entry, result, conn, balance, ledger, txStatus, txRow>>

\* The UPDATE finds no row.  It skips a row its WHERE clause does not accept
\* without waiting for the row's lock.
NoRowIgnored(c) ==          \* mutant: the missing row is not looked at
    /\ pc[c] = "update"
    /\ txStatus[c] = "open"
    /\ ~Matches(balance, entry[c])
    /\ pc' = [pc EXCEPT ![c] = "insert"]
    /\ UNCHANGED <<entry, result, conn, server>>

UpdateNoRow(c) ==
    /\ pc[c] = "update"
    /\ txStatus[c] = "open"
    /\ ~Matches(balance, entry[c])
    /\ result' = [result EXCEPT ![c] = NoRowResult(entry[c])]
    /\ pc' = [pc EXCEPT ![c] = "rollback"]
    /\ UNCHANGED <<entry, conn, server>>

\* "bigint out of range".
UpdateOverflows(c) ==
    /\ pc[c] = "update"
    /\ txStatus[c] = "open"
    /\ Matches(balance, entry[c])
    /\ ~InRange(balance, entry[c])
    /\ txStatus' = [txStatus EXCEPT ![c] = "failed"]
    /\ result' = [result EXCEPT ![c] = "error"]
    /\ pc' = [pc EXCEPT ![c] = "rollback"]
    /\ UNCHANGED <<entry, conn, balance, ledger, txBalance, txRow>>

InsertOutsideTx(c) ==       \* mutant: s.store.CreateTransaction, not q's
    /\ pc[c] = "insert"
    /\ ledger' = Append(ledger, [call |-> c, entry |-> entry[c]])
    /\ pc' = [pc EXCEPT ![c] = "commit"]
    /\ UNCHANGED <<entry, result, conn, balance, txStatus, txBalance, txRow>>

InsertNeedsConn(c) ==       \* mutant: the same, for want of a connection
    /\ pc[c] = "insert"
    /\ txStatus[c] = "open"
    /\ Cardinality(conn) < PoolSize
    /\ txRow' = [txRow EXCEPT ![c] = TRUE]
    /\ pc' = [pc EXCEPT ![c] = "commit"]
    /\ UNCHANGED <<entry, result, conn, balance, ledger, txStatus, txBalance>>

InsertRow(c) ==
    /\ pc[c] = "insert"
    /\ txStatus[c] = "open"
    /\ txRow' = [txRow EXCEPT ![c] = TRUE]
    /\ pc' = [pc EXCEPT ![c] = "commit"]
    /\ UNCHANGED <<entry, result, conn, balance, ledger, txStatus, txBalance>>

\* A statement fails: a foreign key of the INSERT, a cancelled context, a
\* connection or a transaction the server has ended.
StatementFails(c) ==
    /\ pc[c] \in {"update", "insert"}
    /\ txStatus' =
         [txStatus EXCEPT ![c] = IF @ = "open" THEN "failed" ELSE @]
    /\ result' = [result EXCEPT ![c] = "error"]
    /\ pc' = [pc EXCEPT ![c] = "rollback"]
    /\ UNCHANGED <<entry, conn, balance, ledger, txBalance, txRow>>

CommitUnchecked(c) ==       \* mutant: the error of tx.Commit is dropped
    /\ pc[c] = "commit"
    /\ txStatus' =
         [txStatus EXCEPT ![c] = IF @ = "open" THEN "committing" ELSE @]
    /\ result' = [result EXCEPT ![c] = "ok"]
    /\ conn' = conn \ {c}
    /\ pc' = [pc EXCEPT ![c] = "done"]
    /\ UNCHANGED <<entry, balance, ledger, txBalance, txRow>>

CommitSend(c) ==
    /\ pc[c] = "commit"
    /\ txStatus' =
         [txStatus EXCEPT ![c] = IF @ = "open" THEN "committing" ELSE @]
    /\ pc' = [pc EXCEPT ![c] = "committing"]
    /\ UNCHANGED <<entry, result, conn, balance, ledger, txBalance, txRow>>

\* Leaving ExecTx puts the connection back, or lets the pool replace it.
Return(c, r) ==
    /\ result' = [result EXCEPT ![c] = r]
    /\ conn' = conn \ {c}
    /\ pc' = [pc EXCEPT ![c] = "done"]

CommitAck(c) ==
    /\ pc[c] = "committing"
    /\ txStatus[c] = "committed"
    /\ Return(c, "ok")
    /\ UNCHANGED <<entry, server>>

CommitRetried(c) ==         \* mutant: ExecTx runs fn again on any error
    /\ pc[c] = "committing"
    /\ conn' = conn \ {c}
    /\ pc' = [pc EXCEPT ![c] = "begin"]
    /\ UNCHANGED <<entry, result, server>>

\* The answer to the COMMIT is an error or never comes: the server may have
\* committed, may yet commit, or may abort.
CommitFails(c) ==
    /\ pc[c] = "committing"
    /\ Return(c, "error")
    /\ UNCHANGED <<entry, server>>

RollbackForgotten(c) ==     \* mutant: no deferred tx.Rollback
    /\ pc[c] = "rollback"
    /\ pc' = [pc EXCEPT ![c] = "done"]
    /\ UNCHANGED <<entry, result, conn, server>>

\* The deferred tx.Rollback.
Rollback(c) ==
    /\ pc[c] = "rollback"
    /\ Return(c, result[c])
    /\ txStatus' = [txStatus EXCEPT ![c] = "aborted"]
    /\ txBalance' = [txBalance EXCEPT ![c] = NoBalance]
    /\ txRow' = [txRow EXCEPT ![c] = FALSE]
    /\ UNCHANGED <<entry, balance, ledger>>

\* The rollback does not reach the server (its context is the caller's): the
\* driver closes the connection and ExecTx returns.
RollbackLost(c) ==
    /\ pc[c] = "rollback"
    /\ Return(c, result[c])
    /\ UNCHANGED <<entry, server>>

-----------------------------------------------------------------------------
(***************************************************************************)
(* The server, and the process.                                            *)
(***************************************************************************)
ServerCommit(c) ==
    /\ txStatus[c] = "committing"
    /\ txStatus' = [txStatus EXCEPT ![c] = "committed"]
    /\ balance' = IF Holds(c)
                    THEN [balance EXCEPT ![Wallet(c)] = txBalance[c]]
                    ELSE balance
    /\ ledger' = IF txRow[c]
                   THEN Append(ledger, [call |-> c, entry |-> entry[c]])
                   ELSE ledger
    /\ txBalance' = [txBalance EXCEPT ![c] = NoBalance]
    /\ txRow' = [txRow EXCEPT ![c] = FALSE]
    /\ UNCHANGED client

\* The server restarts, ends the backend, or notices that its client is gone.
ServerAbort(c) ==
    /\ txStatus[c] \in Unfinished
    /\ txStatus' = [txStatus EXCEPT ![c] = "aborted"]
    /\ txBalance' = [txBalance EXCEPT ![c] = NoBalance]
    /\ txRow' = [txRow EXCEPT ![c] = FALSE]
    /\ UNCHANGED <<balance, ledger, client>>

\* The backend process dies with every call it serves, and starts again.
Crash ==
    /\ \E c \in Calls : InFlight(c)
    /\ pc' = [c \in Calls |-> IF InFlight(c) THEN "dead" ELSE pc[c]]
    /\ conn' = {}
    /\ UNCHANGED <<entry, result, server>>

\* Every call has ended and so has every transaction.
Finished ==
    /\ \A c \in Calls : pc[c] \in {"done", "dead"} /\ ~Orphan(c)
    /\ UNCHANGED vars

-----------------------------------------------------------------------------
Step(c) ==
    \/ Begin(c)
    \/ UpdateWallet(c)
    \/ UpdateNoRow(c)
    \/ UpdateOverflows(c)
    \/ InsertRow(c)
    \/ CommitSend(c)
    \/ CommitAck(c)
    \/ Rollback(c)

Failure(c) ==
    \/ BeginFails(c)
    \/ StatementFails(c)
    \/ CommitFails(c)
    \/ RollbackLost(c)

Server(c) == ServerCommit(c) \/ ServerAbort(c)

Next ==
    \/ \E c \in Calls : Call(c) \/ Step(c) \/ Failure(c) \/ Server(c)
    \/ Crash
    \/ Finished

Spec == Init /\ [][Next]_vars

(***************************************************************************)
(* A goroutine runs on as long as nothing blocks it, and a call on a       *)
(* transaction the server has ended gets its error.  The server finishes   *)
(* a COMMIT it has received and the transactions of clients that are gone. *)
(* Nothing has to fail, to crash or to be called.                          *)
(***************************************************************************)
LearnsOfAbort(c) ==
    txStatus[c] = "aborted" /\ (StatementFails(c) \/ CommitFails(c))

ServerFinishes(c) ==
    (txStatus[c] = "committing" \/ Orphan(c)) /\ Server(c)

Fairness ==
    \A c \in Calls :
        /\ WF_vars(Step(c) \/ LearnsOfAbort(c))
        /\ WF_vars(ServerFinishes(c))

FairSpec == Spec /\ Fairness

-----------------------------------------------------------------------------
(***************************************************************************)
(* Every variable stays in its set.  (NoOverdraft bounds the balances.)    *)
(***************************************************************************)
TypeOK ==
    /\ balance \in [Wallets -> Int]
    /\ ledger \in Seq(Rows)
    /\ entry \in [Calls -> Entries \cup {NoEntry}]
    /\ result \in [Calls -> Results]
    /\ pc \in [Calls -> PCs]
    /\ conn \in SUBSET Calls
    /\ txStatus \in [Calls -> Statuses]
    /\ txBalance \in [Calls -> Int]
    /\ txRow \in [Calls -> BOOLEAN]

(***************************************************************************)
(* However credits and debits of a wallet interleave, fail or crash, its   *)
(* committed balance never goes below zero (the guarded debit) and never   *)
(* wraps around: there is no CHECK on the column to catch it.              *)
(***************************************************************************)
NoOverdraft == \A w \in Wallets : balance[w] \in 0 .. MaxBigint

(***************************************************************************)
(* "transactions: immutable ledger": at every moment the balance of each   *)
(* wallet is exactly what its ledger rows add up to.                       *)
(***************************************************************************)
LedgerSum(w) ==
    Total([i \in DOMAIN ledger |-> IF ledger[i].entry.wallet = w
                                      THEN Delta(ledger[i].entry)
                                      ELSE 0])

LedgerExplainsBalance == \A w \in Wallets : balance[w] = LedgerSum(w)

(***************************************************************************)
(* What a caller is told about its call: success means that its entry is   *)
(* in the ledger, a refusal that it is not and that no transaction of it   *)
(* is left that could still put it there; and no call posts twice.         *)
(***************************************************************************)
ResultIsTrue ==
    \A c \in Calls :
        /\ result[c] = "ok" => Posted(c)
        /\ result[c] \in Refusals => ~Posted(c) /\ txStatus[c] # "committing"

PostedOnce ==
    \A i, j \in DOMAIN ledger : ledger[i].call = ledger[j].call => i = j

(***************************************************************************)
(* No step changes a balance on its own, a ledger row on its own, or a row *)
(* that is already there: a step that changes either adds one row, the     *)
(* entry of one call, and moves the balance of its wallet by its amount.   *)
(***************************************************************************)
PostsOneRow ==
    \E c \in Calls :
        /\ ledger' = Append(ledger, [call |-> c, entry |-> entry[c]])
        /\ balance' =
             [balance EXCEPT ![entry[c].wallet] = @ + Delta(entry[c])]

BalanceMovesWithLedger ==
    [][UNCHANGED <<balance, ledger>> \/ PostsOneRow]_vars

(***************************************************************************)
(* A call that was made comes back (or dies with its process), although it *)
(* may wait for a connection of the pool and for the lock of its wallet's  *)
(* row: nobody keeps either for ever.                                      *)
(***************************************************************************)
EveryCallEnds ==
    \A c \in Calls : pc[c] = "begin" ~> pc[c] \in {"done", "dead"}

(***************************************************************************)
(* A row lock is given up, also when the client failed, crashed, or could  *)
(* not deliver its rollback.                                               *)
(***************************************************************************)
LocksAreReleased == \A c \in Calls : Holds(c) ~> ~Holds(c)

(***************************************************************************)
(* What the guards of Step, LearnsOfAbort and ServerFinishes let go on.    *)
(***************************************************************************)
CanGoOn(c) ==
    \/ pc[c] = "begin" /\ Cardinality(conn) < PoolSize
    \/ /\ pc[c] = "update" /\ txStatus[c] = "open"
       /\ Matches(balance, entry[c]) /\ InRange(balance, entry[c]) => ~LockedByOther(c)
    \/ pc[c] = "insert" /\ txStatus[c] = "open"
    \/ pc[c] \in {"commit", "rollback"}
    \/ pc[c] = "committing" /\ txStatus[c] = "committed"
    \/ pc[c] \in {"update", "insert", "committing"} /\ txStatus[c] = "aborted"
    \/ txStatus[c] = "committing" \/ Orphan(c)

(***************************************************************************)
(* Calls that wait for a connection and calls that wait for a row lock     *)
(* never wait for each other only: behind every call that cannot go on     *)
(* there is one that holds a connection or a lock, and can.                *)
(***************************************************************************)
NoStandstill ==
    \A c \in Calls : InFlight(c) =>
        \/ CanGoOn(c)
        \/ \E d \in Calls : (d \in conn \/ Holds(d)) /\ CanGoOn(d)

(***************************************************************************)
(* ExecTx runs once from its first line to its return: no step of anybody  *)
(* takes a call back to an earlier point of it, and none revives a         *)
(* transaction that has ended.                                             *)
(***************************************************************************)
Stage == [idle |-> 7, begin |-> 6, update |-> 5, insert |-> 4, commit |-> 3,
          committing |-> 2, rollback |-> 1, done |-> 0, dead |-> 0]

CallsMoveForward ==
    [][\A c \in Calls :
         /\ pc'[c] = pc[c] \/ Stage[pc'[c]] < Stage[pc[c]]
         /\ txStatus[c] \in {"committed", "aborted"} => txStatus'[c] = txStatus[c]]_vars

-----------------------------------------------------------------------------
(***************************************************************************)
(* The inductive invariant behind the safety properties: a row lock has    *)
(* one holder, so the version it wrote is still the committed balance      *)
(* moved by its entry; a COMMIT is sent for both writes or for none; and   *)
(* the server's verdict, the ledger and the reported result agree.         *)
(***************************************************************************)
RowsAreLocked ==
    \A c, d \in Calls :
        Holds(c) /\ Holds(d) /\ Wallet(c) = Wallet(d) => c = d

VersionIsCurrent ==
    \A c \in Calls :
        Holds(c) =>
            /\ txStatus[c] \in Unfinished
            /\ Wallet(c) \in Wallets
            /\ txBalance[c] = balance[Wallet(c)] + Delta(entry[c])
            /\ txBalance[c] \in 0 .. MaxBigint

BothWritesOrNone ==
    \A c \in Calls :
        /\ txRow[c] => Holds(c)
        /\ txStatus[c] = "committing" => txRow[c]
        /\ pc[c] = "insert" /\ txStatus[c] = "open" => Holds(c)
        /\ pc[c] = "commit" /\ txStatus[c] = "open" => txRow[c]

ClientAndServerAgree ==
    \A c \in Calls :
        /\ pc[c] = "idle" <=> entry[c] = NoEntry
        /\ pc[c] \in {"idle", "begin"} => txStatus[c] = "none"
        /\ pc[c] = "update" => ~Holds(c)
        /\ pc[c] \in {"update", "insert", "commit"}
             => txStatus[c] \in {"open", "aborted"}
        /\ pc[c] = "committing" => txStatus[c] \notin {"none", "open", "failed"}
        /\ txStatus[c] \in {"committing", "committed"}
             => pc[c] \in {"committing", "done", "dead"}
        /\ pc[c] \in {"idle", "begin", "update", "insert", "commit", "committing"}
             => result[c] = "none"

VerdictIsPosted ==
    /\ PostedOnce
    /\ \A i \in DOMAIN ledger : ledger[i].entry = entry[ledger[i].call]
    /\ \A c \in Calls :
         /\ Posted(c) <=> txStatus[c] = "committed"
         /\ txStatus[c] = "committing" => result[c] \in {"none", "error"}
         /\ txStatus[c] = "committed" => result[c] \in {"none", "ok", "error"}
         /\ result[c] = "ok" => txStatus[c] = "committed"

Inv ==
    /\ TypeOK
    /\ NoOverdraft
    /\ RowsAreLocked
    /\ VersionIsCurrent
    /\ BothWritesOrNone
    /\ ClientAndServerAgree
    /\ VerdictIsPosted

-----------------------------------------------------------------------------
(***************************************************************************)
(* The two-statement transactions implement the one-step ledger.           *)
(***************************************************************************)
Ledger == INSTANCE WalletLedger WITH
              balance <- balance,
              ledger <- ledger,
              entry <- entry,
              result <- result

ImplementsLedger == Ledger!Spec

=============================================================================
