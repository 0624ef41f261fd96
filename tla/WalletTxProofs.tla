--------------------------- MODULE WalletTxProofs ---------------------------
(***************************************************************************)
(* Proofs about WalletTx, for any number of calls, any wallets and amounts *)
(* and any pool size. The inductive invariant is Inv of WalletTx: one      *)
(* lemma per action shows that the action preserves it, and NextInv puts   *)
(* them together. Under each lemma there is a step per conjunct of Inv.    *)
(* The theorems on the ledger follow from Inv.                             *)
(***************************************************************************)
EXTENDS WalletTx, TotalsProofs, FiniteSetTheorems

\* What the amount of an entry is, and that it moves a balance by an integer.
LEMMA DeltaIsInt ==
    ASSUME NEW e \in Entries
    PROVE  /\ e.wallet \in WalletIds
           /\ e.amount \in 1 .. MaxBigint
           /\ Delta(e) \in Int
           /\ e.type = "credit" => Delta(e) = e.amount
           /\ e.type # "credit" => e.type = "debit" /\ Delta(e) = -e.amount
<1>1. /\ e.wallet \in WalletIds
      /\ e.amount \in 1 .. MaxBigint
      /\ e.type \in {"credit", "debit"}
  BY AmountsAssumption DEF Entries
<1> QED  BY <1>1 DEF Delta

\* CreditWallet or DebitWallet is called: the call has no transaction and no
\* ledger row yet.
LEMMA CallInv ==
    ASSUME NEW c \in Calls, Inv, Call(c)
    PROVE  Inv'
<1>1. TypeOK'
  BY DEF Inv, Call, server, TypeOK, PCs
<1>2. NoOverdraft'
  BY DEF Inv, Call, server, NoOverdraft
<1>3. RowsAreLocked'
  <2>1. ~Holds(c)
    BY DEF Inv, VersionIsCurrent, ClientAndServerAgree, Unfinished, Call
  <2>2. \A d \in Calls : Holds(d)' => Holds(d) /\ Wallet(d)' = Wallet(d)
    BY <2>1 DEF Call, server, Holds, Wallet
  <2> QED  BY <2>2 DEF Inv, RowsAreLocked
<1>4. VersionIsCurrent'
  BY DEF Inv, Call, server, VersionIsCurrent, Holds, Wallet,
     ClientAndServerAgree, Unfinished
<1>5. BothWritesOrNone'
  BY DEF Inv, Call, server, BothWritesOrNone, Holds
<1>6. ClientAndServerAgree'
  BY NoEntryAssumption
  DEF Inv, Call, server, ClientAndServerAgree, Holds, TypeOK
<1>7. VerdictIsPosted'
  <2>1. \A d \in Calls : Posted(d)' <=> Posted(d)
    BY DEF Call, server, Posted
  <2>2. ~Posted(c)
    BY DEF Inv, VerdictIsPosted, ClientAndServerAgree, Call
  <2>3. \A i \in DOMAIN ledger : ledger[i].call # c /\ ledger[i].call \in Calls
    <3>1. \A i \in DOMAIN ledger : ledger[i] \in Rows
      BY DEF Inv, TypeOK
    <3> QED  BY <2>2, <3>1 DEF Posted, Rows
  <2> QED
    BY <2>1, <2>3 DEF Inv, Call, server, VerdictIsPosted, PostedOnce
<1> QED  BY <1>1, <1>2, <1>3, <1>4, <1>5, <1>6, <1>7 DEF Inv

\* pool.Begin opens a transaction, which has written nothing.
LEMMA BeginInv ==
    ASSUME NEW c \in Calls, Inv, Begin(c)
    PROVE  Inv'
<1>1. TypeOK'
  BY DEF Inv, Begin, TypeOK, PCs, Statuses
<1>2. NoOverdraft'
  BY DEF Inv, Begin, NoOverdraft
<1>3. RowsAreLocked'
  BY DEF Inv, Begin, RowsAreLocked, Holds, Wallet
<1>4. VersionIsCurrent'
  BY DEF Inv, Begin, VersionIsCurrent, Holds, Wallet, Unfinished
<1>5. BothWritesOrNone'
  BY DEF Inv, Begin, BothWritesOrNone, Holds
<1>6. ClientAndServerAgree'
  BY DEF Inv, Begin, ClientAndServerAgree, Holds, TypeOK, VersionIsCurrent,
     Unfinished
<1>7. VerdictIsPosted'
  <2>1. \A d \in Calls : Posted(d)' <=> Posted(d)
    BY DEF Begin, Posted
  <2> QED
    BY <2>1 DEF Inv, Begin, VerdictIsPosted, PostedOnce, ClientAndServerAgree
<1> QED  BY <1>1, <1>2, <1>3, <1>4, <1>5, <1>6, <1>7 DEF Inv

\* pool.Begin fails before there is a transaction.
LEMMA BeginFailsInv ==
    ASSUME NEW c \in Calls, Inv, BeginFails(c)
    PROVE  Inv'
<1>1. TypeOK'
  BY DEF Inv, BeginFails, server, TypeOK, PCs, Results
<1>2. NoOverdraft'
  BY DEF Inv, BeginFails, server, NoOverdraft
<1>3. RowsAreLocked'
  BY DEF Inv, BeginFails, server, RowsAreLocked, Holds, Wallet
<1>4. VersionIsCurrent'
  BY DEF Inv, BeginFails, server, VersionIsCurrent, Holds, Wallet
<1>5. BothWritesOrNone'
  BY DEF Inv, BeginFails, server, BothWritesOrNone, Holds
<1>6. ClientAndServerAgree'
  BY DEF Inv, BeginFails, server, ClientAndServerAgree, Holds, TypeOK
<1>7. VerdictIsPosted'
  <2>1. \A d \in Calls : Posted(d)' <=> Posted(d)
    BY DEF BeginFails, server, Posted
  <2> QED  BY <2>1 DEF Inv, BeginFails, server, VerdictIsPosted, PostedOnce
<1> QED  BY <1>1, <1>2, <1>3, <1>4, <1>5, <1>6, <1>7 DEF Inv

\* The guarded UPDATE: nobody else holds the row lock, so the version it
\* writes is the committed balance moved by the entry, and it lies in range.
LEMMA UpdateWalletInv ==
    ASSUME NEW c \in Calls, Inv, UpdateWallet(c)
    PROVE  Inv'
<1>1. /\ entry[c] \in Entries
      /\ Wallet(c) \in Wallets
      /\ balance[Wallet(c)] + Delta(entry[c]) \in 0 .. MaxBigint
      /\ ~Holds(c)
  <2>1. entry[c] \in Entries /\ ~Holds(c)
    BY DEF Inv, TypeOK, ClientAndServerAgree, UpdateWallet
  <2>2. Wallet(c) \in Wallets
    BY DEF UpdateWallet, Matches, Wallet
  <2>3. balance[Wallet(c)] \in 0 .. MaxBigint
    BY <2>2 DEF Inv, NoOverdraft
  <2> QED  BY <2>1, <2>3, DeltaIsInt DEF UpdateWallet, Matches, InRange, Wallet
<1>2. TypeOK'
  BY <1>1 DEF Inv, UpdateWallet, TypeOK, PCs
<1>3. NoOverdraft'
  BY DEF Inv, UpdateWallet, NoOverdraft
<1>4. RowsAreLocked'
  BY DEF Inv, UpdateWallet, RowsAreLocked, Holds, Wallet, LockedByOther
<1>5. VersionIsCurrent'
  BY <1>1 DEF Inv, UpdateWallet, VersionIsCurrent, Holds, Wallet, Unfinished
<1>6. BothWritesOrNone'
  BY <1>1, BigintAssumption DEF Inv, UpdateWallet, BothWritesOrNone, Holds, TypeOK, NoBalance
<1>7. ClientAndServerAgree'
  BY DEF Inv, UpdateWallet, ClientAndServerAgree, Holds, TypeOK
<1>8. VerdictIsPosted'
  <2>1. \A d \in Calls : Posted(d)' <=> Posted(d)
    BY DEF UpdateWallet, Posted
  <2> QED  BY <2>1 DEF Inv, UpdateWallet, VerdictIsPosted, PostedOnce
<1> QED  BY <1>2, <1>3, <1>4, <1>5, <1>6, <1>7, <1>8 DEF Inv

\* The UPDATE returns no row: the transaction has written nothing, and
\* pgx.ErrNoRows becomes the refusal.
LEMMA UpdateNoRowInv ==
    ASSUME NEW c \in Calls, Inv, UpdateNoRow(c)
    PROVE  Inv'
<1>1. TypeOK'
  BY DEF Inv, UpdateNoRow, server, TypeOK, PCs, Results, NoRowResult
<1>2. NoOverdraft'
  BY DEF Inv, UpdateNoRow, server, NoOverdraft
<1>3. RowsAreLocked'
  BY DEF Inv, UpdateNoRow, server, RowsAreLocked, Holds, Wallet
<1>4. VersionIsCurrent'
  BY DEF Inv, UpdateNoRow, server, VersionIsCurrent, Holds, Wallet
<1>5. BothWritesOrNone'
  BY DEF Inv, UpdateNoRow, server, BothWritesOrNone, Holds
<1>6. ClientAndServerAgree'
  BY DEF Inv, UpdateNoRow, server, ClientAndServerAgree, Holds, TypeOK
<1>7. VerdictIsPosted'
  <2>1. \A d \in Calls : Posted(d)' <=> Posted(d)
    BY DEF UpdateNoRow, server, Posted
  <2> QED
    BY <2>1
    DEF Inv, UpdateNoRow, server, VerdictIsPosted, PostedOnce, NoRowResult
<1> QED  BY <1>1, <1>2, <1>3, <1>4, <1>5, <1>6, <1>7 DEF Inv

\* The UPDATE would leave bigint: its transaction fails.
LEMMA UpdateOverflowsInv ==
    ASSUME NEW c \in Calls, Inv, UpdateOverflows(c)
    PROVE  Inv'
<1>1. TypeOK'
  BY DEF Inv, UpdateOverflows, TypeOK, PCs, Statuses, Results
<1>2. NoOverdraft'
  BY DEF Inv, UpdateOverflows, NoOverdraft
<1>3. RowsAreLocked'
  BY DEF Inv, UpdateOverflows, RowsAreLocked, Holds, Wallet
<1>4. VersionIsCurrent'
  BY DEF Inv, UpdateOverflows, VersionIsCurrent, Holds, Wallet, Unfinished
<1>5. BothWritesOrNone'
  BY DEF Inv, UpdateOverflows, BothWritesOrNone, Holds
<1>6. ClientAndServerAgree'
  BY DEF Inv, UpdateOverflows, ClientAndServerAgree, Holds, TypeOK
<1>7. VerdictIsPosted'
  <2>1. \A d \in Calls : Posted(d)' <=> Posted(d)
    BY DEF UpdateOverflows, Posted
  <2> QED  BY <2>1 DEF Inv, UpdateOverflows, VerdictIsPosted, PostedOnce
<1> QED  BY <1>1, <1>2, <1>3, <1>4, <1>5, <1>6, <1>7 DEF Inv

\* The INSERT of the ledger row, into the transaction that holds the row
\* lock.
LEMMA InsertRowInv ==
    ASSUME NEW c \in Calls, Inv, InsertRow(c)
    PROVE  Inv'
<1>1. TypeOK'
  BY DEF Inv, InsertRow, TypeOK, PCs
<1>2. NoOverdraft'
  BY DEF Inv, InsertRow, NoOverdraft
<1>3. RowsAreLocked'
  BY DEF Inv, InsertRow, RowsAreLocked, Holds, Wallet
<1>4. VersionIsCurrent'
  BY DEF Inv, InsertRow, VersionIsCurrent, Holds, Wallet
<1>5. BothWritesOrNone'
  BY DEF Inv, InsertRow, BothWritesOrNone, Holds, TypeOK
<1>6. ClientAndServerAgree'
  BY DEF Inv, InsertRow, ClientAndServerAgree, Holds
<1>7. VerdictIsPosted'
  <2>1. \A d \in Calls : Posted(d)' <=> Posted(d)
    BY DEF InsertRow, Posted
  <2> QED  BY <2>1 DEF Inv, InsertRow, VerdictIsPosted, PostedOnce
<1> QED  BY <1>1, <1>2, <1>3, <1>4, <1>5, <1>6, <1>7 DEF Inv

\* A statement fails: its transaction is good for a rollback only.
LEMMA StatementFailsInv ==
    ASSUME NEW c \in Calls, Inv, StatementFails(c)
    PROVE  Inv'
<1>1. TypeOK'
  BY DEF Inv, StatementFails, TypeOK, PCs, Statuses, Results
<1>2. NoOverdraft'
  BY DEF Inv, StatementFails, NoOverdraft
<1>3. RowsAreLocked'
  BY DEF Inv, StatementFails, RowsAreLocked, Holds, Wallet
<1>4. VersionIsCurrent'
  BY DEF Inv, StatementFails, VersionIsCurrent, Holds, Wallet, Unfinished
<1>5. BothWritesOrNone'
  BY DEF Inv, StatementFails, BothWritesOrNone, Holds
<1>6. ClientAndServerAgree'
  BY DEF Inv, StatementFails, ClientAndServerAgree, Holds, TypeOK
<1>7. VerdictIsPosted'
  <2>1. \A d \in Calls : Posted(d)' <=> Posted(d)
    BY DEF StatementFails, Posted
  <2> QED  BY <2>1 DEF Inv, StatementFails, VerdictIsPosted, PostedOnce
<1> QED  BY <1>1, <1>2, <1>3, <1>4, <1>5, <1>6, <1>7 DEF Inv

\* COMMIT is sent with both writes in the transaction, or to one the server
\* has ended.
LEMMA CommitSendInv ==
    ASSUME NEW c \in Calls, Inv, CommitSend(c)
    PROVE  Inv'
<1>1. TypeOK'
  BY DEF Inv, CommitSend, TypeOK, PCs, Statuses
<1>2. NoOverdraft'
  BY DEF Inv, CommitSend, NoOverdraft
<1>3. RowsAreLocked'
  BY DEF Inv, CommitSend, RowsAreLocked, Holds, Wallet
<1>4. VersionIsCurrent'
  BY DEF Inv, CommitSend, VersionIsCurrent, Holds, Wallet, Unfinished
<1>5. BothWritesOrNone'
  BY DEF Inv, CommitSend, BothWritesOrNone, Holds
<1>6. ClientAndServerAgree'
  BY DEF Inv, CommitSend, ClientAndServerAgree, Holds, TypeOK
<1>7. VerdictIsPosted'
  <2>1. \A d \in Calls : Posted(d)' <=> Posted(d)
    BY DEF CommitSend, Posted
  <2> QED
    BY <2>1
    DEF Inv, CommitSend, VerdictIsPosted, PostedOnce, ClientAndServerAgree
<1> QED  BY <1>1, <1>2, <1>3, <1>4, <1>5, <1>6, <1>7 DEF Inv

\* The COMMIT is acknowledged: ExecTx returns nil.
LEMMA CommitAckInv ==
    ASSUME NEW c \in Calls, Inv, CommitAck(c)
    PROVE  Inv'
<1>1. TypeOK'
  BY DEF Inv, CommitAck, Return, server, TypeOK, PCs, Results
<1>2. NoOverdraft'
  BY DEF Inv, CommitAck, server, NoOverdraft
<1>3. RowsAreLocked'
  BY DEF Inv, CommitAck, server, RowsAreLocked, Holds, Wallet
<1>4. VersionIsCurrent'
  BY DEF Inv, CommitAck, server, VersionIsCurrent, Holds, Wallet
<1>5. BothWritesOrNone'
  BY DEF Inv, CommitAck, Return, server, BothWritesOrNone, Holds
<1>6. ClientAndServerAgree'
  BY DEF Inv, CommitAck, Return, server, ClientAndServerAgree, Holds, TypeOK
<1>7. VerdictIsPosted'
  <2>1. \A d \in Calls : Posted(d)' <=> Posted(d)
    BY DEF CommitAck, server, Posted
  <2> QED
    BY <2>1 DEF Inv, CommitAck, Return, server, VerdictIsPosted, PostedOnce
<1> QED  BY <1>1, <1>2, <1>3, <1>4, <1>5, <1>6, <1>7 DEF Inv

\* The COMMIT returns an error, whatever the server makes of it.
LEMMA CommitFailsInv ==
    ASSUME NEW c \in Calls, Inv, CommitFails(c)
    PROVE  Inv'
<1>1. TypeOK'
  BY DEF Inv, CommitFails, Return, server, TypeOK, PCs, Results
<1>2. NoOverdraft'
  BY DEF Inv, CommitFails, server, NoOverdraft
<1>3. RowsAreLocked'
  BY DEF Inv, CommitFails, server, RowsAreLocked, Holds, Wallet
<1>4. VersionIsCurrent'
  BY DEF Inv, CommitFails, server, VersionIsCurrent, Holds, Wallet
<1>5. BothWritesOrNone'
  BY DEF Inv, CommitFails, Return, server, BothWritesOrNone, Holds
<1>6. ClientAndServerAgree'
  BY DEF Inv, CommitFails, Return, server, ClientAndServerAgree, Holds, TypeOK
<1>7. VerdictIsPosted'
  <2>1. \A d \in Calls : Posted(d)' <=> Posted(d)
    BY DEF CommitFails, server, Posted
  <2> QED
    BY <2>1 DEF Inv, CommitFails, Return, server, VerdictIsPosted, PostedOnce
<1> QED  BY <1>1, <1>2, <1>3, <1>4, <1>5, <1>6, <1>7 DEF Inv

\* The deferred tx.Rollback gives up the row lock and what was written.
LEMMA RollbackInv ==
    ASSUME NEW c \in Calls, Inv, Rollback(c)
    PROVE  Inv'
<1>1. TypeOK'
  BY BigintAssumption DEF Inv, Rollback, Return, TypeOK, PCs, Statuses, NoBalance
<1>2. NoOverdraft'
  BY DEF Inv, Rollback, NoOverdraft
<1>3. RowsAreLocked'
  BY DEF Inv, Rollback, RowsAreLocked, Holds, Wallet
<1>4. VersionIsCurrent'
  BY DEF Inv, Rollback, VersionIsCurrent, Holds, Wallet, TypeOK
<1>5. BothWritesOrNone'
  BY DEF Inv, Rollback, Return, BothWritesOrNone, Holds, TypeOK
<1>6. ClientAndServerAgree'
  BY DEF Inv, Rollback, Return, ClientAndServerAgree, Holds
<1>7. VerdictIsPosted'
  <2>1. \A d \in Calls : Posted(d)' <=> Posted(d)
    BY DEF Rollback, Posted
  <2> QED
    BY <2>1
    DEF Inv, Rollback, Return, VerdictIsPosted, PostedOnce,
        ClientAndServerAgree
<1> QED  BY <1>1, <1>2, <1>3, <1>4, <1>5, <1>6, <1>7 DEF Inv

\* The deferred tx.Rollback does not reach the server: the call ends, the
\* lock stays.
LEMMA RollbackLostInv ==
    ASSUME NEW c \in Calls, Inv, RollbackLost(c)
    PROVE  Inv'
<1>1. TypeOK'
  BY DEF Inv, RollbackLost, Return, server, TypeOK, PCs
<1>2. NoOverdraft'
  BY DEF Inv, RollbackLost, server, NoOverdraft
<1>3. RowsAreLocked'
  BY DEF Inv, RollbackLost, server, RowsAreLocked, Holds, Wallet
<1>4. VersionIsCurrent'
  BY DEF Inv, RollbackLost, server, VersionIsCurrent, Holds, Wallet
<1>5. BothWritesOrNone'
  BY DEF Inv, RollbackLost, Return, server, BothWritesOrNone, Holds
<1>6. ClientAndServerAgree'
  BY DEF Inv, RollbackLost, Return, server, ClientAndServerAgree, Holds
<1>7. VerdictIsPosted'
  <2>1. \A d \in Calls : Posted(d)' <=> Posted(d)
    BY DEF RollbackLost, server, Posted
  <2> QED
    BY <2>1 DEF Inv, RollbackLost, Return, server, VerdictIsPosted, PostedOnce
<1> QED  BY <1>1, <1>2, <1>3, <1>4, <1>5, <1>6, <1>7 DEF Inv

\* The one step that changes committed state. The row lock makes its version
\* of the balance the current one, and its call has not posted before.
LEMMA ServerCommitInv ==
    ASSUME NEW c \in Calls, Inv, ServerCommit(c)
    PROVE  Inv'
<1>1. /\ txRow[c] /\ Holds(c)
      /\ entry[c] \in Entries
      /\ Wallet(c) \in Wallets
      /\ txBalance[c] \in 0 .. MaxBigint
      /\ pc[c] \in {"committing", "done", "dead"}
      /\ result[c] \in {"none", "error"}
  BY DEF Inv, TypeOK, ServerCommit, BothWritesOrNone, VersionIsCurrent,
     ClientAndServerAgree, VerdictIsPosted
<1>2. /\ balance' = [balance EXCEPT ![Wallet(c)] = txBalance[c]]
      /\ ledger' = Append(ledger, [call |-> c, entry |-> entry[c]])
  BY <1>1 DEF ServerCommit
<1>3. TypeOK'
  BY <1>1, BigintAssumption DEF Inv, ServerCommit, client, TypeOK, Statuses, NoBalance, Rows
<1>4. NoOverdraft'
  BY <1>1 DEF Inv, ServerCommit, NoOverdraft
<1>5. RowsAreLocked'
  BY DEF Inv, ServerCommit, client, RowsAreLocked, Holds, Wallet
<1>6. VersionIsCurrent'
  BY DEF Inv, ServerCommit, client, VersionIsCurrent, Holds, Wallet, TypeOK,
     RowsAreLocked
<1>7. BothWritesOrNone'
  BY DEF Inv, ServerCommit, client, BothWritesOrNone, Holds, TypeOK
<1>8. ClientAndServerAgree'
  BY DEF Inv, ServerCommit, client, ClientAndServerAgree, Holds
<1>9. VerdictIsPosted'
  <2>1. /\ DOMAIN ledger = 1 .. Len(ledger)
        /\ DOMAIN ledger' = 1 .. Len(ledger) + 1
        /\ \A i \in DOMAIN ledger : ledger'[i] = ledger[i]
        /\ ledger'[Len(ledger) + 1] = [call |-> c, entry |-> entry[c]]
        /\ Len(ledger) \in Nat
    BY <1>2
  <2>2. ~Posted(c)
    BY DEF Inv, VerdictIsPosted, ServerCommit
  <2>3. \A i \in DOMAIN ledger : ledger[i].call # c
    BY <2>2 DEF Posted
  <2>4. \A d \in Calls : Posted(d)' <=> Posted(d) \/ d = c
    BY <2>1 DEF Posted
  <2>5. PostedOnce'
    BY <2>1, <2>3 DEF PostedOnce, Inv, VerdictIsPosted
  <2>6. \A i \in DOMAIN ledger' : ledger'[i].entry = entry'[ledger'[i].call]
    BY DEF Inv, VerdictIsPosted, ServerCommit, client
  <2> QED
    BY <2>4, <2>5 DEF Inv, TypeOK, ServerCommit, client, VerdictIsPosted
<1> QED  BY <1>3, <1>4, <1>5, <1>6, <1>7, <1>8, <1>9 DEF Inv

\* The server ends a transaction and gives up its row lock.
LEMMA ServerAbortInv ==
    ASSUME NEW c \in Calls, Inv, ServerAbort(c)
    PROVE  Inv'
<1>1. TypeOK'
  BY BigintAssumption DEF Inv, ServerAbort, client, TypeOK, Statuses, NoBalance
<1>2. NoOverdraft'
  BY DEF Inv, ServerAbort, NoOverdraft
<1>3. RowsAreLocked'
  BY DEF Inv, ServerAbort, client, RowsAreLocked, Holds, Wallet
<1>4. VersionIsCurrent'
  BY DEF Inv, ServerAbort, client, VersionIsCurrent, Holds, Wallet, TypeOK
<1>5. BothWritesOrNone'
  BY DEF Inv, ServerAbort, client, BothWritesOrNone, Holds, TypeOK
<1>6. ClientAndServerAgree'
  BY DEF Inv, ServerAbort, client, ClientAndServerAgree, Holds, Unfinished
<1>7. VerdictIsPosted'
  <2>1. \A d \in Calls : Posted(d)' <=> Posted(d)
    BY DEF ServerAbort, Posted
  <2> QED
    BY <2>1
    DEF Inv, ServerAbort, client, VerdictIsPosted, PostedOnce, Unfinished
<1> QED  BY <1>1, <1>2, <1>3, <1>4, <1>5, <1>6, <1>7 DEF Inv

\* The backend dies: the transactions of its calls stay with the server.
LEMMA CrashInv ==
    ASSUME Inv, Crash
    PROVE  Inv'
<1>1. TypeOK'
  BY DEF Inv, TypeOK, Crash, server, PCs
<1>2. NoOverdraft'
  BY DEF Inv, NoOverdraft, Crash, server
<1>3. RowsAreLocked'
  BY DEF Inv, RowsAreLocked, Holds, Wallet, Crash, server
<1>4. VersionIsCurrent'
  BY DEF Inv, VersionIsCurrent, Holds, Wallet, Crash, server
<1>5. BothWritesOrNone'
  BY DEF Inv, BothWritesOrNone, Holds, Crash, server
<1>6. ClientAndServerAgree'
  BY DEF Inv, ClientAndServerAgree, Crash, server, InFlight
<1>7. VerdictIsPosted'
  <2>1. \A d \in Calls : Posted(d)' <=> Posted(d)
    BY DEF Crash, server, Posted
  <2> QED  BY <2>1 DEF Inv, VerdictIsPosted, PostedOnce, Crash, server
<1> QED  BY <1>1, <1>2, <1>3, <1>4, <1>5, <1>6, <1>7 DEF Inv

\* Inv is about the variables only.
LEMMA StutterInv ==
    ASSUME Inv, UNCHANGED vars
    PROVE  Inv'
BY DEF vars, Inv, TypeOK, NoOverdraft, RowsAreLocked, VersionIsCurrent,
   BothWritesOrNone, ClientAndServerAgree, VerdictIsPosted, PostedOnce, Posted,
   Holds, Wallet

\* At the start nothing is posted and no transaction exists.
LEMMA InitInv == Init => Inv
<1> SUFFICES ASSUME Init PROVE Inv
  OBVIOUS
<1>1. TypeOK
  BY BigintAssumption DEF Init, TypeOK, Results, PCs, Statuses, NoBalance
<1>2. NoOverdraft
  BY BigintAssumption DEF Init, NoOverdraft
<1>3. RowsAreLocked /\ VersionIsCurrent /\ BothWritesOrNone
  BY DEF Init, RowsAreLocked, VersionIsCurrent, BothWritesOrNone, Holds
<1>4. ClientAndServerAgree
  BY DEF Init, ClientAndServerAgree
<1>5. VerdictIsPosted
  BY DEF Init, VerdictIsPosted, PostedOnce, Posted
<1> QED  BY <1>1, <1>2, <1>3, <1>4, <1>5 DEF Inv

\* Every step preserves Inv: one case per action of Next.
LEMMA NextInv ==
    ASSUME Inv, [Next]_vars
    PROVE  Inv'
<1>1. ASSUME NEW c \in Calls, Call(c) PROVE Inv'
  BY <1>1, CallInv
<1>2. ASSUME NEW c \in Calls, Step(c) PROVE Inv'
  BY <1>2, BeginInv, UpdateWalletInv, UpdateNoRowInv, UpdateOverflowsInv,
     InsertRowInv, CommitSendInv, CommitAckInv, RollbackInv
  DEF Step
<1>3. ASSUME NEW c \in Calls, Failure(c) PROVE Inv'
  BY <1>3, BeginFailsInv, StatementFailsInv, CommitFailsInv, RollbackLostInv
  DEF Failure
<1>4. ASSUME NEW c \in Calls, Server(c) PROVE Inv'
  BY <1>4, ServerCommitInv, ServerAbortInv DEF Server
<1>5. CASE Crash
  BY <1>5, CrashInv
<1>6. CASE Finished
  BY <1>6, StutterInv DEF Finished
<1>7. CASE UNCHANGED vars
  BY <1>7, StutterInv
<1> QED  BY <1>1, <1>2, <1>3, <1>4, <1>5, <1>6, <1>7 DEF Next

(***************************************************************************)
(* Inv is an invariant of the wallet: its row locks, its two writes per    *)
(* transaction and the verdicts of COMMIT fit together in every reachable  *)
(* state, whatever fails or crashes.                                       *)
(***************************************************************************)
THEOREM Invariance == Spec => []Inv
<1> QED  BY InitInv, NextInv, PTL DEF Spec

(***************************************************************************)
(* Every variable of the wallet stays in its set.                          *)
(***************************************************************************)
THEOREM TypeCorrect == Spec => []TypeOK
<1>1. Inv => TypeOK
  BY DEF Inv
<1> QED  BY <1>1, Invariance, PTL

(***************************************************************************)
(* No interleaving of CreditWallet and DebitWallet takes a committed       *)
(* balance below zero or past bigint: the guard in the WHERE clause, read  *)
(* under the row lock, is enough although the column has no CHECK.         *)
(***************************************************************************)
THEOREM Solvent == Spec => []NoOverdraft
<1>1. Inv => NoOverdraft
  BY DEF Inv
<1> QED  BY <1>1, Invariance, PTL

(***************************************************************************)
(* What ExecTx returns is true: nil means the ledger row is there,         *)
(* ErrInsufficientFunds and pgx.ErrNoRows mean that it is not and that no  *)
(* COMMIT of it is under way; and no call is posted twice.                 *)
(***************************************************************************)
THEOREM Truthful == Spec => [](ResultIsTrue /\ PostedOnce)
<1>1. Inv => ResultIsTrue /\ PostedOnce
  BY DEF Inv, VerdictIsPosted, ResultIsTrue, Refusals
<1> QED  BY <1>1, Invariance, PTL

(***************************************************************************)
(* No call has two rows in the ledger, however its COMMIT was answered:    *)
(* ExecTx runs its two statements once, and never again on an error.       *)
(***************************************************************************)
THEOREM PostsOnce == Spec => []PostedOnce
<1>1. Inv => PostedOnce
  BY DEF Inv, VerdictIsPosted
<1> QED  BY <1>1, Invariance, PTL

-----------------------------------------------------------------------------
\* A step other than ServerCommit leaves balances and ledger alone.
LEMMA StepPosts ==
    ASSUME Inv, [Next]_vars
    PROVE  UNCHANGED <<balance, ledger>> \/ PostsOneRow
<1>1. ASSUME NEW c \in Calls, ServerCommit(c) PROVE PostsOneRow
  <2>1. /\ txRow[c] /\ Holds(c)
        /\ txBalance[c] = balance[Wallet(c)] + Delta(entry[c])
    BY <1>1 DEF Inv, BothWritesOrNone, VersionIsCurrent, ServerCommit
  <2> QED  BY <1>1, <2>1 DEF ServerCommit, PostsOneRow, Wallet
<1>2. ASSUME NEW c \in Calls, ServerAbort(c) PROVE UNCHANGED <<balance, ledger>>
  BY <1>2 DEF ServerAbort
<1>3. ASSUME NEW c \in Calls, Call(c) \/ Step(c) \/ Failure(c)
      PROVE  UNCHANGED <<balance, ledger>>
  BY <1>3
  DEF Call, Step, Failure, Begin, BeginFails, UpdateWallet, UpdateNoRow,
      UpdateOverflows, InsertRow, StatementFails, CommitSend, CommitAck,
      CommitFails, Rollback, RollbackLost, server
<1>4. CASE Crash \/ Finished \/ UNCHANGED vars
  BY <1>4 DEF Crash, Finished, vars, server
<1> QED  BY <1>1, <1>2, <1>3, <1>4 DEF Next, Server

(***************************************************************************)
(* A committed balance and the ledger change in the same step or not at    *)
(* all, by one row and its amount: recordTx runs in the transaction of the *)
(* UPDATE.                                                                 *)
(***************************************************************************)
THEOREM Bookkeeping == Spec => BalanceMovesWithLedger
<1>1. Inv /\ [Next]_vars => [UNCHANGED <<balance, ledger>> \/ PostsOneRow]_vars
  BY StepPosts
<1> QED  BY <1>1, Invariance, PTL DEF Spec, BalanceMovesWithLedger

\* What the ledger rows move the balance of wallet w by, row by row.
Moves(w) == [i \in DOMAIN ledger |-> IF ledger[i].entry.wallet = w
                                       THEN Delta(ledger[i].entry)
                                       ELSE 0]

LEMMA MovesAreInts ==
    ASSUME TypeOK, NEW w
    PROVE  Moves(w) \in Seq(Int)
<1>1. ASSUME NEW i \in DOMAIN ledger PROVE Moves(w)[i] \in Int
  <2>1. ledger[i] \in Rows
    BY DEF TypeOK
  <2>2. Delta(ledger[i].entry) \in Int
    BY <2>1, DeltaIsInt DEF Rows
  <2> QED  BY <2>2 DEF Moves
<1>2. DOMAIN ledger = 1 .. Len(ledger) /\ Len(ledger) \in Nat
  BY DEF TypeOK
<1> QED  BY <1>1, <1>2 DEF Moves

\* A step that posts a row adds the amount of its entry to the sum over the
\* rows of its wallet, as it does to the balance, and to no other sum.
LEMMA BalanceExplained ==
    ASSUME Inv, Inv', LedgerExplainsBalance, UNCHANGED <<balance, ledger>> \/ PostsOneRow
    PROVE  LedgerExplainsBalance'
<1>1. CASE UNCHANGED <<balance, ledger>>
  BY <1>1 DEF LedgerExplainsBalance, LedgerSum
<1>2. ASSUME NEW c \in Calls, NEW w \in Wallets,
             ledger' = Append(ledger, [call |-> c, entry |-> entry[c]]),
             balance' = [balance EXCEPT ![entry[c].wallet] = @ + Delta(entry[c])]
      PROVE  balance'[w] = LedgerSum(w)'
  <2> DEFINE move == IF entry[c].wallet = w THEN Delta(entry[c]) ELSE 0
  <2>1. /\ ledger \in Seq(Rows) /\ balance \in [Wallets -> Int]
        /\ Len(ledger) \in Nat
    BY DEF Inv, TypeOK
  <2>2. move \in Int
    <3>1. ledger'[Len(ledger) + 1] \in Rows
      BY <1>2, <2>1 DEF Inv, TypeOK
    <3>2. entry[c] \in Entries
      BY <1>2, <2>1, <3>1 DEF Rows
    <3> QED  BY <3>2, DeltaIsInt
  <2>3. balance'[w] = balance[w] + move
    BY <1>2, <2>1
  <2>4. Moves(w)' = Append(Moves(w), move)
    <3>1. /\ DOMAIN ledger = 1 .. Len(ledger)
          /\ DOMAIN ledger' = 1 .. Len(ledger) + 1
          /\ \A i \in 1 .. Len(ledger) : ledger'[i] = ledger[i]
          /\ ledger'[Len(ledger) + 1].entry = entry[c]
      BY <1>2, <2>1
    <3>2. /\ DOMAIN Moves(w)' = 1 .. Len(ledger) + 1
          /\ \A i \in 1 .. Len(ledger) : Moves(w)'[i] = Moves(w)[i]
          /\ Moves(w)'[Len(ledger) + 1] = move
      BY <2>1, <3>1 DEF Moves
    <3>3. Moves(w) \in Seq(Int) /\ Len(Moves(w)) = Len(ledger)
      <4>1. TypeOK
        BY DEF Inv
      <4> QED  BY <2>1, <3>1, <4>1, MovesAreInts DEF Moves
    <3> DEFINE new == Moves(w)'
    <3>4. new \in [1 .. Len(ledger) + 1 -> Int]
      <4>1. new = [i \in 1 .. Len(ledger) + 1 |-> new[i]]
        BY <3>1 DEF Moves
      <4>2. \A i \in 1 .. Len(ledger) + 1 : new[i] \in Int
        BY <2>1, <2>2, <3>2, <3>3
      <4> HIDE DEF new
      <4> QED  BY <4>1, <4>2
    <3>5. /\ \A i \in 1 .. Len(ledger) : new[i] = Moves(w)[i]
          /\ new[Len(ledger) + 1] = move
      BY <3>2
    <3> HIDE DEF move, new
    <3>6. new = Append(Moves(w), move)
      BY <2>2, <3>3, <3>4, <3>5, AppendIs
    <3> QED  BY <3>6 DEF new
  <2>5. LedgerSum(w)' = Total(Append(Moves(w), move))
    BY <2>4 DEF LedgerSum, Moves
  <2>6. LedgerSum(w) = Total(Moves(w)) /\ Moves(w) \in Seq(Int)
    <3>1. TypeOK
      BY DEF Inv
    <3> QED  BY <3>1, MovesAreInts DEF LedgerSum, Moves
  <2> HIDE DEF move
  <2> QED  BY <2>2, <2>3, <2>5, <2>6, TotalAppend DEF LedgerExplainsBalance
<1> QED  BY <1>1, <1>2 DEF PostsOneRow, LedgerExplainsBalance

LEMMA NothingPosted ==
    ASSUME Init
    PROVE  LedgerExplainsBalance
<1>1. \A w : Moves(w) = <<>>
  BY DEF Init, Moves
<1> QED  BY <1>1, TotalOfEmpty DEF Init, LedgerExplainsBalance, LedgerSum, Moves

(***************************************************************************)
(* "transactions: immutable ledger": in every reachable state the balance  *)
(* of a wallet is what the amounts of its ledger rows add up to, of any    *)
(* number of rows, so that the ledger alone would do to restore it.        *)
(***************************************************************************)
THEOREM Balanced == Spec => []LedgerExplainsBalance
<1>1. Inv /\ Inv' /\ LedgerExplainsBalance /\ [Next]_vars => LedgerExplainsBalance'
  BY StepPosts, BalanceExplained
<1>2. Init => LedgerExplainsBalance
  BY NothingPosted
<1> QED  BY <1>1, <1>2, Invariance, PTL DEF Spec

-----------------------------------------------------------------------------
(***************************************************************************)
(* Who waits for whom: a call has its connection from pool.Begin until it  *)
(* returns, so that one that waits for the pool waits for a call in the    *)
(* middle of its transaction; and one that waits for a row waits for a     *)
(* call that has had its UPDATE, or for the server.                        *)
(***************************************************************************)
Connected == {"update", "insert", "commit", "committing", "rollback"}

ConnIsHeld == \A c \in Calls : c \in conn <=> pc[c] \in Connected

LEMMA ConnNext ==
    ASSUME Inv, ConnIsHeld, [Next]_vars
    PROVE  ConnIsHeld'
<1> USE DEF ConnIsHeld, Connected, Inv, TypeOK
<1>1. ASSUME NEW c \in Calls, Call(c) PROVE ConnIsHeld'
  BY <1>1 DEF Call
<1>2. ASSUME NEW c \in Calls, Step(c) PROVE ConnIsHeld'
  BY <1>2
  DEF Step, Begin, UpdateWallet, UpdateNoRow, UpdateOverflows, InsertRow, CommitSend,
      CommitAck, Rollback, Return
<1>3. ASSUME NEW c \in Calls, Failure(c) PROVE ConnIsHeld'
  BY <1>3 DEF Failure, BeginFails, StatementFails, CommitFails, RollbackLost, Return
<1>4. ASSUME NEW c \in Calls, Server(c) PROVE ConnIsHeld'
  BY <1>4 DEF Server, ServerCommit, ServerAbort, client
<1>5. CASE Crash
  BY <1>5 DEF Crash, InFlight
<1>6. CASE Finished \/ UNCHANGED vars
  BY <1>6 DEF Finished, vars
<1> QED  BY <1>1, <1>2, <1>3, <1>4, <1>5, <1>6 DEF Next

\* Whoever holds a row lock can go on: with its transaction, or by the server.
LEMMA HolderGoesOn ==
    ASSUME Inv, ConnIsHeld, NEW c \in Calls, Holds(c)
    PROVE  CanGoOn(c)
<1>1. /\ txStatus[c] \in {"open", "failed", "committing"}
      /\ pc[c] \in {"insert", "commit", "committing", "rollback", "done", "dead"}
  BY DEF Inv, TypeOK, VersionIsCurrent, ClientAndServerAgree, Unfinished, PCs
<1>2. CASE pc[c] \in {"done", "dead"}
  BY <1>1, <1>2 DEF ConnIsHeld, Connected, CanGoOn, Orphan, Unfinished
<1>3. CASE pc[c] = "insert"
  BY <1>1, <1>3 DEF Inv, ClientAndServerAgree, CanGoOn
<1>4. CASE pc[c] = "committing"
  BY <1>1, <1>4 DEF Inv, ClientAndServerAgree, CanGoOn
<1> QED  BY <1>1, <1>2, <1>3, <1>4 DEF CanGoOn

\* Whoever has a connection can go on, or waits for a row lock.
LEMMA ConnectedGoesOn ==
    ASSUME Inv, ConnIsHeld, NEW c \in Calls, pc[c] \in Connected
    PROVE  CanGoOn(c) \/ LockedByOther(c)
<1>1. CASE pc[c] \in {"update", "insert"}
  BY <1>1 DEF Inv, ClientAndServerAgree, CanGoOn
<1>2. CASE pc[c] = "committing"
  BY <1>2 DEF Inv, TypeOK, Statuses, ClientAndServerAgree, CanGoOn
<1> QED  BY <1>1, <1>2 DEF Connected, CanGoOn

LEMMA SomebodyGoesOn ==
    ASSUME Inv, ConnIsHeld
    PROVE  NoStandstill
<1> SUFFICES ASSUME NEW c \in Calls, InFlight(c), ~CanGoOn(c)
             PROVE  \E d \in Calls : (d \in conn \/ Holds(d)) /\ CanGoOn(d)
  BY DEF NoStandstill
<1>1. ASSUME NEW d \in Calls, LockedByOther(d)
      PROVE  \E e \in Calls : Holds(e) /\ CanGoOn(e)
  BY <1>1, HolderGoesOn DEF LockedByOther
<1>2. CASE pc[c] \in Connected
  BY <1>1, <1>2, ConnectedGoesOn
<1>3. CASE pc[c] = "begin"
  <2>1. ~(Cardinality(conn) < PoolSize)
    BY <1>3 DEF CanGoOn
  <2>2. conn # {}
    BY <2>1, FS_EmptySet, PoolAssumption
  <2>3. PICK d \in Calls : d \in conn
    BY <2>2 DEF Inv, TypeOK
  <2>4. CanGoOn(d) \/ LockedByOther(d)
    BY <2>3, ConnectedGoesOn DEF ConnIsHeld
  <2> QED  BY <1>1, <2>3, <2>4
<1> QED  BY <1>2, <1>3 DEF Inv, TypeOK, PCs, InFlight, Connected

(***************************************************************************)
(* The pool and the row locks together never stand still, whatever the     *)
(* size of the pool: a call waits for one thing at a time, the connection  *)
(* comes first, and a transaction locks one row and needs no second        *)
(* connection for its INSERT.                                              *)
(***************************************************************************)
THEOREM NobodyWaitsInACircle == Spec => []NoStandstill
<1>1. Init => ConnIsHeld
  BY DEF Init, ConnIsHeld, Connected
<1>2. Inv /\ ConnIsHeld /\ [Next]_vars => ConnIsHeld'
  BY ConnNext
<1>3. Inv /\ ConnIsHeld => NoStandstill
  BY SomebodyGoesOn
<1> QED  BY <1>1, <1>2, <1>3, Invariance, PTL DEF Spec

\* A step moves one call on, or all of them to their end.
LEMMA StageDrops ==
    ASSUME Inv, [Next]_vars, NEW c \in Calls
    PROVE  pc'[c] = pc[c] \/ Stage[pc'[c]] < Stage[pc[c]]
<1> USE DEF Stage, Inv, TypeOK, PCs
<1>1. ASSUME NEW d \in Calls, Call(d) PROVE pc'[c] = pc[c] \/ Stage[pc'[c]] < Stage[pc[c]]
  BY <1>1 DEF Call
<1>2. ASSUME NEW d \in Calls, Step(d) PROVE pc'[c] = pc[c] \/ Stage[pc'[c]] < Stage[pc[c]]
  BY <1>2
  DEF Step, Begin, UpdateWallet, UpdateNoRow, UpdateOverflows, InsertRow, CommitSend,
      CommitAck, Rollback, Return
<1>3. ASSUME NEW d \in Calls, Failure(d) PROVE pc'[c] = pc[c] \/ Stage[pc'[c]] < Stage[pc[c]]
  BY <1>3 DEF Failure, BeginFails, StatementFails, CommitFails, RollbackLost, Return
<1>4. CASE Crash
  BY <1>4 DEF Crash, InFlight
<1>5. ASSUME NEW d \in Calls, Server(d) PROVE pc'[c] = pc[c]
  BY <1>5 DEF Server, ServerCommit, ServerAbort, client
<1>6. CASE Finished \/ UNCHANGED vars
  BY <1>6 DEF Finished, vars
<1> QED  BY <1>1, <1>2, <1>3, <1>4, <1>5, <1>6 DEF Next

LEMMA VerdictStands ==
    ASSUME Inv, [Next]_vars, NEW c \in Calls, txStatus[c] \in {"committed", "aborted"}
    PROVE  txStatus'[c] = txStatus[c]
<1>1. ASSUME NEW d \in Calls, Call(d) PROVE txStatus' = txStatus
  BY <1>1 DEF Call, server
<1>2. ASSUME NEW d \in Calls, Step(d) PROVE txStatus'[c] = txStatus[c]
  <2>1. pc[d] = "begin" => txStatus[d] = "none"
    BY DEF Inv, ClientAndServerAgree
  <2>2. pc[d] = "rollback" => txStatus[d] # "committed"
    BY DEF Inv, ClientAndServerAgree
  <2> QED
    BY <1>2, <2>1, <2>2
    DEF Inv, TypeOK, Step, Begin, UpdateWallet, UpdateNoRow, UpdateOverflows, InsertRow,
        CommitSend, CommitAck, Rollback, Return, server
<1>3. ASSUME NEW d \in Calls, Failure(d) PROVE txStatus'[c] = txStatus[c]
  BY <1>3
  DEF Inv, TypeOK, Failure, BeginFails, StatementFails, CommitFails, RollbackLost, server
<1>4. ASSUME NEW d \in Calls, Server(d) PROVE txStatus'[c] = txStatus[c]
  BY <1>4 DEF Inv, TypeOK, Server, ServerCommit, ServerAbort, Unfinished
<1>5. CASE Crash \/ Finished \/ UNCHANGED vars
  BY <1>5 DEF Crash, Finished, vars, server
<1> QED  BY <1>1, <1>2, <1>3, <1>4, <1>5 DEF Next

(***************************************************************************)
(* Every step of a call brings it nearer to its return, and a verdict of   *)
(* the server stands: with NobodyWaitsInACircle this is why calls end that *)
(* are served in turn, which fairness adds.                                *)
(***************************************************************************)
THEOREM NoWayBack == Spec => CallsMoveForward
<1>1. Inv /\ [Next]_vars =>
        [\A c \in Calls :
           /\ pc'[c] = pc[c] \/ Stage[pc'[c]] < Stage[pc[c]]
           /\ txStatus[c] \in {"committed", "aborted"} => txStatus'[c] = txStatus[c]]_vars
  BY StageDrops, VerdictStands
<1> QED  BY <1>1, Invariance, PTL DEF Spec, CallsMoveForward

-----------------------------------------------------------------------------
\* The initial states map to initial states of WalletLedger.
LEMMA InitRefines == Init => Ledger!Init
BY DEF Init, Ledger!Init

\* The two modules mean the same by a posted entry.
LEMMA PostedIsPosted ==
    ASSUME NEW c \in Calls
    PROVE  Ledger!Posted(c) <=> Posted(c)
BY DEF Posted, Ledger!Posted

\* Every step is the abstract step of the same effect, or a stutter: a call
\* requests, ServerCommit posts, CommitAck confirms, UpdateNoRow refuses, an
\* error is a Fail.
LEMMA StepRefines ==
    ASSUME Inv, [Next]_vars
    PROVE  [Ledger!Next]_(Ledger!vars)
<1> DEFINE Stutters == UNCHANGED <<balance, ledger, entry, result>>
<1>1. ASSUME NEW c \in Calls, Call(c) PROVE Ledger!Request(c)
  BY <1>1
  DEF Call, Ledger!Request, Ledger!Entries, Entries, Inv, ClientAndServerAgree,
      server
<1>2. ASSUME NEW c \in Calls, UpdateNoRow(c) PROVE Ledger!Refuse(c)
  BY <1>2, PostedIsPosted
  DEF UpdateNoRow, Ledger!Refuse, Ledger!Matches, Ledger!NoRowResult, Matches,
      NoRowResult, Inv, ClientAndServerAgree, VerdictIsPosted, server
<1>3. ASSUME NEW c \in Calls,
             BeginFails(c) \/ UpdateOverflows(c) \/ StatementFails(c)
               \/ CommitFails(c)
      PROVE  Ledger!Fail(c)
  BY <1>3
  DEF BeginFails, UpdateOverflows, StatementFails, CommitFails, Return,
      Ledger!Fail, Inv, ClientAndServerAgree, server
<1>4. ASSUME NEW c \in Calls, CommitAck(c) PROVE Ledger!Confirm(c)
  BY <1>4, PostedIsPosted
  DEF CommitAck, Return, Ledger!Confirm, Inv, ClientAndServerAgree,
      VerdictIsPosted, server
<1>5. ASSUME NEW c \in Calls, ServerCommit(c) PROVE Ledger!Post(c)
  <2>1. /\ txRow[c] /\ Holds(c)
        /\ Wallet(c) \in Wallets
        /\ txBalance[c] = balance[Wallet(c)] + Delta(entry[c])
        /\ txBalance[c] \in 0 .. MaxBigint
        /\ entry[c] \in Entries
        /\ result[c] \in {"none", "error"}
        /\ ~Posted(c)
        /\ balance[Wallet(c)] \in Int
    BY <1>5
    DEF Inv, BothWritesOrNone, VersionIsCurrent, ServerCommit,
        ClientAndServerAgree, VerdictIsPosted, TypeOK
  <2>2. Matches(balance, entry[c]) /\ InRange(balance, entry[c])
    BY <2>1, DeltaIsInt DEF Matches, InRange, Wallet
  <2> QED
    BY <1>5, <2>1, <2>2, PostedIsPosted, NoEntryAssumption
    DEF ServerCommit, Ledger!Post, Wallet, client, Ledger!Matches,
        Ledger!InRange, Matches, Ledger!Delta, Delta
<1>6. ASSUME NEW c \in Calls,
             Begin(c) \/ UpdateWallet(c) \/ InsertRow(c) \/ CommitSend(c)
               \/ Rollback(c) \/ RollbackLost(c) \/ ServerAbort(c)
      PROVE  Stutters
  BY <1>6
  DEF Begin, UpdateWallet, InsertRow, CommitSend, Rollback, RollbackLost,
      ServerAbort, Return, server, client, Inv, TypeOK
<1>7. ASSUME Crash \/ Finished \/ UNCHANGED vars PROVE Stutters
  BY <1>7 DEF Crash, Finished, vars, server
<1> QED
  BY <1>1, <1>2, <1>3, <1>4, <1>5, <1>6, <1>7
  DEF Next, Step, Failure, Server, Ledger!Next, Ledger!vars

(***************************************************************************)
(* The two statements in a transaction implement the one-step ledger of    *)
(* WalletLedger: callers of CreditWallet and DebitWallet may think of      *)
(* either as posting at once.                                              *)
(***************************************************************************)
THEOREM Refinement == Spec => ImplementsLedger
<1> QED
  BY InitRefines, StepRefines, Invariance, PTL
  DEF Spec, ImplementsLedger, Ledger!Spec

=============================================================================
