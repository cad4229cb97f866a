--------------------------- MODULE BalanceWriters ---------------------------
(***************************************************************************)
(* Every path of the program that writes Wallet.balance, side by side:     *)
(* creditWallet and debitWallet (WalletService), and the ones that do not  *)
(* lock the row before they read it:                                       *)
(*   manual    AdminService.manualCredit, an increment in a transaction    *)
(*   transact  TransactionService.createTransaction, an absolute write in  *)
(*             a transaction                                               *)
(*   replay    ProviderReconciliationService.replayMissingWebhook, four    *)
(*             statements that each commit on their own                    *)
(*   fix       scripts/reconcile-balance.ts --fix, an absolute write of a  *)
(*             balance computed earlier                                    *)
(* An UPDATE of a wallet row waits for the transaction that holds the row  *)
(* and, inside a transaction, keeps the row until it ends.                 *)
(***************************************************************************)
EXTENDS WalletService, FiniteSetsExt

CONSTANTS
  Jobs,       (* one element per run of an unlocked writer                  *)
  Tasks,      (* what a job may be asked to do, a subset of Task            *)
  TxKeys,     (* client keys of transactions                                *)
  NoTxKey,    (* a transaction without idempotencyKey                       *)
  Alerts      (* ids of MissingWebhookAlert rows                            *)

Task ==
  [kind : {"manual"}, wallet : Wallets, amount : Int]
    \cup [kind : {"transact"}, wallet : Wallets, amount : Int, user : Users,
          key : TxKeys \cup {NoTxKey}]
    \cup [kind : {"replay"}, wallet : Wallets, amount : Int, alert : Alerts]
    \cup [kind : {"fix"}, wallet : Wallets]

(* Its wallets come from a lookup, so they exist.                          *)
ASSUME WalletsAssumption == Created = Wallets
ASSUME TasksAssumption == Tasks \subseteq Task
(* A replay credits the amount of an OnRamp row, which validateAmount made *)
(* sure is positive before it rounded it to cents.                         *)
ASSUME OnRampAssumption == \A t \in Tasks : t.kind = "replay" => t.amount >= 0
ASSUME JobsAssumption ==
  /\ Jobs \cap Requests = {}
  /\ NoOne \notin Jobs
  /\ NoTxKey \notin TxKeys

VARIABLES
  task,           (* what each job does                                     *)
  jpc,            (* how far a job is, or its outcome                       *)
  jseen,          (* the balance a job has read or computed                 *)
  transactions,   (* Transaction rows                                       *)
  alertStatus,    (* MissingWebhookAlert.status                             *)
  stale           (* bookkeeping: fixes whose wallet got an entry since they*)
                  (* calculated its balance                                 *)

jvars == <<task, jpc, jseen, transactions, alertStatus>>
wvars == <<vars, jvars, stale>>

JobOpen == {"new", "read", "update", "commit", "entry", "resolve", "committed"}

-----------------------------------------------------------------------------
Kind(j) == task[j].kind
RowOf(j) == task[j].wallet

KeyTaken(k) == k # NoTxKey /\ \E t \in transactions : t.key = k

JobEntry(j, before, after) ==
  [by |-> j, type |-> "deposit", amount |-> task[j].amount,
   before |-> before, after |-> after, key |-> NoKey]

(* calculateBalanceFromLedger: the script's walk over the entries, which   *)
(* throws where the chain of balances is broken.                           *)
SignedAmount(e) == IF e.type \in CreditTypes THEN e.amount ELSE -e.amount

(* Slip: balanceBefore is not compared.                                    *)
ChainIntactAfter(entries) ==
  \A i \in DOMAIN entries : entries[i].after = entries[i].before + SignedAmount(entries[i])

ChainIntact(entries) ==
  \A i \in DOMAIN entries :
    /\ entries[i].before = PreviousAfter(entries, i)
    /\ entries[i].after = entries[i].before + SignedAmount(entries[i])

CalculatedBalance(entries) == PreviousAfter(entries, Len(entries) + 1)

-----------------------------------------------------------------------------
WInit ==
  /\ Init
  /\ task \in [Jobs -> Tasks]
  /\ jpc = [j \in Jobs |-> "new"]
  /\ jseen = [j \in Jobs |-> 0]
  /\ transactions = {}
  /\ alertStatus = [a \in Alerts |-> "pending"]
  /\ stale = {}

Goto(j, stage) == jpc' = [jpc EXCEPT ![j] = stage]

(* The UPDATE statement of a manual credit or a transaction gets the row.  *)
TakeRow(j) ==
  /\ Kind(j) \in {"manual", "transact"}
  /\ jpc[j] = "update"
  /\ rowLock[RowOf(j)] = NoOne
  /\ rowLock' = [rowLock EXCEPT ![RowOf(j)] = j]
  /\ Goto(j, "commit")
  /\ UNCHANGED <<call, pc, balance, ledger, seen>>
  /\ UNCHANGED <<task, jseen, transactions, alertStatus>>

(* manualCredit and createTransaction refuse an amount that is not         *)
(* positive.                                                               *)
RejectTask(j) ==
  /\ Kind(j) \in {"manual", "transact"}
  /\ jpc[j] = "new"
  /\ task[j].amount <= 0
  /\ Goto(j, "rejected")
  /\ UNCHANGED vars /\ UNCHANGED <<task, jseen, transactions, alertStatus>>

(* findUniqueOrThrow takes no lock.                                        *)
ManualRead(j) ==
  /\ Kind(j) = "manual"
  /\ jpc[j] = "new"
  /\ task[j].amount > 0
  /\ jseen' = [jseen EXCEPT ![j] = balance[RowOf(j)]]
  /\ Goto(j, "update")
  /\ UNCHANGED vars /\ UNCHANGED <<task, transactions, alertStatus>>

(* Slip: an absolute write instead of the increment.                       *)
ManualCommitAbsolute(j) ==
  /\ Kind(j) = "manual"
  /\ jpc[j] = "commit"
  /\ LET after == jseen[j] + task[j].amount
     IN  /\ balance' = [balance EXCEPT ![RowOf(j)] = after]
         /\ ledger' = [ledger EXCEPT ![RowOf(j)] =
                         Append(@, JobEntry(j, jseen[j], after))]
  /\ rowLock' = Released(j)
  /\ Goto(j, "committed")
  /\ UNCHANGED <<call, pc, seen>>
  /\ UNCHANGED <<task, jseen, transactions, alertStatus>>

(* The increment applies to the row as it is now; balanceBefore is what    *)
(* was read before.                                                        *)
ManualCommit(j) ==
  /\ Kind(j) = "manual"
  /\ jpc[j] = "commit"
  /\ LET after == balance[RowOf(j)] + task[j].amount
     IN  /\ balance' = [balance EXCEPT ![RowOf(j)] = after]
         /\ ledger' = [ledger EXCEPT ![RowOf(j)] =
                         Append(@, JobEntry(j, jseen[j], after))]
  /\ rowLock' = Released(j)
  /\ Goto(j, "committed")
  /\ UNCHANGED <<call, pc, seen>>
  /\ UNCHANGED <<task, jseen, transactions, alertStatus>>

(* createTransaction looks its key up outside the transaction, among the   *)
(* transactions of every wallet.                                           *)
TransactCheckKey(j) ==
  /\ Kind(j) = "transact"
  /\ jpc[j] = "new"
  /\ task[j].amount > 0
  /\ Goto(j, IF KeyTaken(task[j].key) THEN "ok" ELSE "read")
  /\ UNCHANGED vars /\ UNCHANGED <<task, jseen, transactions, alertStatus>>

(* Slip: no test of the new balance.                                       *)
TransactReadUnchecked(j) ==
  /\ Kind(j) = "transact"
  /\ jpc[j] = "read"
  /\ jseen' = [jseen EXCEPT ![j] = balance[RowOf(j)]]
  /\ Goto(j, IF OwnerOf[RowOf(j)] # task[j].user THEN "rejected" ELSE "update")
  /\ UNCHANGED vars /\ UNCHANGED <<task, transactions, alertStatus>>

(* The unlocked read, the owner test and the funds test.                   *)
TransactRead(j) ==
  /\ Kind(j) = "transact"
  /\ jpc[j] = "read"
  /\ jseen' = [jseen EXCEPT ![j] = balance[RowOf(j)]]
  /\ Goto(j, IF \/ OwnerOf[RowOf(j)] # task[j].user
                \/ balance[RowOf(j)] - task[j].amount < 0
             THEN "rejected" ELSE "update")
  /\ UNCHANGED vars /\ UNCHANGED <<task, transactions, alertStatus>>

(* data: { balance: newBalance }, computed from the read above, and the    *)
(* Transaction row.  No ledger entry is written.                           *)
TransactCommit(j) ==
  /\ Kind(j) = "transact"
  /\ jpc[j] = "commit"
  /\ ~KeyTaken(task[j].key)
  /\ balance' = [balance EXCEPT ![RowOf(j)] = jseen[j] - task[j].amount]
  /\ transactions' = transactions \cup
       {[by |-> j, wallet |-> RowOf(j), amount |-> task[j].amount,
         key |-> task[j].key]}
  /\ rowLock' = Released(j)
  /\ Goto(j, "committed")
  /\ UNCHANGED <<call, pc, ledger, seen>>
  /\ UNCHANGED <<task, jseen, alertStatus>>

(* The unique index on Transaction.idempotencyKey: rollback and 409.       *)
TransactConflict(j) ==
  /\ Kind(j) = "transact"
  /\ jpc[j] = "commit"
  /\ KeyTaken(task[j].key)
  /\ rowLock' = Released(j)
  /\ Goto(j, "conflict")
  /\ UNCHANGED <<call, pc, balance, ledger, seen>>
  /\ UNCHANGED <<task, jseen, transactions, alertStatus>>

(* replayMissingWebhook reads the alert, whatever its status, and marks    *)
(* the on-ramp completed.                                                  *)
ReplayStart(j) ==
  /\ Kind(j) = "replay"
  /\ jpc[j] = "new"
  /\ Goto(j, "read")
  /\ UNCHANGED vars /\ UNCHANGED <<task, jseen, transactions, alertStatus>>

ReplayRead(j) ==
  /\ Kind(j) = "replay"
  /\ jpc[j] = "read"
  /\ jseen' = [jseen EXCEPT ![j] = balance[RowOf(j)]]
  /\ Goto(j, "update")
  /\ UNCHANGED vars /\ UNCHANGED <<task, transactions, alertStatus>>

(* Slip: the balance is written and the ledger forgotten.                  *)
ReplayWriteOnly(j) ==
  /\ Kind(j) = "replay"
  /\ jpc[j] = "update"
  /\ rowLock[RowOf(j)] = NoOne
  /\ balance' = [balance EXCEPT ![RowOf(j)] = jseen[j] + task[j].amount]
  /\ Goto(j, "resolve")
  /\ UNCHANGED <<call, pc, ledger, rowLock, seen>>
  /\ UNCHANGED <<task, jseen, transactions, alertStatus>>

ReplayWrite(j) ==
  /\ Kind(j) = "replay"
  /\ jpc[j] = "update"
  /\ rowLock[RowOf(j)] = NoOne
  /\ balance' = [balance EXCEPT ![RowOf(j)] = jseen[j] + task[j].amount]
  /\ Goto(j, "entry")
  /\ UNCHANGED <<call, pc, ledger, rowLock, seen>>
  /\ UNCHANGED <<task, jseen, transactions, alertStatus>>

(* The insert takes the key-share lock of its foreign key, which a SELECT  *)
(* ... FOR UPDATE excludes and an UPDATE does not.                         *)
ReplayEntry(j) ==
  /\ Kind(j) = "replay"
  /\ jpc[j] = "entry"
  /\ rowLock[RowOf(j)] \notin Requests
  /\ ledger' = [ledger EXCEPT ![RowOf(j)] =
                  Append(@, JobEntry(j, jseen[j], jseen[j] + task[j].amount))]
  /\ Goto(j, "resolve")
  /\ UNCHANGED <<call, pc, balance, rowLock, seen>>
  /\ UNCHANGED <<task, jseen, transactions, alertStatus>>

ReplayResolve(j) ==
  /\ Kind(j) = "replay"
  /\ jpc[j] = "resolve"
  /\ alertStatus' = [alertStatus EXCEPT ![task[j].alert] = "manual_reviewed"]
  /\ Goto(j, "committed")
  /\ UNCHANGED vars /\ UNCHANGED <<task, jseen, transactions>>

(* reconcileWallet reads the wallet first and the entries afterwards.      *)
FixRead(j) ==
  /\ Kind(j) = "fix"
  /\ jpc[j] = "new"
  /\ jseen' = [jseen EXCEPT ![j] = balance[RowOf(j)]]
  /\ Goto(j, "read")
  /\ UNCHANGED vars /\ UNCHANGED <<task, transactions, alertStatus>>

(* A broken chain is an error, no discrepancy leaves nothing to do, and a  *)
(* discrepancy waits for the operator with the calculated balance.         *)
FixCompare(j) ==
  LET entries    == ledger[RowOf(j)]
      calculated == CalculatedBalance(entries)
  IN  /\ Kind(j) = "fix"
      /\ jpc[j] = "read"
      /\ \/ /\ ~ChainIntact(entries)
            /\ Goto(j, "rejected")
            /\ UNCHANGED jseen
         \/ /\ ChainIntact(entries)
            /\ jseen[j] = calculated
            /\ Goto(j, "ok")
            /\ UNCHANGED jseen
         \/ /\ ChainIntact(entries)
            /\ jseen[j] # calculated
            /\ Goto(j, "update")
            /\ jseen' = [jseen EXCEPT ![j] = calculated]
      /\ UNCHANGED vars /\ UNCHANGED <<task, transactions, alertStatus>>

(* The operator answers no.                                                *)
FixCancel(j) ==
  /\ Kind(j) = "fix"
  /\ jpc[j] = "update"
  /\ Goto(j, "rejected")
  /\ UNCHANGED vars /\ UNCHANGED <<task, jseen, transactions, alertStatus>>

(* The operator answers yes, or --force: fixWalletBalance.                 *)
FixWrite(j) ==
  /\ Kind(j) = "fix"
  /\ jpc[j] = "update"
  /\ rowLock[RowOf(j)] = NoOne
  /\ balance' = [balance EXCEPT ![RowOf(j)] = jseen[j]]
  /\ Goto(j, "committed")
  /\ UNCHANGED <<call, pc, ledger, rowLock, seen>>
  /\ UNCHANGED <<task, jseen, transactions, alertStatus>>

JobRespond(j) ==
  /\ jpc[j] = "committed"
  /\ Goto(j, "ok")
  /\ UNCHANGED vars /\ UNCHANGED <<task, jseen, transactions, alertStatus>>

(* Slip: a timeout is reported after the commit.                           *)
JobAbortLate(j) ==
  /\ Kind(j) \in {"manual", "transact"} /\ jpc[j] = "committed"
  /\ Goto(j, "aborted")
  /\ UNCHANGED vars /\ UNCHANGED <<task, jseen, transactions, alertStatus>>

(* The transaction of a manual credit or of createTransaction times out.   *)
JobAbort(j) ==
  /\ \/ /\ Kind(j) = "manual" /\ task[j].amount > 0
        /\ jpc[j] \in {"new", "update", "commit"}
     \/ Kind(j) = "transact" /\ jpc[j] \in {"read", "update", "commit"}
  /\ rowLock' = Released(j)
  /\ Goto(j, "aborted")
  /\ UNCHANGED <<call, pc, balance, ledger, seen>>
  /\ UNCHANGED <<task, jseen, transactions, alertStatus>>

JobCrash(j) ==
  /\ jpc[j] \in JobOpen
  /\ rowLock' = Released(j)
  /\ Goto(j, "unknown")
  /\ UNCHANGED <<call, pc, balance, ledger, seen>>
  /\ UNCHANGED <<task, jseen, transactions, alertStatus>>

JobStep(j) ==
  \/ TakeRow(j) \/ RejectTask(j)
  \/ ManualRead(j) \/ ManualCommit(j)
  \/ TransactCheckKey(j) \/ TransactRead(j)
  \/ TransactCommit(j) \/ TransactConflict(j)
  \/ ReplayStart(j) \/ ReplayRead(j) \/ ReplayWrite(j)
  \/ ReplayEntry(j) \/ ReplayResolve(j)
  \/ FixRead(j) \/ FixCompare(j) \/ FixCancel(j) \/ FixWrite(j)
  \/ JobRespond(j)

AllDone ==
  /\ \A p \in Requests : pc[p] \in Answers
  /\ \A j \in Jobs : jpc[j] \in Answers
  /\ UNCHANGED wvars

GoneStale ==
  {j \in Jobs : /\ Kind(j) = "fix" /\ jpc[j] = "update"
                /\ ledger'[RowOf(j)] # ledger[RowOf(j)]}

BalanceStep ==
  /\ \/ \E p \in Requests : (Step(p) \/ Abort(p) \/ Crash(p)) /\ UNCHANGED jvars
     \/ \E j \in Jobs : JobStep(j) \/ JobAbort(j) \/ JobCrash(j)
  /\ stale' = stale \cup GoneStale

WNext == BalanceStep \/ AllDone

WSpec == WInit /\ [][WNext]_wvars
-----------------------------------------------------------------------------
(* Whatever lost updates the unlocked writers cause, none of them can put  *)
(* a wallet below zero: a funds test always precedes the write it allows.  *)
FundsNeverNegative == \A w \in Wallets : balance[w] >= 0

ExecutedOnce ==
  \A t, u \in transactions : t.key # NoTxKey /\ t.key = u.key => t.by = u.by

Recorded(j) ==
  \/ \E w \in Wallets : \E i \in DOMAIN ledger[w] : ledger[w][i].by = j
  \/ \E t \in transactions : t.by = j

(* The answer of an unlocked writer tells the truth about its records, and *)
(* a client key is executed once, although two transactions that carry it  *)
(* may both have found it unused.  A replay or a fix has no transaction to *)
(* roll back, so a failure of it is an "unknown" and promises nothing.     *)
JobAnswersMatchRecords ==
  /\ ExecutedOnce
  /\ \A j \in Jobs :
       /\ jpc[j] \in Failures => ~Recorded(j)
       /\ (jpc[j] = "ok" /\ Kind(j) \in {"manual", "replay"}) => Recorded(j)
       /\ (jpc[j] = "ok" /\ Kind(j) = "transact")
            => Recorded(j) \/ KeyTaken(task[j].key)

(* A replay closes its alert only after the credit it asks for is in the   *)
(* ledger.  (resolveMissingWebhook closes alerts without a credit: see     *)
(* ProviderReconciliation.)                                                *)
ClosedAlertsAreCredited ==
  \A a \in Alerts : alertStatus[a] = "manual_reviewed" =>
    \E j \in Jobs : Kind(j) = "replay" /\ task[j].alert = a /\ Recorded(j)

(* What a fix writes is what the totals say: if no entry was added while   *)
(* the operator made up his mind, the script's walk over the entries and   *)
(* the sums that every other check goes by agree on the new balance.       *)
QuietFixIsExact ==
  [][\A j \in Jobs \ stale :
       (Kind(j) = "fix" /\ jpc[j] = "update" /\ jpc'[j] = "committed")
         => balance'[RowOf(j)] = LedgerBalance(ledger[RowOf(j)])]_wvars

(* No money appears or disappears: the balance is what the ledger and the  *)
(* transactions account for.  "Fetch wallet with lock (for write)"         *)
(* (transaction.service.ts:82) is meant to guarantee it.                   *)
Transacted(w) ==
  FoldSet(LAMBDA t, sum : sum + t.amount, 0,
          {t \in transactions : t.wallet = w})

MoneyConserved ==
  \A w \in Wallets : balance[w] = LedgerBalance(ledger[w]) - Transacted(w)

(* "Wallet.balance = SUM(WalletLedgerEntry)" (docs/ARCHITECTURE.md:401)    *)
(* holds on every wallet that only manual credits and requests of fitting  *)
(* types write: the increment of a manual credit, unlike the absolute      *)
(* writes of the others, makes up for the lock its read does not take.     *)
IncrementsKeepStep ==
  \A w \in Wallets :
    (/\ \A j \in Jobs : RowOf(j) = w => Kind(j) = "manual"
     /\ \A i \in DOMAIN ledger[w] :
          ledger[w][i].by \in Requests => TypeFits(call[ledger[w][i].by]))
      => balance[w] = LedgerBalance(ledger[w])
=============================================================================
