---------------------------- MODULE WalletService ----------------------------
(***************************************************************************)
(* creditWallet and debitWallet of wallet/wallet.service.ts, as concurrent *)
(* requests against one PostgreSQL database (READ COMMITTED).              *)
(*                                                                         *)
(* A request first looks its idempotency key up outside any transaction,   *)
(* then checks its arguments, then opens a transaction that locks the      *)
(* wallet row with SELECT ... FOR UPDATE, updates the balance, inserts a   *)
(* ledger entry and commits.  Nothing a transaction writes is seen before  *)
(* it commits, so the writes of one transaction are the single step Commit.*)
(* Between any two steps other requests run, the transaction may be rolled *)
(* back (Prisma's maxWait or timeout, a lost connection) or the API        *)
(* process may die.                                                        *)
(***************************************************************************)
EXTENDS LedgerTotals

CONSTANTS
  Wallets,      (* the wallet ids a request may name                        *)
  Created,      (* those that table "Wallet" has a row for                  *)
  Users,        (* ids of the users                                         *)
  OwnerOf,      (* Wallet.userId                                            *)
  Requests,     (* one element per call of creditWallet or debitWallet      *)
  References,   (* client references and provider event ids                 *)
  Calls,        (* the arguments a request may carry, a subset of Call      *)
  NoRef,        (* a call without a reference                               *)
  NoKey,        (* SQL NULL in WalletLedgerEntry.idempotencyKey             *)
  NoOne,        (* no transaction holds the row lock                        *)
  HasFrozenAt   (* does table "Wallet" have the column lockWallet selects?  *)

LedgerEntryType ==
  {"deposit", "withdrawal", "transfer_in", "transfer_out", "trading"}

(***************************************************************************)
(* CreditWalletInput and DebitWalletInput.  "trusted" stands for what the  *)
(* authorisation tests look at: the ADMIN role of an admin credit, the     *)
(* verified flag of a webhook credit.  "ref" is the provider's event id of *)
(* a webhook credit and the client's reference otherwise; "user" is the    *)
(* caller of a debit.                                                      *)
(***************************************************************************)
Call == [op : {"credit", "debit"}, wallet : Wallets, amount : Int,
         type : LedgerEntryType, ref : References \cup {NoRef},
         source : {"admin", "webhook", "user"}, user : Users,
         trusted : BOOLEAN]

KeySet == [source : {"admin", "webhook", "user"}, ref : References,
           wallet : Wallets, action : {"credit", "debit"}]

ASSUME CallsAssumption == Calls \subseteq Call
ASSUME OwnerAssumption == OwnerOf \in [Wallets -> Users]
ASSUME NullAssumption ==
  NoRef \notin References /\ NoKey \notin KeySet /\ NoOne \notin Requests
ASSUME CreatedAssumption == Created \subseteq Wallets
ASSUME SchemaAssumption == HasFrozenAt \in BOOLEAN

VARIABLES
  call,       (* the arguments of each request                              *)
  pc,         (* how far a request is, or its answer once it has one        *)
  balance,    (* Wallet.balance                                             *)
  ledger,     (* WalletLedgerEntry rows of each wallet, in commit order     *)
  rowLock,    (* holder of the row lock of each wallet                      *)
  seen        (* wallet.balance as the request read it (balanceBefore)      *)

vars == <<call, pc, balance, ledger, rowLock, seen>>

(***************************************************************************)
(* Answers: "ok" is a 2xx response, "rejected" a 4xx decided before any    *)
(* write, "conflict" the unique violation that fails the transaction,      *)
(* "aborted" a transaction that failed for another reason, "unknown" a     *)
(* request whose process or connection died before it could answer.        *)
(***************************************************************************)
Failures == {"rejected", "conflict", "aborted"}
Answers  == Failures \cup {"ok", "unknown"}
Stages   == {"new", "begin", "locked", "committed"}

Entry == [by : Requests, type : LedgerEntryType, amount : Int,
          before : Int, after : Int, key : KeySet \cup {NoKey}]

-----------------------------------------------------------------------------
WalletOf(p) == call[p].wallet

(* generateKey and generateWebhookKey: the source, the reference or the    *)
(* provider's event id, the wallet and the action.                         *)
KeyOf(c) ==
  IF c.ref = NoRef
  THEN NoKey
  ELSE [source |-> c.source, ref |-> c.ref, wallet |-> c.wallet,
        action |-> c.op]

(* checkIdempotency: is there a committed entry with this key?             *)
Stored(k) ==
  /\ k # NoKey
  /\ \E w \in Wallets : \E i \in DOMAIN ledger[w] : ledger[w][i].key = k

(* The tests on the arguments that precede the transaction.                *)
Permitted(c) ==
  /\ c.amount > 0
  /\ \/ c.op = "credit" /\ c.source = "admin" /\ c.trusted
     \/ c.op = "credit" /\ c.source = "webhook" /\ c.trusted /\ c.ref # NoRef
     \/ c.op = "debit" /\ c.source = "user"

(* Slips: no funds test, no owner test.                                    *)
RefusedOwnerOnly(p) ==
  call[p].op = "debit" /\ OwnerOf[WalletOf(p)] # call[p].user
RefusedFundsOnly(p) == call[p].op = "debit" /\ seen[p] < call[p].amount

(* The tests of debitWallet on the locked row: owner, then funds.          *)
Refused(p) ==
  /\ call[p].op = "debit"
  /\ \/ OwnerOf[WalletOf(p)] # call[p].user
     \/ seen[p] < call[p].amount

(* balance: { increment: amount } or { decrement: amount }.                *)
Delta(c) == IF c.op = "credit" THEN c.amount ELSE -c.amount

(* Slips the checks must notice, here and below: the raw reference as the  *)
(* key, and no key at all.                                                 *)
RowKeyIsReference(c) == IF c.op = "credit" THEN c.ref ELSE NoKey
RowKeyDropped(c) == NoKey

(* The key the ledger row is created with: debitWallet computes one for    *)
(* its check and leaves it out of the row.                                 *)
RowKey(c) == IF c.op = "credit" THEN KeyOf(c) ELSE NoKey

NewEntry(p) ==
  [by |-> p, type |-> call[p].type, amount |-> call[p].amount,
   before |-> seen[p], after |-> balance[WalletOf(p)] + Delta(call[p]),
   key |-> RowKey(call[p])]

(* Slip: a transaction that ends keeps its lock.                           *)
ReleasedNothing(p) == [w \in Wallets |-> rowLock[w]]

(* A transaction that ends gives its row lock back.                        *)
Released(p) ==
  [w \in Wallets |-> IF rowLock[w] = p THEN NoOne ELSE rowLock[w]]

-----------------------------------------------------------------------------
Init ==
  /\ call \in [Requests -> Calls]
  /\ pc = [p \in Requests |-> "new"]
  /\ balance = [w \in Wallets |-> 0]
  /\ ledger = [w \in Wallets |-> <<>>]
  /\ rowLock = [w \in Wallets |-> NoOne]
  /\ seen = [p \in Requests |-> 0]

(* The lookup finds the key: the current wallet is returned.               *)
AnswerDuplicate(p) ==
  /\ pc[p] = "new"
  /\ Stored(KeyOf(call[p]))
  /\ pc' = [pc EXCEPT ![p] = "ok"]
  /\ UNCHANGED <<call, balance, ledger, rowLock, seen>>

(* The lookup finds nothing and the arguments fail a test.                 *)
RejectArguments(p) ==
  /\ pc[p] = "new"
  /\ ~Stored(KeyOf(call[p]))
  /\ ~Permitted(call[p])
  /\ pc' = [pc EXCEPT ![p] = "rejected"]
  /\ UNCHANGED <<call, balance, ledger, rowLock, seen>>

(* The lookup finds nothing and the request goes on to its transaction.    *)
CheckIdempotency(p) ==
  /\ pc[p] = "new"
  /\ ~Stored(KeyOf(call[p]))
  /\ Permitted(call[p])
  /\ pc' = [pc EXCEPT ![p] = "begin"]
  /\ UNCHANGED <<call, balance, ledger, rowLock, seen>>

(* Does the SELECT of lockWallet find a row?  Without the column it is an  *)
(* SQL error, without the row an Error.                                    *)
Selectable(w) == HasFrozenAt /\ w \in Created

(* Slip: SELECT without FOR UPDATE.                                        *)
LockWalletUnlocked(p) ==
  /\ pc[p] = "begin"
  /\ Selectable(WalletOf(p))
  /\ seen' = [seen EXCEPT ![p] = balance[WalletOf(p)]]
  /\ pc' = [pc EXCEPT ![p] = "locked"]
  /\ UNCHANGED <<call, balance, ledger, rowLock>>

(* lockWallet: SELECT ... FOR UPDATE waits for the row and reads it.       *)
LockWallet(p) ==
  /\ pc[p] = "begin"
  /\ Selectable(WalletOf(p))
  /\ rowLock[WalletOf(p)] = NoOne
  /\ rowLock' = [rowLock EXCEPT ![WalletOf(p)] = p]
  /\ seen' = [seen EXCEPT ![p] = balance[WalletOf(p)]]
  /\ pc' = [pc EXCEPT ![p] = "locked"]
  /\ UNCHANGED <<call, balance, ledger>>

(* Slip: the error is caught and the call goes on as if done.              *)
LockWalletFailureSwallowed(p) ==
  /\ pc[p] = "begin"
  /\ ~Selectable(WalletOf(p))
  /\ pc' = [pc EXCEPT ![p] = "ok"]
  /\ UNCHANGED <<call, balance, ledger, rowLock, seen>>

(* The SELECT fails or returns no row: the call fails.                     *)
LockWalletFails(p) ==
  /\ pc[p] = "begin"
  /\ ~Selectable(WalletOf(p))
  /\ pc' = [pc EXCEPT ![p] = "aborted"]
  /\ UNCHANGED <<call, balance, ledger, rowLock, seen>>

(* A debit by another user or beyond the balance throws: rollback.         *)
Refuse(p) ==
  /\ pc[p] = "locked"
  /\ Refused(p)
  /\ pc' = [pc EXCEPT ![p] = "rejected"]
  /\ rowLock' = Released(p)
  /\ UNCHANGED <<call, balance, ledger, seen>>

(* wallet.update, walletLedgerEntry.create and COMMIT.                     *)
Commit(p) ==
  /\ pc[p] = "locked"
  /\ ~Refused(p)
  /\ ~Stored(RowKey(call[p]))
  /\ balance' = [balance EXCEPT ![WalletOf(p)] = @ + Delta(call[p])]
  /\ ledger' = [ledger EXCEPT ![WalletOf(p)] = Append(@, NewEntry(p))]
  /\ rowLock' = Released(p)
  /\ pc' = [pc EXCEPT ![p] = "committed"]
  /\ UNCHANGED <<call, seen>>

(* Slip: the balance is updated outside the transaction.                   *)
ConflictKeepsUpdate(p) ==
  /\ pc[p] = "locked"
  /\ ~Refused(p)
  /\ Stored(RowKey(call[p]))
  /\ balance' = [balance EXCEPT ![WalletOf(p)] = @ + Delta(call[p])]
  /\ pc' = [pc EXCEPT ![p] = "conflict"]
  /\ rowLock' = Released(p)
  /\ UNCHANGED <<call, ledger, seen>>

(* The insert breaks the unique index on idempotencyKey: everything the    *)
(* transaction did is rolled back and the error reaches the caller.        *)
Conflict(p) ==
  /\ pc[p] = "locked"
  /\ ~Refused(p)
  /\ Stored(RowKey(call[p]))
  /\ pc' = [pc EXCEPT ![p] = "conflict"]
  /\ rowLock' = Released(p)
  /\ UNCHANGED <<call, balance, ledger, seen>>

Respond(p) ==
  /\ pc[p] = "committed"
  /\ pc' = [pc EXCEPT ![p] = "ok"]
  /\ UNCHANGED <<call, balance, ledger, rowLock, seen>>

(* Slip: a timeout of the request, not of its transaction.                 *)
AbortAfterCommit(p) ==
  /\ pc[p] \in {"begin", "locked", "committed"}
  /\ pc' = [pc EXCEPT ![p] = "aborted"]
  /\ rowLock' = Released(p)
  /\ UNCHANGED <<call, balance, ledger, seen>>

(* Prisma gives the transaction up: no connection within maxWait, or the   *)
(* transaction is older than its timeout.                                  *)
Abort(p) ==
  /\ pc[p] \in {"begin", "locked"}
  /\ pc' = [pc EXCEPT ![p] = "aborted"]
  /\ rowLock' = Released(p)
  /\ UNCHANGED <<call, balance, ledger, seen>>

(* The API process or its connection dies; an open transaction rolls back, *)
(* a committed one stays.                                                  *)
Crash(p) ==
  /\ pc[p] \in Stages
  /\ pc' = [pc EXCEPT ![p] = "unknown"]
  /\ rowLock' = Released(p)
  /\ UNCHANGED <<call, balance, ledger, seen>>

(* Every request has its answer.                                           *)
Quiescent ==
  /\ \A p \in Requests : pc[p] \in Answers
  /\ UNCHANGED vars

Step(p) ==
  \/ AnswerDuplicate(p)
  \/ RejectArguments(p)
  \/ CheckIdempotency(p)
  \/ LockWallet(p)
  \/ LockWalletFails(p)
  \/ Refuse(p)
  \/ Commit(p)
  \/ Conflict(p)
  \/ Respond(p)

Next ==
  \/ \E p \in Requests : Step(p) \/ Abort(p) \/ Crash(p)
  \/ Quiescent

Spec == Init /\ [][Next]_vars

(* The event loop and the database run every step that stays possible;     *)
(* PostgreSQL queues the waiters of a row lock, so none is passed over for *)
(* ever.  Nothing makes a transaction fail or a process die.               *)
FairSpec ==
  /\ Spec
  /\ \A p \in Requests : WF_vars(Step(p)) /\ SF_vars(LockWallet(p))
-----------------------------------------------------------------------------
Written(p) == \E w \in Wallets : \E i \in DOMAIN ledger[w] : ledger[w][i].by = p

PreviousAfter(entries, i) == IF i = 1 THEN 0 ELSE entries[i - 1].after

TypeOK ==
  /\ call \in [Requests -> Calls]
  /\ pc \in [Requests -> Stages \cup Answers]
  /\ balance \in [Wallets -> Int]
  /\ ledger \in [Wallets -> Seq(Entry)]
  /\ rowLock \in [Wallets -> Requests \cup {NoOne}]
  /\ seen \in [Requests -> Int]

(* No check on a stale row: while a transaction is between its lock and    *)
(* its commit, the balance it read (for balanceBefore and for the funds    *)
(* test of a debit) is the balance of the row.                             *)
LockedReadIsCurrent ==
  \A p \in Requests :
    pc[p] = "locked" => /\ rowLock[WalletOf(p)] = p
                        /\ seen[p] = balance[WalletOf(p)]

(* No lost update: each ledger entry starts from the balance the previous  *)
(* one left, moves it by the amount of its call in the direction of its    *)
(* call, and the wallet's balance is what the last entry left.             *)
LedgerChains ==
  \A w \in Wallets :
    /\ balance[w] = PreviousAfter(ledger[w], Len(ledger[w]) + 1)
    /\ \A i \in DOMAIN ledger[w] :
         LET e == ledger[w][i]
         IN  /\ e.before = PreviousAfter(ledger[w], i)
             /\ e.after = e.before + Delta(call[e.by])

(* Concurrent debits never spend the same funds twice: no balance, present *)
(* or recorded, is below zero.                                             *)
NeverNegative ==
  \A w \in Wallets :
    /\ balance[w] >= 0
    /\ \A i \in DOMAIN ledger[w] : ledger[w][i].after >= 0

(* However often a credit with a reference is delivered, and however the   *)
(* deliveries interleave, at most one of them is in the ledger.            *)
CreditedOncePerKey ==
  \A w \in Wallets : \A i, j \in DOMAIN ledger[w] :
    LET c == call[ledger[w][i].by]
        d == call[ledger[w][j].by]
    IN  (c.op = "credit" /\ d.op = "credit" /\ c.ref # NoRef /\ KeyOf(c) = KeyOf(d))
          => i = j

(* The answer tells the truth about the ledger: "ok" means that this call, *)
(* or an earlier one with its key, is recorded; a failure means that this  *)
(* call changed nothing.                                                   *)
AnswersMatchLedger ==
  \A p \in Requests :
    /\ pc[p] = "ok" => \/ Written(p)
                       \/ Stored(KeyOf(call[p]))
    /\ pc[p] \in Failures => ~Written(p)

(* A debit takes from the caller's own wallet, and only a trusted source   *)
(* credits.                                                                *)
OnlyPermittedMoves ==
  \A w \in Wallets : \A i \in DOMAIN ledger[w] :
    LET c == call[ledger[w][i].by]
    IN  /\ c.amount > 0
        /\ c.op = "debit" => c.user = OwnerOf[w]
        /\ c.op = "credit" => c.trusted

(* Wallet.balance = SUM(WalletLedgerEntry) (docs/ARCHITECTURE.md:401), as  *)
(* assertLedgerMatchesBalance computes it, on every wallet whose entries   *)
(* go in the direction of their type; the DTOs admit a credit that is a    *)
(* "withdrawal", which the totals count on the other side.                 *)
TypeFits(c) == c.type \in IF c.op = "credit" THEN CreditTypes ELSE DebitTypes

BalanceIsLedgerTotal ==
  \A w \in Wallets :
    (\A i \in DOMAIN ledger[w] : TypeFits(call[ledger[w][i].by]))
      => balance[w] = LedgerBalance(ledger[w])

(* "All balance changes are recorded immutably in ledger": a step that     *)
(* changes a wallet's balance or ledger is the commit of the transaction   *)
(* that holds its row, and appends exactly one entry that records it.      *)
RecordsItsMove(w) ==
  LET e == ledger'[w][Len(ledger'[w])]
  IN  /\ ledger'[w] = Append(ledger[w], e)
      /\ e.before = balance[w]
      /\ e.after = balance'[w]
      /\ rowLock[w] = e.by

EveryChangeRecorded ==
  [][\A w \in Wallets : balance'[w] # balance[w] \/ ledger'[w] # ledger[w]
       => RecordsItsMove(w)]_vars

(* No request that was made waits for ever, whoever holds the lock it      *)
(* needs and however it ends.                                              *)
EveryRequestAnswered ==
  \A p \in Requests : pc[p] # "new" ~> pc[p] \in Answers
=============================================================================
