------------------------- MODULE WalletServiceProofs -------------------------
(***************************************************************************)
(* Proofs about WalletService for any wallets, requests and calls.  They   *)
(* are layered: type correctness, then who holds the row lock, then what   *)
(* the entries of the ledger say, from these the safety properties, and    *)
(* last that the service implements AbstractWallet.                        *)
(***************************************************************************)
EXTENDS WalletRefinement, ListLemmas, TLAPS

USE DEF Stages, Answers, Failures

(* A step of a request leaves its arguments alone.                         *)
LEMMA CallsAreFixed == [Next]_vars => call' = call
  BY DEF Next, vars, Step, AnswerDuplicate, RejectArguments, CheckIdempotency,
         LockWallet, LockWalletFails, Refuse, Commit, Conflict, Respond,
         Abort, Crash, Quiescent

(* The fields of a call.                                                   *)
LEMMA FieldsOfCall ==
  ASSUME call \in [Requests -> Calls], NEW p \in Requests
  PROVE  /\ call[p] \in Call
         /\ WalletOf(p) \in Wallets
         /\ Delta(call[p]) \in Int
         /\ KeyOf(call[p]) \in KeySet \cup {NoKey}
         /\ RowKey(call[p]) \in KeySet \cup {NoKey}
  <1>1. call[p] \in Call
    BY CallsAssumption
  <1>2. WalletOf(p) \in Wallets
    BY <1>1 DEF Call, WalletOf
  <1>3. Delta(call[p]) \in Int
    BY <1>1 DEF Call, Delta
  <1>4. KeyOf(call[p]) \in KeySet \cup {NoKey}
    BY <1>1 DEF Call, KeyOf, KeySet
  <1>5. QED
    BY <1>1, <1>2, <1>3, <1>4 DEF RowKey

LEMMA CallFields ==
  ASSUME TypeOK, NEW p \in Requests
  PROVE  /\ call[p] \in Call
         /\ WalletOf(p) \in Wallets
         /\ Delta(call[p]) \in Int
         /\ KeyOf(call[p]) \in KeySet \cup {NoKey}
         /\ RowKey(call[p]) \in KeySet \cup {NoKey}
  BY FieldsOfCall DEF TypeOK

LEMMA NewEntryType ==
  ASSUME TypeOK, NEW p \in Requests
  PROVE  NewEntry(p) \in Entry
  <1>1. balance[WalletOf(p)] \in Int /\ seen[p] \in Int
    BY CallFields DEF TypeOK
  <1>2. call[p].type \in LedgerEntryType /\ call[p].amount \in Int
    BY CallFields DEF Call
  <1>3. QED
    BY <1>1, <1>2, CallFields DEF NewEntry, Entry

LEMMA ReleasedType ==
  ASSUME TypeOK, NEW p \in Requests
  PROVE  Released(p) \in [Wallets -> Requests \cup {NoOne}]
  BY DEF TypeOK, Released

(* Every variable keeps its type: in particular no ledger row and no key   *)
(* of another shape is ever stored.                                        *)
THEOREM TypeCorrect == Spec => []TypeOK
  <1>1. Init => TypeOK
    BY DEF Init, TypeOK
  <1>2. TypeOK /\ [Next]_vars => TypeOK'
    <2> SUFFICES ASSUME TypeOK, [Next]_vars PROVE TypeOK'
      OBVIOUS
    <2>1. ASSUME NEW p \in Requests,
                 AnswerDuplicate(p) \/ RejectArguments(p) \/ CheckIdempotency(p)
                   \/ LockWalletFails(p) \/ Respond(p)
          PROVE  TypeOK'
      BY <2>1 DEF TypeOK, AnswerDuplicate, RejectArguments, CheckIdempotency,
                  LockWalletFails, Respond
    <2>2. ASSUME NEW p \in Requests, LockWallet(p)
          PROVE  TypeOK'
      BY <2>2, CallFields DEF TypeOK, LockWallet
    <2>3. ASSUME NEW p \in Requests,
                 Refuse(p) \/ Conflict(p) \/ Abort(p) \/ Crash(p)
          PROVE  TypeOK'
      BY <2>3, ReleasedType DEF TypeOK, Refuse, Conflict, Abort, Crash
    <2>4. ASSUME NEW p \in Requests, Commit(p)
          PROVE  TypeOK'
      <3>1. ledger' \in [Wallets -> Seq(Entry)]
        BY <2>4, NewEntryType, CallFields DEF TypeOK, Commit
      <3>2. balance' \in [Wallets -> Int]
        BY <2>4, CallFields DEF TypeOK, Commit
      <3>3. QED
        BY <2>4, <3>1, <3>2, ReleasedType DEF TypeOK, Commit
    <2>5. CASE Quiescent \/ UNCHANGED vars
      BY <2>5 DEF TypeOK, Quiescent, vars
    <2>6. QED
      BY <2>1, <2>2, <2>3, <2>4, <2>5 DEF Next, Step
  <1>3. QED
    BY <1>1, <1>2, PTL DEF Spec

-----------------------------------------------------------------------------
(* The row lock.                                                           *)
LockInv ==
  \A w \in Wallets : rowLock[w] # NoOne =>
    pc[rowLock[w]] = "locked" /\ WalletOf(rowLock[w]) = w

LEMMA LockStep ==
  ASSUME TypeOK, LockInv, LockedReadIsCurrent, [Next]_vars
  PROVE  LockInv' /\ LockedReadIsCurrent'
  <1> USE DEF LockInv, LockedReadIsCurrent
  <1>1. ASSUME NEW p \in Requests,
               AnswerDuplicate(p) \/ RejectArguments(p) \/ CheckIdempotency(p)
                 \/ LockWalletFails(p) \/ Respond(p)
        PROVE  LockInv' /\ LockedReadIsCurrent'
    BY <1>1, NullAssumption DEF TypeOK, WalletOf, AnswerDuplicate, RejectArguments,
                CheckIdempotency, LockWalletFails, Respond
  <1>2. ASSUME NEW p \in Requests, LockWallet(p)
        PROVE  LockInv' /\ LockedReadIsCurrent'
    BY <1>2, CallFields, NullAssumption DEF TypeOK, WalletOf, LockWallet
  <1>3. ASSUME NEW p \in Requests,
               Refuse(p) \/ Conflict(p) \/ Abort(p) \/ Crash(p)
        PROVE  LockInv' /\ LockedReadIsCurrent'
    <2>1. /\ \A w \in Wallets :
               rowLock'[w] = IF rowLock[w] = p THEN NoOne ELSE rowLock[w]
          /\ UNCHANGED <<call, balance, seen>>
          /\ \A q \in Requests : q # p => pc'[q] = pc[q]
          /\ pc'[p] # "locked"
      BY <1>3 DEF TypeOK, Released, Refuse, Conflict, Abort, Crash
    <2>2. LockInv'
      BY <2>1, NullAssumption DEF TypeOK, WalletOf
    <2>3. LockedReadIsCurrent'
      BY <2>1, CallFields, NullAssumption DEF WalletOf
    <2>4. QED
      BY <2>2, <2>3
  <1>4. ASSUME NEW p \in Requests, Commit(p)
        PROVE  LockInv' /\ LockedReadIsCurrent'
    <2>1. \A q \in Requests \ {p} :
            pc[q] = "locked" => WalletOf(q) # WalletOf(p)
      BY <1>4 DEF Commit
    <2>2. QED
      BY <1>4, <2>1, CallFields, NullAssumption
         DEF TypeOK, WalletOf, Released, Commit
  <1>5. CASE Quiescent \/ UNCHANGED vars
    BY <1>5 DEF WalletOf, Quiescent, vars
  <1>6. QED
    BY <1>1, <1>2, <1>3, <1>4, <1>5 DEF Next, Step

LEMMA LockCorrect == Spec => [](LockInv /\ LockedReadIsCurrent)
  <1>1. Init => LockInv /\ LockedReadIsCurrent
    BY DEF Init, LockInv, LockedReadIsCurrent
  <1>2. QED
    BY <1>1, LockStep, TypeCorrect, PTL DEF Spec

(* Between its lock and its commit a transaction's read stays current: the *)
(* funds test of a debit and balanceBefore are never stale.                *)
THEOREM NoStaleRead == Spec => []LockedReadIsCurrent
  BY LockCorrect, PTL

-----------------------------------------------------------------------------
(* The ledger.  Only a commit touches it, and it appends one entry.        *)
LEMMA CommitAppends ==
  ASSUME TypeOK, NEW p \in Requests, Commit(p)
  PROVE  /\ WalletOf(p) \in Wallets
         /\ DOMAIN ledger[WalletOf(p)] = 1 .. Len(ledger[WalletOf(p)])
         /\ DOMAIN ledger'[WalletOf(p)] = 1 .. Len(ledger[WalletOf(p)]) + 1
         /\ Len(ledger'[WalletOf(p)]) = Len(ledger[WalletOf(p)]) + 1
         /\ Len(ledger[WalletOf(p)]) \in Nat
         /\ \A i \in 1 .. Len(ledger[WalletOf(p)]) :
              ledger'[WalletOf(p)][i] = ledger[WalletOf(p)][i]
         /\ ledger'[WalletOf(p)][Len(ledger[WalletOf(p)]) + 1] = NewEntry(p)
         /\ ledger'[WalletOf(p)] = Append(ledger[WalletOf(p)], NewEntry(p))
         /\ balance'[WalletOf(p)] = balance[WalletOf(p)] + Delta(call[p])
         /\ \A v \in Wallets : v # WalletOf(p) =>
              ledger'[v] = ledger[v] /\ balance'[v] = balance[v]
  <1>1. WalletOf(p) \in Wallets
    BY CallFields
  <1>2. /\ ledger[WalletOf(p)] \in Seq(Entry)
        /\ NewEntry(p) \in Entry
    BY <1>1, NewEntryType DEF TypeOK
  <1>3. ledger'[WalletOf(p)] = Append(ledger[WalletOf(p)], NewEntry(p))
    BY <1>1 DEF TypeOK, Commit
  <1>4. /\ balance'[WalletOf(p)] = balance[WalletOf(p)] + Delta(call[p])
        /\ \A v \in Wallets : v # WalletOf(p) =>
             ledger'[v] = ledger[v] /\ balance'[v] = balance[v]
    BY <1>1 DEF TypeOK, Commit
  <1>5. QED
    BY <1>1, <1>2, <1>3, <1>4

LEMMA OnlyCommitMoves ==
  ASSUME [Next]_vars, \A p \in Requests : ~Commit(p)
  PROVE  UNCHANGED <<ledger, balance>>
  BY DEF Next, vars, Step, AnswerDuplicate, RejectArguments, CheckIdempotency,
         LockWallet, LockWalletFails, Refuse, Conflict, Respond,
         Abort, Crash, Quiescent

(* No entry is ever changed or removed.                                    *)
LEMMA LedgerGrows ==
  ASSUME TypeOK, [Next]_vars, NEW w \in Wallets, NEW i \in DOMAIN ledger[w]
  PROVE  i \in DOMAIN ledger'[w] /\ ledger'[w][i] = ledger[w][i]
  <1>1. CASE \E p \in Requests : Commit(p)
    <2>1. PICK p \in Requests : Commit(p)
      BY <1>1
    <2>2. CASE w = WalletOf(p)
      BY <2>1, <2>2, CommitAppends
    <2>3. CASE w # WalletOf(p)
      BY <2>1, <2>3, CommitAppends
    <2>4. QED
      BY <2>2, <2>3
  <1>2. CASE \A p \in Requests : ~Commit(p)
    BY <1>2, OnlyCommitMoves
  <1>3. QED
    BY <1>1, <1>2

LEMMA RecordsStay ==
  ASSUME TypeOK, [Next]_vars, NEW p \in Requests
  PROVE  /\ Written(p) => Written(p)'
         /\ Stored(KeyOf(call[p])) => Stored(KeyOf(call[p]))'
  <1>1. Written(p) => Written(p)'
    BY LedgerGrows DEF Written
  <1>2. Stored(KeyOf(call[p])) => Stored(KeyOf(call[p]))'
    BY LedgerGrows, CallsAreFixed DEF Stored, KeyOf
  <1>3. QED
    BY <1>1, <1>2

(* A request that has opened its transaction has passed its tests, and an  *)
(* entry belongs to a request that has committed.                          *)
InFlightInv ==
  \A p \in Requests :
    pc[p] \in {"begin", "locked", "committed"} => Permitted(call[p])

EntryOK(calls, stages, w, e) ==
  /\ e \in Entry
  /\ calls[e.by].wallet = w
  /\ stages[e.by] \in {"committed", "ok", "unknown"}
  /\ e.key = RowKey(calls[e.by])
  /\ e.type = calls[e.by].type
  /\ e.amount = calls[e.by].amount
  /\ Permitted(calls[e.by])
  /\ calls[e.by].op = "debit" => calls[e.by].user = OwnerOf[w]

EntriesInv ==
  \A w \in Wallets : \A i \in DOMAIN ledger[w] :
    EntryOK(call, pc, w, ledger[w][i])

LEMMA InFlightStep ==
  ASSUME TypeOK, InFlightInv, [Next]_vars
  PROVE  InFlightInv'
  BY DEF TypeOK, InFlightInv, Next, vars, Step, AnswerDuplicate,
         RejectArguments, CheckIdempotency, LockWallet, LockWalletFails,
         Refuse, Commit, Conflict, Respond, Abort, Crash, Quiescent, Permitted

(* Once written, a request only moves on to "ok" or to "unknown".          *)
LEMMA WrittenStays ==
  ASSUME TypeOK, [Next]_vars, NEW q \in Requests,
         pc[q] \in {"committed", "ok", "unknown"}
  PROVE  pc'[q] \in {"committed", "ok", "unknown"}
  BY DEF TypeOK, Next, vars, Step, AnswerDuplicate, RejectArguments,
         CheckIdempotency, LockWallet, LockWalletFails, Refuse, Commit,
         Conflict, Respond, Abort, Crash, Quiescent

LEMMA EntriesStep ==
  ASSUME TypeOK, InFlightInv, EntriesInv, [Next]_vars
  PROVE  EntriesInv'
  <1>1. ASSUME NEW w \in Wallets, NEW i \in DOMAIN ledger[w]
        PROVE  EntryOK(call', pc', w, ledger'[w][i])
    <2>1. EntryOK(call, pc, w, ledger[w][i])
      BY DEF EntriesInv
    <2>2. ledger[w][i].by \in Requests
      BY <2>1 DEF EntryOK, Entry
    <2>3. pc'[ledger[w][i].by] \in {"committed", "ok", "unknown"}
      BY <2>1, <2>2, WrittenStays DEF EntryOK
    <2>4. ledger'[w][i] = ledger[w][i]
      BY LedgerGrows
    <2>5. QED
      BY <2>1, <2>3, <2>4, CallsAreFixed DEF EntryOK
  <1>2. CASE \A p \in Requests : ~Commit(p)
    BY <1>1, <1>2, OnlyCommitMoves DEF EntriesInv
  <1>3. ASSUME NEW p \in Requests, Commit(p)
        PROVE  EntriesInv'
    <2>1. EntryOK(call', pc', WalletOf(p), NewEntry(p))
      <3>1. NewEntry(p) \in Entry /\ NewEntry(p).by = p
        BY NewEntryType DEF NewEntry
      <3>2. /\ NewEntry(p).key = RowKey(call[p])
            /\ NewEntry(p).type = call[p].type
            /\ NewEntry(p).amount = call[p].amount
        BY DEF NewEntry
      <3>3. /\ Permitted(call[p])
            /\ call[p].op = "debit" => call[p].user = OwnerOf[WalletOf(p)]
        BY <1>3 DEF InFlightInv, Commit, Refused
      <3>4. pc'[p] = "committed" /\ call' = call
        BY <1>3 DEF TypeOK, Commit
      <3>5. QED
        BY <3>1, <3>2, <3>3, <3>4 DEF EntryOK, WalletOf
    <2>2. ASSUME NEW w \in Wallets, NEW i \in DOMAIN ledger'[w]
          PROVE  EntryOK(call', pc', w, ledger'[w][i])
      <3>1. CASE i \in DOMAIN ledger[w]
        BY <3>1, <1>1
      <3>2. CASE i \notin DOMAIN ledger[w]
        <4>1. w = WalletOf(p) /\ ledger'[w][i] = NewEntry(p)
          BY <1>3, <3>2, <2>2, CommitAppends
        <4>2. QED
          BY <4>1, <2>1
      <3>3. QED
        BY <3>1, <3>2
    <2>3. QED
      BY <2>2 DEF EntriesInv
  <1>4. QED
    BY <1>2, <1>3

LEMMA EntriesCorrect == Spec => [](InFlightInv /\ EntriesInv)
  <1>1. Init => InFlightInv /\ EntriesInv
    BY DEF Init, InFlightInv, EntriesInv
  <1>2. QED
    BY <1>1, InFlightStep, EntriesStep, TypeCorrect, PTL DEF Spec

(* Every recorded movement was permitted: a debit by the owner of the      *)
(* wallet, a credit from a trusted source, a positive amount.              *)
THEOREM MovesArePermitted == Spec => []OnlyPermittedMoves
  <1>1. TypeOK /\ EntriesInv => OnlyPermittedMoves
    BY DEF EntriesInv, EntryOK, OnlyPermittedMoves, Permitted
  <1>2. QED
    BY <1>1, TypeCorrect, EntriesCorrect, PTL

-----------------------------------------------------------------------------
(* LedgerChains, for one wallet whose entries and balance are given.       *)
ChainOK(calls, entries, funds) ==
  /\ funds = PreviousAfter(entries, Len(entries) + 1)
  /\ \A i \in DOMAIN entries :
       /\ entries[i].before = PreviousAfter(entries, i)
       /\ entries[i].after = entries[i].before + Delta(calls[entries[i].by])

(* A ledger that chains still chains when a transaction that read the      *)
(* current balance under the lock appends its entry.                       *)
LEMMA ChainStep ==
  ASSUME TypeOK, LockedReadIsCurrent, LedgerChains, [Next]_vars
  PROVE  LedgerChains'
  <1>1. CASE \A p \in Requests : ~Commit(p)
    BY <1>1, OnlyCommitMoves, CallsAreFixed DEF LedgerChains
  <1>2. ASSUME NEW p \in Requests, Commit(p)
        PROVE  LedgerChains'
    <2>1. call' = call
      BY CallsAreFixed
    <2>2. ASSUME NEW v \in Wallets, v # WalletOf(p)
          PROVE  ChainOK(call', ledger'[v], balance'[v])
      BY <1>2, <2>1, <2>2, CommitAppends DEF LedgerChains, ChainOK
    <2>3. ChainOK(call', ledger'[WalletOf(p)], balance'[WalletOf(p)])
      <3> DEFINE old == ledger[WalletOf(p)]
                 new == ledger'[WalletOf(p)]
                 n == Len(old)
                 funds == balance[WalletOf(p)]
      <3>1. /\ n \in Nat
            /\ DOMAIN old = 1 .. n
            /\ DOMAIN new = 1 .. n + 1
            /\ Len(new) = n + 1
            /\ \A i \in 1 .. n : new[i] = old[i]
            /\ new[n + 1] = NewEntry(p)
            /\ balance'[WalletOf(p)] = funds + Delta(call[p])
        BY <1>2, CommitAppends
      <3>2. ChainOK(call, old, funds)
        BY CallFields DEF LedgerChains, ChainOK
      <3>3. seen[p] = funds
        BY <1>2 DEF LockedReadIsCurrent, Commit
      <3>4. /\ NewEntry(p).before = funds
            /\ NewEntry(p).after = funds + Delta(call[p])
            /\ NewEntry(p).by = p
        BY <3>3 DEF NewEntry
      <3> HIDE DEF old, new, n, funds
      <3>5. \A i \in 1 .. n + 1 : PreviousAfter(new, i) = PreviousAfter(old, i)
        BY <3>1 DEF PreviousAfter
      <3>6. PreviousAfter(new, Len(new) + 1) = funds + Delta(call[p])
        BY <3>1, <3>4 DEF PreviousAfter
      <3>7. ASSUME NEW i \in DOMAIN new
            PROVE  /\ new[i].before = PreviousAfter(new, i)
                   /\ new[i].after = new[i].before + Delta(call[new[i].by])
        <4>1. CASE i = n + 1
          BY <3>1, <3>2, <3>4, <3>5, <4>1 DEF ChainOK
        <4>2. CASE i \in 1 .. n
          BY <3>1, <3>2, <3>5, <4>2 DEF ChainOK
        <4>3. QED
          BY <3>1, <4>1, <4>2
      <3>8. ChainOK(call, new, funds + Delta(call[p]))
        BY <3>6, <3>7 DEF ChainOK
      <3>9. QED
        BY <2>1, <3>1, <3>8 DEF new
    <2>4. QED
      BY <2>2, <2>3 DEF LedgerChains, ChainOK
  <1>3. QED
    BY <1>1, <1>2

LEMMA EmptyLedger ==
  ASSUME Init, NEW w \in Wallets
  PROVE  Len(ledger[w]) = 0 /\ DOMAIN ledger[w] = {} /\ balance[w] = 0
  <1>1. ledger[w] = <<>> /\ balance[w] = 0
    BY DEF Init
  <1>2. QED
    BY <1>1

(* No update is lost: the entries of every wallet form an unbroken chain   *)
(* from zero to its balance.                                               *)
THEOREM ChainCorrect == Spec => []LedgerChains
  <1>1. Init => LedgerChains
    <2> SUFFICES ASSUME Init, NEW w \in Wallets
                 PROVE  /\ balance[w] = PreviousAfter(ledger[w], Len(ledger[w]) + 1)
                        /\ DOMAIN ledger[w] = {}
      BY DEF LedgerChains
    <2>1. Len(ledger[w]) = 0 /\ DOMAIN ledger[w] = {} /\ balance[w] = 0
      BY EmptyLedger
    <2>2. QED
      BY <2>1 DEF PreviousAfter
  <1>2. QED
    BY <1>1, ChainStep, TypeCorrect, LockCorrect, PTL DEF Spec

(* The move of a commit cannot take a balance below zero.                  *)
LEMMA CommitIsFunded ==
  ASSUME call \in [Requests -> Calls], balance \in [Wallets -> Int],
         InFlightInv, LockedReadIsCurrent, NeverNegative,
         NEW p \in Requests, Commit(p)
  PROVE  balance[WalletOf(p)] + Delta(call[p]) >= 0
  <1>1. /\ call[p].amount \in Int
        /\ call[p].amount > 0
        /\ balance[WalletOf(p)] \in Int
        /\ balance[WalletOf(p)] >= 0
    BY FieldsOfCall DEF Call, Commit, InFlightInv, Permitted, NeverNegative
  <1>2. CASE call[p].op = "credit"
    BY <1>1, <1>2 DEF Delta
  <1>3. CASE call[p].op = "debit"
    <2>1. ~(balance[WalletOf(p)] < call[p].amount)
      BY <1>3 DEF Commit, Refused, LockedReadIsCurrent
    <2>2. QED
      BY <1>1, <1>3, <2>1 DEF Delta
  <1>4. QED
    BY <1>2, <1>3, FieldsOfCall DEF Call

LEMMA FundsSuffice ==
  ASSUME TypeOK, InFlightInv, LockedReadIsCurrent, NeverNegative,
         NEW p \in Requests, Commit(p)
  PROVE  balance[WalletOf(p)] + Delta(call[p]) >= 0
  BY CommitIsFunded DEF TypeOK

LEMMA NeverNegativeStep ==
  ASSUME TypeOK, InFlightInv, LockedReadIsCurrent, NeverNegative, [Next]_vars
  PROVE  NeverNegative'
  <1>1. CASE \A p \in Requests : ~Commit(p)
    BY <1>1, OnlyCommitMoves DEF NeverNegative
  <1>2. ASSUME NEW p \in Requests, Commit(p)
        PROVE  NeverNegative'
    <2>1. /\ balance'[WalletOf(p)] >= 0
          /\ NewEntry(p).after >= 0
      BY <1>2, FundsSuffice, CommitAppends DEF NewEntry
    <2>2. ASSUME NEW w \in Wallets
          PROVE  balance'[w] >= 0
      BY <1>2, <2>1, CommitAppends DEF NeverNegative
    <2>3. ASSUME NEW w \in Wallets, NEW i \in DOMAIN ledger'[w]
          PROVE  ledger'[w][i].after >= 0
      <3>1. CASE i \in DOMAIN ledger[w]
        BY <3>1, LedgerGrows DEF NeverNegative
      <3>2. CASE i \notin DOMAIN ledger[w]
        BY <1>2, <2>1, <2>3, <3>2, CommitAppends
      <3>3. QED
        BY <3>1, <3>2
    <2>4. QED
      BY <2>2, <2>3 DEF NeverNegative
  <1>3. QED
    BY <1>1, <1>2

(* However debits interleave, no balance is ever below zero.               *)
THEOREM BalanceNeverNegative == Spec => []NeverNegative
  <1>1. Init => NeverNegative
    <2> SUFFICES ASSUME Init, NEW w \in Wallets
                 PROVE  balance[w] >= 0 /\ DOMAIN ledger[w] = {}
      BY DEF NeverNegative
    <2>1. Len(ledger[w]) = 0 /\ DOMAIN ledger[w] = {} /\ balance[w] = 0
      BY EmptyLedger
    <2>2. QED
      BY <2>1
  <1>2. QED
    BY <1>1, NeverNegativeStep, TypeCorrect, LockCorrect, EntriesCorrect, PTL
       DEF Spec

-----------------------------------------------------------------------------
(* The unique index on idempotencyKey, seen from one wallet.               *)
KeyUnique ==
  \A w \in Wallets : \A i, j \in DOMAIN ledger[w] :
    ledger[w][i].key = ledger[w][j].key /\ ledger[w][i].key # NoKey => i = j

LEMMA KeyUniqueStep ==
  ASSUME TypeOK, KeyUnique, [Next]_vars
  PROVE  KeyUnique'
  <1>1. CASE \A p \in Requests : ~Commit(p)
    BY <1>1, OnlyCommitMoves DEF KeyUnique
  <1>2. ASSUME NEW p \in Requests, Commit(p)
        PROVE  KeyUnique'
    <2>1. ASSUME NEW w \in Wallets, NEW i \in DOMAIN ledger[w],
                 ledger[w][i].key # NoKey
          PROVE  ledger[w][i].key # NewEntry(p).key
      BY <1>2, <2>1 DEF Commit, Stored, NewEntry
    <2>2. ASSUME NEW w \in Wallets,
                 NEW i \in DOMAIN ledger'[w], NEW j \in DOMAIN ledger'[w],
                 ledger'[w][i].key = ledger'[w][j].key,
                 ledger'[w][i].key # NoKey
          PROVE  i = j
      <3>1. CASE i \in DOMAIN ledger[w] /\ j \in DOMAIN ledger[w]
        BY <2>2, <3>1, LedgerGrows DEF KeyUnique
      <3>2. CASE i \notin DOMAIN ledger[w] /\ j \in DOMAIN ledger[w]
        <4>1. ledger'[w][i] = NewEntry(p) /\ ledger'[w][j] = ledger[w][j]
          BY <1>2, <2>2, <3>2, CommitAppends
        <4>2. QED
          BY <2>1, <2>2, <3>2, <4>1
      <3>3. CASE i \in DOMAIN ledger[w] /\ j \notin DOMAIN ledger[w]
        <4>1. ledger'[w][j] = NewEntry(p) /\ ledger'[w][i] = ledger[w][i]
          BY <1>2, <2>2, <3>3, CommitAppends
        <4>2. QED
          BY <2>1, <2>2, <3>3, <4>1
      <3>4. CASE i \notin DOMAIN ledger[w] /\ j \notin DOMAIN ledger[w]
        BY <1>2, <2>2, <3>4, CommitAppends
      <3>5. QED
        BY <3>1, <3>2, <3>3, <3>4
    <2>3. QED
      BY <2>2 DEF KeyUnique
  <1>3. QED
    BY <1>1, <1>2

LEMMA KeyUniqueCorrect == Spec => []KeyUnique
  <1>1. Init => KeyUnique
    BY DEF Init, KeyUnique
  <1>2. QED
    BY <1>1, KeyUniqueStep, TypeCorrect, PTL DEF Spec

(* A credit with a reference is applied at most once, whatever the number  *)
(* of deliveries and whatever their timing.                                *)
THEOREM CreditAppliedOnce == Spec => []CreditedOncePerKey
  <1>1. TypeOK /\ EntriesInv /\ KeyUnique => CreditedOncePerKey
    <2> SUFFICES ASSUME TypeOK, EntriesInv, KeyUnique,
                        NEW w \in Wallets,
                        NEW i \in DOMAIN ledger[w], NEW j \in DOMAIN ledger[w],
                        call[ledger[w][i].by].op = "credit",
                        call[ledger[w][j].by].op = "credit",
                        call[ledger[w][i].by].ref # NoRef,
                        KeyOf(call[ledger[w][i].by]) = KeyOf(call[ledger[w][j].by])
                 PROVE  i = j
      BY DEF CreditedOncePerKey
    <2>1. /\ ledger[w][i].by \in Requests
          /\ ledger[w][i].key = KeyOf(call[ledger[w][i].by])
          /\ ledger[w][j].key = KeyOf(call[ledger[w][j].by])
      BY DEF EntriesInv, EntryOK, Entry, RowKey
    <2>2. call[ledger[w][i].by] \in Call
      BY <2>1, CallFields
    <2>3. KeyOf(call[ledger[w][i].by]) \in KeySet
      BY <2>2 DEF KeyOf, KeySet, Call
    <2>4. ledger[w][i].key # NoKey
      BY <2>1, <2>3, NullAssumption
    <2>5. QED
      BY <2>1, <2>4 DEF KeyUnique
  <1>2. QED
    BY <1>1, TypeCorrect, EntriesCorrect, KeyUniqueCorrect, PTL

-----------------------------------------------------------------------------
(* A request answers "ok" only over a record that will never go away.      *)
RecordedInv ==
  \A p \in Requests :
    /\ pc[p] = "committed" => Written(p)
    /\ pc[p] = "ok" => Written(p) \/ Stored(KeyOf(call[p]))

LEMMA RecordedStep ==
  ASSUME TypeOK, RecordedInv, [Next]_vars
  PROVE  RecordedInv'
  <1> SUFFICES ASSUME NEW p \in Requests
               PROVE  /\ pc'[p] = "committed" => Written(p)'
                      /\ pc'[p] = "ok" => Written(p)' \/ Stored(KeyOf(call[p]))'
    BY DEF RecordedInv
  <1>1. CASE pc'[p] = pc[p]
    BY <1>1, RecordsStay DEF RecordedInv
  <1>2. CASE pc'[p] # pc[p] /\ pc'[p] = "committed"
    <2>1. Commit(p)
      BY <1>2 DEF TypeOK, Next, vars, Step, AnswerDuplicate, RejectArguments,
                  CheckIdempotency, LockWallet, LockWalletFails, Refuse, Commit,
                  Conflict, Respond, Abort, Crash, Quiescent
    <2>2. Written(p)'
      <3>1. /\ WalletOf(p) \in Wallets
            /\ Len(ledger[WalletOf(p)]) + 1 \in DOMAIN ledger'[WalletOf(p)]
            /\ ledger'[WalletOf(p)][Len(ledger[WalletOf(p)]) + 1].by = p
        <4>1. NewEntry(p).by = p
          BY DEF NewEntry
        <4>2. QED
          BY <2>1, <4>1, CommitAppends
      <3>2. QED
        BY <3>1 DEF Written
    <2>3. QED
      BY <1>2, <2>2
  <1>3. CASE pc'[p] # pc[p] /\ pc'[p] = "ok"
    <2>1. AnswerDuplicate(p) \/ Respond(p)
      BY <1>3 DEF TypeOK, Next, vars, Step, AnswerDuplicate, RejectArguments,
                  CheckIdempotency, LockWallet, LockWalletFails, Refuse, Commit,
                  Conflict, Respond, Abort, Crash, Quiescent
    <2>2. CASE AnswerDuplicate(p)
      BY <1>3, <2>2, RecordsStay DEF AnswerDuplicate
    <2>3. CASE Respond(p)
      BY <1>3, <2>3, RecordsStay DEF Respond, RecordedInv
    <2>4. QED
      BY <2>1, <2>2, <2>3
  <1>4. QED
    BY <1>1, <1>2, <1>3

LEMMA RecordedCorrect == Spec => []RecordedInv
  <1>1. Init => RecordedInv
    BY DEF Init, RecordedInv
  <1>2. QED
    BY <1>1, RecordedStep, TypeCorrect, PTL DEF Spec

(* A caller can trust the answer: after "ok" the movement is recorded, by  *)
(* this call or by one with the same key; after a failure it is not.       *)
THEOREM AnswersAreTrue == Spec => []AnswersMatchLedger
  <1>1. TypeOK /\ EntriesInv /\ RecordedInv => AnswersMatchLedger
    BY DEF EntriesInv, EntryOK, RecordedInv, AnswersMatchLedger, Written
  <1>2. QED
    BY <1>1, TypeCorrect, EntriesCorrect, RecordedCorrect, PTL

(* No balance moves outside the ledger and no entry is rewritten: a change *)
(* is one appended entry, written by the holder of the row lock.           *)
THEOREM ChangesAreRecorded == Spec => EveryChangeRecorded
  <1>1. TypeOK /\ LockedReadIsCurrent /\ [Next]_vars =>
          [\A w \in Wallets : balance'[w] # balance[w] \/ ledger'[w] # ledger[w]
             => RecordsItsMove(w)]_vars
    <2> SUFFICES ASSUME TypeOK, LockedReadIsCurrent, [Next]_vars,
                        NEW w \in Wallets,
                        balance'[w] # balance[w] \/ ledger'[w] # ledger[w]
                 PROVE  RecordsItsMove(w)
      OBVIOUS
    <2>1. PICK p \in Requests : Commit(p)
      BY OnlyCommitMoves
    <2>2. w = WalletOf(p)
      BY <2>1, CommitAppends
    <2>3. /\ seen[p] = balance[w]
          /\ rowLock[w] = p
      BY <2>1, <2>2 DEF LockedReadIsCurrent, Commit
    <2>4. /\ ledger'[w][Len(ledger'[w])] = NewEntry(p)
          /\ ledger'[w] = Append(ledger[w], NewEntry(p))
          /\ balance'[w] = balance[w] + Delta(call[p])
      BY <2>1, <2>2, CommitAppends
    <2>5. QED
      BY <2>2, <2>3, <2>4 DEF RecordsItsMove, NewEntry
  <1>2. QED
    BY <1>1, TypeCorrect, LockCorrect, PTL DEF Spec, EveryChangeRecorded

-----------------------------------------------------------------------------
(* A total is a number, and what it becomes when an entry is appended.     *)
LEMMA TotalType ==
  ASSUME NEW E, \A e \in E : e.amount \in Int, NEW s \in Seq(E), NEW types
  PROVE  SumOfTypes(s, types) \in Int
  <1> DEFINE S == [i \in DOMAIN s |-> Counted(s[i], types)]
  <1>1. Len(s) \in Nat /\ DOMAIN s = 1 .. Len(s) /\ \A i \in DOMAIN s : s[i] \in E
    OBVIOUS
  <1>2. S \in Seq(Int)
    BY <1>1 DEF Counted
  <1> HIDE DEF S
  <1>3. QED
    BY <1>2, SumType DEF SumOfTypes, S

LEMMA TotalAppends ==
  ASSUME NEW E, \A e \in E : e.amount \in Int,
         NEW s \in Seq(E), NEW e \in E, NEW types
  PROVE  /\ SumOfTypes(s, types) \in Int
         /\ SumOfTypes(Append(s, e), types) = SumOfTypes(s, types) + Counted(e, types)
  <1> DEFINE t == Append(s, e)
             S == [i \in DOMAIN s |-> Counted(s[i], types)]
             T == [i \in DOMAIN t |-> Counted(t[i], types)]
             x == Counted(e, types)
  <1>1. \A f \in E : Counted(f, types) \in Int
    BY DEF Counted
  <1>2. /\ Len(s) \in Nat /\ DOMAIN s = 1 .. Len(s) /\ \A i \in DOMAIN s : s[i] \in E
        /\ DOMAIN t = 1 .. Len(s) + 1 /\ t[Len(s) + 1] = e
        /\ \A i \in 1 .. Len(s) : t[i] = s[i]
    OBVIOUS
  <1>3. S \in Seq(Int) /\ Len(S) = Len(s) /\ x \in Int
    BY <1>1, <1>2
  <1>4. T = Append(S, x)
    <2>1. T \in Seq(Int) /\ Len(T) = Len(s) + 1
      BY <1>1, <1>2
    <2>2. Append(S, x) \in Seq(Int) /\ Len(Append(S, x)) = Len(s) + 1
      BY <1>3
    <2>3. ASSUME NEW i \in 1 .. Len(s) + 1 PROVE T[i] = Append(S, x)[i]
      <3>1. CASE i = Len(s) + 1
        BY <1>2, <1>3, <3>1
      <3>2. CASE i \in 1 .. Len(s)
        <4>1. T[i] = Counted(s[i], types) /\ S[i] = Counted(s[i], types)
          BY <1>2, <3>2
        <4>2. Append(S, x)[i] = S[i]
          BY <1>3, <3>2
        <4> QED
          BY <4>1, <4>2
      <3> QED
        BY <1>2, <3>1, <3>2
    <2> DEFINE U == Append(S, x)
    <2> HIDE DEF T, U
    <2>4. T = U
      BY <2>1, <2>2, <2>3, SeqEqual DEF U
    <2> QED
      BY <2>4 DEF U
  <1> HIDE DEF S, T, x
  <1>5. SumOf(S) \in Int /\ SumOf(Append(S, x)) = SumOf(S) + x
    BY <1>3, SumType, SumAppends
  <1>6. SumOfTypes(s, types) = SumOf(S) /\ SumOfTypes(Append(s, e), types) = SumOf(T)
    BY DEF SumOfTypes, S, T
  <1> QED
    BY <1>4, <1>5, <1>6 DEF x

LEMMA TotalOfNone == LedgerBalance(<<>>) = 0
  <1>1. \A types : SumOfTypes(<<>>, types) = 0
    <2> TAKE types
    <2>1. [i \in DOMAIN <<>> |-> Counted(<<>>[i], types)] = <<>>
      OBVIOUS
    <2>2. QED
      BY <2>1, SumOfNone DEF SumOfTypes
  <1>2. QED
    BY <1>1 DEF LedgerBalance, getTotalCredits, getTotalDebits

(* An entry moves the ledger balance in the direction of its type.         *)
LEMMA LedgerBalanceAppends ==
  ASSUME NEW E, \A e \in E : e.amount \in Int /\ e.type \in LedgerEntryType,
         NEW s \in Seq(E), NEW e \in E
  PROVE  /\ LedgerBalance(s) \in Int
         /\ LedgerBalance(Append(s, e)) =
              IF e.type \in CreditTypes THEN LedgerBalance(s) + e.amount
                                        ELSE LedgerBalance(s) - e.amount
  <1>1. \A f \in E : f.amount \in Int
    OBVIOUS
  <1>2. /\ SumOfTypes(s, CreditTypes) \in Int
        /\ SumOfTypes(Append(s, e), CreditTypes)
             = SumOfTypes(s, CreditTypes) + Counted(e, CreditTypes)
    BY <1>1, TotalAppends
  <1>3. /\ SumOfTypes(s, DebitTypes) \in Int
        /\ SumOfTypes(Append(s, e), DebitTypes)
             = SumOfTypes(s, DebitTypes) + Counted(e, DebitTypes)
    BY <1>1, TotalAppends
  <1>4. /\ e.type \in CreditTypes => Counted(e, CreditTypes) = e.amount
                                     /\ Counted(e, DebitTypes) = 0
        /\ e.type \notin CreditTypes => Counted(e, CreditTypes) = 0
                                        /\ Counted(e, DebitTypes) = e.amount
    BY DEF Counted, CreditTypes, DebitTypes, LedgerEntryType
  <1>5. QED
    BY <1>1, <1>2, <1>3, <1>4 DEF LedgerBalance, getTotalCredits, getTotalDebits

LEMMA TotalStep ==
  ASSUME TypeOK, InFlightInv, EntriesInv, BalanceIsLedgerTotal, [Next]_vars
  PROVE  BalanceIsLedgerTotal'
  <1>1. CASE \A p \in Requests : ~Commit(p)
    BY <1>1, OnlyCommitMoves, CallsAreFixed DEF BalanceIsLedgerTotal
  <1>2. ASSUME NEW p \in Requests, Commit(p),
               NEW w \in Wallets,
               \A i \in DOMAIN ledger'[w] : TypeFits(call'[ledger'[w][i].by])
        PROVE  balance'[w] = LedgerBalance(ledger'[w])
    <2>1. balance[w] = LedgerBalance(ledger[w])
      <3>1. \A i \in DOMAIN ledger[w] : TypeFits(call[ledger[w][i].by])
        BY <1>2, LedgerGrows, CallsAreFixed
      <3>2. QED
        BY <3>1 DEF BalanceIsLedgerTotal
    <2>2. CASE w # WalletOf(p)
      BY <1>2, <2>1, <2>2, CommitAppends
    <2>3. CASE w = WalletOf(p)
      <3>1. /\ ledger'[w] = Append(ledger[w], NewEntry(p))
            /\ balance'[w] = balance[w] + Delta(call[p])
        BY <1>2, <2>3, CommitAppends
      <3>2. TypeFits(call[p])
        <4>0. NewEntry(p).by = p
          BY DEF NewEntry
        <4>1. /\ Len(ledger[w]) + 1 \in DOMAIN ledger'[w]
              /\ ledger'[w][Len(ledger[w]) + 1].by = p
          BY <1>2, <2>3, <4>0, CommitAppends
        <4>2. TypeFits(call'[p])
          BY <1>2, <4>1
        <4>3. QED
          BY <4>2, CallsAreFixed
      <3>3. /\ ledger[w] \in Seq(Entry) /\ NewEntry(p) \in Entry
            /\ \A e \in Entry : e.amount \in Int /\ e.type \in LedgerEntryType
        BY NewEntryType DEF TypeOK, Entry
      <3>4. /\ LedgerBalance(ledger[w]) \in Int
            /\ LedgerBalance(Append(ledger[w], NewEntry(p))) =
                 IF NewEntry(p).type \in CreditTypes
                 THEN LedgerBalance(ledger[w]) + NewEntry(p).amount
                 ELSE LedgerBalance(ledger[w]) - NewEntry(p).amount
        BY <3>3, LedgerBalanceAppends
      <3>5. /\ NewEntry(p).type = call[p].type
            /\ NewEntry(p).amount = call[p].amount
            /\ call[p].op \in {"credit", "debit"}
            /\ call[p].amount \in Int
        BY CallFields DEF NewEntry, Call
      <3>6. call[p].op = "credit" <=> call[p].type \in CreditTypes
        BY <3>2, <3>5 DEF TypeFits, CreditTypes, DebitTypes
      <3>7. QED
        BY <2>1, <3>1, <3>4, <3>5, <3>6 DEF Delta
    <2>4. QED
      BY <2>2, <2>3
  <1>3. CASE \E p \in Requests : Commit(p)
    BY <1>2, <1>3 DEF BalanceIsLedgerTotal
  <1>4. QED
    BY <1>1, <1>3

(* The balance is the sum of the ledger, on every wallet whose entries are *)
(* of types that fit their directions, however long the ledger has grown.  *)
THEOREM BalanceIsTotal == Spec => []BalanceIsLedgerTotal
  <1>1. Init => BalanceIsLedgerTotal
    BY TotalOfNone DEF Init, BalanceIsLedgerTotal
  <1>2. QED
    BY <1>1, TotalStep, TypeCorrect, EntriesCorrect, PTL DEF Spec

-----------------------------------------------------------------------------
(* The refinement.                                                         *)
AnsweredMap == [p \in Requests |-> AnswerOf(pc[p])]

RInv == /\ TypeOK /\ LockedReadIsCurrent /\ InFlightInv /\ EntriesInv
        /\ NeverNegative /\ RecordedInv

LEMMA RInvCorrect == Spec => []RInv
  BY TypeCorrect, LockCorrect, EntriesCorrect, BalanceNeverNegative,
     RecordedCorrect, PTL DEF RInv

(* An author of an entry has committed.                                    *)
LEMMA WrittenStage ==
  ASSUME RInv, NEW p \in Requests, Written(p)
  PROVE  pc[p] \in {"committed", "ok", "unknown"}
  BY DEF RInv, EntriesInv, EntryOK, Written

(* The entry that a stored key belongs to was written by a delivery of the *)
(* same credit.                                                            *)
LEMMA StoredIsSameCredit ==
  ASSUME RInv, NEW p \in Requests, Stored(KeyOf(call[p]))
  PROVE  \E q \in WrittenBy : Account!SameCredit(call[p], call[q])
  <1>0. PICK w \in Wallets :
          \E i \in DOMAIN ledger[w] : ledger[w][i].key = KeyOf(call[p])
    BY DEF Stored
  <1>1. PICK i \in DOMAIN ledger[w] : ledger[w][i].key = KeyOf(call[p])
    BY <1>0
  <1> DEFINE q == ledger[w][i].by
  <1>2. /\ q \in Requests
        /\ RowKey(call[q]) = KeyOf(call[p])
    BY <1>1 DEF RInv, EntriesInv, EntryOK, Entry
  <1>3. q \in WrittenBy
    BY <1>2 DEF WrittenBy, Written
  <1>4. KeyOf(call[p]) # NoKey
    BY DEF Stored
  <1>5. call[q].op = "credit" /\ KeyOf(call[q]) = KeyOf(call[p])
    BY <1>2, <1>4 DEF RowKey
  <1>6. /\ call[p].ref # NoRef
        /\ call[q].ref # NoRef
    BY <1>4, <1>5 DEF KeyOf
  <1>7. /\ call[p].op = call[q].op
        /\ call[p].ref = call[q].ref
        /\ call[p].source = call[q].source
        /\ call[p].wallet = call[q].wallet
    BY <1>5, <1>6 DEF KeyOf
  <1>8. QED
    BY <1>3, <1>5, <1>6, <1>7 DEF Account!SameCredit

(* Two deliveries of one credit have the same key.                         *)
LEMMA SameCreditStored ==
  ASSUME RInv, NEW p \in Requests, NEW q \in WrittenBy,
         Account!SameCredit(call[p], call[q])
  PROVE  Stored(RowKey(call[p]))
  <1>0. PICK w \in Wallets : \E i \in DOMAIN ledger[w] : ledger[w][i].by = q
    BY DEF WrittenBy, Written
  <1>1. PICK i \in DOMAIN ledger[w] : ledger[w][i].by = q
    BY <1>0
  <1>2. ledger[w][i].key = RowKey(call[q])
    BY <1>1 DEF RInv, EntriesInv, EntryOK
  <1>3. RowKey(call[q]) = KeyOf(call[p]) /\ RowKey(call[p]) = KeyOf(call[p])
    BY DEF Account!SameCredit, RowKey, KeyOf
  <1>4. KeyOf(call[p]) \in KeySet
    BY CallFields DEF RInv, Account!SameCredit, KeyOf, KeySet, Call
  <1>5. QED
    BY <1>1, <1>2, <1>3, <1>4, NullAssumption DEF Stored

LEMMA SameWriters ==
  ASSUME UNCHANGED ledger
  PROVE  WrittenBy' = WrittenBy
  BY DEF WrittenBy, Written

LEMMA RefinementStep ==
  ASSUME RInv, [Next]_vars
  PROVE  [Account!ANext]_(Account!avars)
  <1> USE DEF RInv
  <1> DEFINE Moves(p) == AnsweredMap' = [AnsweredMap EXCEPT ![p] = AnswerOf(pc'[p])]
  <1>1. ASSUME NEW p \in Requests,
               pc' = [pc EXCEPT ![p] = pc'[p]]
        PROVE  /\ Moves(p)
               /\ AnsweredMap[p] = AnswerOf(pc[p])
               /\ AnswerOf(pc'[p]) = AnswerOf(pc[p]) => AnsweredMap' = AnsweredMap
    BY <1>1 DEF AnsweredMap, TypeOK
  <1>2. ASSUME NEW p \in Requests,
               RejectArguments(p) \/ LockWalletFails(p) \/ Refuse(p)
                 \/ Conflict(p) \/ Abort(p)
        PROVE  Account!Fail(p)
    <2>1. /\ pc[p] \in {"new", "begin", "locked"}
          /\ pc'[p] \in Failures
          /\ pc' = [pc EXCEPT ![p] = pc'[p]]
          /\ UNCHANGED <<call, balance, ledger>>
      BY <1>2 DEF TypeOK, RejectArguments, LockWalletFails, Refuse, Conflict, Abort
    <2>2. p \notin WrittenBy
      BY <2>1, WrittenStage DEF WrittenBy
    <2>3. AnswerOf(pc[p]) = "none" /\ AnswerOf(pc'[p]) = "failed"
      BY <2>1 DEF AnswerOf
    <2>4. QED
      BY <1>1, <2>1, <2>2, <2>3, SameWriters DEF Account!Fail, AnsweredMap
  <1>3. ASSUME NEW p \in Requests, AnswerDuplicate(p) \/ Respond(p)
        PROVE  Account!Confirm(p)
    <2>1. /\ pc[p] \in {"new", "committed"}
          /\ pc'[p] = "ok"
          /\ pc' = [pc EXCEPT ![p] = pc'[p]]
          /\ UNCHANGED <<call, balance, ledger>>
      BY <1>3 DEF TypeOK, AnswerDuplicate, Respond
    <2>2. p \in WrittenBy
            \/ \E q \in WrittenBy : Account!SameCredit(call[p], call[q])
      <3>1. CASE AnswerDuplicate(p)
        BY <3>1, StoredIsSameCredit DEF AnswerDuplicate
      <3>2. CASE Respond(p)
        BY <3>2 DEF Respond, RecordedInv, WrittenBy
      <3>3. QED
        BY <1>3, <3>1, <3>2
    <2>3. AnswerOf(pc[p]) = "none" /\ AnswerOf(pc'[p]) = "ok"
      BY <2>1 DEF AnswerOf
    <2>4. QED
      BY <1>1, <2>1, <2>2, <2>3, SameWriters DEF Account!Confirm, AnsweredMap
  <1>4. ASSUME NEW p \in Requests, Crash(p)
        PROVE  Account!Vanish(p)
    <2>1. /\ pc[p] \in Stages
          /\ pc'[p] = "unknown"
          /\ pc' = [pc EXCEPT ![p] = pc'[p]]
          /\ UNCHANGED <<call, balance, ledger>>
      BY <1>4 DEF TypeOK, Crash
    <2>2. AnswerOf(pc[p]) = "none" /\ AnswerOf(pc'[p]) = "unknown"
      BY <2>1 DEF AnswerOf
    <2>3. QED
      BY <1>1, <2>1, <2>2, SameWriters DEF Account!Vanish, AnsweredMap
  <1>5. ASSUME NEW p \in Requests, CheckIdempotency(p) \/ LockWallet(p)
        PROVE  UNCHANGED Account!avars
    <2>1. /\ pc[p] \in Stages /\ pc'[p] \in Stages
          /\ pc' = [pc EXCEPT ![p] = pc'[p]]
          /\ UNCHANGED <<call, balance, ledger>>
      BY <1>5 DEF TypeOK, CheckIdempotency, LockWallet
    <2>2. QED
      BY <1>1, <2>1, SameWriters DEF Account!avars, AnsweredMap, AnswerOf
  <1>6. ASSUME NEW p \in Requests, Commit(p)
        PROVE  Account!Apply(p)
    <2>1. /\ pc[p] = "locked" /\ pc'[p] = "committed"
          /\ pc' = [pc EXCEPT ![p] = pc'[p]]
          /\ UNCHANGED call
      BY <1>6 DEF TypeOK, Commit
    <2>2. AnsweredMap[p] = "none" /\ AnsweredMap' = AnsweredMap
      BY <1>1, <2>1 DEF AnswerOf
    <2>3. p \notin WrittenBy
      BY <2>1, WrittenStage DEF WrittenBy
    <2>4. \A q \in WrittenBy : ~Account!SameCredit(call[p], call[q])
      BY <1>6, SameCreditStored DEF Commit
    <2>5. /\ call[p].op = "debit" => call[p].user = OwnerOf[call[p].wallet]
          /\ call[p].op = "credit" => call[p].trusted
      BY <1>6 DEF Commit, Refused, InFlightInv, Permitted, WalletOf
    <2>6. /\ balance[call[p].wallet] + Account!Change(call[p]) >= 0
          /\ balance' = [balance EXCEPT
                           ![call[p].wallet] = @ + Account!Change(call[p])]
      BY <1>6, FundsSuffice DEF Commit, Account!Change, Delta, WalletOf
    <2>7. WrittenBy' = WrittenBy \cup {p}
      <3>1. Written(p)'
        <4>1. NewEntry(p).by = p
          BY DEF NewEntry
        <4>2. QED
          BY <1>6, <4>1, CommitAppends DEF Written
      <3>2. ASSUME NEW q \in Requests, q # p
            PROVE  Written(q)' <=> Written(q)
        <4>1. Written(q) => Written(q)'
          BY RecordsStay
        <4>2. ASSUME Written(q)' PROVE Written(q)
          <5>0. PICK w \in Wallets :
                  \E i \in DOMAIN ledger'[w] : ledger'[w][i].by = q
            BY <4>2 DEF Written
          <5>1. PICK i \in DOMAIN ledger'[w] : ledger'[w][i].by = q
            BY <5>0
          <5>2. NewEntry(p).by = p
            BY DEF NewEntry
          <5>3. i \in DOMAIN ledger[w] /\ ledger'[w][i] = ledger[w][i]
            BY <1>6, <3>2, <5>1, <5>2, CommitAppends
          <5>4. QED
            BY <5>1, <5>3 DEF Written
        <4>3. QED
          BY <4>1, <4>2
      <3>3. QED
        BY <3>1, <3>2 DEF WrittenBy
    <2>8. QED
      BY <2>1, <2>2, <2>3, <2>4, <2>5, <2>6, <2>7
         DEF Account!Apply, AnsweredMap
  <1>7. CASE Quiescent \/ UNCHANGED vars
    BY <1>7, SameWriters DEF Quiescent, vars, Account!avars
  <1>8. QED
    BY <1>2, <1>3, <1>4, <1>5, <1>6, <1>7 DEF Next, Step, Account!ANext

(* The service is an atomic account: whatever the interleaving of lookups, *)
(* locks, rollbacks and crashes, a request takes effect at most once and   *)
(* its answer is true.                                                     *)
THEOREM ServiceImplementsAccount == Spec => ImplementsAccount
  <1>1. Init => Account!AInit
    <2> SUFFICES ASSUME Init PROVE Account!AInit
      OBVIOUS
    <2>1. WrittenBy = {}
      BY EmptyLedger DEF WrittenBy, Written
    <2>2. AnsweredMap = [p \in Requests |-> "none"]
      BY DEF Init, AnsweredMap, AnswerOf
    <2>3. QED
      BY <2>1, <2>2 DEF Init, Account!AInit, AnsweredMap
  <1>2. QED
    BY <1>1, RefinementStep, RInvCorrect, PTL
       DEF Spec, ImplementsAccount, Account!ASpec
=============================================================================
