-------------------------- MODULE LedgerAuditProofs --------------------------
(***************************************************************************)
(* Proofs about BalanceWriters and LedgerAudit for any wallets, requests,  *)
(* jobs and readers: what the writers that take no lock still guarantee,   *)
(* and when the audit and the check of a GET can be believed.              *)
(***************************************************************************)
EXTENDS LedgerAudit, WalletServiceProofs

USE DEF Stages, Answers, Failures

(***************************************************************************)
(* Types.                                                                  *)
(***************************************************************************)
Actors == Requests \cup Jobs

WEntry == [by : Actors, type : LedgerEntryType, amount : Int,
           before : Int, after : Int, key : KeySet \cup {NoKey}]

TxRow == [by : Jobs, wallet : Wallets, amount : Int, key : TxKeys \cup {NoTxKey}]

RowsTypeOK ==
  /\ call \in [Requests -> Calls]
  /\ balance \in [Wallets -> Int]
  /\ ledger \in [Wallets -> Seq(WEntry)]
  /\ seen \in [Requests -> Int]
  /\ jseen \in [Jobs -> Int]

StagesTypeOK ==
  /\ pc \in [Requests -> Stages \cup Answers]
  /\ jpc \in [Jobs -> JobOpen \cup Answers]
  /\ rowLock \in [Wallets -> Actors \cup {NoOne}]

JobsTypeOK ==
  /\ task \in [Jobs -> Tasks]
  /\ transactions \subseteq TxRow
  /\ alertStatus \in [Alerts -> {"pending", "manual_reviewed"}]
  /\ stale \subseteq Jobs

WTypeOK == RowsTypeOK /\ StagesTypeOK /\ JobsTypeOK

LEMMA JobFields ==
  ASSUME task \in [Jobs -> Tasks], NEW j \in Jobs
  PROVE  /\ RowOf(j) \in Wallets
         /\ Kind(j) \in {"manual", "transact", "replay", "fix"}
         /\ Kind(j) # "fix" => task[j].amount \in Int
         /\ Kind(j) = "replay" => task[j].alert \in Alerts /\ task[j].amount >= 0
         /\ Kind(j) = "transact" => task[j].key \in TxKeys \cup {NoTxKey}
  <1>1. task[j] \in Task /\ task[j] \in Tasks
    BY TasksAssumption
  <1>2. Kind(j) = "replay" => task[j].amount >= 0
    BY <1>1, OnRampAssumption DEF Kind
  <1>3. CASE task[j] \in [kind : {"manual"}, wallet : Wallets, amount : Int]
    BY <1>2, <1>3 DEF Kind, RowOf
  <1>4. CASE task[j] \in [kind : {"transact"}, wallet : Wallets, amount : Int,
                          user : Users, key : TxKeys \cup {NoTxKey}]
    BY <1>2, <1>4 DEF Kind, RowOf
  <1>5. CASE task[j] \in [kind : {"replay"}, wallet : Wallets, amount : Int,
                          alert : Alerts]
    BY <1>2, <1>5 DEF Kind, RowOf
  <1>6. CASE task[j] \in [kind : {"fix"}, wallet : Wallets]
    BY <1>2, <1>6 DEF Kind, RowOf
  <1>7. QED
    BY <1>1, <1>3, <1>4, <1>5, <1>6 DEF Task

(* The entry of a commit and the entry of a job.                           *)
LEMMA RequestEntry ==
  ASSUME RowsTypeOK, NEW p \in Requests
  PROVE  /\ NewEntry(p) \in WEntry
         /\ NewEntry(p).by = p
         /\ NewEntry(p).type = call[p].type
         /\ NewEntry(p).amount = call[p].amount
         /\ NewEntry(p).after = balance[WalletOf(p)] + Delta(call[p])
  <1>1. balance[WalletOf(p)] \in Int /\ seen[p] \in Int
    BY FieldsOfCall DEF RowsTypeOK
  <1>2. call[p].type \in LedgerEntryType /\ call[p].amount \in Int
    BY FieldsOfCall DEF RowsTypeOK, Call
  <1>3. RowKey(call[p]) \in KeySet \cup {NoKey} /\ Delta(call[p]) \in Int
    BY FieldsOfCall DEF RowsTypeOK
  <1>4. QED
    BY <1>1, <1>2, <1>3 DEF NewEntry, WEntry, Actors

LEMMA EntryOfJob ==
  ASSUME task \in [Jobs -> Tasks], NEW j \in Jobs, Kind(j) # "fix",
         NEW before \in Int, NEW after \in Int
  PROVE  /\ JobEntry(j, before, after) \in WEntry
         /\ JobEntry(j, before, after).by = j
         /\ JobEntry(j, before, after).type = "deposit"
         /\ JobEntry(j, before, after).amount = task[j].amount
         /\ JobEntry(j, before, after).after = after
  BY JobFields DEF JobEntry, WEntry, Actors, LedgerEntryType

(* A request's step, for the jobs, and a job's step, for the requests.     *)
RequestStep(p) == (Step(p) \/ Abort(p) \/ Crash(p)) /\ UNCHANGED jvars

AnyJobStep(j) == JobStep(j) \/ JobAbort(j) \/ JobCrash(j)

LEMMA StepCases ==
  ASSUME BalanceStep
  PROVE  \/ \E p \in Requests : RequestStep(p)
         \/ \E j \in Jobs : AnyJobStep(j)
  BY DEF BalanceStep, RequestStep, AnyJobStep

(* What each commit does to the rows of its wallet, and that nothing else  *)
(* touches them.                                                           *)
Moves(w, funds, entries) ==
  /\ balance' = [balance EXCEPT ![w] = funds]
  /\ ledger' = [ledger EXCEPT ![w] = entries]

LEMMA RequestMoves ==
  ASSUME RowsTypeOK, NEW p \in Requests, RequestStep(p)
  PROVE  \/ Commit(p) /\ Moves(WalletOf(p), balance[WalletOf(p)] + Delta(call[p]),
                               Append(ledger[WalletOf(p)], NewEntry(p)))
         \/ UNCHANGED <<balance, ledger>>
  <1>1. CASE Commit(p)
    <2>1. WalletOf(p) \in Wallets
      BY FieldsOfCall DEF RowsTypeOK
    <2>2. QED
      BY <1>1, <2>1 DEF Commit, Moves, RowsTypeOK
  <1>2. CASE ~Commit(p)
    BY <1>2 DEF RequestStep, Step, AnswerDuplicate, RejectArguments,
         CheckIdempotency, LockWallet, LockWalletFails, Refuse, Conflict,
         Respond, Abort, Crash
  <1>3. QED
    BY <1>1, <1>2

LEMMA JobMoves ==
  ASSUME RowsTypeOK, JobsTypeOK, NEW j \in Jobs, AnyJobStep(j)
  PROVE  \/ ManualCommit(j) /\
              Moves(RowOf(j), balance[RowOf(j)] + task[j].amount,
                    Append(ledger[RowOf(j)],
                           JobEntry(j, jseen[j], balance[RowOf(j)] + task[j].amount)))
         \/ TransactCommit(j) /\
              Moves(RowOf(j), jseen[j] - task[j].amount, ledger[RowOf(j)])
         \/ ReplayWrite(j) /\
              Moves(RowOf(j), jseen[j] + task[j].amount, ledger[RowOf(j)])
         \/ ReplayEntry(j) /\
              Moves(RowOf(j), balance[RowOf(j)],
                    Append(ledger[RowOf(j)],
                           JobEntry(j, jseen[j], jseen[j] + task[j].amount)))
         \/ FixWrite(j) /\ Moves(RowOf(j), jseen[j], ledger[RowOf(j)])
         \/ UNCHANGED <<balance, ledger>>
  <1>1. RowOf(j) \in Wallets
    BY JobFields DEF JobsTypeOK
  <1>2. /\ balance = [balance EXCEPT ![RowOf(j)] = balance[RowOf(j)]]
        /\ ledger = [ledger EXCEPT ![RowOf(j)] = ledger[RowOf(j)]]
    BY <1>1 DEF RowsTypeOK
  <1>3. CASE ManualCommit(j)
    BY <1>1, <1>3 DEF ManualCommit, Moves, RowsTypeOK
  <1>4. CASE TransactCommit(j)
    BY <1>2, <1>4 DEF TransactCommit, Moves
  <1>5. CASE ReplayWrite(j)
    BY <1>2, <1>5 DEF ReplayWrite, Moves
  <1>6. CASE ReplayEntry(j)
    BY <1>1, <1>2, <1>6 DEF ReplayEntry, Moves, RowsTypeOK
  <1>7. CASE FixWrite(j)
    BY <1>2, <1>7 DEF FixWrite, Moves
  <1>8. CASE ~(\/ ManualCommit(j) \/ TransactCommit(j) \/ ReplayWrite(j)
               \/ ReplayEntry(j) \/ FixWrite(j))
    BY <1>8 DEF AnyJobStep, JobStep, TakeRow, RejectTask, ManualRead,
         TransactCheckKey, TransactRead, TransactConflict, ReplayStart,
         ReplayRead, ReplayResolve, FixRead, FixCompare, FixCancel,
         JobRespond, JobAbort, JobCrash, vars
  <1>9. QED
    BY <1>3, <1>4, <1>5, <1>6, <1>7, <1>8

LEMMA MovesType ==
  ASSUME RowsTypeOK, NEW w \in Wallets, NEW funds \in Int,
         NEW entries \in Seq(WEntry), Moves(w, funds, entries)
  PROVE  /\ balance' \in [Wallets -> Int]
         /\ ledger' \in [Wallets -> Seq(WEntry)]
  BY DEF RowsTypeOK, Moves

(* Nobody changes the arguments of a request or the task of a job.         *)
LEMMA InputsAreFixed ==
  ASSUME [WNext]_wvars
  PROVE  call' = call /\ task' = task
  BY DEF WNext, BalanceStep, AllDone, wvars, jvars, vars, Step,
       AnswerDuplicate, RejectArguments, CheckIdempotency, LockWallet,
       LockWalletFails, Refuse, Commit, Conflict, Respond, Abort, Crash,
       JobStep, TakeRow, RejectTask, ManualRead, ManualCommit,
       TransactCheckKey, TransactRead, TransactCommit, TransactConflict,
       ReplayStart, ReplayRead, ReplayWrite, ReplayEntry, ReplayResolve,
       FixRead, FixCompare, FixCancel, FixWrite, JobRespond, JobAbort, JobCrash

LEMMA CalculatedType ==
  ASSUME NEW entries \in Seq(WEntry)
  PROVE  CalculatedBalance(entries) \in Int
  <1> DEFINE n == Len(entries)
  <1>1. n \in Nat /\ (n + 1) - 1 = n
    OBVIOUS
  <1>2. CASE n = 0
    BY <1>2 DEF CalculatedBalance, PreviousAfter
  <1>3. CASE n # 0
    <2>1. entries[n] \in WEntry
      BY <1>1, <1>3
    <2>2. CalculatedBalance(entries) = entries[n].after
      BY <1>1, <1>3 DEF CalculatedBalance, PreviousAfter
    <2>3. QED
      BY <2>1, <2>2 DEF WEntry
  <1>4. QED
    BY <1>2, <1>3

LEMMA RowsTypeStep ==
  ASSUME RowsTypeOK, JobsTypeOK, [WNext]_wvars
  PROVE  RowsTypeOK'
  <1>1. ASSUME NEW p \in Requests, RequestStep(p)
        PROVE  RowsTypeOK'
    <2>1. balance' \in [Wallets -> Int] /\ ledger' \in [Wallets -> Seq(WEntry)]
      <3>1. /\ WalletOf(p) \in Wallets
            /\ balance[WalletOf(p)] + Delta(call[p]) \in Int
            /\ Append(ledger[WalletOf(p)], NewEntry(p)) \in Seq(WEntry)
        <4>1. WalletOf(p) \in Wallets /\ Delta(call[p]) \in Int
          BY FieldsOfCall DEF RowsTypeOK
        <4>2. NewEntry(p) \in WEntry
          BY RequestEntry
        <4>3. ledger[WalletOf(p)] \in Seq(WEntry) /\ balance[WalletOf(p)] \in Int
          BY <4>1 DEF RowsTypeOK
        <4>4. QED
          BY <4>1, <4>2, <4>3
      <3>2. QED
        BY <1>1, <3>1, RequestMoves, MovesType DEF RowsTypeOK
    <2>2. seen' \in [Requests -> Int] /\ call' = call /\ jseen' = jseen
      <3>1. call' = call /\ jseen' = jseen
        BY <1>1 DEF RequestStep, jvars, Step, AnswerDuplicate,
             RejectArguments, CheckIdempotency, LockWallet, LockWalletFails,
             Refuse, Commit, Conflict, Respond, Abort, Crash
      <3>2. CASE LockWallet(p)
        <4>1. balance[WalletOf(p)] \in Int
          BY FieldsOfCall DEF RowsTypeOK
        <4>2. QED
          BY <3>1, <3>2, <4>1 DEF LockWallet, RowsTypeOK
      <3>3. CASE ~LockWallet(p)
        BY <1>1, <3>1, <3>3 DEF RowsTypeOK, RequestStep, Step, AnswerDuplicate,
             RejectArguments, CheckIdempotency, LockWalletFails,
             Refuse, Commit, Conflict, Respond, Abort, Crash
      <3>4. QED
        BY <3>1, <3>2, <3>3
    <2>3. QED
      BY <2>1, <2>2 DEF RowsTypeOK
  <1>2. ASSUME NEW j \in Jobs, AnyJobStep(j)
        PROVE  RowsTypeOK'
    <2>1. RowOf(j) \in Wallets /\ jseen[j] \in Int /\ balance[RowOf(j)] \in Int
          /\ ledger[RowOf(j)] \in Seq(WEntry)
      BY JobFields DEF RowsTypeOK, JobsTypeOK
    <2>2. balance' \in [Wallets -> Int] /\ ledger' \in [Wallets -> Seq(WEntry)]
      <3>1. CASE /\ ManualCommit(j)
                 /\ Moves(RowOf(j), balance[RowOf(j)] + task[j].amount,
                      Append(ledger[RowOf(j)],
                        JobEntry(j, jseen[j], balance[RowOf(j)] + task[j].amount)))
        <4>1. Kind(j) # "fix" /\ task[j].amount \in Int
          BY <3>1, JobFields DEF ManualCommit, JobsTypeOK
        <4>2. balance[RowOf(j)] + task[j].amount \in Int
          BY <2>1, <4>1
        <4>3. JobEntry(j, jseen[j], balance[RowOf(j)] + task[j].amount) \in WEntry
          BY <2>1, <4>1, <4>2, EntryOfJob DEF JobsTypeOK
        <4>4. Append(ledger[RowOf(j)],
                JobEntry(j, jseen[j], balance[RowOf(j)] + task[j].amount)) \in Seq(WEntry)
          BY <2>1, <4>3
        <4>5. QED
          BY <2>1, <3>1, <4>2, <4>4, MovesType
      <3>2. CASE TransactCommit(j) /\
              Moves(RowOf(j), jseen[j] - task[j].amount, ledger[RowOf(j)])
        <4>1. jseen[j] - task[j].amount \in Int
          BY <2>1, <3>2, JobFields DEF TransactCommit, JobsTypeOK
        <4>2. QED
          BY <2>1, <3>2, <4>1, MovesType
      <3>3. CASE ReplayWrite(j) /\
              Moves(RowOf(j), jseen[j] + task[j].amount, ledger[RowOf(j)])
        <4>1. jseen[j] + task[j].amount \in Int
          BY <2>1, <3>3, JobFields DEF ReplayWrite, JobsTypeOK
        <4>2. QED
          BY <2>1, <3>3, <4>1, MovesType
      <3>4. CASE /\ ReplayEntry(j)
                 /\ Moves(RowOf(j), balance[RowOf(j)],
                      Append(ledger[RowOf(j)],
                        JobEntry(j, jseen[j], jseen[j] + task[j].amount)))
        <4>1. Kind(j) # "fix" /\ task[j].amount \in Int
          BY <3>4, JobFields DEF ReplayEntry, JobsTypeOK
        <4>2. jseen[j] + task[j].amount \in Int
          BY <2>1, <4>1
        <4>3. JobEntry(j, jseen[j], jseen[j] + task[j].amount) \in WEntry
          BY <2>1, <4>1, <4>2, EntryOfJob DEF JobsTypeOK
        <4>4. Append(ledger[RowOf(j)],
                JobEntry(j, jseen[j], jseen[j] + task[j].amount)) \in Seq(WEntry)
          BY <2>1, <4>3
        <4>5. QED
          BY <2>1, <3>4, <4>4, MovesType
      <3>5. CASE FixWrite(j) /\ Moves(RowOf(j), jseen[j], ledger[RowOf(j)])
        BY <2>1, <3>5, MovesType
      <3>6. CASE UNCHANGED <<balance, ledger>>
        BY <3>6 DEF RowsTypeOK
      <3>7. QED
        BY <1>2, <3>1, <3>2, <3>3, <3>4, <3>5, <3>6, JobMoves
    <2>3. call' = call /\ seen' = seen
      BY <1>2 DEF AnyJobStep, JobStep, vars, TakeRow, RejectTask, ManualRead, ManualCommit,
           TransactCheckKey, TransactRead, TransactCommit, TransactConflict,
           ReplayStart, ReplayRead, ReplayWrite, ReplayEntry, ReplayResolve,
           FixRead, FixCompare, FixCancel, FixWrite, JobRespond, JobAbort, JobCrash
    <2>4. jseen' \in [Jobs -> Int]
      <3>1. CASE jseen' = jseen
        BY <3>1 DEF RowsTypeOK
      <3>2. CASE jseen' = [jseen EXCEPT ![j] = balance[RowOf(j)]]
        BY <2>1, <3>2 DEF RowsTypeOK
      <3>3. CASE jseen' = [jseen EXCEPT ![j] = CalculatedBalance(ledger[RowOf(j)])]
        BY <2>1, <3>3, CalculatedType DEF RowsTypeOK
      <3>4. QED
        BY <1>2, <3>1, <3>2, <3>3
           DEF AnyJobStep, JobStep, TakeRow, RejectTask, ManualRead, ManualCommit,
             TransactCheckKey, TransactRead, TransactCommit, TransactConflict,
             ReplayStart, ReplayRead, ReplayWrite, ReplayEntry, ReplayResolve,
             FixRead, FixCompare, FixCancel, FixWrite, JobRespond, JobAbort, JobCrash
    <2>5. QED
      BY <2>2, <2>3, <2>4 DEF RowsTypeOK
  <1>3. CASE AllDone \/ UNCHANGED wvars
    BY <1>3 DEF AllDone, wvars, vars, jvars, RowsTypeOK
  <1>4. QED
    BY <1>1, <1>2, <1>3, StepCases DEF WNext

LEMMA StagesTypeStep ==
  ASSUME RowsTypeOK, StagesTypeOK, JobsTypeOK, [WNext]_wvars
  PROVE  StagesTypeOK'
  <1> USE DEF JobOpen
  <1>1. ASSUME NEW a \in Actors
        PROVE  Released(a) \in [Wallets -> Actors \cup {NoOne}]
    BY DEF Released, StagesTypeOK
  <1>2. ASSUME NEW p \in Requests, RequestStep(p)
        PROVE  StagesTypeOK'
    <2>1. jpc' = jpc /\ WalletOf(p) \in Wallets /\ p \in Actors
      BY <1>2, FieldsOfCall DEF RequestStep, jvars, RowsTypeOK, Actors
    <2>2. rowLock' \in [Wallets -> Actors \cup {NoOne}]
      <3>1. rowLock' = rowLock \/ rowLock' = Released(p)
              \/ rowLock' = [rowLock EXCEPT ![WalletOf(p)] = p]
        BY <1>2 DEF RequestStep, Step, AnswerDuplicate,
             RejectArguments, CheckIdempotency, LockWallet, LockWalletFails,
             Refuse, Commit, Conflict, Respond, Abort, Crash
      <3>2. QED
        BY <1>1, <2>1, <3>1 DEF StagesTypeOK
    <2> DEFINE S == Stages \cup Answers
    <2>3. pc' \in [Requests -> S]
      <3>8. pc \in [Requests -> S]
        BY DEF StagesTypeOK
      <3>9. /\ "ok" \in S /\ "rejected" \in S /\ "begin" \in S /\ "locked" \in S
            /\ "aborted" \in S /\ "committed" \in S /\ "conflict" \in S
            /\ "unknown" \in S
        OBVIOUS
      <3> HIDE DEF S
      <3>1. CASE AnswerDuplicate(p) \/ RejectArguments(p) \/ CheckIdempotency(p)
                   \/ LockWallet(p) \/ LockWalletFails(p) \/ Respond(p)
        BY <3>8, <3>9, <3>1 DEF AnswerDuplicate, RejectArguments,
             CheckIdempotency, LockWallet, LockWalletFails, Respond
      <3>2. CASE Refuse(p) \/ Commit(p) \/ Conflict(p) \/ Abort(p) \/ Crash(p)
        BY <3>8, <3>9, <3>2 DEF Refuse, Commit, Conflict, Abort, Crash
      <3>3. QED
        BY <1>2, <3>1, <3>2 DEF RequestStep, Step
    <2>4. QED
      BY <2>1, <2>2, <2>3 DEF StagesTypeOK
  <1>3. ASSUME NEW j \in Jobs, AnyJobStep(j)
        PROVE  StagesTypeOK'
    <2>1. RowOf(j) \in Wallets /\ j \in Actors
      BY JobFields DEF JobsTypeOK, Actors
    <2>2. pc' = pc
      BY <1>3 DEF AnyJobStep, JobStep, vars, TakeRow, RejectTask, ManualRead, ManualCommit,
           TransactCheckKey, TransactRead, TransactCommit, TransactConflict,
           ReplayStart, ReplayRead, ReplayWrite, ReplayEntry, ReplayResolve,
           FixRead, FixCompare, FixCancel, FixWrite, JobRespond, JobAbort, JobCrash
    <2>3. rowLock' = rowLock \/ rowLock' = Released(j)
            \/ rowLock' = [rowLock EXCEPT ![RowOf(j)] = j]
      BY <1>3 DEF AnyJobStep, JobStep, vars, TakeRow, RejectTask, ManualRead, ManualCommit,
           TransactCheckKey, TransactRead, TransactCommit, TransactConflict,
           ReplayStart, ReplayRead, ReplayWrite, ReplayEntry, ReplayResolve,
           FixRead, FixCompare, FixCancel, FixWrite, JobRespond, JobAbort, JobCrash
    <2> DEFINE S == JobOpen \cup Answers
    <2>4. jpc' \in [Jobs -> S]
      <3>8. jpc \in [Jobs -> S]
        BY DEF StagesTypeOK
      <3>9. /\ "read" \in S /\ "update" \in S /\ "commit" \in S /\ "entry" \in S
            /\ "resolve" \in S /\ "committed" \in S /\ "ok" \in S
            /\ "rejected" \in S /\ "conflict" \in S /\ "aborted" \in S
            /\ "unknown" \in S
        OBVIOUS
      <3> HIDE DEF S
      <3>1. CASE TakeRow(j) \/ RejectTask(j) \/ ManualRead(j) \/ ManualCommit(j)
                   \/ JobRespond(j) \/ JobAbort(j) \/ JobCrash(j)
        BY <3>8, <3>9, <3>1 DEF Goto, TakeRow, RejectTask, ManualRead,
             ManualCommit, JobRespond, JobAbort, JobCrash
      <3>2. CASE TransactCheckKey(j) \/ TransactRead(j)
                   \/ TransactCommit(j) \/ TransactConflict(j)
        BY <3>8, <3>9, <3>2 DEF Goto, TransactCheckKey, TransactRead,
             TransactCommit, TransactConflict
      <3>3. CASE ReplayStart(j) \/ ReplayRead(j) \/ ReplayWrite(j)
                   \/ ReplayEntry(j) \/ ReplayResolve(j)
        BY <3>8, <3>9, <3>3 DEF Goto, ReplayStart, ReplayRead, ReplayWrite,
             ReplayEntry, ReplayResolve
      <3>4. CASE FixRead(j) \/ FixCompare(j) \/ FixCancel(j) \/ FixWrite(j)
        BY <3>8, <3>9, <3>4 DEF Goto, FixRead, FixCompare, FixCancel, FixWrite
      <3>5. QED
        BY <1>3, <3>1, <3>2, <3>3, <3>4 DEF AnyJobStep, JobStep
    <2>5. QED
      BY <1>1, <2>1, <2>2, <2>3, <2>4 DEF StagesTypeOK
  <1>4. CASE AllDone \/ UNCHANGED wvars
    BY <1>4 DEF AllDone, wvars, vars, jvars, StagesTypeOK
  <1>5. QED
    BY <1>2, <1>3, <1>4, StepCases DEF WNext

LEMMA JobsTypeStep ==
  ASSUME JobsTypeOK, [WNext]_wvars
  PROVE  JobsTypeOK'
  <1>1. stale' \subseteq Jobs
    BY DEF JobsTypeOK, WNext, BalanceStep, GoneStale, AllDone, wvars
  <1>2. CASE UNCHANGED jvars
    BY <1>1, <1>2 DEF jvars, JobsTypeOK
  <1>3. ASSUME NEW j \in Jobs, AnyJobStep(j)
        PROVE  JobsTypeOK'
    <2>1. task' = task
      BY InputsAreFixed
    <2>2. transactions' \subseteq TxRow
      <3>1. CASE TransactCommit(j)
        <4> DEFINE row == [by |-> j, wallet |-> RowOf(j), amount |-> task[j].amount,
                           key |-> task[j].key]
        <4>1. row \in TxRow
          BY <3>1, JobFields DEF TransactCommit, JobsTypeOK, TxRow
        <4>2. transactions' = transactions \cup {row}
          BY <3>1 DEF TransactCommit
        <4>3. QED
          BY <4>1, <4>2 DEF JobsTypeOK
      <3>2. CASE ~TransactCommit(j)
        BY <1>3, <3>2 DEF JobsTypeOK, AnyJobStep, JobStep, TakeRow, RejectTask,
             ManualRead, ManualCommit, TransactCheckKey, TransactRead, TransactConflict,
             ReplayStart, ReplayRead, ReplayWrite, ReplayEntry, ReplayResolve,
             FixRead, FixCompare, FixCancel, FixWrite, JobRespond, JobAbort, JobCrash
      <3>3. QED
        BY <3>1, <3>2
    <2>3. alertStatus' \in [Alerts -> {"pending", "manual_reviewed"}]
      <3>1. CASE ReplayResolve(j)
        BY <3>1 DEF ReplayResolve, JobsTypeOK
      <3>2. CASE ~ReplayResolve(j)
        BY <1>3, <3>2 DEF JobsTypeOK, AnyJobStep, JobStep, TakeRow, RejectTask,
             ManualRead, ManualCommit, TransactCheckKey, TransactRead,
             TransactCommit, TransactConflict, ReplayStart, ReplayRead,
             ReplayWrite, ReplayEntry, FixRead, FixCompare, FixCancel,
             FixWrite, JobRespond, JobAbort, JobCrash
      <3>3. QED
        BY <3>1, <3>2
    <2>4. QED
      BY <1>1, <2>1, <2>2, <2>3 DEF JobsTypeOK
  <1>4. QED
    BY <1>2, <1>3, StepCases DEF WNext, RequestStep, AllDone, wvars

(* Every variable of the writers keeps its type.                           *)
THEOREM WritersTypeCorrect == WSpec => []WTypeOK
  <1>1. WInit => WTypeOK
    <2>1. WInit => RowsTypeOK
      <3>1. <<>> \in Seq(WEntry)
        OBVIOUS
      <3>2. QED
        BY <3>1 DEF WInit, Init, RowsTypeOK
    <2>2. WInit => StagesTypeOK
      <3>1. WInit => pc \in [Requests -> Stages \cup Answers]
        <4>1. "new" \in Stages \cup Answers
          OBVIOUS
        <4> HIDE DEF Stages, Answers, Failures
        <4>2. QED
          BY <4>1 DEF WInit, Init
      <3>2. WInit => jpc \in [Jobs -> JobOpen \cup Answers]
        BY DEF WInit, JobOpen
      <3>3. WInit => rowLock \in [Wallets -> Actors \cup {NoOne}]
        BY DEF WInit, Init
      <3>4. QED
        BY <3>1, <3>2, <3>3 DEF StagesTypeOK
    <2>3. WInit => JobsTypeOK
      BY DEF WInit, JobsTypeOK
    <2>4. QED
      BY <2>1, <2>2, <2>3 DEF WTypeOK
  <1>2. WTypeOK /\ [WNext]_wvars => WTypeOK'
    BY RowsTypeStep, StagesTypeStep, JobsTypeStep DEF WTypeOK
  <1>3. QED
    BY <1>1, <1>2, PTL DEF WSpec

-----------------------------------------------------------------------------
(***************************************************************************)
(* The row lock among the unlocked writers: a transaction that is about to *)
(* commit holds its row, and nobody writes a row that another one holds.   *)
(***************************************************************************)
JobsHoldRows ==
  \A j \in Jobs : jpc[j] = "commit" => rowLock[RowOf(j)] = j

LEMMA ReleasedIs ==
  ASSUME NEW a, NEW w \in Wallets, NEW b, b # a, rowLock[w] = b
  PROVE  Released(a)[w] = b
  BY DEF Released

LEMMA RequestLockStep ==
  ASSUME WTypeOK, LockedReadIsCurrent, JobsHoldRows,
         NEW p \in Requests, RequestStep(p)
  PROVE  LockedReadIsCurrent' /\ JobsHoldRows'
  <1> USE DEF WTypeOK, LockedReadIsCurrent, JobsHoldRows
  <1>1. /\ UNCHANGED <<call, task, jpc>>
        /\ \A q \in Requests : WalletOf(q) \in Wallets /\ WalletOf(q)' = WalletOf(q)
        /\ \A j \in Jobs : RowOf(j) \in Wallets /\ RowOf(j)' = RowOf(j) /\ j # p
        /\ NoOne \notin Jobs /\ NoOne \notin Requests
    <2>1. UNCHANGED <<call, task, jpc>>
      BY DEF RequestStep, jvars, Step, AnswerDuplicate, RejectArguments,
           CheckIdempotency, LockWallet, LockWalletFails,
           Refuse, Commit, Conflict, Respond, Abort, Crash
    <2>2. \A q \in Requests : WalletOf(q) \in Wallets /\ WalletOf(q)' = WalletOf(q)
      BY <2>1, FieldsOfCall DEF RowsTypeOK, WalletOf
    <2>3. \A j \in Jobs : RowOf(j) \in Wallets /\ RowOf(j)' = RowOf(j)
      BY <2>1, JobFields DEF JobsTypeOK, RowOf
    <2>4. QED
      BY <2>1, <2>2, <2>3, JobsAssumption, NullAssumption
  <1>2. CASE AnswerDuplicate(p) \/ RejectArguments(p) \/ CheckIdempotency(p)
               \/ LockWalletFails(p) \/ Respond(p)
    <2>1. /\ UNCHANGED <<balance, rowLock, seen>>
          /\ pc'[p] # "locked"
          /\ \A q \in Requests : q # p => pc'[q] = pc[q]
      BY <1>2 DEF StagesTypeOK, AnswerDuplicate, RejectArguments,
           CheckIdempotency, LockWalletFails, Respond
    <2>2. QED
      BY <1>1, <2>1
  <1>3. CASE LockWallet(p)
    <2>1. /\ rowLock[WalletOf(p)] = NoOne
          /\ UNCHANGED balance
          /\ rowLock'[WalletOf(p)] = p
          /\ \A w \in Wallets : w # WalletOf(p) => rowLock'[w] = rowLock[w]
          /\ seen'[p] = balance[WalletOf(p)]
          /\ \A q \in Requests : q # p => pc'[q] = pc[q] /\ seen'[q] = seen[q]
      BY <1>1, <1>3 DEF StagesTypeOK, RowsTypeOK, LockWallet
    <2>2. QED
      BY <1>1, <2>1
  <1>4. CASE Refuse(p) \/ Conflict(p) \/ Abort(p) \/ Crash(p)
    <2>1. /\ UNCHANGED <<balance, seen>>
          /\ rowLock' = Released(p)
          /\ pc'[p] # "locked"
          /\ \A q \in Requests : q # p => pc'[q] = pc[q]
      BY <1>4 DEF StagesTypeOK, Refuse, Conflict, Abort, Crash
    <2>2. QED
      BY <1>1, <2>1, ReleasedIs
  <1>5. CASE Commit(p)
    <2>1. /\ rowLock' = Released(p) /\ seen' = seen
          /\ pc[p] = "locked" /\ pc'[p] # "locked"
          /\ \A q \in Requests : q # p => pc'[q] = pc[q]
          /\ \A w \in Wallets : w # WalletOf(p) => balance'[w] = balance[w]
      BY <1>5 DEF StagesTypeOK, RowsTypeOK, Commit
    <2>2. QED
      BY <1>1, <2>1, ReleasedIs
  <1>6. QED
    BY <1>2, <1>3, <1>4, <1>5 DEF RequestStep, Step

LEMMA JobLockStep ==
  ASSUME WTypeOK, LockedReadIsCurrent, JobsHoldRows,
         NEW j \in Jobs, AnyJobStep(j)
  PROVE  LockedReadIsCurrent' /\ JobsHoldRows'
  <1> USE DEF WTypeOK, LockedReadIsCurrent, JobsHoldRows
  <1>1. /\ UNCHANGED <<call, task, pc, seen>>
        /\ \A q \in Requests : /\ WalletOf(q) \in Wallets
                               /\ WalletOf(q)' = WalletOf(q)
                               /\ q # j
        /\ \A i \in Jobs : RowOf(i) \in Wallets /\ RowOf(i)' = RowOf(i)
        /\ NoOne \notin Jobs /\ NoOne \notin Requests
    <2>1. UNCHANGED <<call, task, pc, seen>>
      BY DEF AnyJobStep, JobStep, vars, TakeRow, RejectTask, ManualRead, ManualCommit,
           TransactCheckKey, TransactRead, TransactCommit, TransactConflict,
           ReplayStart, ReplayRead, ReplayWrite, ReplayEntry, ReplayResolve,
           FixRead, FixCompare, FixCancel, FixWrite, JobRespond, JobAbort, JobCrash
    <2>2. \A q \in Requests : WalletOf(q) \in Wallets /\ WalletOf(q)' = WalletOf(q)
      BY <2>1, FieldsOfCall DEF RowsTypeOK, WalletOf
    <2>3. \A i \in Jobs : RowOf(i) \in Wallets /\ RowOf(i)' = RowOf(i)
      BY <2>1, JobFields DEF JobsTypeOK, RowOf
    <2>4. QED
      BY <2>1, <2>2, <2>3, JobsAssumption, NullAssumption
  <1>2. ASSUME NEW stage, Goto(j, stage)
        PROVE  jpc'[j] = stage /\ \A i \in Jobs : i # j => jpc'[i] = jpc[i]
    BY <1>2 DEF Goto, StagesTypeOK
  <1>3. CASE TakeRow(j)
    <2>1. /\ rowLock[RowOf(j)] = NoOne
          /\ UNCHANGED balance
          /\ rowLock'[RowOf(j)] = j
          /\ \A w \in Wallets : w # RowOf(j) => rowLock'[w] = rowLock[w]
          /\ \A i \in Jobs : i # j => jpc'[i] = jpc[i]
      BY <1>1, <1>2, <1>3 DEF StagesTypeOK, TakeRow
    <2>2. QED
      BY <1>1, <2>1
  <1>4. CASE TransactConflict(j) \/ JobAbort(j) \/ JobCrash(j)
    <2>1. /\ UNCHANGED balance
          /\ rowLock' = Released(j)
          /\ jpc'[j] # "commit"
          /\ \A i \in Jobs : i # j => jpc'[i] = jpc[i]
      BY <1>2, <1>4 DEF TransactConflict, JobAbort, JobCrash
    <2>2. QED
      BY <1>1, <2>1, ReleasedIs
  <1>5. CASE ManualCommit(j) \/ TransactCommit(j)
    <2>1. /\ rowLock' = Released(j)
          /\ jpc[j] = "commit" /\ jpc'[j] # "commit"
          /\ \A i \in Jobs : i # j => jpc'[i] = jpc[i]
          /\ \A w \in Wallets : w # RowOf(j) => balance'[w] = balance[w]
      BY <1>2, <1>5 DEF RowsTypeOK, ManualCommit, TransactCommit
    <2>2. QED
      BY <1>1, <2>1, ReleasedIs
  <1>6. CASE ReplayWrite(j) \/ FixWrite(j)
    <2>1. /\ rowLock' = rowLock
          /\ rowLock[RowOf(j)] = NoOne
          /\ jpc'[j] # "commit"
          /\ \A i \in Jobs : i # j => jpc'[i] = jpc[i]
          /\ \A w \in Wallets : w # RowOf(j) => balance'[w] = balance[w]
      BY <1>2, <1>6 DEF RowsTypeOK, ReplayWrite, FixWrite
    <2>2. QED
      BY <1>1, <2>1
  <1>7. CASE RejectTask(j) \/ ManualRead(j) \/ TransactCheckKey(j) \/ TransactRead(j)
               \/ ReplayStart(j) \/ ReplayRead(j) \/ ReplayEntry(j)
               \/ ReplayResolve(j) \/ FixRead(j) \/ FixCompare(j)
               \/ FixCancel(j) \/ JobRespond(j)
    <2>1. /\ UNCHANGED <<balance, rowLock>>
          /\ jpc'[j] # "commit"
          /\ \A i \in Jobs : i # j => jpc'[i] = jpc[i]
      <3>1. UNCHANGED <<balance, rowLock>>
        BY <1>7 DEF vars, RejectTask, ManualRead, TransactCheckKey,
             TransactRead, ReplayStart, ReplayRead, ReplayEntry, ReplayResolve,
             FixRead, FixCompare, FixCancel, JobRespond
      <3>2. \E stage : stage # "commit" /\ Goto(j, stage)
        BY <1>7 DEF RejectTask, ManualRead, TransactCheckKey,
             TransactRead, ReplayStart, ReplayRead, ReplayEntry, ReplayResolve,
             FixRead, FixCompare, FixCancel, JobRespond
      <3>3. QED
        BY <1>2, <3>1, <3>2
    <2>2. QED
      BY <1>1, <2>1
  <1>8. QED
    BY <1>3, <1>4, <1>5, <1>6, <1>7 DEF AnyJobStep, JobStep

LEMMA WLockCorrect == WSpec => [](LockedReadIsCurrent /\ JobsHoldRows)
  <1>1. WInit => LockedReadIsCurrent /\ JobsHoldRows
    BY DEF WInit, Init, LockedReadIsCurrent, JobsHoldRows
  <1>2. /\ WTypeOK /\ LockedReadIsCurrent /\ JobsHoldRows
        /\ [WNext]_wvars
        => LockedReadIsCurrent' /\ JobsHoldRows'
    <2>1. AllDone \/ UNCHANGED wvars => UNCHANGED wvars
      BY DEF AllDone
    <2>2. LockedReadIsCurrent /\ JobsHoldRows /\ UNCHANGED wvars
            => LockedReadIsCurrent' /\ JobsHoldRows'
      BY DEF wvars, vars, jvars, LockedReadIsCurrent, JobsHoldRows, WalletOf, RowOf
    <2>3. QED
      BY <2>1, <2>2, RequestLockStep, JobLockStep, StepCases DEF WNext
  <1>3. QED
    BY <1>1, <1>2, WritersTypeCorrect, PTL DEF WSpec

(* What a locked transaction has read stays true until it commits, although*)
(* four other writers ask for no lock before they read.                    *)
THEOREM LockedReadsSurviveWriters == WSpec => []LockedReadIsCurrent
  BY WLockCorrect, PTL

-----------------------------------------------------------------------------
(***************************************************************************)
(* Funds.  Everything a writer may one day write is at least zero: what it *)
(* has read, what the entries record, and what its funds test let through. *)
(***************************************************************************)
JobFunds ==
  \A j \in Jobs :
    /\ jseen[j] >= 0
    /\ Kind(j) = "manual" /\ jpc[j] \in {"update", "commit"} => task[j].amount > 0
    /\ Kind(j) = "transact" /\ jpc[j] \in {"update", "commit"}
         => jseen[j] >= task[j].amount

FundsInv == InFlightInv /\ NeverNegative /\ JobFunds

LEMMA MovesFunds ==
  ASSUME RowsTypeOK, NeverNegative, NEW w \in Wallets, NEW funds \in Int, funds >= 0,
         NEW entries \in Seq(WEntry), \A i \in DOMAIN entries : entries[i].after >= 0,
         Moves(w, funds, entries)
  PROVE  NeverNegative'
  <1>1. /\ balance'[w] = funds /\ ledger'[w] = entries
        /\ \A v \in Wallets : v # w => balance'[v] = balance[v] /\ ledger'[v] = ledger[v]
    BY DEF RowsTypeOK, Moves
  <1>2. ASSUME NEW v \in Wallets
        PROVE  balance'[v] >= 0 /\ \A i \in DOMAIN ledger'[v] : ledger'[v][i].after >= 0
    <2>1. CASE v = w
      BY <1>1, <2>1
    <2>2. CASE v # w
      BY <1>1, <2>2 DEF NeverNegative
    <2>3. QED
      BY <2>1, <2>2
  <1>3. QED
    BY <1>2 DEF NeverNegative

LEMMA AppendsFunds ==
  ASSUME NEW entries \in Seq(WEntry), \A i \in DOMAIN entries : entries[i].after >= 0,
         NEW e \in WEntry, e.after >= 0
  PROVE  /\ Append(entries, e) \in Seq(WEntry)
         /\ \A i \in DOMAIN Append(entries, e) : Append(entries, e)[i].after >= 0
  OBVIOUS

LEMMA RequestFundsStep ==
  ASSUME WTypeOK, LockedReadIsCurrent, FundsInv,
         NEW p \in Requests, RequestStep(p)
  PROVE  FundsInv'
  <1> USE DEF WTypeOK, FundsInv
  <1>1. InFlightInv'
    BY DEF StagesTypeOK, InFlightInv, RequestStep, Step, AnswerDuplicate,
         RejectArguments, CheckIdempotency, LockWallet, LockWalletFails,
         Refuse, Commit, Conflict, Respond, Abort, Crash, Permitted
  <1>2. JobFunds'
    BY DEF RequestStep, jvars, JobFunds, Kind
  <1>3. NeverNegative'
    <2>1. CASE UNCHANGED <<balance, ledger>>
      BY <2>1 DEF NeverNegative
    <2>2. CASE /\ Commit(p)
               /\ Moves(WalletOf(p), balance[WalletOf(p)] + Delta(call[p]),
                        Append(ledger[WalletOf(p)], NewEntry(p)))
      <3> DEFINE w == WalletOf(p)
                 funds == balance[w] + Delta(call[p])
      <3>1. w \in Wallets /\ funds \in Int /\ ledger[w] \in Seq(WEntry)
        BY FieldsOfCall DEF RowsTypeOK
      <3>2. funds >= 0
        BY <2>2, CommitIsFunded DEF RowsTypeOK
      <3>3. NewEntry(p) \in WEntry /\ NewEntry(p).after = funds
        BY RequestEntry
      <3>4. \A i \in DOMAIN ledger[w] : ledger[w][i].after >= 0
        BY <3>1 DEF NeverNegative
      <3> HIDE DEF w, funds
      <3>5. /\ Append(ledger[w], NewEntry(p)) \in Seq(WEntry)
            /\ \A i \in DOMAIN Append(ledger[w], NewEntry(p)) :
                 Append(ledger[w], NewEntry(p))[i].after >= 0
        BY <3>1, <3>2, <3>3, <3>4, AppendsFunds
      <3>6. Moves(w, funds, Append(ledger[w], NewEntry(p)))
        BY <2>2 DEF w, funds
      <3>7. QED
        BY <3>1, <3>2, <3>5, <3>6, MovesFunds
    <2>3. QED
      BY <2>1, <2>2, RequestMoves
  <1>4. QED
    BY <1>1, <1>2, <1>3

LEMMA CalculatedFunds ==
  ASSUME NEW entries \in Seq(WEntry), \A i \in DOMAIN entries : entries[i].after >= 0
  PROVE  CalculatedBalance(entries) >= 0
  <1> DEFINE n == Len(entries)
  <1>1. n \in Nat /\ (n + 1) - 1 = n
    OBVIOUS
  <1>2. CASE n = 0
    BY <1>2 DEF CalculatedBalance, PreviousAfter
  <1>3. CASE n # 0
    <2>1. CalculatedBalance(entries) = entries[n].after
      BY <1>1, <1>3 DEF CalculatedBalance, PreviousAfter
    <2>2. n \in DOMAIN entries
      BY <1>1, <1>3
    <2>3. QED
      BY <2>1, <2>2
  <1>4. QED
    BY <1>2, <1>3

LEMMA JobReadsStep ==
  ASSUME WTypeOK, FundsInv, NEW j \in Jobs, AnyJobStep(j)
  PROVE  JobFunds'
  <1> USE DEF WTypeOK, FundsInv
  <1>1. /\ RowOf(j) \in Wallets /\ jseen[j] \in Int /\ balance[RowOf(j)] \in Int
        /\ balance[RowOf(j)] >= 0 /\ jseen[j] >= 0
        /\ Kind(j) # "fix" => task[j].amount \in Int
    BY JobFields DEF RowsTypeOK, JobsTypeOK, NeverNegative, JobFunds
  <1>2. /\ task' = task
        /\ \A i \in Jobs : i # j => jpc'[i] = jpc[i] /\ jseen'[i] = jseen[i]
    BY DEF RowsTypeOK, StagesTypeOK, Goto, AnyJobStep, JobStep, TakeRow,
         RejectTask, ManualRead, ManualCommit,
         TransactCheckKey, TransactRead, TransactCommit, TransactConflict,
         ReplayStart, ReplayRead, ReplayWrite, ReplayEntry, ReplayResolve,
         FixRead, FixCompare, FixCancel, FixWrite, JobRespond, JobAbort, JobCrash
  <1>3. /\ jseen'[j] >= 0
        /\ Kind(j) = "manual" /\ jpc'[j] \in {"update", "commit"} => task[j].amount > 0
        /\ Kind(j) = "transact" /\ jpc'[j] \in {"update", "commit"}
             => jseen'[j] >= task[j].amount
    <2>1. CASE TakeRow(j)
      BY <1>1, <2>1 DEF TakeRow, Goto, StagesTypeOK, JobFunds
    <2>2. CASE ManualRead(j)
      BY <1>1, <2>2 DEF ManualRead, RowsTypeOK
    <2>3. CASE TransactRead(j)
      BY <1>1, <2>3 DEF TransactRead, Goto, RowsTypeOK, StagesTypeOK
    <2>4. CASE ReplayRead(j) \/ FixRead(j)
      BY <1>1, <2>4 DEF ReplayRead, FixRead, RowsTypeOK
    <2>5. CASE FixCompare(j)
      <3>1. CalculatedBalance(ledger[RowOf(j)]) >= 0
        BY <1>1, CalculatedFunds DEF RowsTypeOK, NeverNegative
      <3>2. QED
        BY <1>1, <2>5, <3>1 DEF FixCompare, RowsTypeOK
    <2>6. CASE \/ RejectTask(j) \/ ManualCommit(j) \/ TransactCheckKey(j)
               \/ TransactCommit(j) \/ TransactConflict(j) \/ ReplayStart(j)
               \/ ReplayWrite(j) \/ ReplayEntry(j) \/ ReplayResolve(j)
               \/ FixCancel(j) \/ FixWrite(j) \/ JobRespond(j)
               \/ JobAbort(j) \/ JobCrash(j)
      <3>1. jseen' = jseen
        BY <2>6 DEF RejectTask, ManualCommit, TransactCheckKey, TransactCommit,
             TransactConflict, ReplayStart, ReplayWrite, ReplayEntry,
             ReplayResolve, FixCancel, FixWrite, JobRespond, JobAbort, JobCrash
      <3>2. Kind(j) \in {"manual", "transact"} => jpc'[j] \notin {"update", "commit"}
        BY <2>6 DEF StagesTypeOK, Goto, RejectTask, ManualCommit, TransactCheckKey,
             TransactCommit, TransactConflict, ReplayStart, ReplayWrite, ReplayEntry,
             ReplayResolve, FixCancel, FixWrite, JobRespond, JobAbort, JobCrash
      <3>3. QED
        BY <1>1, <3>1, <3>2
    <2>7. QED
      BY <2>1, <2>2, <2>3, <2>4, <2>5, <2>6 DEF AnyJobStep, JobStep
  <1>4. QED
    BY <1>2, <1>3 DEF JobFunds, Kind

LEMMA JobFundsStep ==
  ASSUME WTypeOK, FundsInv, NEW j \in Jobs, AnyJobStep(j)
  PROVE  FundsInv'
  <1> USE DEF WTypeOK, FundsInv
  <1>1. InFlightInv'
    BY DEF InFlightInv, AnyJobStep, JobStep, vars, TakeRow, RejectTask,
         ManualRead, ManualCommit,
         TransactCheckKey, TransactRead, TransactCommit, TransactConflict,
         ReplayStart, ReplayRead, ReplayWrite, ReplayEntry, ReplayResolve,
         FixRead, FixCompare, FixCancel, FixWrite, JobRespond, JobAbort, JobCrash
  <1>2. JobFunds'
    BY JobReadsStep
  <1> DEFINE w == RowOf(j)
  <1>3. /\ w \in Wallets /\ jseen[j] \in Int /\ balance[w] \in Int
        /\ ledger[w] \in Seq(WEntry)
        /\ balance[w] >= 0 /\ jseen[j] >= 0
        /\ \A i \in DOMAIN ledger[w] : ledger[w][i].after >= 0
        /\ Kind(j) # "fix" => task[j].amount \in Int
        /\ Kind(j) = "replay" => task[j].amount >= 0
    BY JobFields DEF RowsTypeOK, JobsTypeOK, NeverNegative, JobFunds
  <1> HIDE DEF w
  <1>4. NeverNegative'
    <2>1. ASSUME NEW before \in Int, NEW after \in Int, after >= 0, Kind(j) # "fix"
          PROVE  /\ Append(ledger[w], JobEntry(j, before, after)) \in Seq(WEntry)
                 /\ \A i \in DOMAIN Append(ledger[w], JobEntry(j, before, after)) :
                      Append(ledger[w], JobEntry(j, before, after))[i].after >= 0
      <3>1. JobEntry(j, before, after) \in WEntry /\ JobEntry(j, before, after).after = after
        BY <2>1, EntryOfJob DEF JobsTypeOK
      <3>2. QED
        BY <1>3, <2>1, <3>1, AppendsFunds
    <2>2. CASE /\ ManualCommit(j)
               /\ Moves(w, balance[w] + task[j].amount,
                        Append(ledger[w],
                               JobEntry(j, jseen[j], balance[w] + task[j].amount)))
      <3>1. task[j].amount \in Int /\ task[j].amount > 0 /\ Kind(j) # "fix"
        BY <1>3, <2>2 DEF ManualCommit, JobFunds
      <3>2. balance[w] + task[j].amount \in Int /\ balance[w] + task[j].amount >= 0
        BY <1>3, <3>1
      <3>3. QED
        BY <1>3, <2>1, <2>2, <3>1, <3>2, MovesFunds
    <2>3. CASE TransactCommit(j) /\ Moves(w, jseen[j] - task[j].amount, ledger[w])
      <3>1. task[j].amount \in Int /\ jseen[j] >= task[j].amount
        BY <1>3, <2>3 DEF TransactCommit, JobFunds
      <3>2. jseen[j] - task[j].amount \in Int /\ jseen[j] - task[j].amount >= 0
        BY <1>3, <3>1
      <3>3. QED
        BY <1>3, <2>3, <3>2, MovesFunds
    <2>4. CASE ReplayWrite(j) /\ Moves(w, jseen[j] + task[j].amount, ledger[w])
      <3>1. jseen[j] + task[j].amount \in Int /\ jseen[j] + task[j].amount >= 0
        BY <1>3, <2>4 DEF ReplayWrite
      <3>2. QED
        BY <1>3, <2>4, <3>1, MovesFunds
    <2>5. CASE /\ ReplayEntry(j)
               /\ Moves(w, balance[w],
                        Append(ledger[w],
                               JobEntry(j, jseen[j], jseen[j] + task[j].amount)))
      <3>1. /\ jseen[j] + task[j].amount \in Int /\ jseen[j] + task[j].amount >= 0
            /\ Kind(j) # "fix"
        BY <1>3, <2>5 DEF ReplayEntry
      <3>2. QED
        BY <1>3, <2>1, <2>5, <3>1, MovesFunds
    <2>6. CASE FixWrite(j) /\ Moves(w, jseen[j], ledger[w])
      BY <1>3, <2>6, MovesFunds
    <2>7. CASE UNCHANGED <<balance, ledger>>
      BY <2>7 DEF NeverNegative
    <2>8. QED
      BY <2>2, <2>3, <2>4, <2>5, <2>6, <2>7, JobMoves DEF w
  <1>5. QED
    BY <1>1, <1>2, <1>4

LEMMA FundsCorrect == WSpec => []FundsInv
  <1>1. WInit => FundsInv
    <2> SUFFICES ASSUME WInit PROVE FundsInv
      OBVIOUS
    <2>1. InFlightInv /\ JobFunds
      BY DEF WInit, Init, InFlightInv, JobFunds
    <2>2. \A w \in Wallets : balance[w] = 0 /\ DOMAIN ledger[w] = {}
      BY EmptyLedger DEF WInit
    <2>3. QED
      BY <2>1, <2>2 DEF FundsInv, NeverNegative
  <1>2. /\ WTypeOK /\ LockedReadIsCurrent /\ FundsInv
        /\ [WNext]_wvars
        => FundsInv'
    <2>1. FundsInv /\ UNCHANGED wvars => FundsInv'
      BY DEF wvars, vars, jvars, FundsInv, InFlightInv, NeverNegative, JobFunds, Kind
    <2>2. AllDone => UNCHANGED wvars
      BY DEF AllDone
    <2>3. QED
      BY <2>1, <2>2, RequestFundsStep, JobFundsStep, StepCases DEF WNext
  <1>3. QED
    BY <1>1, <1>2, WritersTypeCorrect, WLockCorrect, PTL DEF WSpec

(* Whatever updates the unlocked writers lose, no wallet goes below zero.  *)
THEOREM WritersFundsNeverNegative == WSpec => []FundsNeverNegative
  <1>1. FundsInv => FundsNeverNegative
    BY DEF FundsInv, NeverNegative, FundsNeverNegative
  <1>2. QED
    BY <1>1, FundsCorrect, PTL

-----------------------------------------------------------------------------
(***************************************************************************)
(* Records.  A job has records exactly in the stages after it made them.   *)
(***************************************************************************)
JobRecords ==
  \A j \in Jobs :
    /\ Recorded(j) => jpc[j] \in {"resolve", "committed", "ok", "unknown"}
    /\ Kind(j) # "fix" /\ jpc[j] \in {"resolve", "committed"} => Recorded(j)
    /\ jpc[j] = "ok" /\ Kind(j) \in {"manual", "replay"} => Recorded(j)
    /\ jpc[j] = "ok" /\ Kind(j) = "transact" => Recorded(j) \/ KeyTaken(task[j].key)

(* Rows are only added: what is recorded stays recorded.                   *)
LEMMA AppendsOnly ==
  ASSUME WTypeOK, [WNext]_wvars, NEW w \in Wallets
  PROVE  \/ ledger'[w] = ledger[w]
         \/ \E e \in WEntry :
              /\ ledger'[w] = Append(ledger[w], e)
              /\ \/ \E p \in Requests : Commit(p) /\ w = WalletOf(p) /\ e = NewEntry(p)
                 \/ \E j \in Jobs : /\ ManualCommit(j) \/ ReplayEntry(j)
                                    /\ w = RowOf(j)
                                    /\ e.by = j /\ e.type = "deposit"
                                    /\ e.amount = task[j].amount
  <1> USE DEF WTypeOK
  <1>1. ASSUME NEW p \in Requests, Commit(p)
        PROVE  \/ ledger'[w] = ledger[w]
               \/ w = WalletOf(p) /\ ledger'[w] = Append(ledger[w], NewEntry(p))
    BY <1>1 DEF Commit, RowsTypeOK
  <1>2. ASSUME NEW j \in Jobs, ManualCommit(j) \/ ReplayEntry(j)
        PROVE  \/ ledger'[w] = ledger[w]
               \/ \E before, after \in Int :
                    /\ w = RowOf(j) /\ Kind(j) # "fix"
                    /\ ledger'[w] = Append(ledger[w], JobEntry(j, before, after))
    <2>1. /\ balance[RowOf(j)] + task[j].amount \in Int /\ jseen[j] \in Int
          /\ jseen[j] + task[j].amount \in Int /\ Kind(j) # "fix"
      BY <1>2, JobFields DEF RowsTypeOK, JobsTypeOK, ManualCommit, ReplayEntry
    <2>2. CASE w = RowOf(j)
      BY <1>2, <2>1, <2>2 DEF RowsTypeOK, ManualCommit, ReplayEntry
    <2>3. CASE w # RowOf(j)
      BY <1>2, <2>3 DEF RowsTypeOK, ManualCommit, ReplayEntry
    <2>4. QED
      BY <2>2, <2>3
  <1>3. CASE UNCHANGED ledger
    BY <1>3
  <1>4. CASE ~UNCHANGED ledger
    <2>1. \/ \E p \in Requests : Commit(p)
          \/ \E j \in Jobs : ManualCommit(j) \/ ReplayEntry(j)
      <3>1. ASSUME NEW j \in Jobs, AnyJobStep(j)
            PROVE  ManualCommit(j) \/ ReplayEntry(j)
        BY <1>4, <3>1 DEF AnyJobStep, JobStep, vars, TakeRow, RejectTask,
             ManualRead, TransactCheckKey, TransactRead, TransactCommit,
             TransactConflict, ReplayStart, ReplayRead, ReplayWrite,
             ReplayResolve, FixRead, FixCompare, FixCancel, FixWrite,
             JobRespond, JobAbort, JobCrash
      <3>2. ASSUME NEW p \in Requests, RequestStep(p)
            PROVE  Commit(p)
        BY <1>4, <3>2, RequestMoves
      <3>3. CASE BalanceStep
        BY <3>1, <3>2, <3>3, StepCases
      <3>4. CASE ~BalanceStep
        BY <1>4, <3>4 DEF WNext, AllDone, wvars, vars
      <3>5. QED
        BY <3>3, <3>4
    <2>2. CASE \E p \in Requests : Commit(p)
      BY <1>1, <2>2, RequestEntry
    <2>3. CASE \E j \in Jobs : ManualCommit(j) \/ ReplayEntry(j)
      <3>1. PICK j \in Jobs : ManualCommit(j) \/ ReplayEntry(j)
        BY <2>3
      <3>2. CASE ledger'[w] = ledger[w]
        BY <3>2
      <3>3. CASE ledger'[w] # ledger[w]
        <4>1. PICK before, after \in Int :
                /\ w = RowOf(j) /\ Kind(j) # "fix"
                /\ ledger'[w] = Append(ledger[w], JobEntry(j, before, after))
          BY <1>2, <3>1, <3>3
        <4>2. /\ JobEntry(j, before, after) \in WEntry
              /\ JobEntry(j, before, after).by = j
              /\ JobEntry(j, before, after).type = "deposit"
              /\ JobEntry(j, before, after).amount = task[j].amount
          BY <4>1, EntryOfJob DEF JobsTypeOK
        <4>3. QED
          BY <3>1, <4>1, <4>2
      <3>4. QED
        BY <3>2, <3>3
    <2>4. QED
      BY <2>1, <2>2, <2>3
  <1>5. QED
    BY <1>3, <1>4

LEMMA RecordsRemain ==
  ASSUME WTypeOK, [WNext]_wvars
  PROVE  /\ \A j \in Jobs : Recorded(j) => Recorded(j)'
         /\ \A k : KeyTaken(k) => KeyTaken(k)'
         /\ \A w \in Wallets : \A i \in DOMAIN ledger[w] :
              i \in DOMAIN ledger'[w] /\ ledger'[w][i] = ledger[w][i]
  <1>1. transactions \subseteq transactions'
    <2>1. ASSUME NEW j \in Jobs, AnyJobStep(j)
          PROVE  transactions \subseteq transactions'
      BY <2>1 DEF AnyJobStep, JobStep, TakeRow, RejectTask, ManualRead, ManualCommit,
           TransactCheckKey, TransactRead, TransactCommit, TransactConflict,
           ReplayStart, ReplayRead, ReplayWrite, ReplayEntry, ReplayResolve,
           FixRead, FixCompare, FixCancel, FixWrite, JobRespond, JobAbort, JobCrash
    <2>2. QED
      BY <2>1, StepCases DEF WNext, RequestStep, jvars, AllDone, wvars
  <1>2. ASSUME NEW w \in Wallets, NEW i \in DOMAIN ledger[w]
        PROVE  i \in DOMAIN ledger'[w] /\ ledger'[w][i] = ledger[w][i]
    <2>1. ledger[w] \in Seq(WEntry)
      BY DEF WTypeOK, RowsTypeOK
    <2>2. CASE \E e \in WEntry : ledger'[w] = Append(ledger[w], e)
      BY <2>1, <2>2
    <2>3. QED
      BY <2>2, AppendsOnly
  <1>3. QED
    BY <1>1, <1>2 DEF Recorded, KeyTaken

LEMMA NewRecord ==
  ASSUME WTypeOK, [WNext]_wvars, NEW j \in Jobs, Recorded(j)', ~Recorded(j)
  PROVE  ManualCommit(j) \/ ReplayEntry(j) \/ TransactCommit(j)
  <1>1. CASE \E t \in transactions' : t.by = j
    <2>1. PICK t \in transactions' : t.by = j
      BY <1>1
    <2>2. t \notin transactions
      BY <2>1 DEF Recorded
    <2>3. ASSUME NEW i \in Jobs, AnyJobStep(i), ~TransactCommit(i)
          PROVE  transactions' = transactions
      BY <2>3 DEF AnyJobStep, JobStep, TakeRow, RejectTask, ManualRead, ManualCommit,
           TransactCheckKey, TransactRead, TransactConflict,
           ReplayStart, ReplayRead, ReplayWrite, ReplayEntry, ReplayResolve,
           FixRead, FixCompare, FixCancel, FixWrite, JobRespond, JobAbort, JobCrash
    <2>4. PICK i \in Jobs : TransactCommit(i)
      BY <2>1, <2>2, <2>3, StepCases DEF WNext, RequestStep, jvars, AllDone, wvars
    <2>5. t.by = i
      BY <2>1, <2>2, <2>4 DEF TransactCommit
    <2>6. QED
      BY <2>1, <2>4, <2>5
  <1>2. CASE \E w \in Wallets : \E i \in DOMAIN ledger'[w] : ledger'[w][i].by = j
    <2>0. PICK w \in Wallets : \E i \in DOMAIN ledger'[w] : ledger'[w][i].by = j
      BY <1>2
    <2>1. PICK i \in DOMAIN ledger'[w] : ledger'[w][i].by = j
      BY <2>0
    <2>2. ledger[w] \in Seq(WEntry)
      BY DEF WTypeOK, RowsTypeOK
    <2>3. \A k \in DOMAIN ledger[w] : ledger[w][k].by # j
      BY DEF Recorded
    <2>4. ledger'[w] # ledger[w]
      BY <2>1, <2>3
    <2>5. PICK e \in WEntry :
            /\ ledger'[w] = Append(ledger[w], e)
            /\ \/ \E p \in Requests : Commit(p) /\ w = WalletOf(p) /\ e = NewEntry(p)
               \/ \E m \in Jobs : /\ ManualCommit(m) \/ ReplayEntry(m)
                                  /\ w = RowOf(m)
                                  /\ e.by = m /\ e.type = "deposit"
                                  /\ e.amount = task[m].amount
      BY <2>4, AppendsOnly
    <2>6. e.by = j
      BY <2>1, <2>2, <2>3, <2>5
    <2>7. \A p \in Requests : NewEntry(p).by # j
      BY RequestEntry, JobsAssumption DEF WTypeOK
    <2>8. QED
      BY <2>5, <2>6, <2>7
  <1>3. QED
    BY <1>1, <1>2 DEF Recorded

LEMMA JobStages ==
  ASSUME WTypeOK, [WNext]_wvars, NEW j \in Jobs,
         ~(ManualCommit(j) \/ ReplayEntry(j) \/ TransactCommit(j))
  PROVE  \/ jpc'[j] = jpc[j]
         \/ jpc[j] = "resolve" /\ jpc'[j] = "committed"
         \/ jpc[j] = "committed" /\ jpc'[j] = "ok"
         \/ jpc'[j] = "unknown"
         \/ /\ Kind(j) = "transact" /\ KeyTaken(task[j].key)
            /\ jpc[j] = "new" /\ jpc'[j] = "ok"
         \/ Kind(j) = "fix" /\ jpc[j] \in {"new", "read", "update"}
         \/ /\ jpc[j] \in {"new", "read", "update", "commit", "entry"}
            /\ jpc'[j] \notin {"resolve", "committed", "ok"}
  <1> USE DEF WTypeOK, StagesTypeOK
  <1>1. CASE jpc'[j] = jpc[j]
    BY <1>1
  <1>2. CASE jpc'[j] # jpc[j]
    <2>1. AnyJobStep(j)
      <3>1. ASSUME NEW i \in Jobs, AnyJobStep(i), i # j
            PROVE  jpc'[j] = jpc[j]
        BY <3>1 DEF AnyJobStep, JobStep, Goto, TakeRow, RejectTask, ManualRead, ManualCommit,
             TransactCheckKey, TransactRead, TransactCommit, TransactConflict,
             ReplayStart, ReplayRead, ReplayWrite, ReplayEntry, ReplayResolve,
             FixRead, FixCompare, FixCancel, FixWrite, JobRespond, JobAbort, JobCrash
      <3>2. QED
        BY <1>2, <3>1, StepCases DEF WNext, RequestStep, jvars, AllDone, wvars
    <2>2. CASE TakeRow(j) \/ RejectTask(j) \/ ManualRead(j)
                 \/ JobRespond(j) \/ JobAbort(j) \/ JobCrash(j)
      BY <2>2 DEF Goto, TakeRow, RejectTask, ManualRead, JobRespond, JobAbort, JobCrash
    <2>3. CASE TransactCheckKey(j) \/ TransactRead(j) \/ TransactConflict(j)
      BY <2>3 DEF Goto, TransactCheckKey, TransactRead, TransactConflict
    <2>4. CASE ReplayStart(j) \/ ReplayRead(j) \/ ReplayWrite(j) \/ ReplayResolve(j)
      BY <2>4 DEF Goto, ReplayStart, ReplayRead, ReplayWrite, ReplayResolve
    <2>5. CASE FixRead(j) \/ FixCompare(j) \/ FixCancel(j) \/ FixWrite(j)
      BY <2>5 DEF Goto, FixRead, FixCompare, FixCancel, FixWrite
    <2>6. QED
      BY <2>1, <2>2, <2>3, <2>4, <2>5 DEF AnyJobStep, JobStep
  <1>3. QED
    BY <1>1, <1>2

LEMMA JobRecordsStep ==
  ASSUME WTypeOK, JobRecords, [WNext]_wvars
  PROVE  JobRecords'
  <1> SUFFICES ASSUME NEW j \in Jobs
               PROVE  /\ Recorded(j)' => jpc'[j] \in {"resolve", "committed", "ok", "unknown"}
                      /\ (Kind(j) # "fix" /\ jpc'[j] \in {"resolve", "committed"}
                            => Recorded(j)')
                      /\ (jpc'[j] = "ok" /\ Kind(j) \in {"manual", "replay"}
                            => Recorded(j)')
                      /\ (jpc'[j] = "ok" /\ Kind(j) = "transact"
                            => Recorded(j)' \/ KeyTaken(task[j].key)')
    BY InputsAreFixed DEF JobRecords, Kind
  <1>1. CASE ManualCommit(j) \/ ReplayEntry(j) \/ TransactCommit(j)
    <2>1. jpc'[j] \in {"committed", "resolve"}
      BY <1>1 DEF WTypeOK, StagesTypeOK, Goto, ManualCommit, ReplayEntry, TransactCommit
    <2>2. Recorded(j)'
      <3>1. CASE TransactCommit(j)
        <4> DEFINE row == [by |-> j, wallet |-> RowOf(j), amount |-> task[j].amount,
                           key |-> task[j].key]
        <4>1. row \in transactions' /\ row.by = j
          BY <3>1 DEF TransactCommit
        <4>2. QED
          BY <4>1 DEF Recorded
      <3>2. CASE ManualCommit(j) \/ ReplayEntry(j)
        <4> DEFINE w == RowOf(j)
        <4>1. w \in Wallets /\ ledger[w] \in Seq(WEntry)
          BY JobFields DEF WTypeOK, RowsTypeOK, JobsTypeOK
        <4>2. \E before, after :
                ledger'[w] = Append(ledger[w], JobEntry(j, before, after))
          BY <3>2, <4>1 DEF WTypeOK, RowsTypeOK, ManualCommit, ReplayEntry
        <4>3. PICK before, after :
                ledger'[w] = Append(ledger[w], JobEntry(j, before, after))
          BY <4>2
        <4> DEFINE e == JobEntry(j, before, after)
        <4>4. e.by = j
          BY DEF JobEntry
        <4> HIDE DEF e
        <4>5. ledger'[w] = Append(ledger[w], e)
          BY <4>3 DEF e
        <4>6. Len(ledger[w]) + 1 \in DOMAIN ledger'[w]
                /\ ledger'[w][Len(ledger[w]) + 1].by = j
          BY <4>1, <4>4, <4>5
        <4>7. QED
          BY <4>1, <4>6 DEF Recorded
      <3>3. QED
        BY <1>1, <3>1, <3>2
    <2>3. QED
      BY <2>1, <2>2
  <1>2. CASE ~(ManualCommit(j) \/ ReplayEntry(j) \/ TransactCommit(j))
    <2>1. Recorded(j)' <=> Recorded(j)
      BY <1>2, NewRecord, RecordsRemain
    <2>2. KeyTaken(task[j].key) => KeyTaken(task[j].key)'
      BY RecordsRemain, InputsAreFixed DEF KeyTaken
    <2>3. QED
      BY <1>2, <2>1, <2>2, JobStages DEF JobRecords
  <1>3. QED
    BY <1>1, <1>2

LEMMA EmptyRecords ==
  ASSUME WInit, NEW j \in Jobs
  PROVE  ~Recorded(j)
  BY EmptyLedger DEF WInit, Recorded

LEMMA JobRecordsCorrect == WSpec => []JobRecords
  <1>1. WInit => JobRecords
    <2>1. WInit => \A j \in Jobs : jpc[j] = "new"
      BY DEF WInit
    <2>2. QED
      BY <2>1, EmptyRecords DEF JobRecords
  <1>2. QED
    BY <1>1, JobRecordsStep, WritersTypeCorrect, PTL DEF WSpec

(* The unique index, and nothing else, keeps a key from a second row.      *)
LEMMA ExecutedOnceStep ==
  ASSUME ExecutedOnce, [WNext]_wvars
  PROVE  ExecutedOnce'
  <1>1. CASE transactions' = transactions
    BY <1>1 DEF ExecutedOnce
  <1>2. CASE transactions' # transactions
    <2>1. PICK j \in Jobs : TransactCommit(j)
      <3>1. ASSUME NEW j \in Jobs, AnyJobStep(j), ~TransactCommit(j)
            PROVE  transactions' = transactions
        BY <3>1 DEF AnyJobStep, JobStep, TakeRow, RejectTask, ManualRead, ManualCommit,
             TransactCheckKey, TransactRead, TransactConflict,
             ReplayStart, ReplayRead, ReplayWrite, ReplayEntry, ReplayResolve,
             FixRead, FixCompare, FixCancel, FixWrite, JobRespond, JobAbort, JobCrash
      <3>2. QED
        BY <1>2, <3>1, StepCases DEF WNext, RequestStep, jvars, AllDone, wvars
    <2> DEFINE row == [by |-> j, wallet |-> RowOf(j), amount |-> task[j].amount,
                       key |-> task[j].key]
    <2>2. transactions' = transactions \cup {row} /\ ~KeyTaken(row.key)
      BY <2>1 DEF TransactCommit
    <2> HIDE DEF row
    <2>3. QED
      BY <2>2 DEF ExecutedOnce, KeyTaken
  <1>3. QED
    BY <1>1, <1>2

(* The answer of a writer without a lock is true of its own records        *)
(* (manualCredit, createTransaction, replayMissingWebhook), and            *)
(* createTransaction executes a client key once.                           *)
THEOREM JobAnswersAreTrue == WSpec => []JobAnswersMatchRecords
  <1>1. JobRecords /\ ExecutedOnce => JobAnswersMatchRecords
    BY DEF JobRecords, JobAnswersMatchRecords
  <1>2. WInit => ExecutedOnce
    BY DEF WInit, ExecutedOnce
  <1>3. ExecutedOnce /\ [WNext]_wvars => ExecutedOnce'
    BY ExecutedOnceStep
  <1>4. WSpec => []ExecutedOnce
    BY <1>2, <1>3, PTL DEF WSpec
  <1>5. QED
    BY <1>1, <1>4, JobRecordsCorrect, PTL

(* An alert is closed by a replay only over a recorded credit.             *)
THEOREM ReplaysCreditFirst == WSpec => []ClosedAlertsAreCredited
  <1>1. WInit => ClosedAlertsAreCredited
    BY DEF WInit, ClosedAlertsAreCredited
  <1>2. /\ WTypeOK /\ JobRecords /\ ClosedAlertsAreCredited /\ [WNext]_wvars
        => ClosedAlertsAreCredited'
    <2> SUFFICES ASSUME WTypeOK, JobRecords, ClosedAlertsAreCredited, [WNext]_wvars,
                        NEW a \in Alerts, alertStatus'[a] = "manual_reviewed"
                 PROVE  \E j \in Jobs : /\ Kind(j) = "replay" /\ task[j].alert = a
                                        /\ Recorded(j)'
      BY InputsAreFixed DEF ClosedAlertsAreCredited, Kind
    <2>1. CASE alertStatus[a] = "manual_reviewed"
      BY <2>1, RecordsRemain DEF ClosedAlertsAreCredited
    <2>2. CASE alertStatus[a] # "manual_reviewed"
      <3>1. ASSUME NEW j \in Jobs, AnyJobStep(j), ~ReplayResolve(j)
            PROVE  alertStatus' = alertStatus
        BY <3>1 DEF AnyJobStep, JobStep, TakeRow, RejectTask, ManualRead, ManualCommit,
             TransactCheckKey, TransactRead, TransactCommit, TransactConflict,
             ReplayStart, ReplayRead, ReplayWrite, ReplayEntry,
             FixRead, FixCompare, FixCancel, FixWrite, JobRespond, JobAbort, JobCrash
      <3>2. PICK j \in Jobs : ReplayResolve(j)
        BY <2>2, <3>1, StepCases DEF WNext, RequestStep, jvars, AllDone, wvars
      <3>3. task[j].alert = a
        BY <2>2, <3>2 DEF ReplayResolve, WTypeOK, JobsTypeOK
      <3>4. Kind(j) = "replay" /\ Recorded(j)
        BY <3>2 DEF ReplayResolve, JobRecords
      <3>5. QED
        BY <3>3, <3>4, RecordsRemain
    <2>3. QED
      BY <2>1, <2>2
  <1>3. QED
    BY <1>1, <1>2, JobRecordsCorrect, WritersTypeCorrect, PTL DEF WSpec

-----------------------------------------------------------------------------
(***************************************************************************)
(* Totals.  The increment of a manual credit needs no lock to keep the     *)
(* balance in step with the ledger.                                        *)
(***************************************************************************)
OnlyIncrements(w) == \A j \in Jobs : RowOf(j) = w => Kind(j) = "manual"

LEMMA BalanceOfAppend ==
  ASSUME NEW s \in Seq(WEntry), NEW e \in WEntry
  PROVE  /\ LedgerBalance(s) \in Int
         /\ LedgerBalance(Append(s, e)) =
              IF e.type \in CreditTypes THEN LedgerBalance(s) + e.amount
                                        ELSE LedgerBalance(s) - e.amount
  <1>1. \A f \in WEntry : f.amount \in Int /\ f.type \in LedgerEntryType
    BY DEF WEntry
  <1>2. QED
    BY <1>1, LedgerBalanceAppends

LEMMA IncrementsStep ==
  ASSUME WTypeOK, IncrementsKeepStep, BalanceStep, [WNext]_wvars,
         NEW w \in Wallets, OnlyIncrements(w),
         \A i \in DOMAIN ledger'[w] :
           ledger'[w][i].by \in Requests => TypeFits(call[ledger'[w][i].by])
  PROVE  balance'[w] = LedgerBalance(ledger'[w])
  <1> USE DEF WTypeOK
  <1>1. balance[w] = LedgerBalance(ledger[w]) /\ ledger[w] \in Seq(WEntry)
    <2>1. \A i \in DOMAIN ledger[w] :
            ledger[w][i].by \in Requests => TypeFits(call[ledger[w][i].by])
      BY RecordsRemain
    <2>2. QED
      BY <2>1 DEF IncrementsKeepStep, OnlyIncrements, RowsTypeOK
  <1>2. ASSUME NEW v \in Wallets, v # w, NEW funds, NEW entries, Moves(v, funds, entries)
        PROVE  balance'[w] = LedgerBalance(ledger'[w])
    BY <1>1, <1>2 DEF Moves, RowsTypeOK
  <1>3. CASE UNCHANGED <<balance, ledger>>
    BY <1>1, <1>3
  <1>4. ASSUME NEW p \in Requests, Commit(p),
               Moves(WalletOf(p), balance[WalletOf(p)] + Delta(call[p]),
                     Append(ledger[WalletOf(p)], NewEntry(p)))
        PROVE  balance'[w] = LedgerBalance(ledger'[w])
    <2>1. WalletOf(p) \in Wallets /\ call[p] \in Call /\ Delta(call[p]) \in Int
      BY FieldsOfCall DEF RowsTypeOK
    <2>2. CASE WalletOf(p) # w
      BY <1>2, <1>4, <2>1, <2>2
    <2>3. CASE WalletOf(p) = w
      <3>1. /\ balance'[w] = balance[w] + Delta(call[p])
            /\ ledger'[w] = Append(ledger[w], NewEntry(p))
        BY <1>4, <2>3 DEF Moves, RowsTypeOK
      <3>2. /\ NewEntry(p) \in WEntry /\ NewEntry(p).by = p
            /\ NewEntry(p).type = call[p].type /\ NewEntry(p).amount = call[p].amount
        BY RequestEntry
      <3>3. TypeFits(call[p])
        <4> DEFINE n == Len(ledger[w]) + 1
                   e == NewEntry(p)
        <4>1. n \in DOMAIN ledger'[w] /\ ledger'[w][n] = e
          <5> HIDE DEF e
          <5>1. ledger'[w] = Append(ledger[w], e) /\ e \in WEntry
            BY <3>1, <3>2 DEF e
          <5>2. QED
            BY <1>1, <5>1
        <4>2. QED
          BY <3>2, <4>1
      <3>4. /\ LedgerBalance(ledger[w]) \in Int
            /\ LedgerBalance(Append(ledger[w], NewEntry(p))) =
                 IF NewEntry(p).type \in CreditTypes
                 THEN LedgerBalance(ledger[w]) + NewEntry(p).amount
                 ELSE LedgerBalance(ledger[w]) - NewEntry(p).amount
        BY <1>1, <3>2, BalanceOfAppend
      <3>5. call[p].op \in {"credit", "debit"} /\ call[p].amount \in Int
        BY <2>1 DEF Call
      <3>6. call[p].op = "credit" <=> call[p].type \in CreditTypes
        BY <3>3, <3>5 DEF TypeFits, CreditTypes, DebitTypes
      <3>7. QED
        BY <1>1, <3>1, <3>2, <3>4, <3>5, <3>6 DEF Delta
    <2>4. QED
      BY <2>2, <2>3
  <1>5. ASSUME NEW j \in Jobs, AnyJobStep(j), RowOf(j) # w
        PROVE  balance'[w] = LedgerBalance(ledger'[w])
    <2>1. RowOf(j) \in Wallets
      BY JobFields DEF JobsTypeOK
    <2>2. QED
      BY <1>2, <1>3, <1>5, <2>1, JobMoves
  <1>6. ASSUME NEW j \in Jobs, AnyJobStep(j), RowOf(j) = w
        PROVE  balance'[w] = LedgerBalance(ledger'[w])
    <2>1. Kind(j) = "manual" /\ task[j].amount \in Int
      BY <1>6, JobFields DEF OnlyIncrements, JobsTypeOK
    <2>2. CASE UNCHANGED <<balance, ledger>>
      BY <1>3, <2>2
    <2>3. CASE ~UNCHANGED <<balance, ledger>>
      <3> DEFINE after == balance[w] + task[j].amount
                 e == JobEntry(j, jseen[j], after)
      <3>1. Moves(w, after, Append(ledger[w], e))
        BY <1>6, <2>1, <2>3, JobMoves DEF TransactCommit, ReplayWrite, ReplayEntry, FixWrite
      <3>2. after \in Int /\ jseen[j] \in Int /\ balance[w] \in Int
        BY <2>1 DEF RowsTypeOK
      <3>3. e \in WEntry /\ e.type = "deposit" /\ e.amount = task[j].amount
        <4> HIDE DEF after
        <4>1. QED
          BY <2>1, <3>2, EntryOfJob DEF JobsTypeOK
      <3> HIDE DEF e
      <3>4. balance'[w] = after /\ ledger'[w] = Append(ledger[w], e)
        BY <3>1 DEF Moves, RowsTypeOK
      <3>5. LedgerBalance(Append(ledger[w], e)) = LedgerBalance(ledger[w]) + task[j].amount
        BY <1>1, <3>3, BalanceOfAppend DEF CreditTypes
      <3>6. QED
        BY <1>1, <3>4, <3>5
    <2>4. QED
      BY <2>2, <2>3
  <1>7. QED
    BY <1>3, <1>4, <1>5, <1>6, StepCases, RequestMoves

(* Balance and ledger keep step wherever only manual credits and requests  *)
(* of fitting types write.                                                 *)
THEOREM IncrementsAreSafe == WSpec => []IncrementsKeepStep
  <1>1. WInit => IncrementsKeepStep
    BY TotalOfNone DEF WInit, Init, IncrementsKeepStep
  <1>2. WTypeOK /\ IncrementsKeepStep /\ [WNext]_wvars => IncrementsKeepStep'
    <2> SUFFICES ASSUME WTypeOK, IncrementsKeepStep, [WNext]_wvars
                 PROVE  IncrementsKeepStep'
      OBVIOUS
    <2>1. CASE BalanceStep
      BY <2>1, IncrementsStep, InputsAreFixed
         DEF IncrementsKeepStep, OnlyIncrements, RowOf, Kind
    <2>2. CASE ~BalanceStep
      BY <2>2 DEF WNext, AllDone, wvars, jvars, vars, IncrementsKeepStep, RowOf, Kind
    <2>3. QED
      BY <2>1, <2>2
  <1>3. QED
    BY <1>1, <1>2, WritersTypeCorrect, PTL DEF WSpec

-----------------------------------------------------------------------------
(***************************************************************************)
(* The repair script.  Its walk over a ledger whose chain is unbroken ends *)
(* at the sum of the ledger.                                               *)
(***************************************************************************)
LEMMA WalkIsTotal ==
  ASSUME NEW s \in Seq(WEntry), ChainIntact(s)
  PROVE  CalculatedBalance(s) = LedgerBalance(s)
  <1> DEFINE T == {u \in Seq(WEntry) :
                     ChainIntact(u) => CalculatedBalance(u) = LedgerBalance(u)}
  <1>1. <<>> \in T
    <2>1. <<>> \in Seq(WEntry) /\ Len(<<>>) = 0
      OBVIOUS
    <2>2. CalculatedBalance(<<>>) = 0
      BY <2>1 DEF CalculatedBalance, PreviousAfter
    <2>3. QED
      BY <2>1, <2>2, TotalOfNone
  <1>2. ASSUME NEW u \in T, NEW e \in WEntry
        PROVE  Append(u, e) \in T
    <2> DEFINE v == Append(u, e)
               n == Len(u)
    <2>1. /\ n \in Nat /\ v \in Seq(WEntry) /\ Len(v) = n + 1 /\ v[n + 1] = e
          /\ DOMAIN u = 1 .. n /\ DOMAIN v = 1 .. n + 1
          /\ \A i \in 1 .. n : v[i] = u[i]
          /\ u \in Seq(WEntry)
      OBVIOUS
    <2> HIDE DEF v, n
    <2>2. SUFFICES ASSUME ChainIntact(v) PROVE CalculatedBalance(v) = LedgerBalance(v)
      BY <2>1 DEF v
    <2>3. \A i \in 1 .. n + 1 : PreviousAfter(v, i) = PreviousAfter(u, i)
      BY <2>1 DEF PreviousAfter
    <2>4. ChainIntact(u)
      <3>1. ASSUME NEW i \in 1 .. n
            PROVE  /\ u[i].before = PreviousAfter(u, i)
                   /\ u[i].after = u[i].before + SignedAmount(u[i])
        <4>1. i \in 1 .. n + 1 /\ v[i] = u[i]
          BY <2>1
        <4>2. /\ v[i].before = PreviousAfter(v, i)
              /\ v[i].after = v[i].before + SignedAmount(v[i])
          BY <2>1, <2>2, <4>1 DEF ChainIntact
        <4>3. QED
          BY <2>3, <4>1, <4>2
      <3>2. QED
        BY <2>1, <3>1 DEF ChainIntact
    <2>5. e.before = PreviousAfter(u, n + 1) /\ e.after = e.before + SignedAmount(e)
      <3>1. n + 1 \in 1 .. n + 1
        BY <2>1
      <3>2. QED
        BY <2>1, <2>2, <2>3, <3>1 DEF ChainIntact
    <2>6. CalculatedBalance(v) = e.after
      BY <2>1 DEF CalculatedBalance, PreviousAfter
    <2>7. PreviousAfter(u, n + 1) = LedgerBalance(u)
      BY <2>4 DEF CalculatedBalance, n
    <2>8. /\ LedgerBalance(u) \in Int
          /\ LedgerBalance(v) = IF e.type \in CreditTypes THEN LedgerBalance(u) + e.amount
                                                          ELSE LedgerBalance(u) - e.amount
      BY <2>1, BalanceOfAppend DEF v
    <2>9. e.amount \in Int
      BY DEF WEntry
    <2>10. QED
      BY <2>5, <2>6, <2>7, <2>8, <2>9 DEF SignedAmount
  <1>3. T \in SUBSET Seq(WEntry)
    OBVIOUS
  <1> HIDE DEF T
  <1>4. s \in T
    BY <1>1, <1>2, <1>3, ListInduction
  <1>5. QED
    BY <1>4 DEF T

(* What an undisturbed fix is about to write is the sum of the ledger.     *)
QuietFixInv ==
  \A j \in Jobs \ stale :
    Kind(j) = "fix" /\ jpc[j] = "update"
      => jseen[j] = LedgerBalance(ledger[RowOf(j)])

LEMMA FixStage ==
  ASSUME WTypeOK, [WNext]_wvars, NEW j \in Jobs, Kind(j) = "fix"
  PROVE  /\ jpc'[j] = "update" /\ jpc[j] # "update" => FixCompare(j)
         /\ jpc'[j] = "update" /\ jpc[j] = "update" => jseen'[j] = jseen[j]
         /\ jpc[j] = "update" /\ jpc'[j] = "committed" => FixWrite(j)
  <1> USE DEF WTypeOK, StagesTypeOK, RowsTypeOK
  <1>1. CASE AnyJobStep(j)
    <2>1. CASE FixRead(j) \/ FixCompare(j) \/ FixCancel(j) \/ FixWrite(j)
                 \/ JobRespond(j) \/ JobAbort(j) \/ JobCrash(j)
      BY <2>1 DEF Goto, FixRead, FixCompare, FixCancel, FixWrite, JobRespond,
           JobAbort, JobCrash
    <2>2. QED
      BY <1>1, <2>1 DEF AnyJobStep, JobStep, TakeRow, RejectTask, ManualRead,
           ManualCommit, TransactCheckKey, TransactRead, TransactCommit,
           TransactConflict, ReplayStart, ReplayRead, ReplayWrite, ReplayEntry,
           ReplayResolve
  <1>2. CASE ~AnyJobStep(j)
    <2>1. ASSUME NEW i \in Jobs, AnyJobStep(i), i # j
          PROVE  jpc'[j] = jpc[j] /\ jseen'[j] = jseen[j]
      BY <2>1 DEF AnyJobStep, JobStep, Goto, TakeRow, RejectTask, ManualRead, ManualCommit,
           TransactCheckKey, TransactRead, TransactCommit, TransactConflict,
           ReplayStart, ReplayRead, ReplayWrite, ReplayEntry, ReplayResolve,
           FixRead, FixCompare, FixCancel, FixWrite, JobRespond, JobAbort, JobCrash
    <2>2. jpc'[j] = jpc[j] /\ jseen'[j] = jseen[j]
      BY <1>2, <2>1, StepCases DEF WNext, RequestStep, jvars, AllDone, wvars
    <2>3. QED
      BY <2>2
  <1>3. QED
    BY <1>1, <1>2

LEMMA QuietFixStep ==
  ASSUME WTypeOK, QuietFixInv, [WNext]_wvars
  PROVE  QuietFixInv'
  <1> SUFFICES ASSUME NEW j \in Jobs, j \notin stale', Kind(j) = "fix",
                      jpc'[j] = "update"
               PROVE  jseen'[j] = LedgerBalance(ledger'[RowOf(j)])
    BY InputsAreFixed DEF QuietFixInv, Kind, RowOf
  <1>1. j \notin stale
    BY DEF WNext, BalanceStep, AllDone, wvars
  <1>2. CASE jpc[j] = "update"
    <2>1. ledger'[RowOf(j)] = ledger[RowOf(j)]
      BY <1>2 DEF WNext, BalanceStep, GoneStale, AllDone, wvars, vars
    <2>2. jseen'[j] = jseen[j]
      BY <1>2, FixStage
    <2>3. QED
      BY <1>1, <1>2, <2>1, <2>2 DEF QuietFixInv
  <1>3. CASE jpc[j] # "update"
    <2>1. FixCompare(j)
      BY <1>3, FixStage
    <2>2. /\ ChainIntact(ledger[RowOf(j)])
          /\ jseen'[j] = CalculatedBalance(ledger[RowOf(j)])
          /\ ledger' = ledger
      BY <2>1 DEF WTypeOK, StagesTypeOK, RowsTypeOK, Goto, FixCompare, vars
    <2>3. ledger[RowOf(j)] \in Seq(WEntry)
      BY JobFields DEF WTypeOK, RowsTypeOK, JobsTypeOK
    <2>4. QED
      BY <2>2, <2>3, WalkIsTotal
  <1>4. QED
    BY <1>2, <1>3

(* What --fix writes is what the totals say, unless an entry was added     *)
(* while the operator made up his mind: for ledgers of any length.         *)
THEOREM QuietFixesAreExact == WSpec => QuietFixIsExact
  <1>1. WInit => QuietFixInv
    BY DEF WInit, QuietFixInv
  <1>2. /\ WTypeOK /\ QuietFixInv /\ [WNext]_wvars
        => [\A j \in Jobs \ stale :
              (Kind(j) = "fix" /\ jpc[j] = "update" /\ jpc'[j] = "committed")
                => balance'[RowOf(j)] = LedgerBalance(ledger[RowOf(j)])]_wvars
    <2> SUFFICES ASSUME WTypeOK, QuietFixInv, [WNext]_wvars,
                        NEW j \in Jobs \ stale, Kind(j) = "fix",
                        jpc[j] = "update", jpc'[j] = "committed"
                 PROVE  balance'[RowOf(j)] = LedgerBalance(ledger[RowOf(j)])
      OBVIOUS
    <2>1. FixWrite(j)
      BY FixStage
    <2>2. RowOf(j) \in Wallets
      BY JobFields DEF WTypeOK, JobsTypeOK
    <2>3. balance'[RowOf(j)] = jseen[j]
      BY <2>1, <2>2 DEF FixWrite, WTypeOK, RowsTypeOK
    <2>4. QED
      BY <2>3 DEF QuietFixInv
  <1>3. QED
    BY <1>1, <1>2, QuietFixStep, WritersTypeCorrect, PTL DEF WSpec, QuietFixIsExact

-----------------------------------------------------------------------------
(***************************************************************************)
(* The audit and the readers only read what the writers write.             *)
(***************************************************************************)
LEMMA ReadersArePassive ==
  ASSUME [LNext]_lvars
  PROVE  [WNext]_wvars
  BY DEF LNext, lvars, WNext, WriterStep, AuditStep, AuditStart, AuditQuery,
       AuditJudge, AuditFlag, AuditAlert, AuditFails, ClearFlag, ReaderStep,
       ReadBalance, ReadTotal, ReadAnswer

(* With the audit and the readers beside them, the writers behave as they  *)
(* do alone, and all that holds of them still does.                        *)
THEOREM AuditKeepsWriters == LSpec => WSpec
  <1>1. LInit => WInit
    BY DEF LInit
  <1>2. [LNext]_lvars => [WNext]_wvars
    BY ReadersArePassive
  <1>3. QED
    BY <1>1, <1>2, PTL DEF LSpec, WSpec

Readings == [{"balance", "last", "credits", "debits"} -> Int]

AuditTypeOK ==
  /\ auditing \subseteq Wallets
  /\ audited \in [Wallets -> Readings]
  /\ rpc \in [Readers -> {"new", "totals", "credits", "debits", "compare", "ok", "error"}]
  /\ rseen \in [Readers -> Readings]

(* No more entries share the latest millisecond than there are.            *)
TiedOK ==
  /\ tied \in [Wallets -> Int]
  /\ \A w \in Wallets : 0 <= tied[w] /\ tied[w] <= Len(ledger[w])

LEMMA TotalsType ==
  ASSUME NEW s \in Seq(WEntry)
  PROVE  getTotalCredits(s) \in Int /\ getTotalDebits(s) \in Int
  <1>1. \A f \in WEntry : f.amount \in Int
    BY DEF WEntry
  <1>2. SumOfTypes(s, CreditTypes) \in Int
    BY <1>1, TotalType
  <1>3. SumOfTypes(s, DebitTypes) \in Int
    BY <1>1, TotalType
  <1>4. QED
    BY <1>2, <1>3 DEF getTotalCredits, getTotalDebits

LEMMA AnswersType ==
  ASSUME RowsTypeOK, TiedOK, NEW w \in Wallets, NEW without \in Int,
         NEW query \in Queries, NEW answer \in PossibleAnswers(query, w, without)
  PROVE  answer \in Int
  <1>1. ledger[w] \in Seq(WEntry) /\ tied[w] \in Int /\ tied[w] <= Len(ledger[w])
    BY DEF RowsTypeOK, TiedOK
  <1>2. CASE query = "last"
    <2>1. answer \in LastBalances(w, without)
      BY <1>2 DEF PossibleAnswers
    <2>2. CASE Len(ledger[w]) = 0
      BY <2>1, <2>2 DEF LastBalances
    <2>3. CASE Len(ledger[w]) # 0
      <3>1. PICK k \in Len(ledger[w]) - tied[w] + 1 .. Len(ledger[w]) :
              answer = ledger[w][k].after
        BY <2>1, <2>3 DEF LastBalances
      <3>2. k \in 1 .. Len(ledger[w])
        BY <1>1
      <3>3. ledger[w][k] \in WEntry
        BY <1>1, <3>2
      <3>4. ledger[w][k].after \in Int
        BY <3>3 DEF WEntry
      <3>5. QED
        BY <3>1, <3>4
    <2>4. QED
      BY <2>2, <2>3
  <1>3. CASE query # "last"
    <2>1. answer = Total(query, w)
      BY <1>3 DEF PossibleAnswers
    <2>2. QED
      BY <1>1, <2>1, TotalsType DEF Total
  <1>4. QED
    BY <1>2, <1>3

LEMMA AuditTypeStep ==
  ASSUME RowsTypeOK, TiedOK, AuditTypeOK, [LNext]_lvars
  PROVE  AuditTypeOK'
  <1> USE DEF AuditTypeOK
  <1>0. NoReading \in Readings
    BY DEF NoReading, Readings
  <1>1. ASSUME NEW r \in Readings, NEW x \in Int,
               NEW f \in {"balance", "last", "credits", "debits"}
        PROVE  [r EXCEPT ![f] = x] \in Readings
    BY DEF Readings
  <1>2. CASE AuditStart
    <2>1. PICK batch \in SUBSET Wallets :
            /\ auditing' = batch
            /\ audited' = [w \in Wallets |->
                             IF w \in batch THEN [NoReading EXCEPT !.balance = balance[w]]
                             ELSE NoReading]
      BY <1>2 DEF AuditStart
    <2>2. \A w \in Wallets : [NoReading EXCEPT !.balance = balance[w]] \in Readings
      BY <1>0, <1>1 DEF RowsTypeOK
    <2>3. QED
      BY <1>0, <1>2, <2>1, <2>2 DEF AuditStart, readvars
  <1>3. ASSUME NEW w \in Wallets, NEW query \in Queries, AuditQuery(w, query)
        PROVE  AuditTypeOK'
    <2>1. audited[w] \in Readings /\ audited[w].balance \in Int
      BY DEF Readings
    <2>2. PICK answer \in PossibleAnswers(query, w, audited[w].balance) :
            audited' = [audited EXCEPT ![w][query] = answer]
      BY <1>3 DEF AuditQuery
    <2>3. answer \in Int
      BY <2>1, <2>2, AnswersType
    <2>4. [audited[w] EXCEPT ![query] = answer] \in Readings
      BY <1>1, <2>1, <2>3 DEF Queries
    <2>5. audited' = [audited EXCEPT ![w] = [audited[w] EXCEPT ![query] = answer]]
      BY <2>2
    <2>6. QED
      BY <1>3, <2>4, <2>5 DEF AuditQuery, readvars
  <1>4. ASSUME NEW r \in Readers, ReaderStep(r)
        PROVE  AuditTypeOK'
    <2>1. AskedFor[r] \in Wallets /\ rseen[r] \in Readings
      BY ReadersAssumption
    <2>2. CASE ReadBalance(r)
      <3>1. [rseen[r] EXCEPT !.balance = balance[AskedFor[r]]] \in Readings
        BY <1>1, <2>1 DEF RowsTypeOK
      <3>2. rseen' = [rseen EXCEPT ![r] = [rseen[r] EXCEPT !.balance = balance[AskedFor[r]]]]
        BY <2>2 DEF ReadBalance
      <3>3. QED
        BY <2>2, <3>1, <3>2 DEF ReadBalance, avars
    <2>3. ASSUME NEW query \in {"credits", "debits"}, ReadTotal(r, query)
          PROVE  AuditTypeOK'
      <3>1. Total(query, AskedFor[r]) \in Int
        BY <2>1, TotalsType DEF Total, RowsTypeOK
      <3>2. [rseen[r] EXCEPT ![query] = Total(query, AskedFor[r])] \in Readings
        BY <1>1, <2>1, <3>1
      <3>3. rseen' = [rseen EXCEPT ![r] =
                        [rseen[r] EXCEPT ![query] = Total(query, AskedFor[r])]]
        BY <2>3 DEF ReadTotal
      <3>4. rpc' \in [Readers -> {"new", "totals", "credits", "debits", "compare", "ok", "error"}]
        BY <2>3 DEF ReadTotal
      <3>5. QED
        BY <2>3, <3>2, <3>3, <3>4 DEF ReadTotal, avars
    <2>4. CASE ReadAnswer(r)
      BY <2>4 DEF ReadAnswer, avars
    <2>5. QED
      BY <1>4, <2>2, <2>3, <2>4 DEF ReaderStep
  <1>5. CASE AuditJudge \/ AuditFlag \/ AuditAlert \/ AuditFails
             \/ \E w \in Wallets : ClearFlag(w)
    BY <1>0, <1>5 DEF AuditJudge, AuditFlag, AuditAlert, AuditFails, ClearFlag, readvars
  <1>6. CASE WriterStep \/ UNCHANGED lvars
    BY <1>6 DEF WriterStep, lvars, avars, readvars
  <1>7. QED
    BY <1>2, <1>3, <1>4, <1>5, <1>6 DEF LNext, AuditStep

LEMMA TiedStep ==
  ASSUME WTypeOK, TiedOK, [LNext]_lvars
  PROVE  TiedOK'
  <1>1. CASE UNCHANGED <<ledger, tied>>
    BY <1>1 DEF TiedOK
  <1>2. CASE WriterStep
    <2>1. PICK tie \in BOOLEAN : tied' = [w \in Wallets |-> TiedWhen(w, tie)]
      BY <1>2 DEF WriterStep
    <2>2. ASSUME NEW w \in Wallets
          PROVE  /\ tied'[w] \in Int
                 /\ 0 <= tied'[w] /\ tied'[w] <= Len(ledger'[w])
      <3>1. tied[w] \in Int /\ 0 <= tied[w] /\ tied[w] <= Len(ledger[w])
            /\ ledger[w] \in Seq(WEntry) /\ tied'[w] = TiedWhen(w, tie)
        BY <2>1 DEF TiedOK, WTypeOK, RowsTypeOK
      <3>2. CASE ledger'[w] = ledger[w]
        BY <3>1, <3>2 DEF TiedWhen
      <3>3. CASE ledger'[w] # ledger[w]
        <4>1. \E e \in WEntry : ledger'[w] = Append(ledger[w], e)
          BY <3>3, ReadersArePassive, AppendsOnly
        <4>2. Len(ledger'[w]) = Len(ledger[w]) + 1 /\ Len(ledger[w]) \in Nat
          BY <3>1, <4>1
        <4>3. tied'[w] = IF tie THEN tied[w] + 1 ELSE 1
          BY <3>1, <3>3 DEF TiedWhen
        <4>4. QED
          BY <3>1, <4>2, <4>3
      <3>4. QED
        BY <3>2, <3>3
    <2>3. QED
      BY <2>1, <2>2 DEF TiedOK
  <1>3. CASE ~WriterStep
    <2>1. UNCHANGED <<ledger, tied>>
      BY <1>3 DEF LNext, lvars, wvars, vars, AuditStep, AuditStart, AuditQuery,
           AuditJudge, AuditFlag, AuditAlert, AuditFails, ClearFlag, ReaderStep,
           ReadBalance, ReadTotal, ReadAnswer
    <2>2. QED
      BY <1>1, <2>1
  <1>4. QED
    BY <1>2, <1>3

LEMMA AuditTypeCorrect == LSpec => [](WTypeOK /\ TiedOK /\ AuditTypeOK)
  <1>1. LInit => TiedOK /\ AuditTypeOK
    <2> SUFFICES ASSUME LInit PROVE TiedOK /\ AuditTypeOK
      OBVIOUS
    <2>1. \A w \in Wallets : Len(ledger[w]) = 0
      BY EmptyLedger DEF LInit, WInit
    <2>2. NoReading \in Readings
      BY DEF NoReading, Readings
    <2>3. QED
      BY <2>1, <2>2 DEF LInit, TiedOK, AuditTypeOK
  <1>2. WTypeOK /\ TiedOK /\ AuditTypeOK /\ [LNext]_lvars => TiedOK' /\ AuditTypeOK'
    BY TiedStep, AuditTypeStep DEF WTypeOK
  <1>3. QED
    BY <1>1, <1>2, AuditKeepsWriters, WritersTypeCorrect, PTL DEF LSpec

-----------------------------------------------------------------------------
(***************************************************************************)
(* What the audit and the readers hold of a wallet nobody has written.     *)
(***************************************************************************)
FreshReading(w) ==
  /\ audited[w].balance = balance[w]
  /\ <<w, "last">> \notin pending => audited[w].last \in LastBalances(w, balance[w])
  /\ <<w, "credits">> \notin pending => audited[w].credits = getTotalCredits(ledger[w])
  /\ <<w, "debits">> \notin pending => audited[w].debits = getTotalDebits(ledger[w])

AuditInv ==
  /\ auditStage = "flag" => pending = {}
  /\ auditStage \in {"read", "flag"} =>
       \A w \in auditing \ disturbed : FreshReading(w)

FreshRead(r) ==
  /\ rpc[r] \in {"totals", "credits", "debits", "compare"} =>
       rseen[r].balance = balance[AskedFor[r]]
  /\ rpc[r] \in {"credits", "compare"} =>
       rseen[r].credits = getTotalCredits(ledger[AskedFor[r]])
  /\ rpc[r] \in {"debits", "compare"} =>
       rseen[r].debits = getTotalDebits(ledger[AskedFor[r]])

ReadInv == \A r \in Readers \ disturbed : FreshRead(r)

(* A step that leaves a wallet undisturbed leaves its row alone.           *)
LEMMA QuietWallet ==
  ASSUME WTypeOK, TiedOK, WriterStep, NEW w \in Wallets, ~(w \in disturbed')
  PROVE  /\ balance'[w] = balance[w] /\ ledger'[w] = ledger[w] /\ tied'[w] = tied[w]
         /\ w \notin disturbed
  <1>1. w \notin Touched /\ w \notin disturbed
    BY DEF WriterStep
  <1>2. balance'[w] = balance[w] /\ ledger'[w] = ledger[w]
    BY <1>1 DEF Touched
  <1>3. PICK tie \in BOOLEAN : tied' = [v \in Wallets |-> TiedWhen(v, tie)]
    BY DEF WriterStep
  <1>4. QED
    BY <1>1, <1>2, <1>3 DEF TiedWhen

LEMMA QuietReader ==
  ASSUME WriterStep, NEW r \in Readers, ~(r \in disturbed')
  PROVE  /\ balance'[AskedFor[r]] = balance[AskedFor[r]]
         /\ ledger'[AskedFor[r]] = ledger[AskedFor[r]]
         /\ r \notin disturbed
  <1>1. r \notin ReadersOf(Touched) /\ r \notin disturbed
    BY DEF WriterStep
  <1>2. AskedFor[r] \in Wallets
    BY ReadersAssumption
  <1>3. QED
    BY <1>1, <1>2 DEF ReadersOf, Touched

LEMMA SameReading ==
  ASSUME NEW w \in Wallets, FreshReading(w),
         balance'[w] = balance[w], ledger'[w] = ledger[w], tied'[w] = tied[w],
         audited'[w] = audited[w], pending' = pending
  PROVE  FreshReading(w)'
  BY DEF FreshReading, LastBalances

LEMMA AuditInvStep ==
  ASSUME WTypeOK, TiedOK, AuditTypeOK, AuditInv, [LNext]_lvars
  PROVE  AuditInv'
  <1>1. CASE WriterStep
    <2>1. auditStage' = auditStage /\ auditing' = auditing /\ pending' = pending
          /\ audited' = audited
      BY <1>1 DEF WriterStep, avars
    <2>2. ASSUME auditStage \in {"read", "flag"}, NEW w \in auditing, ~(w \in disturbed')
          PROVE  FreshReading(w)'
      <3>1. w \in Wallets
        BY <2>2 DEF AuditTypeOK
      <3>2. FreshReading(w)
        BY <1>1, <2>2, <3>1, QuietWallet DEF AuditInv
      <3>3. QED
        BY <1>1, <2>1, <2>2, <3>1, <3>2, QuietWallet, SameReading
    <2>3. QED
      BY <2>1, <2>2 DEF AuditInv
  <1>2. CASE AuditStart
    <2>1. PICK batch \in SUBSET Wallets :
            /\ auditing' = batch
            /\ pending' = batch \X Queries
            /\ audited' = [w \in Wallets |->
                             IF w \in batch THEN [NoReading EXCEPT !.balance = balance[w]]
                             ELSE NoReading]
      BY <1>2 DEF AuditStart
    <2>2. ASSUME NEW w \in auditing'
          PROVE  FreshReading(w)'
      <3>1. w \in Wallets /\ audited'[w] = [NoReading EXCEPT !.balance = balance[w]]
        BY <2>1, <2>2
      <3>2. audited'[w].balance = balance[w]
        BY <3>1 DEF NoReading
      <3>3. \A q \in Queries : <<w, q>> \in pending'
        BY <2>1, <2>2
      <3>4. balance' = balance
        BY <1>2 DEF AuditStart, wvars, vars
      <3>5. QED
        BY <3>2, <3>3, <3>4 DEF FreshReading, Queries
    <2>3. auditStage' = "read"
      BY <1>2 DEF AuditStart
    <2>4. QED
      BY <2>2, <2>3 DEF AuditInv
  <1>3. ASSUME NEW v \in Wallets, NEW query \in Queries, AuditQuery(v, query)
        PROVE  AuditInv'
    <2>1. /\ auditStage = "read" /\ auditStage' = "read" /\ auditing' = auditing
          /\ disturbed' = disturbed /\ pending' = pending \ {<<v, query>>}
          /\ balance' = balance /\ ledger' = ledger /\ tied' = tied
      BY <1>3 DEF AuditQuery, wvars, vars
    <2>2. PICK answer \in PossibleAnswers(query, v, audited[v].balance) :
            audited' = [audited EXCEPT ![v][query] = answer]
      BY <1>3 DEF AuditQuery
    <2>3. audited[v] \in Readings
      BY DEF AuditTypeOK
    <2>4. audited' = [audited EXCEPT ![v] = [audited[v] EXCEPT ![query] = answer]]
      BY <2>2
    <2>5. ASSUME NEW w \in auditing, w \notin disturbed
          PROVE  FreshReading(w)'
      <3>1. FreshReading(w) /\ w \in Wallets
        BY <2>1, <2>5 DEF AuditInv, AuditTypeOK
      <3>2. CASE w # v
        <4>1. audited'[w] = audited[w]
          BY <2>4, <3>1, <3>2 DEF AuditTypeOK
        <4>2. \A q \in Queries : <<w, q>> \in pending' <=> <<w, q>> \in pending
          BY <2>1, <3>2
        <4>3. QED
          BY <2>1, <3>1, <4>1, <4>2 DEF FreshReading, LastBalances, Queries
      <3>3. CASE w = v
        <4>1. audited'[v] = [audited[v] EXCEPT ![query] = answer]
          BY <2>4 DEF AuditTypeOK
        <4>2. audited'[v][query] = answer
          BY <2>3, <4>1 DEF Readings, Queries
        <4>3. \A f \in {"balance", "last", "credits", "debits"} :
                f # query => audited'[v][f] = audited[v][f]
          BY <2>3, <4>1 DEF Readings
        <4>4. audited'[v].balance = balance[v] /\ audited[v].balance = balance[v]
          BY <3>1, <3>3, <4>3 DEF FreshReading, Queries
        <4>5. \A q \in Queries : q # query => (<<v, q>> \in pending' <=> <<v, q>> \in pending)
          BY <2>1
        <4>6. CASE query = "last"
          <5>1. answer \in LastBalances(v, balance[v])
            BY <2>2, <4>4, <4>6 DEF PossibleAnswers
          <5>2. QED
            BY <2>1, <3>1, <3>3, <4>2, <4>3, <4>4, <4>5, <4>6, <5>1
               DEF FreshReading, LastBalances, Queries
        <4>7. CASE query = "credits"
          <5>1. answer = getTotalCredits(ledger[v])
            BY <2>2, <4>7 DEF PossibleAnswers, Total
          <5>2. QED
            BY <2>1, <3>1, <3>3, <4>2, <4>3, <4>4, <4>5, <4>7, <5>1
               DEF FreshReading, LastBalances, Queries
        <4>8. CASE query = "debits"
          <5>1. answer = getTotalDebits(ledger[v])
            BY <2>2, <4>8 DEF PossibleAnswers, Total
          <5>2. QED
            BY <2>1, <3>1, <3>3, <4>2, <4>3, <4>4, <4>5, <4>8, <5>1
               DEF FreshReading, LastBalances, Queries
        <4>9. QED
          BY <4>6, <4>7, <4>8 DEF Queries
      <3>4. QED
        BY <3>2, <3>3
    <2>6. QED
      BY <2>1, <2>5 DEF AuditInv
  <1>4. CASE AuditAlert \/ AuditFails \/ AuditFlag
    <2>1. auditStage' \notin {"read", "flag"}
      BY <1>4 DEF AuditAlert, AuditFails, AuditFlag
    <2>2. QED
      BY <2>1 DEF AuditInv
  <1>5. CASE AuditJudge \/ (\E w \in Wallets : ClearFlag(w)) \/ UNCHANGED lvars
             \/ \E r \in Readers : ReaderStep(r)
    <2>1. /\ auditing' = auditing /\ pending' = pending /\ audited' = audited
          /\ balance' = balance /\ ledger' = ledger /\ tied' = tied
          /\ auditStage' = "flag" => pending = {} \/ auditStage = "flag"
          /\ auditStage' \in {"read", "flag"} => auditStage \in {"read", "flag"}
      BY <1>5 DEF AuditJudge, ClearFlag, lvars, avars, wvars, vars, ReaderStep,
           ReadBalance, ReadTotal, ReadAnswer
    <2>2. ASSUME NEW w \in Wallets, ~(w \in disturbed')
          PROVE  w \notin disturbed
      BY <1>5, <2>2, ReadersAssumption DEF AuditJudge, ClearFlag, lvars, ReaderStep,
           ReadBalance, ReadTotal, ReadAnswer
    <2>3. ASSUME auditStage' \in {"read", "flag"}, NEW w \in auditing, ~(w \in disturbed')
          PROVE  FreshReading(w)'
      <3>1. w \in Wallets /\ FreshReading(w)
        BY <2>1, <2>2, <2>3 DEF AuditInv, AuditTypeOK
      <3>2. QED
        BY <2>1, <3>1, SameReading
    <2>4. QED
      BY <2>1, <2>3 DEF AuditInv
  <1>6. QED
    BY <1>1, <1>2, <1>3, <1>4, <1>5 DEF LNext, AuditStep

LEMMA LatestIsOne ==
  ASSUME RowsTypeOK, TiedOK, NEW w \in Wallets, tied[w] <= 1,
         NEW without, NEW last \in LastBalances(w, without)
  PROVE  LastBalances(w, without) = {last}
  <1>1. CASE Len(ledger[w]) = 0
    BY <1>1 DEF LastBalances
  <1>2. CASE Len(ledger[w]) # 0
    <2>1. LastBalances(w, without)
            = {ledger[w][k].after : k \in Len(ledger[w]) - tied[w] + 1 .. Len(ledger[w])}
      BY <1>2 DEF LastBalances
    <2>2. ledger[w] \in Seq(WEntry) /\ tied[w] \in Int /\ 0 <= tied[w]
      BY DEF RowsTypeOK, TiedOK
    <2>3. Len(ledger[w]) \in Nat
      BY <2>2
    <2>4. \A k \in Len(ledger[w]) - tied[w] + 1 .. Len(ledger[w]) : k = Len(ledger[w])
      BY <2>2, <2>3
    <2>5. QED
      BY <2>1, <2>4
  <1>3. QED
    BY <1>1, <1>2

LEMMA FreshVerdict ==
  ASSUME WTypeOK, TiedOK, AuditTypeOK, NEW w \in auditing, FreshReading(w), pending = {}
  PROVE  /\ Mismatch(w) => w \in Inconsistent
         /\ tied[w] <= 1 =>
              (w \in Inconsistent
                 <=> Mismatch(w) \/ {balance[w]} # LastBalances(w, balance[w]))
  <1>1. w \in Wallets /\ balance[w] \in Int /\ ledger[w] \in Seq(WEntry)
    BY DEF AuditTypeOK, WTypeOK, RowsTypeOK
  <1>2. /\ audited[w].balance = balance[w]
        /\ audited[w].last \in LastBalances(w, balance[w])
        /\ audited[w].credits = getTotalCredits(ledger[w])
        /\ audited[w].debits = getTotalDebits(ledger[w])
    BY DEF FreshReading
  <1>3. getTotalCredits(ledger[w]) \in Int /\ getTotalDebits(ledger[w]) \in Int
    BY <1>1, TotalsType
  <1>4. Mismatch(w) <=> DeltaOf(audited[w]) # 0
    BY <1>1, <1>2, <1>3 DEF Mismatch, DeltaOf, LedgerBalance
  <1>5. w \in Inconsistent <=> Mismatch(w) \/ balance[w] # audited[w].last
    BY <1>2, <1>4 DEF Inconsistent, IsConsistent
  <1>6. ASSUME tied[w] <= 1
        PROVE  LastBalances(w, balance[w]) = {audited[w].last}
    BY <1>1, <1>2, <1>6, LatestIsOne DEF WTypeOK
  <1>7. QED
    BY <1>5, <1>6

(* The verdict of an audit can be believed of a wallet nobody has written  *)
(* since it was read, for any number of wallets and ledgers of any length. *)
THEOREM QuietVerdictsAreExact == LSpec => []QuietVerdictIsExact
  <1>1. LInit => AuditInv
    BY DEF LInit, AuditInv
  <1>2. WTypeOK /\ TiedOK /\ AuditTypeOK /\ AuditInv => QuietVerdictIsExact
    BY FreshVerdict DEF AuditInv, QuietVerdictIsExact
  <1>3. QED
    BY <1>1, <1>2, AuditInvStep, AuditTypeCorrect, PTL DEF LSpec

LEMMA SameRead ==
  ASSUME NEW r \in Readers, FreshRead(r),
         balance'[AskedFor[r]] = balance[AskedFor[r]],
         ledger'[AskedFor[r]] = ledger[AskedFor[r]],
         rpc'[r] = rpc[r], rseen'[r] = rseen[r]
  PROVE  FreshRead(r)'
  BY DEF FreshRead

LEMMA ReadInvStep ==
  ASSUME AuditTypeOK, ReadInv, [LNext]_lvars
  PROVE  ReadInv'
  <1> SUFFICES ASSUME NEW r \in Readers, ~(r \in disturbed') PROVE FreshRead(r)'
    BY DEF ReadInv
  <1>1. CASE WriterStep
    <2>1. rpc' = rpc /\ rseen' = rseen
      BY <1>1 DEF WriterStep, readvars
    <2>2. QED
      BY <1>1, <2>1, QuietReader, SameRead DEF ReadInv
  <1>2. CASE ReaderStep(r)
    <2>1. balance' = balance /\ ledger' = ledger /\ rseen[r] \in Readings
      BY <1>2 DEF ReaderStep, ReadBalance, ReadTotal, ReadAnswer, wvars, vars, AuditTypeOK
    <2>2. CASE ReadBalance(r)
      <3>1. rseen' = [rseen EXCEPT ![r] = [rseen[r] EXCEPT !.balance = balance[AskedFor[r]]]]
            /\ rpc'[r] = "totals"
        BY <2>2 DEF ReadBalance, AuditTypeOK
      <3>2. rseen'[r].balance = balance[AskedFor[r]]
        BY <2>1, <3>1 DEF AuditTypeOK, Readings
      <3>3. QED
        BY <2>1, <3>1, <3>2 DEF FreshRead
    <2>3. ASSUME NEW query \in {"credits", "debits"}, ReadTotal(r, query)
          PROVE  FreshRead(r)'
      <3>1. FreshRead(r)
        BY <2>3 DEF ReadTotal, ReadInv
      <3>2. rseen' = [rseen EXCEPT ![r] =
                        [rseen[r] EXCEPT ![query] = Total(query, AskedFor[r])]]
        BY <2>3 DEF ReadTotal
      <3>3. rseen'[r] = [rseen[r] EXCEPT ![query] = Total(query, AskedFor[r])]
        BY <3>2 DEF AuditTypeOK
      <3>4. rseen'[r][query] = Total(query, AskedFor[r])
        BY <2>1, <3>3 DEF Readings
      <3>5. \A f \in {"balance", "last", "credits", "debits"} :
              f # query => rseen'[r][f] = rseen[r][f]
        BY <2>1, <3>3 DEF Readings
      <3>6. CASE rpc[r] = "totals"
        <4>1. rpc'[r] = query
          BY <2>3, <3>6 DEF ReadTotal, AuditTypeOK
        <4>2. QED
          BY <2>1, <3>1, <3>4, <3>5, <3>6, <4>1 DEF FreshRead, Total
      <3>7. CASE rpc[r] # "totals"
        <4>1. rpc'[r] = "compare" /\ (\/ rpc[r] = "credits" /\ query = "debits"
                                      \/ rpc[r] = "debits" /\ query = "credits")
          BY <2>3, <3>7 DEF ReadTotal, AuditTypeOK
        <4>2. QED
          BY <2>1, <3>1, <3>4, <3>5, <4>1 DEF FreshRead, Total
      <3>8. QED
        BY <3>6, <3>7
    <2>4. CASE ReadAnswer(r)
      <3>1. rpc'[r] \in {"ok", "error"}
        BY <2>4 DEF ReadAnswer, AuditTypeOK
      <3>2. QED
        BY <3>1 DEF FreshRead
    <2>5. QED
      BY <1>2, <2>2, <2>3, <2>4 DEF ReaderStep
  <1>3. CASE ~WriterStep /\ ~ReaderStep(r)
    <2>1. balance' = balance /\ ledger' = ledger /\ rpc'[r] = rpc[r] /\ rseen'[r] = rseen[r]
          /\ r \notin disturbed
      <3>1. ASSUME NEW q \in Readers, q # r, ReaderStep(q)
            PROVE  balance' = balance /\ ledger' = ledger /\ rpc'[r] = rpc[r]
                   /\ rseen'[r] = rseen[r] /\ r \notin disturbed
        BY <3>1 DEF ReaderStep, ReadBalance, ReadTotal, ReadAnswer, wvars, vars, AuditTypeOK
      <3>2. CASE AuditStep \/ AuditFails \/ (\E w \in Wallets : ClearFlag(w)) \/ UNCHANGED lvars
        BY <3>2 DEF AuditStep, AuditStart, AuditQuery, AuditJudge, AuditFlag, AuditAlert,
             AuditFails, ClearFlag, lvars, wvars, vars, readvars
      <3>3. QED
        BY <1>3, <3>1, <3>2 DEF LNext
    <2>2. QED
      BY <2>1, SameRead DEF ReadInv
  <1>4. QED
    BY <1>1, <1>2, <1>3

(* The check a GET makes is exact unless its wallet is written between its *)
(* statements, whatever the order of the two totals.                       *)
THEOREM QuietReadsAreExact == LSpec => []QuietReadIsExact
  <1>1. LInit => ReadInv
    BY DEF LInit, ReadInv, FreshRead
  <1>2. WTypeOK /\ ReadInv => QuietReadIsExact
    <2> SUFFICES ASSUME WTypeOK, ReadInv, NEW r \in Readers, rpc[r] = "compare",
                        r \notin disturbed
                 PROVE  DeltaOf(rseen[r]) # 0 <=> Mismatch(AskedFor[r])
      BY DEF QuietReadIsExact
    <2>1. balance[AskedFor[r]] \in Int /\ ledger[AskedFor[r]] \in Seq(WEntry)
      BY ReadersAssumption DEF WTypeOK, RowsTypeOK
    <2>2. /\ rseen[r].balance = balance[AskedFor[r]]
          /\ rseen[r].credits = getTotalCredits(ledger[AskedFor[r]])
          /\ rseen[r].debits = getTotalDebits(ledger[AskedFor[r]])
      BY DEF ReadInv, FreshRead
    <2>3. QED
      BY <2>1, <2>2, TotalsType DEF DeltaOf, Mismatch, LedgerBalance
  <1>3. QED
    BY <1>1, <1>2, ReadInvStep, AuditTypeCorrect, PTL DEF LSpec
=============================================================================
