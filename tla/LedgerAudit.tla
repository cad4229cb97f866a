------------------------------ MODULE LedgerAudit ------------------------------
(***************************************************************************)
(* The readers of the ledger beside its writers: LedgerIntegrityMonitor's  *)
(* audit, which flags wallets and raises alerts, and the check that        *)
(* getWallet and getBalance make before they answer.  Both compare a       *)
(* balance with totals read by later statements, outside any transaction,  *)
(* while credits, debits and transactions commit in between.               *)
(*                                                                         *)
(* Entries carry the millisecond they were made in.  Those of one wallet   *)
(* are made in the order of the ledger, but two may share a millisecond,   *)
(* and then a query for the latest may return either.                      *)
(*                                                                         *)
(* One instance of the API audits; the readers are its GET requests.       *)
(***************************************************************************)
EXTENDS BalanceWriters, FiniteSets

CONSTANTS
  Readers,      (* GET requests for a balance                               *)
  AskedFor,     (* the wallet each reader asks for                          *)
  AuditLimit    (* LEDGER_INTEGRITY_BATCH_SIZE                              *)

ASSUME ReadersAssumption ==
  AskedFor \in [Readers -> Wallets] /\ Readers \cap Wallets = {}
ASSUME AuditAssumption   == AuditLimit \in Nat \ {0}

VARIABLES
  auditStage,   (* where the audit is                                       *)
  auditing,     (* the wallets of the current batch                         *)
  pending,      (* the queries of the batch that have not run yet           *)
  audited,      (* what the audit has read of each wallet                   *)
  flagged,      (* Wallet.flaggedForReview                                  *)
  alerted,      (* wallets with a balance_mismatch row in AlertLog          *)
  disturbed,    (* bookkeeping: wallets of the batch, and readers, whose    *)
                (* wallet was written since it was read                     *)
  rpc,          (* how far a reader is, or its answer                       *)
  rseen,        (* what a reader has read                                   *)
  tied          (* how many latest entries of a wallet share a createdAt    *)

avars    == <<auditStage, auditing, pending, audited, flagged, alerted>>
readvars == <<rpc, rseen>>
lvars    == <<wvars, avars, disturbed, readvars, tied>>

Queries   == {"last", "credits", "debits"}
NoReading == [balance |-> 0, last |-> 0, credits |-> 0, debits |-> 0]

-----------------------------------------------------------------------------
Total(query, w) ==
  IF query = "credits" THEN getTotalCredits(ledger[w]) ELSE getTotalDebits(ledger[w])

(* findFirst ordered by createdAt: balanceAfter of a latest entry; a       *)
(* wallet without entries passes the comparison with it.                   *)
LastBalances(w, without) ==
  LET n == Len(ledger[w])
  IN  IF n = 0 THEN {without} ELSE {ledger[w][k].after : k \in n - tied[w] + 1 .. n}

(* Slip: the oldest entry instead of the latest.                           *)
PossibleAnswersOldest(query, w, without) ==
  IF query # "last" THEN {Total(query, w)}
  ELSE {IF ledger[w] = <<>> THEN without ELSE ledger[w][1].after}

PossibleAnswers(query, w, without) ==
  IF query = "last" THEN LastBalances(w, without) ELSE {Total(query, w)}

(* buildLedgerIntegrity's delta ...                                        *)
DeltaOf(r) == r.balance - (r.credits - r.debits)

(* ... and isConsistent.                                                   *)
IsConsistent(r) == DeltaOf(r) = 0 /\ r.balance = r.last

Inconsistent == {w \in auditing : ~IsConsistent(audited[w])}

LInit ==
  /\ WInit
  /\ auditStage = "idle"
  /\ auditing = {}
  /\ pending = {}
  /\ audited = [w \in Wallets |-> NoReading]
  /\ flagged = [w \in Wallets |-> FALSE]
  /\ alerted = {}
  /\ disturbed = {}
  /\ rpc = [r \in Readers |-> "new"]
  /\ rseen = [r \in Readers |-> NoReading]
  /\ tied = [w \in Wallets |-> 0]

(* The timer goes off; findMany without an order returns some AuditLimit   *)
(* wallets, all of them if there are no more.                              *)
AuditStart ==
  /\ auditStage = "idle"
  /\ \E batch \in SUBSET Wallets :
       /\ Cardinality(batch) <= AuditLimit
       /\ batch = Wallets \/ Cardinality(batch) = AuditLimit
       /\ auditing' = batch
       /\ pending' = batch \X Queries
       /\ audited' = [w \in Wallets |->
                        IF w \in batch THEN [NoReading EXCEPT !.balance = balance[w]]
                        ELSE NoReading]
  /\ disturbed' = disturbed \cap Readers
  /\ auditStage' = "read"
  /\ UNCHANGED <<wvars, flagged, alerted, readvars, tied>>

(* The queries of all wallets run at once and answer in any order.         *)
AuditQuery(w, query) ==
  /\ auditStage = "read"
  /\ <<w, query>> \in pending
  /\ pending' = pending \ {<<w, query>>}
  /\ \E answer \in PossibleAnswers(query, w, audited[w].balance) :
       audited' = [audited EXCEPT ![w][query] = answer]
  /\ UNCHANGED <<wvars, auditStage, auditing, flagged, alerted, disturbed, readvars, tied>>

AuditJudge ==
  /\ auditStage = "read"
  /\ pending = {}
  /\ auditStage' = "flag"
  /\ UNCHANGED <<wvars, auditing, pending, audited, flagged, alerted, disturbed, readvars, tied>>

(* flagInconsistentWallets: one transaction for all of them, which waits   *)
(* for their rows.                                                         *)
AuditFlag ==
  /\ auditStage = "flag"
  /\ \A w \in Inconsistent : rowLock[w] = NoOne
  /\ flagged' = [w \in Wallets |-> flagged[w] \/ w \in Inconsistent]
  /\ auditStage' = "alert"
  /\ UNCHANGED <<wvars, auditing, pending, audited, alerted, disturbed, readvars, tied>>

(* alertBalanceMismatch keeps quiet below its threshold: a wallet that     *)
(* only disagrees with its last entry is flagged without an alert.         *)
AuditAlert ==
  /\ auditStage = "alert"
  /\ alerted' = alerted \cup {w \in Inconsistent : DeltaOf(audited[w]) # 0}
  /\ auditStage' = "idle"
  /\ auditing' = {}
  /\ audited' = [w \in Wallets |-> NoReading]
  /\ UNCHANGED <<wvars, pending, flagged, disturbed, readvars, tied>>

(* A statement fails or the process restarts: nothing more of this audit.  *)
AuditFails ==
  /\ auditStage # "idle"
  /\ auditStage' = "idle"
  /\ auditing' = {}
  /\ pending' = {}
  /\ audited' = [w \in Wallets |-> NoReading]
  /\ UNCHANGED <<wvars, flagged, alerted, disturbed, readvars, tied>>

(* clearWalletFlag, after somebody has looked into it.                     *)
ClearFlag(w) ==
  /\ flagged[w]
  /\ rowLock[w] = NoOne
  /\ flagged' = [flagged EXCEPT ![w] = FALSE]
  /\ UNCHANGED <<wvars, auditStage, auditing, pending, audited, alerted, disturbed, readvars, tied>>

(* getWallet, then the two totals of assertLedgerMatchesBalance.           *)
ReadBalance(r) ==
  /\ rpc[r] = "new"
  /\ rseen' = [rseen EXCEPT ![r].balance = balance[AskedFor[r]]]
  /\ rpc' = [rpc EXCEPT ![r] = "totals"]
  /\ disturbed' = disturbed \ {r}
  /\ UNCHANGED <<wvars, avars, tied>>

(* Slip: the comparison does not await the second total.                   *)
ReadTotalUnawaited(r, query) ==
  /\ rpc[r] = "totals"
  /\ rseen' = [rseen EXCEPT ![r][query] = Total(query, AskedFor[r])]
  /\ rpc' = [rpc EXCEPT ![r] = "compare"]
  /\ UNCHANGED <<wvars, avars, disturbed, tied>>

ReadTotal(r, query) ==
  /\ \/ rpc[r] = "totals"
     \/ rpc[r] = "credits" /\ query = "debits"
     \/ rpc[r] = "debits" /\ query = "credits"
  /\ rseen' = [rseen EXCEPT ![r][query] = Total(query, AskedFor[r])]
  /\ rpc' = [rpc EXCEPT ![r] = IF @ = "totals" THEN query ELSE "compare"]
  /\ UNCHANGED <<wvars, avars, disturbed, tied>>

ReadAnswer(r) ==
  /\ rpc[r] = "compare"
  /\ rpc' = [rpc EXCEPT ![r] = IF DeltaOf(rseen[r]) = 0 THEN "ok" ELSE "error"]
  /\ UNCHANGED <<wvars, avars, disturbed, rseen, tied>>

ReaderStep(r) ==
  \/ ReadBalance(r)
  \/ \E query \in {"credits", "debits"} : ReadTotal(r, query)
  \/ ReadAnswer(r)

AuditStep ==
  \/ AuditStart
  \/ \E w \in Wallets, query \in Queries : AuditQuery(w, query)
  \/ AuditJudge \/ AuditFlag \/ AuditAlert

(* The writers of BalanceWriters; a new entry may be made in the           *)
(* millisecond of the one before.                                          *)
Touched == {w \in Wallets : balance'[w] # balance[w] \/ ledger'[w] # ledger[w]}
ReadersOf(ws) == {r \in Readers : AskedFor[r] \in ws}

TiedWhen(w, tie) ==
  IF ledger'[w] = ledger[w] THEN tied[w] ELSE IF tie THEN tied[w] + 1 ELSE 1

WriterStep ==
  /\ BalanceStep
  /\ disturbed' = disturbed \cup Touched \cup ReadersOf(Touched)
  /\ \E tie \in BOOLEAN : tied' = [w \in Wallets |-> TiedWhen(w, tie)]
  /\ UNCHANGED <<avars, readvars>>

LNext ==
  \/ WriterStep
  \/ AuditStep \/ AuditFails
  \/ \E w \in Wallets : ClearFlag(w)
  \/ \E r \in Readers : ReaderStep(r)

LSpec == LInit /\ [][LNext]_lvars

-----------------------------------------------------------------------------
Mismatch(w) == balance[w] # LedgerBalance(ledger[w])

(* The verdict of an audit can be believed for a wallet nobody has written *)
(* since the audit read it, whatever the order of its queries: none whose  *)
(* balance differs from its ledger is missed, even if its latest entries   *)
(* were made in one millisecond, and only such a tie raises a false alarm  *)
(* or hides that the last entry differs.                                   *)
QuietVerdictIsExact ==
  auditStage = "flag" =>
    \A w \in auditing \ disturbed :
      /\ Mismatch(w) => w \in Inconsistent
      /\ tied[w] <= 1 =>
           (w \in Inconsistent
              <=> Mismatch(w) \/ {balance[w]} # LastBalances(w, balance[w]))

(* The check of a GET is exact, too, unless the wallet is written between  *)
(* its statements.                                                         *)
QuietReadIsExact ==
  \A r \in Readers : rpc[r] = "compare" /\ r \notin disturbed =>
    (DeltaOf(rseen[r]) # 0 <=> Mismatch(AskedFor[r]))
=============================================================================
