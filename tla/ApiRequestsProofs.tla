--------------------------- MODULE ApiRequestsProofs ---------------------------
(***************************************************************************)
(* Theorems about ApiRequests, for any requests, callers, limits and sets  *)
(* of called handlers: what AdminAccessLog says is true, what changes      *)
(* something is in it, and the rate limit lets through what it should and  *)
(* refuses nothing else.                                                   *)
(*                                                                         *)
(* Rows are written while the outcome is known, and the outcome does not   *)
(* change after the answer: what is needed is where every request is in    *)
(* its work (ProgressInv), and of the handlers that those of               *)
(* administrators which leave an outcome unlogged only read (AdminRows).   *)
(***************************************************************************)
EXTENDS ApiRequests, ListLemmas, FiniteSetTheorems, TLAPS

Phases ==
  {"new", "limited", "refused", "working", "failed", "answered", "died"}

Refusals == {[from |-> AddressOf[u], tier |-> h.tier] : u \in Users, h \in Handlers}

QTypes ==
  /\ phase \in [Requests -> Phases]
  /\ call \in [Requests -> Handlers \cup Refusals \cup {NoCall}]
  /\ done \in [Requests -> Nat]
  /\ accessLog \subseteq [request : Requests, status : {"success", "error"}]
  /\ unaware \subseteq Requests /\ unlogged \subseteq Requests

(* How far a request is in its work.                                       *)
Progress(r) ==
  /\ phase[r] \in {"new", "limited", "refused"} => done[r] = 0
  /\ phase[r] \in {"working", "failed", "answered", "died"} =>
       call[r] \in Handlers /\ done[r] <= Len(Work(r))
  /\ phase[r] = "failed" => done[r] < Len(Work(r)) \/ r \in unaware

ProgressInv == \A r \in Requests : Progress(r)

(* Rows are about requests that have their answer.                         *)
RowsInv == \A row \in accessLog : phase[row.request] = "answered"

QInv ==
  QTypes /\ ProgressInv /\ RowsInv /\ RowsTellTheTruth /\ ChangesAreAccounted

-----------------------------------------------------------------------------
(* Every handler has a sequence of statements, and one that checks its     *)
(* input inside the try has work left to do then.                          *)
LEMMA WorkShape ==
  ASSUME NEW h \in Handlers
  PROVE  Len(h.work) \in Nat /\ (h.check = "inside" => 0 < Len(h.work))
<1>1. CASE h \in AdminHandlers
  BY <1>1 DEF AdminHandlers, AdminHandler, Inspection, getAllWallets,
     getWalletDetails, getWalletsByUserId, getAllLedgerEntries,
     getLedgerByWallet, getLedgerByTransaction, getAllWebhookEvents,
     getWebhookEvent, getAuditLog, getLedgerIntegrity, getFlaggedWallets,
     getMissingWebhooks, getDeadLetterWebhooks, getDeadLetterQueue, getAlerts,
     getDLQStats, getAlertStats, manualCredit, clearWalletFlag,
     resolveMissingWebhook, resolveDLQItem, archiveDLQItem, acknowledgeAlert,
     resolveAlert, retryDeadLetterWebhook, replayMissingWebhook
<1>2. CASE h \in UserHandlers
  <2>1. \/ h.work = <<>> /\ h.check = "none"
        \/ h.work = <<"read">> /\ h.check = "none"
        \/ h.work = <<"read", "change">>
    BY <1>2 DEF UserHandlers, UserHandler, signup, getProfile, createWallet,
       getMyWallet, getWallet, getBalance, getLedger, creditWallet,
       debitWallet, createTransaction, getTransactionHistory,
       getWalletSummary, initiateOnRamp, getStatus, getWebhookLogs,
       handleWebhook, handleMoonPayWebhook
  <2> QED
    BY <2>1
<1> QED
  BY <1>1, <1>2 DEF Handlers

(* A handler of the administrators that has an outcome without a row only  *)
(* reads.                                                                  *)
LEMMA AdminRows ==
  ASSUME NEW h \in AdminHandlers
  PROVE  \/ h.rows = {"success", "error"}
         \/ h.work = <<"read">>
BY DEF AdminHandlers, AdminHandler, Inspection, getAllWallets,
   getWalletDetails, getWalletsByUserId, getAllLedgerEntries,
   getLedgerByWallet, getLedgerByTransaction, getAllWebhookEvents,
   getWebhookEvent, getAuditLog, getLedgerIntegrity, getFlaggedWallets,
   getMissingWebhooks, getDeadLetterWebhooks, getDeadLetterQueue, getAlerts,
   getDLQStats, getAlertStats, manualCredit, clearWalletFlag,
   resolveMissingWebhook, resolveDLQItem, archiveDLQItem, acknowledgeAlert,
   resolveAlert, retryDeadLetterWebhook, replayMissingWebhook

(* The initial states.                                                     *)
LEMMA QInitInv == QInit => QInv
<1> SUFFICES ASSUME QInit PROVE QInv
  OBVIOUS
<1> USE DEF QInit
<1>1. QTypes
  BY DEF QTypes, Phases
<1>2. ProgressInv
  BY DEF ProgressInv, Progress
<1>3. RowsInv /\ RowsTellTheTruth /\ ChangesAreAccounted
  BY DEF RowsInv, RowsTellTheTruth, ChangesAreAccounted
<1> QED
  BY <1>1, <1>2, <1>3 DEF QInv

-----------------------------------------------------------------------------
(* One lemma per kind of step.                                             *)

(* A request that arrives has no row and has done nothing.                 *)
LEMMA ReceiveKeeps ==
  ASSUME QInv, NEW r \in Requests, phase[r] = "new",
         NEW c \in Handlers \cup Refusals \cup {NoCall}, NEW next,
         Receive(r, c, next),
         \/ next \in {"limited", "refused"}
         \/ next = "working" /\ c \in Handlers
         \/ next = "failed" /\ c \in Handlers /\ c.check = "inside"
  PROVE  QInv'
<1>1. QTypes /\ ProgressInv
  BY DEF QInv
<1>2. /\ call' \in [Requests -> Handlers \cup Refusals \cup {NoCall}]
      /\ phase' \in [Requests -> Phases]
      /\ call'[r] = c /\ phase'[r] = next
      /\ \A q \in Requests : q # r => call'[q] = call[q] /\ phase'[q] = phase[q]
      /\ UNCHANGED <<done, accessLog, unaware, unlogged>>
  BY <1>1 DEF QTypes, Receive, Phases
<1>3. QTypes'
  BY <1>1, <1>2 DEF QTypes
<1>4. ProgressInv'
  <2> SUFFICES ASSUME NEW q \in Requests PROVE Progress(q)'
    BY DEF ProgressInv
  <2>1. Progress(q)
    BY <1>1 DEF ProgressInv
  <2>2. CASE q # r
    BY <1>2, <2>1, <2>2 DEF Progress, Work
  <2>3. CASE q = r
    <3>1. done[q] = 0
      BY <2>1, <2>3 DEF Progress
    <3>2. c \in Handlers => Len(c.work) \in Nat /\ (c.check = "inside" => 0 < Len(c.work))
      BY WorkShape
    <3> QED
      BY <1>2, <2>3, <3>1, <3>2 DEF Progress, Work
  <2> QED
    BY <2>2, <2>3
<1>5. \A row \in accessLog : row.request \in Requests /\ row.request # r
  BY <1>1 DEF QInv, QTypes, RowsInv
<1>6. RowsInv' /\ RowsTellTheTruth'
  BY <1>2, <1>5 DEF QInv, RowsInv, RowsTellTheTruth, RowsOf, Work
<1>7. ChangesAreAccounted'
  BY <1>2 DEF QInv, ChangesAreAccounted, Changed, Work, RowsOf
<1> QED
  BY <1>3, <1>4, <1>6, <1>7 DEF QInv

(* The four ways in.                                                       *)
LEMMA ArriveKeeps ==
  ASSUME QInv, NEW r \in Requests, phase[r] = "new", NEW u \in Users,
         NEW h \in Called, Arrive(r, u, h)
  PROVE  QInv'
<1>1. h \in Handlers
  BY CalledAssumption
<1>2. CASE Limited(r, u, h)
  <2>1. [from |-> AddressOf[u], tier |-> h.tier] \in Refusals
    BY <1>1 DEF Refusals
  <2> QED
    BY <1>2, <2>1, ReceiveKeeps DEF Limited
<1>3. CASE Forbidden(r, u, h)
  BY <1>3, ReceiveKeeps DEF Forbidden
<1>4. CASE Malformed(r, u, h)
  BY <1>1, <1>4, ReceiveKeeps DEF Malformed
<1>5. CASE Enter(r, u, h)
  BY <1>1, <1>5, ReceiveKeeps DEF Enter
<1> QED
  BY <1>2, <1>3, <1>4, <1>5 DEF Arrive

(* Work goes on or fails before there is an answer or a row.               *)
LEMMA StatementKeeps ==
  ASSUME QInv, NEW r \in Requests,
         Statement(r) \/ StatementFails(r) \/ AnswerLost(r)
  PROVE  QInv'
<1>1. QTypes /\ ProgressInv
  BY DEF QInv
<1>2. /\ phase[r] = "working" /\ done[r] < Len(Work(r)) /\ done[r] \in Nat
      /\ call[r] \in Handlers /\ Len(Work(r)) \in Nat
  BY <1>1, WorkShape DEF Statement, StatementFails, AnswerLost, ProgressInv,
     Progress, QTypes, Work
<1>3. /\ phase' \in [Requests -> Phases] /\ done' \in [Requests -> Nat]
      /\ \A q \in Requests : q # r => phase'[q] = phase[q] /\ done'[q] = done[q]
      /\ \/ phase'[r] = "working" /\ done'[r] = done[r] + 1
         \/ phase'[r] = "failed" /\ done'[r] = done[r]
         \/ phase'[r] = "failed" /\ done'[r] = done[r] + 1 /\ r \in unaware'
      /\ unaware \subseteq unaware' /\ unaware' \subseteq unaware \cup {r}
      /\ UNCHANGED <<call, accessLog, unlogged>>
  <2>1. CASE Statement(r)
    BY <1>1, <1>2, <2>1 DEF Statement, QTypes
  <2>2. CASE StatementFails(r)
    BY <1>1, <1>2, <2>2 DEF StatementFails, QTypes, Phases
  <2>3. CASE AnswerLost(r)
    BY <1>1, <1>2, <2>3 DEF AnswerLost, QTypes, Phases
  <2> QED
    BY <2>1, <2>2, <2>3
<1>4. QTypes'
  BY <1>1, <1>3 DEF QTypes
<1>5. ProgressInv'
  BY <1>1, <1>2, <1>3 DEF ProgressInv, Progress, Work
<1>6. \A row \in accessLog : row.request \in Requests /\ row.request # r
  BY <1>1, <1>2 DEF QInv, QTypes, RowsInv
<1>7. RowsInv' /\ RowsTellTheTruth'
  BY <1>3, <1>6 DEF QInv, RowsInv, RowsTellTheTruth, RowsOf, Work
<1>8. ChangesAreAccounted'
  BY <1>3 DEF QInv, ChangesAreAccounted, Changed, Work, RowsOf
<1> QED
  BY <1>4, <1>5, <1>7, <1>8 DEF QInv

(* The answer, with a row that says what has been done, with a row that    *)
(* was refused, or without one because there is nothing to account for.    *)
LEMMA AnswerKeeps ==
  ASSUME QInv, NEW r \in Requests,
         LogAccess(r) \/ LogAccessFails(r) \/ AnswerUnlogged(r)
  PROVE  QInv'
<1>1. QTypes /\ ProgressInv /\ RowsInv
  BY DEF QInv
<1> DEFINE row == [request |-> r, status |-> Outcome(r)]
<1>2. Outcome(r) \in {"error", "success"} /\ phase[r] \in {"working", "failed"}
  BY DEF LogAccess, LogAccessFails, AnswerUnlogged, RowIsDue, Outcome
<1>3. /\ call[r] \in Handlers /\ done[r] \in Nat /\ Len(Work(r)) \in Nat
      /\ done[r] <= Len(Work(r))
  BY <1>1, <1>2, WorkShape DEF ProgressInv, Progress, QTypes, Work
<1>4. /\ Outcome(r) = "success" => done[r] = Len(Work(r))
      /\ Outcome(r) = "error" => done[r] < Len(Work(r)) \/ r \in unaware
  BY <1>1, <1>2, <1>3 DEF Outcome, ProgressInv, Progress
<1>5. /\ phase' \in [Requests -> Phases] /\ phase'[r] = "answered"
      /\ \A q \in Requests : q # r => phase'[q] = phase[q]
      /\ UNCHANGED <<call, done, unaware>>
  BY <1>1 DEF LogAccess, LogAccessFails, AnswerUnlogged, Answered, QTypes, Phases
<1>6. /\ accessLog' \subseteq accessLog \cup {row}
      /\ accessLog \subseteq accessLog'
      /\ unlogged \subseteq unlogged' /\ unlogged' \subseteq unlogged \cup {r}
      /\ \/ row \in accessLog'
         \/ r \in unlogged'
         \/ Outcome(r) \notin call[r].rows
  BY <1>2 DEF LogAccess, LogAccessFails, AnswerUnlogged, RowIsDue, RowOf
<1>7. row \in [request : Requests, status : {"success", "error"}]
  BY <1>2
<1>8. /\ row.request = r
      /\ row.status = "success" => done[r] = Len(Work(r))
      /\ row.status = "error" => done[r] < Len(Work(r)) \/ r \in unaware
  BY <1>4
<1> HIDE DEF row
<1>9. QTypes'
  BY <1>1, <1>5, <1>6, <1>7 DEF QTypes
<1>10. ProgressInv'
  BY <1>1, <1>2, <1>5 DEF ProgressInv, Progress, Work
<1>11. RowsInv' /\ RowsTellTheTruth'
  <2>1. \A w \in accessLog : w.request \in Requests /\ w.request # r
    BY <1>1, <1>2 DEF QTypes, RowsInv
  <2> SUFFICES ASSUME NEW w \in accessLog'
               PROVE  /\ phase'[w.request] = "answered"
                      /\ w.status = "success" =>
                           done[w.request] = Len(Work(w.request))
                      /\ w.status = "error" =>
                           \/ done[w.request] < Len(Work(w.request))
                           \/ w.request \in unaware
                      /\ RowsOf(w.request)' = {w}
    BY <1>5 DEF RowsInv, RowsTellTheTruth, RowsOf, Work
  <2>2. CASE w = row
    <3>1. RowsOf(r)' = {row}
      BY <1>6, <1>8, <2>1, <2>2 DEF RowsOf
    <3> QED
      BY <1>5, <1>8, <2>2, <3>1
  <2>3. CASE w \in accessLog
    <3>1. RowsOf(w.request)' = RowsOf(w.request)
      BY <1>6, <1>8, <2>1, <2>3 DEF RowsOf
    <3> QED
      BY <1>1, <1>5, <2>1, <2>3, <3>1 DEF QInv, RowsInv, RowsTellTheTruth
  <2> QED
    BY <1>6, <2>2, <2>3
<1>12. ChangesAreAccounted'
  <2> SUFFICES ASSUME NEW q \in Requests, phase'[q] = "answered",
                      call[q] \in AdminHandlers, Changed(q)
               PROVE  RowsOf(q)' # {} \/ q \in unlogged'
    BY <1>5 DEF ChangesAreAccounted, Changed, Work
  <2>1. CASE q # r
    BY <1>5, <1>6, <2>1 DEF QInv, ChangesAreAccounted, RowsOf
  <2>2. CASE q = r
    <3>1. Outcome(r) \in call[r].rows
      <4>1. Work(r) # <<"read">>
        BY <1>3, <2>2 DEF Changed
      <4> QED
        BY <1>2, <2>2, <4>1, AdminRows DEF Work
    <3> QED
      BY <1>6, <1>8, <2>2, <3>1 DEF RowsOf
  <2> QED
    BY <2>1, <2>2
<1> QED
  BY <1>9, <1>10, <1>11, <1>12 DEF QInv

(* Who has an answer keeps it when the process dies.                       *)
LEMMA CrashKeeps ==
  ASSUME QInv, Crash
  PROVE  QInv'
<1>1. QTypes /\ ProgressInv
  BY DEF QInv
<1>2. /\ phase' \in [Requests -> Phases]
      /\ \A q \in Requests :
           \/ phase'[q] = phase[q]
           \/ phase[q] \in {"working", "failed"} /\ phase'[q] = "died"
      /\ UNCHANGED <<call, done, accessLog, unaware, unlogged>>
  BY <1>1 DEF Crash, QTypes, Phases
<1>3. QTypes'
  BY <1>1, <1>2 DEF QTypes
<1>4. ProgressInv'
  BY <1>1, <1>2 DEF ProgressInv, Progress, Work
<1>5. \A row \in accessLog : row.request \in Requests
  BY <1>1 DEF QTypes
<1>6. RowsInv' /\ RowsTellTheTruth'
  BY <1>2, <1>5 DEF QInv, RowsInv, RowsTellTheTruth, RowsOf, Work
<1>7. ChangesAreAccounted'
  BY <1>2 DEF QInv, ChangesAreAccounted, Changed, Work, RowsOf
<1> QED
  BY <1>3, <1>4, <1>6, <1>7 DEF QInv

(* The invariant is inductive.                                             *)
LEMMA QInductive == QInv /\ [QNext]_vars => QInv'
<1> SUFFICES ASSUME QInv, [QNext]_vars PROVE QInv'
  OBVIOUS
<1>1. CASE UNCHANGED <<qvars, crashes>>
  BY <1>1 DEF qvars, QInv, QTypes, ProgressInv, Progress, RowsInv,
     RowsTellTheTruth, ChangesAreAccounted, Changed, Work, RowsOf
<1>2. CASE QNext
  BY <1>1, <1>2, ArriveKeeps, StatementKeeps, AnswerKeeps, CrashKeeps
     DEF QNext, Environment
<1> QED
  BY <1>1, <1>2 DEF vars

-----------------------------------------------------------------------------
(* QInv is an invariant.                                                   *)
LEMMA QInvariant == QSpec => []QInv
<1>1. QInit => QInv
  BY QInitInv
<1>2. QInv /\ [QNext]_vars => QInv'
  BY QInductive
<1> QED
  BY <1>1, <1>2, PTL DEF QSpec

(* What AdminAccessLog says was done was done; what it says failed was not *)
(* done to the end or was not known to have been; and one request has one  *)
(* row at most: for every handler, whatever statement fails, its commit or *)
(* the answer to it lost, and whenever the process dies.                   *)
THEOREM LogIsTrue == QSpec => []RowsTellTheTruth
<1>1. QInv => RowsTellTheTruth
  BY DEF QInv
<1> QED
  BY <1>1, QInvariant, PTL

(* An administrator who has an answer has changed nothing without a row,   *)
(* unless the database refused the row.                                    *)
THEOREM NoChangeUnseen == QSpec => []ChangesAreAccounted
<1>1. QInv => ChangesAreAccounted
  BY DEF QInv
<1> QED
  BY <1>1, QInvariant, PTL

-----------------------------------------------------------------------------
(***************************************************************************)
(* The limit.  The store has dropped what the clean-up and earlier         *)
(* requests found too old, so it is not the list of what was accepted; but *)
(* in every window that ends now or later it counts the same (StoreInv).   *)
(***************************************************************************)
Accepted == [from : Addresses, tier : Tiers, at : Int]

StoreTypes ==
  /\ now \in Int
  /\ requests \in [Addresses -> Seq(Int)]
  /\ accepted \in Seq(Accepted)

StoreInv ==
  \A a \in Addresses, t \in Int :
    t >= now => Len(Recent(requests[a], t)) = Cardinality(InWindow(a, Len(accepted), t))

RateInv == StoreTypes /\ StoreInv /\ WindowRespected

LEMMA RecentType ==
  ASSUME NEW s \in Seq(Int), NEW t \in Int
  PROVE  Recent(s, t) \in Seq(Int) /\ Len(Recent(s, t)) \in Nat
<1>1. Recent(s, t) \in Seq(Int \cap LaterThan(t - Window))
  BY FilterType DEF Recent
<1> QED
  BY <1>1

(* What is older than a window is not missed in a later one.               *)
LEMMA RecentOfLater ==
  ASSUME NEW s \in Seq(Int), NEW t \in Int, NEW u \in Int, u <= t - Window
  PROVE  Recent(Filter(s, LaterThan(u)), t) = Recent(s, t)
<1>1. Window \in Int
  BY ConfigAssumption
<1>2. LaterThan(u) \cap LaterThan(t - Window) = LaterThan(t - Window)
  BY <1>1 DEF LaterThan
<1>3. Filter(Filter(s, LaterThan(u)), LaterThan(t - Window))
        = Filter(s, LaterThan(u) \cap LaterThan(t - Window))
  BY FilterTwice
<1> QED
  BY <1>2, <1>3 DEF Recent

LEMMA RecentAppends ==
  ASSUME NEW s \in Seq(Int), NEW e \in Int, NEW t \in Int
  PROVE  Len(Recent(Append(s, e), t))
           = Len(Recent(s, t)) + (IF e > t - Window THEN 1 ELSE 0)
<1>1. Recent(Append(s, e), t)
        = IF e \in LaterThan(t - Window) THEN Append(Recent(s, t), e) ELSE Recent(s, t)
  BY FilterAppends DEF Recent
<1>2. e \in LaterThan(t - Window) <=> e > t - Window
  BY DEF LaterThan
<1>3. Recent(s, t) \in Seq(Int)
  BY RecentType
<1>4. Len(Append(Recent(s, t), e)) = Len(Recent(s, t)) + 1
  BY <1>3
<1>5. Len(Recent(s, t)) + 0 = Len(Recent(s, t))
  BY <1>3
<1> QED
  BY <1>1, <1>2, <1>4, <1>5

LEMMA WindowFinite ==
  ASSUME NEW a, NEW n \in Nat, NEW t
  PROVE  IsFiniteSet(InWindow(a, n, t)) /\ Cardinality(InWindow(a, n, t)) \in Nat
<1>1. InWindow(a, n, t) \subseteq 1 .. n
  BY DEF InWindow
<1>2. IsFiniteSet(1 .. n)
  BY FS_Interval
<1> QED
  BY <1>1, <1>2, FS_Subset, FS_CardinalityType

(* One request more counts in the windows it is in.                        *)
LEMMA WindowGrows ==
  ASSUME StoreTypes, NEW row \in Accepted, accepted' = Append(accepted, row),
         NEW a, NEW t \in Int
  PROVE  Cardinality(InWindow(a, Len(accepted), t)')
           = Cardinality(InWindow(a, Len(accepted), t))
             + (IF row.from = a /\ row.at > t - Window THEN 1 ELSE 0)
<1>1. PICK n \in Nat :
        /\ Len(accepted) = n /\ Len(accepted') = n + 1 /\ accepted'[n + 1] = row
        /\ \A i \in 1 .. n : accepted'[i] = accepted[i]
  BY DEF StoreTypes
<1>2. IsFiniteSet(InWindow(a, n, t)) /\ Cardinality(InWindow(a, n, t)) \in Nat
  BY WindowFinite
<1>0. n + 1 \notin InWindow(a, n, t)
  BY DEF InWindow
<1>3. CASE row.from = a /\ row.at > t - Window
  <2>1. InWindow(a, n + 1, t)' = InWindow(a, n, t) \cup {n + 1}
    BY <1>1, <1>3 DEF InWindow
  <2>2. Cardinality(InWindow(a, n, t) \cup {n + 1}) = Cardinality(InWindow(a, n, t)) + 1
    BY <1>0, <1>2, FS_AddElement
  <2> QED
    BY <1>1, <1>3, <2>1, <2>2
<1>4. CASE ~(row.from = a /\ row.at > t - Window)
  <2>1. InWindow(a, n + 1, t)' = InWindow(a, n, t)
    BY <1>1, <1>4 DEF InWindow
  <2> QED
    BY <1>1, <1>2, <1>4, <2>1
<1> QED
  BY <1>3, <1>4

LEMMA AcceptKeepsRate ==
  ASSUME RateInv, NEW u \in Users, NEW tier \in Tiers, Accept(u, tier)
  PROVE  RateInv'
<1> DEFINE a == AddressOf[u]
           records == Recent(requests[a], now)
           row == [from |-> a, tier |-> tier, at |-> now]
<1>1. /\ now \in Int /\ requests \in [Addresses -> Seq(Int)]
      /\ accepted \in Seq(Accepted) /\ StoreTypes /\ StoreInv
      /\ Window \in Nat /\ MaxRequests[tier] \in Nat
      /\ a \in Addresses /\ row \in Accepted /\ now' = now
  BY ClientsAssumption, ConfigAssumption DEF RateInv, StoreTypes, Accept, Accepted
<1>2. records \in Seq(Int) /\ Len(records) \in Nat
  BY <1>1, RecentType
<1>3. /\ Len(records) < MaxRequests[tier]
      /\ requests' = [requests EXCEPT ![a] = Append(records, now)]
      /\ accepted' = Append(accepted, row)
  BY DEF Accept
<1>4. row.from = a /\ row.tier = tier /\ row.at = now
  OBVIOUS
<1>5. \A t \in Int : t >= now => Recent(records, t) = Recent(requests[a], t)
  <2> SUFFICES ASSUME NEW t \in Int, t >= now
               PROVE  Recent(records, t) = Recent(requests[a], t)
    OBVIOUS
  <2>1. requests[a] \in Seq(Int) /\ now - Window \in Int /\ now - Window <= t - Window
    BY <1>1
  <2> QED
    BY <2>1, RecentOfLater DEF Recent
<1> HIDE DEF a, records, row
<1>6. Append(records, now) \in Seq(Int)
  BY <1>1, <1>2
<1>7. StoreTypes'
  <2>1. requests' \in [Addresses -> Seq(Int)]
    BY <1>1, <1>3, <1>6
  <2>2. accepted' \in Seq(Accepted)
    BY <1>1, <1>3
  <2> QED
    BY <1>1, <2>1, <2>2 DEF StoreTypes
<1>8. ASSUME NEW b \in Addresses, NEW t \in Int, t >= now
      PROVE  Len(Recent(requests'[b], t)) = Cardinality(InWindow(b, Len(accepted), t)')
  <2>1. Cardinality(InWindow(b, Len(accepted), t)')
          = Cardinality(InWindow(b, Len(accepted), t))
            + (IF row.from = b /\ row.at > t - Window THEN 1 ELSE 0)
    BY <1>1, <1>3, WindowGrows
  <2>2. Len(Recent(requests[b], t)) = Cardinality(InWindow(b, Len(accepted), t))
    BY <1>1, <1>8 DEF StoreInv
  <2>3. Len(Recent(requests[b], t)) \in Nat
    BY <1>1, RecentType
  <2>4. CASE b = a
    <3>1. requests'[b] = Append(records, now)
      BY <1>1, <1>3, <2>4
    <3>2. Len(Recent(Append(records, now), t))
            = Len(Recent(records, t)) + (IF now > t - Window THEN 1 ELSE 0)
      BY <1>1, <1>2, RecentAppends
    <3>3. Recent(records, t) = Recent(requests[b], t)
      BY <1>5, <1>8, <2>4
    <3> QED
      BY <1>4, <2>1, <2>2, <2>4, <3>1, <3>2, <3>3
  <2>5. CASE b # a
    <3>1. requests'[b] = requests[b]
      BY <1>1, <1>3, <2>5
    <3>2. Cardinality(InWindow(b, Len(accepted), t)')
            = Cardinality(InWindow(b, Len(accepted), t)) + 0
      BY <1>4, <2>1, <2>5
    <3> QED
      BY <2>2, <2>3, <3>1, <3>2
  <2> QED
    BY <2>4, <2>5
<1>9. StoreInv'
  BY <1>1, <1>8 DEF StoreInv, Recent, InWindow
<1>10. WindowRespected'
  <2>1. PICK n \in Nat :
          /\ Len(accepted) = n /\ Len(accepted') = n + 1 /\ accepted'[n + 1] = row
          /\ \A i \in 1 .. n : accepted'[i] = accepted[i]
    BY <1>1, <1>3
  <2>2. DOMAIN accepted = 1 .. n /\ DOMAIN accepted' = 1 .. n + 1
    BY <1>1, <1>7, <2>1 DEF StoreTypes
  <2> DEFINE Within(i) ==
               Cardinality(InWindow(accepted[i].from, i, accepted[i].at))
                 <= MaxRequests[accepted[i].tier]
  <2>3. ASSUME NEW i \in 1 .. n
        PROVE  Within(i)'
    <3>1. InWindow(accepted[i].from, i, accepted[i].at)'
            = InWindow(accepted[i].from, i, accepted[i].at)
      BY <2>1 DEF InWindow
    <3>2. Within(i)
      BY <2>1, <2>2 DEF RateInv, WindowRespected
    <3> QED
      BY <2>1, <3>1, <3>2
  <2>4. Cardinality(InWindow(a, n + 1, now)') <= MaxRequests[tier]
    <3>1. Len(Recent(requests'[a], now)) = Cardinality(InWindow(a, n + 1, now)')
      BY <1>1, <1>8, <2>1
    <3>2. Len(Recent(Append(records, now), now))
            = Len(Recent(records, now)) + (IF now > now - Window THEN 1 ELSE 0)
      BY <1>1, <1>2, RecentAppends
    <3>3. Recent(records, now) = records
      BY <1>1, <1>5 DEF records
    <3>4. requests'[a] = Append(records, now)
      BY <1>1, <1>3
    <3> QED
      BY <1>1, <1>2, <1>3, <3>1, <3>2, <3>3, <3>4
  <2>5. Within(n + 1)'
    <3>1. InWindow(accepted[n + 1].from, n + 1, accepted[n + 1].at)'
            = InWindow(a, n + 1, now)'
      BY <1>1, <1>4, <2>1 DEF InWindow
    <3> QED
      BY <1>4, <2>1, <2>4, <3>1
  <2> HIDE DEF Within
  <2>6. \A i \in 1 .. n + 1 : Within(i)'
    BY <2>3, <2>5
  <2> QED
    BY <2>6, <2>2 DEF WindowRespected, Within
<1> QED
  BY <1>7, <1>9, <1>10 DEF RateInv

LEMMA StoreKeepsRate ==
  ASSUME RateInv, Cleanup \/ Advance \/ EmptyStore \/ UNCHANGED rlvars
  PROVE  RateInv'
<1>1. StoreTypes /\ StoreInv /\ WindowRespected /\ now \in Int
      /\ Window \in Nat /\ MaxAge \in Nat /\ Window <= MaxAge
      /\ \A a \in Addresses : requests[a] \in Seq(Int)
  BY ConfigAssumption DEF RateInv, StoreTypes
<1>2. CASE EmptyStore
  <2>1. accepted' = <<>> /\ now' = now /\ requests' = [a \in Addresses |-> <<>>]
    BY <1>2 DEF EmptyStore
  <2>2. Len(accepted') = 0 /\ DOMAIN accepted' = {} /\ <<>> \in Seq(Int) /\ Len(<<>>) = 0
    BY <2>1
  <2>3. StoreTypes'
    BY <1>1, <2>1, <2>2 DEF StoreTypes
  <2>4. ASSUME NEW a \in Addresses, NEW t \in Int
        PROVE  Len(Recent(requests[a], t)') = Cardinality(InWindow(a, Len(accepted), t)')
    <3>1. InWindow(a, Len(accepted), t)' = {}
      BY <2>2 DEF InWindow
    <3>2. Recent(requests[a], t)' = <<>>
      BY <2>1, FilterOfNone DEF Recent
    <3> QED
      BY <2>2, <3>1, <3>2, FS_EmptySet
  <2> QED
    BY <2>2, <2>3, <2>4 DEF RateInv, StoreInv, WindowRespected
<1>3. CASE Cleanup
  <2>1. /\ accepted' = accepted /\ now' = now
        /\ \A a \in Addresses : requests'[a] = Filter(requests[a], LaterThan(now - MaxAge))
        /\ requests' = [a \in Addresses |-> Filter(requests[a], LaterThan(now - MaxAge))]
    BY <1>3 DEF Cleanup
  <2>2. ASSUME NEW a \in Addresses
        PROVE  Filter(requests[a], LaterThan(now - MaxAge)) \in Seq(Int)
    <3>1. Filter(requests[a], LaterThan(now - MaxAge)) \in Seq(Int \cap LaterThan(now - MaxAge))
      BY <1>1, FilterType
    <3> QED
      BY <3>1
  <2>3. StoreTypes'
    <3> DEFINE Left(a) == Filter(requests[a], LaterThan(now - MaxAge))
    <3>1. requests' = [a \in Addresses |-> Left(a)]
      BY <1>3, Zenon DEF Cleanup
    <3>2. \A a \in Addresses : Left(a) \in Seq(Int)
      BY <2>2
    <3> HIDE DEF Left
    <3>3. requests' \in [Addresses -> Seq(Int)]
      BY <3>1, <3>2
    <3> QED
      BY <1>1, <2>1, <3>3 DEF StoreTypes
  <2>4. ASSUME NEW a \in Addresses, NEW t \in Int, t >= now
        PROVE  Recent(requests'[a], t) = Recent(requests[a], t)
    <3>1. now - MaxAge \in Int /\ now - MaxAge <= t - Window
      BY <1>1, <2>4
    <3> QED
      BY <1>1, <2>1, <3>1, RecentOfLater
  <2>5. StoreInv'
    BY <1>1, <2>1, <2>4 DEF StoreInv, Recent, InWindow
  <2>6. WindowRespected'
    BY <1>1, <2>1 DEF WindowRespected, InWindow
  <2> QED
    BY <2>3, <2>5, <2>6 DEF RateInv
<1>4. CASE Advance \/ UNCHANGED rlvars
  <2>1. accepted' = accepted /\ requests' = requests /\ (now' = now \/ now' = now + 1)
    BY <1>4 DEF Advance, rlvars
  <2>2. now' \in Int /\ \A t \in Int : t >= now' => t >= now
    BY <1>1, <2>1
  <2>3. StoreTypes'
    BY <1>1, <2>1, <2>2 DEF StoreTypes
  <2>4. StoreInv'
    <3>1. \A a, t : /\ Recent(requests[a], t)' = Recent(requests[a], t)
                   /\ InWindow(a, Len(accepted), t)' = InWindow(a, Len(accepted), t)
      BY <2>1 DEF Recent, InWindow
    <3> QED
      BY <1>1, <2>2, <3>1 DEF StoreInv
  <2>5. WindowRespected'
    BY <1>1, <2>1 DEF WindowRespected, InWindow
  <2> QED
    BY <2>3, <2>4, <2>5 DEF RateInv
<1> QED
  BY <1>2, <1>3, <1>4

(* The tier of a called handler is configured, if it has one.              *)
LEMMA RateInvStep ==
  ASSUME RateInv, [QNext]_vars
  PROVE  RateInv'
<1>1. \/ Cleanup \/ Advance \/ EmptyStore \/ UNCHANGED rlvars
      \/ \E u \in Users, h \in Called : h.tier # NoTier /\ Accept(u, h.tier)
  BY DEF QNext, vars, Environment, Crash, Arrive, Limited, Deny, Forbidden,
     Malformed, Enter, WithinLimit, Statement, StatementFails, AnswerLost,
     LogAccess, LogAccessFails, AnswerUnlogged
<1>2. \A h \in Called : h.tier # NoTier => h.tier \in Tiers
  BY CalledAssumption
<1> QED
  BY <1>1, <1>2, AcceptKeepsRate, StoreKeepsRate

LEMMA RateInvariant == QSpec => []RateInv
<1>1. QInit => RateInv
  <2> SUFFICES ASSUME QInit PROVE RateInv
    OBVIOUS
  <2>1. accepted = <<>> /\ now = Window /\ requests = [a \in Addresses |-> <<>>]
    BY DEF QInit, RLInit
  <2>2. Len(accepted) = 0 /\ DOMAIN accepted = {} /\ <<>> \in Seq(Int) /\ Len(<<>>) = 0
        /\ accepted \in Seq(Accepted)
    BY <2>1
  <2>3. StoreTypes
    BY <2>1, <2>2, ConfigAssumption DEF StoreTypes
  <2>4. ASSUME NEW a \in Addresses, NEW t \in Int
        PROVE  Len(Recent(requests[a], t)) = Cardinality(InWindow(a, Len(accepted), t))
    <3>1. InWindow(a, Len(accepted), t) = {}
      BY <2>2 DEF InWindow
    <3>2. Recent(requests[a], t) = <<>>
      BY <2>1, FilterOfNone DEF Recent
    <3> QED
      BY <2>2, <3>1, <3>2, FS_EmptySet
  <2> QED
    BY <2>2, <2>3, <2>4 DEF RateInv, StoreInv, WindowRespected
<1> QED
  BY <1>1, RateInvStep, PTL DEF QSpec

(* The limit is kept in every window, not only in those that begin when    *)
(* the store was last emptied: for any tiers, limits, addresses, and as    *)
(* many requests as come.                                                  *)
THEOREM LimitIsKept == QSpec => []WindowRespected
<1>1. RateInv => WindowRespected
  BY DEF RateInv
<1> QED
  BY <1>1, RateInvariant, PTL

(* Who is refused has used up his limit with requests of the window that   *)
(* were let through.                                                       *)
THEOREM NoneDeniedInError == QSpec => DenialsAreExact
<1>1. /\ QInv /\ RateInv /\ [QNext]_vars
      => [\A r \in Requests :
            (phase[r] # "limited" /\ phase'[r] = "limited") =>
              Cardinality(InWindow(call'[r].from, Len(accepted), now))
                >= MaxRequests[call'[r].tier]]_vars
  <2> SUFFICES ASSUME QInv, RateInv, [QNext]_vars, NEW r \in Requests,
                      phase[r] # "limited", phase'[r] = "limited"
               PROVE  Cardinality(InWindow(call'[r].from, Len(accepted), now))
                        >= MaxRequests[call'[r].tier]
    OBVIOUS
  <2>1. QTypes
    BY DEF QInv
  <2>2. ASSUME NEW q \in Requests, NEW u \in Users, NEW h \in Called, Arrive(q, u, h),
               ~Limited(q, u, h)
        PROVE  FALSE
    <3>1. \E c, next : next \in {"refused", "failed", "working"} /\ Receive(q, c, next)
      BY <2>2 DEF Arrive, Forbidden, Malformed, Enter
    <3> QED
      BY <2>1, <3>1 DEF Receive, QTypes
  <2>3. ASSUME NEW q \in Requests, NEW u \in Users, NEW h \in Called, Limited(q, u, h)
        PROVE  q = r
    BY <2>1, <2>3 DEF Limited, Receive, QTypes
  <2>4. ASSUME NEW q \in Requests, Statement(q) \/ StatementFails(q) \/ AnswerLost(q)
                                     \/ LogAccess(q)
                                     \/ LogAccessFails(q) \/ AnswerUnlogged(q)
        PROVE  FALSE
    BY <2>1, <2>4 DEF Statement, StatementFails, AnswerLost, LogAccess, LogAccessFails,
         AnswerUnlogged, Answered, QTypes
  <2>5. ASSUME Crash \/ Environment \/ UNCHANGED vars
        PROVE  FALSE
    BY <2>1, <2>5 DEF Crash, Environment, vars, qvars, QTypes
  <2>6. PICK u \in Users, h \in Called : Limited(r, u, h)
    BY <2>2, <2>3, <2>4, <2>5 DEF QNext
  <2>7. h \in Called /\ AddressOf[u] \in Addresses /\ now \in Int /\ Deny(u, h.tier)
        /\ call'[r] = [from |-> AddressOf[u], tier |-> h.tier]
    BY <2>1, <2>6, ClientsAssumption DEF Limited, Receive, QTypes, RateInv, StoreTypes
  <2>8. Len(Recent(requests[AddressOf[u]], now)) >= MaxRequests[h.tier]
    BY <2>7 DEF Deny
  <2>9. Len(Recent(requests[AddressOf[u]], now))
          = Cardinality(InWindow(AddressOf[u], Len(accepted), now))
    BY <2>7 DEF RateInv, StoreInv
  <2> QED
    BY <2>7, <2>8, <2>9
<1> QED
  BY <1>1, QInvariant, RateInvariant, PTL DEF QSpec, DenialsAreExact
=============================================================================
