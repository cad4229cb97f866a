----------------------------- MODULE ApiRequests -----------------------------
(***************************************************************************)
(* The life of a request in one API process: the guards in the order they  *)
(* run, the checks of the input, the statements of the service, the row in *)
(* AdminAccessLog and the answer, for every handler of the API.  The       *)
(* process may die in between.                                             *)
(*                                                                         *)
(* Nest runs the global guard first, then the guards of the controller,    *)
(* then those of the handler.  AdminController names JwtAuthGuard before   *)
(* RolesGuard; the other controllers have RolesGuard on the class and      *)
(* JwtAuthGuard on the handler, so their roles are asked for before anyone *)
(* is authenticated, and a handler of theirs with @Roles refuses everybody.*)
(*                                                                         *)
(* A handler is what the properties tell apart: its guards, when it checks *)
(* its input, the statements of its service, one of them for a run of      *)
(* reads, and the outcomes it writes a row for.  What a statement reads    *)
(* and changes is in the modules of the services.                          *)
(***************************************************************************)
EXTENDS RateLimiter

CONSTANTS
  Requests,     (* requests, each sent once                                 *)
  Anonymous,    (* users who send no token, or one that does not verify     *)
  RoleOf,       (* the role in the token of the others                      *)
  AllowedIPs,   (* WEBHOOK_ALLOWED_IPS                                      *)
  Called,       (* the handlers the requests are for                        *)
  MaxCrashes    (* bound: the process dies so often                         *)

ASSUME CallersAssumption ==
  /\ Anonymous \subseteq Users
  /\ RoleOf \in [Users -> {"USER", "ADMIN"}]
  /\ AllowedIPs \subseteq Addresses
  /\ MaxCrashes \in Nat

VARIABLES
  phase,        (* where a request is                                       *)
  call,         (* the handler that works on it; if it was one too many,    *)
                (* its address and tier                                     *)
  done,         (* how many statements of its service have committed        *)
  accessLog,    (* AdminAccessLog rows                                      *)
  unaware,      (* bookkeeping: requests told of the failure of a statement *)
                (* that had committed                                       *)
  unlogged,     (* bookkeeping: requests whose row the database refused     *)
  crashes       (* bookkeeping: how often the process died                  *)

qvars == <<phase, call, done, accessLog, unaware, unlogged>>
vars  == <<rlvars, qvars, crashes>>

-----------------------------------------------------------------------------
(* No decorator, or RateLimit(null): the guard lets the request through.   *)
NoTier == "none"

AdminHandler(tier, check, work) ==
  [tier |-> tier, guards |-> <<"jwt", "roles">>, roles |-> {"ADMIN"},
   check |-> check, work |-> work, rows |-> {"success", "error"}]

Inspection == AdminHandler(NoTier, "none", <<"read">>)

getAllWallets          == Inspection
getWalletDetails       == Inspection
getWalletsByUserId     == Inspection
getAllLedgerEntries    == Inspection
getLedgerByWallet      == Inspection
getLedgerByTransaction == Inspection
getAllWebhookEvents    == Inspection
getWebhookEvent        == Inspection
getAuditLog            == Inspection
getLedgerIntegrity     == Inspection
getFlaggedWallets      == Inspection
getMissingWebhooks     == Inspection
getDeadLetterWebhooks  == Inspection
getDeadLetterQueue     == Inspection
getAlerts              == Inspection

(* The two summaries leave no row when they fail.                          *)
getDLQStats   == [Inspection EXCEPT !.rows = {"success"}]
getAlertStats == [Inspection EXCEPT !.rows = {"success"}]

(* AdminCreditDto is validated inside the try, the resolutions before it.  *)
manualCredit          == AdminHandler("ADMIN_EMERGENCY", "inside", <<"change">>)
clearWalletFlag       == AdminHandler(NoTier, "none", <<"change">>)
resolveMissingWebhook == AdminHandler(NoTier, "before", <<"change">>)
resolveDLQItem        == AdminHandler(NoTier, "before", <<"read", "change">>)
archiveDLQItem        == AdminHandler(NoTier, "none", <<"change">>)
acknowledgeAlert      == AdminHandler(NoTier, "none", <<"change">>)
resolveAlert          == AdminHandler(NoTier, "none", <<"change">>)

retryDeadLetterWebhook ==
  AdminHandler("ADMIN_EMERGENCY", "none", <<"read", "change">>)

(* Slip: no row for a replay that failed.                                  *)
replayUnlogged ==
  [AdminHandler("ADMIN_EMERGENCY", "none",
                <<"read", "change", "change", "change">>)
     EXCEPT !.rows = {"success"}]

(* Balance, ledger entry and alert, committed one by one; the on-ramp of   *)
(* an alert is completed already.                                          *)
replayMissingWebhook ==
  AdminHandler("ADMIN_EMERGENCY", "none",
               <<"read", "change", "change", "change">>)

(* Handlers of the other controllers: no row in AdminAccessLog.            *)
UserHandler(tier, guards, roles, check, work) ==
  [tier |-> tier, guards |-> guards, roles |-> roles,
   check |-> check, work |-> work, rows |-> {}]

LateJwt == <<"roles", "jwt">>

signup     == UserHandler("AUTH", <<>>, {}, "none", <<"read", "change">>)
getProfile == UserHandler(NoTier, <<"jwt">>, {}, "none", <<>>)

createWallet ==
  UserHandler("WALLET_WRITE", LateJwt, {}, "inside", <<"read", "change">>)
getMyWallet == UserHandler("WALLET_READ", LateJwt, {}, "none", <<"read">>)
getWallet   == UserHandler("WALLET_READ", LateJwt, {}, "none", <<"read">>)
getBalance  == UserHandler("WALLET_READ", LateJwt, {}, "none", <<"read">>)
getLedger   == UserHandler("WALLET_READ", LateJwt, {"ADMIN"}, "none", <<"read">>)
creditWallet ==
  UserHandler("WALLET_WRITE", LateJwt, {"ADMIN"}, "inside", <<"read", "change">>)
debitWallet ==
  UserHandler("WALLET_WRITE", LateJwt, {"USER"}, "inside", <<"read", "change">>)

createTransaction ==
  UserHandler("TRANSACTION", LateJwt, {}, "inside", <<"read", "change">>)
getTransactionHistory ==
  UserHandler("TRANSACTION", LateJwt, {}, "none", <<"read">>)
getWalletSummary ==
  UserHandler("TRANSACTION", LateJwt, {}, "none", <<"read">>)

initiateOnRamp ==
  UserHandler("ONRAMP", LateJwt, {}, "inside", <<"read", "change">>)
getStatus      == UserHandler("ONRAMP", LateJwt, {}, "none", <<"read">>)
getWebhookLogs == UserHandler("ONRAMP", LateJwt, {"ADMIN"}, "none", <<"read">>)

(* The secret of the provider is verified in the handler.                  *)
handleWebhook ==
  UserHandler(NoTier, <<"roles", "ip">>, {}, "before", <<"read", "change">>)
handleMoonPayWebhook == handleWebhook

AdminHandlers ==
  {getAllWallets, getWalletDetails, getWalletsByUserId, getAllLedgerEntries,
   getLedgerByWallet, getLedgerByTransaction, getAllWebhookEvents,
   getWebhookEvent, getAuditLog, getLedgerIntegrity, getFlaggedWallets,
   getMissingWebhooks, getDeadLetterWebhooks, getDeadLetterQueue, getAlerts,
   getDLQStats, getAlertStats, manualCredit, clearWalletFlag,
   resolveMissingWebhook, resolveDLQItem, archiveDLQItem, acknowledgeAlert,
   resolveAlert, retryDeadLetterWebhook, replayMissingWebhook}

UserHandlers ==
  {signup, getProfile, createWallet, getMyWallet, getWallet, getBalance,
   getLedger, creditWallet, debitWallet, createTransaction,
   getTransactionHistory, getWalletSummary, initiateOnRamp, getStatus,
   getWebhookLogs, handleWebhook, handleMoonPayWebhook}

Handlers == AdminHandlers \cup UserHandlers

ASSUME CalledAssumption ==
  Called \subseteq Handlers /\ \A h \in Called : h.tier \in Tiers \cup {NoTier}

-----------------------------------------------------------------------------
NoCall == [tier |-> NoTier]

(* RolesGuard reads request.user, which only JwtAuthGuard sets.            *)
RoleKnown(h, k) == \E i \in 1 .. k - 1 : h.guards[i] = "jwt"

Lets(u, h, k) ==
  CASE h.guards[k] = "jwt"   -> u \notin Anonymous
    [] h.guards[k] = "roles" -> \/ h.roles = {}
                                \/ RoleKnown(h, k) /\ RoleOf[u] \in h.roles
    [] h.guards[k] = "ip"    -> AllowedIPs = {} \/ AddressOf[u] \in AllowedIPs

Admitted(u, h) == \A k \in DOMAIN h.guards : Lets(u, h, k)

(* RateLimitGuard, before all others.                                      *)
WithinLimit(u, h) ==
  IF h.tier = NoTier THEN UNCHANGED rlvars ELSE Accept(u, h.tier)

QInit ==
  /\ RLInit
  /\ phase = [r \in Requests |-> "new"]
  /\ call = [r \in Requests |-> NoCall]
  /\ done = [r \in Requests |-> 0]
  /\ accessLog = {}
  /\ unaware = {}
  /\ unlogged = {}
  /\ crashes = 0

Receive(r, c, next) ==
  /\ call' = [call EXCEPT ![r] = c]
  /\ phase' = [phase EXCEPT ![r] = next]
  /\ UNCHANGED <<done, accessLog, unaware, unlogged, crashes>>

(* 429.                                                                    *)
Limited(r, u, h) ==
  /\ h.tier # NoTier
  /\ Deny(u, h.tier)
  /\ Receive(r, [from |-> AddressOf[u], tier |-> h.tier], "limited")

(* 401 or 403: no row is written.                                          *)
Forbidden(r, u, h) ==
  /\ WithinLimit(u, h)
  /\ ~Admitted(u, h)
  /\ Receive(r, NoCall, "refused")

(* 400: no row either, when the check comes before the try.                *)
Malformed(r, u, h) ==
  /\ WithinLimit(u, h)
  /\ Admitted(u, h)
  /\ \/ h.check = "before" /\ Receive(r, NoCall, "refused")
     \/ h.check = "inside" /\ Receive(r, h, "failed")

Enter(r, u, h) ==
  /\ WithinLimit(u, h)
  /\ Admitted(u, h)
  /\ Receive(r, h, "working")

Arrive(r, u, h) ==
  Limited(r, u, h) \/ Forbidden(r, u, h) \/ Malformed(r, u, h) \/ Enter(r, u, h)

Work(r) == call[r].work

(* A statement of the service commits: a change of its own, or a           *)
(* transaction.                                                            *)
Statement(r) ==
  /\ phase[r] = "working"
  /\ done[r] < Len(Work(r))
  /\ done' = [done EXCEPT ![r] = @ + 1]
  /\ UNCHANGED <<rlvars, phase, call, accessLog, unaware, unlogged, crashes>>

(* It throws: nothing found, not in the right state, no database.          *)
StatementFails(r) ==
  /\ phase[r] = "working"
  /\ done[r] < Len(Work(r))
  /\ phase' = [phase EXCEPT ![r] = "failed"]
  /\ UNCHANGED <<rlvars, call, done, accessLog, unaware, unlogged, crashes>>

(* A change throws although it has committed: the connection is gone before*)
(* the answer to the COMMIT is back.                                       *)
AnswerLost(r) ==
  /\ phase[r] = "working"
  /\ done[r] < Len(Work(r))
  /\ Work(r)[done[r] + 1] = "change"
  /\ done' = [done EXCEPT ![r] = @ + 1]
  /\ phase' = [phase EXCEPT ![r] = "failed"]
  /\ unaware' = unaware \cup {r}
  /\ UNCHANGED <<rlvars, call, accessLog, unlogged, crashes>>

(* The outcome of a request that has done its work, or given it up.        *)
Outcome(r) ==
  CASE phase[r] = "failed" -> "error"
    [] phase[r] = "working" /\ done[r] = Len(Work(r)) -> "success"
    [] OTHER -> "none"

RowIsDue(r) == Outcome(r) # "none" /\ Outcome(r) \in call[r].rows

RowOf(r) == [request |-> r, status |-> Outcome(r)]

Answered(r) == phase' = [phase EXCEPT ![r] = "answered"]

(* logAccess, after the work and before the answer.                        *)
LogAccess(r) ==
  /\ RowIsDue(r)
  /\ accessLog' = accessLog \cup {RowOf(r)}
  /\ Answered(r)
  /\ UNCHANGED <<rlvars, call, done, unaware, unlogged, crashes>>

(* Slip: logAccess throws, into the catch of the handler.                  *)
LogAccessThrows(r) ==
  /\ RowIsDue(r)
  /\ unlogged' = unlogged \cup {r}
  /\ phase' = [phase EXCEPT ![r] = IF Outcome(r) = "error" THEN "answered" ELSE "failed"]
  /\ UNCHANGED <<rlvars, call, done, accessLog, unaware, crashes>>

(* The insert throws, the row in the table or not: logAccess says so on    *)
(* the console, and swallows it.                                           *)
LogAccessFails(r) ==
  /\ RowIsDue(r)
  /\ \/ unlogged' = unlogged \cup {r} /\ UNCHANGED accessLog
     \/ accessLog' = accessLog \cup {RowOf(r)} /\ UNCHANGED unlogged
  /\ Answered(r)
  /\ UNCHANGED <<rlvars, call, done, unaware, crashes>>

AnswerUnlogged(r) ==
  /\ Outcome(r) # "none" /\ ~RowIsDue(r)
  /\ Answered(r)
  /\ UNCHANGED <<rlvars, call, done, accessLog, unaware, unlogged, crashes>>

(* The process dies with the requests it works on and its list of          *)
(* timestamps; another one takes its place.                                *)
Crash ==
  /\ crashes < MaxCrashes
  /\ crashes' = crashes + 1
  /\ EmptyStore
  /\ phase' = [r \in Requests |->
                 IF phase[r] \in {"working", "failed"} THEN "died" ELSE phase[r]]
  /\ UNCHANGED <<call, done, accessLog, unaware, unlogged>>

Environment ==
  /\ Cleanup \/ Advance
  /\ UNCHANGED <<qvars, crashes>>

QNext ==
  \/ \E r \in Requests :
       /\ phase[r] = "new"
       /\ \E u \in Users, h \in Called : Arrive(r, u, h)
  \/ \E r \in Requests :
       \/ Statement(r) \/ StatementFails(r) \/ AnswerLost(r)
       \/ LogAccess(r) \/ LogAccessFails(r) \/ AnswerUnlogged(r)
  \/ Crash
  \/ Environment

QSpec == QInit /\ [][QNext]_vars
-----------------------------------------------------------------------------
Changed(r) == \E k \in 1 .. done[r] : Work(r)[k] = "change"

RowsOf(r) == {row \in accessLog : row.request = r}

(* What the forensic log is good for: a row of status "success" is about   *)
(* work that was done to the end.  A row of status "error" is about work   *)
(* that was not, unless the answer of its last statement was lost: then it *)
(* stands for a change that was made, and the ledger has to be asked.  And *)
(* no request has two rows, not when the insert of the row itself fails.   *)
RowsTellTheTruth ==
  \A row \in accessLog :
    /\ row.status = "success" => done[row.request] = Len(Work(row.request))
    /\ row.status = "error" => \/ done[row.request] < Len(Work(row.request))
                               \/ row.request \in unaware
    /\ RowsOf(row.request) = {row}

(* No administrator changes anything unseen: a request that changed        *)
(* something, be it only half of a replay, and that was answered, has its  *)
(* row, unless the database refused to take it.                            *)
ChangesAreAccounted ==
  \A r \in Requests :
    (phase[r] = "answered" /\ call[r] \in AdminHandlers /\ Changed(r))
      => RowsOf(r) # {} \/ r \in unlogged

(* A refusal is never a mistake, and being refused costs nothing: only     *)
(* accepted requests of the window count.                                  *)
DenialsAreExact ==
  [][\A r \in Requests :
       (phase[r] # "limited" /\ phase'[r] = "limited") =>
         Cardinality(InWindow(call'[r].from, Len(accepted), now))
           >= MaxRequests[call'[r].tier]]_vars
=============================================================================
