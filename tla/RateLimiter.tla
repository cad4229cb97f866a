----------------------------- MODULE RateLimiter -----------------------------
(***************************************************************************)
(* RateLimitGuard and RateLimiterStore of one API process: an in-memory    *)
(* list of timestamps per client, trimmed when a request of the client is  *)
(* accepted and by a periodic clean-up.                                    *)
(*                                                                         *)
(* The guard runs before the one that authenticates, so the client of a    *)
(* request is its address, and every endpoint of a client counts on the    *)
(* one list.                                                               *)
(***************************************************************************)
EXTENDS Lists, FiniteSets

CONSTANTS
  Users,        (* who sends requests                                       *)
  Addresses,    (* client addresses                                         *)
  AddressOf,    (* the address a user's requests come from                  *)
  Tiers,        (* RATE_LIMIT_CONFIG entries                                *)
  MaxRequests,  (* maxRequests of each tier                                 *)
  Window,       (* windowMs, the same for all tiers                         *)
  MaxAge,       (* the clean-up keeps what is younger                       *)
  MaxTime       (* bound: the clock stops here                              *)

ASSUME ClientsAssumption == AddressOf \in [Users -> Addresses]
ASSUME ConfigAssumption ==
  /\ MaxRequests \in [Tiers -> Nat]
  /\ Window \in Nat /\ MaxAge \in Nat /\ MaxTime \in Nat
  /\ MaxAge >= Window

VARIABLES
  now,          (* Date.now()                                               *)
  requests,     (* the store: timestamps of each address, oldest first      *)
  accepted      (* bookkeeping: the requests this process accepted          *)

rlvars == <<now, requests, accepted>>

-----------------------------------------------------------------------------
Recent(times, t) == Filter(times, LaterThan(t - Window))

RLInit ==
  /\ now = Window
  /\ requests = [a \in Addresses |-> <<>>]
  /\ accepted = <<>>

(* canActivate: isAllowed records an accepted request and drops what has   *)
(* left the window ...                                                     *)
Accept(u, tier) ==
  LET a == AddressOf[u]
      records == Recent(requests[a], now)
  IN  /\ Len(records) < MaxRequests[tier]
      /\ requests' = [requests EXCEPT ![a] = Append(records, now)]
      /\ accepted' = Append(accepted, [from |-> a, tier |-> tier, at |-> now])
      /\ UNCHANGED now

(* Slip: requests that have left the window still count.                   *)
DenyOnOldRecords(u, tier) ==
  /\ Len(requests[AddressOf[u]]) >= MaxRequests[tier]
  /\ UNCHANGED rlvars

(* ... and leaves the store alone when it refuses: 429.                    *)
Deny(u, tier) ==
  /\ Len(Recent(requests[AddressOf[u]], now)) >= MaxRequests[tier]
  /\ UNCHANGED rlvars

(* Slip: the clean-up is keener than the window.                           *)
CleanupTooKeen ==
  /\ requests' = [a \in Addresses |-> Filter(requests[a], LaterThan(now - Window + 1))]
  /\ UNCHANGED <<now, accepted>>

(* cleanup, every five minutes and whatever the window is.                 *)
Cleanup ==
  /\ requests' = [a \in Addresses |-> Filter(requests[a], LaterThan(now - MaxAge))]
  /\ UNCHANGED <<now, accepted>>

Advance ==
  /\ now < MaxTime
  /\ now' = now + 1
  /\ UNCHANGED <<requests, accepted>>

(* The process starts anew, with an empty store.                           *)
EmptyStore ==
  /\ requests' = [a \in Addresses |-> <<>>]
  /\ accepted' = <<>>
  /\ UNCHANGED now

-----------------------------------------------------------------------------
(* The accepted requests of an address among the first n, in the window    *)
(* that ends at t.                                                         *)
InWindow(a, n, t) ==
  {i \in 1 .. n : accepted[i].from = a /\ accepted[i].at > t - Window}

(* A sliding window, not a fixed one: in whatever window of windowMs one   *)
(* looks, the request accepted last is within the limit of its tier, with  *)
(* everything its address was allowed before.                              *)
WindowRespected ==
  \A i \in DOMAIN accepted :
    Cardinality(InWindow(accepted[i].from, i, accepted[i].at))
      <= MaxRequests[accepted[i].tier]
=============================================================================
