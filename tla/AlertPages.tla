------------------------------ MODULE AlertPages ------------------------------
(***************************************************************************)
(* ProviderReconciliation with an administrator who walks through the      *)
(* pending alerts page by page, GET /admin/audit/missing-webhooks with     *)
(* limit and offset, newest alert first.  Every page is a query of its own:*)
(* audits put alerts in front of the list, and administrators take alerts  *)
(* out of it, while the walk goes on.                                      *)
(*                                                                         *)
(* The other lists of the API are paged by the same two numbers.  Alerts   *)
(* are ordered as they were raised: no two of them have one detectedAt.    *)
(* The count beside the page is a query of its own, which the walk does    *)
(* not need: it goes by the limit of the answer and ends on a short page.  *)
(***************************************************************************)
EXTENDS ProviderReconciliation, Lists

CONSTANTS
  NotANumber,   (* what parseInt makes of a parameter without digits        *)
  Fallback,     (* the limit when the request names no number               *)
  MaxLimit,     (* the largest page                                         *)
  AskedLimits   (* limits a walk asks for                                   *)

ASSUME PagesAssumption ==
  /\ MaxLimit \in Nat /\ Fallback \in 1 .. MaxLimit
  /\ NotANumber \notin Int
  /\ AskedLimits \subseteq Int \cup {NotANumber}

VARIABLES
  raised,       (* MissingWebhookAlert rows in the order of detectedAt      *)
  walk          (* the walk: the limit it asks for, the next offset, the    *)
                (* rows that were there when it began, the rows it has seen *)
                (* and those that have left the list since                  *)

gvars == <<pvars, raised, walk>>

-----------------------------------------------------------------------------
Lower(a, b)  == IF a < b THEN a ELSE b
Higher(a, b) == IF a < b THEN b ELSE a

parseLimit(value) ==
  IF value = NotANumber THEN Fallback ELSE Lower(Higher(value, 1), MaxLimit)

parseOffset(value) == IF value = NotANumber THEN 0 ELSE Higher(value, 0)

Pending == {o \in OnRamps : alert[o] = "pending"}

(* findMany: the pending alerts, the newest first, skip and take.          *)
Page(limit, offset) ==
  LET pending == Reverse(Filter(raised, Pending))
  IN  SubSeq(pending, offset + 1, Lower(offset + limit, Len(pending)))

(* Slip: the answer repeats the limit that was asked for.                  *)
AnswerEchoes(asked, offset) ==
  [rows  |-> Page(parseLimit(asked), parseOffset(offset)),
   limit |-> IF asked = NotANumber THEN Fallback ELSE Higher(asked, 1)]

(* getMissingWebhooks: the rows, and the limit the server went by.         *)
Answer(asked, offset) ==
  [rows  |-> Page(parseLimit(asked), parseOffset(offset)),
   limit |-> parseLimit(asked)]

NotBegun ==
  [stage |-> "before", asked |-> NotANumber, offset |-> 0,
   there |-> {}, seen |-> {}, left |-> {}]

GInit ==
  /\ PInit
  /\ raised = <<>>
  /\ walk = NotBegun

(* A step of the others, and what it does to the list.                     *)
Others ==
  /\ PNext
  /\ raised' = raised \o SetToSeq({o \in OnRamps : alert[o] = "none" /\ alert'[o] # "none"})
  /\ walk' = IF walk.stage # "on" THEN walk
             ELSE [walk EXCEPT !.left =
                     @ \cup {o \in Pending : alert'[o] # "pending"}]

Begin(asked) ==
  /\ walk.stage = "before"
  /\ walk' = [walk EXCEPT !.stage = "on", !.asked = asked,
                          !.there = Pending]
  /\ UNCHANGED <<pvars, raised>>

(* One more page, and the last one if it is short.                         *)
ReadPage ==
  /\ walk.stage = "on"
  /\ LET answer == Answer(walk.asked, walk.offset)
     IN  walk' = [walk EXCEPT
                    !.stage  = IF Len(answer.rows) < answer.limit THEN "over" ELSE "on",
                    !.offset = @ + answer.limit,
                    !.seen   = @ \cup ToSet(answer.rows)]
  /\ UNCHANGED <<pvars, raised>>

GNext ==
  \/ Others
  \/ \E asked \in AskedLimits : Begin(asked)
  \/ ReadPage

GSpec == GInit /\ [][GNext]_gvars
-----------------------------------------------------------------------------
(* Paging by offset loses no more than it must: a walk may miss alerts     *)
(* that were pending from its first page to its last, because others in    *)
(* front of them were resolved meanwhile, but never more of them than left *)
(* the list; alerts that are raised meanwhile cost it none.                *)
WalkMissesOnlyWhatLeft ==
  walk.stage = "over" =>
    Cardinality(walk.there \ (walk.seen \cup walk.left)) <= Cardinality(walk.left)
=============================================================================
