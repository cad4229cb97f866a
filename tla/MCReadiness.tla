------------------------------ MODULE MCReadiness ------------------------------
(***************************************************************************)
(* Instances of Readiness for TLC: a container of an image with two        *)
(* migrations that migrates first and one that does not, a job that pushes *)
(* the schema of the older image with one, and one that migrates to it.    *)
(***************************************************************************)
EXTENDS Readiness, TLC

CONSTANTS new, bare, push, hand, jwt, paystack, backup

MCImageOf == new :> 2 @@ bare :> 2 @@ push :> 1 @@ hand :> 1
MCStartOf ==
  new :> "migrate" @@ bare :> "bare" @@ push :> "push" @@ hand :> "by hand"

Configured(j, p, b) == jwt :> j @@ paystack :> p @@ backup :> b
Fresh       == [text |-> "good", date |-> 0]
NotSet      == [text |-> "missing", date |-> Undated]
Suspicious  == [text |-> "suspicious", date |-> Undated]
Placeholder == [text |-> "placeholder", date |-> 0]

(* Short of what the start and /ready need; with an example text that      *)
(* /ready looks at; with a placeholder, and an example text that /ready    *)
(* does not look at.                                                       *)
MCConfigurations ==
  {Configured(NotSet, Fresh, NotSet), Configured(Suspicious, NotSet, Fresh),
   Configured(Placeholder, Suspicious, Fresh)}
=============================================================================
