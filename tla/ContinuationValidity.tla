------------------------ MODULE ContinuationValidity ------------------------
(***************************************************************************)
(* AnchorStack's evaluator: whether an execution remains admissible, from  *)
(* a snapshot of what justified it.  It is a pure function, so there is no *)
(* behaviour to check, and what is stated of it is proved for every        *)
(* snapshot.                                                               *)
(***************************************************************************)
EXTENDS Integers

Validity == {"VALID", "INVALID", "STALE", "UNKNOWN"}

MaterialDimensions ==
  {"authority", "assumptions", "dependencies", "evidence", "constraints",
   "conditions", "scope", "communications"}

ContinuationSnapshot ==
  [dimensions: [MaterialDimensions -> Validity], safe_exit_available: BOOLEAN]

Dimensions(snapshot, validity) ==
  {name \in MaterialDimensions : snapshot.dimensions[name] = validity}

\* A fixed order of precedence: the first condition that holds decides.
Evaluate(snapshot) ==
  LET invalid == Dimensions(snapshot, "INVALID")
      stale == Dimensions(snapshot, "STALE")
      unknown == Dimensions(snapshot, "UNKNOWN")
  IN IF "authority" \in invalid THEN "AUTHORITY_SUSPENDED"
     ELSE IF \/ ~snapshot.safe_exit_available /\ invalid \union stale \union unknown # {}
             \/ invalid \intersect {"constraints", "scope", "communications"} # {}
     THEN "PROTECTIVE_HOLD"
     ELSE IF invalid \union stale # {} THEN "REASSESSMENT_REQUIRED"
     ELSE IF unknown # {} THEN "DETERMINATION_NOT_ESTABLISHED"
     ELSE "CONTINUATION_VALID"

-----------------------------------------------------------------------------

\* How much is wrong with a dimension, and how much a determination restrains.
Doubt(validity) ==
  IF validity = "VALID" THEN 0 ELSE IF validity = "UNKNOWN" THEN 1
  ELSE IF validity = "STALE" THEN 2 ELSE 3

Restraint(state) ==
  IF state = "CONTINUATION_VALID" THEN 0
  ELSE IF state = "DETERMINATION_NOT_ESTABLISHED" THEN 1
  ELSE IF state = "REASSESSMENT_REQUIRED" THEN 2
  ELSE IF state = "PROTECTIVE_HOLD" THEN 3 ELSE 4

Worsens(before, after) ==
  /\ \A name \in MaterialDimensions :
       Doubt(before.dimensions[name]) <= Doubt(after.dimensions[name])
  /\ after.safe_exit_available => before.safe_exit_available
=============================================================================
