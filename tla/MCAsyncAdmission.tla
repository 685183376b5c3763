------------------------- MODULE MCAsyncAdmission --------------------------
(* Bounds for AsyncAdmission: three callers over one slot and a queue of   *)
(* two, so that one runs while two wait and can overtake each other.       *)
EXTENDS AsyncAdmission
=============================================================================
