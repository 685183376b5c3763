---------------------------- MODULE MCRegoRunner ----------------------------
(* Three evaluations, so that the third meets two abandoned threads; two    *)
(* evaluations or one and a warm around an edit of the policy files.        *)
EXTENDS RegoRunner

MCBudgets == {[eval |-> 3, warm |-> 0, edits |-> 0],
              [eval |-> 2, warm |-> 0, edits |-> 1],
              [eval |-> 1, warm |-> 1, edits |-> 1]}

=============================================================================
