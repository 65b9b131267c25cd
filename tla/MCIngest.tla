------------------------------ MODULE MCIngest ------------------------------
(* Model-checking instances of Ingest. *)
EXTENDS Ingest

CONSTANTS laptop, desktop, tablet, a, b, c, e

(* b appends to a; c rewrites both; e is a rewrite with no turns.           *)
MCExtends == {<<b, a>>} \cap (Revisions \X Revisions)
MCParse   == [r \in Revisions |-> IF r = e THEN "empty" ELSE "turns"]
MCSize    == [r \in Revisions |-> IF r = b THEN 2 ELSE 1]
MCBetter  == {<<laptop, desktop>>} \cap (Files \X Files)

MCPlan(copies, contents, edits_, faults_, backfill_) ==
  [copies |-> copies, contents |-> contents, edits |-> edits_, faults |-> faults_,
   backfill |-> backfill_]

(* One copy: rewrites without faults, an edit with a fault or two, and      *)
(* requests that overlap because one was given up.                          *)
MCOneCopy ==
  {MCPlan({laptop}, {a, b, c}, 2, {}, TRUE), MCPlan({laptop}, {a, c}, 2, {"timeout"}, FALSE),
   MCPlan({laptop}, {a, e}, 1, {"timeout"}, FALSE), MCPlan({laptop}, {a}, 0, {"timeout"}, TRUE)}
    \cup {MCPlan({laptop}, {a, e}, 1, k, TRUE) : k \in {{"throw"}, {"lose"}, {"duplicate"}, {"crash", "object"}}}

(* Two copies: an edit without faults, of contents that have turns or not,  *)
(* faults with and without edits, and copies of equal priority.             *)
MCTwoCopies ==
  {MCPlan({laptop, desktop}, {a, b}, 1, {"crash"}, FALSE), MCPlan({laptop, desktop}, {a, b}, 1, {"duplicate"}, FALSE),
   MCPlan({laptop, tablet}, {a, b}, 0, {}, FALSE),
   MCPlan({laptop, desktop}, {a, b}, 1, {}, FALSE),
   MCPlan({laptop, desktop}, {a, e}, 1, {}, FALSE),
   MCPlan({laptop, desktop}, {a, e}, 0, {"throw"}, FALSE)}

MCCopies == MCOneCopy \cup MCTwoCopies

(* An append whose request dies, and rewrites after it.                     *)
MCDisplaced == {MCPlan({laptop}, {a, b, c}, 3, {"crash"}, FALSE)}
=============================================================================
