---------------------------- MODULE MCIndexCopy ----------------------------
(* Model-checking instances of IndexCopy. *)
EXTENDS IndexCopy

CONSTANTS v, m, k1, k2, p, q

(* m has malformed bytes that read like v.                                  *)
MCRendering == [x \in Texts |-> IF x = m THEN v ELSE x]

(* A page of two blocks is in one shard or in two.                          *)
MCRoute == [i \in Rows |-> IF i <= 2 THEN k1 ELSE k2]

MCPlan(start, writes, n, k, overlap, o) ==
  [start |-> start, writes |-> writes, lateWrites |-> n, crashes |-> k, overlap |-> overlap, overlaps |-> o]

(* Late writes and crashes of passes that follow each other; a delayed pass *)
(* once the source is frozen; a checkpoint of the first version.            *)
MCPlans ==
  {MCPlan("fresh", {"change", "delete", "insert"}, 1, 1, "frozen", 0),
   MCPlan("fresh", {"change", "delete"}, 2, 0, "frozen", 0),
   MCPlan("fresh", {"change", "insert"}, 1, 0, "frozen", 1),
   MCPlan("legacy", {}, 0, 1, "frozen", 0),
   MCPlan("legacy", {"change"}, 1, 0, "frozen", 1)}
=============================================================================
