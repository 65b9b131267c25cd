--------------------------- MODULE MCCertRotation ---------------------------
(* Small instances of CertRotation. *)
EXTENDS CertRotation

Rotations(ids, admins, renewals, swaps, edits, handles, kinds) ==
  {[id |-> i, admin |-> a, renewals |-> renewals, swaps |-> swaps, edits |-> edits, handles |-> handles, faults |-> k] :
     i \in ids, a \in admins, k \in kinds}

Single(kinds) == {{}} \cup {{k} : k \in kinds}

MCPlans ==
  \* two renewals that overlap or follow one another, a promotion, a lost reply
  Rotations({TRUE}, {FALSE}, 2, 0, 1, {}, {{"timeout"}, {"reply"}})
  \* failing calls
    \cup Rotations({TRUE}, {FALSE}, 2, 0, 0, {}, Single({"throw", "commit", "crash", "malform"}))
  \* an administrator swaps, rolls back or reinstates
    \cup Rotations({TRUE}, {TRUE}, 1, 1, 0, {Spare}, {{}})
    \cup Rotations({FALSE}, {FALSE}, 1, 1, 0, {}, Single({"reject", "unclear"}))

MCLate ==
  Rotations({TRUE}, {FALSE}, 2, 0, 0, {}, {{"timeout"}})
=============================================================================
