----------------------------- MODULE MCDeploy -----------------------------
(* Model-checking instances of what CI does to the hub: IndexCutover,       *)
(* MigrationRunner and Preview.  A behaviour is one of one of them.         *)
EXTENDS IndexCutover, MigrationRunner, Preview, TLC

CONSTANTS a, b, parse, rollup, p, q, old, new

VARIABLE part

deployVars == <<cutoverVars, runnerVars, previewVars, part>>

CutoverPlan(crashes, fails, partials, late, pushes) ==
  [crashes |-> crashes, fails |-> fails, partials |-> partials, late |-> late, pushes |-> pushes]

MCCutoverPlans == {CutoverPlan(1, 1, 1, 1, 1)}

Migration(name, sha) == [name |-> name, sha |-> sha]

MCFirst == <<Migration(1, old)>>

(* Main may grow by one migration and another; the second has two drafts.   *)
MCManifests ==
  {MCFirst, Append(MCFirst, Migration(2, old)), Append(MCFirst, Migration(2, new)),
   MCFirst \o <<Migration(2, old), Migration(3, old)>>}

RunnerPlan(target, crashes, runs) == [target |-> target, crashes |-> crashes, runs |-> runs]

MCRunnerPlans == {RunnerPlan("production", 2, 4), RunnerPlan("local", 1, 3)}

-----------------------------------------------------------------------------
(* A head, by its migrations of the catalog and of the index.               *)
HeadOf(sums) == [main |-> sums, index |-> <<"i">>]

PreviewPlan(mains, events, debris, legacy, sweeps, fts) ==
  [heads |-> [h \in DOMAIN mains |-> HeadOf(mains[h])], events |-> events, debris |-> debris, legacy |-> legacy,
   sweeps |-> sweeps, faults |-> fts]

Retired(pr) == {Item(pr, "old-app", 0), Item(pr, "old-edge", 0), Item(pr, "old-base", 0)}

MCPreviewPlans ==
  \* another request's remains, and an account that is nearly full
  {PreviewPlan(<<<<"a">>>>, <<>>, Retired(2) \cup {Item(2, "old-base", n) : n \in 1..2}, FALSE, "any", {"github", "api"}),
  \* a push that continues the manifest, one that does not, and a catalog without a ledger
   PreviewPlan(<<<<"a">>, <<"a", "b">>>>, <<"push">>, {}, FALSE, "never", {"proof", "die"}),
   PreviewPlan(<<<<"a">>, <<"c">>>>, <<"push">>, {}, FALSE, "never", {"die"}),
   PreviewPlan(<<<<"a">>, <<"a", "b">>>>, <<>>, {}, TRUE, "never", {}),
  \* the end of the request
   PreviewPlan(<<<<"a">>>>, <<"close">>, Retired(1) \ {Item(1, "old-base", 0)}, FALSE, "closed", {}),
   PreviewPlan(<<<<"a">>>>, <<"close">>, {}, FALSE, "closed", {"die"}),
   PreviewPlan(<<<<"a">>>>, <<"close">>, {}, FALSE, "any", {"sweep"}),
   PreviewPlan(<<<<"a">>>>, <<"close", "reopen">>, {}, FALSE, "never", {}),
   PreviewPlan(<<<<"a">>>>, <<"dispatch">>, {}, FALSE, "never", {"die", "settle"})}

MCHome == [k \in Uploads |-> "IDX00"]

-----------------------------------------------------------------------------
DeployInit ==
  /\ part \in {"cutover", "runner", "preview"}
  /\ CutoverInit /\ RunnerInit /\ PreviewInit
  /\ part # "runner" => rplan.target = "production"
  /\ part # "preview" => pvplan.legacy

DeployNext ==
  /\ UNCHANGED part
  /\ \/ part = "cutover" /\ CutoverNext /\ UNCHANGED <<runnerVars, previewVars>>
     \/ part = "runner" /\ RunnerNext /\ UNCHANGED <<cutoverVars, previewVars>>
     \/ part = "preview" /\ PreviewNext /\ UNCHANGED <<cutoverVars, runnerVars>>

(* The fairness of each module, in its part.                                *)
DeployFairness ==
  /\ WF_cutoverVars(part = "cutover" /\ JobStep) /\ WF_cutoverVars(part = "cutover" /\ Finish)
  /\ WF_previewVars(part = "preview" /\ CiStep) /\ WF_previewVars(part = "preview" /\ SweepStep)
  /\ WF_previewVars(part = "preview" /\ EdgeStep) /\ WF_previewVars(part = "preview" /\ Rerun)
  /\ WF_previewVars(part = "preview" /\ \E h \in pull.testing : Tested(h))

DeploySpec == DeployInit /\ [][DeployNext]_deployVars /\ DeployFairness

-----------------------------------------------------------------------------
(* The cutover ends, as attempts that fail are repeated until one           *)
(* activates; a preview is served or removed.                               *)
DeployEnds ==
  <>[](/\ part = "cutover" => Activated
       /\ part = "preview" => PreviewSettled)
=============================================================================
