------------------------------ MODULE MCJobs ------------------------------
(* Model-checking instances of what the hub does in bounded slices -        *)
(* Rollup, Reindex, Pricing and ExportCleanup - and of the reports of       *)
(* UsageCosts: a behaviour is one of one of them.                           *)
EXTENDS Rollup, Reindex, Pricing, UsageCosts, ExportCleanup

CONSTANTS c1, c2

VARIABLES part,
          report  \* rows, prices and tier of a report

jobsVars == <<rollupVars, reindexVars, pricingVars, cleanupVars, part, report>>

-----------------------------------------------------------------------------
Block(k, day, call) == [turn |-> k, day |-> day, call |-> call]

MCTranscript ==
  [small |-> <<Block(1, "d", "x")>>, long |-> <<Block(1, "d", "x"), Block(1, "e", "y"), Block(2, "e", "x"), Block(2, "d", "z")>>]

RollupPlan(first, pages, later, failing, poison, faults) ==
  [first |-> first, pages |-> pages, uploads |-> later, failures |-> failing, poison |-> poison, faults |-> faults]

MCRollupPlans ==
  {RollupPlan(<<"long", "small">>, 3, 0, 0, {}, {}), RollupPlan(<<"small", "small">>, 2, 1, 0, {}, {}),
   RollupPlan(<<"long", "small">>, 1, 0, 1, {1}, {"crash"}),
   RollupPlan(<<"small", "small">>, 2, 0, 0, {}, {"ambiguous", "late", "crash"}),
   RollupPlan(<<"small", "small">>, 2, 0, 0, {}, {"outage"})}

ReindexPlan(range, shared, broken, faults) ==
  [range |-> range, shared |-> shared, broken |-> broken, faults |-> faults]

MCReindexPlans ==
  {ReindexPlan({}, {}, {}, {}), ReindexPlan({1, 2}, {2}, {}, {}), ReindexPlan({1, 2}, {}, {1}, {"reject"}),
   ReindexPlan({1}, {}, {}, {"slow", "reject"}),
   ReindexPlan({1}, {}, {}, {"reserve", "reject"}), ReindexPlan({1}, {}, {1}, {"reserve", "slow"}), ReindexPlan({1}, {}, {}, {"die", "upload"})}

-----------------------------------------------------------------------------
Tokens(input, output, read, write) ==
  [input |-> input, output |-> output, read |-> read, w5 |-> write, w1h |-> 0]

Call(model, ts, input) == [model |-> model, basis |-> "disjoint", ts |-> ts, tokens |-> Tokens(input, 0, 0, 0)]

Rate(input) == [rates |-> Tokens(input, 1, 0, 0), batch |-> [input |-> NoRate, output |-> NoRate]]

(* What the passes of the plans may price, under the tables they may load.  *)
MCCalls == {Call(m, 1, n) : m \in 1..2, n \in 1..3} \cup {Call(1, 2, 1)}

MCHistories ==
  {<<>>, <<Entry(1, Rate(2))>>, <<Entry(1, Rate(3))>>, <<Entry(2, Rate(3))>>, <<Entry(2, Rate(4))>>,
   <<Entry(2, Rate(4)), Entry(1, Rate(2))>>}

(* What RowCost comes to on those, put so that TLC finds it quickly.        *)
MCPriceOf(call, table) ==
  LET history == table[call.model]
      late == Len(history) = 2 /\ history[1].from > call.ts
  IN  IF history = <<>> THEN NullUsd
      ELSE call.tokens["input"] * history[IF late THEN 2 ELSE 1].rates["input"]

ASSUME MCPriceOfAssumption ==
  \A call \in MCCalls, table \in MCHistories \X MCHistories :
    LET c == RowCost(call, table) IN MCPriceOf(call, table) = IF c.priced THEN c.usd ELSE NullUsd

PricingPlan(ups, table, rows, transcripts, max, read, passes, faults) ==
  [upstreams |-> ups, prices |-> table, rows |-> rows, transcripts |-> transcripts,
   budget |-> [rows |-> max, read |-> read], passes |-> passes, faults |-> faults]

OldRow(s, k, call, usd) == [NewRow(s, k, call) EXCEPT !.usd = usd, !.version = 2, !.at = 1]

NoPrices == <<<<>>, <<>>>>
NoTranscripts == <<<<>>, <<>>>>

MCPricingPlans ==
  {PricingPlan(<<1 :> Rate(2) @@ 2 :> Rate(3)>>, NoPrices,
     1 :> NewRow(1, 1, Call(1, 1, 1)) @@ 2 :> NewRow(1, 2, Call(2, 1, 1)) @@ 3 :> OldRow(2, 1, Call(2, 1, 2), 1),
     <<<<1 :> Call(1, 1, 2)>>, <<>>>>, 3, 2, {"daily", "ingest"}, {"parse"}),
   PricingPlan(<<2 :> Rate(2), 1 :> Rate(3) @@ 2 :> Rate(4)>>, NoPrices,
     1 :> NewRow(1, 1, Call(1, 1, 1)) @@ 2 :> NewRow(2, 1, Call(1, 1, 2)) @@ 3 :> NewRow(2, 2, Call(2, 1, 1)),
     NoTranscripts, 1, 1, {"daily"}, {"sync", "pass"}),
   PricingPlan(<<1 :> Rate(2)>>, <<<<Entry(1, Rate(2))>>, <<>>>>, 1 :> NewRow(1, 1, Call(1, 1, 3)),
     <<<<<<>>>>, <<1 :> Call(1, 1, 1)>>>>, 2, 2, {"admin", "daily"}, {"pass"})}

-----------------------------------------------------------------------------
(* Two rows, of sessions whose parents form a loop or not, under two tables *)
(* that miss a rate or a batch rate here and there.                         *)
Snap(from, input, output, read, write, bin, bout) ==
  [from |-> from, rates |-> Tokens(input, output, read, write), batch |-> [input |-> bin, output |-> bout]]

MCTables ==
  {<<<<Snap(2, 2, 5, NoRate, 3, 1, NoRate), Snap(0, 3, NoRate, 1, 3, NoRate, 4)>>, <<>>>>,
   <<<<Snap(2, 2, 5, 1, 3, 1, NoRate), Snap(0, 3, 4, 1, NoRate, NoRate, 4)>>, <<>>>>}

MCTokens == {Tokens(3, 1, 2, 0), Tokens(1, 0, 2, 0), Tokens(1, 2, 0, 0), Tokens(2, 1, 0, 0),
             Tokens(-1, 0, 0, 1)}

MCRows ==
  [model : {1}, basis : {"disjoint", "subset"}, ts : {1, 3, NoTime}, tokens : MCTokens]
    \cup [model : {1, 2, 3}, basis : {"disjoint", "none"}, ts : {1}, tokens : {Tokens(1, 0, 2, 0)}]

Stored(row, s, table) ==
  [session |-> s, model |-> row.model, basis |-> row.basis, tokens |-> row.tokens,
   usd |-> IF RowCost(row, table).priced THEN RowCost(row, table).usd ELSE NullCost]

NoReport == "none"

MCReports == [x : MCRows, y : MCRows, table : MCTables, batch : BOOLEAN]

(* The usage report groups rows and prices a group as one call: it costs    *)
(* what its rows cost, and what the pass stored for them.                   *)
ReportIsExact ==
  part = "report" =>
    LET both == Priced(<<report.x, report.y>>, report.table, report.batch)
        x == Priced(<<report.x>>, report.table, report.batch)
        y == Priced(<<report.y>>, report.table, report.batch)
    IN  /\ both.usd = x.usd + y.usd /\ both.unpriced = x.unpriced + y.unpriced /\ both.sets = x.sets \cup y.sets
        /\ ~report.batch => both.usd = RowCost(report.x, report.table).usd + RowCost(report.y, report.table).usd

(* A session's page splits by model what the list adds up over it and the   *)
(* sessions below it; no share of cached tokens is above one.               *)
BreakdownIsWhole ==
  part = "report" =>
    LET rows == <<Stored(report.x, 1, report.table), Stored(report.y, 2, report.table)>>
        parent == IF report.batch THEN <<2, 1>> ELSE <<0, 1>>
        tree == SubtreeCost(1, parent, rows)
        split == ModelCosts(1, parent, rows)
        sum(F(_)) == FoldSet(LAMBDA m, n : n + F(split[m]), 0, DOMAIN split)
    IN  /\ tree.usd = SumCosts([m \in DOMAIN split |-> split[m].usd])
        /\ tree.calls = sum(LAMBDA c : c.calls) /\ tree.priced = sum(LAMBDA c : c.priced)
        /\ tree.subagents = 1
        /\ \A m \in DOMAIN split : split[m].cached <= split[m].prompt /\ split[m].own <= split[m].calls

ReportsAgree == ReportIsExact /\ BreakdownIsWhole

-----------------------------------------------------------------------------
(* Three archives of a store and two conversations.                         *)
Z(talks, age) == [talks |-> talks, age |-> age, skipped |-> FALSE, bad |-> FALSE]
Skipping(talks, age) == [Z(talks, age) EXCEPT !.skipped = TRUE]
Corrupt(age) == [Z({}, age) EXCEPT !.bad = TRUE]

Faults(cuts, throws, drops, stales, checks, swaps) ==
  [cuts |-> cuts, throws |-> throws, drops |-> drops, stales |-> stales, checks |-> checks, swaps |-> swaps]

Plan(zips, b) ==
  [zips |-> zips, start |-> <<1, 1, 1>>, cuts |-> b.cuts, throws |-> b.throws, drops |-> b.drops,
   stales |-> b.stales, checks |-> b.checks, swaps |-> b.swaps, trailing |-> FALSE]

(* The newest archive drops a conversation of two others, which are or are  *)
(* about to be parsed.                                                      *)
Drops == <<<<Z({1, 2}, 3), Z({1}, 4)>>, <<Z({2}, 1)>>, <<Z({2}, 2), Z({1, 2}, 5)>>>>
(* Two archives drop what the other has.                                    *)
Crossed == <<<<Z({1, 2}, 3), Z({1}, 5)>>, <<Z({1, 2}, 2), Z({2}, 4)>>, <<Z({1, 2}, 1)>>>>
(* The newest turns out to be corrupt, and is repaired.                     *)
Fails == <<<<Z({1, 2}, 3), Corrupt(4), Z({2}, 5)>>, <<Z({1}, 2)>>, <<Z({2}, 1)>>>>
(* Some of its rows cannot be read.                                         *)
Skips == <<<<Z({1, 2}, 3), Skipping({1}, 4)>>, <<Z({2}, 1)>>, <<Z({1, 2}, 2)>>>>

(* No reservation is healed while its cleanup is spread over several        *)
(* deliveries, nor do three archives have something to delete at once.      *)
MCCleanupPlans ==
  {Plan(Drops, Faults(1, 0, 1, 0, 0, 0)),
   Plan(Drops, Faults(0, 1, 0, 1, 0, 1)),
   Plan(Drops, Faults(0, 0, 0, 2, 2, 0)),
   Plan(Drops, Faults(1, 0, 0, 1, 0, 0)),
   Plan(Drops, Faults(2, 0, 0, 0, 0, 0)),
   Plan(Crossed, Faults(0, 0, 1, 1, 1, 0)),
   Plan(Crossed, Faults(2, 0, 0, 0, 0, 0)),
   Plan(Crossed, Faults(0, 1, 0, 0, 0, 0)),
   Plan(Fails, Faults(1, 0, 0, 0, 1, 0)),
   Plan(Fails, Faults(0, 0, 1, 0, 1, 0)),
   Plan(Fails, Faults(0, 1, 0, 1, 0, 0)),
   Plan(Skips, Faults(1, 0, 1, 0, 1, 0))}

-----------------------------------------------------------------------------
JobsInit ==
  /\ part \in {"rollup", "reindex", "pricing", "cleanup", "report"}
  /\ RollupInit /\ ReindexInit /\ PricingInit /\ CleanupInit
  /\ part # "rollup" => rplan = RollupPlan(<<"small", "small">>, 2, 0, 0, {}, {"outage"})
  /\ part # "reindex" => iplan = ReindexPlan({}, {}, {}, {})
  /\ part # "pricing" => bill.passes = {"daily"}
  /\ part # "cleanup" => eplan = Plan(Crossed, Faults(2, 0, 0, 0, 0, 0))
  /\ IF part = "report" THEN report \in MCReports ELSE report = NoReport

JobsNext ==
  /\ UNCHANGED <<part, report>>
  /\ \/ part = "rollup" /\ RollupNext /\ UNCHANGED <<reindexVars, pricingVars, cleanupVars>>
     \/ part = "reindex" /\ ReindexNext /\ UNCHANGED <<rollupVars, pricingVars, cleanupVars>>
     \/ part = "pricing" /\ PricingNext /\ UNCHANGED <<rollupVars, reindexVars, cleanupVars>>
     \/ part = "cleanup" /\ CleanupNext /\ UNCHANGED <<rollupVars, reindexVars, pricingVars>>

(* The fairness of each module, in its part.                                *)
JobsFairness ==
  /\ WF_rollupVars(part = "rollup" /\ WriteStep) /\ WF_rollupVars(part = "rollup" /\ ScheduledStep)
  /\ WF_rollupVars(part = "rollup" /\ ManualStep) /\ WF_rollupVars(part = "rollup" /\ JobStep)
  /\ WF_rollupVars(part = "rollup" /\ RunLate) /\ WF_rollupVars(part = "rollup" /\ Poll)
  /\ WF_reindexVars(part = "reindex" /\ Parsing) /\ WF_reindexVars(part = "reindex" /\ Caring)
  /\ WF_reindexVars(part = "reindex" /\ Claiming) /\ WF_reindexVars(part = "reindex" /\ GetRange)
  /\ WF_reindexVars(part = "reindex" /\ LeaseRunsOut)
  /\ \A c \in Continuations : WF_reindexVars(part = "reindex" /\ Continue(c))
  /\ WF_pricingVars(part = "pricing" /\ NightStep) /\ WF_pricingVars(part = "pricing" /\ ParserStep)
  /\ \A p \in Pricers : WF_pricingVars(part = "pricing" /\ PricingStep(p))
  /\ WF_cleanupVars(part = "cleanup" /\ DeliverJob) /\ WF_cleanupVars(part = "cleanup" /\ TurnStep)
  /\ \A f \in Archives : /\ WF_cleanupVars(part = "cleanup" /\ CheckArchive(f))
                         /\ WF_cleanupVars(part = "cleanup" /\ ReservationAges(f))

JobsSpec == JobsInit /\ [][JobsNext]_jobsVars /\ JobsFairness

(* Prices, the sums that are stored and the sums that are reported agree.   *)
MoneyAgrees == PricingTypeOK /\ PricesAreCurrent /\ ReportsAgree

(* What was asked for is done in the end: every session is counted, a range *)
(* is settled, every row that has a price gets it, and cleanups end.        *)
JobsEnd ==
  <>[](/\ part = "rollup" => RollupRests
       /\ part = "reindex" => ~Running
       /\ part = "pricing" => MoneyIsThere
       /\ part = "cleanup" => AllQuiet)
=============================================================================
