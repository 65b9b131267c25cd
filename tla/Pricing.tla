------------------------------ MODULE Pricing ------------------------------
(***************************************************************************)
(* The cost of usage rows, stored beside them, and the subtotal of each    *)
(* session: hub/src/pricing-pass.ts, hub/src/session-cost.ts, the nightly  *)
(* chain of hub/src/worker.ts (price sync, then pricing) and the parts of  *)
(* hub/src/ingest/consumer.ts that change usage rows.                      *)
(*                                                                         *)
(* Three passes share one loop: the nightly one, the administrator's and   *)
(* the one that follows an ingest.  Between the read of a batch and its    *)
(* write the parser may change, delete or insert rows.  One parse at a     *)
(* time: IndexWrite treats those that overlap.  What a row costs under a   *)
(* price table is a parameter: UsageCosts!RowCost in the instances.        *)
(***************************************************************************)
EXTENDS Integers, Sequences, FiniteSets, FiniteSetsExt, TLC

CONSTANTS Pricers,       \* "daily", "admin" or "ingest"
          PricedSessions,
          BilledModels,
          NoSession,
          PriceOf(_, _), \* priceOf: dollars, or NullUsd
          WriteBatch,    \* PRICING_WRITE_BATCH
          PriceWrites,   \* MAX_PRICE_WRITES_PER_RUN
          PriceChunk,    \* MAX_STATEMENTS_PER_BATCH of the sync
          PricingPlans

VARIABLES bill,      \* how the run goes: [upstreams, prices, rows,
                     \* transcripts, budget, passes, faults]
          upstream,  \* which of bill.upstreams is published
          prices,    \* model_prices: each model's snapshots, newest first
          tables,    \* every price table there has been (an observer)
          sync,      \* runModelPriceSync
          usage,     \* the rows of usage, by id
          cost,      \* sessions: state and cost_usd, cost_calls, cost_priced_calls
          parser,    \* the parse that runs
          pricer     \* the pricing passes

pricingVars == <<bill, upstream, prices, tables, sync, usage, cost, parser, pricer>>

PricingVersion == 3
NoAttempt == 0
NullUsd == -1
Absent == -1 \* a time

Fewer(m, n) == IF m < n THEN m ELSE n

-----------------------------------------------------------------------------
(* Rows                                                                     *)

RowsOf(s, rows) == {id \in DOMAIN rows : rows[id].session = s}
TurnsOf(s, rows) == {rows[id].turn : id \in RowsOf(s, rows)}
RowOf(s, turn, rows) == CHOOSE id \in RowsOf(s, rows) : rows[id].turn = turn

LastId(rows) == Max({0} \cup DOMAIN rows)

Subtotal(s, rows) ==
  LET priced == {id \in RowsOf(s, rows) : rows[id].usd # NullUsd}
      sum[id \in 0..LastId(rows)] ==
        IF id = 0 THEN 0 ELSE sum[id - 1] + (IF id \in priced THEN rows[id].usd ELSE 0)
  IN  [usd |-> IF priced = {} THEN NullUsd ELSE sum[LastId(rows)],
       calls |-> Cardinality(RowsOf(s, rows)), priced |-> Cardinality(priced)]

(* refreshSessionCostStatement: the row of a session that has one.          *)
Refreshed(ss, rows) ==
  [s \in PricedSessions |->
     IF s \in ss /\ cost[s].state # "none" THEN [cost[s] EXCEPT !.total = Subtotal(s, rows)] ELSE cost[s]]

Without(rows, ids) == [id \in DOMAIN rows \ ids |-> rows[id]]

(* An id of no row: one more than the largest.                              *)
FreshId(rows) == 1 + LastId(rows)

NewRow(s, turn, input) ==
  [session |-> s, turn |-> turn, input |-> input, usd |-> NullUsd, version |-> 0, at |-> NoAttempt]

(* The conflict branch resets what the pass stored.                         *)
Upserted(s, turn, input, rows) ==
  (IF turn \in TurnsOf(s, rows) THEN RowOf(s, turn, rows) ELSE FreshId(rows)) :> NewRow(s, turn, input) @@ rows

-----------------------------------------------------------------------------
(* Attempt times are kept as ranks, so that nights may follow one another   *)
(* for ever: Ranked is the order of the times in use.                       *)

PassRuns(p) == pricer[p].pc \in {"select", "write"}

Times ==
  {usage[id].at : id \in DOMAIN usage} \cup {pricer[p].started : p \in {q \in Pricers : pricer[q].pc # "idle"}}

Ranked(t) == Cardinality({u \in Times : NoAttempt < u /\ u <= t})

RankedUsage == [id \in DOMAIN usage |-> [usage[id] EXCEPT !.at = Ranked(@)]]

(* A row the pass still considers.                                          *)
DueAt(row, started) == row.version < PricingVersion /\ row.at < started

DueIds(rows, started, scope) ==
  {id \in DOMAIN rows : DueAt(rows[id], started) /\ rows[id].session \in scope}

(* Rows never tried come first, then the oldest attempts.                   *)
DueBefore(rows, i, j) == rows[i].at < rows[j].at \/ (rows[i].at = rows[j].at /\ i < j)

Selected(rows, ids, n) ==
  LET place(i) == Cardinality({j \in ids : DueBefore(rows, j, i)}) + 1
      size == Fewer(n, Cardinality(ids))
  IN  [k \in 1..size |-> CHOOSE i \in ids : place(i) = k]

-----------------------------------------------------------------------------
(* A pass                                                                   *)

IdlePass ==
  [pc |-> "idle", started |-> 0, scope |-> {}, prices |-> [m \in BilledModels |-> <<>>], batch |-> <<>>,
   examined |-> 0, dry |-> FALSE, more |-> FALSE, quiet |-> FALSE]

(* A write that another pass may not have seen (an observer).               *)
Disturbed == [p \in Pricers |-> [pricer[p] EXCEPT !.quiet = FALSE]]

(* An ingest is followed by a pass over the sessions whose usage it changed; *)
(* the nightly one follows the sync.  Another's start changes no order.     *)
Starts(p, scope) ==
  /\ usage' = RankedUsage
  /\ pricer' = [q \in Pricers |->
       IF q = p THEN [IdlePass EXCEPT !.pc = "select", !.started = Cardinality(Times \ {NoAttempt}) + 1,
                                      !.scope = scope, !.prices = prices, !.quiet = TRUE]
       ELSE IF pricer[q].pc # "idle" THEN [pricer[q] EXCEPT !.started = Ranked(@)] ELSE pricer[q]]

StartAdmin ==
  /\ "admin" \in bill.passes /\ ~PassRuns("admin") /\ \E id \in DOMAIN usage : usage[id].version < PricingVersion
  /\ Starts("admin", PricedSessions)
  /\ UNCHANGED <<bill, upstream, prices, tables, sync, cost, parser>>

(* A short read is the end of the work.                                     *)
RanDry(rows, take) == Len(rows) < take

(* Select and price a batch: the costs follow from the inputs read here and *)
(* the prices loaded at the start.                                          *)
Select(p) ==
  LET run == pricer[p]
      take == Fewer(bill.budget.read, bill.budget.rows - run.examined)
  IN  /\ run.pc = "select"
      /\ \E due \in {DueIds(usage, run.started, run.scope)} : \E ids \in {Selected(usage, due, take)} :
           pricer' = [pricer EXCEPT ![p] =
             [run EXCEPT !.pc = IF ids = <<>> THEN "done" ELSE "write", !.examined = @ + Len(ids),
                         !.dry = RanDry(ids, take), !.more = ~RanDry(ids, take),
                         !.batch = [i \in DOMAIN ids |-> [id |-> ids[i], session |-> usage[ids[i]].session,
                                                          input |-> usage[ids[i]].input,
                                                          usd |-> PriceOf(usage[ids[i]].input, run.prices)]]]]
      /\ UNCHANGED <<bill, upstream, prices, tables, sync, usage, cost, parser>>

(* Mutant: by id, whatever the row holds now. *)
MatchesId(row, read) == TRUE

(* The compare-and-set: model, basis and tokens, not the time of the turn.  *)
Matches(row, read) == [row.input EXCEPT !.ts = Absent] = [read.input EXCEPT !.ts = Absent]

(* Mutant: an unpriceable row keeps the time of its earlier attempt. *)
PricedRowUnstamped(row, read, started) ==
  IF read.usd = NullUsd THEN row ELSE [row EXCEPT !.usd = read.usd, !.version = PricingVersion, !.at = started]

PricedRow(row, read, started) ==
  [row EXCEPT !.usd = read.usd, !.version = IF read.usd = NullUsd THEN 0 ELSE PricingVersion, !.at = started]

WrittenRows(slice, run) ==
  [id \in DOMAIN usage |->
     IF \E i \in DOMAIN slice : slice[i].id = id /\ Matches(usage[id], slice[i])
     THEN PricedRow(usage[id], CHOOSE r \in {slice[i] : i \in DOMAIN slice} : r.id = id, run.started) ELSE usage[id]]

(* The sessions of the slice, those whose row changed meanwhile as well.    *)
RefreshedWith(slice, run, rows) == Refreshed({slice[i].session : i \in DOMAIN slice}, rows)

(* One transaction per slice; the loop goes on while the budget lasts.      *)
WriteSlice(p) ==
  LET run == pricer[p]
      n == Fewer(WriteBatch, Len(run.batch))
      slice == SubSeq(run.batch, 1, n)
      rest == SubSeq(run.batch, n + 1, Len(run.batch))
  IN  /\ run.pc = "write"
      /\ \E rows \in {WrittenRows(slice, run)} : usage' = rows /\ cost' = RefreshedWith(slice, run, rows)
      /\ pricer' = [Disturbed EXCEPT ![p] =
           [run EXCEPT !.batch = rest,
                       !.pc = IF rest # <<>> THEN "write"
                              ELSE IF run.dry \/ run.examined >= bill.budget.rows THEN "done" ELSE "select"]]
      /\ UNCHANGED <<bill, upstream, prices, tables, sync, parser>>

(* A failed request or the death of the invocation ends the pass.           *)
DropPass(p) ==
  /\ PassRuns(p) /\ "pass" \in bill.faults
  /\ bill' = [bill EXCEPT !.faults = @ \ {"pass"}]
  /\ pricer' = [pricer EXCEPT ![p] = IdlePass]
  /\ UNCHANGED <<upstream, prices, tables, sync, usage, cost, parser>>

-----------------------------------------------------------------------------
(* The nightly chain: refresh the prices, then price whatever is due.       *)

Entry(day, rates) == [from |-> day, rates |-> rates.rates, batch |-> rates.batch]

Newest(table, m) == IF table[m] = <<>> THEN Absent ELSE table[m][1].from

Stalest(table, m, n) == Newest(table, m) < Newest(table, n) \/ (Newest(table, m) = Newest(table, n) /\ m < n)

(* The models in use whose rates differ from their newest snapshot, stalest *)
(* first, as many as one run may write.                                     *)
Moved(day, table, rows) ==
  {m \in BilledModels : /\ \E id \in DOMAIN rows : rows[id].input.model = m
                  /\ m \in DOMAIN bill.upstreams[day]
                  /\ \/ table[m] = <<>>
                     \/ Entry(0, table[m][1]) # Entry(0, bill.upstreams[day][m])}

SyncOrder(day, table, rows) ==
  LET place(m) == Cardinality({n \in Moved(day, table, rows) : Stalest(table, n, m)}) + 1
  IN  [k \in 1..Fewer(PriceWrites, Cardinality(Moved(day, table, rows))) |->
         CHOOSE m \in Moved(day, table, rows) : place(m) = k]

(* A snapshot of today replaces one of the same day.                        *)
Snapshot(history, e) ==
  <<e>> \o (IF history # <<>> /\ history[1].from = e.from THEN Tail(history) ELSE history)

StartNight ==
  /\ "daily" \in bill.passes /\ sync.pc = "idle" /\ ~PassRuns("daily")
  /\ \/ \E id \in DOMAIN usage : usage[id].version < PricingVersion
     \/ Moved(upstream, prices, usage) # {}
  /\ sync' = [pc |-> "sync", left |-> SyncOrder(upstream, prices, usage), day |-> upstream]
  /\ UNCHANGED <<bill, upstream, prices, tables, usage, cost, parser, pricer>>

(* A chunk of INSERT OR REPLACE.                                            *)
WritePrices ==
  LET n == Fewer(PriceChunk, Len(sync.left))
      ms == {sync.left[i] : i \in 1..n}
  IN  /\ sync.pc = "sync" /\ sync.left # <<>>
      /\ prices' = [m \in BilledModels |->
           IF m \in ms THEN Snapshot(prices[m], Entry(sync.day, bill.upstreams[sync.day][m])) ELSE prices[m]]
      /\ tables' = tables \cup {prices'}
      /\ sync' = [sync EXCEPT !.left = SubSeq(@, n + 1, Len(@))]
      /\ UNCHANGED <<bill, upstream, usage, cost, parser, pricer>>

(* Upstream or a chunk fails: the audit row says so and pricing runs.       *)
FailSync ==
  /\ sync.pc = "sync" /\ "sync" \in bill.faults
  /\ bill' = [bill EXCEPT !.faults = @ \ {"sync"}]
  /\ sync' = [sync EXCEPT !.left = <<>>]
  /\ UNCHANGED <<upstream, prices, tables, usage, cost, parser, pricer>>

PriceNight ==
  /\ sync.pc = "sync" /\ sync.left = <<>>
  /\ sync' = [sync EXCEPT !.pc = "idle"]
  /\ Starts("daily", PricedSessions)
  /\ UNCHANGED <<bill, upstream, prices, tables, cost, parser>>

-----------------------------------------------------------------------------
(* The parser                                                               *)

NextTranscript(s) == bill.transcripts[s][1]

Idle == [pc |-> "idle", session |-> NoSession, left |-> {}, changed |-> {}]

StartWrite(s) ==
  /\ parser.pc = "idle" /\ bill.transcripts[s] # <<>>
  /\ parser' = [Idle EXCEPT !.pc = IF DOMAIN NextTranscript(s) = {} THEN "clear" ELSE "delete", !.session = s]
  /\ cost' = [cost EXCEPT ![s].state =
                IF @ = "none" THEN @ ELSE IF DOMAIN NextTranscript(s) = {} THEN "error" ELSE "parsing"]
  /\ UNCHANGED <<bill, upstream, prices, tables, sync, usage, pricer>>

(* usageDeletes: the turns that are gone.  The rest is compared with what   *)
(* the transcript says, row by row.                                         *)
DeleteUsage ==
  LET s == parser.session
      t == NextTranscript(s)
      kept == Without(usage, {id \in RowsOf(s, usage) : usage[id].turn \notin DOMAIN t})
  IN  /\ parser.pc = "delete"
      /\ usage' = kept
      /\ pricer' = Disturbed
      /\ parser' = [parser EXCEPT !.pc = "upsert", !.left = 
           {turn \in DOMAIN t : turn \notin TurnsOf(s, kept) \/ kept[RowOf(s, turn, kept)].input # t[turn]}]
      /\ UNCHANGED <<bill, upstream, prices, tables, sync, cost>>

(* A chunk of upserts (of one row).                                         *)
UpsertUsage ==
  LET s == parser.session  turn == Min(parser.left)
  IN  /\ parser.pc = "upsert" /\ parser.left # {}
      /\ usage' = Upserted(s, turn, NextTranscript(s)[turn], usage)
      /\ pricer' = Disturbed
      /\ parser' = [parser EXCEPT !.left = @ \ {turn}, !.changed = @ \cup {s}]
      /\ UNCHANGED <<bill, upstream, prices, tables, sync, cost>>

(* The row of the session and its subtotal, in one transaction.             *)
Settled(s, rows) == [cost EXCEPT ![s] = [state |-> "ready", total |-> Subtotal(s, rows)]]

FinishWrite ==
  LET s == parser.session
  IN  /\ parser.pc = "upsert" /\ parser.left = {}
      /\ cost' = Settled(s, usage)
      /\ bill' = [bill EXCEPT !.transcripts[s] = Tail(@)]
      /\ parser' = [parser EXCEPT !.pc = "written"]
      /\ UNCHANGED <<upstream, prices, tables, sync, usage, pricer>>

(* The pass over what was changed, unless the budget is spent.              *)
PriceIngest ==
  /\ parser.pc = "written"
  /\ parser' = Idle
  /\ \/ /\ "ingest" \in bill.passes /\ parser.changed # {} /\ ~PassRuns("ingest")
        /\ Starts("ingest", parser.changed)
     \/ UNCHANGED <<usage, pricer>>
  /\ UNCHANGED <<bill, upstream, prices, tables, sync, cost>>

(* A transcript that cannot be parsed: no usage is left, nor a subtotal.    *)
ClearUsage ==
  LET s == parser.session
  IN  /\ parser.pc = "clear"
      /\ usage' = Without(usage, RowsOf(s, usage))
      /\ cost' = Refreshed({s}, usage')
      /\ bill' = [bill EXCEPT !.transcripts[s] = Tail(@)]
      /\ pricer' = Disturbed
      /\ parser' = Idle
      /\ UNCHANGED <<upstream, prices, tables, sync>>

(* The parse dies; the message is delivered again.                          *)
DropParse ==
  /\ parser.pc \notin {"idle", "written"} /\ "parse" \in bill.faults
  /\ bill' = [bill EXCEPT !.faults = @ \ {"parse"}]
  /\ parser' = Idle
  /\ UNCHANGED <<upstream, prices, tables, sync, usage, cost, pricer>>

-----------------------------------------------------------------------------
(* A new day: upstream publishes.                                           *)
Publishes ==
  /\ upstream < Len(bill.upstreams) /\ sync.pc = "idle"
  /\ upstream' = upstream + 1
  /\ UNCHANGED <<bill, prices, tables, sync, usage, cost, parser, pricer>>

PricingInit ==
  /\ bill \in PricingPlans
  /\ upstream = 1
  /\ prices = bill.prices
  /\ tables = {bill.prices}
  /\ sync = [pc |-> "idle", left |-> <<>>, day |-> 1]
  /\ usage = bill.rows
  /\ cost = [s \in PricedSessions |->
       [state |-> IF RowsOf(s, bill.rows) = {} THEN "none" ELSE "ready", total |-> Subtotal(s, bill.rows)]]
  /\ parser = Idle
  /\ pricer = [p \in Pricers |-> IdlePass]

NightStep == StartNight \/ WritePrices \/ PriceNight

PricingStep(p) == Select(p) \/ WriteSlice(p)

ParserStep == (\E s \in PricedSessions : StartWrite(s)) \/ DeleteUsage \/ UpsertUsage \/ FinishWrite \/ PriceIngest \/ ClearUsage

PricingNext ==
  \/ NightStep \/ FailSync
  \/ \E p \in Pricers : PricingStep(p) \/ DropPass(p)
  \/ StartAdmin
  \/ ParserStep \/ DropParse
  \/ Publishes

(* The nights come, passes and parses run on, failures are finite; nobody   *)
(* has to ask for an administrator's pass, or upstream to publish.          *)
PricingFairness ==
  /\ WF_pricingVars(NightStep)
  /\ \A p \in Pricers : WF_pricingVars(PricingStep(p))
  /\ WF_pricingVars(ParserStep)

PricingSpec == PricingInit /\ [][PricingNext]_pricingVars /\ PricingFairness

-----------------------------------------------------------------------------
Totals == [usd : Int, calls : Nat, priced : Nat]

PricingTypeOK ==
  /\ upstream \in 1..Len(bill.upstreams)
  /\ DOMAIN prices = BilledModels /\ prices \in tables
  /\ sync.pc \in {"idle", "sync"} /\ Len(sync.left) <= PriceWrites
  /\ \A id \in DOMAIN usage :
       /\ usage[id].session \in PricedSessions
       /\ usage[id].version \in 0..PricingVersion
       /\ usage[id].version = PricingVersion => usage[id].usd # NullUsd
  /\ \A i, j \in DOMAIN usage : usage[i].session = usage[j].session /\ usage[i].turn = usage[j].turn => i = j
  /\ \A s \in PricedSessions : cost[s].state \in {"none", "ready", "parsing", "error"} /\ cost[s].total \in Totals
  /\ \A p \in Pricers : pricer[p].pc \in {"idle", "select", "write", "done"} /\ pricer[p].examined <= bill.budget.rows

(* A stored price of the current version is what the row as it stands costs *)
(* under a price table that existed: no re-parse is ever left with the      *)
(* price of the tokens it replaced.                                         *)
MoneyIsCurrent ==
  \A id \in DOMAIN usage :
    usage[id].version = PricingVersion => \E t \in tables : usage[id].usd = PriceOf(usage[id].input, t)

(* The subtotal of a session that is ready is that of its rows, whichever   *)
(* pass or parse wrote them last.                                           *)
SubtotalIsCurrent ==
  \A s \in PricedSessions : cost[s].state = "ready" => cost[s].total = Subtotal(s, usage)

(* A pass that answers "no more" (200, and the end of a backfill) has tried *)
(* every row that was due when it started, unless a parse or another pass   *)
(* wrote meanwhile.                                                         *)
AnswerIsDone ==
  \A p \in Pricers :
    pricer[p].pc = "done" /\ ~pricer[p].more /\ pricer[p].quiet => DueIds(usage, pricer[p].started, pricer[p].scope) = {}

(* The stored prices, their sums and the answers about them.                *)
PricesAreCurrent == MoneyIsCurrent /\ SubtotalIsCurrent /\ AnswerIsDone

Payable(id) == PriceOf(usage[id].input, prices) # NullUsd

(* The sync reaches every model, and however many rows have no price the    *)
(* others get theirs, those of a model published late included.             *)
MoneyIsThere ==
  /\ Moved(upstream, prices, usage) = {}
  /\ \A id \in DOMAIN usage : Payable(id) => usage[id].version = PricingVersion
=============================================================================
