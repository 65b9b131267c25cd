------------------------------- MODULE Rollup -------------------------------
(***************************************************************************)
(* The block diagnostics of a session: the bounded passes of               *)
(* hub/src/session-rollup.ts over its blocks, started by the daily cron or *)
(* by a manual job of hub/src/session-rollup-jobs.ts, while sessions are   *)
(* parsed again.                                                           *)
(*                                                                         *)
(* A pass reads a page of blocks on the shard and what main holds of the   *)
(* session, and commits counts, dedup keys and cursor in one batch.  The   *)
(* scheduled pass and the manual one may overlap, and either may die       *)
(* between two calls.                                                      *)
(***************************************************************************)
EXTENDS Naturals, Sequences, FiniteSets, SequencesExt

CONSTANTS RollSessions,  \* naturals: the tie-break of the selection is the session id
          Days,
          RollRevisions,
          Transcript,    \* Transcript[r]: the blocks [turn, day, call] of a revision, in order
          RollPage,      \* pageSize
          MaxBlocks,     \* maxBlocks of a pass
          MaxRetries,    \* max_retries of the queue
          RollupPlans    \* bound: maxPages of a pass, uploads, failing pages, sessions that
                         \* always fail, faults; and the revisions at first

NoCall == "none"

RollFaults == {"ambiguous",  \* the queue's answer is lost
               "late",       \* a job is not started within a day
               "outage",     \* a delivery finds no database
               "crash"}      \* an invocation dies

(* The blocks of a session, in order: turns count from one (0 is no turn),  *)
(* and never go back.                                                       *)
IsTranscript(bl) ==
  /\ bl \in Seq({bl[i] : i \in DOMAIN bl})
  /\ \A i \in DOMAIN bl : bl[i].turn \in Nat \ {0} /\ bl[i].day \in Days
  /\ \A i, j \in DOMAIN bl : i < j => bl[i].turn <= bl[j].turn

ASSUME RollupAssumption ==
  /\ RollSessions \subseteq Nat /\ IsFiniteSet(RollSessions)
  /\ \A r \in RollRevisions : IsTranscript(Transcript[r])
  /\ {RollPage, MaxBlocks} \subseteq Nat \ {0} /\ MaxRetries \in Nat
  /\ \A p \in RollupPlans :
       /\ p.first \in [RollSessions -> RollRevisions] /\ p.pages \in Nat \ {0}
       /\ p.poison \subseteq RollSessions /\ p.faults \subseteq RollFaults

VARIABLES bytes,    \* bytes[s]: the revision its file holds
          shard,    \* shard[s]: the revision whose blocks the shard holds
          indexed,  \* indexed[s]: index_state is 'ready'
          rollup,   \* rollup[s]: the session_rollup_state row
          buckets,  \* buckets[s]: the session_rollup rows, by day
          seen,     \* seen[s]: session_rollup_seen_calls
          attempts, \* attempts[s]: the rank of last_attempt, 0 for never
          writer,   \* the parse of a session
          parses,   \* generations handed out
          pass,     \* pass[p]: a bounded pass
          job,      \* the manual job
          caller,   \* the request that submitted it
          delivery, \* the queue's message and the consumer that holds it
          rplan, struck, uploads, failures

contentVars == <<bytes, shard, indexed, writer, parses, uploads>>
rollVars == <<rollup, buckets, seen, attempts>>
jobVars == <<job, caller, delivery>>
rollupVars == <<contentVars, rollVars, pass, jobVars, rplan, struck, failures>>

Passes == {"scheduled", "manual"}

NoTurn == [turn |-> 0, day |-> "none"]
NoRow == [gen |-> 0, status |-> "none", eligible |-> FALSE, finishing |-> FALSE, cursor |-> 0,
          turn |-> NoTurn, token |-> 0]
Zero == [turns |-> 0, calls |-> 0, repeats |-> 0]
Empty == [d \in Days |-> Zero]
Resting == [pc |-> "idle", pages |-> 0, examined |-> 0, failed |-> {}, s |-> 0, row |-> NoRow,
            page |-> <<>>, known |-> {}, limit |-> 0, thrown |-> FALSE]
Parked == [pc |-> "idle", s |-> 0, rev |-> "none", gen |-> 0]

RollupInit ==
  /\ rplan \in RollupPlans /\ struck = {} /\ uploads = 0 /\ failures = 0
  /\ bytes = rplan.first /\ shard = bytes
  /\ indexed = [s \in RollSessions |-> TRUE]
  /\ rollup = [s \in RollSessions |-> [NoRow EXCEPT !.gen = 1, !.status = "pending", !.eligible = TRUE]]
  /\ buckets = [s \in RollSessions |-> Empty]
  /\ seen = [s \in RollSessions |-> {}]
  /\ attempts = [s \in RollSessions |-> 0]
  /\ writer = Parked /\ parses = 1
  /\ pass = [p \in Passes |-> Resting]
  /\ job = [status |-> "absent", owned |-> FALSE, late |-> FALSE]
  /\ caller = "new"
  /\ delivery = [pc |-> "none", tries |-> 0]

RollStrikes(kind) == kind \in rplan.faults \ struck /\ struck' = struck \cup {kind}

-----------------------------------------------------------------------------
(* The order of the last attempts, without that of s.                       *)
AttemptsBut(s) ==
  [t \in RollSessions |-> IF t = s THEN 0 ELSE IF attempts[t] > attempts[s] /\ attempts[s] > 0 THEN attempts[t] - 1
                         ELSE attempts[t]]

(* Parsing, as far as the rollup can tell.  A session that leaves 'ready'   *)
(* loses its rollup row, and the counts with it (migration 0025).           *)

Unready(s) ==
  /\ buckets' = [buckets EXCEPT ![s] = Empty]
  /\ seen' = [seen EXCEPT ![s] = {}]
  /\ attempts' = AttemptsBut(s)

Upload(s) ==
  /\ uploads < rplan.uploads /\ uploads' = uploads + 1
  /\ \E r \in RollRevisions : bytes' = [bytes EXCEPT ![s] = r]
  /\ indexed' = [indexed EXCEPT ![s] = FALSE]
  /\ rollup' = [rollup EXCEPT ![s] = NoRow] /\ Unready(s)
  /\ UNCHANGED <<shard, writer, parses, pass, jobVars, rplan, struck, failures>>

(* writeSession: a new generation, not eligible before the publication.     *)
BeginWrite(s) ==
  /\ writer = Parked /\ ~indexed[s]
  /\ parses' = parses + 1
  /\ writer' = [pc |-> "blocks", s |-> s, rev |-> bytes[s], gen |-> parses']
  /\ rollup' = [rollup EXCEPT ![s] = [NoRow EXCEPT !.gen = parses', !.status = "pending"]]
  /\ Unready(s)
  /\ UNCHANGED <<bytes, shard, indexed, uploads, pass, jobVars, rplan, struck, failures>>

WriteBlocks ==
  /\ writer.pc = "blocks"
  /\ shard' = [shard EXCEPT ![writer.s] = writer.rev]
  /\ writer' = [writer EXCEPT !.pc = "publish"]
  /\ UNCHANGED <<bytes, indexed, parses, uploads, rollVars, pass, jobVars, rplan, struck, failures>>

Publishable == bytes[writer.s] = writer.rev /\ rollup[writer.s].gen = writer.gen

PublishSession ==
  /\ writer.pc = "publish" /\ writer' = Parked
  /\ IF Publishable
       THEN /\ indexed' = [indexed EXCEPT ![writer.s] = TRUE]
            /\ rollup' = [rollup EXCEPT ![writer.s].eligible = TRUE]
       ELSE UNCHANGED <<indexed, rollup>>
  /\ UNCHANGED <<bytes, shard, parses, uploads, buckets, seen, attempts, pass, jobVars, rplan, struck, failures>>

-----------------------------------------------------------------------------
(* runSessionRollup                                                         *)

Due(s) == rollup[s].eligible /\ rollup[s].status # "ready" /\ indexed[s]

(* ORDER BY last_attempt, session_id.                                       *)
Before(s, t) == attempts[s] < attempts[t] \/ (attempts[s] = attempts[t] /\ s < t)

First(S) == CHOOSE s \in S : \A t \in S \ {s} : Before(s, t)

Touched(s) == attempts' = [AttemptsBut(s) EXCEPT ![s] = 1 + Cardinality({t \in RollSessions : AttemptsBut(s)[t] > 0})]

Step(p, pc) == pass' = [pass EXCEPT ![p].pc = pc]

StartScheduled ==
  /\ pass["scheduled"] = Resting /\ \E s \in RollSessions : Due(s)
  /\ Step("scheduled", "select")
  /\ UNCHANGED <<contentVars, rollVars, jobVars, rplan, struck, failures>>

LowerOf(m, n) == IF m < n THEN m ELSE n

SelectCheckpoint(p) ==
  LET due == {s \in RollSessions : Due(s)} \ pass[p].failed
  IN  /\ pass[p].pc = "select"
      /\ pass' = [pass EXCEPT ![p] =
           IF pass[p].pages < rplan.pages /\ pass[p].examined < MaxBlocks /\ due # {}
             THEN [pass[p] EXCEPT !.pc = "read", !.s = First(due), !.row = rollup[First(due)],
                                  !.pages = pass[p].pages + 1, !.limit = LowerOf(RollPage, MaxBlocks - pass[p].examined)]
             ELSE [Resting EXCEPT !.pc = "over", !.failed = pass[p].failed]]
      /\ UNCHANGED <<contentVars, rollVars, jobVars, rplan, struck, failures>>

(* rollupPage: the blocks behind the cursor, as the shard has them now.     *)
ReadPage(p) ==
  LET row == pass[p].row  bl == Transcript[shard[pass[p].s]]
      page == IF row.finishing THEN <<>> ELSE SubSeq(bl, row.cursor + 1, LowerOf(Len(bl), row.cursor + pass[p].limit))
  IN  /\ pass[p].pc = "read" /\ pass[p].s \notin rplan.poison
      /\ pass' = [pass EXCEPT ![p] = [pass[p] EXCEPT !.pc = "known", !.page = page, !.examined = pass[p].examined + Len(page)]]
      /\ UNCHANGED <<contentVars, rollVars, jobVars, rplan, struck, failures>>

CallsOf(page) == {page[i].call : i \in DOMAIN page}

(* The calls of the page that earlier pages had.                            *)
ReadKnown(p) ==
  /\ pass[p].pc = "known"
  /\ pass' = [pass EXCEPT ![p] = [pass[p] EXCEPT !.pc = "commit",
                !.known = seen[pass[p].s] \cap CallsOf(pass[p].page)]]
  /\ UNCHANGED <<contentVars, rollVars, jobVars, rplan, struck, failures>>

(* The first block of a turn gives the day of all of it, and the turn is    *)
(* carried from page to page.                                               *)
Opens(page, carry, i) ==
  page[i].turn # carry.turn /\ \A j \in 1..(i - 1) : page[j].turn # page[i].turn
DayOf(page, carry, i) ==
  IF page[i].turn = carry.turn THEN carry.day
  ELSE page[CHOOSE j \in 1..i : page[j].turn = page[i].turn /\ Opens(page, carry, j)].day
Repeats(page, known, i) ==
  page[i].call # NoCall /\ (page[i].call \in known \/ \E j \in 1..(i - 1) : page[j].call = page[i].call)

Counts(page, carry, known) ==
  [d \in Days |->
     LET on == {i \in DOMAIN page : DayOf(page, carry, i) = d}
     IN  [turns |-> Cardinality({i \in on : Opens(page, carry, i)}),
          calls |-> Cardinality(on),
          repeats |-> Cardinality({i \in on : Repeats(page, known, i)})]]

Plus(a, b) == [turns |-> a.turns + b.turns, calls |-> a.calls + b.calls, repeats |-> a.repeats + b.repeats]

Summed(a, b) == [d \in Days |-> Plus(a[d], b[d])]

Carried(p) == pass[p].row.turn

TurnAfter(p) ==
  LET page == pass[p].page
  IN  IF page = <<>> THEN Carried(p)
      ELSE [turn |-> Last(page).turn, day |-> DayOf(page, Carried(p), Len(page))]

(* Mutant: whatever generation has this cursor. *)
UnmovedAny(p) ==
  rollup[pass[p].s].cursor = pass[p].row.cursor /\ Due(pass[p].s)

(* The checkpoint is the one the page was read from.                        *)
Unmoved(p) ==
  LET now == rollup[pass[p].s]
  IN  /\ now.gen = pass[p].row.gen /\ now.cursor = pass[p].row.cursor /\ now.token = pass[p].row.token
      /\ Due(pass[p].s)

(* The keys of a finished session go page by page.                          *)
SeenLeft(s, keys) == {left \in SUBSET keys : Cardinality(keys) - Cardinality(left) = LowerOf(RollPage, Cardinality(keys))}

CommitBatch(p) ==
  LET s == pass[p].s  row == pass[p].row  page == pass[p].page
      complete == Len(page) < pass[p].limit
      keys == seen[s] \cup (CallsOf(page) \ {NoCall})
  IN  IF Unmoved(p)
        THEN \E left \in IF complete THEN SeenLeft(s, keys) ELSE {keys} :
               /\ seen' = [seen EXCEPT ![s] = left]
               /\ buckets' = [buckets EXCEPT ![s] = Summed(@, Counts(page, Carried(p), pass[p].known))]
               /\ rollup' = [rollup EXCEPT ![s] =
                     IF complete /\ left = {}
                       THEN [row EXCEPT !.status = "ready", !.cursor = row.cursor + Len(page), !.finishing = TRUE,
                                        !.turn = NoTurn, !.token = 0]
                       ELSE [row EXCEPT !.status = "building", !.cursor = row.cursor + Len(page),
                                        !.finishing = complete, !.turn = TurnAfter(p), !.token = row.token + 1]]
               /\ Touched(s)
        ELSE UNCHANGED rollVars

AfterPage(p) == [pass[p] EXCEPT !.pc = "select", !.s = 0, !.row = NoRow, !.page = <<>>, !.known = {}, !.limit = 0]

CommitPage(p) ==
  /\ pass[p].pc = "commit"
  /\ CommitBatch(p)
  /\ pass' = [pass EXCEPT ![p] = AfterPage(p)]
  /\ UNCHANGED <<contentVars, jobVars, rplan, struck, failures>>

(* A call of the page fails; the batch may have been committed all the same.*)
FailPage(p) ==
  /\ \/ pass[p].pc = "read" /\ pass[p].s \in rplan.poison /\ UNCHANGED <<failures, rollVars>>
     \/ /\ pass[p].pc \in {"known", "commit"} /\ failures < rplan.failures /\ failures' = failures + 1
        /\ \/ UNCHANGED rollVars
           \/ pass[p].pc = "commit" /\ CommitBatch(p)
  /\ Step(p, "defer")
  /\ UNCHANGED <<contentVars, jobVars, rplan, struck>>

(* A page that failed goes to the end of the order, unless another pass     *)
(* moved its checkpoint.                                                    *)
Defer(p) ==
  /\ pass[p].pc = "defer"
  /\ IF Unmoved(p) THEN Touched(pass[p].s) /\ UNCHANGED <<rollup, buckets, seen>> ELSE UNCHANGED rollVars
  /\ pass' = [pass EXCEPT ![p] = [AfterPage(p) EXCEPT !.failed = pass[p].failed \cup {pass[p].s}]]
  /\ UNCHANGED <<contentVars, jobVars, rplan, struck, failures>>

(* The selection or that bookkeeping fails: the pass is over.               *)
FailPass(p) ==
  /\ pass[p].pc \in {"select", "defer"} /\ failures < rplan.failures /\ failures' = failures + 1
  /\ pass' = [pass EXCEPT ![p] = [Resting EXCEPT !.pc = "over", !.thrown = TRUE]]
  /\ UNCHANGED <<contentVars, rollVars, jobVars, rplan, struck>>

EndScheduled ==
  /\ pass["scheduled"].pc = "over" /\ pass' = [pass EXCEPT !["scheduled"] = Resting]
  /\ UNCHANGED <<contentVars, rollVars, jobVars, rplan, struck, failures>>

-----------------------------------------------------------------------------
(* The manual job.                                                          *)

Terminal(status) == status \in {"complete", "partial", "failed"}

(* enqueueSessionRollup: the row, the message, and a row that fails when    *)
(* the queue did not take it, as far as the request can tell.               *)
Submit ==
  /\ caller = "new" /\ caller' = "send"
  /\ job' = [job EXCEPT !.status = "queued"]
  /\ UNCHANGED <<contentVars, rollVars, pass, delivery, rplan, struck, failures>>

SendJob ==
  /\ caller = "send"
  /\ \/ caller' = "done" /\ delivery' = [pc |-> "queued", tries |-> 0] /\ UNCHANGED struck
     \/ RollStrikes("ambiguous") /\ caller' = "reject"
        /\ delivery' \in {delivery, [pc |-> "queued", tries |-> 0]}
  /\ UNCHANGED <<contentVars, rollVars, pass, job, rplan, failures>>

RejectJob ==
  /\ caller = "reject" /\ caller' = "done"
  /\ job' = IF job.status = "queued" THEN [job EXCEPT !.status = "failed"] ELSE job
  /\ UNCHANGED <<contentVars, rollVars, pass, delivery, rplan, struck, failures>>

(* A day without a start; twenty minutes after the claim, when an           *)
(* invocation, which ends after fifteen, has at most a last call in flight. *)
RunLate ==
  /\ ~job.late /\ job' = [job EXCEPT !.late = TRUE]
  /\ \/ job.status = "queued" /\ RollStrikes("late")
     \/ job.status = "queued" /\ delivery.pc = "gone" /\ UNCHANGED struck
     \/ job.status = "running" /\ pass["manual"].pc \in {"idle", "over"} /\ UNCHANGED struck
  /\ UNCHANGED <<contentVars, rollVars, pass, caller, delivery, rplan, failures>>

(* failExpiredJob *)
Expired(j) == IF j.late /\ j.status \in {"queued", "running"} THEN [j EXCEPT !.status = "failed", !.owned = FALSE] ELSE j

Poll ==
  /\ Expired(job) # job /\ job' = Expired(job)
  /\ UNCHANGED <<contentVars, rollVars, pass, caller, delivery, rplan, struck, failures>>

(* consumeSessionRollup *)
Deliver ==
  /\ delivery.pc = "queued" /\ job' = Expired(job)
  /\ delivery' = [delivery EXCEPT !.pc = "claim"]
  /\ UNCHANGED <<contentVars, rollVars, pass, caller, rplan, struck, failures>>

(* The message comes back, as often as the queue's limit allows.            *)
Retried == IF delivery.tries < MaxRetries THEN [pc |-> "queued", tries |-> delivery.tries + 1]
           ELSE [pc |-> "gone", tries |-> 0]
Acked == [pc |-> "gone", tries |-> 0]

(* Mutant: a job that was given up is run after all. *)
JobClaimableAny == job.status # "running" /\ ~(job.status \in {"complete", "partial"})

JobClaimable == job.status = "queued"

Claim ==
  /\ delivery.pc = "claim"
  /\ IF JobClaimable
       THEN /\ job' = [status |-> "running", owned |-> TRUE, late |-> FALSE]
            /\ pass' = [pass EXCEPT !["manual"] = [Resting EXCEPT !.pc = "select"]]
            /\ delivery' = [delivery EXCEPT !.pc = "run"]
       ELSE /\ delivery' = IF job.status = "running" THEN Retried ELSE Acked
            /\ UNCHANGED <<job, pass>>
  /\ UNCHANGED <<contentVars, rollVars, caller, rplan, struck, failures>>

(* A delivery that fails altogether.                                        *)
Outage ==
  /\ delivery.pc \in {"queued", "claim"} /\ "outage" \in rplan.faults
  /\ delivery' = Retried
  /\ UNCHANGED <<contentVars, rollVars, pass, job, caller, rplan, struck, failures>>

(* The result, as long as the attempt owns the job.                         *)
Persist ==
  /\ pass["manual"].pc = "over" /\ pass' = [pass EXCEPT !["manual"] = Resting]
  /\ IF job.status = "running" /\ job.owned
       THEN /\ job' = [status |-> IF pass["manual"].thrown THEN "failed"
                                 ELSE IF pass["manual"].failed # {} THEN "partial" ELSE "complete",
                       owned |-> FALSE, late |-> FALSE]
            /\ delivery' = IF delivery.pc = "run" THEN Acked ELSE delivery
       ELSE /\ delivery' = IF delivery.pc = "run" THEN Retried ELSE delivery
            /\ UNCHANGED job
  /\ UNCHANGED <<contentVars, rollVars, caller, rplan, struck, failures>>

(* An invocation dies; the queue delivers its message again.                *)
CrashPass(p) ==
  /\ pass[p].pc # "idle" /\ RollStrikes("crash")
  /\ pass' = [pass EXCEPT ![p] = Resting]
  /\ delivery' = IF p = "manual" /\ delivery.pc = "run" THEN Retried ELSE delivery
  /\ UNCHANGED <<contentVars, rollVars, job, caller, rplan, failures>>

-----------------------------------------------------------------------------
WriteStep == (\E s \in RollSessions : BeginWrite(s)) \/ WriteBlocks \/ PublishSession
PassStep(p) ==
  SelectCheckpoint(p) \/ ReadPage(p) \/ ReadKnown(p) \/ CommitPage(p) \/ FailPage(p) \/ Defer(p) \/ FailPass(p)
ScheduledStep == StartScheduled \/ PassStep("scheduled") \/ EndScheduled
ManualStep == PassStep("manual") \/ Persist
JobStep == SendJob \/ RejectJob \/ Deliver \/ Claim

RollupNext ==
  \/ \E s \in RollSessions : Upload(s)
  \/ WriteStep \/ ScheduledStep \/ ManualStep \/ Submit \/ JobStep \/ Outage \/ RunLate \/ Poll
  \/ \E p \in Passes : CrashPass(p)

(* The cron runs daily, the queue delivers, time passes and the caller      *)
(* polls its job.                                                           *)
RollupFairness ==
  /\ WF_rollupVars(WriteStep) /\ WF_rollupVars(ScheduledStep) /\ WF_rollupVars(ManualStep)
  /\ WF_rollupVars(JobStep) /\ WF_rollupVars(RunLate) /\ WF_rollupVars(Poll)

RollupSpec == RollupInit /\ [][RollupNext]_rollupVars /\ RollupFairness

-----------------------------------------------------------------------------
RollupTypeOK ==
  /\ \A s \in RollSessions :
       /\ rollup[s].status \in {"none", "pending", "building", "ready"}
       /\ rollup[s].cursor <= Len(Transcript[shard[s]]) \/ ~indexed[s]
       /\ seen[s] \cap {NoCall} = {}
  /\ job.status \in {"absent", "queued", "running", "complete", "partial", "failed"}
  /\ job.owned => job.status = "running"
  /\ delivery.tries <= MaxRetries

(* What a whole transcript counts to.                                       *)
CountedOnce(bl) == Counts(bl, NoTurn, {})

(* Counts that are published are those of the blocks of the session, each   *)
(* counted once, whatever passes overlapped, failed or died on the way.     *)
PublishedIsExact ==
  \A s \in RollSessions :
    indexed[s] /\ rollup[s].status = "ready" => buckets[s] = CountedOnce(Transcript[shard[s]])

(* No cursor passes the end of a transcript, and counts are published only  *)
(* of a whole one (session-rollup.ts).                                      *)
CountsAreExact == RollupTypeOK /\ PublishedIsExact

(* A job that was given up, or is done, stays so: it is never run again and *)
(* never gets a result.                                                     *)
JobIsDecidedOnce == [][Terminal(job.status) => job'.status = job.status]_rollupVars

(* A session whose pages fail for ever does not keep the others from their  *)
(* counts, and a submitted job ends.                                        *)
RollupRests ==
  /\ \A s \in RollSessions : s \in rplan.poison \/ (rollup[s].status = "ready" /\ indexed[s])
  /\ job.status \notin {"queued", "running"}
=============================================================================
