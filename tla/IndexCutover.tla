---------------------------- MODULE IndexCutover ----------------------------
(***************************************************************************)
(* The protected deployment that moves production from the block index in  *)
(* the main database to the shards: the deploy job of                      *)
(* .github/workflows/ci.yml with the commands of infra/cf/index-control.mjs *)
(* and the seed and the proofs of hub/scripts/lib/index-migration.mjs.     *)
(*                                                                         *)
(* One job runs at a time.  It may fail or die between any two requests;   *)
(* the next one decides from the checkpoints on the first shard where to   *)
(* go on.  The copy of the blocks is IndexCopy: here it makes progress or  *)
(* completes.  Requests of the worker of before may still change sessions. *)
(***************************************************************************)
EXTENDS Naturals, FiniteSets

CONSTANTS Sessions,     \* session ids in the order of the scan, 1..n
          Shards,       \* shard databases
          Queues,       \* queues the worker consumes
          PageSessions, \* SEED_PAGE_ROWS
          MaxVersion,   \* bound: changes of a session
          MaxRevision,  \* bound: commits on main
          CutoverPlans  \* bound: faults of a behaviour

ASSUME CutoverAssumption ==
  /\ Sessions \subseteq Nat \ {0} /\ IsFiniteSet(Sessions)
  /\ {PageSessions, MaxVersion, MaxRevision} \subseteq Nat \ {0}
  /\ CutoverPlans \subseteq [crashes : Nat, fails : Nat, partials : Nat, late : Nat, pushes : Nat]

VARIABLES head,       \* commit of the main branch
          worker,     \* what is deployed
          consumers,  \* queues that deliver to it
          busy,       \* queue or cron work is running
          applied,    \* main migrations: 1 drops the legacy tables, 2 adds the outbox
          main,       \* main[s]: catalog version of a session
          outbox,     \* session_catalog_outbox: <<s, version>>
          catalog,    \* catalog[k][s]: version a shard has
          proof,      \* the checkpoints of index_migration_state
          job,        \* the deployment job; paused: it has tried to pause the consumers
          cplan,      \* the behaviour's plan
          cused       \* faults so far

sideVars == <<head, cplan>>
cutoverVars == <<head, worker, consumers, busy, applied, main, outbox, catalog, proof, job, cplan, cused>>

Nothing == [state |-> "none"]

NoSeed == [state |-> "none", after |-> 0, rows |-> 0]

IdleJob == [pc |-> "idle", rev |-> 0, layout |-> "none", paused |-> FALSE,
            seed |-> NoSeed, page |-> <<>>, scan |-> FALSE, shards |-> {}]

Covered(page) == DOMAIN page

CutoverInit ==
  /\ cplan \in CutoverPlans
  /\ head = 1
  /\ worker = [mode |-> "active", rev |-> 0] /\ consumers = Queues /\ busy = TRUE
  /\ applied = 0
  /\ main = [s \in Sessions |-> 0] /\ outbox = {}
  /\ catalog = [k \in Shards |-> [s \in Sessions |-> 0]]
  /\ proof = [copy |-> "none", seed |-> NoSeed, ready |-> Nothing, active |-> Nothing,
              freeze |-> Nothing, atomic |-> Nothing]
  /\ job = IdleJob
  /\ cused = [crashes |-> 0, fails |-> 0, partials |-> 0, late |-> 0]

-----------------------------------------------------------------------------
(* The deployed worker and the commits behind it.                           *)

Push ==
  /\ head < MaxRevision /\ head <= cplan.pushes /\ head' = head + 1
  /\ UNCHANGED <<worker, consumers, busy, applied, main, outbox, catalog, proof, job, cplan, cused>>

(* Queue and cron work begins only where the hub is active: cron also when  *)
(* the consumers are paused.                                                *)
Begin ==
  /\ worker.mode = "active" /\ ~busy /\ busy' = TRUE
  /\ UNCHANGED <<worker, consumers, applied, main, outbox, catalog, proof, job, sideVars, cused>>

(* It ends before the drain's sixteen minutes do.                           *)
Finish ==
  /\ busy /\ busy' = FALSE
  /\ proof' = [proof EXCEPT !.freeze = IF @ = Nothing THEN @ ELSE [@ EXCEPT !.waits = FALSE]]
  /\ UNCHANGED <<worker, consumers, applied, main, outbox, catalog, job, sideVars, cused>>

(* A change of a session: by the active worker, by work that still runs, or *)
(* by a request that was admitted before maintenance.                       *)
Change(s) ==
  /\ main[s] < MaxVersion
  /\ IF worker.mode = "active" \/ busy THEN UNCHANGED cused
     ELSE cused.late < cplan.late /\ cused' = [cused EXCEPT !.late = @ + 1]
  /\ applied = 2
  /\ main' = [main EXCEPT ![s] = @ + 1]
  /\ outbox' = outbox \cup {<<s, main[s] + 1>>}
  /\ UNCHANGED <<worker, consumers, busy, applied, catalog, proof, job, sideVars>>

(* The worker's own propagation to a shard (SessionCatalog).                *)
Propagate(s, k) ==
  /\ worker.mode = "active" \/ busy
  /\ \E o \in outbox : o[1] = s
  /\ catalog[k][s] < main[s]
  /\ catalog' = [catalog EXCEPT ![k][s] = main[s]]
  /\ UNCHANGED <<worker, consumers, busy, applied, main, outbox, proof, job, sideVars, cused>>

-----------------------------------------------------------------------------
(* The job.                                                                 *)

Step(pc) == job' = [job EXCEPT !.pc = pc]

(* A failed step, with the step that fails closed behind it if the pause of *)
(* the consumers was tried, whether there were any or not.                  *)
Failed == job' = IF job.paused THEN [IdleJob EXCEPT !.pc = "repause", !.rev = job.rev] ELSE IdleJob

jobVars == <<worker, consumers, busy, applied, main, outbox, catalog, sideVars, cused>>

(* The step that fails closed deploys the maintenance worker even if it     *)
(* could not pause the consumers again.                                     *)
Fallback ==
  CASE job.pc = "repause" -> Step("redeploy")
    [] job.pc = "redeploy" -> job' = IdleJob
    [] OTHER -> Failed

(* Any request fails, or the job is cancelled.                              *)
Fails ==
  /\ job.pc # "idle" /\ cused.fails < cplan.fails
  /\ cused' = [cused EXCEPT !.fails = @ + 1]
  /\ Fallback
  /\ UNCHANGED <<worker, consumers, busy, applied, main, outbox, catalog, proof, sideVars>>

(* The runner is gone, and nothing fails closed.                            *)
Dies ==
  /\ job.pc # "idle" /\ cused.crashes < cplan.crashes
  /\ cused' = [cused EXCEPT !.crashes = @ + 1]
  /\ job' = IdleJob
  /\ UNCHANGED <<worker, consumers, busy, applied, main, outbox, catalog, proof, sideVars>>

(* Of a run and its attempt it is only ever asked whether a checkpoint is   *)
(* this one's: those of earlier attempts have the cycle 0.                  *)
Aged(c) == IF c = Nothing THEN c ELSE [c EXCEPT !.cycle = 0]

AgedWith(c) == IF c = Nothing THEN c ELSE [c EXCEPT !.ready = Aged(@)]

(* The job of the newest commit, or its next attempt, until it is deployed  *)
(* and verified.                                                            *)
StartJob ==
  /\ job.pc = "idle"
  /\ \/ proof.active = Nothing
     \/ worker # [mode |-> "active", rev |-> head]
  /\ job' = [IdleJob EXCEPT !.pc = "initialize", !.rev = head]
  /\ proof' = [proof EXCEPT !.freeze = Aged(@), !.atomic = Aged(@), !.ready = Aged(@),
                               !.active = AgedWith(@)]
  /\ UNCHANGED jobVars

ThisCycle == [state |-> "this", rev |-> job.rev, cycle |-> 1]

(* initialize proves the atomicity of batches for this attempt.             *)
Initialize ==
  /\ job.pc = "initialize" /\ proof' = [proof EXCEPT !.atomic = ThisCycle] /\ Step("state")
  /\ UNCHANGED jobVars

(* assertReadyProof, assertActivationProof: a proof binds what it proves.   *)
Binds(ready) == ready.seed = proof.seed /\ proof.copy = "complete" /\ proof.seed.state = "complete"

Proven ==
  /\ proof.ready # Nothing => Binds(proof.ready)
  /\ proof.active # Nothing => proof.ready # Nothing /\ proof.active.ready = proof.ready

(* classifyIndexMigration *)
Layout == CASE applied = 0 /\ proof.copy = "none" -> "legacy"
            [] /\ applied > 0 /\ proof.copy = "complete"
               /\ proof.seed.state = "complete" /\ proof.active # Nothing -> "active"
            [] OTHER -> "pending"

Classifies == Proven /\ (applied = 0 \/ proof.copy = "complete")

Classify ==
  /\ job.pc = "state"
  /\ IF Classifies
       THEN job' = [job EXCEPT !.layout = Layout, !.pc = IF Layout = "active" THEN "migrate" ELSE "pause",
                               !.paused = (Layout # "active")]
       ELSE Failed
  /\ UNCHANGED <<proof, jobVars>>

(* pauseConsumers deletes one consumer after the other.                     *)
Pause ==
  /\ job.pc \in {"pause", "repause"}
  /\ IF consumers = {}
       THEN Step(IF job.pc = "pause" THEN "maintain" ELSE "redeploy") /\ UNCHANGED consumers
       ELSE (\E q \in consumers : consumers' = consumers \ {q}) /\ UNCHANGED job
  /\ UNCHANGED <<worker, busy, applied, main, outbox, catalog, proof, sideVars, cused>>

Maintain ==
  /\ job.pc \in {"maintain", "redeploy"}
  /\ worker' = [mode |-> "maintenance", rev |-> job.rev]
  /\ job' = IF job.pc = "redeploy" THEN IdleJob ELSE [job EXCEPT !.pc = "drain"]
  /\ UNCHANGED <<consumers, busy, applied, main, outbox, catalog, proof, sideVars, cused>>

Gate == worker = [mode |-> "maintenance", rev |-> job.rev]

(* Mutant: a checkpoint of an earlier attempt is good enough. *)
AnyCycle(c) == c # Nothing

SameCycle(c) == c # Nothing /\ c.rev = job.rev /\ c.cycle = 1

(* drain: the freeze checkpoint of this attempt starts the clock.           *)
Drain ==
  /\ job.pc = "drain"
  /\ IF ~Gate THEN Failed /\ UNCHANGED proof
     ELSE IF ~SameCycle(proof.freeze)
       THEN /\ proof' = [proof EXCEPT !.freeze =
                           [state |-> "frozen", rev |-> job.rev, cycle |-> 1, waits |-> busy]]
            /\ UNCHANGED job
     ELSE ~proof.freeze.waits /\ Step("copy") /\ UNCHANGED proof
  /\ UNCHANGED jobVars

(* assertDrained *)
Drained == SameCycle(proof.freeze) /\ ~proof.freeze.waits

(* A pass may use up its budget; the job then fails with what it copied.    *)
Copy ==
  /\ job.pc = "copy"
  /\ IF ~Gate \/ ~Drained \/ ~SameCycle(proof.atomic)
       THEN Failed /\ UNCHANGED <<proof, cused>>
       ELSE \/ proof' = [proof EXCEPT !.copy = "complete"] /\ Step("migrate") /\ UNCHANGED cused
            \/ /\ proof.copy # "complete" /\ cused.partials < cplan.partials
               /\ cused' = [cused EXCEPT !.partials = @ + 1]
               /\ proof' = [proof EXCEPT !.copy = "pending"] /\ Failed
  /\ UNCHANGED <<worker, consumers, busy, applied, main, outbox, catalog, sideVars>>

(* The main migrations, each a transaction of its own.  The guard of the    *)
(* first one aborts it unless the copy has emptied the source.              *)
Migrate ==
  /\ job.pc = "migrate"
  /\ CASE applied = 2 -> /\ Step(IF job.layout = "active" THEN "stale" ELSE "seed")
                         /\ UNCHANGED <<applied, main, outbox>>
       [] applied = 1 -> /\ applied' = 2 /\ main' = [s \in Sessions |-> 1]
                         /\ outbox' = Sessions \X {1} /\ UNCHANGED job
       [] OTHER       -> /\ IF proof.copy = "complete" THEN applied' = 1 /\ UNCHANGED job
                            ELSE Failed /\ UNCHANGED applied
                         /\ UNCHANGED <<main, outbox>>
  /\ UNCHANGED <<worker, consumers, busy, catalog, proof, sideVars, cused>>

-----------------------------------------------------------------------------
(* seedFrozenCatalog.                                                       *)

(* A proof that no longer holds goes before the seed becomes pending.       *)
SeedOpen(ready) == IF ready # Nothing THEN "unready" ELSE "pending"

Resumed(seed) == IF seed.state = "pending" THEN seed ELSE [NoSeed EXCEPT !.state = "pending"]

Seed ==
  /\ job.pc = "seed"
  /\ IF ~Gate \/ ~Drained \/ proof.copy # "complete" \/ proof.active # Nothing \/ ~Proven
       THEN Failed
       ELSE job' = [job EXCEPT !.pc = SeedOpen(proof.ready),
                               !.seed = Resumed(proof.seed)]
  /\ UNCHANGED <<proof, jobVars>>

Unready ==
  /\ job.pc = "unready" /\ proof' = [proof EXCEPT !.ready = Nothing] /\ Step("pending")
  /\ UNCHANGED jobVars

SeedCheckpoint ==
  /\ job.pc = "pending" /\ proof' = [proof EXCEPT !.seed = job.seed]
  /\ Step(IF job.seed.state = "complete" THEN "ready" ELSE "scan")
  /\ UNCHANGED jobVars

(* The first ids of a set, as many as a page has.                           *)
PageOf(ids) == {s \in ids : Cardinality({t \in ids : t < s}) < PageSessions}

(* Mutant: entries behind the cursor are left to the worker. *)
OwedAhead(after) == {o[1] : o \in {e \in outbox : e[1] > after}}

(* What is still owed when the scan is over, behind the cursor as well.     *)
Owed(after) == {o[1] : o \in outbox}

Scan ==
  LET ahead == {s \in Sessions : s > job.seed.after}
      ids == IF ahead # {} THEN PageOf(ahead) ELSE PageOf(Owed(job.seed.after))
  IN  /\ job.pc = "scan"
      /\ IF ~Gate THEN Failed
         ELSE IF ids = {} THEN Step("last")
         ELSE job' = [job EXCEPT !.pc = "snapshot", !.page = [s \in ids |-> main[s]], !.scan = ahead # {}]
      /\ UNCHANGED <<proof, jobVars>>

(* The rows are read in one batch that has to have the same versions.       *)
Snapshot ==
  /\ job.pc = "snapshot"
  /\ IF \E s \in Covered(job.page) : main[s] # job.page[s] THEN Failed
     ELSE job' = [job EXCEPT !.pc = "shards", !.shards = Shards]
  /\ UNCHANGED <<proof, jobVars>>

(* A shard takes a version that is not older than its own, and is read back. *)
SeedShard(k) ==
  /\ job.pc = "shards" /\ k \in job.shards
  /\ catalog' = [catalog EXCEPT ![k] =
       [s \in Sessions |-> IF s \in Covered(job.page) /\ @[s] < job.page[s] THEN job.page[s] ELSE @[s]]]
  /\ IF \E s \in Covered(job.page) : catalog'[k][s] # job.page[s] THEN Failed
     ELSE job' = [job EXCEPT !.shards = @ \ {k}, !.pc = IF job.shards = {k} THEN "retire" ELSE @]
  /\ UNCHANGED <<worker, consumers, busy, applied, main, outbox, proof, sideVars, cused>>

(* Mutant: an entry goes with its session, whichever version it is of. *)
RetirableById(o, page) == o[1] \in Covered(page)

Retirable(o, page) == o[1] \in Covered(page) /\ o[2] <= page[o[1]]

SeedRetire ==
  LET page == job.page
      last == CHOOSE s \in Covered(page) : \A t \in Covered(page) : t <= s
  IN  /\ job.pc = "retire"
      /\ IF ~Gate THEN Failed /\ UNCHANGED outbox
         ELSE /\ outbox' = {o \in outbox : ~Retirable(o, page)}
              /\ job' = [job EXCEPT !.pc = "pending", !.page = <<>>,
                           !.seed = [job.seed EXCEPT !.rows = job.seed.rows + Cardinality(Covered(page)),
                                                     !.after = IF job.scan THEN last ELSE job.seed.after]]
      /\ UNCHANGED <<worker, consumers, busy, applied, main, catalog, proof, sideVars, cused>>

SeedLast ==
  /\ job.pc = "last"
  /\ IF ~Gate \/ outbox # {} THEN Failed
     ELSE job' = [job EXCEPT !.pc = "pending", !.seed.state = "complete"]
  /\ UNCHANGED <<proof, jobVars>>

-----------------------------------------------------------------------------
(* verifyReadyIndex, the activation and verifyActiveIndex.                  *)

SameCounts == \A k \in Shards : {s \in Sessions : catalog[k][s] > 0} = {s \in Sessions : main[s] > 0}

Ready ==
  /\ job.pc = "ready"
  /\ IF \/ ~Gate \/ ~Drained \/ proof.active # Nothing \/ ~Proven
        \/ proof.copy # "complete" \/ proof.seed.state # "complete"
        \/ outbox # {} \/ applied = 0 \/ ~SameCounts
       THEN Failed ELSE Step("certify")
  /\ UNCHANGED <<proof, jobVars>>

Certify ==
  /\ job.pc = "certify"
  /\ IF ~Gate \/ outbox # {} THEN Failed /\ UNCHANGED proof
     ELSE /\ proof' = [proof EXCEPT !.ready =
                         [state |-> "ready", seed |-> proof.seed, rev |-> job.rev, cycle |-> 1]]
          /\ Step("stale")
  /\ UNCHANGED jobVars

(* Main advanced: the freeze is kept for the next protected run.            *)
Stale ==
  /\ job.pc = "stale"
  /\ IF head # job.rev THEN Failed ELSE Step("activate")
  /\ UNCHANGED <<proof, jobVars>>

Activate ==
  /\ job.pc = "activate"
  /\ worker' = [mode |-> "active", rev |-> job.rev] /\ consumers' = Queues
  /\ Step("reconcile")
  /\ UNCHANGED <<busy, applied, main, outbox, catalog, proof, sideVars, cused>>

(* reconcileIndexCatalog: one page of the outbox to every shard.            *)
Reconcile ==
  /\ job.pc = "reconcile"
  /\ LET page == [s \in PageOf({o[1] : o \in outbox}) |-> main[s]]
     IN  /\ catalog' = [k \in Shards |-> [s \in Sessions |->
                          IF s \in Covered(page) THEN page[s] ELSE catalog[k][s]]]
         /\ outbox' = {o \in outbox : ~Retirable(o, page)}
  /\ Step("verify")
  /\ UNCHANGED <<worker, consumers, busy, applied, main, proof, sideVars, cused>>

VerifyActive ==
  LET initial == proof.active = Nothing
  IN  /\ job.pc = "verify"
      /\ IF \/ proof.ready = Nothing \/ ~Proven \/ worker # [mode |-> "active", rev |-> job.rev]
            \/ initial /\ ~SameCycle(proof.ready)
           THEN Failed /\ UNCHANGED proof
           ELSE /\ proof' = [proof EXCEPT !.active =
                               IF initial THEN [state |-> "active", ready |-> proof.ready] ELSE @]
                /\ job' = IdleJob
      /\ UNCHANGED jobVars

JobStep ==
  \/ StartJob \/ Initialize \/ Classify \/ Pause \/ Maintain \/ Drain \/ Copy \/ Migrate
  \/ Seed \/ Unready \/ SeedCheckpoint \/ Scan \/ Snapshot \/ (\E k \in Shards : SeedShard(k))
  \/ SeedRetire \/ SeedLast \/ Ready \/ Certify \/ Stale \/ Activate \/ Reconcile \/ VerifyActive

CutoverNext ==
  \/ Push \/ Begin \/ Finish
  \/ \E s \in Sessions : Change(s) \/ \E k \in Shards : Propagate(s, k)
  \/ JobStep \/ Fails \/ Dies

CutoverSpec == CutoverInit /\ [][CutoverNext]_cutoverVars

(* A failed deployment is run again, and work ends.                         *)
CutoverFairSpec == CutoverSpec /\ WF_cutoverVars(JobStep) /\ WF_cutoverVars(Finish)

-----------------------------------------------------------------------------
CutoverTypeOK ==
  /\ worker.mode \in {"active", "maintenance"} /\ worker.rev \in 0..head
  /\ consumers \subseteq Queues /\ busy \in BOOLEAN /\ applied \in 0..2
  /\ main \in [Sessions -> 0..MaxVersion] /\ outbox \subseteq Sessions \X (1..MaxVersion)
  /\ catalog \in [Shards -> [Sessions -> 0..MaxVersion]]
  /\ proof.copy \in {"none", "pending", "complete"}
  /\ proof.seed.state \in {"none", "pending", "complete"} /\ proof.seed.after \in Sessions \cup {0}
  /\ proof.seed.rows >= Cardinality({s \in Sessions : s <= proof.seed.after})
  /\ job.rev \in 0..head /\ job.layout \in {"none", "legacy", "pending", "active"}

(* Whatever died, the checkpoints say where to go on: no proof is left that *)
(* does not hold, and the legacy tables go only after a complete copy.      *)
Classifiable == Classifies

(* The blocks, the schema and the seed move only while nothing else of the  *)
(* hub runs: no consumer, no work of the worker of before.                  *)
MovesAreAlone ==
  [][proof.copy' # proof.copy \/ applied' # applied \/ proof.seed' # proof.seed =>
       worker.mode = "maintenance" /\ consumers = {} /\ ~busy]_cutoverVars

(* Once the seed is complete every shard has the newest version of every    *)
(* session, or the outbox still owes it.                                    *)
CatalogIsWhole ==
  proof.seed.state = "complete" =>
    \A s \in Sessions, k \in Shards :
      catalog[k][s] = main[s] \/ \E o \in outbox : o[1] = s /\ o[2] > catalog[k][s]

(* The hub is made active only over a complete copy, a complete seed and a  *)
(* proof of this attempt, or of the first activation.                       *)
ActiveIsReady ==
  [][worker' # worker /\ worker'.mode = "active" =>
       /\ applied = 2 /\ proof.copy = "complete" /\ Proven
       /\ proof.active = Nothing => proof.ready # Nothing /\ SameCycle(proof.ready)]_cutoverVars

(* Whatever step of the job dies, its checkpoints say where to go on, and   *)
(* the catalog that it seeds is whole (index-control.mjs).                  *)
CutoverIsWhole == CutoverTypeOK /\ Classifiable /\ CatalogIsWhole

(* Nothing is moved or switched under work that still runs or before its    *)
(* proof (index-migration.mjs).                                             *)
MovesAreSafe == MovesAreAlone /\ ActiveIsReady

(* The cutover ends: attempts that fail are repeated until one activates.   *)
Activated == proof.active # Nothing /\ worker = [mode |-> "active", rev |-> head]
=============================================================================
