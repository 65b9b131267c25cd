# Verification of agent-sessions-backup

Collectors on developers' machines upload agent transcripts to a hub, a
Cloudflare Worker over R2 (raw objects), D1 (one main database and index
shards) and queues.  The hub parses each transcript into a searchable session,
counts and prices what it used, and is deployed, migrated and previewed by CI.
This directory holds TLA+ models of these protocols, the TLC configurations
that check them on small instances, and proofs that TLAPS checks for instances
of any size.  Paths below are relative to the repository (`src/` in
PROJECT.json); `consumer.ts` is `hub/src/ingest/consumer.ts`.

    tlc -workers 2 -config MCIngest.cfg MCIngest     # one run
    tlapm SessionCatalogProofs.tla                   # the proofs of one component

## Inventory

Nothing in this system is atomic across stores: R2, the main database, a shard
and a queue share no transaction, a D1 batch is atomic on one database only,
queues deliver at least once, and a Worker, a collector or a CI job may die
between any two calls.  Almost every correctness argument in the source is
therefore a guarded statement, a version, a hash pin, a lease, a checkpoint or
an order of writes.

| Part | State | Operations | What makes it hard | What it owes | Module |
|---|---|---|---|---|---|
| Collector passes (`run.py`, `scanner.py`, `state.py`) | `state.db` rows of files, assets, the cursor of a hub | run, backfill, dry run | files change while they are read; a pass dies; answers get lost | a row that skips a file is never wrong; every file arrives | `Collector` |
| Heartbeat buffer (`run.py`, `state.py`, `ops.ts`) | buffered events, cursor | buffer, compact, page, acknowledge | SQLite reuses ids; lost answers; compaction across the cursor | no event is lost | `Heartbeat` |
| Upload (`api/upload.ts`) | raw object, `raw-prev/` copies, `files` row, session state | PUT, `files/check`, reset, re-enqueue | object and row are written apart; overlapping and abandoned requests | acknowledged bytes survive; new bytes get parsed | `Ingest` |
| Multipart (`api/multipart.ts`) | staging objects, the same rows | create, parts, complete, abort, prune | minutes between reading the row and replacing the object | object and row converge; staging is swept | `Multipart` |
| Parse queue (`queue.ts`, `consumer.ts`) | messages, parse states | deliver, retry, dead-letter, recover | at-least-once, stale hashes, several copies of one session | the best copy is served; a failure falls back to another copy | `Ingest` |
| Index write (`consumer.ts`, `index-shards.ts`) | session row, generation, usage on main; fence, blocks, full-text rows on the shard | invalidate, claim, clear, reserve ids, insert, finalise | chunked writes over two databases; overlapping parses | a ready session is exactly one parse of its file | `IndexWrite` |
| Export archives (`consumer.ts`) | reservations on sibling files, cursors in messages | slices, reservations, deletes, continuation, refresh, release | cleanups of one store compete; owners die | no conversation that an archive has is lost | `ExportCleanup` |
| Session catalog (`session-catalog.ts`, migration 0036) | versioned rows, outbox, shard replicas | triggers, sync, drain, retire | syncs and drains interleave; allowance of subrequests | shards agree before a search trusts them | `SessionCatalog`, `CatalogReplica` |
| Session rollup and its jobs (`session-rollup*.ts`) | checkpoint, generation, buckets, jobs | page, commit, failure; submit, claim, expire | reparses and second passes between pages; ambiguous queues | no turn counted twice; a job decided once | `Rollup` |
| Reindex (`reindex-range.ts`) | job, targets, lease | freeze, dispatch, observe | ambiguous sends, lapsing leases, other owners of the rows | a target is ready only when written anew | `Reindex` |
| Pricing (`pricing*.ts`, `usage-agg.ts`, `session-cost.ts`) | prices, usage rows, subtotals | three passes, price sync, parser's writes, reports | a re-parse between read and write; rows without a price | stored and reported money agree; every payable row is paid | `Pricing`, `UsageCosts` |
| Certificates (`api/certs.ts`, `api/ops.ts`, `cron/prune.ts`) | `machines` slots, `retired_certs`, the CA | renew, swap, roll back, retire, claim, revoke | the CA and D1 are separate; replies get lost | no usable certificate is revoked, none is forgotten | `CertRotation` |
| OAuth broker (`auth/cloudflare-oauth.ts`) | the grant, a mutex, a pending link | connect, refresh, retry, disconnect | rotating tokens, an eviction, a disconnection while a refresh is out | what was disconnected stays so; a refused token is not given again | `Broker` |
| Passkeys and read grants (`auth/webauthn.ts`, `read-grants.ts`, the client's `grant.py`) | credentials, challenges, codes, grants, a cache | enroll, sign in, approve, exchange, revoke | replays, two tabs, expiry at each step | one setup, one use of each touch, a counter that never falls | `Passkeys` |
| Index copy (`scripts/lib/index-migration.mjs`) | source rows, shards, a fenced checkpoint, a freeze | plan, copy, verify, retire | passes that die or are delayed; late writes; an older format | no block is lost; the copy is exact | `IndexCopy` |
| Cutover (`index-control.mjs`, `ci.yml`) | checkpoints of phases, worker mode, consumers, seed | drain, migrate, copy, seed, prove, activate | a job dies anywhere; the next one must classify | nothing moves under running work; it ends | `IndexCutover` |
| Migration runner (`migration-*.mjs`) | journal, installed migrations, checksum ledger | inspect, apply, record, verify | two runners, changing manifests, crashes | the ledger is honest | `MigrationRunner` |
| Previews (`preview-*.mjs`, workflows) | databases, bucket, worker, queue, deployment card | provision, prove, reset, close, sweep | a concurrency group that displaces; cut-short resets | a preview that answers is whole; what is closed goes | `Preview` |
| Parsers, viewer, search, status, watchdog, gateway, tooling | read only or stateless | | | | not modelled |

They interact through D1 rows, objects and queue messages only: a collector's
request writes the object, the row and a message; a delivery reads the object,
writes the index on a shard and the session on main; a trigger on main appends
to the outbox whose drains keep the shards' catalog current; the search reads
the shards only when a drain reports `current`; rollup, pricing and reindex
work on the rows that parses change under them.  PROJECT.json lists every part
with its sources, and each hazard at the line where it bites.

## What is modelled

Each module has the state as variables, one action per call to a store or per
step between two calls, and operators named after the code's functions or
statements; `map` in PROJECT.json gives the lines of every definition.  Where a
module counts on another for detail, its header says so.  A *plan*, chosen by
Init, bounds a behaviour: it lists which contents, requests and faults may
occur and how often, never when.

**SessionCatalog, CatalogReplica.**  A session's row and its stars travel under
one version, the outbox seq of their last change, and form a `Copy`.
`WriteSession`, `DeleteSession`, `Star`, `Unstar` stand for every statement that
fires a trigger of 0036; `Capture`, `Check`, `ReadBulk`, `ReadLarge`,
`StartBatch`, `ApplyShard`, `Retire` are the calls of a sync or a drain, `Fail`
any of them throwing.  Packing by size is any non-empty subset.
`CatalogReplica` is what the protocol promises with no syncs or outbox in
sight: main changes, a shard advances, a session stops being owed when every
shard has it.  `ImplementsReplica` maps `owed` to the sessions with an entry.

**IndexWrite.**  `writeSession` and `clearSessionDerived` for one session over
main and its shard.  `writer[w]` goes through the code's batches in order:
invalidate (main), claim the fence (shard), probe, clear, reserve ids, insert in
chunks, write the usage, check, finalise.  Archives skip the probe, are marked
by hash only and revert instead of failing.  Init includes a session indexed
before sharding, whose block ids follow no order.

**Ingest.**  One session of which several machines hold a copy, from local edit
to ready session.  The collector compares `local` with `known`, asks or sends; a
request goes through `RAW.put`, the upsert, the flip of the session and the
send, each an action; the consumer takes one message at a time
(`max_concurrency` is 1) and goes through read, choice between copies, write,
publication, mark and recovery.  The index write is three actions here.

**Multipart.**  One path: the collector's attempts (create, parts, complete,
abort), a complete in the hub from the read of the row to `recordUploadedObject`
and `convergeMultipartRow`, a PUT of the same path carried over by an
administrator, a parse, and the prune.  A content is the sequence of its parts.

**Collector.**  A pass from scan to exit code over transcripts, databases (read
through a snapshot) and external assets: the fast path on size and time, the
hash, `files/check`, the send, the row, a purge of the hub, a change of hub, a
dry run.  **Heartbeat** is what happens to its events, id by id.

**ExportCleanup.**  Three archives of one store.  A delivery slices an archive,
then scans for what it owned and no longer has, reserves the siblings page by
page, deletes, refreshes, releases and sends them; deliveries may be cut short,
throw, or be dead-lettered, reservations grow stale, uploads and `files/check`
come between any two steps.

**Rollup, Reindex, Pricing, UsageCosts.**  `Rollup` has the scheduled and the
manual pass at once, their selection and bookkeeping, and the job with its lease
and deadlines.  `Reindex` has continuations that hold a lease on the frozen
range, the consumer's part of each target, and other owners of the same rows.
`Pricing` has the three passes as one loop, the nightly sync before them and the
parser's writes.  `UsageCosts` has the arithmetic as operators: one row, a group
of rows as the report prices it, and a tree of sessions.

**CertRotation, Broker, Passkeys.**  One machine's slots, `retired_certs`, the
CA, renewals, the prune and an administrator; a certificate stands for its
fingerprint and its CA id, which may be unknown.  The collector's `renew` is a
stub today (`cli.py:138-139`), so the model gives it what the protocol asks of
it.  `Broker` runs one step at a time between two calls to the outside, as the
durable object does.  `Passkeys` follows a ceremony from challenge to session or
to a code that the client exchanges for a grant and caches.

**IndexCopy, IndexCutover, MigrationRunner, Preview.**  `IndexCopy` is
`copyFrozenIndex` with its fence, freeze and the recovery of checkpoints of its
first version; `IndexCutover` the deploy job around it, where the copy only
makes progress or completes; `MigrationRunner` the journalled application of a
manifest; `Preview` the life of one pull request's preview beside the remains of
others.

## Runs

| Run | Instance | Question |
|---|---|---|
| `catalog` | 2 sessions, 2 shards, 2 invocations, 2 changes, rounds of one session, a row above the bulk limit, 9 calls, 1 failure | do retirement, answers, allowance and shard copies stay right in every interleaving; is it a `CatalogReplica` |
| `catalog_live` | 2 sessions, 1 shard, stars, a sync and a cron drain, an allowance of 6 | does the outbox drain |
| `cert` | 4 certificates; 2 renewals with each kind of fault, or 1 and an administrator | is no usable certificate revoked, none forgotten, nobody locked out |
| `index_write` | a transcript and an archive, 3 contents, 2 writers, 1 upload, 1 star edit, chunks of one row | is a ready session whole, searchable, correctly totalled |
| `ingest` | one copy: 2 edits, or an edit with each kind of fault, or abandoned requests; two copies, one preferred: an edit, a throw, a crash or a repeated message; two equal copies | are acknowledged bytes kept and new bytes parsed; is a parsing session owed something; does the best copy win |
| `copy` | 3 blocks, 2 shards, 2 passes, pages of 2, a late write, a crash, old checkpoints | is no block lost, what is acknowledged final, the complete copy exact; does it complete |
| `deploy` | cutover (2 sessions, 2 shards, 2 queues, 2 commits, each fault once), runner (4 manifests, 2 runners), preview (9 plans) | is what answers whole, are ledgers honest, moves safe; do they end |
| `work` | collector (7 plans), heartbeat (3), multipart (8), ingest of one copy under faults | is what the collector was told true, nothing lost; does everything arrive |
| `jobs` | rollup (2 sessions), reindex (2 targets, 2 continuations), pricing (3 plans), cleanups (3 archives, 2 conversations, 12 plans), all reports on two rows | are counts and rewritten ranges whole, does the money agree, is nothing stranded; do they end |
| `access` | broker (9 plans, 2 requests), passkeys (2 devices, 2 clients, 6 plans), retirement of 4 certificates | is the grant sound, is every touch used once; is everyone served |
| `cert_lockout`, `ingest_displaced` | as small as the history they show | see Findings |

`MCDeploy`, `MCWork`, `MCJobs` and `MCAccess` each hold several components that
do not share state at this grain: Init picks a `part`, whose module moves while
the others stay at one initial state.  A safety property is of one
component and stated in its module, as the conjunction of its parts; the
temporal property of a run says of each component that its work ends.

Why the bounds suffice.  Two invocations, two shards and two versions give every
order of an older and a newer snapshot on an ahead and a lagging shard.  Two
writers of the index are an old and a new one; chunks of one row put a batch
boundary between any two rows.  Two requests per path overlap, and two copies
are enough for one to be preferred, to fail and to be recovered from.  Two
renewals are a winner and a loser, or an abandoned request and its successor.
Three blocks make a full and a partial page, over two shards.  Two continuations
are a holder of the lease and one that took it over; two passes a page's reader
and whoever moved it.  Three archives are an owner, a sibling that has what it
drops and one that does not.  Each fault of a plan strikes once, or as often as
the plan's number says.

No run but the catalog's checks deadlock: plans run out of edits, requests and
faults, and scheduled work with nothing to do is not a step.

## Fairness

All fairness is weak, on a handler's or a job's next step: what began runs on
unless a fault of the plan stops it, and faults are finite.

- `catalog_live`: an invocation runs on; the cron keeps starting drains
  (`worker.ts`, reconcileCatalog).
- `copy`, `deploy`: a job that failed is run again (`Rerun`, `JobStep`), as a
  deployment that stopped in maintenance and a red check ask for; queued work of
  the old worker ends within the drain's wait (`Finish`); the janitor runs daily.
- `work`: scheduled passes repeat; the hub serves requests and the queue
  delivers; staging objects age and the daily prune comes.  For `Ingest` somebody
  repeats the backfill, since a scheduled run asks the hub about no file that it
  remembers as sent (`run.py:289`), so a message lost after its retries waits for
  a backfill.
- `jobs`: crons and deliveries come, leases and reservations age, a caller polls.
  Nobody has to start an administrator's pass.
- `access`: the mutex and requests run on, the client that began goes on, the
  prune comes daily, the CA completes a revocation it accepted, and a claim whose
  owner died ages past its hour.

Fairness is gated by `part`: an action of a frozen component would otherwise be
enabled for ever and never taken, and no behaviour would be fair.  `WorkEnds`
says `[]<>` of the ingested session: a backfill may race every parse and have it
parsed once more, but never leaves it behind.

## Proofs

Each proof module proves its theorems for every value of the constants that
satisfies the named assumption of the component (`CatalogAssumption`, ...),
which TLC evaluates in the component's run.

| Module | Theorem | States | Of the run |
|---|---|---|---|
| `SessionCatalogProofs` | `CompleteWhenRetired`, `ShardsMoveForward`, `AnswersAreHonest`, `Refinement` | `CatalogIsSound`, `NoRegression`, `SyncIsHonest`, `ImplementsReplica` | `catalog` |
| `IndexWriteProofs` | `TypeCorrect`, `SearchRowsMatch`, `FenceKeepsBlocksWhole`, `IndexIsOfItsBytes` | `TypeOK`, `CommittedIsIndexed`, `FenceSeparatesWriters`, `IndexIsWhole` | `index_write` |
| `IngestProofs` | `StatesStayEarned`, `NothingAcknowledgedIsLost` | `StatesAreEarned`, `AcknowledgedIsRecoverable` | `ingest` |
| `IndexCopyProofs` | `NoBlockIsLost`, `CopyStaysSound`, `CheckpointsGoForward` | `NothingLost`, `CopyIsSound`, `AcknowledgedIsFinal` | `copy` |
| `DeployProofs` | `LedgersStayHonest`, `CutoverStaysWhole`, `MovesStaySafe` | `LedgersAreHonest`, `CutoverIsWhole`, `MovesAreSafe` | `deploy` |
| `JobsProofs` | `PublishedCountsAreExact`, `JobsAreDecidedOnce`, `TargetsAreWrittenAnew` | `CountsAreExact`, `JobIsDecidedOnce`, `RangeIsWhole` | `jobs` |
| `WorkProofs` | `PassesAreHonest`, `UploadsStayWhole` | `CollectorIsHonest`, `UploadIsWhole` | `work` |
| `AccessProofs` | `TypeCorrect`, `GraceIsNoPromotion`, `NeverLockedOut`, `BooksAreTrue`, `SlotsStayAlive` | `TypeOK`, `GraceNeverElevates`, `NoLockout`, `RetiredAreTracked`, `SlotsAreAlive` | `cert` |
| `AccessProofs` | `KeysStaySound`, `CountersNeverFall`, `BrokerStaysSound` | `KeysAreSound`, `CountersRise`, `BrokerIsSound` | `access` |

`CountersRise` is the first part of what `AccessIsServed` checks; its other
parts are liveness.  None of the invariants is inductive as it stands; what was
added to each, and why, is this.

**SessionCatalog.**  That a retirement is right depends on what the invocation
read, when, and who accepted it.  `IInv` adds that snapshots and shard copies
are never ahead of main, and equal main's at main's version (`AllBehind`), that
versions never pass the counter (`Counted`), and that snapshots of one version
are equal, whoever took them (`Agree`), which is why re-applying an equal
version changes nothing; that what a shard accepted it has at that version or
above (`AcceptedApplied`); and that main's latest version is in the outbox or
everywhere (`LatestOwed`).  `ShardsMoveForward` and `Refinement` use
`ApplyEffect`: a shard changes only to the applied snapshot, and only upward.
For `AnswersAreHonest`, `HonestInv` adds that what a round read is no older than
what main held when the invocation began, that each id asked for is still to be
taken, in the round, or fresh on every shard (`Accounted`), and that what is
spent and what the round has yet to pay for fit the allowance (`Paid`).

**IndexWrite.**  `FenceInv`: generations are handed out once; while no version
was captured twice, the writer that owns the session's generation has the
highest version of those that run (`OwnerIsNewest`), the one whose version is
the fence's has on the shard what it thinks it inserted (`HolderFills`), and once
the session is ready everybody who would still clear or insert is below the fence
(`ReadyIsFilled`).  `UsageInv` says the same of the usage rows on main, and that
until the second upload a writer whose bytes stand always had them.

**Ingest.**  For the states: what a delivery is about to mark, it has judged, and
the hash in its guarded update is still the row's.  For the bytes: without
crashes, lost objects and requests given up, a file has one request at a time,
and its row and its object agree except between a put and the upsert after it
(`SafeFile`); the preserved predecessors are right because `Extends` is
transitive, which `IngestAssumption` states.

**CertRotation.**  `BooksInv`: a prune that is about to retire a slot read it as
it is now (`PruneKnows`).  `AliveInv`: slots, queue and the hands of renewals
are disjoint, what is free in the queue is active, a claim keeps everybody else
away (`Exclusive`), and no request holds what another one installed
(`HandsAreClean`).  The attempt to prove `SlotsStayAlive` showed that the
exception for operators had been too narrow: a certificate imported with its id,
displaced and revoked may be imported again as "unknown id", which the route
does not look up; `NamesOnlyNew` names the exception as it is.

**IndexCopy.**  Until the freeze one pass works alone, on the newest checkpoint,
and the source is the truth (`AloneInv`).  After it every row a pass writes is
the truth, so a shard that is right stays right whoever writes, and a pass that
verified a page may acknowledge it however late (`PassTrue`).  A pass at the
checkpoint's generation knows what it says (`FenceInv`), so its
compare-and-set moves the checkpoint only forward: `CheckpointsGoForward` needs
nothing else, and holds under any overlap.

**MigrationRunner.**  `RunnerInv`: whatever was on main, and what is installed,
begins the newest manifest (`BranchGrows`), since main grows by extension and
names in a manifest differ; so the names a runner finds missing are the places
after the last one installed, and a migration is added only there.  Runners that
overlap have one manifest (`OneManifest`): once one of them has found the database
complete, nobody has anything left to add.

**IndexCutover.**  What the job verified must still be true when it acts on it,
many requests and perhaps a crash later.  `CutoverInv`: from the drain to the
proof the worker is in maintenance, no queue delivers and no work runs
(`NothingRuns`), since the freeze of this attempt knew of the work that still ran
(`FreezeKnows`); a checkpoint that is there holds (`BooksAgree`), and a step finds
what the one before it checked (`StepsKnow`).  The page of a seed is of main, a
shard that was written to has it (`PageIsMain`, `PageIsWritten`), so a version
leaves the outbox only when every shard has it (`ShardsFollow`).  A page of the
scan is everything up to its last session (`PageReaches`, from
`GreatestOfFinite`: a finite set of numbers has a greatest), hence the seed has
counted exactly the sessions up to its cursor.

**Rollup.**  `RInv`: what main has counted of a session is the tally of its
transcript up to the cursor of its row (`CountsHold`).  A page counts as its
stretch of the transcript, and tallies of adjoining stretches add up
(`SplitCount`, `TalliesAdd`), which needs the first place where a turn opens or
a call appears: `LeastNatural` gets it from the well-foundedness of the subset
order on finite sets, so that no induction theorem with an operator parameter
is used.  A row that a pass holds is the row as it stands, or one that has moved
on for good (`HeldIsCurrent`), so a second pass's or a stale commit never adds.

**Reindex.**  A write that owns the session of a dispatched target began after
the dispatch: the dispatch lowers the session first, and only a write that
begins owns it again (`WritesAreLater`, `UpdatesAreLater`); a receipt is given
only by such a write (`ReceiptsAreEarned`).  The attempt to prove `IntentIsKept`
showed that its first form had been too broad: a recovery whose own parse failed
leaves its reason on the row, and the next dispatch drops that reason on
purpose.

**Collector.**  `CInv`: a file in hand was looked at in a version that is not
newer than the file (`LookedAt`), and its hash is of that version's length in
one no older (`HasReadAt`); so while the file is what the pass saw, the hash is
of its bytes (`LookedIs`).  A row that is `ok` names the content of its version,
and what the hub holds is that content whenever the file has it or may have it
again (`RowTrueAt`), but for what is on its way (`Unsure`).  Nothing is in two
lists of a chunk (`ListsTrue`).  What a backfill without a failure has seen and
what has not changed is in hand or at the hub, and so are the assets of the
transcripts it has handled (`BackfillTrue`).  The proof holds for any walk, any
contents, passes, hubs and faults.  The attempt to prove it showed that plans
with a death must exclude more than a return to an equal content: a later
version that is a prefix of an earlier one can be what a dying pass has sent of
the earlier one (`NeverReturns`).  It also showed that a backfill does not give
back an asset that the hub lost: its row decides, as in a run.

**Multipart.**  `PathInv` has four things to say of a path.  The completes stand
in a queue (`QueueTrue`): at most one that nobody waits for, whose version is
behind the one the collector has come to, so of two that have written the object
is the one's or the other's, and of two that look for it only the older one can
find the newer one's.  The row agrees with the object, or the object's writer has
not reached the row yet, or somebody is before the comparison that mends it
(`Agreed`); one who has compared and found another object still finds it, unless
that one's writer is yet to reach the row (`RealignsWell`).  The row's revision is
parsed from its own bytes, or in a message, or with a request that will send it
(`ParsedOrDue`): a parser that took another object's bytes is always followed by a
message.  Without overlap a complete decides on the row of the very object it
replaces (`Decides`), hence an acknowledged content grows or is preserved.  The
attempt to prove it removed one exemption, of a collector that is about to mark
the row, and made `MisledByHash` explicit, which the plans alone had kept out.

**Passkeys.**  `KeyInv`: a challenge is in the table or with the one present that
took it; a registered passkey is of its device's one registration, which finds
the device not enrolled; the counter kept is at most the one the device signed
last; a code is spent by the run it was made for; ids of grants are not reused.
`KeyAssumption` lists one registration per device: a registration makes a
credential of its own, so a `device` of the model is a credential.

**Broker.**  `BrokerInv`: only the head of the queue is active, and it works on
the grant that is stored (`ActiveIsOnGrant`): nobody else changes the grant, so
the answer to a refresh never meets a grant that was disconnected meanwhile.  A
broker that missed no answer holds the newest token of its lineage
(`NewestIsKept`), and one whose grant nobody withdrew holds a living lineage
(`GrantIsAlive`), so a refresh that is refused is excused.  For `GrantServes`:
until the first token ages or is refused nobody waits and no request is turned
down (`QuietlyServed`); after it, a token that a refresh brings is new, hence
neither ageing nor the one refused (`CalmlyServed`).

Only model-checked, beside all liveness, which is beyond the prover:
`ParsingIsOwed` and `CopiesConverge` of `ingest`, `PreviewIsHonest` of `deploy`,
`BeatIsHonest` of `work`, `MoneyAgrees`
and `CleanupIsWhole` of `jobs`.  `BeatIsHonest` and `MoneyAgrees` need sums by
folds over sets that change, whose induction is out of the prover's reach.

## Findings

Two runs are expected to violate what the code's own comments or tests say;
PROJECT.json quotes them.

- `ingest_displaced`: an append that dies between object and row makes the next
  rewrite skip preservation, so acknowledged content is destroyed.
- `cert_lockout`: a renewal that its collector gave up on, arriving late in the
  grace window, replaces and revokes the installed certificate.

Others were met with TLC while modelling; the plans or the named exemptions of
the passing runs keep them out, so that those runs say what else holds.

- Two updates of the consumer name only the file, so an upload in between is
  marked `superseded` unread (`consumer.ts:499`, `:585`).
- A session can stay `parsing` with nothing outstanding in two ways.  `MayFall`:
  of two copies that are edited, one that its other one no longer lets win (it
  turned empty, `consumer.ts:529`, failed, or shrank beside a copy of equal
  priority) is overtaken while it is parsed; its next delivery gives way, is
  marked `superseded` and leaves the session as the first found it.
  `MayReflip`: bytes that were parsed for an earlier message of the same hash
  are acknowledged again, by a request that sets the session to `parsing`
  (`upload.ts:374-408`) and dies before its send (`:435`).
- Size decides between copies of equal priority, but `chooseCanonical` leaves
  superseded files out (`consumer.ts:1709`): when the parsed copy shrinks, the
  larger superseded one is not looked at again, nor is one that grew just before
  an older delivery marked it (`:499`); `Ranked`.
- A copy pass whose request is delayed reads a pending entry before the freeze
  and finds its page changed: it discards only the copies
  (`index-migration.mjs:1567`, against the comment at 1569-1570).
- A reservation healed after the deletes of a cleanup that spans several
  deliveries strands a conversation (`consumer.ts:1225`, against 1220-1221); two
  archives reserved by a cleanup that has finished can defer to each other for
  ever (`consumer.ts:1319`, against 1324-1325).
- The pricing pass's compare-and-set leaves out the time of the turn, which
  decides the price (`pricing-pass.ts:169`, against the comment at 151).
- `convergeR2WithRow` may put a body back over an object that a complete has
  just stored (`upload.ts`, comment at 354-366); `PutTooLate`.  A complete that
  was given up goes by a hash when it mends its row: the same hash of a version
  that returned, or of the carried file, misleads `convergeMultipartRow`
  (`MisledByHash`), and a late complete decides on a row it read minutes ago
  (`multipart.ts:265-293`).
- A file that returns to earlier content while a pass dies is skipped with the
  wrong bytes at the hub (`run.py:383-386`).  A run warns of a snapshot's
  temporary file that it has removed itself (against `test_run.py:235`).
- A preview's reset or close cut short between its bucket and its databases is
  taken for a preview to continue by a matching push (against
  `preview-control.mjs:671-672`): its catalog names objects that are gone, which
  `PreviewIsWhole` exempts by name.  A janitor that dies after deleting never
  retires the card (against 155-161).

## What the exemptions hide

Some properties hold only under a condition that their definitions name, and
some plans leave a case out.

**Ingest.**  `AcknowledgedIsRecoverable` excludes requests that die, lost
objects, and requests that were given up: a late one overwrites a newer
acknowledged object without preserving it.  `ParsingIsOwed` excludes
dead-lettered messages: one redelivered after its file was marked parsed and
then lost leaves `parsing` behind; and the plans of `MayFall` and `MayReflip`,
see Findings.  `SettledIsBest` is about contents with turns and, where a copy is
edited, about copies of different priority.  Each fault strikes once, so a delivery that dies between the flip to
`error` and its recovery message, and is redelivered (`consumer.ts:279-290`), is
outside the plans.  Between `RAW.put` and the upsert the hub publishes new bytes
under the old hash when it parses at that moment (`upload.ts:257`, comment at
365-367); the message that follows corrects it, so the properties speak of
settled states.

**IndexWrite.**  `FenceSeparatesWriters` exempts two writers that captured one
version: the trigger of 0036 stamps none when the state does not change, so two
overlapping parses of a session that is `parsing` both hold the fence, against
`migrations-index/0001_index_init.sql:136-138`.  It takes a D1 call that outlives
its delivery.  `UsageIsWhole` and `ParsedDescribesIndex` exclude a second upload:
it may bring back the bytes the first one replaced before either has flipped the
session.

**CertRotation.**  `SlotsAreAlive` excludes a batch that commits and then throws:
`renewCert` reclaims, and so revokes, the certificate the batch made current.  It
also excludes operators who name the id of a certificate that is in the row, or
who import a second one (`NamesOnlyNew`).
`Tracked` excludes a request that dies between signing and the swap.  `NoLockout`
excludes abandoned renewals and an administrator's swap, whose operator hands
over the new certificate.

**Multipart.**  `RowFindsObject` excludes crashes, a PUT that is too late, and
abandoned completes of a path with a carried file or a version that returns
(`MisledByHash`); `StoredIsRecoverable` and `Arrived` exclude abandoned requests
and the carried file.  Retries of the transport are part of giving up.

**Collector.**  Rewrites of equal size and time are excluded, and plans with a
death have no file that returns to what a reading of an earlier version may have
given, a prefix included (`NeverReturns`).  What a hub loses is of the stores'
own files: the row of an asset keeps a backfill from sending it again
(`run.py:383-386`).  The snapshot of a database is gone when its assets are
looked for, so it has none.  `CaughtUp` leaves out what is
too large, and an asset that changed after it was found.  A lost hub comes with a
backfill ahead.

**Heartbeat.**  Counts are exact only while no answer was lost and nothing died;
then an event may be counted twice, never lost.

**ExportCleanup.**  Plans leave out a reservation healed while its cleanup spans
several deliveries, and three archives with deletes at once.  A stale reservation
ages when the queue is empty.  The object of an archive is its row's.

**Rollup, Reindex, Pricing.**  Three of six metrics are counted.  A message that
the queue drops after its retries keeps a target waiting and is left out.  An
older pass with a stale table may overwrite a newer price: `AnswerIsDone` speaks
of passes beside which nothing was written.  Edits of a turn's time alone are out
of the plans.  Money is integral.

**Broker, Passkeys.**  A reconnection without a disconnection leaves the former
lineage unrevoked; an eviction during a refresh costs a rotating token, and the
grant must be authorized again (`ReauthorizationIsEarned` says only then).
`GrantServes` speaks of one ageing or refusal: a forced refresh can join one that
began for a cached token and get the refused token again.  A sign-in overtaken by
another of its device is refused; an exchange that dies between its DELETE and
its INSERT burns the code.  What becomes of a token once it is cached is not
modelled, and nothing is claimed of it: a report presents it in three requests
and one more for each further page of sessions (`cli.py:62-66`,
`endpoints.py:82-102`), each may take 30 s (`http.py:106`), so a report may outlast
the minute that `grant.py:223` leaves it and be refused on its way.

**IndexCopy.**  The copy stops for good, as it means to, when a page of the first
version changed after all or a verified page whose copies were discarded changes
back; `Completes` exempts plans that can do this, `CompleteIsExact` those with
late deletions, which may leave a row at a shard.  `OverlapsLate`, the hypothesis of
`NothingLost` and `CompleteIsExact`: passes overlap only after the freeze, since
the workflow's concurrency group runs one job at a time.

**IndexCutover.**  One job at a time; the reconciliation of the outbox is one
step.  `DeployEnds` assumes that failed jobs are run again.

**MigrationRunner.**  In production a journal is lost with its job; manifests on
main grow only by extension (`ci.yml:52-55`).

**Preview.**  One index shard.  `UploadsSurvive` speaks of plans whose heads extend
one another, with jobs that fail or die anywhere, but for two resets that take
uploads away: that of an older head which is previewed last (`Overtaken`), and
that after a job died with migrations applied whose checksums it had not recorded
yet (`Unrecorded`: between `preview-control.mjs:709` and `:727`; the next job finds
an applied migration without evidence, `:352-355`, and resets, `:661-676`).  Both
cases happen in the run.  `PreviewIsWhole` does not ask of a catalog whose objects
a dying job was deleting (`bucket.cut`, the finding above), nor of a closed
request, that what it names is still there.
Plans with a reopening have no janitor: one that listed before could delete the
objects and the databases of the new preview.

## Not modelled

PROJECT.json gives the reason for each part.  Parsers, detection and
normalisation are functions of their input; the models ask of a content only
whether it has turns, whether it throws and what session it names.  Viewer,
search and sessions, status and the watchdog read.  The checks of an OIDC token,
the gateway and the issuer keep no state.  The subrequest budget of a parse batch
is a retry of `Ingest` and is not counted.  Of the modelled parts these are left
out: the initial enrollment and the checks against other machines' certificates,
a healthy live capture of an archived conversation and conversations too large
for one invocation, the provisioning and the forecast of the cutover, a preview's
KV namespace and price fixtures, the provider of a price row.

## Plan

The models are complete as far as the table goes.  What could still be proved, in
this order:

1. `CleanupIsWhole` of `ExportCleanup` and `PreviewIsHonest` of `Preview`: their
   invariants follow pages or databases through many phases, as those of
   `WorkProofs` do.
2. `ParsingIsOwed` and `CopiesConverge` of `Ingest`, whose exemptions speak of the
   whole plan of a behaviour.

No module declares a RECURSIVE operator, so each can carry theorems.
