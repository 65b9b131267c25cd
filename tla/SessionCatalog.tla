--------------------------- MODULE SessionCatalog ---------------------------
(***************************************************************************)
(* Propagation of the authoritative session catalog from the main database *)
(* to every index shard: the triggers of migration 0036, the sync and the  *)
(* drain of hub/src/session-catalog.ts, and the guarded shard batches of   *)
(* hub/src/index-layout.mjs.                                               *)
(*                                                                         *)
(* A session's `sessions` row and its `starred_turns` rows travel together *)
(* under one version, the outbox seq of the last change, and make up one   *)
(* Copy.  Every D1 batch is one atomic action; any number of syncs and     *)
(* drains interleave between their D1 calls, and each may die at any call. *)
(***************************************************************************)
EXTENDS Integers, FiniteSets

CONSTANTS Sessions,        \* session ids
          Shards,          \* index shard databases
          Syncers,         \* concurrent invocations that may run a sync or a drain
          Reconcilers,     \* those of them that only drain: the cron's and the queue's
          Rows,            \* contents a sessions row may have
          LargeRows,       \* the contents above CATALOG_BULK_ENTRY_BYTES
          Turns,           \* turn keys that may be starred
          Absent,          \* no sessions row
          Chunk,           \* SESSION_CATALOG_SYNC_CHUNK
          Limit,           \* entries one drain captures
          MaxSubrequests,  \* D1 calls one invocation may spend
          MaxSeq,          \* bound: outbox entries ever appended
          MaxFailures      \* bound: invocations that die

ASSUME CatalogAssumption ==
  /\ IsFiniteSet(Shards) /\ Shards # {}
  /\ Reconcilers \subseteq Syncers
  /\ LargeRows \subseteq Rows /\ Absent \notin Rows
  /\ {Chunk, Limit, MaxSubrequests} \subseteq Nat \ {0}
  /\ {MaxSeq, MaxFailures} \subseteq Nat

VARIABLES main,      \* main[s]: version, row and stars on the main database
          outbox,    \* session_catalog_outbox
          seq,       \* its AUTOINCREMENT counter
          shard,     \* shard[k][s]: catalog_versions, sessions and stars of a shard
          run,       \* run[p]: the control state of an invocation
          floor,     \* history: what main's versions were when run[p] began
          failures

vars == <<main, outbox, seq, shard, run, floor, failures>>

ShardCount == Cardinality(Shards)

Copy == [version : Nat, row : Rows \cup {Absent}, stars : SUBSET Turns]

(* No catalog row was ever written for the session. *)
NoCopy == [version |-> 0, row |-> Absent, stars |-> {}]

Entry == [seq : Nat, id : Sessions]

Run == [pc        : {"idle", "capture", "read", "apply", "check", "current", "pending"},
        kind      : {"sync", "drain"},
        asked     : SUBSET Sessions,    \* what `current` vouches for
        todo      : SUBSET Sessions,    \* ids no round has taken yet
        entry     : [Sessions -> Copy], \* the snapshots this round read from main
        unsent    : SUBSET Sessions,    \* small entries not yet in a batch
        large     : SUBSET Sessions,    \* ids this round must read one by one
        batch     : SUBSET Sessions,    \* the batch being applied
        accepted  : SUBSET Shards,      \* shards that committed it
        covered   : SUBSET Sessions,    \* entries every shard accepted
        exhausted : BOOLEAN,
        spent     : Nat]

Idle == [pc |-> "idle", kind |-> "sync", asked |-> {}, todo |-> {},
         entry |-> [s \in Sessions |-> NoCopy], unsent |-> {}, large |-> {}, batch |-> {},
         accepted |-> {}, covered |-> {}, exhausted |-> FALSE, spent |-> 0]

Init ==
  /\ main = [s \in Sessions |-> NoCopy]
  /\ outbox = {}
  /\ seq = 0
  /\ shard = [k \in Shards |-> [s \in Sessions |-> NoCopy]]
  /\ run = [p \in Syncers |-> Idle]
  /\ floor = [p \in Syncers |-> [s \in Sessions |-> 0]]
  /\ failures = 0

-----------------------------------------------------------------------------
(* Changes of the main catalog.  Every trigger appends the session id to    *)
(* the outbox and stamps the session's version with that seq.               *)

Stamp(s, row, stars) ==
  /\ seq < MaxSeq
  /\ seq' = seq + 1
  /\ outbox' = outbox \cup {[seq |-> seq + 1, id |-> s]}
  /\ main' = [main EXCEPT ![s] = [version |-> seq + 1, row |-> row, stars |-> stars]]
  /\ UNCHANGED <<shard, run, floor, failures>>

(* The update trigger's WHEN clause: an update that changes no mirrored     *)
(* value stamps nothing.                                                    *)
WriteSession(s) ==
  \E row \in Rows \ {main[s].row} : Stamp(s, row, main[s].stars)

(* Stars survive a session delete. *)
DeleteSession(s) ==
  /\ main[s].row # Absent
  /\ Stamp(s, Absent, main[s].stars)

Star(s) ==
  \E t \in Turns \ main[s].stars : Stamp(s, main[s].row, main[s].stars \cup {t})

Unstar(s) ==
  \E t \in main[s].stars : Stamp(s, main[s].row, main[s].stars \ {t})

-----------------------------------------------------------------------------
(* A sync of given ids, and a drain of the oldest outbox slice.             *)

Start(p, kind, ids) ==
  /\ run[p].pc = "idle"
  /\ run' = [run EXCEPT ![p] =
               [Idle EXCEPT !.pc = IF kind = "sync" THEN "read" ELSE "capture",
                            !.kind = kind, !.asked = ids,
                            !.todo = IF kind = "sync" THEN ids ELSE {}]]
  /\ floor' = [floor EXCEPT ![p] = [s \in Sessions |-> main[s].version]]
  /\ UNCHANGED <<main, outbox, seq, shard, failures>>

(* A writer syncs the ids it has just changed. *)
StartSync(p) ==
  /\ p \notin Reconcilers
  /\ \E ids \in SUBSET Sessions \ {{}} : Start(p, "sync", ids)

StartDrain(p) == Start(p, "drain", Sessions)

Oldest == {o \in outbox : Cardinality({x \in outbox : x.seq < o.seq}) < Limit}

(* Mutant: the outbox read selects the wrong column. *)
CapturedSeqs == {o.seq : o \in Oldest}

Captured == {o.id : o \in Oldest}

Capture(p) ==
  /\ run[p].pc = "capture"
  /\ run' = [run EXCEPT ![p] =
               [@ EXCEPT !.pc = IF outbox = {} THEN "current" ELSE "read",
                         !.todo = Captured, !.spent = 1]]
  /\ UNCHANGED <<main, outbox, seq, shard, floor, failures>>

(* A round keeps one call for its retirement statement; a drain keeps one   *)
(* more for its remaining-entries check.                                    *)
Reserve(p) == IF run[p].kind = "drain" THEN 2 ELSE 1

Affordable(p, calls) == run[p].spent + calls + Reserve(p) <= MaxSubrequests

(* The ids of one round: 64 of the remaining ones, in whatever order.       *)
Rounds(p) ==
  {ids \in SUBSET run[p].todo :
     IF Cardinality(run[p].todo) <= Chunk THEN ids = run[p].todo
                                          ELSE Cardinality(ids) = Chunk}

(* One main batch classifies the ids and snapshots the small ones; an id    *)
(* with no version never existed and is skipped.                            *)
ReadBulk(p) ==
  /\ run[p].pc = "read"
  /\ IF Affordable(p, 1 + ShardCount)
       THEN \E ids \in Rounds(p) :
              LET large == {s \in ids : main[s].row \in LargeRows}
              IN  run' = [run EXCEPT ![p] =
                    [@ EXCEPT !.pc = "apply",
                              !.todo = run[p].todo \ ids,
                              !.entry = [s \in Sessions |->
                                           IF s \in ids \ large THEN main[s] ELSE NoCopy],
                              !.unsent = {s \in ids \ large : main[s].version > 0},
                              !.large = large,
                              !.spent = run[p].spent + 1]]
       ELSE run' = [run EXCEPT ![p] = [@ EXCEPT !.pc = "pending"]]
  /\ UNCHANGED <<main, outbox, seq, shard, floor, failures>>

Between(p) == run[p].pc = "apply" /\ run[p].batch = {} /\ ~run[p].exhausted

(* The next payload batch of sessionCatalogBatches: some of the unsent      *)
(* entries, packed by size.                                                 *)
StartBatch(p) ==
  /\ Between(p) /\ run[p].unsent # {}
  /\ IF Affordable(p, ShardCount)
       THEN \E ids \in SUBSET run[p].unsent \ {{}} :
              run' = [run EXCEPT ![p] = [@ EXCEPT !.batch = ids, !.unsent = run[p].unsent \ ids]]
       ELSE run' = [run EXCEPT ![p] = [@ EXCEPT !.exhausted = TRUE]]
  /\ UNCHANGED <<main, outbox, seq, shard, floor, failures>>

(* A large session is read alone, in a later snapshot than the round's.     *)
ReadLarge(p) ==
  /\ Between(p) /\ run[p].unsent = {} /\ run[p].large # {}
  /\ IF Affordable(p, 1 + ShardCount)
       THEN \E s \in run[p].large :
              run' = [run EXCEPT ![p] =
                        [@ EXCEPT !.entry = [run[p].entry EXCEPT ![s] = main[s]],
                                  !.batch = {s}, !.large = run[p].large \ {s}, !.spent = run[p].spent + 1]]
       ELSE run' = [run EXCEPT ![p] = [@ EXCEPT !.exhausted = TRUE]]
  /\ UNCHANGED <<main, outbox, seq, shard, floor, failures>>

(* Mutant: the shard batch has no version guard. *)
AcceptAny(old, new) == new

(* The shard batch: a newer version replaces the copy, an equal one         *)
(* re-applies, an older one changes nothing.                                *)
Accept(old, new) == IF new.version >= old.version THEN new ELSE old

(* Mutant: the batch counts once any shard has it. *)
AcceptedBySome(p, k) == TRUE

AcceptedByAll(p, k) == run[p].accepted \cup {k} = Shards

(* One shard commits the batch; when the last one has, the batch counts.    *)
ApplyShard(p, k) ==
  /\ run[p].batch # {} /\ k \notin run[p].accepted
  /\ shard' = [shard EXCEPT ![k] = [s \in Sessions |->
                 IF s \in run[p].batch THEN Accept(@[s], run[p].entry[s]) ELSE @[s]]]
  /\ run' = IF AcceptedByAll(p, k)
              THEN [run EXCEPT ![p] =
                      [@ EXCEPT !.batch = {}, !.accepted = {},
                                !.covered = run[p].covered \cup run[p].batch,
                                !.spent = run[p].spent + ShardCount]]
              ELSE [run EXCEPT ![p] = [@ EXCEPT !.accepted = run[p].accepted \cup {k}]]
  /\ UNCHANGED <<main, outbox, seq, floor, failures>>

RoundDone(p) ==
  /\ run[p].pc = "apply" /\ run[p].batch = {}
  /\ run[p].exhausted \/ (run[p].unsent = {} /\ run[p].large = {})

(* Mutant: an exhausted sync of the last round reports current. *)
AfterLastRound(p) ==
  IF run[p].todo # {} THEN "read"
  ELSE IF run[p].kind = "sync" THEN "current" ELSE "check"

AfterRound(p) ==
  IF run[p].exhausted THEN "pending"
  ELSE IF run[p].todo # {} THEN "read"
  ELSE IF run[p].kind = "sync" THEN "current" ELSE "check"

(* Mutant: the retirement forgets the version it read. *)
RetirableAny(p) == {o \in outbox : o.id \in run[p].covered}

(* Mutant: the retirement stops one short of the version it read. *)
RetirableBelow(p) ==
  {o \in outbox : o.id \in run[p].covered /\ o.seq < run[p].entry[o.id].version}

(* SESSION_CATALOG_RETIRE_SQL: the entries the covered versions subsume.    *)
(* What the round read goes out of scope with it.                           *)
Retirable(p) ==
  {o \in outbox : o.id \in run[p].covered /\ o.seq <= run[p].entry[o.id].version}

Retire(p) ==
  /\ RoundDone(p)
  /\ outbox' = outbox \ Retirable(p)
  /\ run' = [run EXCEPT ![p] =
               [Idle EXCEPT !.pc = AfterRound(p), !.asked = run[p].asked,
                            !.kind = run[p].kind, !.todo = run[p].todo,
                            !.spent = run[p].spent + (IF run[p].covered = {} THEN 0 ELSE 1)]]
  /\ UNCHANGED <<main, seq, shard, floor, failures>>

(* The drain's remaining-entries check. *)
Check(p) ==
  /\ run[p].pc = "check"
  /\ run' = [run EXCEPT ![p] =
               [@ EXCEPT !.pc = IF outbox = {} THEN "current" ELSE "pending", !.spent = run[p].spent + 1]]
  /\ UNCHANGED <<main, outbox, seq, shard, floor, failures>>

(* The caller is done with the result: a search has read the shards.        *)
Return(p) ==
  /\ run[p].pc \in {"current", "pending"}
  /\ run' = [run EXCEPT ![p] = Idle]
  /\ floor' = [floor EXCEPT ![p] = [s \in Sessions |-> 0]]
  /\ UNCHANGED <<main, outbox, seq, shard, failures>>

(* A D1 call throws, or the invocation is killed; shards that committed     *)
(* stay committed.                                                          *)
Fail(p) ==
  /\ run[p].pc \notin {"idle", "current", "pending"}
  /\ failures < MaxFailures
  /\ failures' = failures + 1
  /\ run' = [run EXCEPT ![p] = Idle]
  /\ floor' = [floor EXCEPT ![p] = [s \in Sessions |-> 0]]
  /\ UNCHANGED <<main, outbox, seq, shard>>

Change == \E s \in Sessions : WriteSession(s) \/ DeleteSession(s) \/ Star(s) \/ Unstar(s)

Step(p) ==
  \/ Capture(p) \/ ReadBulk(p) \/ StartBatch(p) \/ ReadLarge(p)
  \/ \E k \in Shards : ApplyShard(p, k)
  \/ Retire(p) \/ Check(p) \/ Return(p)

Next ==
  \/ Change
  \/ \E p \in Syncers : StartSync(p) \/ StartDrain(p) \/ Step(p) \/ Fail(p)

Spec == Init /\ [][Next]_vars

(* An invocation that began runs on, and the cron keeps starting drains     *)
(* (worker.ts reconcileCatalog).                                            *)
FairSpec ==
  /\ Spec
  /\ \A p \in Syncers : WF_vars(Step(p))
  /\ \A p \in Reconcilers : WF_vars(StartDrain(p))

-----------------------------------------------------------------------------
TypeOK ==
  /\ main \in [Sessions -> Copy]
  /\ outbox \subseteq Entry
  /\ seq \in Nat
  /\ shard \in [Shards -> [Sessions -> Copy]]
  /\ run \in [Syncers -> Run]
  /\ floor \in [Syncers -> [Sessions -> Nat]]
  /\ failures \in Nat

(* Search refuses to serve only while the outbox holds an entry, so a       *)
(* session with no entry must be on every shard exactly as main holds it.   *)
OutboxComplete ==
  \A s \in Sessions :
     \/ \E o \in outbox : o.id = s
     \/ \A k \in Shards : shard[k][s] = main[s]

(* Rows, entries and invocations are of their types, and no row is retired  *)
(* that a shard still lacks (session-catalog.ts).                           *)
CatalogIsSound == TypeOK /\ OutboxComplete

(* `current` is what a search trusts before it reads the shards and what a  *)
(* star edit reports: no shard may hold anything older than main held when  *)
(* the sync or the drain began, however many others interleave.             *)
CurrentIsFresh ==
  \A p \in Syncers : run[p].pc = "current" =>
     \A s \in run[p].asked, k \in Shards : shard[k][s].version >= floor[p][s]

(* One invocation never makes more D1 calls than its allowance, which is    *)
(* what keeps a Worker below the platform's subrequest limit.               *)
WithinAllowance == \A p \in Syncers : run[p].spent <= MaxSubrequests

(* What a sync or a drain answers is true, and was paid for (session-       *)
(* catalog.ts).                                                             *)
SyncIsHonest == CurrentIsFresh /\ WithinAllowance

(* A late or replayed sync never degrades a shard: its copy of a session    *)
(* changes only to a strictly newer version, so a deleted session is not    *)
(* resurrected and an equal version re-applies identically.                 *)
NoRegression ==
  [][\A k \in Shards, s \in Sessions :
       shard'[k][s] # shard[k][s] => shard'[k][s].version > shard[k][s].version]_vars

(* The triggers, the syncs and the drains together are a replica that only  *)
(* moves forward and owes a session until every shard holds it.             *)
Owed == {s \in Sessions : \E o \in outbox : o.id = s}

Replica == INSTANCE CatalogReplica WITH Copies <- Copy, owed <- Owed

ImplementsReplica == Replica!Spec

(* Once main stops changing, the drains empty the outbox and search comes   *)
(* back, whatever died on the way.                                          *)
OutboxDrains == []<>(outbox = {})
=============================================================================
