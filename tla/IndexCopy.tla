----------------------------- MODULE IndexCopy -----------------------------
(***************************************************************************)
(* The move of the block index out of the main database into the shards:   *)
(* hub/scripts/lib/index-migration.mjs, copyFrozenIndex and the import of  *)
(* the checkpoint that its first version kept without a fence.             *)
(*                                                                         *)
(* A pass copies page after page: plan, write to each shard, read back,    *)
(* and only then delete the page from the source.  The deletion of the     *)
(* first page also installs the triggers that refuse every other write,    *)
(* in one transaction.  A pass may die before or after any request, and    *)
(* the next one starts from the checkpoint.  Each request is an action.    *)
(*                                                                         *)
(* A digest is modelled by the content it names; a block by the content of *)
(* its text, which the full-text index of its shard follows in the same    *)
(* transaction.                                                            *)
(***************************************************************************)
EXTENDS Naturals, FiniteSets

CONSTANTS Rows,       \* ids of blocks, 1..n
          Shards,     \* databases of the new layout
          RouteOf,    \* RouteOf[i]: shard of block i, by its session
          Texts,      \* contents
          Rendering,  \* Rendering[v]: v as the first version read it, malformed bytes replaced
          PageRows,   \* bound: blocks of a page
          Passes,     \* passes that may run at once
          Plans       \* bound: what a behaviour starts from and which faults it has

NoText == "none"

ASSUME CopyAssumption ==
  /\ NoText \notin Texts
  /\ Rows \subseteq Nat \ {0}
  /\ RouteOf \in [Rows -> Shards]
  /\ Rendering \in [Texts -> Texts]
  /\ \A v \in Texts : Rendering[Rendering[v]] = Rendering[v]
  /\ PageRows \in Nat \ {0}
  /\ Plans \subseteq [start : {"fresh", "legacy"},
                     writes : SUBSET {"change", "delete", "insert"}, lateWrites : Nat,
                     crashes : Nat, overlap : {"frozen", "always"}, overlaps : Nat]

VARIABLES source,      \* source[i]: block i in the main database
          freeze,      \* the triggers that refuse writes to the source
          dest,        \* dest[i]: block i in its shard
          checkpoint,  \* the fenced copy checkpoint
          unfenced,    \* the checkpoint of the first version
          pass,        \* pass[p]: an invocation of the copy
          import,      \* what the import of the unfenced checkpoint has read
          truth,       \* history: the blocks the hub wrote last
          plan,        \* the behaviour's plan
          used         \* late writes, crashes and overlapping passes so far

dataVars   == <<source, freeze, dest>>
budgetVars == <<plan, used>>
copyVars == <<dataVars, checkpoint, unfenced, pass, import, truth, budgetVars>>

Content == Texts \cup {NoText}

Nothing == [i \in {} |-> NoText]

NoPage == [phase |-> "none", rows |-> Nothing, base |-> Nothing, missing |-> {}]

Page(phase, rows) == [NoPage EXCEPT !.phase = phase, !.rows = rows]

(* The semantic state: acked stands for the cursor, the count of rows and   *)
(* the chained digest of all acknowledged pages.                            *)
FreshState == [mode |-> "pending", encoding |-> "bytes", acked |-> {}, pending |-> NoPage]

NoCheckpoint == [gen |-> 0, state |-> FreshState]

NoState == [FreshState EXCEPT !.mode = "absent"]

IdlePass == [pc |-> "idle", gen |-> 0, state |-> NoState, freeze |-> "absent",
             rows |-> Nothing, todo |-> {}, left |-> FALSE]

Ids(page) == DOMAIN page.rows

(* The cursor is the last acknowledged id.                                  *)
Ahead(state) == {i \in Rows : \A a \in state.acked : a[1] < i}

Restricted(f, S) == [i \in S |-> f[i]]

Present(f) == {i \in Rows : f[i] # NoText}

(* What the first version leaves: a fresh source, or pages it has           *)
(* acknowledged and one that is being copied, is verified or is deleted,    *)
(* all of them as it rendered them.                                         *)
LegacyStart(n, phase, deleted) ==
  LET done == {i \in Rows : i <= n}
      page == {i \in Rows : n < i /\ i <= n + PageRows}
      legacy == [mode |-> "pending", encoding |-> "legacy",
                 acked |-> {<<i, Rendering[truth[i]]>> : i \in done},
                 pending |-> IF phase = "none" THEN NoPage
                             ELSE Page(phase, [i \in page |-> Rendering[truth[i]]])]
      gone == IF deleted THEN done \cup page ELSE done
  IN  /\ source = [i \in Rows |-> IF i \in gone THEN NoText ELSE truth[i]]
      /\ \E copied \in SUBSET page :
           /\ phase = "none" => copied = {}
           /\ phase = "verified" => copied = page
           /\ dest = [i \in Rows |-> IF i \in done \cup copied THEN Rendering[truth[i]] ELSE NoText]
      /\ freeze = IF gone = {} THEN "absent" ELSE "frozen"
      /\ unfenced = legacy
      /\ \A i \in gone : truth[i] = Rendering[truth[i]]

CopyInit ==
  /\ plan \in Plans
  /\ IF plan.start = "fresh"
       THEN /\ truth \in [Rows -> Content]
            /\ \A i, j \in Rows : i < j /\ truth[j] # NoText => truth[i] # NoText
            /\ source = truth /\ freeze = "absent" /\ dest = [i \in Rows |-> NoText]
            /\ unfenced = NoState
       ELSE /\ truth \in [Rows -> Texts]
            /\ \E n \in {0} \cup Rows, phase \in {"none", "copying", "verified"}, deleted \in BOOLEAN :
                 /\ phase # "none" => \E i \in Rows : n < i /\ i <= n + PageRows
                 /\ deleted => phase = "verified"
                 /\ LegacyStart(n, phase, deleted)
  /\ checkpoint = NoCheckpoint
  /\ pass = [p \in Passes |-> IdlePass]
  /\ import = NoState
  /\ used = [writes |-> 0, crashes |-> 0, overlaps |-> 0]

-----------------------------------------------------------------------------
(* Requests that the hub served before maintenance may still write.  The    *)
(* triggers refuse them once the source is frozen.                          *)
LateWrite ==
  /\ freeze = "absent" /\ used.writes < plan.lateWrites
  /\ used' = [used EXCEPT !.writes = @ + 1]
  /\ \E i \in Rows, v \in Content :
       /\ \/ "change" \in plan.writes /\ source[i] # NoText /\ v \notin {NoText, source[i]}
          \/ "delete" \in plan.writes /\ source[i] # NoText /\ v = NoText
          \/ /\ "insert" \in plan.writes /\ v # NoText
             /\ \A j \in Rows : (j >= i => source[j] = NoText /\ dest[j] = NoText)
       /\ source' = [source EXCEPT ![i] = v]
       /\ truth' = [truth EXCEPT ![i] = v]
  /\ UNCHANGED <<freeze, dest, checkpoint, unfenced, pass, import, plan>>

(* A delayed request of the first version moves its own checkpoint on.      *)
UnfencedWrite ==
  /\ unfenced.pending.phase = "copying" /\ plan.start = "legacy"
  /\ \A i \in Ids(unfenced.pending) : dest[i] = unfenced.pending.rows[i]
  /\ unfenced' = [unfenced EXCEPT !.pending.phase = "verified"]
  /\ UNCHANGED <<dataVars, checkpoint, pass, import, truth, budgetVars>>

(* importLegacyCopyCheckpoint: read both keys, then insert the fenced one   *)
(* only while the unfenced one still has the bytes that were read.          *)
ImportRead ==
  /\ checkpoint.gen = 0 /\ unfenced # NoState
  /\ import' = unfenced
  /\ UNCHANGED <<dataVars, checkpoint, unfenced, pass, truth, budgetVars>>

ImportInsert ==
  /\ import # NoState /\ import' = NoState
  /\ checkpoint' = IF checkpoint.gen = 0 /\ unfenced = import
                     THEN [gen |-> 1, state |-> import] ELSE checkpoint
  /\ UNCHANGED <<dataVars, unfenced, pass, truth, budgetVars>>

-----------------------------------------------------------------------------
(* A pass.                                                                  *)

Fail(p) == pass' = [pass EXCEPT ![p] = IdlePass]

Goto(p, pc) == pass' = [pass EXCEPT ![p].pc = pc]

stillVars == <<unfenced, import, truth, budgetVars>>

(* Mutant: the write is not a compare-and-set. *)
FencePassesAlways(gen) == TRUE

FencePasses(gen) == checkpoint.gen = gen

Advanced(q, state, pc) == [q EXCEPT !.pc = pc, !.gen = @ + 1, !.state = state]

(* writeCopyCheckpoint: a rejected write ends the pass.                     *)
Persist(p, state, pc) ==
  IF FencePasses(pass[p].gen)
    THEN /\ checkpoint' = [gen |-> pass[p].gen + 1, state |-> state]
         /\ pass' = [pass EXCEPT ![p] = IF pc = "idle" THEN IdlePass ELSE Advanced(pass[p], state, pc)]
    ELSE Fail(p) /\ UNCHANGED checkpoint

(* The workflow runs one pass at a time; a request of an earlier one may be *)
(* delayed, which is a pass that overlaps.                                  *)
MayStart(p) ==
  IF \A q \in Passes \ {p} : pass[q].pc = "idle"
    THEN UNCHANGED used
    ELSE /\ plan.overlap = "frozen" => freeze = "frozen"
         /\ used.overlaps < plan.overlaps
         /\ used' = [used EXCEPT !.overlaps = @ + 1]

(* Nothing is stored, but a checkpoint without a fence is never ignored.    *)
Start(p) ==
  /\ pass[p].pc = "idle" /\ MayStart(p)
  /\ checkpoint.gen = 0 => unfenced = NoState
  /\ pass' = [pass EXCEPT ![p] =
       [IdlePass EXCEPT !.gen = checkpoint.gen, !.state = checkpoint.state,
                        !.pc = IF checkpoint.gen = 0 THEN "create"
                               ELSE IF checkpoint.state.mode = "complete" THEN "reappeared"
                               ELSE "entry"]]
  /\ UNCHANGED <<dataVars, checkpoint, unfenced, import, truth, plan>>

(* After completion the source has to stay empty.                           *)
Reappeared(p) ==
  /\ pass[p].pc = "reappeared"
  /\ IF Present(source) = {} THEN Goto(p, "empty") ELSE Fail(p)
  /\ UNCHANGED <<dataVars, checkpoint, stillVars>>

Create(p) ==
  /\ pass[p].pc = "create" /\ Persist(p, FreshState, "loop")
  /\ UNCHANGED <<dataVars, stillVars>>

Adopt(state) == IF state.encoding = "bytes" THEN "loop" ELSE "migrate"

EntryFreeze(p) ==
  LET state == pass[p].state
  IN  /\ pass[p].pc = "entry"
      /\ IF state.acked # {} /\ freeze # "frozen"
           THEN Fail(p)
           ELSE Goto(p, IF /\ state.acked = {} /\ freeze = "absent" /\ state.encoding = "bytes"
                           /\ state.pending.phase \in {"copying", "verified"}
                           /\ state.pending.base = Nothing
                          THEN "compare" ELSE Adopt(state))
      /\ UNCHANGED <<dataVars, checkpoint, stillVars>>

SourceMatches(page) == \A i \in Ids(page) : source[i] = page.rows[i]

(* Mutant: a page is planned again only if all of it is gone. *)
ChangedOnlyIfGone(page) == \A i \in Ids(page) : source[i] = NoText

(* pendingSourceChanged *)
Changed(page) == ~SourceMatches(page)

(* A page that was changed before the freeze is planned again, after its    *)
(* copies are discarded.                                                    *)
EntryCompare(p) ==
  LET page == pass[p].state.pending
  IN  /\ pass[p].pc = "compare"
      /\ pass' = [pass EXCEPT ![p] =
           IF Changed(page)
             THEN [@ EXCEPT !.pc = "discard", !.todo = Ids(page)]
             ELSE [@ EXCEPT !.pc = "loop"]]
      /\ UNCHANGED <<dataVars, checkpoint, stillVars>>

(* The rows that are still to be done in the next shard.                    *)
NextShard(p) ==
  LET s == CHOOSE t \in Shards : \E i \in pass[p].todo : RouteOf[i] = t
  IN  {i \in pass[p].todo : RouteOf[i] = s}

RowsDone(p, ids, pc) ==
  LET left == pass[p].todo \ ids
  IN  pass' = [pass EXCEPT ![p] = [@ EXCEPT !.todo = left, !.pc = IF left = {} THEN pc ELSE pass[p].pc]]

(* discardUnacknowledgedPage *)
Discard(p) ==
  /\ pass[p].pc = "discard"
  /\ dest' = [i \in Rows |-> IF i \in NextShard(p) THEN NoText ELSE dest[i]]
  /\ RowsDone(p, NextShard(p), "forget")
  /\ UNCHANGED <<source, freeze, checkpoint, stillVars>>

Forget(p) ==
  /\ pass[p].pc = "forget"
  /\ Persist(p, [pass[p].state EXCEPT !.pending = NoPage], "loop")
  /\ UNCHANGED <<dataVars, stillVars>>

-----------------------------------------------------------------------------
(* migrateLegacyCopy: the first version's page is compared with what that   *)
(* version would read, and then owes the bytes the source has.              *)
MigrateEmpty(p) ==
  /\ pass[p].pc = "migrate" /\ pass[p].state.pending = NoPage
  /\ Persist(p, [pass[p].state EXCEPT !.encoding = "bytes"], "loop")
  /\ UNCHANGED <<dataVars, stillVars>>

MigrateFreeze(p) ==
  /\ pass[p].pc = "migrate" /\ pass[p].state.pending # NoPage
  /\ IF pass[p].state.acked # {} /\ freeze # "frozen" THEN Fail(p)
     ELSE pass' = [pass EXCEPT ![p] = [@ EXCEPT !.pc = "legacySource", !.freeze = freeze]]
  /\ UNCHANGED <<dataVars, checkpoint, stillVars>>

MigrateSource(p) ==
  LET page == pass[p].state.pending
      found == Ids(page) \cap Present(source)
  IN  /\ pass[p].pc = "legacySource"
      /\ IF \/ found \notin {{}, Ids(page)}
            \/ \E i \in found : Rendering[source[i]] # page.rows[i]
            \/ found = {} /\ (page.phase # "verified" \/ pass[p].freeze # "frozen")
           THEN Fail(p)
           ELSE pass' = [pass EXCEPT ![p] = [@ EXCEPT !.pc = "legacyShards", !.rows = Restricted(source, found)]]
      /\ UNCHANGED <<dataVars, checkpoint, stillVars>>

Migrated(state, rows, base, missing) ==
  [state EXCEPT !.encoding = "bytes",
                !.pending = [phase |-> "recovering", rows |-> rows, base |-> base, missing |-> missing]]

MigrateShards(p) ==
  LET page == pass[p].state.pending
      found == Ids(page) \cap Present(dest)
      exact == [i \in Ids(page) |-> IF i \in DOMAIN pass[p].rows THEN pass[p].rows[i] ELSE dest[i]]
  IN  /\ pass[p].pc = "legacyShards"
      /\ IF \/ page.phase = "verified" /\ found # Ids(page)
            \/ \E i \in found : dest[i] # page.rows[i]
            \/ \E i \in Ids(page) : exact[i] = NoText
           THEN Fail(p)
           ELSE pass' = [pass EXCEPT ![p] =
                  [@ EXCEPT !.pc = "legacyPersist",
                            !.state = Migrated(pass[p].state, exact, Restricted(dest, Ids(page)),
                                               Ids(page) \ DOMAIN pass[p].rows)]]
      /\ UNCHANGED <<dataVars, checkpoint, stillVars>>

MigratePersist(p) ==
  /\ pass[p].pc = "legacyPersist" /\ Persist(p, pass[p].state, "loop")
  /\ UNCHANGED <<dataVars, stillVars>>

-----------------------------------------------------------------------------
(* finishPending, or the plan of the next page.                             *)
Loop(p) ==
  /\ pass[p].pc = "loop"
  /\ Goto(p, CASE pass[p].state.pending.phase = "none"       -> "plan"
               [] pass[p].state.pending.phase = "recovering" -> "repairSource"
               [] pass[p].state.pending.phase = "copying"    -> "reread"
               [] OTHER                                      -> "verifySource")
  /\ UNCHANGED <<dataVars, checkpoint, stillVars>>

(* repairLegacyPending: the copies hold the exact bytes already, or still   *)
(* what the checkpoint found there; the others get the bytes of the source. *)
RepairSource(p) ==
  LET page == pass[p].state.pending
      found == Ids(page) \cap Present(source)
  IN  /\ pass[p].pc = "repairSource"
      /\ IF \/ \E i \in found : source[i] # page.rows[i]
            \/ ~(Ids(page) \ found \subseteq page.missing)
           THEN Fail(p)
           ELSE pass' = [pass EXCEPT ![p] = [@ EXCEPT !.pc = "repairShards", !.rows = Restricted(source, found)]]
      /\ UNCHANGED <<dataVars, checkpoint, stillVars>>

RepairShards(p) ==
  LET page == pass[p].state.pending
      stale == {i \in Ids(page) : dest[i] # page.rows[i]}
  IN  /\ pass[p].pc = "repairShards"
      /\ IF \/ \E i \in stale : dest[i] # page.base[i]
            \/ ~(stale \subseteq DOMAIN pass[p].rows)
           THEN Fail(p)
           ELSE pass' = [pass EXCEPT ![p] =
                  [@ EXCEPT !.pc = IF stale = {} THEN "repairedSource" ELSE "write",
                            !.rows = Restricted(pass[p].rows, stale),
                            !.todo = stale]]
      /\ UNCHANGED <<dataVars, checkpoint, stillVars>>

(* The page has to be what was planned.                                     *)
Reread(p) ==
  LET page == pass[p].state.pending
  IN  /\ pass[p].pc = "reread"
      /\ IF SourceMatches(page)
           THEN pass' = [pass EXCEPT ![p] = [@ EXCEPT !.pc = "write", !.rows = page.rows,
                                                      !.todo = Ids(page)]]
           ELSE Fail(p)
      /\ UNCHANGED <<dataVars, checkpoint, stillVars>>

(* Rows that fit into one request: any first few.                           *)
Groups(ids) == {group \in SUBSET ids : group # {} /\ \A i \in group, j \in ids \ group : i < j}

(* replaceShardPage: rows of one shard, in one transaction or several.      *)
WriteShard(p) ==
  /\ pass[p].pc = "write"
  /\ \E group \in Groups(NextShard(p)) :
       /\ dest' = [i \in Rows |-> IF i \in group THEN pass[p].rows[i] ELSE dest[i]]
       /\ RowsDone(p, group, IF pass[p].state.pending.phase = "recovering"
                               THEN "repairedSource" ELSE "verifySource")
  /\ UNCHANGED <<source, freeze, checkpoint, stillVars>>

(* verifyPending                                                            *)
SourceVerified(page, phase) ==
  \/ SourceMatches(page)
  \/ phase = "verified" /\ \A i \in Ids(page) : source[i] = NoText

VerifySource(p) ==
  LET page == pass[p].state.pending
      repaired == pass[p].pc = "repairedSource"
  IN  /\ pass[p].pc \in {"verifySource", "repairedSource"}
      /\ IF SourceVerified(page, IF repaired THEN "verified" ELSE page.phase)
           THEN pass' = [pass EXCEPT ![p] =
                  [@ EXCEPT !.pc = IF repaired THEN "repairedShards" ELSE "verifyShards",
                            !.left = Ids(page) \cap Present(source) # {}]]
           ELSE Fail(p)
      /\ UNCHANGED <<dataVars, checkpoint, stillVars>>

CopyVerified(page) == \A i \in Ids(page) : dest[i] = page.rows[i]

VerifyShards(p) ==
  LET page == pass[p].state.pending
  IN  /\ pass[p].pc \in {"verifyShards", "repairedShards"}
      /\ IF CopyVerified(page)
           THEN Goto(p, IF pass[p].pc = "verifyShards" THEN "mark" ELSE "repaired") ELSE Fail(p)
      /\ UNCHANGED <<dataVars, checkpoint, stillVars>>

(* The page is verified: durably, before the source loses it.  A repaired   *)
(* page is verified once more, like any other.                              *)
MarkVerified(p) ==
  /\ pass[p].pc \in {"mark", "repaired"}
  /\ Persist(p, [pass[p].state EXCEPT !.pending.phase = "verified"],
             IF pass[p].pc = "mark" THEN "frozen" ELSE "verifySource")
  /\ UNCHANGED <<dataVars, stillVars>>

ReadFreeze(p) ==
  /\ pass[p].pc = "frozen"
  /\ IF freeze # "frozen" /\ (pass[p].state.acked # {} \/ ~pass[p].left) THEN Fail(p)
     ELSE pass' = [pass EXCEPT ![p] = [@ EXCEPT !.freeze = freeze,
                                                !.pc = IF pass[p].left THEN "retire" ELSE "ack"]]
  /\ UNCHANGED <<dataVars, checkpoint, stillVars>>

(* Mutant: the page is deleted whatever it is by now. *)
RetirableBlindly(i, page) == TRUE

Retirable(i, page) == source[i] \in {page.rows[i], NoText}

(* One transaction: delete exactly what was verified, make sure that no row *)
(* of the page survives, freeze.  The triggers are lifted inside it only if *)
(* the pass knew of them.                                                   *)
Retire(p) ==
  LET page == pass[p].state.pending
      refused == freeze = "frozen" /\ pass[p].freeze = "absent" /\ Ids(page) \cap Present(source) # {}
  IN  /\ pass[p].pc = "retire"
      /\ IF ~refused /\ \A i \in Ids(page) : Retirable(i, page)
           THEN /\ source' = [i \in Rows |-> IF i \in Ids(page) THEN NoText ELSE source[i]]
                /\ freeze' = "frozen"
                /\ Goto(p, "ack")
           ELSE Fail(p) /\ UNCHANGED <<source, freeze>>
      /\ UNCHANGED <<dest, checkpoint, stillVars>>

(* acknowledgePending *)
Acked(state) ==
  [state EXCEPT !.pending = NoPage,
                !.acked = @ \cup {<<i, state.pending.rows[i]>> : i \in Ids(state.pending)}]

Acknowledge(p) ==
  /\ pass[p].pc = "ack" /\ Persist(p, Acked(pass[p].state), "loop")
  /\ UNCHANGED <<dataVars, stillVars>>

(* The first rows behind the cursor, as many as the byte budget allows.     *)
PagesOf(ahead) == {page \in Groups(ahead) : Cardinality(page) <= PageRows}

PlanPage(p) ==
  LET ahead == Present(source) \cap Ahead(pass[p].state)
  IN  /\ pass[p].pc = "plan"
      /\ IF ahead # {}
           THEN \E page \in PagesOf(ahead) :
                  pass' = [pass EXCEPT ![p] = [@ EXCEPT !.pc = "planned", !.rows = Restricted(source, page)]]
           ELSE IF Present(source) # {} THEN Fail(p) ELSE Goto(p, "empty")
      /\ UNCHANGED <<dataVars, checkpoint, stillVars>>

Planned(p) ==
  /\ pass[p].pc = "planned"
  /\ Persist(p, [pass[p].state EXCEPT !.pending = Page("copying", pass[p].rows)], "loop")
  /\ UNCHANGED <<dataVars, stillVars>>

Done(p) == IF pass[p].state.mode = "complete" THEN "idle" ELSE "complete"

Finished(p) == IF Done(p) = "idle" THEN Fail(p) ELSE Goto(p, "complete")

(* freezeEmptySource: the freeze is read, then installed over an empty      *)
(* source or not at all.                                                    *)
FreezeEmpty(p) ==
  /\ pass[p].pc = "empty"
  /\ IF freeze = "frozen" THEN Finished(p) ELSE Goto(p, "install")
  /\ UNCHANGED <<dataVars, checkpoint, stillVars>>

(* Mutant: the source is not checked again when the freeze is installed. *)
InstallsBlindly == TRUE

Installs == Present(source) = {}

InstallFreeze(p) ==
  /\ pass[p].pc = "install"
  /\ IF Installs THEN freeze' = "frozen" /\ Finished(p) ELSE Fail(p) /\ UNCHANGED freeze
  /\ UNCHANGED <<source, dest, checkpoint, stillVars>>

Complete(p) ==
  /\ pass[p].pc = "complete"
  /\ Persist(p, [pass[p].state EXCEPT !.mode = "complete"], "idle")
  /\ UNCHANGED <<dataVars, stillVars>>

(* The process or the connection dies; what a request did stays.            *)
Crash(p) ==
  /\ pass[p].pc # "idle" /\ used.crashes < plan.crashes
  /\ used' = [used EXCEPT !.crashes = @ + 1]
  /\ Fail(p)
  /\ UNCHANGED <<dataVars, checkpoint, unfenced, import, truth, plan>>

Advance(p) ==
  \/ Start(p) \/ Reappeared(p) \/ Create(p) \/ EntryFreeze(p) \/ EntryCompare(p) \/ Discard(p) \/ Forget(p)
  \/ MigrateEmpty(p) \/ MigrateFreeze(p) \/ MigrateSource(p) \/ MigrateShards(p) \/ MigratePersist(p)
  \/ Loop(p) \/ RepairSource(p) \/ RepairShards(p) \/ Reread(p) \/ WriteShard(p)
  \/ VerifySource(p) \/ VerifyShards(p) \/ MarkVerified(p) \/ ReadFreeze(p) \/ Retire(p) \/ Acknowledge(p)
  \/ PlanPage(p) \/ Planned(p) \/ FreezeEmpty(p) \/ InstallFreeze(p) \/ Complete(p)

CopyNext ==
  \/ LateWrite \/ UnfencedWrite \/ ImportRead \/ ImportInsert
  \/ \E p \in Passes : Advance(p) \/ Crash(p)

CopySpec == CopyInit /\ [][CopyNext]_copyVars

(* Operators start the copy until it is done, and its requests end.         *)
CopyFairSpec ==
  /\ CopySpec
  /\ WF_copyVars(ImportRead \/ ImportInsert)
  /\ \A p \in Passes : WF_copyVars(Advance(p))

-----------------------------------------------------------------------------
PageType == [phase : {"none", "copying", "verified", "recovering"}]

StateOk(state) ==
  /\ state.mode \in {"absent", "pending", "complete"} /\ state.encoding \in {"bytes", "legacy"}
  /\ state.acked \subseteq Rows \X Texts
  /\ [phase |-> state.pending.phase] \in PageType
  /\ Ids(state.pending) \subseteq Rows
  /\ state.pending = NoPage <=> Ids(state.pending) = {}
  /\ \A i \in Ids(state.pending) : state.pending.rows[i] \in Texts /\ i \in Ahead(state)
  /\ state.pending.phase = "recovering" => DOMAIN state.pending.base = Ids(state.pending)
  /\ state.mode = "complete" => state.pending = NoPage

(* The checkpoint always passes the validation that reads it back.          *)
CopyTypeOK ==
  /\ source \in [Rows -> Content] /\ dest \in [Rows -> Content] /\ truth \in [Rows -> Content]
  /\ freeze \in {"absent", "frozen"}
  /\ checkpoint.gen \in Nat /\ StateOk(checkpoint.state)
  /\ \A p \in Passes : pass[p].gen \in 0..checkpoint.gen

(* No pass starts beside another before the source is frozen.               *)
OverlapsLate == plan.overlap = "frozen"

(* A block the hub wrote is in the source, or its exact bytes are in its    *)
(* shard, whatever dies and whatever is written late.                       *)
NothingLost ==
  OverlapsLate => \A i \in Present(truth) : source[i] = truth[i] \/ (source[i] = NoText /\ dest[i] = truth[i])

(* What a checkpoint has acknowledged stays acknowledged, the source that   *)
(* gave it up stays frozen, and completion is final: a delayed pass never   *)
(* takes a newer one back.                                                  *)
AcknowledgedIsFinal ==
  [][/\ checkpoint.state.acked \subseteq checkpoint'.state.acked
     /\ checkpoint.gen <= checkpoint'.gen
     /\ checkpoint.state.mode = "complete" => checkpoint'.state.mode = "complete"
     /\ freeze = "frozen" => freeze' = "frozen"]_copyVars

(* When the copy is complete the shards hold the index, the whole index and *)
(* nothing else, and the digest chain describes it; a row that a late       *)
(* request deleted may stay behind.                                         *)
CompleteIsExact ==
  OverlapsLate /\ checkpoint.state.mode = "complete" =>
    /\ Present(source) = {} /\ freeze = "frozen"
    /\ "delete" \notin plan.writes => dest = truth
    /\ \A a \in checkpoint.state.acked : dest[a[1]] = a[2]

(* A checkpoint is well formed, and says of the shards what is true.        *)
CopyIsSound == CopyTypeOK /\ CompleteIsExact

(* Repeated passes complete the copy.  It refuses to go on for good when a  *)
(* page of the first version was changed after all, or when a verified page *)
(* whose copies were discarded is changed back before the next pass.        *)
Completes ==
  <>[](plan.lateWrites <= (IF plan.start = "fresh" THEN 1 ELSE 0) => checkpoint.state.mode = "complete")
=============================================================================
