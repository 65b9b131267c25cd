----------------------------- MODULE IndexWrite -----------------------------
(***************************************************************************)
(* How one session's blocks, search rows and usage are replaced: the       *)
(* writeSession and clearSessionDerived of hub/src/ingest/consumer.ts over *)
(* two databases.  Main holds the session row, the generation and the      *)
(* usage; the session's shard holds blocks, their search rows and the      *)
(* write fence of hub/src/index-shards.ts.                                 *)
(*                                                                         *)
(* Every D1 batch is one atomic action.  A writer may stop at any call, and*)
(* an older one may still be running when the next begins, because a call  *)
(* can outlive the delivery that made it.                                  *)
(***************************************************************************)
EXTENDS Naturals, Sequences, FiniteSets

CONSTANTS Files,        \* raw files that hold a copy of this session
          Archives,     \* those of them that are export archives
          Revisions,    \* contents a file may have, named by their hash
          Bodies,       \* block contents
          Tokens,       \* token counts of a turn
          BlocksOf,     \* BlocksOf[r]: the block rows parsed from r; none: no turns
          UsageOf,      \* UsageOf[r]: the usage rows parsed from r, by turn
          Writers,
          ChunkRows,    \* block rows per batch
          MaxWrites,    \* bound: writers ever started
          MaxUploads,   \* bound: uploads
          MaxTouches    \* bound: star edits and repricings

NoRevision == "none"
NoFile     == "none"

ASSUME IndexAssumption ==
  /\ Archives \subseteq Files /\ NoFile \notin Files /\ NoRevision \notin Revisions
  /\ BlocksOf \in [Revisions -> Seq(Bodies)]
  /\ UsageOf \in [Revisions -> Seq(Tokens)]
  /\ ChunkRows \in Nat \ {0}
  /\ {MaxWrites, MaxUploads, MaxTouches} \subseteq Nat

VARIABLES files,     \* files[f]: content hash and parse state
          session,   \* the main sessions row and its catalog version
          gen,       \* session_rollup_state.generation; 0: no row
          usage,     \* main usage rows, by turn
          fence,     \* index_write_versions.version on the shard
          blocks,    \* block rows on the shard
          indexed,   \* ids the full-text index knows
          nextId,    \* shard_meta.next_block_id
          writer,    \* writer[w]: the control state of one parse
          writes,    \* generations handed out
          uploads,
          touches,
          reused     \* history: two running writers captured one version

mainVars  == <<files, session, gen, usage>>
shardVars == <<fence, blocks, indexed, nextId>>
budget    == <<uploads, touches>>
vars == <<mainVars, shardVars, writer, writes, budget, reused>>

NoUsage == <<>>

Idle == [pc |-> "idle", file |-> NoFile, rev |-> NoRevision, gen |-> 0, version |-> 0,
         kept |-> 0, lastId |-> 0, usage |-> NoUsage, first |-> 0, sent |-> 0]

Writing  == {"invalidate", "claim", "probe", "clearUsage", "clear", "reserve", "insert",
             "usage", "check", "finalize"}
Clearing == {"clearStart", "clearClaim", "clearBlocks", "clearCheck", "clearCommit"}
Settling == {"mark", "revert", "fail", "failSession"}

Running(w) == writer[w].pc # "idle"

(* A row of the blocks table. *)
Row(id, f, pos, body) == [id |-> id, file |-> f, pos |-> pos, body |-> body]
Ids(rows) == {b.id : b \in rows}

RowsOf(f, r, idAt) == {Row(idAt[i], f, i, BlocksOf[r][i]) : i \in DOMAIN BlocksOf[r]}

Permuted(S) == {f \in [S -> S] : \A i, j \in S : f[i] = f[j] => i = j}

(* Nothing is indexed yet, or one file was, under ids in any order: nothing  *)
(* in the schema ties block ids to transcript order.                         *)
Init ==
  /\ gen = 0 /\ fence = 0 /\ writes = 0 /\ uploads = 0 /\ touches = 0 /\ reused = FALSE
  /\ writer = [w \in Writers |-> Idle]
  /\ \E f \in Files, r \in Revisions :
       \/ /\ files = [g \in Files |-> [rev |-> IF g = f THEN r ELSE NoRevision, state |-> "pending"]]
          /\ session = [state |-> "absent", file |-> NoFile, rev |-> NoRevision, version |-> 0]
          /\ usage = NoUsage /\ blocks = {}
       \/ /\ BlocksOf[r] # <<>>
          /\ files = [g \in Files |-> IF g = f THEN [rev |-> r, state |-> "parsed"]
                                               ELSE [rev |-> NoRevision, state |-> "pending"]]
          /\ session = [state |-> "ready", file |-> f, rev |-> r, version |-> 1]
          /\ usage = UsageOf[r]
          /\ \E idAt \in Permuted(DOMAIN BlocksOf[r]) : blocks = RowsOf(f, r, idAt)
  /\ indexed = Ids(blocks)
  /\ nextId = 1 + Cardinality(blocks)

-----------------------------------------------------------------------------
(* The triggers of the sessions table.  An update that leaves the row as it *)
(* was stamps no version (migration 0036), and one that sets index_state to *)
(* anything but 'ready' drops the generation, even when it was so already   *)
(* (migration 0025).                                                        *)

Stamped(row) ==
  IF [row EXCEPT !.version = session.version] = session
    THEN session
    ELSE [row EXCEPT !.version = session.version + 1]

SetState(state) == Stamped([session EXCEPT !.state = state])

(* recordUploadedObject's upsert: new bytes for a file. *)
Upload(f) ==
  /\ uploads < MaxUploads /\ uploads' = uploads + 1
  /\ \E r \in Revisions \ {files[f].rev} :
       files' = [files EXCEPT ![f] = [rev |-> r, state |-> "pending"]]
  /\ UNCHANGED <<session, gen, usage, shardVars, writer, writes, touches, reused>>

(* flipOwnedSessionsToParsing after an upload, and the same update of an    *)
(* admin reindex.                                                           *)
Flip(f) ==
  /\ session.file = f
  /\ session' = SetState("parsing")
  /\ gen' = 0
  /\ UNCHANGED <<files, usage, shardVars, writer, writes, budget, reused>>

(* A star edit or a repricing: the catalog version moves under the writers. *)
Touch ==
  /\ session.state # "absent"
  /\ touches < MaxTouches /\ touches' = touches + 1
  /\ session' = [session EXCEPT !.version = @ + 1]
  /\ UNCHANGED <<files, gen, usage, shardVars, writer, writes, uploads, reused>>

-----------------------------------------------------------------------------
Goto(w, pc) == writer' = [writer EXCEPT ![w] = [@ EXCEPT !.pc = pc]]
Stop(w)     == writer' = [writer EXCEPT ![w] = Idle]

Job(w) == writer[w].file
Rev(w) == writer[w].rev

(* The row still has the bytes this writer parsed. *)
SourceCurrent(w) == files[Job(w)].rev = Rev(w)

(* mainWriteGuard *)
Guard(w) == gen = writer[w].gen /\ SourceCurrent(w)

(* indexWriteFence *)
HoldsFence(w) == fence = writer[w].version

(* A delivery loads the row and parses the bytes.  Bytes with no turns make *)
(* it clear the session instead of writing it; an archive that no longer    *)
(* holds the conversation clears it too.                                    *)
Start(w, f) ==
  /\ ~Running(w) /\ writes < MaxWrites /\ files[f].rev # NoRevision
  /\ writes' = writes + 1
  /\ writer' = [writer EXCEPT ![w] =
       [Idle EXCEPT !.pc = IF BlocksOf[files[f].rev] # <<>> THEN "invalidate"
                           ELSE IF f \in Archives THEN "clearStart" ELSE "fail",
                    !.file = f, !.rev = files[f].rev, !.gen = writes + 1]]
  /\ UNCHANGED <<mainVars, shardVars, budget, reused>>

(* A captured version that another running writer also holds cannot tell    *)
(* the two apart on the shard.                                              *)
Capture(w, next) ==
  /\ writer' = [writer EXCEPT ![w] = [@ EXCEPT !.pc = next, !.version = session'.version]]
  /\ reused' = (reused \/ \E v \in Writers \ {w} :
                            Running(v) /\ writer[v].version = session'.version)

(* The main batch of writeSession: the session is 'parsing', the generation *)
(* is this writer's, and the catalog version is read.  A superseded source  *)
(* may only leave a placeholder for a session that has no row.              *)
Invalidate(w) ==
  /\ writer[w].pc = "invalidate"
  /\ IF SourceCurrent(w)
       THEN /\ session' = IF session.state = "absent"
                            THEN Stamped([session EXCEPT !.state = "parsing", !.file = Job(w)])
                            ELSE SetState("parsing")
            /\ gen' = writer[w].gen
            /\ Capture(w, "claim")
       ELSE /\ session' = IF session.state = "absent" /\ files[Job(w)].state = "pending"
                               /\ Job(w) \notin Archives
                            THEN Stamped([session EXCEPT !.state = "parsing", !.file = Job(w)])
                            ELSE session
            /\ Stop(w) /\ UNCHANGED <<gen, reused>>
  /\ UNCHANGED <<files, usage, shardVars, writes, budget>>

(* claimIndexWrite: a newer version takes the fence, an equal one takes it  *)
(* again, an older one is superseded.                                       *)
Claim(w) ==
  /\ writer[w].pc \in {"claim", "clearClaim"}
  /\ IF fence <= writer[w].version
       THEN /\ fence' = writer[w].version
            /\ Goto(w, IF writer[w].pc = "claim" THEN "probe" ELSE "clearBlocks")
       ELSE Stop(w) /\ UNCHANGED fence
  /\ UNCHANGED <<mainVars, blocks, indexed, nextId, writes, budget, reused>>

-----------------------------------------------------------------------------
(* retainablePrefix: the longest leading run of the parsed rows that is     *)
(* stored already, kept only if one id separates it from everything else.   *)

Before(b, c) == b.pos < c.pos \/ (b.pos = c.pos /\ b.id < c.id)

Leading(rows) == \A b \in rows, c \in blocks \ rows : Before(b, c)

Same(row, f, r, i) == row.file = f /\ row.pos = i /\ row.body = BlocksOf[r][i]

(* The first n rows parsed from r, each stored once.                        *)
IsRun(rows, f, r, n) ==
  /\ \A i \in 1..n : \E b \in rows : Same(b, f, r, i)
  /\ \A b \in rows : b.pos \in 1..n /\ Same(b, f, r, b.pos)
  /\ \A b, c \in rows : b.pos = c.pos => b = c

IsLeadingRun(rows, f, r, n) == n <= Len(BlocksOf[r]) /\ Leading(rows) /\ IsRun(rows, f, r, n)

(* Mutant: the last matching row is taken for a boundary. *)
AnyBoundary(rows, n) == {b \in rows : b.pos = n}

Boundary(rows, n) == {b \in rows : b.pos = n /\ \A c \in blocks : c \in rows <=> c.id <= b.id}

Retain(w, n, lastId, turns) ==
  writer' = [writer EXCEPT ![w] =
    [@ EXCEPT !.pc = "clearUsage", !.kept = n, !.lastId = lastId, !.usage = turns]]

(* The two probes, one per database.  An export write keeps nothing.        *)
Probe(w) ==
  /\ writer[w].pc = "probe"
  /\ IF Job(w) \in Archives
       THEN Retain(w, 0, 0, NoUsage)
       ELSE \E rows \in SUBSET blocks, n \in 0..Len(BlocksOf[Rev(w)]) :
              /\ IsLeadingRun(rows, Job(w), Rev(w), n)
              /\ ~\E more \in SUBSET blocks : IsLeadingRun(more, Job(w), Rev(w), n + 1)
              /\ \/ Boundary(rows, n) = {} /\ Retain(w, 0, 0, usage)
                 \/ \E b \in Boundary(rows, n) : Retain(w, n, b.id, usage)
  /\ UNCHANGED <<mainVars, shardVars, writes, budget, reused>>

(* usageDeletes: the turns that are gone, or with no probe every turn.      *)
ClearUsage(w) ==
  /\ writer[w].pc = "clearUsage"
  /\ usage' = IF ~Guard(w) THEN usage
              ELSE IF Job(w) \in Archives THEN NoUsage
              ELSE [t \in DOMAIN usage \ (DOMAIN writer[w].usage \ DOMAIN UsageOf[Rev(w)]) |-> usage[t]]
  /\ Goto(w, "clear")
  /\ UNCHANGED <<files, session, gen, shardVars, writes, budget, reused>>

(* The fenced clear batch: search rows and block rows past the prefix.      *)
Clear(w) ==
  /\ writer[w].pc = "clear"
  /\ IF HoldsFence(w)
       THEN /\ blocks' = {b \in blocks : b.id <= writer[w].lastId}
            /\ indexed' = indexed \ Ids(blocks \ blocks')
            /\ Goto(w, IF writer[w].kept = Len(BlocksOf[Rev(w)]) THEN "usage" ELSE "reserve")
       ELSE Stop(w) /\ UNCHANGED <<blocks, indexed>>
  /\ UNCHANGED <<mainVars, fence, nextId, writes, budget, reused>>

Remaining(w) == Len(BlocksOf[Rev(w)]) - writer[w].kept

(* Mutant: the statement returns the counter it has already advanced. *)
FirstAfter(w) == nextId + Remaining(w)

FirstId(w) == nextId

(* reserveBlockIds *)
ReserveIds(w) ==
  /\ writer[w].pc = "reserve"
  /\ nextId' = nextId + Remaining(w)
  /\ writer' = [writer EXCEPT ![w] = [@ EXCEPT !.pc = "insert", !.first = FirstId(w)]]
  /\ UNCHANGED <<mainVars, fence, blocks, indexed, writes, budget, reused>>

(* The rows of the next chunk. *)
Upto(w) ==
  IF writer[w].sent + ChunkRows < Remaining(w) THEN writer[w].sent + ChunkRows ELSE Remaining(w)

NextRows(w) ==
  {Row(writer[w].first + i, Job(w), writer[w].kept + i + 1, BlocksOf[Rev(w)][writer[w].kept + i + 1])
     : i \in writer[w].sent..(Upto(w) - 1)}

(* Mutant: the search rows wait for a batch of their own. *)
IndexedLater(rows) == {}

IndexedWith(rows) == Ids(rows)

(* One fenced chunk of block rows, with their search rows.                  *)
Insert(w) ==
  /\ writer[w].pc = "insert"
  /\ IF HoldsFence(w)
       THEN /\ blocks' = blocks \cup NextRows(w)
            /\ indexed' = indexed \cup IndexedWith(NextRows(w))
            /\ writer' = [writer EXCEPT ![w] =
                 [@ EXCEPT !.sent = Upto(w), !.pc = IF Upto(w) = Remaining(w) THEN "usage" ELSE "insert"]]
       ELSE Stop(w) /\ UNCHANGED <<blocks, indexed>>
  /\ UNCHANGED <<mainVars, fence, nextId, writes, budget, reused>>

(* The usage rows the probe did not find the same.                          *)
Changed(w) ==
  {t \in DOMAIN UsageOf[Rev(w)] :
     ~(t \in DOMAIN writer[w].usage /\ writer[w].usage[t] = UsageOf[Rev(w)][t])}

InsertUsage(w) ==
  /\ writer[w].pc = "usage"
  /\ usage' = IF Guard(w)
                THEN [t \in DOMAIN usage \cup Changed(w) |->
                        IF t \in Changed(w) THEN UsageOf[Rev(w)][t] ELSE usage[t]]
                ELSE usage
  /\ Goto(w, "check")
  /\ UNCHANGED <<files, session, gen, shardVars, writes, budget, reused>>

(* The last look at the fence before the session is published or cleared.   *)
CheckFence(w) ==
  /\ writer[w].pc \in {"check", "clearCheck"}
  /\ IF ~HoldsFence(w) THEN Stop(w)
     ELSE Goto(w, IF writer[w].pc = "check" THEN "finalize" ELSE "clearCommit")
  /\ UNCHANGED <<mainVars, shardVars, writes, budget, reused>>

(* The final main batch: the session is 'ready' with this file's metadata.  *)
Finalize(w) ==
  /\ writer[w].pc = "finalize"
  /\ IF Guard(w)
       THEN /\ session' = Stamped([session EXCEPT !.state = "ready", !.file = Job(w), !.rev = Rev(w)])
            /\ Goto(w, "mark")
       ELSE Stop(w) /\ UNCHANGED session
  /\ UNCHANGED <<files, gen, usage, shardVars, writes, budget, reused>>

-----------------------------------------------------------------------------
(* Mutant: the file is marked whatever its bytes are by now. *)
MarkAny(w) == TRUE

(* markParsed's guard: the bytes and, for a file that is one session, the   *)
(* generation, the owner and the state.                                     *)
Markable(w) ==
  /\ SourceCurrent(w)
  /\ Job(w) \in Archives \/ (Guard(w) /\ session.file = Job(w) /\ session.state = "ready")

Mark(w) ==
  /\ writer[w].pc = "mark"
  /\ IF Markable(w)
       THEN files' = [files EXCEPT ![Job(w)].state = "parsed"] /\ Stop(w)
       ELSE Goto(w, "revert") /\ UNCHANGED files
  /\ UNCHANGED <<session, gen, usage, shardVars, writes, budget, reused>>

(* revertSlice, and revertOwnedReady for an archive: only what this writer  *)
(* published goes back to 'parsing'.                                        *)
Revert(w) ==
  /\ writer[w].pc = "revert"
  /\ IF gen = writer[w].gen
       THEN session' = SetState("parsing") /\ gen' = 0
       ELSE UNCHANGED <<session, gen>>
  /\ Stop(w)
  /\ UNCHANGED <<files, usage, shardVars, writes, budget, reused>>

(* A throw that is not transient, and a parse with no turns: the file is in *)
(* error; a parse with no turns then clears the session it owns.            *)
FailFile(w) ==
  /\ writer[w].pc = "fail"
  /\ IF SourceCurrent(w)
       THEN /\ files' = [files EXCEPT ![Job(w)].state = "error"]
            /\ Goto(w, IF BlocksOf[Rev(w)] = <<>> THEN "clearStart" ELSE "failSession")
       ELSE Stop(w) /\ UNCHANGED files
  /\ UNCHANGED <<session, gen, usage, shardVars, writes, budget, reused>>

(* The error flip of a thrown parse: only while this writer's generation    *)
(* stands, or, when it threw before it had one, if it owns the session.     *)
Failable(w) ==
  /\ session.state # "absent" /\ SourceCurrent(w)
  /\ IF writer[w].gen = 0 THEN session.file \in {NoFile, Job(w)} ELSE gen = writer[w].gen

FailSession(w) ==
  /\ writer[w].pc = "failSession"
  /\ IF Failable(w) THEN session' = SetState("error") /\ gen' = 0
                    ELSE UNCHANGED <<session, gen>>
  /\ Stop(w)
  /\ UNCHANGED <<files, usage, shardVars, writes, budget, reused>>

(* clearSessionDerived: the main batch.  An export clear removes the row in *)
(* the end, so it stays 'parsing' till then.                                *)
ClearStart(w) ==
  /\ writer[w].pc = "clearStart"
  /\ IF SourceCurrent(w) /\ session.file = Job(w) /\ session.state # "absent"
       THEN /\ session' = SetState(IF Job(w) \in Archives THEN "parsing" ELSE "error")
            /\ gen' = writer[w].gen
            /\ Capture(w, "clearClaim")
       ELSE Stop(w) /\ UNCHANGED <<session, gen, reused>>
  /\ UNCHANGED <<files, usage, shardVars, writes, budget>>

ClearBlocks(w) ==
  /\ writer[w].pc = "clearBlocks"
  /\ IF HoldsFence(w)
       THEN blocks' = {} /\ indexed' = indexed \ Ids(blocks) /\ Goto(w, "clearCheck")
       ELSE Stop(w) /\ UNCHANGED <<blocks, indexed>>
  /\ UNCHANGED <<mainVars, fence, nextId, writes, budget, reused>>

ClearCommit(w) ==
  /\ writer[w].pc = "clearCommit"
  /\ IF Guard(w) /\ session.file = Job(w)
       THEN /\ usage' = NoUsage /\ gen' = 0
            /\ session' = IF Job(w) \in Archives
                 THEN Stamped([session EXCEPT !.state = "absent", !.file = NoFile, !.rev = NoRevision])
                 ELSE session
       ELSE UNCHANGED <<usage, gen, session>>
  /\ Stop(w)
  /\ UNCHANGED <<files, shardVars, writes, budget, reused>>

(* The raw object is gone: the parse throws before it has a generation.     *)
Missing(w) ==
  /\ writer[w].pc = "invalidate" /\ Job(w) \notin Archives
  /\ writer' = [writer EXCEPT ![w] = [@ EXCEPT !.pc = "fail", !.gen = 0]]
  /\ UNCHANGED <<mainVars, shardVars, writes, budget, reused>>

(* A call throws; what committed stays.  A transient error or a kill ends   *)
(* the delivery, another puts the file in error, and an archive first       *)
(* reverts what it wrote.                                                   *)
Throw(w) ==
  /\ Running(w)
  /\ \/ Stop(w)
     \/ /\ writer[w].pc \in Writing
        /\ Goto(w, IF Job(w) \in Archives THEN "revert" ELSE "fail")
  /\ UNCHANGED <<mainVars, shardVars, writes, budget, reused>>

Step(w) ==
  \/ Invalidate(w) \/ Claim(w) \/ Probe(w) \/ ClearUsage(w) \/ Clear(w) \/ ReserveIds(w)
  \/ Insert(w) \/ InsertUsage(w) \/ CheckFence(w) \/ Finalize(w) \/ Mark(w) \/ Revert(w)
  \/ FailFile(w) \/ FailSession(w) \/ ClearStart(w) \/ ClearBlocks(w) \/ ClearCommit(w)
  \/ Missing(w) \/ Throw(w)

Next ==
  \/ \E f \in Files : Upload(f) \/ Flip(f)
  \/ Touch
  \/ \E w \in Writers : Step(w) \/ \E f \in Files : Start(w, f)

Spec == Init /\ [][Next]_vars

-----------------------------------------------------------------------------
Hash == Revisions \cup {NoRevision}
Owner == Files \cup {NoFile}
IsUsage(u) == DOMAIN u \subseteq Nat /\ \A t \in DOMAIN u : u[t] \in Tokens

TypeOK ==
  /\ files \in [Files -> [rev : Hash, state : {"pending", "parsed", "error"}]]
  /\ session \in [state : {"absent", "parsing", "ready", "error"},
                  file : Owner, rev : Hash, version : Nat]
  /\ {gen, fence, nextId, writes, uploads, touches} \subseteq Nat
  /\ IsUsage(usage)
  /\ blocks \subseteq [id : 1..(nextId - 1), file : Files, pos : Nat, body : Bodies]
  /\ indexed \subseteq 1..(nextId - 1)
  /\ \A w \in Writers :
       /\ writer[w].pc \in {"idle"} \cup Writing \cup Clearing \cup Settling
       /\ writer[w].file \in Owner /\ writer[w].rev \in Hash
       /\ {writer[w].gen, writer[w].version, writer[w].kept, writer[w].lastId,
           writer[w].first, writer[w].sent} \subseteq Nat
       /\ IsUsage(writer[w].usage)
  /\ reused \in BOOLEAN

(* A session that search and the viewer call ready has on its shard, in     *)
(* whatever way writers, uploads and crashes interleaved, exactly the       *)
(* blocks its metadata was computed from: none of an older revision, none   *)
(* twice, none missing.                                                     *)
BlocksAreWhole ==
  session.state = "ready" =>
    /\ Cardinality(blocks) = Len(BlocksOf[session.rev])
    /\ \A i \in DOMAIN BlocksOf[session.rev] :
         \E b \in blocks : Same(b, session.file, session.rev, i)

(* It does as long as no two running writers captured the same version: the *)
(* trigger of migration 0036 stamps none when the row is 'parsing' already, *)
(* and the shard then lets both hold the fence.                             *)
FenceSeparatesWriters == reused \/ BlocksAreWhole

(* No bytes came back while a parse was under way: it takes two uploads,    *)
(* and statements guarded by the content hash cannot tell that from bytes   *)
(* that stayed, so that one is skipped and the next applied.                *)
NeverReverted == uploads < 2

(* The usage a ready session is priced and totalled from is its own.        *)
UsageIsWhole == NeverReverted /\ session.state = "ready" => usage = UsageOf[session.rev]

(* Every committed block is searchable and every search row has its block,  *)
(* also after a write that died half way: a later write retains such blocks *)
(* without indexing them again.                                             *)
CommittedIsIndexed == indexed = Ids(blocks)

(* A file marked parsed never vouches for an index of other bytes of it.    *)
ParsedDescribesIndex ==
  NeverReverted => \A f \in Files :
    files[f].state = "parsed" /\ session.file = f /\ session.state = "ready"
      => session.rev = files[f].rev

(* What is served and priced is of the bytes that were parsed.              *)
IndexIsWhole == ParsedDescribesIndex /\ UsageIsWhole
=============================================================================
