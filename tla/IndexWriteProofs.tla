-------------------------- MODULE IndexWriteProofs --------------------------
(* Proofs about IndexWrite, for every set of copies, contents and writers.  *)
EXTENDS IndexWrite, FiniteSetTheorems, TLAPS

Phase == {"idle"} \cup Writing \cup Clearing \cup Settling

UsageRows == UNION {[D -> Tokens] : D \in SUBSET Nat}

File == [rev : Hash, state : {"pending", "parsed", "error"}]

Session == [state : {"absent", "parsing", "ready", "error"}, file : Owner, rev : Hash, version : Nat]

WriterState ==
  [pc : Phase, file : Owner, rev : Hash, gen : Nat, version : Nat, kept : Nat, lastId : Nat,
   usage : UsageRows, first : Nat, sent : Nat]

BlockRow(next) == [id : 1..(next - 1), file : Files, pos : Nat, body : Bodies]

(* A parse stays within the rows it parsed, and within the ids it reserved. *)
InRange(q, next) ==
  q.pc # "idle" =>
    /\ q.file \in Files /\ q.rev \in Revisions
    /\ q.kept + q.sent <= Len(BlocksOf[q.rev])
    /\ q.pc \in {"invalidate", "claim", "probe", "clearUsage", "clear", "reserve"} => q.sent = 0
    /\ q.pc = "insert" => q.first >= 1 /\ q.first + Len(BlocksOf[q.rev]) - q.kept <= next

MainOK ==
  /\ files \in [Files -> File]
  /\ session \in Session
  /\ gen \in Nat /\ usage \in UsageRows
  /\ writes \in Nat /\ uploads \in Nat /\ touches \in Nat /\ reused \in BOOLEAN

ShardOK ==
  /\ fence \in Nat /\ nextId \in Nat \ {0}
  /\ blocks \subseteq BlockRow(nextId)
  /\ indexed \subseteq 1..(nextId - 1)

WritersOK ==
  /\ writer \in [Writers -> WriterState]
  /\ \A w \in Writers : InRange(writer[w], nextId)

TypeInv == MainOK /\ ShardOK /\ WritersOK

-----------------------------------------------------------------------------
(* The phases of a parse that has captured a version, of one that has        *)
(* claimed the fence with it, and of one that may yet write to the shard.    *)
Claiming  == {"claim", "clearClaim"}
Filling   == {"clearUsage", "clear", "reserve", "insert", "usage", "check", "finalize"}
Claimed   == {"probe"} \cup Filling \cup {"clearBlocks", "clearCheck", "clearCommit"}
Shredding == Claiming \cup {"probe", "clearUsage", "clear", "reserve", "insert", "clearBlocks"}

(* Generations are handed out once.  A parse without one is only to fail.   *)
Numbered(q, n) ==
  q.pc # "idle" =>
    /\ q.gen <= n
    /\ q.gen = 0 => q.pc \in {"fail", "failSession"} /\ BlocksOf[q.rev] # <<>>
    /\ q.pc = "invalidate" => BlocksOf[q.rev] # <<>>

GenerationsDiffer ==
  /\ gen <= writes
  /\ \A w \in Writers : Numbered(writer[w], writes)
  /\ \A v, w \in Writers : v # w /\ Running(v) /\ Running(w) /\ writer[v].gen = writer[w].gen
                             => writer[v].gen = 0

(* The generation of the session is this writer's. *)
Owns(q, g) == q.pc # "idle" /\ g # 0 /\ q.gen = g

(* Versions only grow, and a claim never lowers the fence. *)
Versioned(q, g, f, s) ==
  /\ q.version <= s.version
  /\ q.pc \in Claiming \cup Claimed => q.version > 0
  /\ q.pc \in Claimed => q.version <= f
  /\ Owns(q, g) => q.version > 0

VersionsGrow ==
  /\ fence <= session.version
  /\ session.state # "absent" => session.version > 0
  /\ \A w \in Writers : Versioned(writer[w], gen, fence, session)

(* While no version was captured twice, the writer whose generation stands   *)
(* has the highest one of those that run.                                    *)
Apart(q, p) == q.version > 0 \/ p.version > 0 => q.version # p.version

VersionsDiffer ==
  \A v, w \in Writers : v # w /\ Running(v) /\ Running(w) => Apart(writer[v], writer[w])

OwnerIsNewest ==
  \A w \in Writers : Owns(writer[w], gen) =>
    /\ fence <= writer[w].version
    /\ \A v \in Writers \ {w} : Running(v) => writer[v].version < writer[w].version

(* What the shard holds for the writer that holds its fence. *)
Filled(q, rows) ==
  /\ q.pc \in {"clearUsage", "clear"} => IsRun({b \in rows : b.id <= q.lastId}, q.file, q.rev, q.kept)
  /\ q.pc \in {"reserve", "insert"} => IsRun(rows, q.file, q.rev, q.kept + q.sent)
  /\ q.pc \in {"usage", "check", "finalize"} => IsRun(rows, q.file, q.rev, Len(BlocksOf[q.rev]))

HolderFills == \A w \in Writers : writer[w].version = fence => Filled(writer[w], blocks)

ReadyIsFilled ==
  session.state = "ready" =>
    /\ session.file \in Files /\ session.rev \in Revisions
    /\ IsRun(blocks, session.file, session.rev, Len(BlocksOf[session.rev]))
    /\ \A w \in Writers : writer[w].pc \in Shredding => writer[w].version < fence

ShardInv == VersionsDiffer /\ OwnerIsNewest /\ HolderFills /\ ReadyIsFilled

FenceInv == GenerationsDiffer /\ VersionsGrow /\ (~reused => ShardInv)

-----------------------------------------------------------------------------
(* The usage rows of the main database.  *)
Narrowed(u, r) == [t \in DOMAIN u \cap DOMAIN UsageOf[r] |-> u[t]]

(* What the usage rows are for the writer whose generation stands. *)
Priced(q, u) ==
  /\ q.pc = "clearUsage" => q.usage = IF q.file \in Archives THEN NoUsage ELSE u
  /\ q.pc \in {"clear", "reserve", "insert", "usage"} => u = Narrowed(q.usage, q.rev)
  /\ q.pc \in {"check", "finalize"} => u = UsageOf[q.rev]

(* A session is not ready while the writer it belongs to is at work.        *)
OwnerAtWork ==
  \A w \in Writers : Owns(writer[w], gen) /\ writer[w].pc \in Claiming \cup Claimed
                       => session.state # "ready"

(* The row of the parse's file has the bytes that it parsed. *)
Stands(q, fs) == fs[q.file].rev = q.rev

(* Till the second upload, a writer whose bytes stand always had them.      *)
BytesStand == uploads = 0 => \A w \in Writers : Running(w) => Stands(writer[w], files)

OwnerPrices ==
  \A w \in Writers : Owns(writer[w], gen) /\ Stands(writer[w], files) => Priced(writer[w], usage)

Marks(q, fs, s) ==
  q.pc = "mark" /\ Stands(q, fs) /\ s.state = "ready" /\ s.file = q.file => s.rev = q.rev

MarksItsOwn == \A w \in Writers : Marks(writer[w], files, session)

ReadyIsPriced == session.state = "ready" => usage = UsageOf[session.rev]

ParsedIsIndexed ==
  \A f \in Files : files[f].state = "parsed" /\ session.file = f /\ session.state = "ready"
                     => session.rev = files[f].rev

SourcesStand == BytesStand /\ OwnerPrices /\ MarksItsOwn /\ ReadyIsPriced /\ ParsedIsIndexed

UsageInv == OwnerAtWork /\ (uploads < 2 => SourcesStand)

-----------------------------------------------------------------------------
(* What the constants and the operators promise. *)

LEMMA Distinct ==
  /\ NoRevision \notin Revisions /\ NoFile \notin Files
  /\ \A r \in Revisions : /\ BlocksOf[r] \in Seq(Bodies) /\ Len(BlocksOf[r]) \in Nat
                          /\ DOMAIN BlocksOf[r] = 1..Len(BlocksOf[r])
                          /\ \A i \in 1..Len(BlocksOf[r]) : BlocksOf[r][i] \in Bodies
                          /\ BlocksOf[r] # <<>> <=> Len(BlocksOf[r]) > 0
  /\ ChunkRows \in Nat \ {0}
  BY IndexAssumption

LEMMA EmptyUsage == NoUsage \in UsageRows /\ DOMAIN NoUsage = {}
<1>1. NoUsage \in Seq(Tokens) /\ Len(NoUsage) = 0
  BY DEF NoUsage
<1>2. DOMAIN NoUsage = {}
  BY <1>1 DEF NoUsage
<1>3. NoUsage = [t \in {} |-> NoUsage[t]]
  BY <1>2 DEF NoUsage
<1>4. NoUsage \in [{} -> Tokens]
  BY <1>3
<1> QED BY <1>2, <1>4 DEF UsageRows

LEMMA ParsedUsage ==
  ASSUME NEW r \in Revisions
  PROVE  UsageOf[r] \in UsageRows
<1>1. UsageOf[r] \in Seq(Tokens)
  BY IndexAssumption
<1>2. UsageOf[r] \in [1..Len(UsageOf[r]) -> Tokens] /\ 1..Len(UsageOf[r]) \subseteq Nat
  BY <1>1
<1> QED BY <1>2 DEF UsageRows

LEMMA UsageIsFunction ==
  ASSUME NEW u \in UsageRows
  PROVE  /\ u = [t \in DOMAIN u |-> u[t]]
         /\ DOMAIN u \subseteq Nat /\ \A t \in DOMAIN u : u[t] \in Tokens
<1>1. PICK D \in SUBSET Nat : u \in [D -> Tokens]
  BY DEF UsageRows
<1> QED BY <1>1

LEMMA UsageIsTyped ==
  ASSUME NEW D \in SUBSET Nat, NEW u \in [D -> Tokens]
  PROVE  u \in UsageRows
  BY DEF UsageRows

LEMMA TypeInvIsTypeOK == TypeInv => TypeOK
<1> SUFFICES ASSUME TypeInv PROVE TypeOK
  OBVIOUS
<1>1. /\ files \in [Files -> [rev : Hash, state : {"pending", "parsed", "error"}]]
      /\ session \in [state : {"absent", "parsing", "ready", "error"},
                      file : Owner, rev : Hash, version : Nat]
      /\ {gen, fence, nextId, writes, uploads, touches} \subseteq Nat
      /\ reused \in BOOLEAN
  BY DEF TypeInv, MainOK, ShardOK, File, Session
<1>2. IsUsage(usage)
  BY UsageIsFunction DEF TypeInv, MainOK, IsUsage
<1>3. /\ blocks \subseteq [id : 1..(nextId - 1), file : Files, pos : Nat, body : Bodies]
      /\ indexed \subseteq 1..(nextId - 1)
  BY DEF TypeInv, ShardOK, BlockRow
<1>4. ASSUME NEW w \in Writers
      PROVE  /\ writer[w].pc \in {"idle"} \cup Writing \cup Clearing \cup Settling
             /\ writer[w].file \in Owner /\ writer[w].rev \in Hash
             /\ {writer[w].gen, writer[w].version, writer[w].kept, writer[w].lastId,
                 writer[w].first, writer[w].sent} \subseteq Nat
             /\ IsUsage(writer[w].usage)
  <2>1. writer[w] \in WriterState
    BY DEF TypeInv, WritersOK
  <2>2. IsUsage(writer[w].usage)
    BY <2>1, UsageIsFunction DEF WriterState, IsUsage
  <2> QED BY <2>1, <2>2 DEF WriterState, Phase
<1> QED BY <1>1, <1>2, <1>3, <1>4 DEF TypeOK

LEMMA IdleIsTyped == Idle \in WriterState /\ Idle.pc = "idle"
  BY EmptyUsage DEF Idle, WriterState, Phase, Owner, Hash

-----------------------------------------------------------------------------
(* Types. *)

(* A step replaces one writer's state, and never takes back an id.          *)
LEMMA WriterMoves ==
  ASSUME TypeInv, NEW w \in Writers, NEW q \in WriterState, writer' = [writer EXCEPT ![w] = q],
         nextId' \in Nat, nextId' >= nextId, InRange(q, nextId')
  PROVE  WritersOK'
<1>1. writer' \in [Writers -> WriterState]
  BY DEF TypeInv, WritersOK
<1>2. ASSUME NEW v \in Writers PROVE InRange(writer'[v], nextId')
  <2>1. CASE v = w
    BY <2>1 DEF TypeInv, WritersOK
  <2>2. CASE v # w
    <3>1. writer'[v] = writer[v] /\ InRange(writer[v], nextId) /\ writer[v] \in WriterState
      BY <2>2 DEF TypeInv, WritersOK
    <3>2. writer[v].pc # "idle" => Len(BlocksOf[writer[v].rev]) \in Nat
      BY <3>1, Distinct DEF InRange
    <3>3. writer[v].first \in Nat /\ writer[v].kept \in Nat /\ nextId \in Nat
      BY <3>1 DEF WriterState, TypeInv, ShardOK
    <3>4. writer[v].pc = "insert" => writer[v].first + Len(BlocksOf[writer[v].rev]) - writer[v].kept <= nextId'
      BY <3>1, <3>2, <3>3 DEF InRange
    <3> QED BY <3>1, <3>4 DEF InRange
  <2> QED BY <2>1, <2>2
<1> QED BY <1>1, <1>2 DEF WritersOK

(* What a running writer is. *)
LEMMA WriterIs ==
  ASSUME TypeInv, NEW w \in Writers
  PROVE  /\ writer[w] \in WriterState /\ InRange(writer[w], nextId)
         /\ writer[w].gen \in Nat /\ writer[w].version \in Nat /\ writer[w].kept \in Nat
         /\ writer[w].lastId \in Nat /\ writer[w].first \in Nat /\ writer[w].sent \in Nat
         /\ writer[w].usage \in UsageRows
         /\ writer[w].pc # "idle" =>
              /\ writer[w].file \in Files /\ writer[w].rev \in Revisions
              /\ Len(BlocksOf[writer[w].rev]) \in Nat
              /\ writer[w].kept + writer[w].sent <= Len(BlocksOf[writer[w].rev])
              /\ files[writer[w].file] \in File
<1>1. writer[w] \in WriterState /\ InRange(writer[w], nextId)
  BY DEF TypeInv, WritersOK
<1> QED BY <1>1, Distinct DEF TypeInv, MainOK, WriterState, InRange

LEMMA GotoIs ==
  ASSUME TypeInv, NEW w \in Writers, Running(w), NEW pc \in Phase, Goto(w, pc)
  PROVE  \E q \in WriterState :
           /\ writer' = [writer EXCEPT ![w] = q] /\ q.pc = pc
           /\ q.file = writer[w].file /\ q.rev = writer[w].rev /\ q.gen = writer[w].gen
           /\ q.version = writer[w].version /\ q.kept = writer[w].kept
           /\ q.lastId = writer[w].lastId /\ q.usage = writer[w].usage
           /\ q.first = writer[w].first /\ q.sent = writer[w].sent
<1> DEFINE q == [writer[w] EXCEPT !.pc = pc]
<1>1. writer[w] \in WriterState
  BY WriterIs
<1>2. q \in WriterState
  BY <1>1 DEF WriterState
<1>3. /\ q.pc = pc
      /\ q.file = writer[w].file /\ q.rev = writer[w].rev /\ q.gen = writer[w].gen
      /\ q.version = writer[w].version /\ q.kept = writer[w].kept
      /\ q.lastId = writer[w].lastId /\ q.usage = writer[w].usage
      /\ q.first = writer[w].first /\ q.sent = writer[w].sent
  BY <1>1 DEF WriterState
<1>4. writer' = [writer EXCEPT ![w] = q]
  BY DEF Goto
<1> QED BY <1>2, <1>3, <1>4

LEMMA StopIs ==
  ASSUME TypeInv, NEW w \in Writers, Stop(w), nextId' = nextId
  PROVE  WritersOK' /\ writer' = [writer EXCEPT ![w] = Idle]
<1>1. writer' = [writer EXCEPT ![w] = Idle]
  BY DEF Stop
<1>2. InRange(Idle, nextId')
  BY IdleIsTyped DEF InRange
<1>3. nextId' \in Nat /\ nextId' >= nextId
  BY DEF TypeInv, ShardOK
<1> QED BY <1>1, <1>2, <1>3, IdleIsTyped, WriterMoves

(* A writer that goes on without a reservation to keep. *)
LEMMA GotoMoves ==
  ASSUME TypeInv, NEW w \in Writers, Running(w), NEW pc \in Phase \ {"insert"}, Goto(w, pc),
         nextId' = nextId,
         pc \in {"invalidate", "claim", "probe", "clearUsage", "clear", "reserve"}
           => writer[w].sent = 0
  PROVE  WritersOK'
<1>1. PICK q \in WriterState :
           /\ writer' = [writer EXCEPT ![w] = q] /\ q.pc = pc
           /\ q.file = writer[w].file /\ q.rev = writer[w].rev /\ q.gen = writer[w].gen
           /\ q.version = writer[w].version /\ q.kept = writer[w].kept
           /\ q.lastId = writer[w].lastId /\ q.usage = writer[w].usage
           /\ q.first = writer[w].first /\ q.sent = writer[w].sent
  BY GotoIs
<1>2. InRange(q, nextId')
  BY <1>1, WriterIs DEF InRange, Running
<1>3. nextId' \in Nat /\ nextId' >= nextId
  BY DEF TypeInv, ShardOK
<1> QED BY <1>1, <1>2, <1>3, WriterMoves

LEMMA StampedIs ==
  ASSUME session \in Session, NEW row \in Session
  PROVE  /\ Stamped(row) \in Session
         /\ Stamped(row).state = row.state /\ Stamped(row).file = row.file
         /\ Stamped(row).rev = row.rev
         /\ Stamped(row).version >= session.version
         /\ row.state # "absent" /\ (session.state # "absent" => session.version > 0)
              => Stamped(row).version > 0
<1>1. session.version \in Nat
  BY DEF Session
<1>2. CASE [row EXCEPT !.version = session.version] = session
  <2>1. Stamped(row) = session
    BY <1>2 DEF Stamped
  <2>2. row.state = session.state /\ row.file = session.file /\ row.rev = session.rev
    BY <1>2 DEF Session
  <2> QED BY <1>1, <2>1, <2>2
<1>3. CASE [row EXCEPT !.version = session.version] # session
  <2>1. Stamped(row) = [row EXCEPT !.version = session.version + 1]
    BY <1>3 DEF Stamped
  <2>2. /\ Stamped(row) \in Session /\ Stamped(row).state = row.state
        /\ Stamped(row).file = row.file /\ Stamped(row).rev = row.rev
        /\ Stamped(row).version = session.version + 1
    BY <1>1, <2>1 DEF Session
  <2> QED BY <1>1, <2>2
<1> QED BY <1>2, <1>3

LEMMA SetStateIs ==
  ASSUME session \in Session, NEW s \in {"absent", "parsing", "ready", "error"}
  PROVE  /\ SetState(s) \in Session
         /\ SetState(s).state = s /\ SetState(s).file = session.file
         /\ SetState(s).rev = session.rev
         /\ SetState(s).version >= session.version
         /\ s # "absent" /\ (session.state # "absent" => session.version > 0)
              => SetState(s).version > 0
<1> DEFINE row == [session EXCEPT !.state = s]
<1>1. row \in Session /\ row.state = s /\ row.file = session.file /\ row.rev = session.rev
  BY DEF Session
<1>2. SetState(s) = Stamped(row)
  BY DEF SetState
<1> HIDE DEF row
<1> QED BY <1>1, <1>2, StampedIs

(* The parse starts to write: its version is the session's, not yet ready.  *)
LEMMA CaptureIs ==
  ASSUME TypeInv, NEW w \in Writers, Running(w), NEW pc \in Claiming, Capture(w, pc),
         session' \in Session
  PROVE  /\ \E q \in WriterState :
           /\ writer' = [writer EXCEPT ![w] = q] /\ q.pc = pc
           /\ q.file = writer[w].file /\ q.rev = writer[w].rev /\ q.gen = writer[w].gen
           /\ q.version = session'.version /\ q.kept = writer[w].kept
           /\ q.lastId = writer[w].lastId /\ q.usage = writer[w].usage
           /\ q.first = writer[w].first /\ q.sent = writer[w].sent
         /\ reused' \in BOOLEAN
         /\ ~reused' => ~reused /\ \A v \in Writers \ {w} : Running(v) => writer[v].version # session'.version
<1> DEFINE q == [writer[w] EXCEPT !.pc = pc, !.version = session'.version]
<1>1. writer[w] \in WriterState
  BY WriterIs
<1>2. q \in WriterState
  BY <1>1 DEF WriterState, Session, Phase, Claiming, Writing, Clearing
<1>3. /\ q.pc = pc
      /\ q.file = writer[w].file /\ q.rev = writer[w].rev /\ q.gen = writer[w].gen
      /\ q.version = session'.version /\ q.kept = writer[w].kept
      /\ q.lastId = writer[w].lastId /\ q.usage = writer[w].usage
      /\ q.first = writer[w].first /\ q.sent = writer[w].sent
  BY <1>1 DEF WriterState
<1>4. writer' = [writer EXCEPT ![w] = q]
  BY DEF Capture
<1>5. reused \in BOOLEAN /\ reused' = (reused \/ \E v \in Writers \ {w} : Running(v) /\ writer[v].version = session'.version)
  BY DEF Capture, TypeInv, MainOK
<1>6. ~reused' => ~reused /\ \A v \in Writers \ {w} : Running(v) => writer[v].version # session'.version
  BY <1>5
<1> HIDE DEF q
<1> QED BY <1>2, <1>3, <1>4, <1>5, <1>6

LEMMA CaptureMoves ==
  ASSUME TypeInv, NEW w \in Writers, Running(w), NEW pc \in Claiming, Capture(w, pc),
         session' \in Session, nextId' = nextId, pc = "claim" => writer[w].sent = 0
  PROVE  WritersOK'
<1>1. PICK q \in WriterState :
           /\ writer' = [writer EXCEPT ![w] = q] /\ q.pc = pc
           /\ q.file = writer[w].file /\ q.rev = writer[w].rev /\ q.gen = writer[w].gen
           /\ q.version = session'.version /\ q.kept = writer[w].kept
           /\ q.lastId = writer[w].lastId /\ q.usage = writer[w].usage
           /\ q.first = writer[w].first /\ q.sent = writer[w].sent
  BY CaptureIs
<1>2. InRange(q, nextId')
  BY <1>1, WriterIs DEF InRange, Running, Claiming
<1>3. nextId' \in Nat /\ nextId' >= nextId
  BY DEF TypeInv, ShardOK
<1> QED BY <1>1, <1>2, <1>3, WriterMoves

LEMMA RetainIs ==
  ASSUME TypeInv, NEW w \in Writers, Running(w), NEW n \in Nat, NEW lastId \in Nat,
         NEW turns \in UsageRows, Retain(w, n, lastId, turns)
  PROVE  \E q \in WriterState :
           /\ writer' = [writer EXCEPT ![w] = q] /\ q.pc = "clearUsage"
           /\ q.file = writer[w].file /\ q.rev = writer[w].rev /\ q.gen = writer[w].gen
           /\ q.version = writer[w].version /\ q.kept = n
           /\ q.lastId = lastId /\ q.usage = turns
           /\ q.first = writer[w].first /\ q.sent = writer[w].sent
<1> DEFINE q == [writer[w] EXCEPT !.pc = "clearUsage", !.kept = n, !.lastId = lastId, !.usage = turns]
<1>1. writer[w] \in WriterState
  BY WriterIs
<1>2. q \in WriterState
  BY <1>1 DEF WriterState, Phase, Writing
<1>3. /\ q.pc = "clearUsage"
      /\ q.file = writer[w].file /\ q.rev = writer[w].rev /\ q.gen = writer[w].gen
      /\ q.version = writer[w].version /\ q.kept = n
      /\ q.lastId = lastId /\ q.usage = turns
      /\ q.first = writer[w].first /\ q.sent = writer[w].sent
  BY <1>1 DEF WriterState
<1>4. writer' = [writer EXCEPT ![w] = q]
  BY DEF Retain
<1> HIDE DEF q
<1> QED BY <1>2, <1>3, <1>4

LEMMA ShardWaits ==
  ASSUME TypeInv, UNCHANGED shardVars
  PROVE  ShardOK'
  BY DEF TypeInv, ShardOK, shardVars

LEMMA MainWaits ==
  ASSUME TypeInv, UNCHANGED <<mainVars, writes, budget, reused>>
  PROVE  MainOK'
  BY DEF TypeInv, MainOK, mainVars, budget

LEMMA WritersWait ==
  ASSUME TypeInv, writer' = writer, nextId' = nextId
  PROVE  WritersOK'
  BY DEF TypeInv, WritersOK

LEMMA UploadTypes ==
  ASSUME TypeInv, NEW f \in Files, Upload(f)
  PROVE  TypeInv'
<1>1. PICK r \in Revisions \ {files[f].rev} : files' = [files EXCEPT ![f] = [rev |-> r, state |-> "pending"]]
  BY DEF Upload
<1>2. [rev |-> r, state |-> "pending"] \in File
  BY DEF File, Hash
<1>3. files' \in [Files -> File]
  BY <1>1, <1>2 DEF TypeInv, MainOK
<1>4. uploads' \in Nat
  BY DEF Upload, TypeInv, MainOK
<1>5. UNCHANGED <<session, gen, usage, shardVars, writer, writes, touches, reused>> /\ nextId' = nextId
  BY DEF Upload, shardVars
<1>6. MainOK'
  BY <1>3, <1>4, <1>5 DEF TypeInv, MainOK
<1> QED BY <1>5, <1>6, ShardWaits, WritersWait DEF TypeInv

LEMMA FlipTypes ==
  ASSUME TypeInv, NEW f \in Files, Flip(f)
  PROVE  TypeInv'
<1>1. session \in Session /\ session' = SetState("parsing") /\ gen' = 0
  BY DEF Flip, TypeInv, MainOK
<1>2. session' \in Session
  BY <1>1, SetStateIs
<1>3. UNCHANGED <<files, usage, shardVars, writer, writes, budget, reused>> /\ nextId' = nextId
  BY DEF Flip, shardVars
<1>4. MainOK'
  BY <1>1, <1>2, <1>3 DEF TypeInv, MainOK, budget
<1> QED BY <1>3, <1>4, ShardWaits, WritersWait DEF TypeInv

LEMMA TouchTypes ==
  ASSUME TypeInv, Touch
  PROVE  TypeInv'
<1>1. session \in Session /\ session' = [session EXCEPT !.version = @ + 1]
  BY DEF Touch, TypeInv, MainOK
<1>2. session' \in Session
  BY <1>1 DEF Session
<1>3. touches' \in Nat
  BY DEF Touch, TypeInv, MainOK
<1>4. UNCHANGED <<files, gen, usage, shardVars, writer, writes, uploads, reused>> /\ nextId' = nextId
  BY DEF Touch, shardVars
<1>5. MainOK'
  BY <1>2, <1>3, <1>4 DEF TypeInv, MainOK
<1> QED BY <1>4, <1>5, ShardWaits, WritersWait DEF TypeInv

LEMMA StartIs ==
  ASSUME TypeInv, NEW w \in Writers, NEW f \in Files, Start(w, f)
  PROVE  \E q \in WriterState :
           /\ writer' = [writer EXCEPT ![w] = q]
           /\ q.pc = IF BlocksOf[files[f].rev] # <<>> THEN "invalidate"
                     ELSE IF f \in Archives THEN "clearStart" ELSE "fail"
           /\ q.file = f /\ q.rev = files[f].rev /\ q.rev \in Revisions /\ q.gen = writes + 1
           /\ q.version = 0 /\ q.kept = 0 /\ q.sent = 0
<1> DEFINE pc == IF BlocksOf[files[f].rev] # <<>> THEN "invalidate"
                 ELSE IF f \in Archives THEN "clearStart" ELSE "fail"
           q == [Idle EXCEPT !.pc = pc, !.file = f, !.rev = files[f].rev, !.gen = writes + 1]
<1>1. files[f] \in File /\ files[f].rev # NoRevision /\ writes \in Nat
  BY DEF Start, TypeInv, MainOK
<1>2. files[f].rev \in Revisions
  BY <1>1 DEF File, Hash
<1>3. pc \in Phase
  BY DEF Phase, Writing, Clearing, Settling
<1>4. writer' = [writer EXCEPT ![w] = q]
  BY DEF Start
<1> HIDE DEF pc
<1>5. q \in WriterState
  <2>1. writes + 1 \in Nat /\ f \in Owner /\ files[f].rev \in Hash
    BY <1>1, <1>2 DEF Owner, Hash
  <2>2. [Idle EXCEPT !.pc = pc] \in WriterState
    BY <1>3, IdleIsTyped DEF WriterState
  <2> QED BY <2>1, <2>2, <1>3, IdleIsTyped DEF WriterState
<1>6. /\ q.pc = pc /\ q.file = f /\ q.rev = files[f].rev /\ q.gen = writes + 1
      /\ q.version = 0 /\ q.kept = 0 /\ q.sent = 0
  BY IdleIsTyped DEF WriterState, Idle
<1> HIDE DEF q
<1> QED BY <1>2, <1>4, <1>5, <1>6 DEF pc

LEMMA StartTypes ==
  ASSUME TypeInv, NEW w \in Writers, NEW f \in Files, Start(w, f)
  PROVE  TypeInv'
<1>1. PICK q \in WriterState :
           /\ writer' = [writer EXCEPT ![w] = q]
           /\ q.pc = IF BlocksOf[files[f].rev] # <<>> THEN "invalidate"
                     ELSE IF f \in Archives THEN "clearStart" ELSE "fail"
           /\ q.file = f /\ q.rev = files[f].rev /\ q.rev \in Revisions /\ q.gen = writes + 1
           /\ q.version = 0 /\ q.kept = 0 /\ q.sent = 0
  BY StartIs
<1>2. UNCHANGED <<mainVars, shardVars, budget, reused>> /\ nextId' = nextId /\ writes' = writes + 1
  BY DEF Start, shardVars
<1>3. q.pc # "insert" /\ 0 <= Len(BlocksOf[q.rev])
  BY <1>1, Distinct
<1>4. InRange(q, nextId')
  BY <1>1, <1>3 DEF InRange
<1>5. nextId' \in Nat /\ nextId' >= nextId
  BY <1>2 DEF TypeInv, ShardOK
<1>6. WritersOK'
  BY <1>1, <1>4, <1>5, WriterMoves
<1>7. MainOK'
  BY <1>2 DEF TypeInv, MainOK, mainVars, budget
<1> QED BY <1>2, <1>6, <1>7, ShardWaits DEF TypeInv

(* The session row of a batch that may leave a placeholder. *)
LEMMA PlaceholderIs ==
  ASSUME session \in Session, NEW f \in Files
  PROVE  LET row == [session EXCEPT !.state = "parsing", !.file = f] IN
         /\ Stamped(row) \in Session
         /\ Stamped(row).state = "parsing"
         /\ Stamped(row).version >= session.version
         /\ (session.state # "absent" => session.version > 0) => Stamped(row).version > 0
<1> DEFINE row == [session EXCEPT !.state = "parsing", !.file = f]
<1>1. row \in Session /\ row.state = "parsing"
  BY DEF Session, Owner
<1> HIDE DEF row
<1>2. /\ Stamped(row) \in Session /\ Stamped(row).state = "parsing"
      /\ Stamped(row).version >= session.version
      /\ (session.state # "absent" => session.version > 0) => Stamped(row).version > 0
  BY <1>1, StampedIs
<1> QED BY <1>2 DEF row

LEMMA InvalidateSession ==
  ASSUME TypeInv, NEW w \in Writers, Invalidate(w)
  PROVE  /\ Running(w)
         /\ session' \in Session /\ session'.version >= session.version
         /\ (session.state # "absent" => session.version > 0)
              => (session'.state # "absent" => session'.version > 0)
         /\ SourceCurrent(w) => /\ session'.state = "parsing"
                                /\ (session.state # "absent" => session.version > 0) => session'.version > 0
         /\ session' = session \/ session'.state = "parsing"
<1>1. writer[w].pc = "invalidate" /\ Job(w) \in Files /\ Running(w) /\ session \in Session
  BY WriterIs DEF Invalidate, Job, Running, TypeInv, MainOK
<1>2. session.version \in Nat
  BY <1>1 DEF Session
<1>3. \/ session' = session /\ ~SourceCurrent(w)
      \/ session' = Stamped([session EXCEPT !.state = "parsing", !.file = Job(w)])
      \/ session' = SetState("parsing")
  BY DEF Invalidate
<1>4. CASE session' = session /\ ~SourceCurrent(w)
  BY <1>1, <1>2, <1>4
<1>5. CASE session' = Stamped([session EXCEPT !.state = "parsing", !.file = Job(w)])
  BY <1>1, <1>5, PlaceholderIs
<1>6. CASE session' = SetState("parsing")
  <2>1. /\ SetState("parsing") \in Session
        /\ SetState("parsing").state = "parsing"
        /\ SetState("parsing").version >= session.version
        /\ (session.state # "absent" => session.version > 0) => SetState("parsing").version > 0
    BY <1>1, SetStateIs
  <2> QED BY <1>1, <1>6, <2>1
<1> QED BY <1>3, <1>4, <1>5, <1>6

LEMMA InvalidateTypes ==
  ASSUME TypeInv, NEW w \in Writers, Invalidate(w)
  PROVE  TypeInv'
<1>1. writer[w].pc = "invalidate" /\ Running(w) /\ session' \in Session
  BY InvalidateSession DEF Invalidate
<1>2. UNCHANGED <<files, usage, shardVars, writes, budget>> /\ nextId' = nextId
  BY DEF Invalidate, shardVars
<1>3. writer[w].gen \in Nat /\ writer[w].sent = 0
  BY <1>1, WriterIs DEF InRange
<1>4. CASE SourceCurrent(w)
  <2>1. Capture(w, "claim") /\ gen' = writer[w].gen
    BY <1>4 DEF Invalidate
  <2>2. reused' \in BOOLEAN
    BY <1>1, <2>1, CaptureIs DEF Claiming
  <2>3. WritersOK'
    BY <1>1, <1>2, <1>3, <2>1, CaptureMoves DEF Claiming
  <2>4. MainOK'
    BY <1>1, <1>2, <1>3, <2>1, <2>2 DEF TypeInv, MainOK, budget
  <2> QED BY <1>2, <2>3, <2>4, ShardWaits DEF TypeInv
<1>5. CASE ~SourceCurrent(w)
  <2>1. Stop(w) /\ UNCHANGED <<gen, reused>>
    BY <1>5 DEF Invalidate
  <2>2. WritersOK'
    BY <1>2, <2>1, StopIs
  <2>3. MainOK'
    BY <1>1, <1>2, <2>1 DEF TypeInv, MainOK, budget
  <2> QED BY <1>2, <2>2, <2>3, ShardWaits DEF TypeInv
<1> QED BY <1>4, <1>5

LEMMA ClaimTypes ==
  ASSUME TypeInv, NEW w \in Writers, Claim(w)
  PROVE  TypeInv'
<1>1. writer[w].pc \in {"claim", "clearClaim"} /\ Running(w)
  BY DEF Claim, Running
<1>2. UNCHANGED <<mainVars, blocks, indexed, nextId, writes, budget, reused>>
  BY DEF Claim
<1>3. MainOK'
  BY <1>2, MainWaits
<1>4. CASE fence <= writer[w].version
  <2>1. /\ fence' = writer[w].version
        /\ Goto(w, IF writer[w].pc = "claim" THEN "probe" ELSE "clearBlocks")
    BY <1>4 DEF Claim
  <2>2. CASE writer[w].pc = "claim"
    <3>1. Goto(w, "probe") /\ writer[w].sent = 0
      BY <2>1, <2>2, WriterIs DEF InRange
    <3>2. WritersOK'
      BY <1>1, <1>2, <3>1, GotoMoves DEF Phase, Writing
    <3> QED BY <1>2, <1>3, <2>1, <3>2, WriterIs DEF TypeInv, ShardOK
  <2>3. CASE writer[w].pc # "claim"
    <3>1. Goto(w, "clearBlocks")
      BY <2>1, <2>3
    <3>2. WritersOK'
      BY <1>1, <1>2, <3>1, GotoMoves DEF Phase, Clearing
    <3> QED BY <1>2, <1>3, <2>1, <3>2, WriterIs DEF TypeInv, ShardOK
  <2> QED BY <2>2, <2>3
<1>5. CASE ~(fence <= writer[w].version)
  <2>1. Stop(w) /\ fence' = fence
    BY <1>5 DEF Claim
  <2>2. WritersOK'
    BY <1>2, <2>1, StopIs
  <2> QED BY <1>2, <1>3, <2>1, <2>2 DEF TypeInv, ShardOK
<1> QED BY <1>4, <1>5

(* What the probe found. *)
LEMMA ProbeIs ==
  ASSUME TypeInv, NEW w \in Writers, Probe(w)
  PROVE  /\ Running(w) /\ writer[w].rev \in Revisions /\ writer[w].sent = 0
         /\ \E n \in 0..Len(BlocksOf[writer[w].rev]), lastId \in Nat, turns \in UsageRows :
              /\ Retain(w, n, lastId, turns)
              /\ turns = IF writer[w].file \in Archives THEN NoUsage ELSE usage
              /\ \/ n = 0 /\ lastId = 0
                 \/ IsRun({c \in blocks : c.id <= lastId}, writer[w].file, writer[w].rev, n)
<1>1. /\ writer[w].pc = "probe" /\ Running(w) /\ writer[w].rev \in Revisions /\ writer[w].sent = 0
      /\ Len(BlocksOf[writer[w].rev]) \in Nat
  BY WriterIs DEF Probe, Running, InRange
<1>2. usage \in UsageRows /\ NoUsage \in UsageRows
  BY EmptyUsage DEF TypeInv, MainOK
<1>3. CASE Job(w) \in Archives
  <2>1. Retain(w, 0, 0, NoUsage)
    BY <1>3 DEF Probe
  <2> QED BY <1>1, <1>2, <1>3, <2>1 DEF Job
<1>4. CASE Job(w) \notin Archives
  <2>1. PICK rows \in SUBSET blocks, n \in 0..Len(BlocksOf[Rev(w)]) :
              /\ IsLeadingRun(rows, Job(w), Rev(w), n)
              /\ \/ Boundary(rows, n) = {} /\ Retain(w, 0, 0, usage)
                 \/ \E b \in Boundary(rows, n) : Retain(w, n, b.id, usage)
    BY <1>4 DEF Probe
  <2>2. CASE Retain(w, 0, 0, usage)
    BY <1>1, <1>2, <1>4, <2>2 DEF Job
  <2>3. ASSUME NEW b \in Boundary(rows, n), Retain(w, n, b.id, usage)
        PROVE  \E k \in 0..Len(BlocksOf[writer[w].rev]), lastId \in Nat, turns \in UsageRows :
                 /\ Retain(w, k, lastId, turns)
                 /\ turns = IF writer[w].file \in Archives THEN NoUsage ELSE usage
                 /\ \/ k = 0 /\ lastId = 0
                    \/ IsRun({c \in blocks : c.id <= lastId}, writer[w].file, writer[w].rev, k)
    <3>1. b \in rows /\ \A c \in blocks : c \in rows <=> c.id <= b.id
      BY DEF Boundary
    <3>2. rows = {c \in blocks : c.id <= b.id}
      BY <3>1
    <3>3. IsRun({c \in blocks : c.id <= b.id}, writer[w].file, writer[w].rev, n)
      BY <2>1, <3>2 DEF IsLeadingRun, Job, Rev
    <3>4. b.id \in Nat
      BY <3>1 DEF TypeInv, ShardOK, BlockRow
    <3>5. n \in 0..Len(BlocksOf[writer[w].rev]) /\ writer[w].file \notin Archives
      BY <1>4 DEF Job, Rev
    <3> QED BY <1>2, <2>3, <3>3, <3>4, <3>5
  <2> QED BY <1>1, <2>1, <2>2, <2>3
<1> QED BY <1>3, <1>4

LEMMA ProbeTypes ==
  ASSUME TypeInv, NEW w \in Writers, Probe(w)
  PROVE  TypeInv'
<1>1. UNCHANGED <<mainVars, shardVars, writes, budget, reused>> /\ nextId' = nextId
  BY DEF Probe, shardVars
<1>2. /\ Running(w) /\ writer[w].rev \in Revisions /\ writer[w].sent = 0 /\ writer[w].file \in Files
      /\ Len(BlocksOf[writer[w].rev]) \in Nat
  BY ProbeIs, WriterIs, Distinct DEF Running
<1>3. PICK n \in 0..Len(BlocksOf[writer[w].rev]), lastId \in Nat, turns \in UsageRows :
        Retain(w, n, lastId, turns)
  BY ProbeIs
<1>4. n \in Nat /\ n <= Len(BlocksOf[writer[w].rev])
  BY <1>2, <1>3
<1>5. PICK q \in WriterState :
           /\ writer' = [writer EXCEPT ![w] = q] /\ q.pc = "clearUsage"
           /\ q.file = writer[w].file /\ q.rev = writer[w].rev /\ q.gen = writer[w].gen
           /\ q.version = writer[w].version /\ q.kept = n
           /\ q.lastId = lastId /\ q.usage = turns
           /\ q.first = writer[w].first /\ q.sent = writer[w].sent
  BY <1>2, <1>3, <1>4, RetainIs
<1>6. InRange(q, nextId')
  BY <1>2, <1>4, <1>5 DEF InRange
<1>7. nextId' \in Nat /\ nextId' >= nextId
  BY <1>1 DEF TypeInv, ShardOK
<1>8. WritersOK'
  BY <1>5, <1>6, <1>7, WriterMoves
<1> QED BY <1>1, <1>8, MainWaits, ShardWaits DEF TypeInv

(* A writer whose batch changes at most the usage rows. *)
LEMMA UsageTypes ==
  ASSUME TypeInv, NEW w \in Writers, Running(w), NEW pc \in Phase \ {"insert"}, Goto(w, pc),
         pc \in {"invalidate", "claim", "probe", "clearUsage", "clear", "reserve"}
           => writer[w].sent = 0,
         UNCHANGED <<files, session, gen, shardVars, writes, budget, reused>>,
         usage' \in UsageRows
  PROVE  TypeInv'
<1>1. nextId' = nextId
  BY DEF shardVars
<1>2. WritersOK'
  BY <1>1, GotoMoves
<1>3. MainOK'
  BY DEF TypeInv, MainOK, budget
<1> QED BY <1>2, <1>3, ShardWaits DEF TypeInv

LEMMA ClearUsageTypes ==
  ASSUME TypeInv, NEW w \in Writers, ClearUsage(w)
  PROVE  TypeInv'
<1>1. /\ writer[w].pc = "clearUsage" /\ Running(w) /\ writer[w].sent = 0 /\ Goto(w, "clear")
      /\ UNCHANGED <<files, session, gen, shardVars, writes, budget, reused>>
  BY WriterIs DEF ClearUsage, Running, InRange
<1>2. usage \in UsageRows
  BY DEF TypeInv, MainOK
<1> DEFINE D == DOMAIN usage \ (DOMAIN writer[w].usage \ DOMAIN UsageOf[Rev(w)])
<1>3. usage' = usage \/ usage' = NoUsage \/ usage' = [t \in D |-> usage[t]]
  BY DEF ClearUsage
<1>4. [t \in D |-> usage[t]] \in UsageRows
  <2>1. D \in SUBSET Nat /\ \A t \in D : usage[t] \in Tokens
    BY <1>2, UsageIsFunction
  <2> HIDE DEF D
  <2>2. [t \in D |-> usage[t]] \in [D -> Tokens]
    BY <2>1
  <2> QED BY <2>1, <2>2, UsageIsTyped
<1>5. usage' \in UsageRows
  BY <1>2, <1>3, <1>4, EmptyUsage
<1> QED BY <1>1, <1>5, UsageTypes DEF Phase, Writing

LEMMA InsertUsageTypes ==
  ASSUME TypeInv, NEW w \in Writers, InsertUsage(w)
  PROVE  TypeInv'
<1>1. /\ writer[w].pc = "usage" /\ Running(w) /\ Goto(w, "check")
      /\ UNCHANGED <<files, session, gen, shardVars, writes, budget, reused>>
  BY WriterIs DEF InsertUsage, Running, InRange
<1>2. usage \in UsageRows /\ Rev(w) \in Revisions
  BY <1>1, WriterIs DEF TypeInv, MainOK, Rev, Running
<1> DEFINE D == DOMAIN usage \cup Changed(w)
           new == [t \in D |-> IF t \in Changed(w) THEN UsageOf[Rev(w)][t] ELSE usage[t]]
<1>3. usage' = usage \/ usage' = new
  BY DEF InsertUsage
<1>4. new \in UsageRows
  <2>1. Changed(w) \subseteq Nat /\ \A t \in Changed(w) : UsageOf[Rev(w)][t] \in Tokens
    BY <1>2, ParsedUsage, UsageIsFunction DEF Changed
  <2>2. D \in SUBSET Nat /\ \A t \in D : (IF t \in Changed(w) THEN UsageOf[Rev(w)][t] ELSE usage[t]) \in Tokens
    BY <1>2, <2>1, UsageIsFunction
  <2> HIDE DEF D
  <2>3. new \in [D -> Tokens]
    BY <2>2
  <2> QED BY <2>2, <2>3, UsageIsTyped
<1> HIDE DEF new
<1>5. usage' \in UsageRows
  BY <1>2, <1>3, <1>4
<1> QED BY <1>1, <1>5, UsageTypes DEF Phase, Writing

LEMMA ClearTypes ==
  ASSUME TypeInv, NEW w \in Writers, Clear(w)
  PROVE  TypeInv'
<1>1. /\ writer[w].pc = "clear" /\ Running(w) /\ writer[w].sent = 0
      /\ UNCHANGED <<mainVars, fence, nextId, writes, budget, reused>>
  BY WriterIs DEF Clear, Running, InRange
<1>2. MainOK'
  BY <1>1, MainWaits
<1>3. ShardOK'
  <2>1. blocks' \subseteq blocks /\ indexed' \subseteq indexed
    BY DEF Clear
  <2> QED BY <1>1, <2>1 DEF TypeInv, ShardOK
<1>4. WritersOK'
  <2>1. Stop(w) \/ Goto(w, "usage") \/ Goto(w, "reserve")
    BY DEF Clear
  <2>2. CASE Stop(w)
    BY <1>1, <2>2, StopIs
  <2>3. CASE Goto(w, "usage")
    BY <1>1, <2>3, GotoMoves DEF Phase, Writing
  <2>4. CASE Goto(w, "reserve")
    BY <1>1, <2>4, GotoMoves DEF Phase, Writing
  <2> QED BY <2>1, <2>2, <2>3, <2>4
<1> QED BY <1>2, <1>3, <1>4 DEF TypeInv

LEMMA ReserveIs ==
  ASSUME TypeInv, NEW w \in Writers, ReserveIds(w)
  PROVE  \E q \in WriterState :
           /\ writer' = [writer EXCEPT ![w] = q] /\ q.pc = "insert"
           /\ q.file = writer[w].file /\ q.rev = writer[w].rev /\ q.gen = writer[w].gen
           /\ q.version = writer[w].version /\ q.kept = writer[w].kept
           /\ q.lastId = writer[w].lastId /\ q.usage = writer[w].usage
           /\ q.first = nextId /\ q.sent = writer[w].sent
<1> DEFINE q == [writer[w] EXCEPT !.pc = "insert", !.first = nextId]
<1>1. writer[w] \in WriterState /\ nextId \in Nat
  BY WriterIs DEF TypeInv, ShardOK
<1>2. q \in WriterState
  BY <1>1 DEF WriterState, Phase, Writing
<1>3. /\ q.pc = "insert"
      /\ q.file = writer[w].file /\ q.rev = writer[w].rev /\ q.gen = writer[w].gen
      /\ q.version = writer[w].version /\ q.kept = writer[w].kept
      /\ q.lastId = writer[w].lastId /\ q.usage = writer[w].usage
      /\ q.first = nextId /\ q.sent = writer[w].sent
  BY <1>1 DEF WriterState
<1>4. writer' = [writer EXCEPT ![w] = q]
  BY DEF ReserveIds, FirstId
<1> HIDE DEF q
<1> QED BY <1>2, <1>3, <1>4

LEMMA ReserveTypes ==
  ASSUME TypeInv, NEW w \in Writers, ReserveIds(w)
  PROVE  TypeInv'
<1>1. /\ writer[w].pc = "reserve" /\ Running(w) /\ writer[w].sent = 0
      /\ UNCHANGED <<mainVars, fence, blocks, indexed, writes, budget, reused>>
  BY WriterIs DEF ReserveIds, Running, InRange
<1>2. PICK q \in WriterState :
           /\ writer' = [writer EXCEPT ![w] = q] /\ q.pc = "insert"
           /\ q.file = writer[w].file /\ q.rev = writer[w].rev /\ q.gen = writer[w].gen
           /\ q.version = writer[w].version /\ q.kept = writer[w].kept
           /\ q.lastId = writer[w].lastId /\ q.usage = writer[w].usage
           /\ q.first = nextId /\ q.sent = writer[w].sent
  BY ReserveIs
<1> DEFINE n == Len(BlocksOf[writer[w].rev])
<1>3. /\ nextId' = nextId + n - writer[w].kept /\ n \in Nat /\ writer[w].kept \in Nat
      /\ writer[w].kept <= n /\ nextId \in Nat \ {0}
      /\ writer[w].file \in Files /\ writer[w].rev \in Revisions
  BY <1>1, WriterIs DEF ReserveIds, Remaining, Rev, TypeInv, ShardOK, Running
<1> HIDE DEF n
<1>4. nextId' \in Nat \ {0} /\ nextId' >= nextId
  BY <1>3
<1>5. InRange(q, nextId')
  BY <1>1, <1>2, <1>3, <1>4 DEF InRange, n
<1>6. WritersOK'
  BY <1>2, <1>4, <1>5, WriterMoves
<1>7. BlockRow(nextId) \subseteq BlockRow(nextId') /\ 1..(nextId - 1) \subseteq 1..(nextId' - 1)
  BY <1>3, <1>4 DEF BlockRow
<1>8. ShardOK'
  BY <1>1, <1>4, <1>7 DEF TypeInv, ShardOK
<1> QED BY <1>1, <1>6, <1>8, MainWaits DEF TypeInv

(* The chunk: how far it goes, and the rows it holds. *)
LEMMA ChunkIs ==
  ASSUME TypeInv, NEW w \in Writers, writer[w].pc = "insert"
  PROVE  /\ Remaining(w) \in Nat /\ Upto(w) \in Nat
         /\ writer[w].kept + Remaining(w) = Len(BlocksOf[writer[w].rev])
         /\ writer[w].sent <= Upto(w) /\ Upto(w) <= Remaining(w)
         /\ NextRows(w) \subseteq BlockRow(nextId)
<1> DEFINE n == Len(BlocksOf[writer[w].rev])
<1>1. /\ writer[w].kept \in Nat /\ writer[w].sent \in Nat /\ writer[w].first \in Nat
      /\ writer[w].rev \in Revisions /\ writer[w].file \in Files
      /\ n \in Nat /\ writer[w].kept + writer[w].sent <= n
      /\ writer[w].first >= 1 /\ writer[w].first + n - writer[w].kept <= nextId
      /\ nextId \in Nat /\ Remaining(w) = n - writer[w].kept
  BY WriterIs DEF InRange, TypeInv, ShardOK, Remaining, Rev
<1> HIDE DEF n
<1>2. /\ Remaining(w) \in Nat /\ writer[w].kept + Remaining(w) = n
      /\ writer[w].first + Remaining(w) <= nextId
  BY <1>1
<1>3. ChunkRows \in Nat /\ writer[w].sent <= Remaining(w)
  BY <1>1, <1>2, Distinct
<1>4. Upto(w) \in Nat /\ writer[w].sent <= Upto(w) /\ Upto(w) <= Remaining(w)
  BY <1>1, <1>2, <1>3 DEF Upto
<1>5. ASSUME NEW i \in writer[w].sent..(Upto(w) - 1)
      PROVE  Row(writer[w].first + i, Job(w), writer[w].kept + i + 1, BlocksOf[Rev(w)][writer[w].kept + i + 1])
               \in BlockRow(nextId)
  <2>1. i \in Nat /\ i < Remaining(w)
    BY <1>1, <1>2, <1>4
  <2>2. writer[w].first + i \in 1..(nextId - 1)
    BY <1>1, <1>2, <2>1
  <2>3. writer[w].kept + i + 1 \in 1..n
    BY <1>1, <1>2, <2>1
  <2>4. BlocksOf[Rev(w)][writer[w].kept + i + 1] \in Bodies
    BY <1>1, <2>3, Distinct DEF Rev, n
  <2> QED BY <1>1, <2>2, <2>3, <2>4 DEF Row, BlockRow, Job
<1>6. NextRows(w) \subseteq BlockRow(nextId)
  BY <1>5 DEF NextRows
<1> QED BY <1>2, <1>4, <1>6 DEF n

LEMMA InsertIs ==
  ASSUME TypeInv, NEW w \in Writers, Insert(w), HoldsFence(w)
  PROVE  \E q \in WriterState :
           /\ writer' = [writer EXCEPT ![w] = q]
           /\ q.pc = IF Upto(w) = Remaining(w) THEN "usage" ELSE "insert"
           /\ q.file = writer[w].file /\ q.rev = writer[w].rev /\ q.gen = writer[w].gen
           /\ q.version = writer[w].version /\ q.kept = writer[w].kept
           /\ q.lastId = writer[w].lastId /\ q.usage = writer[w].usage
           /\ q.first = writer[w].first /\ q.sent = Upto(w)
<1> DEFINE pc == IF Upto(w) = Remaining(w) THEN "usage" ELSE "insert"
           q == [writer[w] EXCEPT !.sent = Upto(w), !.pc = pc]
<1>1. writer[w] \in WriterState /\ Upto(w) \in Nat /\ pc \in Phase
  BY WriterIs, ChunkIs DEF Insert, Phase, Writing
<1>2. writer' = [writer EXCEPT ![w] = q]
  BY DEF Insert
<1> HIDE DEF pc
<1>3. q \in WriterState
  BY <1>1 DEF WriterState
<1>4. /\ q.pc = pc
      /\ q.file = writer[w].file /\ q.rev = writer[w].rev /\ q.gen = writer[w].gen
      /\ q.version = writer[w].version /\ q.kept = writer[w].kept
      /\ q.lastId = writer[w].lastId /\ q.usage = writer[w].usage
      /\ q.first = writer[w].first /\ q.sent = Upto(w)
  BY <1>1 DEF WriterState
<1> HIDE DEF q
<1> QED BY <1>2, <1>3, <1>4 DEF pc

LEMMA InsertTypes ==
  ASSUME TypeInv, NEW w \in Writers, Insert(w)
  PROVE  TypeInv'
<1>1. /\ writer[w].pc = "insert" /\ Running(w)
      /\ UNCHANGED <<mainVars, fence, nextId, writes, budget, reused>>
  BY DEF Insert, Running
<1>2. MainOK' /\ nextId' \in Nat /\ nextId' >= nextId
  BY <1>1, MainWaits DEF TypeInv, ShardOK
<1>3. CASE ~HoldsFence(w)
  <2>1. Stop(w) /\ UNCHANGED <<blocks, indexed>>
    BY <1>3 DEF Insert
  <2>2. WritersOK' /\ ShardOK'
    BY <1>1, <2>1, StopIs DEF TypeInv, ShardOK
  <2> QED BY <1>2, <2>2 DEF TypeInv
<1>4. CASE HoldsFence(w)
  <2>1. PICK q \in WriterState :
           /\ writer' = [writer EXCEPT ![w] = q]
           /\ q.pc = IF Upto(w) = Remaining(w) THEN "usage" ELSE "insert"
           /\ q.file = writer[w].file /\ q.rev = writer[w].rev /\ q.gen = writer[w].gen
           /\ q.version = writer[w].version /\ q.kept = writer[w].kept
           /\ q.lastId = writer[w].lastId /\ q.usage = writer[w].usage
           /\ q.first = writer[w].first /\ q.sent = Upto(w)
    BY <1>4, InsertIs
  <2>2. q.kept + q.sent <= Len(BlocksOf[q.rev])
    BY <1>1, <2>1, ChunkIs, WriterIs
  <2>3. InRange(q, nextId')
    BY <1>1, <2>1, <2>2, WriterIs DEF InRange
  <2>4. WritersOK'
    BY <1>2, <2>1, <2>3, WriterMoves
  <2>5. blocks' = blocks \cup NextRows(w) /\ indexed' = indexed \cup Ids(NextRows(w))
    BY <1>4 DEF Insert, IndexedWith
  <2>6. NextRows(w) \subseteq BlockRow(nextId)
    BY <1>1, ChunkIs
  <2>7. Ids(NextRows(w)) \subseteq 1..(nextId - 1)
    BY <2>6 DEF Ids, BlockRow
  <2>8. ShardOK'
    BY <1>1, <2>5, <2>6, <2>7 DEF TypeInv, ShardOK
  <2> QED BY <1>2, <2>4, <2>8 DEF TypeInv
<1> QED BY <1>3, <1>4

(* A writer whose batch changes at most the session's row and generation.   *)
LEMMA SessionTypes ==
  ASSUME TypeInv, NEW w \in Writers, WritersOK',
         UNCHANGED <<files, usage, shardVars, writes, budget, reused>>,
         session' \in Session, gen' \in Nat
  PROVE  TypeInv'
<1>1. MainOK'
  BY DEF TypeInv, MainOK, budget
<1> QED BY <1>1, ShardWaits DEF TypeInv

LEMMA FilesTypes ==
  ASSUME TypeInv, NEW w \in Writers, WritersOK', Running(w),
         UNCHANGED <<session, gen, usage, shardVars, writes, budget, reused>>,
         NEW s \in {"pending", "parsed", "error"},
         files' = [files EXCEPT ![Job(w)].state = s] \/ files' = files
  PROVE  TypeInv'
<1>1. files \in [Files -> File]
  BY DEF TypeInv, MainOK
<1>2. files' \in [Files -> File]
  BY <1>1 DEF File
<1>3. MainOK'
  BY <1>2 DEF TypeInv, MainOK, budget
<1> QED BY <1>3, ShardWaits DEF TypeInv

LEMMA CheckFenceTypes ==
  ASSUME TypeInv, NEW w \in Writers, CheckFence(w)
  PROVE  TypeInv'
<1>1. /\ Running(w) /\ UNCHANGED <<mainVars, shardVars, writes, budget, reused>> /\ nextId' = nextId
  BY DEF CheckFence, Running, shardVars
<1>2. Stop(w) \/ Goto(w, "finalize") \/ Goto(w, "clearCommit")
  BY DEF CheckFence
<1>3. CASE Stop(w)
  BY <1>1, <1>3, StopIs, MainWaits, ShardWaits DEF TypeInv
<1>4. CASE Goto(w, "finalize")
  <2>1. WritersOK'
    BY <1>1, <1>4, GotoMoves DEF Phase, Writing
  <2> QED BY <1>1, <2>1, MainWaits, ShardWaits DEF TypeInv
<1>5. CASE Goto(w, "clearCommit")
  <2>1. WritersOK'
    BY <1>1, <1>5, GotoMoves DEF Phase, Clearing
  <2> QED BY <1>1, <2>1, MainWaits, ShardWaits DEF TypeInv
<1> QED BY <1>2, <1>3, <1>4, <1>5

(* What the last batch publishes. *)
LEMMA FinalizeIs ==
  ASSUME TypeInv, NEW w \in Writers, Finalize(w), Guard(w)
  PROVE  /\ session' \in Session /\ session'.state = "ready"
         /\ session'.file = writer[w].file /\ session'.rev = writer[w].rev
         /\ session'.version >= session.version
         /\ (session.state # "absent" => session.version > 0) => session'.version > 0
         /\ Goto(w, "mark")
<1> DEFINE row == [session EXCEPT !.state = "ready", !.file = Job(w), !.rev = Rev(w)]
<1>1. writer[w].pc = "finalize" /\ writer[w].file \in Files /\ writer[w].rev \in Revisions /\ session \in Session
  BY WriterIs DEF Finalize, TypeInv, MainOK
<1>2. row \in Session /\ row.state = "ready" /\ row.file = writer[w].file /\ row.rev = writer[w].rev
  BY <1>1 DEF Session, Job, Rev, Owner, Hash
<1>3. session' = Stamped(row) /\ Goto(w, "mark")
  BY DEF Finalize
<1> HIDE DEF row
<1> QED BY <1>1, <1>2, <1>3, StampedIs

LEMMA FinalizeTypes ==
  ASSUME TypeInv, NEW w \in Writers, Finalize(w)
  PROVE  TypeInv'
<1>1. /\ Running(w) /\ UNCHANGED <<files, gen, usage, shardVars, writes, budget, reused>> /\ nextId' = nextId
  BY DEF Finalize, Running, shardVars
<1>2. gen' \in Nat /\ session \in Session
  BY <1>1 DEF TypeInv, MainOK
<1>3. CASE Guard(w)
  <2>1. session' \in Session /\ Goto(w, "mark")
    BY <1>3, FinalizeIs
  <2>2. WritersOK'
    BY <1>1, <2>1, GotoMoves DEF Phase, Settling
  <2> QED BY <1>1, <1>2, <2>1, <2>2, SessionTypes
<1>4. CASE ~Guard(w)
  <2>1. Stop(w) /\ session' = session
    BY <1>4 DEF Finalize
  <2>2. WritersOK'
    BY <1>1, <2>1, StopIs
  <2> QED BY <1>1, <1>2, <2>1, <2>2, SessionTypes
<1> QED BY <1>3, <1>4

LEMMA MarkTypes ==
  ASSUME TypeInv, NEW w \in Writers, Mark(w)
  PROVE  TypeInv'
<1>1. /\ Running(w) /\ UNCHANGED <<session, gen, usage, shardVars, writes, budget, reused>> /\ nextId' = nextId
  BY DEF Mark, Running, shardVars
<1>2. \/ files' = [files EXCEPT ![Job(w)].state = "parsed"] /\ Stop(w)
      \/ Goto(w, "revert") /\ files' = files
  BY DEF Mark
<1>3. WritersOK'
  BY <1>1, <1>2, GotoMoves, StopIs DEF Phase, Settling
<1> QED BY <1>1, <1>2, <1>3, FilesTypes

(* A step that at most settles the session's state, and ends. *)
LEMMA SettleTypes ==
  ASSUME TypeInv, NEW w \in Writers, Stop(w), NEW s \in {"absent", "parsing", "ready", "error"},
         UNCHANGED <<files, usage, shardVars, writes, budget, reused>>,
         \/ session' = SetState(s) /\ gen' = 0
         \/ UNCHANGED <<session, gen>>
  PROVE  TypeInv'
<1>1. nextId' = nextId /\ session \in Session /\ gen \in Nat
  BY DEF shardVars, TypeInv, MainOK
<1>2. session' \in Session /\ gen' \in Nat
  BY <1>1, SetStateIs
<1>3. WritersOK'
  BY <1>1, StopIs
<1> QED BY <1>2, <1>3, SessionTypes

LEMMA RevertTypes ==
  ASSUME TypeInv, NEW w \in Writers, Revert(w)
  PROVE  TypeInv'
<1>1. Stop(w) /\ UNCHANGED <<files, usage, shardVars, writes, budget, reused>>
  BY DEF Revert
<1>2. (session' = SetState("parsing") /\ gen' = 0) \/ UNCHANGED <<session, gen>>
  BY DEF Revert
<1> QED BY <1>1, <1>2, SettleTypes

LEMMA FailSessionTypes ==
  ASSUME TypeInv, NEW w \in Writers, FailSession(w)
  PROVE  TypeInv'
<1>1. Stop(w) /\ UNCHANGED <<files, usage, shardVars, writes, budget, reused>>
  BY DEF FailSession
<1>2. (session' = SetState("error") /\ gen' = 0) \/ UNCHANGED <<session, gen>>
  BY DEF FailSession
<1> QED BY <1>1, <1>2, SettleTypes

LEMMA FailFileTypes ==
  ASSUME TypeInv, NEW w \in Writers, FailFile(w)
  PROVE  TypeInv'
<1>1. /\ Running(w) /\ UNCHANGED <<session, gen, usage, shardVars, writes, budget, reused>> /\ nextId' = nextId
  BY DEF FailFile, Running, shardVars
<1>2. /\ files' = [files EXCEPT ![Job(w)].state = "error"] \/ files' = files
      /\ Stop(w) \/ Goto(w, "clearStart") \/ Goto(w, "failSession")
  BY DEF FailFile
<1>3. WritersOK'
  BY <1>1, <1>2, GotoMoves, StopIs DEF Phase, Settling, Clearing
<1> QED BY <1>1, <1>2, <1>3, FilesTypes

LEMMA ClearStartSession ==
  ASSUME TypeInv, NEW w \in Writers, ClearStart(w), SourceCurrent(w),
         session.file = Job(w), session.state # "absent"
  PROVE  /\ session' \in Session /\ session'.state \in {"parsing", "error"}
         /\ session'.file = session.file /\ session'.rev = session.rev
         /\ session'.version >= session.version
         /\ (session.state # "absent" => session.version > 0) => session'.version > 0
         /\ gen' = writer[w].gen /\ Capture(w, "clearClaim")
<1> DEFINE s == IF Job(w) \in Archives THEN "parsing" ELSE "error"
<1>1. session \in Session /\ s \in {"parsing", "error"}
  BY DEF TypeInv, MainOK
<1>2. session' = SetState(s) /\ gen' = writer[w].gen /\ Capture(w, "clearClaim")
  BY DEF ClearStart
<1> HIDE DEF s
<1> QED BY <1>1, <1>2, SetStateIs

LEMMA ClearStartTypes ==
  ASSUME TypeInv, NEW w \in Writers, ClearStart(w)
  PROVE  TypeInv'
<1>1. /\ Running(w) /\ UNCHANGED <<files, usage, shardVars, writes, budget>> /\ nextId' = nextId
      /\ writer[w].gen \in Nat
  BY WriterIs DEF ClearStart, Running, shardVars
<1>2. CASE SourceCurrent(w) /\ session.file = Job(w) /\ session.state # "absent"
  <2>1. session' \in Session /\ gen' = writer[w].gen /\ Capture(w, "clearClaim")
    BY <1>2, ClearStartSession
  <2>2. WritersOK'
    BY <1>1, <2>1, CaptureMoves DEF Claiming
  <2>3. reused' \in BOOLEAN
    BY <1>1, <2>1, CaptureIs DEF Claiming
  <2>4. MainOK'
    BY <1>1, <2>1, <2>3 DEF TypeInv, MainOK, budget
  <2> QED BY <1>1, <2>2, <2>4, ShardWaits DEF TypeInv
<1>3. CASE ~(SourceCurrent(w) /\ session.file = Job(w) /\ session.state # "absent")
  <2>1. Stop(w) /\ UNCHANGED <<session, gen, reused>>
    BY <1>3 DEF ClearStart
  <2>2. WritersOK'
    BY <1>1, <2>1, StopIs
  <2>3. MainOK'
    BY <1>1, <2>1 DEF TypeInv, MainOK, budget
  <2> QED BY <1>1, <2>2, <2>3, ShardWaits DEF TypeInv
<1> QED BY <1>2, <1>3

LEMMA ClearBlocksTypes ==
  ASSUME TypeInv, NEW w \in Writers, ClearBlocks(w)
  PROVE  TypeInv'
<1>1. /\ Running(w) /\ UNCHANGED <<mainVars, fence, nextId, writes, budget, reused>>
      /\ blocks' \subseteq blocks /\ indexed' \subseteq indexed
      /\ Stop(w) \/ Goto(w, "clearCheck")
  BY DEF ClearBlocks, Running
<1>2. WritersOK'
  BY <1>1, GotoMoves, StopIs DEF Phase, Clearing
<1>3. ShardOK'
  BY <1>1 DEF TypeInv, ShardOK
<1> QED BY <1>1, <1>2, <1>3, MainWaits DEF TypeInv

LEMMA ClearCommitIs ==
  ASSUME TypeInv, NEW w \in Writers, ClearCommit(w)
  PROVE  /\ \/ UNCHANGED <<usage, gen, session>>
            \/ /\ Guard(w) /\ usage' = NoUsage /\ gen' = 0
               /\ session' = session \/ session'.state = "absent"
         /\ session' \in Session /\ session'.version >= session.version
<1>1. session \in Session /\ session.version \in Nat
  BY DEF TypeInv, MainOK, Session
<1> DEFINE row == [session EXCEPT !.state = "absent", !.file = NoFile, !.rev = NoRevision]
<1>2. row \in Session /\ row.state = "absent"
  BY <1>1 DEF Session, Owner, Hash
<1>3. \/ UNCHANGED <<usage, gen, session>>
      \/ /\ Guard(w) /\ usage' = NoUsage /\ gen' = 0
         /\ session' = session \/ session' = Stamped(row)
  BY DEF ClearCommit
<1> HIDE DEF row
<1> QED BY <1>1, <1>2, <1>3, StampedIs

LEMMA ClearCommitTypes ==
  ASSUME TypeInv, NEW w \in Writers, ClearCommit(w)
  PROVE  TypeInv'
<1>1. /\ Stop(w) /\ UNCHANGED <<files, shardVars, writes, budget, reused>> /\ nextId' = nextId
  BY DEF ClearCommit, shardVars
<1>2. session' \in Session /\ usage' \in UsageRows /\ gen' \in Nat
  BY ClearCommitIs, EmptyUsage DEF TypeInv, MainOK
<1>3. WritersOK'
  BY <1>1, StopIs
<1>4. MainOK'
  BY <1>1, <1>2 DEF TypeInv, MainOK, budget
<1> QED BY <1>1, <1>3, <1>4, ShardWaits DEF TypeInv

LEMMA MissingIs ==
  ASSUME TypeInv, NEW w \in Writers, Missing(w)
  PROVE  \E q \in WriterState :
           /\ writer' = [writer EXCEPT ![w] = q] /\ q.pc = "fail"
           /\ q.file = writer[w].file /\ q.rev = writer[w].rev /\ q.gen = 0
           /\ q.version = writer[w].version /\ q.kept = writer[w].kept
           /\ q.lastId = writer[w].lastId /\ q.usage = writer[w].usage
           /\ q.first = writer[w].first /\ q.sent = writer[w].sent
<1> DEFINE q == [writer[w] EXCEPT !.pc = "fail", !.gen = 0]
<1>1. writer[w] \in WriterState
  BY WriterIs
<1>2. q \in WriterState
  BY <1>1 DEF WriterState, Phase, Settling
<1>3. /\ q.pc = "fail"
      /\ q.file = writer[w].file /\ q.rev = writer[w].rev /\ q.gen = 0
      /\ q.version = writer[w].version /\ q.kept = writer[w].kept
      /\ q.lastId = writer[w].lastId /\ q.usage = writer[w].usage
      /\ q.first = writer[w].first /\ q.sent = writer[w].sent
  BY <1>1 DEF WriterState
<1>4. writer' = [writer EXCEPT ![w] = q]
  BY DEF Missing
<1> HIDE DEF q
<1> QED BY <1>2, <1>3, <1>4

LEMMA MissingTypes ==
  ASSUME TypeInv, NEW w \in Writers, Missing(w)
  PROVE  TypeInv'
<1>1. /\ writer[w].pc = "invalidate" /\ UNCHANGED <<mainVars, shardVars, writes, budget, reused>>
      /\ nextId' = nextId
  BY DEF Missing, shardVars
<1>2. PICK q \in WriterState :
           /\ writer' = [writer EXCEPT ![w] = q] /\ q.pc = "fail"
           /\ q.file = writer[w].file /\ q.rev = writer[w].rev /\ q.gen = 0
           /\ q.version = writer[w].version /\ q.kept = writer[w].kept
           /\ q.lastId = writer[w].lastId /\ q.usage = writer[w].usage
           /\ q.first = writer[w].first /\ q.sent = writer[w].sent
  BY MissingIs
<1>3. InRange(q, nextId') /\ nextId' \in Nat /\ nextId' >= nextId
  BY <1>1, <1>2, WriterIs DEF InRange, TypeInv, ShardOK
<1>4. WritersOK'
  BY <1>2, <1>3, WriterMoves
<1> QED BY <1>1, <1>4, MainWaits, ShardWaits DEF TypeInv

LEMMA ThrowTypes ==
  ASSUME TypeInv, NEW w \in Writers, Throw(w)
  PROVE  TypeInv'
<1>1. /\ Running(w) /\ UNCHANGED <<mainVars, shardVars, writes, budget, reused>> /\ nextId' = nextId
      /\ Stop(w) \/ Goto(w, "revert") \/ Goto(w, "fail")
  BY DEF Throw, shardVars
<1>2. WritersOK'
  BY <1>1, GotoMoves, StopIs DEF Phase, Settling
<1> QED BY <1>1, <1>2, MainWaits, ShardWaits DEF TypeInv

LEMMA StepTypes ==
  ASSUME TypeInv, [Next]_vars
  PROVE  TypeInv'
<1>1. CASE UNCHANGED vars
  <2>1. UNCHANGED <<mainVars, writes, budget, reused, shardVars, writer, nextId>>
    BY <1>1 DEF vars, shardVars
  <2> QED BY <2>1, MainWaits, ShardWaits, WritersWait DEF TypeInv
<1>2. ASSUME NEW f \in Files, Upload(f) \/ Flip(f) PROVE TypeInv'
  BY <1>2, UploadTypes, FlipTypes
<1>3. CASE Touch
  BY <1>3, TouchTypes
<1>4. ASSUME NEW w \in Writers, Step(w) PROVE TypeInv'
  BY <1>4, InvalidateTypes, ClaimTypes, ProbeTypes, ClearUsageTypes, ClearTypes, ReserveTypes,
     InsertTypes, InsertUsageTypes, CheckFenceTypes, FinalizeTypes, MarkTypes, RevertTypes,
     FailFileTypes, FailSessionTypes, ClearStartTypes, ClearBlocksTypes, ClearCommitTypes,
     MissingTypes, ThrowTypes, Zenon DEF Step
<1>5. ASSUME NEW w \in Writers, NEW f \in Files, Start(w, f) PROVE TypeInv'
  BY <1>5, StartTypes
<1> QED BY <1>1, <1>2, <1>3, <1>4, <1>5 DEF Next

-----------------------------------------------------------------------------
(* Runs of rows. *)

(* A run of n rows has n of them. *)
LEMMA RunSize ==
  ASSUME NEW rows, NEW f, NEW r, NEW n \in Nat, IsRun(rows, f, r, n)
  PROVE  Cardinality(rows) = n
<1> DEFINE at == [i \in 1..n |-> CHOOSE b \in rows : b.pos = i]
<1>1. ASSUME NEW i \in 1..n PROVE at[i] \in rows /\ at[i].pos = i
  <2>1. \E b \in rows : b.pos = i
    BY DEF IsRun, Same
  <2>2. (CHOOSE b \in rows : b.pos = i) \in rows /\ (CHOOSE b \in rows : b.pos = i).pos = i
    BY <2>1
  <2> QED BY <2>2
<1>2. at \in [1..n -> rows]
  BY <1>1
<1>3. ASSUME NEW i \in 1..n, NEW j \in 1..n, at[i] = at[j] PROVE i = j
  BY <1>1, <1>3
<1>4. ASSUME NEW b \in rows PROVE b.pos \in 1..n /\ at[b.pos] = b
  BY <1>1 DEF IsRun
<1> HIDE DEF at
<1>5. at \in Bijection(1..n, rows)
  BY <1>2, <1>3, <1>4 DEF Bijection, Injection, Surjection, IsInjective
<1> QED BY <1>5, FS_CountingElements DEF ExistsBijection

(* The rows parsed from r, under ids in any order. *)
LEMMA ParsedRun ==
  ASSUME NEW f \in Files, NEW r \in Revisions, NEW idAt \in Permuted(DOMAIN BlocksOf[r])
  PROVE  /\ IsRun(RowsOf(f, r, idAt), f, r, Len(BlocksOf[r]))
         /\ RowsOf(f, r, idAt) \subseteq BlockRow(1 + Len(BlocksOf[r]))
<1> DEFINE n == Len(BlocksOf[r])
           row(i) == Row(idAt[i], f, i, BlocksOf[r][i])
<1>1. n \in Nat /\ DOMAIN BlocksOf[r] = 1..n /\ \A i \in 1..n : BlocksOf[r][i] \in Bodies
  BY Distinct
<1>2. idAt \in [1..n -> 1..n]
  BY <1>1 DEF Permuted
<1>3. RowsOf(f, r, idAt) = {row(i) : i \in 1..n}
  BY <1>1 DEF RowsOf
<1>4. ASSUME NEW i \in 1..n PROVE Same(row(i), f, r, i) /\ row(i).pos = i
  BY DEF Row, Same
<1>5. IsRun({row(i) : i \in 1..n}, f, r, n)
  <2>1. \A i \in 1..n : \E b \in {row(j) : j \in 1..n} : Same(b, f, r, i)
    BY <1>4
  <2>2. \A b \in {row(i) : i \in 1..n} : b.pos \in 1..n /\ Same(b, f, r, b.pos)
    BY <1>4
  <2>3. \A b, c \in {row(i) : i \in 1..n} : b.pos = c.pos => b = c
    BY <1>4
  <2> HIDE DEF row
  <2> QED BY <2>1, <2>2, <2>3 DEF IsRun
<1>6. ASSUME NEW i \in 1..n PROVE row(i) \in BlockRow(1 + n)
  <2>1. idAt[i] \in 1..((1 + n) - 1) /\ i \in Nat /\ BlocksOf[r][i] \in Bodies
    BY <1>1, <1>2
  <2> QED BY <2>1 DEF Row, BlockRow
<1> QED BY <1>3, <1>5, <1>6

LEMMA InitTypes == Init => TypeInv
<1> SUFFICES ASSUME Init PROVE TypeInv
  OBVIOUS
<1>1. /\ gen = 0 /\ fence = 0 /\ writes = 0 /\ uploads = 0 /\ touches = 0 /\ reused = FALSE
      /\ writer = [w \in Writers |-> Idle]
      /\ indexed = Ids(blocks) /\ nextId = 1 + Cardinality(blocks)
  BY DEF Init
<1>2. WritersOK
  BY <1>1, IdleIsTyped DEF WritersOK, InRange
<1>3. PICK f \in Files, r \in Revisions :
       \/ /\ files = [g \in Files |-> [rev |-> IF g = f THEN r ELSE NoRevision, state |-> "pending"]]
          /\ session = [state |-> "absent", file |-> NoFile, rev |-> NoRevision, version |-> 0]
          /\ usage = NoUsage /\ blocks = {}
       \/ /\ files = [g \in Files |-> IF g = f THEN [rev |-> r, state |-> "parsed"]
                                               ELSE [rev |-> NoRevision, state |-> "pending"]]
          /\ session = [state |-> "ready", file |-> f, rev |-> r, version |-> 1]
          /\ usage = UsageOf[r]
          /\ \E idAt \in Permuted(DOMAIN BlocksOf[r]) : blocks = RowsOf(f, r, idAt)
  BY DEF Init
<1>4. \A s \in {"pending", "parsed"}, h \in Hash : [rev |-> h, state |-> s] \in File
  BY DEF File
<1>5. r \in Hash /\ NoRevision \in Hash /\ f \in Owner /\ NoFile \in Owner
  BY DEF Hash, Owner
<1>6. CASE /\ files = [g \in Files |-> [rev |-> IF g = f THEN r ELSE NoRevision, state |-> "pending"]]
           /\ session = [state |-> "absent", file |-> NoFile, rev |-> NoRevision, version |-> 0]
           /\ usage = NoUsage /\ blocks = {}
  <2>1. files \in [Files -> File]
    BY <1>4, <1>5, <1>6
  <2>2. session \in Session
    BY <1>5, <1>6 DEF Session
  <2>3. MainOK
    BY <1>1, <1>6, <2>1, <2>2, EmptyUsage DEF MainOK
  <2>4. nextId = 1 /\ indexed = {}
    BY <1>1, <1>6, FS_EmptySet DEF Ids
  <2>5. ShardOK
    BY <1>1, <1>6, <2>4 DEF ShardOK
  <2> QED BY <1>2, <2>3, <2>5 DEF TypeInv
<1>7. ASSUME files = [g \in Files |-> IF g = f THEN [rev |-> r, state |-> "parsed"]
                                               ELSE [rev |-> NoRevision, state |-> "pending"]],
             session = [state |-> "ready", file |-> f, rev |-> r, version |-> 1],
             usage = UsageOf[r],
             NEW idAt \in Permuted(DOMAIN BlocksOf[r]), blocks = RowsOf(f, r, idAt)
      PROVE  TypeInv
  <2>1. files \in [Files -> File]
    BY <1>4, <1>5, <1>7
  <2>2. session \in Session
    BY <1>5, <1>7 DEF Session
  <2>3. MainOK
    BY <1>1, <1>7, <2>1, <2>2, ParsedUsage DEF MainOK
  <2>4. Len(BlocksOf[r]) \in Nat
    BY Distinct
  <2>5. nextId = 1 + Len(BlocksOf[r]) /\ blocks \subseteq BlockRow(nextId)
    BY <1>1, <1>7, <2>4, ParsedRun, RunSize
  <2>6. indexed \subseteq 1..(nextId - 1)
    BY <1>1, <2>5 DEF Ids, BlockRow
  <2>7. ShardOK
    BY <1>1, <2>4, <2>5, <2>6 DEF ShardOK
  <2> QED BY <1>2, <2>3, <2>7 DEF TypeInv
<1> QED BY <1>3, <1>6, <1>7

(* The variables of the write of a session keep their types.  The part that  *)
(* is not shallow: no chunk of block rows takes an id that was not reserved  *)
(* for it, whatever the number of chunks and of prefixes kept.               *)
THEOREM TypeCorrect == Spec => []TypeOK
<1>1. Init => TypeInv
  BY InitTypes
<1>2. TypeInv /\ [Next]_vars => TypeInv'
  BY StepTypes
<1>3. TypeInv => TypeOK
  BY TypeInvIsTypeOK
<1> QED BY <1>1, <1>2, <1>3, PTL DEF Spec

-----------------------------------------------------------------------------
(* The full-text index. *)

LEMMA StepIndexes ==
  ASSUME CommittedIsIndexed, [Next]_vars
  PROVE  CommittedIsIndexed'
<1>1. CASE UNCHANGED <<blocks, indexed>>
  BY <1>1 DEF CommittedIsIndexed, Ids
<1>2. ASSUME NEW w \in Writers, Clear(w) PROVE CommittedIsIndexed'
  <2>1. CASE HoldsFence(w)
    <3>1. /\ blocks' = {b \in blocks : b.id <= writer[w].lastId}
          /\ indexed' = Ids(blocks) \ Ids(blocks \ blocks')
      BY <1>2, <2>1 DEF Clear, CommittedIsIndexed
    <3>2. ASSUME NEW i PROVE i \in indexed' <=> i \in Ids(blocks')
      <4>1. i \in Ids(blocks') <=> \E b \in blocks : b.id = i /\ b.id <= writer[w].lastId
        BY <3>1 DEF Ids
      <4>2. i \in Ids(blocks \ blocks') <=> \E b \in blocks : b.id = i /\ ~(b.id <= writer[w].lastId)
        BY <3>1 DEF Ids
      <4>3. i \in Ids(blocks) <=> \E b \in blocks : b.id = i
        BY DEF Ids
      <4> QED BY <3>1, <4>1, <4>2, <4>3
    <3>3. indexed' = Ids(blocks')
      BY <3>2
    <3> QED BY <3>3 DEF CommittedIsIndexed, Ids
  <2>2. CASE ~HoldsFence(w)
    BY <1>1, <1>2, <2>2 DEF Clear
  <2> QED BY <2>1, <2>2
<1>3. ASSUME NEW w \in Writers, Insert(w) PROVE CommittedIsIndexed'
  <2>1. CASE HoldsFence(w)
    BY <1>3, <2>1 DEF Insert, CommittedIsIndexed, IndexedWith, Ids
  <2>2. CASE ~HoldsFence(w)
    BY <1>1, <1>3, <2>2 DEF Insert
  <2> QED BY <2>1, <2>2
<1>4. ASSUME NEW w \in Writers, ClearBlocks(w) PROVE CommittedIsIndexed'
  <2>1. CASE HoldsFence(w)
    BY <1>4, <2>1 DEF ClearBlocks, CommittedIsIndexed, Ids
  <2>2. CASE ~HoldsFence(w)
    BY <1>1, <1>4, <2>2 DEF ClearBlocks
  <2> QED BY <2>1, <2>2
<1>5. ASSUME NEW w \in Writers, Step(w)
      PROVE  Clear(w) \/ Insert(w) \/ ClearBlocks(w) \/ UNCHANGED <<blocks, indexed>>
  BY <1>5 DEF Step, Invalidate, Claim, Probe, ClearUsage, ReserveIds, InsertUsage, CheckFence,
     Finalize, Mark, Revert, FailFile, FailSession, ClearStart, ClearCommit, Missing, Throw,
     shardVars
<1>6. ASSUME NEW f \in Files, Upload(f) \/ Flip(f) \/ (\E w \in Writers : Start(w, f))
      PROVE  UNCHANGED <<blocks, indexed>>
  BY <1>6 DEF Upload, Flip, Start, shardVars
<1>7. Touch \/ UNCHANGED vars => UNCHANGED <<blocks, indexed>>
  BY DEF Touch, vars, shardVars
<1> QED BY <1>1, <1>2, <1>3, <1>4, <1>5, <1>6, <1>7 DEF Next

(* Every block row on the shard has its search row and every search row its  *)
(* block, whatever the writers, their order and where each of them stopped. *)
THEOREM SearchRowsMatch == Spec => []CommittedIsIndexed
<1>1. Init => CommittedIsIndexed
  BY DEF Init, CommittedIsIndexed
<1>2. CommittedIsIndexed /\ [Next]_vars => CommittedIsIndexed'
  BY StepIndexes
<1> QED BY <1>1, <1>2, PTL DEF Spec

-----------------------------------------------------------------------------
(* Generations, versions and the fence. *)

(* A writer's step never gives it another generation than the one it was    *)
(* started with.                                                            *)
LEMMA GenerationMoves ==
  ASSUME TypeInv, GenerationsDiffer, NEW w \in Writers, NEW q \in WriterState,
         writer' = [writer EXCEPT ![w] = q], writes' = writes,
         q.pc # "idle" => Running(w) /\ q.gen \in {writer[w].gen, 0},
         Numbered(q, writes), gen' \in {gen, 0} \/ (Running(w) /\ gen' = writer[w].gen)
  PROVE  GenerationsDiffer'
<1>1. writer \in [Writers -> WriterState] /\ gen \in Nat /\ writes \in Nat
  BY DEF TypeInv, WritersOK, MainOK
<1>2. writer'[w] = q /\ \A v \in Writers \ {w} : writer'[v] = writer[v]
  BY <1>1
<1>3. gen' <= writes'
  <2>1. Numbered(writer[w], writes) /\ gen <= writes
    BY DEF GenerationsDiffer
  <2>2. Running(w) => writer[w].gen <= writes
    BY <2>1 DEF Numbered, Running
  <2>3. 0 <= writes
    BY <1>1
  <2> QED BY <2>1, <2>2, <2>3
<1>4. \A v \in Writers : Numbered(writer'[v], writes')
  BY <1>2 DEF GenerationsDiffer
<1>5. ASSUME NEW u \in Writers, NEW v \in Writers, u # v,
             writer'[u].pc # "idle", writer'[v].pc # "idle", writer'[u].gen = writer'[v].gen
      PROVE  writer'[u].gen = 0
  <2>1. CASE u = w
    <3>1. q.gen = writer[v].gen /\ Running(w) /\ Running(v) /\ q.gen \in {writer[w].gen, 0}
      BY <1>2, <1>5, <2>1 DEF Running
    <3> QED BY <1>2, <1>5, <2>1, <3>1 DEF GenerationsDiffer
  <2>2. CASE v = w
    <3>1. q.gen = writer[u].gen /\ Running(w) /\ Running(u) /\ q.gen \in {writer[w].gen, 0}
      BY <1>2, <1>5, <2>2 DEF Running
    <3> QED BY <1>2, <1>5, <2>2, <3>1 DEF GenerationsDiffer
  <2>3. CASE u # w /\ v # w
    BY <1>2, <1>5, <2>3 DEF GenerationsDiffer, Running
  <2> QED BY <2>1, <2>2, <2>3
<1> QED BY <1>3, <1>4, <1>5 DEF GenerationsDiffer, Running

LEMMA VersionMoves ==
  ASSUME TypeInv, VersionsGrow, NEW w \in Writers, NEW q \in WriterState,
         writer' = [writer EXCEPT ![w] = q],
         session' \in Session, session'.version >= session.version,
         session'.state # "absent" => session'.version > 0,
         fence' \in Nat, fence' >= fence, fence' <= session'.version,
         Versioned(q, gen', fence', session'),
         \A v \in Writers \ {w} : Owns(writer[v], gen') => Owns(writer[v], gen)
  PROVE  VersionsGrow'
<1>1. writer \in [Writers -> WriterState] /\ session.version \in Nat /\ fence \in Nat /\ session'.version \in Nat
  BY DEF TypeInv, WritersOK, MainOK, ShardOK, Session
<1>2. writer'[w] = q /\ \A v \in Writers \ {w} : writer'[v] = writer[v]
  BY <1>1
<1>3. ASSUME NEW v \in Writers \ {w} PROVE Versioned(writer[v], gen', fence', session')
  <2>1. Versioned(writer[v], gen, fence, session) /\ writer[v].version \in Nat
    BY WriterIs DEF VersionsGrow
  <2>2. writer[v].version <= session'.version
    BY <1>1, <2>1 DEF Versioned
  <2>3. writer[v].pc \in Claimed => writer[v].version <= fence'
    BY <1>1, <2>1 DEF Versioned
  <2> QED BY <2>1, <2>2, <2>3 DEF Versioned
<1>4. \A v \in Writers : Versioned(writer'[v], gen', fence', session')
  BY <1>2, <1>3
<1> QED BY <1>4 DEF VersionsGrow

LEMMA ApartMoves ==
  ASSUME TypeInv, VersionsDiffer, NEW w \in Writers, NEW q \in WriterState,
         writer' = [writer EXCEPT ![w] = q],
         \A v \in Writers \ {w} : q.pc # "idle" /\ Running(v) => Apart(q, writer[v])
  PROVE  VersionsDiffer'
<1>1. writer'[w] = q /\ \A v \in Writers \ {w} : writer'[v] = writer[v]
  BY DEF TypeInv, WritersOK
<1>2. ASSUME NEW u \in Writers, NEW v \in Writers, u # v,
             writer'[u].pc # "idle", writer'[v].pc # "idle"
      PROVE  Apart(writer'[u], writer'[v])
  <2>1. CASE u = w
    BY <1>1, <1>2, <2>1 DEF Running
  <2>2. CASE v = w
    <3>1. Apart(q, writer[u])
      BY <1>1, <1>2, <2>2 DEF Running
    <3> QED BY <1>1, <1>2, <2>2, <3>1 DEF Apart
  <2>3. CASE u # w /\ v # w
    BY <1>1, <1>2, <2>3 DEF VersionsDiffer, Running
  <2> QED BY <2>1, <2>2, <2>3
<1> QED BY <1>2 DEF VersionsDiffer, Running

(* A step that captures nothing: the owner, if there is one still, is the   *)
(* newest as before, also when the fence has gone to a running writer.      *)
LEMMA NewestStays ==
  ASSUME TypeInv, OwnerIsNewest, NEW w \in Writers, NEW q \in WriterState,
         writer' = [writer EXCEPT ![w] = q], gen' \in {gen, 0},
         q.pc # "idle" => /\ Running(w) /\ q.version = writer[w].version
                          /\ q.gen \in {writer[w].gen, 0},
         fence' = fence \/ (Running(w) /\ fence' = writer[w].version)
  PROVE  OwnerIsNewest'
<1>1. writer'[w] = q /\ \A v \in Writers \ {w} : writer'[v] = writer[v]
  BY DEF TypeInv, WritersOK
<1>2. ASSUME NEW v \in Writers, Owns(writer'[v], gen')
      PROVE  /\ fence' <= writer'[v].version
             /\ \A u \in Writers \ {v} : writer'[u].pc # "idle" => writer'[u].version < writer'[v].version
  <2>1. Owns(writer[v], gen) /\ writer'[v].version = writer[v].version
    BY <1>1, <1>2 DEF Owns, Running
  <2>2. /\ fence <= writer[v].version
        /\ \A u \in Writers \ {v} : Running(u) => writer[u].version < writer[v].version
    BY <2>1 DEF OwnerIsNewest
  <2>3. fence' <= writer[v].version
    <3>1. writer[v].version \in Nat /\ writer[w].version \in Nat
      BY WriterIs
    <3>2. CASE w = v /\ fence' = writer[w].version
      BY <3>1, <3>2
    <3>3. CASE w # v /\ Running(w) /\ fence' = writer[w].version
      BY <2>2, <3>1, <3>3
    <3> QED BY <2>2, <3>2, <3>3
  <2>4. ASSUME NEW u \in Writers \ {v}, writer'[u].pc # "idle"
        PROVE  writer'[u].version < writer[v].version
    BY <1>1, <2>2, <2>4 DEF Running
  <2> QED BY <2>1, <2>3, <2>4
<1> QED BY <1>2 DEF OwnerIsNewest, Running

(* What the step of a writer that captures nothing may make of its state.   *)
Follows(q, p) ==
  /\ q.pc = "idle" => q.version = 0
  /\ q.pc # "idle" => p.pc # "idle" /\ q.version = p.version /\ q.gen \in {p.gen, 0}
  /\ q.pc \in Claiming => p.pc \in Claiming
  /\ q.pc \in Claimed => p.pc \in Claimed
  /\ q.pc \in Shredding => p.pc \in Shredding

(* The session's row, in a step that publishes nothing. *)
Recedes ==
  /\ session' \in Session /\ session'.version >= session.version
  /\ session'.state # "absent" => session'.version > 0
  /\ session'.state = "ready" => /\ session.state = "ready" /\ session'.file = session.file
                                 /\ session'.rev = session.rev

LEMMA FollowsVersions ==
  ASSUME TypeInv, GenerationsDiffer, VersionsGrow, NEW w \in Writers, NEW q \in WriterState,
         writer' = [writer EXCEPT ![w] = q], Follows(q, writer[w]), Numbered(q, writes),
         gen' \in {gen, 0}, writes' = writes, fence' = fence,
         session' \in Session, session'.version >= session.version,
         session'.state # "absent" => session'.version > 0
  PROVE  /\ GenerationsDiffer' /\ VersionsGrow'
         /\ VersionsDiffer => VersionsDiffer'
         /\ OwnerIsNewest => OwnerIsNewest'
<1>1. GenerationsDiffer'
  BY GenerationMoves DEF Follows, Running
<1>2. OwnerIsNewest => OwnerIsNewest'
  <2>1. q.pc # "idle" => Running(w) /\ q.version = writer[w].version /\ q.gen \in {writer[w].gen, 0}
    BY DEF Follows, Running
  <2> QED BY <2>1, NewestStays
<1>3. VersionsDiffer => VersionsDiffer'
  <2>1. SUFFICES ASSUME VersionsDiffer PROVE VersionsDiffer'
    OBVIOUS
  <2>2. ASSUME NEW v \in Writers \ {w}, q.pc # "idle", Running(v) PROVE Apart(q, writer[v])
    <3>1. Apart(writer[w], writer[v]) /\ q.version = writer[w].version
      BY <2>1, <2>2 DEF VersionsDiffer, Follows, Running
    <3> QED BY <3>1 DEF Apart
  <2> QED BY <2>1, <2>2, ApartMoves
<1>4. Versioned(q, gen', fence', session')
  <2>1. /\ Versioned(writer[w], gen, fence, session) /\ writer[w].version \in Nat /\ q.version \in Nat
        /\ session.version \in Nat /\ session'.version \in Nat
    BY WriterIs DEF VersionsGrow, TypeInv, MainOK, Session, WriterState
  <2>2. CASE q.pc = "idle"
    BY <2>1, <2>2 DEF Versioned, Owns, Claiming, Claimed, Filling, Follows, Numbered
  <2>3. CASE q.pc # "idle"
    <3>1. q.version = writer[w].version /\ (Owns(q, gen') => Owns(writer[w], gen))
      BY <2>3 DEF Follows, Owns
    <3>2. q.version <= session'.version
      BY <2>1, <3>1 DEF Versioned
    <3> QED BY <2>1, <2>3, <3>1, <3>2 DEF Versioned, Follows
  <2> QED BY <2>2, <2>3
<1>5. fence' \in Nat /\ fence' >= fence /\ fence' <= session'.version
  BY DEF TypeInv, ShardOK, MainOK, Session, VersionsGrow
<1>6. \A v \in Writers \ {w} : Owns(writer[v], gen') => Owns(writer[v], gen)
  BY DEF Owns
<1>7. VersionsGrow'
  BY <1>4, <1>5, <1>6, VersionMoves
<1> QED BY <1>1, <1>2, <1>3, <1>7

(* The shard's rows as they are: what a writer expects of them stays true.  *)
LEMMA FollowsShard ==
  ASSUME TypeInv, ShardInv, NEW w \in Writers, NEW q \in WriterState,
         writer' = [writer EXCEPT ![w] = q], Follows(q, writer[w]),
         fence' = fence, blocks' = blocks, Recedes,
         q.version = fence => Filled(q, blocks)
  PROVE  HolderFills' /\ ReadyIsFilled'
<1>1. writer'[w] = q /\ \A v \in Writers \ {w} : writer'[v] = writer[v]
  BY DEF TypeInv, WritersOK
<1>2. HolderFills'
  <2>1. \A v \in Writers : writer'[v].version = fence => Filled(writer'[v], blocks)
    BY <1>1 DEF ShardInv, HolderFills
  <2> QED BY <2>1 DEF HolderFills
<1>3. ASSUME session'.state = "ready" PROVE ReadyIsFilled'
  <2>1. session.state = "ready" /\ session'.file = session.file /\ session'.rev = session.rev
    BY <1>3 DEF Recedes
  <2>2. /\ session'.file \in Files /\ session'.rev \in Revisions
        /\ IsRun(blocks, session'.file, session'.rev, Len(BlocksOf[session'.rev]))
        /\ \A v \in Writers : writer[v].pc \in Shredding => writer[v].version < fence
    BY <2>1 DEF ShardInv, ReadyIsFilled
  <2>3. ASSUME NEW v \in Writers, writer'[v].pc \in Shredding PROVE writer'[v].version < fence
    <3>1. writer[v].pc \in Shredding /\ writer'[v].version = writer[v].version
      BY <1>1, <2>3 DEF Follows, Shredding, Claiming
    <3> QED BY <2>2, <3>1
  <2> QED BY <2>2, <2>3 DEF ReadyIsFilled
<1> QED BY <1>2, <1>3 DEF ReadyIsFilled

(* Most steps: the writer goes on or ends and the shard stays as it is.     *)
LEMMA QuietStep ==
  ASSUME TypeInv, FenceInv, NEW w \in Writers, NEW q \in WriterState,
         writer' = [writer EXCEPT ![w] = q], Follows(q, writer[w]), Numbered(q, writes),
         gen' \in {gen, 0}, writes' = writes, reused' = reused,
         fence' = fence, blocks' = blocks, Recedes,
         ~reused /\ q.version = fence => Filled(q, blocks)
  PROVE  FenceInv'
<1>1. /\ session' \in Session /\ session'.version >= session.version
      /\ session'.state # "absent" => session'.version > 0
  BY DEF Recedes
<1>2. /\ GenerationsDiffer' /\ VersionsGrow'
      /\ VersionsDiffer => VersionsDiffer'
      /\ OwnerIsNewest => OwnerIsNewest'
  BY <1>1, FollowsVersions DEF FenceInv
<1>3. ~reused => ShardInv'
  <2>1. SUFFICES ASSUME ~reused PROVE ShardInv'
    OBVIOUS
  <2>2. ShardInv
    BY <2>1 DEF FenceInv
  <2>3. HolderFills' /\ ReadyIsFilled'
    BY <2>1, <2>2, FollowsShard
  <2> QED BY <1>2, <2>2, <2>3 DEF ShardInv
<1> QED BY <1>2, <1>3 DEF FenceInv

LEMMA StopFence ==
  ASSUME TypeInv, FenceInv, NEW w \in Writers, Stop(w),
         gen' \in {gen, 0}, writes' = writes, reused' = reused,
         fence' = fence, blocks' = blocks, Recedes
  PROVE  FenceInv'
<1>1. writer' = [writer EXCEPT ![w] = Idle] /\ Idle \in WriterState
  BY IdleIsTyped DEF Stop
<1>2. Follows(Idle, writer[w]) /\ Numbered(Idle, writes) /\ Filled(Idle, blocks)
  BY DEF Idle, Follows, Numbered, Filled, Claiming, Claimed, Filling, Shredding
<1> QED BY <1>1, <1>2, QuietStep

LEMMA GotoFence ==
  ASSUME TypeInv, FenceInv, NEW w \in Writers, Running(w), NEW pc \in Phase, Goto(w, pc),
         gen' \in {gen, 0}, writes' = writes, reused' = reused,
         fence' = fence, blocks' = blocks, Recedes,
         pc # "idle" /\ pc # "invalidate",
         pc \in Claiming => writer[w].pc \in Claiming,
         pc \in Claimed => writer[w].pc \in Claimed,
         pc \in Shredding => writer[w].pc \in Shredding,
         writer[w].gen = 0 => pc \in {"fail", "failSession"},
         \/ pc \notin Filling
         \/ {pc, writer[w].pc} \subseteq {"clearUsage", "clear"}
         \/ {pc, writer[w].pc} \subseteq {"usage", "check", "finalize"}
  PROVE  FenceInv'
<1>1. PICK q \in WriterState :
           /\ writer' = [writer EXCEPT ![w] = q] /\ q.pc = pc
           /\ q.file = writer[w].file /\ q.rev = writer[w].rev /\ q.gen = writer[w].gen
           /\ q.version = writer[w].version /\ q.kept = writer[w].kept
           /\ q.lastId = writer[w].lastId /\ q.usage = writer[w].usage
           /\ q.first = writer[w].first /\ q.sent = writer[w].sent
  BY GotoIs
<1>2. Follows(q, writer[w])
  BY <1>1 DEF Follows, Running
<1>3. Numbered(q, writes)
  <2>1. Numbered(writer[w], writes)
    BY DEF FenceInv, GenerationsDiffer
  <2> QED BY <1>1, <2>1 DEF Numbered, Running
<1>4. ASSUME ~reused, q.version = fence PROVE Filled(q, blocks)
  <2>1. CASE pc \notin Filling
    BY <1>1, <2>1 DEF Filled, Filling
  <2>2. Filled(writer[w], blocks)
    BY <1>1, <1>4 DEF FenceInv, ShardInv, HolderFills
  <2>3. CASE {pc, writer[w].pc} \subseteq {"clearUsage", "clear"}
    BY <1>1, <2>2, <2>3 DEF Filled
  <2>4. CASE {pc, writer[w].pc} \subseteq {"usage", "check", "finalize"}
    BY <1>1, <2>2, <2>4 DEF Filled
  <2> QED BY <2>1, <2>3, <2>4
<1> QED BY <1>1, <1>2, <1>3, <1>4, QuietStep

(* The session's row in the steps that settle it. *)
LEMMA SessionRecedes ==
  ASSUME TypeInv, VersionsGrow
  PROVE  /\ session' = session => Recedes
         /\ \A s \in {"absent", "parsing", "error"} : session' = SetState(s) => Recedes
<1>1. session \in Session /\ session.version \in Nat /\ (session.state # "absent" => session.version > 0)
  BY DEF TypeInv, MainOK, Session, VersionsGrow
<1>2. session' = session => Recedes
  BY <1>1 DEF Recedes
<1>3. ASSUME NEW s \in {"absent", "parsing", "error"}, session' = SetState(s) PROVE Recedes
  <2>1. s \in {"absent", "parsing", "ready", "error"} /\ s # "ready"
    OBVIOUS
  <2>2. /\ SetState(s) \in Session
        /\ SetState(s).state = s
        /\ SetState(s).version >= session.version
        /\ s # "absent" /\ (session.state # "absent" => session.version > 0) => SetState(s).version > 0
    BY <1>1, <2>1, SetStateIs
  <2> QED BY <1>1, <1>3, <2>1, <2>2 DEF Recedes
<1> QED BY <1>2, <1>3

(* A step of no writer. *)
LEMMA OutsideStep ==
  ASSUME TypeInv, FenceInv, writer' = writer, gen' \in {gen, 0}, writes' = writes,
         reused' = reused, fence' = fence, blocks' = blocks, Recedes
  PROVE  FenceInv'
<1>1. /\ session' \in Session /\ session'.version >= session.version
      /\ session'.state # "absent" => session'.version > 0
      /\ session.version \in Nat /\ fence \in Nat /\ session'.version \in Nat
      /\ gen \in Nat /\ writes \in Nat
  BY DEF Recedes, TypeInv, MainOK, ShardOK, Session
<1>2. GenerationsDiffer'
  BY <1>1 DEF FenceInv, GenerationsDiffer, Running
<1>3. VersionsGrow'
  <2>1. ASSUME NEW v \in Writers PROVE Versioned(writer[v], gen', fence, session')
    <3>1. Versioned(writer[v], gen, fence, session) /\ writer[v].version \in Nat
      BY WriterIs DEF FenceInv, VersionsGrow
    <3>2. writer[v].version <= session'.version
      BY <1>1, <3>1 DEF Versioned
    <3>3. Owns(writer[v], gen') => Owns(writer[v], gen)
      BY DEF Owns
    <3> QED BY <3>1, <3>2, <3>3 DEF Versioned
  <2>2. fence <= session'.version
    BY <1>1 DEF FenceInv, VersionsGrow
  <2> QED BY <1>1, <2>1, <2>2 DEF VersionsGrow
<1>4. ASSUME ShardInv PROVE ShardInv'
  <2>1. VersionsDiffer' /\ HolderFills'
    BY <1>4 DEF ShardInv, VersionsDiffer, HolderFills, Running
  <2>2. OwnerIsNewest'
    <3>1. ASSUME NEW v \in Writers PROVE Owns(writer[v], gen') => Owns(writer[v], gen)
      BY DEF Owns
    <3> QED BY <1>4, <3>1 DEF ShardInv, OwnerIsNewest, Running
  <2>3. ReadyIsFilled'
    BY <1>4 DEF ShardInv, ReadyIsFilled, Recedes
  <2> QED BY <2>1, <2>2, <2>3 DEF ShardInv
<1> QED BY <1>2, <1>3, <1>4 DEF FenceInv

LEMMA OutsideFence ==
  ASSUME TypeInv, FenceInv, Touch \/ \E f \in Files : Upload(f) \/ Flip(f)
  PROVE  FenceInv'
<1>1. VersionsGrow
  BY DEF FenceInv
<1>2. ASSUME NEW f \in Files, Upload(f) PROVE FenceInv'
  <2>1. UNCHANGED <<session, gen, fence, blocks, writer, writes, reused>>
    BY <1>2 DEF Upload, shardVars
  <2> QED BY <1>1, <2>1, SessionRecedes, OutsideStep
<1>3. ASSUME NEW f \in Files, Flip(f) PROVE FenceInv'
  <2>1. /\ session' = SetState("parsing") /\ gen' = 0
        /\ UNCHANGED <<fence, blocks, writer, writes, reused>>
    BY <1>3 DEF Flip, shardVars
  <2> QED BY <1>1, <2>1, SessionRecedes, OutsideStep
<1>4. CASE Touch
  <2>1. /\ session' = [session EXCEPT !.version = @ + 1] /\ session \in Session
        /\ UNCHANGED <<gen, fence, blocks, writer, writes, reused>>
    BY <1>4 DEF Touch, shardVars, TypeInv, MainOK
  <2>2. Recedes
    BY <2>1 DEF Recedes, Session
  <2> QED BY <2>1, <2>2, OutsideStep
<1> QED BY <1>2, <1>3, <1>4

LEMMA StartFence ==
  ASSUME TypeInv, FenceInv, NEW w \in Writers, NEW f \in Files, Start(w, f)
  PROVE  FenceInv'
<1>1. PICK q \in WriterState :
           /\ writer' = [writer EXCEPT ![w] = q]
           /\ q.pc = IF BlocksOf[files[f].rev] # <<>> THEN "invalidate"
                     ELSE IF f \in Archives THEN "clearStart" ELSE "fail"
           /\ q.file = f /\ q.rev = files[f].rev /\ q.rev \in Revisions /\ q.gen = writes + 1
           /\ q.version = 0 /\ q.kept = 0 /\ q.sent = 0
  BY StartIs
<1>2. /\ ~Running(w) /\ writes' = writes + 1
      /\ UNCHANGED <<session, gen, fence, blocks, reused>>
  BY DEF Start, mainVars, shardVars
<1>3. writer'[w] = q /\ \A v \in Writers \ {w} : writer'[v] = writer[v]
  BY <1>1 DEF TypeInv, WritersOK
<1>4. /\ gen \in Nat /\ writes \in Nat /\ gen <= writes /\ session \in Session
      /\ session.version \in Nat /\ fence \in Nat /\ fence <= session.version
  BY DEF FenceInv, GenerationsDiffer, VersionsGrow, TypeInv, MainOK, ShardOK, Session
<1>5. /\ q.pc \notin Claiming \cup Claimed \cup Shredding \cup {"idle"}
      /\ q.pc = "invalidate" => BlocksOf[q.rev] # <<>>
  BY <1>1 DEF Claiming, Claimed, Filling, Shredding
<1>6. GenerationsDiffer'
  <2>1. \A v \in Writers \ {w} : Running(v) => writer[v].gen <= writes /\ writer[v].gen \in Nat
    BY WriterIs DEF FenceInv, GenerationsDiffer, Numbered, Running
  <2>2. gen' <= writes'
    BY <1>2, <1>4
  <2>3. ASSUME NEW v \in Writers PROVE Numbered(writer'[v], writes')
    <3>1. CASE v = w
      BY <1>1, <1>2, <1>3, <1>4, <1>5, <3>1 DEF Numbered
    <3>2. CASE v # w
      <4>1. Numbered(writer[v], writes) /\ writer[v].gen \in Nat
        BY WriterIs DEF FenceInv, GenerationsDiffer
      <4> QED BY <1>2, <1>3, <1>4, <3>2, <4>1 DEF Numbered
    <3> QED BY <3>1, <3>2
  <2>4. ASSUME NEW u \in Writers, NEW v \in Writers, u # v, writer'[u].pc # "idle",
               writer'[v].pc # "idle", writer'[u].gen = writer'[v].gen
        PROVE  writer'[u].gen = 0
    <3>1. CASE u = w
      BY <1>1, <1>3, <1>4, <2>1, <2>4, <3>1 DEF Running
    <3>2. CASE v = w
      BY <1>1, <1>3, <1>4, <2>1, <2>4, <3>2 DEF Running
    <3>3. CASE u # w /\ v # w
      BY <1>3, <2>4, <3>3 DEF FenceInv, GenerationsDiffer, Running
    <3> QED BY <3>1, <3>2, <3>3
  <2> QED BY <2>2, <2>3, <2>4 DEF GenerationsDiffer, Running
<1>7. VersionsGrow'
  <2>1. ~Owns(q, gen)
    BY <1>1, <1>4 DEF Owns
  <2>2. Versioned(q, gen', fence', session')
    BY <1>1, <1>2, <1>4, <1>5, <2>1 DEF Versioned
  <2>3. /\ fence' \in Nat /\ fence' >= fence /\ fence' <= session'.version
        /\ session' \in Session /\ session'.version >= session.version
        /\ session'.state # "absent" => session'.version > 0
    BY <1>2, <1>4 DEF FenceInv, VersionsGrow
  <2>4. \A v \in Writers \ {w} : Owns(writer[v], gen') => Owns(writer[v], gen)
    BY <1>2
  <2> QED BY <1>1, <2>2, <2>3, <2>4, VersionMoves DEF FenceInv
<1>8. ASSUME ShardInv PROVE ShardInv'
  <2>1. VersionsDiffer'
    <3>1. ASSUME NEW v \in Writers \ {w}, q.pc # "idle", Running(v) PROVE Apart(q, writer[v])
      <4>1. writer[v].version \in Nat
        BY WriterIs
      <4> QED BY <1>1, <4>1 DEF Apart
    <3> QED BY <1>1, <1>8, <3>1, ApartMoves DEF ShardInv
  <2>2. OwnerIsNewest'
    <3>1. ASSUME NEW v \in Writers, Owns(writer'[v], gen)
          PROVE  /\ fence <= writer'[v].version
                 /\ \A u \in Writers \ {v} : writer'[u].pc # "idle" => writer'[u].version < writer'[v].version
      <4>1. v # w /\ Owns(writer[v], gen)
        BY <1>1, <1>3, <1>4, <3>1 DEF Owns
      <4>2. writer[v].version > 0 /\ writer[v].version \in Nat
        BY <4>1, WriterIs DEF FenceInv, VersionsGrow, Versioned
      <4>3. /\ fence <= writer[v].version
            /\ \A u \in Writers \ {v} : Running(u) => writer[u].version < writer[v].version
        BY <1>8, <4>1 DEF ShardInv, OwnerIsNewest
      <4>4. ASSUME NEW u \in Writers \ {v}, writer'[u].pc # "idle" PROVE writer'[u].version < writer[v].version
        BY <1>1, <1>3, <4>2, <4>3, <4>4 DEF Running
      <4> QED BY <1>3, <4>1, <4>3, <4>4
    <3> QED BY <1>2, <3>1 DEF OwnerIsNewest, Running
  <2>3. HolderFills'
    <3>1. Filled(q, blocks)
      BY <1>1 DEF Filled
    <3>2. \A v \in Writers : writer'[v].version = fence => Filled(writer'[v], blocks)
      BY <1>3, <1>8, <3>1 DEF ShardInv, HolderFills
    <3> QED BY <1>2, <3>2 DEF HolderFills
  <2>4. ReadyIsFilled'
    <3>1. \A v \in Writers : writer'[v].pc \in Shredding => writer'[v] = writer[v]
      BY <1>3, <1>5
    <3> QED BY <1>2, <1>8, <3>1 DEF ShardInv, ReadyIsFilled
  <2> QED BY <2>1, <2>2, <2>3, <2>4 DEF ShardInv
<1> QED BY <1>2, <1>6, <1>7, <1>8 DEF FenceInv

(* The step that captures a version: none that runs has a higher one.       *)
LEMMA CaptureFence ==
  ASSUME TypeInv, FenceInv, NEW w \in Writers, Running(w), NEW pc \in Claiming, Capture(w, pc),
         writer[w].gen # 0, gen' = writer[w].gen, writes' = writes,
         session' \in Session, session'.version >= session.version, session'.version > 0,
         session'.state # "ready", fence' = fence, blocks' = blocks
  PROVE  FenceInv'
<1>1. PICK q \in WriterState :
           /\ writer' = [writer EXCEPT ![w] = q] /\ q.pc = pc
           /\ q.file = writer[w].file /\ q.rev = writer[w].rev /\ q.gen = writer[w].gen
           /\ q.version = session'.version /\ q.kept = writer[w].kept
           /\ q.lastId = writer[w].lastId /\ q.usage = writer[w].usage
           /\ q.first = writer[w].first /\ q.sent = writer[w].sent
  BY CaptureIs
<1>2. ~reused' => ~reused /\ \A v \in Writers \ {w} : Running(v) => writer[v].version # session'.version
  BY CaptureIs
<1>3. writer'[w] = q /\ \A v \in Writers \ {w} : writer'[v] = writer[v]
  BY <1>1 DEF TypeInv, WritersOK
<1>4. /\ session.version \in Nat /\ session'.version \in Nat /\ fence \in Nat /\ fence <= session.version
      /\ GenerationsDiffer /\ VersionsGrow
  BY DEF FenceInv, VersionsGrow, TypeInv, MainOK, ShardOK, Session
<1>5. \A v \in Writers : writer[v].version \in Nat /\ writer[v].version <= session.version
  BY <1>4, WriterIs DEF VersionsGrow, Versioned
<1>6. q.pc \notin {"idle", "fail", "failSession", "invalidate"} \cup Claimed
  BY <1>1 DEF Claiming, Claimed, Filling
<1>7. GenerationsDiffer'
  <2>1. Numbered(q, writes)
    <3>1. Numbered(writer[w], writes)
      BY <1>4 DEF GenerationsDiffer
    <3> QED BY <1>1, <1>6, <3>1 DEF Numbered, Running
  <2> QED BY <1>1, <1>4, <2>1, GenerationMoves
<1>8. ASSUME NEW v \in Writers \ {w} PROVE ~Owns(writer[v], gen')
  BY <1>4 DEF GenerationsDiffer, Owns, Running
<1>9. VersionsGrow'
  <2>1. Versioned(q, gen', fence', session')
    BY <1>1, <1>4, <1>6 DEF Versioned
  <2>2. fence' \in Nat /\ fence' >= fence /\ fence' <= session'.version
    BY <1>4
  <2>3. \A v \in Writers \ {w} : Owns(writer[v], gen') => Owns(writer[v], gen)
    BY <1>8
  <2> QED BY <1>1, <1>4, <2>1, <2>2, <2>3, VersionMoves
<1>10. ASSUME ~reused' PROVE ShardInv'
  <2>1. ShardInv /\ \A v \in Writers \ {w} : Running(v) => writer[v].version < session'.version
    <3>1. ShardInv
      BY <1>2, <1>10 DEF FenceInv
    <3>2. ASSUME NEW v \in Writers \ {w}, Running(v) PROVE writer[v].version < session'.version
      BY <1>2, <1>4, <1>5, <1>10, <3>2
    <3> QED BY <3>1, <3>2
  <2>2. VersionsDiffer'
    <3>1. ASSUME NEW v \in Writers \ {w}, q.pc # "idle", Running(v) PROVE Apart(q, writer[v])
      BY <1>1, <1>4, <1>5, <2>1, <3>1 DEF Apart
    <3> QED BY <1>1, <2>1, <3>1, ApartMoves DEF ShardInv
  <2>3. OwnerIsNewest'
    <3>1. ASSUME NEW v \in Writers, Owns(writer'[v], gen')
          PROVE  /\ fence' <= writer'[v].version
                 /\ \A u \in Writers \ {v} : writer'[u].pc # "idle" => writer'[u].version < writer'[v].version
      <4>1. v = w
        BY <1>3, <1>8, <3>1
      <4>2. fence' <= session'.version
        BY <1>4
      <4> QED BY <1>1, <1>3, <2>1, <4>1, <4>2 DEF Running
    <3> QED BY <3>1 DEF OwnerIsNewest, Running
  <2>4. HolderFills'
    <3>1. Filled(q, blocks)
      BY <1>1 DEF Filled, Claiming
    <3>2. \A v \in Writers : writer'[v].version = fence => Filled(writer'[v], blocks)
      BY <1>3, <2>1, <3>1 DEF ShardInv, HolderFills
    <3> QED BY <3>2 DEF HolderFills
  <2>5. ReadyIsFilled'
    BY DEF ReadyIsFilled
  <2> QED BY <2>2, <2>3, <2>4, <2>5 DEF ShardInv
<1> QED BY <1>7, <1>9, <1>10 DEF FenceInv

LEMMA InvalidateFence ==
  ASSUME TypeInv, FenceInv, NEW w \in Writers, Invalidate(w)
  PROVE  FenceInv'
<1>1. /\ writer[w].pc = "invalidate" /\ Running(w)
      /\ fence' = fence /\ blocks' = blocks /\ writes' = writes
      /\ VersionsGrow /\ (session.state # "absent" => session.version > 0)
  BY DEF Invalidate, Running, shardVars, FenceInv, VersionsGrow
<1>2. /\ session' \in Session /\ session'.version >= session.version
      /\ session'.state # "absent" => session'.version > 0
      /\ SourceCurrent(w) => session'.state = "parsing" /\ session'.version > 0
      /\ session' = session \/ session'.state = "parsing"
  BY <1>1, InvalidateSession
<1>3. writer[w].gen # 0
  BY <1>1 DEF FenceInv, GenerationsDiffer, Numbered
<1>4. CASE SourceCurrent(w)
  <2>1. Capture(w, "claim") /\ gen' = writer[w].gen
    BY <1>4 DEF Invalidate
  <2>2. session'.state # "ready"
    BY <1>2, <1>4
  <2> QED BY <1>1, <1>2, <1>3, <1>4, <2>1, <2>2, CaptureFence DEF Claiming
<1>5. CASE ~SourceCurrent(w)
  <2>1. Stop(w) /\ UNCHANGED <<gen, reused>>
    BY <1>5 DEF Invalidate
  <2>2. Recedes
    BY <1>2 DEF Recedes
  <2> QED BY <1>1, <2>1, <2>2, StopFence
<1> QED BY <1>4, <1>5

LEMMA ClearStartFence ==
  ASSUME TypeInv, FenceInv, NEW w \in Writers, ClearStart(w)
  PROVE  FenceInv'
<1>1. /\ writer[w].pc = "clearStart" /\ Running(w)
      /\ fence' = fence /\ blocks' = blocks /\ writes' = writes
      /\ VersionsGrow /\ (session.state # "absent" => session.version > 0)
  BY DEF ClearStart, Running, shardVars, FenceInv, VersionsGrow
<1>2. writer[w].gen # 0
  BY <1>1 DEF FenceInv, GenerationsDiffer, Numbered
<1>3. CASE SourceCurrent(w) /\ session.file = Job(w) /\ session.state # "absent"
  <2>1. /\ session' \in Session /\ session'.state # "ready"
        /\ session'.version >= session.version /\ session'.version > 0
        /\ gen' = writer[w].gen /\ Capture(w, "clearClaim")
    BY <1>1, <1>3, ClearStartSession
  <2> QED BY <1>1, <1>2, <2>1, CaptureFence DEF Claiming
<1>4. CASE ~(SourceCurrent(w) /\ session.file = Job(w) /\ session.state # "absent")
  <2>1. Stop(w) /\ UNCHANGED <<session, gen, reused>>
    BY <1>4 DEF ClearStart
  <2> QED BY <1>1, <2>1, SessionRecedes, StopFence
<1> QED BY <1>3, <1>4

(* A claim takes the fence from a writer of a lower version. *)
LEMMA ClaimFence ==
  ASSUME TypeInv, FenceInv, NEW w \in Writers, Claim(w)
  PROVE  FenceInv'
<1>1. /\ writer[w].pc \in Claiming /\ Running(w) /\ VersionsGrow /\ GenerationsDiffer
      /\ UNCHANGED <<session, gen, blocks, writes, reused>>
  BY DEF Claim, Claiming, Running, mainVars, FenceInv
<1>2. CASE ~(fence <= writer[w].version)
  <2>1. Stop(w) /\ fence' = fence
    BY <1>2 DEF Claim
  <2> QED BY <1>1, <2>1, SessionRecedes, StopFence
<1>3. CASE fence <= writer[w].version
  <2> DEFINE pc == IF writer[w].pc = "claim" THEN "probe" ELSE "clearBlocks"
  <2>1. fence' = writer[w].version /\ Goto(w, pc)
    BY <1>3 DEF Claim
  <2>2. pc \in {"probe", "clearBlocks"} /\ pc \in Phase
    BY DEF Phase, Writing, Clearing
  <2> HIDE DEF pc
  <2>3. PICK q \in WriterState :
           /\ writer' = [writer EXCEPT ![w] = q] /\ q.pc = pc
           /\ q.file = writer[w].file /\ q.rev = writer[w].rev /\ q.gen = writer[w].gen
           /\ q.version = writer[w].version /\ q.kept = writer[w].kept
           /\ q.lastId = writer[w].lastId /\ q.usage = writer[w].usage
           /\ q.first = writer[w].first /\ q.sent = writer[w].sent
    BY <1>1, <2>1, <2>2, GotoIs
  <2>4. writer'[w] = q /\ \A v \in Writers \ {w} : writer'[v] = writer[v]
    BY <2>3 DEF TypeInv, WritersOK
  <2>5. /\ Numbered(writer[w], writes) /\ Versioned(writer[w], gen, fence, session)
        /\ fence \in Nat /\ writer[w].version \in Nat /\ writer[w].version > 0
        /\ session \in Session /\ session.version \in Nat
        /\ session.state # "absent" => session.version > 0
    BY <1>1, WriterIs DEF GenerationsDiffer, VersionsGrow, Versioned, TypeInv, ShardOK, MainOK, Session
  <2>6. GenerationsDiffer'
    <3>1. Numbered(q, writes)
      BY <1>1, <2>2, <2>3, <2>5 DEF Numbered, Running, Claiming
    <3> QED BY <1>1, <2>3, <3>1, GenerationMoves
  <2>7. VersionsGrow'
    <3>1. Owns(q, gen) => Owns(writer[w], gen)
      BY <1>1, <2>3 DEF Owns, Running
    <3>2. Versioned(q, gen', fence', session')
      BY <1>1, <2>1, <2>3, <2>5, <3>1 DEF Versioned
    <3>3. /\ fence' \in Nat /\ fence' >= fence /\ fence' <= session'.version
          /\ session'.version >= session.version
      BY <1>1, <1>3, <2>1, <2>5 DEF Versioned
    <3> QED BY <1>1, <2>3, <2>5, <3>2, <3>3, VersionMoves
  <2>8. ASSUME ~reused PROVE ShardInv'
    <3>1. ShardInv
      BY <2>8 DEF FenceInv
    <3>2. \A v \in Writers \ {w} : Running(v) => writer[v].version # writer[w].version
      BY <1>1, <2>5, <3>1 DEF ShardInv, VersionsDiffer, Apart
    <3>3. VersionsDiffer'
      <4>1. ASSUME NEW v \in Writers \ {w}, q.pc # "idle", Running(v) PROVE Apart(q, writer[v])
        BY <2>3, <3>2, <4>1 DEF Apart
      <4> QED BY <2>3, <3>1, <4>1, ApartMoves DEF ShardInv
    <3>4. OwnerIsNewest'
      BY <1>1, <2>1, <2>3, <3>1, NewestStays DEF ShardInv
    <3>5. HolderFills'
      <4>1. Filled(q, blocks)
        BY <2>2, <2>3 DEF Filled
      <4>2. ASSUME NEW v \in Writers \ {w}, writer[v].version = writer[w].version PROVE Filled(writer[v], blocks)
        <5>1. writer[v].pc = "idle"
          BY <3>2, <4>2 DEF Running
        <5> QED BY <5>1 DEF Filled
      <4>3. \A v \in Writers : writer'[v].version = fence' => Filled(writer'[v], blocks)
        BY <2>1, <2>4, <4>1, <4>2
      <4> QED BY <1>1, <4>3 DEF HolderFills
    <3>6. ReadyIsFilled'
      <4>1. session.state # "ready"
        <5>1. session.state = "ready" => writer[w].version < fence
          BY <1>1, <3>1 DEF ShardInv, ReadyIsFilled, Shredding
        <5> QED BY <1>3, <2>5, <5>1
      <4> QED BY <1>1, <4>1 DEF ReadyIsFilled
    <3> QED BY <3>3, <3>4, <3>5, <3>6 DEF ShardInv
  <2> QED BY <1>1, <2>6, <2>7, <2>8 DEF FenceInv
<1> QED BY <1>2, <1>3

(* The batches on the shard: only the holder of the fence gets one through,  *)
(* and no session is ready then.                                             *)
LEMMA ShardWriteFence ==
  ASSUME TypeInv, FenceInv, NEW w \in Writers, NEW q \in WriterState,
         writer' = [writer EXCEPT ![w] = q], Follows(q, writer[w]), Numbered(q, writes),
         HoldsFence(w), writer[w].pc \in {"clear", "insert", "clearBlocks"},
         UNCHANGED <<session, gen, fence, writes, reused>>,
         ~reused => Filled(q, blocks')
  PROVE  FenceInv'
<1>1. /\ writer[w].pc \in Claimed /\ writer[w].pc \in Shredding /\ Running(w)
      /\ GenerationsDiffer /\ VersionsGrow
  BY DEF Claimed, Filling, Shredding, Running, FenceInv
<1>2. /\ fence = writer[w].version /\ writer[w].version > 0 /\ fence \in Nat
      /\ session \in Session /\ session.version \in Nat
      /\ session.state # "absent" => session.version > 0
  BY <1>1 DEF HoldsFence, VersionsGrow, Versioned, TypeInv, ShardOK, MainOK, Session
<1>3. /\ GenerationsDiffer' /\ VersionsGrow'
      /\ VersionsDiffer => VersionsDiffer'
      /\ OwnerIsNewest => OwnerIsNewest'
  <2>1. /\ gen' \in {gen, 0} /\ writes' = writes /\ fence' = fence
        /\ session' \in Session /\ session'.version >= session.version
        /\ session'.state # "absent" => session'.version > 0
    BY <1>2
  <2> QED BY <1>1, <2>1, FollowsVersions
<1>4. ASSUME ~reused PROVE ShardInv'
  <2>1. ShardInv
    BY <1>4 DEF FenceInv
  <2>2. writer'[w] = q /\ \A v \in Writers \ {w} : writer'[v] = writer[v]
    BY DEF TypeInv, WritersOK
  <2>3. ASSUME NEW v \in Writers \ {w}, writer[v].version = fence PROVE Filled(writer[v], blocks')
    <3>1. writer[v].pc = "idle"
      BY <1>1, <1>2, <2>1, <2>3 DEF ShardInv, VersionsDiffer, Apart, Running
    <3> QED BY <3>1 DEF Filled
  <2>4. HolderFills'
    <3>1. \A v \in Writers : writer'[v].version = fence => Filled(writer'[v], blocks')
      BY <1>4, <2>2, <2>3
    <3> QED BY <3>1 DEF HolderFills
  <2>5. session.state # "ready"
    BY <1>1, <1>2, <2>1 DEF ShardInv, ReadyIsFilled
  <2>6. ReadyIsFilled'
    BY <2>5 DEF ReadyIsFilled
  <2> QED BY <1>3, <2>1, <2>4, <2>6 DEF ShardInv
<1> QED BY <1>3, <1>4 DEF FenceInv

LEMMA ClearFence ==
  ASSUME TypeInv, FenceInv, NEW w \in Writers, Clear(w)
  PROVE  FenceInv'
<1>1. /\ writer[w].pc = "clear" /\ Running(w) /\ VersionsGrow
      /\ UNCHANGED <<session, gen, fence, writes, reused>>
      /\ writer[w].sent = 0 /\ writer[w].kept \in Nat
  BY WriterIs DEF Clear, Running, mainVars, FenceInv, InRange
<1>2. CASE ~HoldsFence(w)
  <2>1. Stop(w) /\ blocks' = blocks
    BY <1>2 DEF Clear
  <2> QED BY <1>1, <2>1, SessionRecedes, StopFence
<1>3. CASE HoldsFence(w)
  <2> DEFINE pc == IF writer[w].kept = Len(BlocksOf[Rev(w)]) THEN "usage" ELSE "reserve"
  <2>1. blocks' = {b \in blocks : b.id <= writer[w].lastId} /\ Goto(w, pc)
    BY <1>3 DEF Clear
  <2>2. pc \in {"usage", "reserve"} /\ pc \in Phase
    BY DEF Phase, Writing
  <2>3. PICK q \in WriterState :
           /\ writer' = [writer EXCEPT ![w] = q] /\ q.pc = pc
           /\ q.file = writer[w].file /\ q.rev = writer[w].rev /\ q.gen = writer[w].gen
           /\ q.version = writer[w].version /\ q.kept = writer[w].kept
           /\ q.lastId = writer[w].lastId /\ q.usage = writer[w].usage
           /\ q.first = writer[w].first /\ q.sent = writer[w].sent
    BY <1>1, <2>1, <2>2, GotoIs
  <2>4. Follows(q, writer[w])
    BY <1>1, <2>2, <2>3 DEF Follows, Claiming, Claimed, Filling, Shredding
  <2>5. Numbered(q, writes)
    <3>1. Numbered(writer[w], writes)
      BY DEF FenceInv, GenerationsDiffer
    <3> QED BY <1>1, <2>2, <2>3, <3>1 DEF Numbered
  <2>6. ASSUME ~reused PROVE Filled(q, blocks')
    <3>1. IsRun({b \in blocks : b.id <= writer[w].lastId}, writer[w].file, writer[w].rev, writer[w].kept)
      BY <1>1, <1>3, <2>6 DEF FenceInv, ShardInv, HolderFills, HoldsFence, Filled
    <3>2. IsRun(blocks', q.file, q.rev, q.kept) /\ q.kept + q.sent = q.kept
      BY <1>1, <2>1, <2>3, <3>1
    <3>3. q.pc = "usage" => q.kept = Len(BlocksOf[q.rev])
      BY <2>3 DEF Rev
    <3> QED BY <2>2, <2>3, <3>2, <3>3 DEF Filled
  <2> QED BY <1>1, <1>3, <2>3, <2>4, <2>5, <2>6, ShardWriteFence
<1> QED BY <1>2, <1>3

LEMMA ClearBlocksFence ==
  ASSUME TypeInv, FenceInv, NEW w \in Writers, ClearBlocks(w)
  PROVE  FenceInv'
<1>1. /\ writer[w].pc = "clearBlocks" /\ Running(w) /\ VersionsGrow
      /\ UNCHANGED <<session, gen, fence, writes, reused>>
  BY DEF ClearBlocks, Running, mainVars, FenceInv
<1>2. CASE ~HoldsFence(w)
  <2>1. Stop(w) /\ blocks' = blocks
    BY <1>2 DEF ClearBlocks
  <2> QED BY <1>1, <2>1, SessionRecedes, StopFence
<1>3. CASE HoldsFence(w)
  <2>1. Goto(w, "clearCheck") /\ "clearCheck" \in Phase
    BY <1>3 DEF ClearBlocks, Phase, Clearing
  <2>2. PICK q \in WriterState :
           /\ writer' = [writer EXCEPT ![w] = q] /\ q.pc = "clearCheck"
           /\ q.file = writer[w].file /\ q.rev = writer[w].rev /\ q.gen = writer[w].gen
           /\ q.version = writer[w].version /\ q.kept = writer[w].kept
           /\ q.lastId = writer[w].lastId /\ q.usage = writer[w].usage
           /\ q.first = writer[w].first /\ q.sent = writer[w].sent
    BY <1>1, <2>1, GotoIs
  <2>3. Follows(q, writer[w]) /\ Filled(q, blocks')
    BY <1>1, <2>2 DEF Follows, Claiming, Claimed, Filling, Shredding, Filled
  <2>4. Numbered(q, writes)
    <3>1. Numbered(writer[w], writes)
      BY DEF FenceInv, GenerationsDiffer
    <3> QED BY <1>1, <2>2, <3>1 DEF Numbered
  <2> QED BY <1>1, <1>3, <2>2, <2>3, <2>4, ShardWriteFence
<1> QED BY <1>2, <1>3

LEMMA RunExtends ==
  ASSUME NEW rows, NEW new, NEW f, NEW r, NEW n \in Nat, NEW m \in Nat, n <= m,
         IsRun(rows, f, r, n),
         \A i \in (n + 1)..m : \E b \in new : Same(b, f, r, i),
         \A b \in new : b.pos \in (n + 1)..m /\ Same(b, f, r, b.pos),
         \A b, c \in new : b.pos = c.pos => b = c
  PROVE  IsRun(rows \cup new, f, r, m)
<1>1. ASSUME NEW i \in 1..m PROVE \E b \in rows \cup new : Same(b, f, r, i)
  <2>1. i \in 1..n \/ i \in (n + 1)..m
    OBVIOUS
  <2> QED BY <2>1 DEF IsRun
<1>2. ASSUME NEW b \in rows \cup new PROVE b.pos \in 1..m /\ Same(b, f, r, b.pos)
  <2>1. 1..n \subseteq 1..m /\ (n + 1)..m \subseteq 1..m
    OBVIOUS
  <2>2. CASE b \in rows
    BY <2>1, <2>2 DEF IsRun
  <2>3. CASE b \in new
    BY <2>1, <2>3
  <2> QED BY <2>2, <2>3
<1>3. ASSUME NEW b \in rows \cup new, NEW c \in rows \cup new, b.pos = c.pos PROVE b = c
  <2>1. \A x \in 1..n, y \in (n + 1)..m : x # y
    OBVIOUS
  <2>2. \A x \in rows : x.pos \in 1..n
    BY DEF IsRun
  <2>3. CASE b \in rows /\ c \in rows
    BY <1>3, <2>3 DEF IsRun
  <2>4. CASE b \in new /\ c \in new
    BY <1>3, <2>4
  <2>5. CASE b \in rows /\ c \in new
    BY <1>3, <2>1, <2>2, <2>5
  <2>6. CASE b \in new /\ c \in rows
    BY <1>3, <2>1, <2>2, <2>6
  <2> QED BY <2>3, <2>4, <2>5, <2>6
<1> QED BY <1>1, <1>2, <1>3 DEF IsRun

(* The rows of a chunk go on where the run on the shard ends. *)
LEMMA ChunkExtends ==
  ASSUME TypeInv, NEW w \in Writers, writer[w].pc = "insert",
         IsRun(blocks, writer[w].file, writer[w].rev, writer[w].kept + writer[w].sent)
  PROVE  IsRun(blocks \cup NextRows(w), writer[w].file, writer[w].rev, writer[w].kept + Upto(w))
<1> DEFINE k == writer[w].kept
           s == writer[w].sent
           u == Upto(w)
           row(i) == Row(writer[w].first + i, Job(w), k + i + 1, BlocksOf[Rev(w)][k + i + 1])
<1>1. k \in Nat /\ s \in Nat /\ u \in Nat /\ s <= u
  BY WriterIs, ChunkIs
<1>2. NextRows(w) = {row(i) : i \in s..(u - 1)}
  BY DEF NextRows
<1>3. \A i \in Nat : row(i).pos = k + i + 1 /\ Same(row(i), writer[w].file, writer[w].rev, k + i + 1)
  BY DEF Row, Same, Job, Rev
<1> HIDE DEF k, s, u, row
<1>4. ASSUME NEW i \in (k + s + 1)..(k + u)
      PROVE  \E b \in NextRows(w) : Same(b, writer[w].file, writer[w].rev, i)
  <2>1. i - k - 1 \in s..(u - 1) /\ i - k - 1 \in Nat /\ k + (i - k - 1) + 1 = i
    BY <1>1
  <2>2. row(i - k - 1) \in NextRows(w)
    BY <1>2, <2>1
  <2> QED BY <1>3, <2>1, <2>2
<1>5. ASSUME NEW b \in NextRows(w)
      PROVE  b.pos \in (k + s + 1)..(k + u) /\ Same(b, writer[w].file, writer[w].rev, b.pos)
  <2>1. PICK i \in s..(u - 1) : b = row(i)
    BY <1>2
  <2>2. i \in Nat /\ k + i + 1 \in (k + s + 1)..(k + u)
    BY <1>1, <2>1
  <2> QED BY <1>3, <2>1, <2>2
<1>6. ASSUME NEW b \in NextRows(w), NEW c \in NextRows(w), b.pos = c.pos PROVE b = c
  <2>1. PICK i \in s..(u - 1) : b = row(i)
    BY <1>2
  <2>2. PICK j \in s..(u - 1) : c = row(j)
    BY <1>2
  <2>3. i \in Nat /\ j \in Nat
    BY <1>1
  <2>4. k + i + 1 = k + j + 1
    BY <1>3, <1>6, <2>1, <2>2, <2>3
  <2>5. i = j
    BY <1>1, <2>3, <2>4
  <2> QED BY <2>1, <2>2, <2>5
<1>7. k + s \in Nat /\ k + u \in Nat /\ k + s <= k + u
  BY <1>1
<1>8. IsRun(blocks, writer[w].file, writer[w].rev, k + s)
  BY DEF k, s
<1>9. IsRun(blocks \cup NextRows(w), writer[w].file, writer[w].rev, k + u)
  BY <1>4, <1>5, <1>6, <1>7, <1>8, RunExtends
<1> QED BY <1>9 DEF k, u

LEMMA InsertFence ==
  ASSUME TypeInv, FenceInv, NEW w \in Writers, Insert(w)
  PROVE  FenceInv'
<1>1. /\ writer[w].pc = "insert" /\ Running(w) /\ VersionsGrow
      /\ UNCHANGED <<session, gen, fence, writes, reused>>
  BY DEF Insert, Running, mainVars, FenceInv
<1>2. CASE ~HoldsFence(w)
  <2>1. Stop(w) /\ blocks' = blocks
    BY <1>2 DEF Insert
  <2> QED BY <1>1, <2>1, SessionRecedes, StopFence
<1>3. CASE HoldsFence(w)
  <2>1. PICK q \in WriterState :
           /\ writer' = [writer EXCEPT ![w] = q]
           /\ q.pc = IF Upto(w) = Remaining(w) THEN "usage" ELSE "insert"
           /\ q.file = writer[w].file /\ q.rev = writer[w].rev /\ q.gen = writer[w].gen
           /\ q.version = writer[w].version /\ q.kept = writer[w].kept
           /\ q.lastId = writer[w].lastId /\ q.usage = writer[w].usage
           /\ q.first = writer[w].first /\ q.sent = Upto(w)
    BY <1>3, InsertIs
  <2>2. q.pc \in {"usage", "insert"}
    BY <2>1
  <2>3. Follows(q, writer[w])
    BY <1>1, <2>1, <2>2 DEF Follows, Claiming, Claimed, Filling, Shredding
  <2>4. Numbered(q, writes)
    <3>1. Numbered(writer[w], writes)
      BY DEF FenceInv, GenerationsDiffer
    <3> QED BY <1>1, <2>1, <2>2, <3>1 DEF Numbered
  <2>5. ASSUME ~reused PROVE Filled(q, blocks')
    <3>1. IsRun(blocks, writer[w].file, writer[w].rev, writer[w].kept + writer[w].sent)
      BY <1>1, <1>3, <2>5 DEF FenceInv, ShardInv, HolderFills, HoldsFence, Filled
    <3>2. IsRun(blocks', q.file, q.rev, q.kept + q.sent)
      <4>1. blocks' = blocks \cup NextRows(w)
        BY <1>3 DEF Insert
      <4>2. IsRun(blocks \cup NextRows(w), writer[w].file, writer[w].rev, writer[w].kept + Upto(w))
        BY <1>1, <3>1, ChunkExtends
      <4> QED BY <2>1, <4>1, <4>2
    <3>3. q.pc = "usage" => q.kept + q.sent = Len(BlocksOf[q.rev])
      BY <1>1, <2>1, ChunkIs
    <3> QED BY <2>2, <3>2, <3>3 DEF Filled
  <2> QED BY <1>1, <1>3, <2>1, <2>3, <2>4, <2>5, ShardWriteFence
<1> QED BY <1>2, <1>3

(* The last batch publishes what the shard holds: its guard on the           *)
(* generation stands in for a second look at the fence.                      *)
LEMMA FinalizeFence ==
  ASSUME TypeInv, FenceInv, NEW w \in Writers, Finalize(w)
  PROVE  FenceInv'
<1>1. /\ writer[w].pc = "finalize" /\ Running(w) /\ VersionsGrow /\ GenerationsDiffer
      /\ UNCHANGED <<gen, fence, blocks, writes, reused>>
      /\ writer[w].gen # 0 /\ writer[w].file \in Files /\ writer[w].rev \in Revisions
  BY WriterIs DEF Finalize, Running, shardVars, FenceInv, GenerationsDiffer, Numbered
<1>2. CASE ~Guard(w)
  <2>1. Stop(w) /\ session' = session
    BY <1>2 DEF Finalize
  <2> QED BY <1>1, <2>1, SessionRecedes, StopFence
<1>3. CASE Guard(w)
  <2>1. /\ session' \in Session /\ session'.state = "ready"
        /\ session'.file = writer[w].file /\ session'.rev = writer[w].rev
        /\ session'.version >= session.version /\ session'.version > 0
        /\ Goto(w, "mark")
    BY <1>1, <1>3, FinalizeIs DEF VersionsGrow
  <2>2. PICK q \in WriterState :
           /\ writer' = [writer EXCEPT ![w] = q] /\ q.pc = "mark"
           /\ q.file = writer[w].file /\ q.rev = writer[w].rev /\ q.gen = writer[w].gen
           /\ q.version = writer[w].version /\ q.kept = writer[w].kept
           /\ q.lastId = writer[w].lastId /\ q.usage = writer[w].usage
           /\ q.first = writer[w].first /\ q.sent = writer[w].sent
    BY <1>1, <2>1, GotoIs DEF Phase, Settling
  <2>3. Follows(q, writer[w]) /\ Filled(q, blocks)
    BY <1>1, <2>2 DEF Follows, Claiming, Claimed, Filling, Shredding, Filled
  <2>4. Numbered(q, writes)
    <3>1. Numbered(writer[w], writes)
      BY <1>1 DEF GenerationsDiffer
    <3> QED BY <1>1, <2>2, <3>1 DEF Numbered
  <2>5. /\ GenerationsDiffer' /\ VersionsGrow'
        /\ VersionsDiffer => VersionsDiffer'
        /\ OwnerIsNewest => OwnerIsNewest'
    <3>1. /\ gen' \in {gen, 0} /\ writes' = writes /\ fence' = fence
          /\ session'.state # "absent" => session'.version > 0
      BY <1>1, <2>1
    <3> QED BY <1>1, <2>1, <2>2, <2>3, <2>4, <3>1, FollowsVersions
  <2>6. ASSUME ~reused PROVE ShardInv'
    <3>1. ShardInv
      BY <2>6 DEF FenceInv
    <3>2. writer'[w] = q /\ \A v \in Writers \ {w} : writer'[v] = writer[v]
      BY <2>2 DEF TypeInv, WritersOK
    <3>3. HolderFills'
      <4>1. \A v \in Writers : writer'[v].version = fence => Filled(writer'[v], blocks)
        BY <2>3, <3>1, <3>2 DEF ShardInv, HolderFills
      <4> QED BY <1>1, <4>1 DEF HolderFills
    <3>4. Owns(writer[w], gen)
      BY <1>1, <1>3 DEF Owns, Guard, Running
    <3>5. fence = writer[w].version
      <4>1. fence <= writer[w].version
        BY <3>1, <3>4 DEF ShardInv, OwnerIsNewest
      <4>2. writer[w].version <= fence
        BY <1>1 DEF VersionsGrow, Versioned, Claimed, Filling
      <4> QED BY <4>1, <4>2, WriterIs DEF TypeInv, ShardOK
    <3>6. IsRun(blocks, writer[w].file, writer[w].rev, Len(BlocksOf[writer[w].rev]))
      BY <1>1, <3>1, <3>5 DEF ShardInv, HolderFills, Filled
    <3>7. ASSUME NEW v \in Writers, writer'[v].pc \in Shredding PROVE writer'[v].version < fence
      <4>1. v # w /\ writer[v].pc \in Shredding
        BY <2>2, <3>2, <3>7 DEF Shredding, Claiming
      <4>2. Running(v)
        BY <4>1 DEF Running, Shredding, Claiming
      <4> QED BY <3>1, <3>2, <3>4, <3>5, <4>1, <4>2 DEF ShardInv, OwnerIsNewest
    <3>8. ReadyIsFilled'
      <4>1. /\ session'.file \in Files /\ session'.rev \in Revisions
            /\ IsRun(blocks, session'.file, session'.rev, Len(BlocksOf[session'.rev]))
        BY <1>1, <2>1, <3>6
      <4> QED BY <1>1, <3>7, <4>1 DEF ReadyIsFilled
    <3> QED BY <2>5, <3>1, <3>3, <3>8 DEF ShardInv
  <2> QED BY <1>1, <2>5, <2>6 DEF FenceInv
<1> QED BY <1>2, <1>3

LEMMA ProbeFence ==
  ASSUME TypeInv, FenceInv, NEW w \in Writers, Probe(w)
  PROVE  FenceInv'
<1>1. /\ writer[w].pc = "probe" /\ Running(w) /\ VersionsGrow
      /\ UNCHANGED <<session, gen, fence, blocks, writes, reused>>
  BY DEF Probe, Running, mainVars, shardVars, FenceInv
<1>2. PICK n \in 0..Len(BlocksOf[writer[w].rev]), lastId \in Nat, turns \in UsageRows :
              /\ Retain(w, n, lastId, turns)
              /\ \/ n = 0 /\ lastId = 0
                 \/ IsRun({c \in blocks : c.id <= lastId}, writer[w].file, writer[w].rev, n)
  BY ProbeIs
<1>3. PICK q \in WriterState :
           /\ writer' = [writer EXCEPT ![w] = q] /\ q.pc = "clearUsage"
           /\ q.file = writer[w].file /\ q.rev = writer[w].rev /\ q.gen = writer[w].gen
           /\ q.version = writer[w].version /\ q.kept = n
           /\ q.lastId = lastId /\ q.usage = turns
           /\ q.first = writer[w].first /\ q.sent = writer[w].sent
  <2>1. n \in Nat
    BY ProbeIs, Distinct
  <2> QED BY <1>1, <1>2, <2>1, RetainIs
<1>4. Follows(q, writer[w])
  BY <1>1, <1>3 DEF Follows, Claiming, Claimed, Filling, Shredding
<1>5. Numbered(q, writes)
  <2>1. Numbered(writer[w], writes)
    BY DEF FenceInv, GenerationsDiffer
  <2> QED BY <1>1, <1>3, <2>1 DEF Numbered
<1>6. Filled(q, blocks)
  <2>1. CASE n = 0 /\ lastId = 0
    <3>1. {c \in blocks : c.id <= 0} = {}
      BY DEF TypeInv, ShardOK, BlockRow
    <3>2. IsRun({}, q.file, q.rev, 0)
      BY DEF IsRun
    <3> QED BY <1>3, <2>1, <3>1, <3>2 DEF Filled
  <2>2. CASE IsRun({c \in blocks : c.id <= lastId}, writer[w].file, writer[w].rev, n)
    BY <1>3, <2>2 DEF Filled
  <2> QED BY <1>2, <2>1, <2>2
<1>7. Recedes
  BY <1>1, SessionRecedes
<1> QED BY <1>1, <1>3, <1>4, <1>5, <1>6, <1>7, QuietStep

LEMMA ReserveFence ==
  ASSUME TypeInv, FenceInv, NEW w \in Writers, ReserveIds(w)
  PROVE  FenceInv'
<1>1. /\ writer[w].pc = "reserve" /\ Running(w) /\ VersionsGrow
      /\ UNCHANGED <<session, gen, fence, blocks, writes, reused>>
  BY DEF ReserveIds, Running, mainVars, FenceInv
<1>2. PICK q \in WriterState :
           /\ writer' = [writer EXCEPT ![w] = q] /\ q.pc = "insert"
           /\ q.file = writer[w].file /\ q.rev = writer[w].rev /\ q.gen = writer[w].gen
           /\ q.version = writer[w].version /\ q.kept = writer[w].kept
           /\ q.lastId = writer[w].lastId /\ q.usage = writer[w].usage
           /\ q.first = nextId /\ q.sent = writer[w].sent
  BY ReserveIs
<1>3. Follows(q, writer[w])
  BY <1>1, <1>2 DEF Follows, Claiming, Claimed, Filling, Shredding
<1>4. Numbered(q, writes)
  <2>1. Numbered(writer[w], writes)
    BY DEF FenceInv, GenerationsDiffer
  <2> QED BY <1>1, <1>2, <2>1 DEF Numbered
<1>5. ASSUME ~reused, q.version = fence PROVE Filled(q, blocks)
  <2>1. Filled(writer[w], blocks)
    BY <1>2, <1>5 DEF FenceInv, ShardInv, HolderFills
  <2> QED BY <1>1, <1>2, <2>1 DEF Filled
<1>6. Recedes
  BY <1>1, SessionRecedes
<1> QED BY <1>1, <1>2, <1>3, <1>4, <1>5, <1>6, QuietStep

LEMMA MissingFence ==
  ASSUME TypeInv, FenceInv, NEW w \in Writers, Missing(w)
  PROVE  FenceInv'
<1>1. /\ writer[w].pc = "invalidate" /\ Running(w) /\ VersionsGrow
      /\ UNCHANGED <<session, gen, fence, blocks, writes, reused>>
  BY DEF Missing, Running, mainVars, shardVars, FenceInv
<1>2. PICK q \in WriterState :
           /\ writer' = [writer EXCEPT ![w] = q] /\ q.pc = "fail"
           /\ q.file = writer[w].file /\ q.rev = writer[w].rev /\ q.gen = 0
           /\ q.version = writer[w].version /\ q.kept = writer[w].kept
           /\ q.lastId = writer[w].lastId /\ q.usage = writer[w].usage
           /\ q.first = writer[w].first /\ q.sent = writer[w].sent
  BY MissingIs
<1>3. Follows(q, writer[w]) /\ Filled(q, blocks)
  BY <1>1, <1>2 DEF Follows, Claiming, Claimed, Filling, Shredding, Filled
<1>4. Numbered(q, writes)
  <2>1. Numbered(writer[w], writes) /\ writes \in Nat
    BY DEF FenceInv, GenerationsDiffer, TypeInv, MainOK
  <2> QED BY <1>1, <1>2, <2>1 DEF Numbered
<1>5. Recedes
  BY <1>1, SessionRecedes
<1> QED BY <1>1, <1>2, <1>3, <1>4, <1>5, QuietStep

(* The steps that only move on. *)
LEMMA AdvanceFence ==
  ASSUME TypeInv, FenceInv, NEW w \in Writers,
         ClearUsage(w) \/ InsertUsage(w) \/ CheckFence(w)
  PROVE  FenceInv'
<1>1. /\ Running(w) /\ VersionsGrow /\ Numbered(writer[w], writes)
      /\ UNCHANGED <<session, gen, fence, blocks, writes, reused>>
  BY DEF ClearUsage, InsertUsage, CheckFence, Running, mainVars, shardVars, FenceInv, GenerationsDiffer
<1>2. Recedes
  BY <1>1, SessionRecedes
<1>3. writer[w].gen # 0
  BY <1>1 DEF ClearUsage, InsertUsage, CheckFence, Numbered, Running
<1>4. CASE ClearUsage(w)
  <2>1. writer[w].pc = "clearUsage" /\ Goto(w, "clear")
    BY <1>4 DEF ClearUsage
  <2>2. /\ "clear" \in Phase /\ writer[w].pc \in Claimed /\ writer[w].pc \in Shredding
        /\ "clear" \notin Claiming
    BY <2>1 DEF Phase, Writing, Claiming, Claimed, Filling, Shredding
  <2> QED BY <1>1, <1>2, <1>3, <2>1, <2>2, GotoFence
<1>5. CASE InsertUsage(w)
  <2>1. writer[w].pc = "usage" /\ Goto(w, "check")
    BY <1>5 DEF InsertUsage
  <2>2. /\ "check" \in Phase /\ writer[w].pc \in Claimed /\ "check" \notin Shredding
        /\ "check" \notin Claiming
    BY <2>1 DEF Phase, Writing, Claiming, Claimed, Filling, Shredding
  <2> QED BY <1>1, <1>2, <1>3, <2>1, <2>2, GotoFence
<1>6. CASE CheckFence(w)
  <2>1. CASE Stop(w)
    BY <1>1, <1>2, <2>1, StopFence
  <2>2. CASE writer[w].pc = "check" /\ Goto(w, "finalize")
    <3>1. /\ "finalize" \in Phase /\ writer[w].pc \in Claimed /\ "finalize" \notin Shredding
          /\ "finalize" \notin Claiming
      BY <2>2 DEF Phase, Writing, Claiming, Claimed, Filling, Shredding
    <3> QED BY <1>1, <1>2, <1>3, <2>2, <3>1, GotoFence
  <2>3. CASE writer[w].pc = "clearCheck" /\ Goto(w, "clearCommit")
    <3>1. /\ "clearCommit" \in Phase /\ writer[w].pc \in Claimed /\ "clearCommit" \notin Shredding
          /\ "clearCommit" \notin Claiming /\ "clearCommit" \notin Filling
      BY <2>3 DEF Phase, Clearing, Claiming, Claimed, Filling, Shredding
    <3> QED BY <1>1, <1>2, <1>3, <2>3, <3>1, GotoFence
  <2>4. Stop(w) \/ (writer[w].pc = "check" /\ Goto(w, "finalize"))
                \/ (writer[w].pc = "clearCheck" /\ Goto(w, "clearCommit"))
    BY <1>6 DEF CheckFence
  <2> QED BY <2>1, <2>2, <2>3, <2>4
<1> QED BY <1>4, <1>5, <1>6

(* A step to a phase that settles or clears, where nothing is expected of   *)
(* the shard.                                                               *)
LEMMA SettleFence ==
  ASSUME TypeInv, FenceInv, NEW w \in Writers, Running(w),
         NEW pc \in {"revert", "fail", "failSession", "clearStart"}, Goto(w, pc),
         writer[w].gen = 0 => pc \in {"fail", "failSession"},
         UNCHANGED <<session, gen, fence, blocks, writes, reused>>
  PROVE  FenceInv'
<1>1. /\ pc \in Phase /\ pc \notin Claiming /\ pc \notin Claimed /\ pc \notin Shredding
      /\ pc \notin Filling /\ pc # "idle" /\ pc # "invalidate"
  BY DEF Phase, Settling, Clearing, Claiming, Claimed, Filling, Shredding
<1>2. Recedes
  BY SessionRecedes DEF FenceInv
<1> QED BY <1>1, <1>2, GotoFence

LEMMA SettlingFence ==
  ASSUME TypeInv, FenceInv, NEW w \in Writers,
         Mark(w) \/ Revert(w) \/ FailFile(w) \/ FailSession(w) \/ ClearCommit(w) \/ Throw(w)
  PROVE  FenceInv'
<1>1. /\ Running(w) /\ VersionsGrow /\ Numbered(writer[w], writes)
      /\ UNCHANGED <<fence, blocks, writes, reused>>
  BY DEF Mark, Revert, FailFile, FailSession, ClearCommit, Throw, Running, shardVars, FenceInv,
         GenerationsDiffer
<1>2. CASE Mark(w)
  <2>1. /\ UNCHANGED <<session, gen>> /\ writer[w].pc = "mark"
        /\ Stop(w) \/ Goto(w, "revert")
    BY <1>2 DEF Mark
  <2>2. writer[w].gen # 0
    BY <1>1, <2>1 DEF Numbered
  <2>3. Recedes
    BY <1>1, <2>1, SessionRecedes
  <2>4. CASE Stop(w)
    BY <1>1, <2>1, <2>3, <2>4, StopFence
  <2>5. CASE Goto(w, "revert")
    BY <1>1, <2>1, <2>2, <2>5, SettleFence
  <2> QED BY <2>1, <2>4, <2>5
<1>3. CASE Revert(w)
  <2>1. /\ Stop(w)
        /\ (session' = SetState("parsing") /\ gen' = 0) \/ UNCHANGED <<session, gen>>
    BY <1>3 DEF Revert
  <2>2. Recedes /\ gen' \in {gen, 0}
    BY <1>1, <2>1, SessionRecedes
  <2> QED BY <1>1, <2>1, <2>2, StopFence
<1>4. CASE FailFile(w)
  <2>1. /\ UNCHANGED <<session, gen>>
        /\ \/ Stop(w)
           \/ Goto(w, "failSession")
           \/ Goto(w, "clearStart") /\ BlocksOf[writer[w].rev] = <<>>
    BY <1>4 DEF FailFile, Rev
  <2>2. BlocksOf[writer[w].rev] = <<>> => writer[w].gen # 0
    BY <1>1 DEF Numbered, Running
  <2>3. Recedes
    BY <1>1, <2>1, SessionRecedes
  <2> QED BY <1>1, <2>1, <2>2, <2>3, StopFence, SettleFence
<1>5. CASE FailSession(w)
  <2>1. /\ Stop(w)
        /\ (session' = SetState("error") /\ gen' = 0) \/ UNCHANGED <<session, gen>>
    BY <1>5 DEF FailSession
  <2>2. Recedes /\ gen' \in {gen, 0}
    BY <1>1, <2>1, SessionRecedes
  <2> QED BY <1>1, <2>1, <2>2, StopFence
<1>6. CASE ClearCommit(w)
  <2>1. Stop(w) /\ gen' \in {gen, 0} /\ (session' = session \/ session'.state = "absent")
        /\ session' \in Session /\ session'.version >= session.version
    BY <1>6, ClearCommitIs DEF ClearCommit
  <2>2. Recedes
    BY <1>1, <2>1 DEF Recedes, VersionsGrow
  <2> QED BY <1>1, <2>1, <2>2, StopFence
<1>7. CASE Throw(w)
  <2>1. /\ UNCHANGED <<session, gen>>
        /\ \/ Stop(w)
           \/ writer[w].pc \in Writing /\ (Goto(w, "revert") \/ Goto(w, "fail"))
    BY <1>7 DEF Throw, mainVars
  <2>2. writer[w].pc \in Writing => writer[w].gen # 0
    BY <1>1 DEF Numbered, Running, Writing
  <2>3. Recedes
    BY <1>1, <2>1, SessionRecedes
  <2> QED BY <1>1, <2>1, <2>2, <2>3, StopFence, SettleFence
<1> QED BY <1>2, <1>3, <1>4, <1>5, <1>6, <1>7

LEMMA StepFence ==
  ASSUME TypeInv, FenceInv, [Next]_vars
  PROVE  FenceInv'
<1>1. CASE UNCHANGED vars
  <2>1. UNCHANGED <<writer, session, gen, writes, reused, fence, blocks>>
    BY <1>1 DEF vars, mainVars, shardVars
  <2>2. Recedes
    BY <2>1, SessionRecedes DEF FenceInv
  <2> QED BY <2>1, <2>2, OutsideStep
<1>2. ASSUME Touch \/ \E f \in Files : Upload(f) \/ Flip(f) PROVE FenceInv'
  BY <1>2, OutsideFence
<1>3. ASSUME NEW w \in Writers, Step(w) PROVE FenceInv'
  BY <1>3, InvalidateFence, ClaimFence, ProbeFence, AdvanceFence, ClearFence, ReserveFence,
     InsertFence, FinalizeFence, SettlingFence, ClearStartFence, ClearBlocksFence, MissingFence,
     Zenon DEF Step
<1>4. ASSUME NEW w \in Writers, NEW f \in Files, Start(w, f) PROVE FenceInv'
  BY <1>4, StartFence
<1> QED BY <1>1, <1>2, <1>3, <1>4 DEF Next

LEMMA InitFence == Init => FenceInv
<1> SUFFICES ASSUME Init PROVE FenceInv
  OBVIOUS
<1>1. /\ gen = 0 /\ fence = 0 /\ writes = 0 /\ writer = [w \in Writers |-> Idle]
  BY DEF Init
<1>2. \A w \in Writers : writer[w] = Idle /\ ~Running(w)
  BY <1>1 DEF Running, Idle
<1>3. PICK f \in Files, r \in Revisions :
       \/ session = [state |-> "absent", file |-> NoFile, rev |-> NoRevision, version |-> 0]
       \/ /\ session = [state |-> "ready", file |-> f, rev |-> r, version |-> 1]
          /\ \E idAt \in Permuted(DOMAIN BlocksOf[r]) : blocks = RowsOf(f, r, idAt)
  BY DEF Init
<1>4. session.version \in Nat /\ (session.state # "absent" => session.version > 0)
  BY <1>3
<1>5. /\ Numbered(Idle, writes) /\ Versioned(Idle, gen, fence, session) /\ Filled(Idle, blocks)
      /\ ~Owns(Idle, gen) /\ Idle.pc \notin Shredding
  BY <1>4 DEF Idle, Numbered, Versioned, Filled, Owns, Claiming, Claimed, Filling, Shredding
<1>6. GenerationsDiffer
  BY <1>1, <1>2, <1>5 DEF GenerationsDiffer
<1>7. VersionsGrow
  BY <1>1, <1>2, <1>4, <1>5 DEF VersionsGrow
<1>8. VersionsDiffer /\ OwnerIsNewest /\ HolderFills
  BY <1>2, <1>5 DEF VersionsDiffer, OwnerIsNewest, HolderFills
<1>9. ReadyIsFilled
  <2>1. ASSUME session.state = "ready"
        PROVE  /\ session.file \in Files /\ session.rev \in Revisions
               /\ IsRun(blocks, session.file, session.rev, Len(BlocksOf[session.rev]))
    <3>1. session = [state |-> "ready", file |-> f, rev |-> r, version |-> 1]
      BY <1>3, <2>1
    <3>2. PICK idAt \in Permuted(DOMAIN BlocksOf[r]) : blocks = RowsOf(f, r, idAt)
      BY <1>3, <2>1
    <3> QED BY <3>1, <3>2, ParsedRun
  <2> QED BY <1>2, <1>5, <2>1 DEF ReadyIsFilled
<1> QED BY <1>6, <1>7, <1>8, <1>9 DEF FenceInv, ShardInv

LEMMA FilledIsWhole ==
  ASSUME ReadyIsFilled
  PROVE  BlocksAreWhole
<1> SUFFICES ASSUME session.state = "ready"
             PROVE  /\ Cardinality(blocks) = Len(BlocksOf[session.rev])
                    /\ \A i \in DOMAIN BlocksOf[session.rev] :
                         \E b \in blocks : Same(b, session.file, session.rev, i)
  BY DEF BlocksAreWhole
<1>1. session.rev \in Revisions /\ IsRun(blocks, session.file, session.rev, Len(BlocksOf[session.rev]))
  BY DEF ReadyIsFilled
<1>2. Len(BlocksOf[session.rev]) \in Nat /\ DOMAIN BlocksOf[session.rev] = 1..Len(BlocksOf[session.rev])
  BY <1>1, Distinct
<1>3. Cardinality(blocks) = Len(BlocksOf[session.rev])
  BY <1>1, <1>2, RunSize
<1> QED BY <1>1, <1>2, <1>3 DEF IsRun

(* As long as no two running writers captured one version, the session that *)
(* is ready has on its shard exactly the blocks its row was computed from,  *)
(* for any number of copies, writers, uploads, edits and crashes.           *)
THEOREM FenceKeepsBlocksWhole == Spec => []FenceSeparatesWriters
<1>1. Init => TypeInv /\ FenceInv
  BY InitTypes, InitFence
<1>2. TypeInv /\ FenceInv /\ [Next]_vars => TypeInv' /\ FenceInv'
  BY StepTypes, StepFence
<1>3. FenceInv /\ TypeInv => FenceSeparatesWriters
  BY FilledIsWhole DEF FenceInv, ShardInv, FenceSeparatesWriters, TypeInv, MainOK
<1> QED BY <1>1, <1>2, <1>3, PTL DEF Spec

-----------------------------------------------------------------------------
(* The usage rows and the state of the file. *)

(* Only one running writer has the generation that stands. *)
LEMMA OneOwner ==
  ASSUME FenceInv, NEW w \in Writers, NEW v \in Writers, Owns(writer[w], gen), Owns(writer[v], gen)
  PROVE  v = w
  BY DEF FenceInv, GenerationsDiffer, Owns, Running

(* What a step of a writer that leaves the usage rows may make of its state. *)
Keeps(q, p) ==
  q.pc # "idle" =>
    /\ p.pc # "idle" /\ q.file = p.file /\ q.rev = p.rev /\ q.gen \in {p.gen, 0}
    /\ q.pc # "mark"

(* The session's row, in a step that publishes nothing. *)
Subsides ==
  session'.state = "ready" => /\ session.state = "ready" /\ session'.file = session.file
                              /\ session'.rev = session.rev

FilesKeep ==
  \A f \in Files : /\ files'[f].rev = files[f].rev
                   /\ files'[f].state = "parsed" => files[f].state = "parsed"

LEMMA KeptUsage ==
  ASSUME TypeInv, FenceInv, UsageInv, NEW w \in Writers, NEW q \in WriterState,
         writer' = [writer EXCEPT ![w] = q], Keeps(q, writer[w]), FilesKeep, Subsides,
         uploads' = uploads, usage' = usage,
         \A v \in Writers \ {w} : Owns(writer[v], gen') => Owns(writer[v], gen),
         Owns(q, gen') /\ q.pc \in Claiming \cup Claimed => session'.state # "ready",
         uploads < 2 /\ Owns(q, gen') /\ Stands(q, files) => Priced(q, usage)
  PROVE  UsageInv'
<1>1. writer'[w] = q /\ \A v \in Writers \ {w} : writer'[v] = writer[v]
  BY DEF TypeInv, WritersOK
<1>2. OwnerAtWork'
  <2>1. ASSUME NEW v \in Writers, Owns(writer'[v], gen'), writer'[v].pc \in Claiming \cup Claimed
        PROVE  session'.state # "ready"
    <3>1. CASE v = w
      BY <1>1, <2>1, <3>1
    <3>2. CASE v # w
      BY <1>1, <2>1, <3>2 DEF UsageInv, OwnerAtWork, Subsides
    <3> QED BY <3>1, <3>2
  <2> QED BY <2>1 DEF OwnerAtWork
<1>3. ASSUME uploads < 2 PROVE SourcesStand'
  <2>1. SourcesStand
    BY <1>3 DEF UsageInv
  <2>2. ASSUME NEW v \in Writers, writer'[v].pc # "idle"
        PROVE  /\ Running(v) /\ writer'[v].file \in Files
               /\ Stands(writer'[v], files') <=> Stands(writer[v], files)
    <3>1. Running(v) /\ writer'[v].file = writer[v].file /\ writer'[v].rev = writer[v].rev
      BY <1>1, <2>2 DEF Keeps, Running
    <3>2. writer[v].file \in Files
      BY <3>1, WriterIs DEF Running
    <3> QED BY <3>1, <3>2 DEF Stands, FilesKeep
  <2>3. BytesStand'
    BY <2>1, <2>2 DEF SourcesStand, BytesStand, Running
  <2>4. OwnerPrices'
    <3>1. ASSUME NEW v \in Writers, Owns(writer'[v], gen'), Stands(writer'[v], files')
          PROVE  Priced(writer'[v], usage')
      <4>1. Stands(writer[v], files)
        BY <2>2, <3>1 DEF Owns
      <4>2. CASE v = w
        <5>1. Stands(q, files) /\ Owns(q, gen')
          BY <1>1, <3>1, <4>1, <4>2 DEF Stands, Keeps, Owns
        <5> QED BY <1>1, <1>3, <4>2, <5>1
      <4>3. CASE v # w
        BY <1>1, <2>1, <3>1, <4>1, <4>3 DEF SourcesStand, OwnerPrices
      <4> QED BY <4>2, <4>3
    <3> QED BY <3>1 DEF OwnerPrices
  <2>5. MarksItsOwn'
    <3>1. ASSUME NEW v \in Writers, writer'[v].pc = "mark", Stands(writer'[v], files'),
                 session'.state = "ready", session'.file = writer'[v].file
          PROVE  session'.rev = writer'[v].rev
      <4>1. v # w
        BY <1>1, <3>1 DEF Keeps
      <4>2. writer'[v] = writer[v] /\ Stands(writer[v], files)
        BY <1>1, <2>2, <3>1, <4>1
      <4>3. session.state = "ready" /\ session'.file = session.file /\ session'.rev = session.rev
        BY <3>1 DEF Subsides
      <4>4. Marks(writer[v], files, session)
        BY <2>1 DEF SourcesStand, MarksItsOwn
      <4> QED BY <3>1, <4>2, <4>3, <4>4 DEF Marks
    <3> QED BY <3>1 DEF MarksItsOwn, Marks
  <2>6. ReadyIsPriced' /\ ParsedIsIndexed'
    BY <2>1 DEF SourcesStand, ReadyIsPriced, ParsedIsIndexed, Subsides, FilesKeep
  <2> QED BY <2>3, <2>4, <2>5, <2>6 DEF SourcesStand
<1> QED BY <1>2, <1>3 DEF UsageInv

LEMMA StopUsage ==
  ASSUME TypeInv, FenceInv, UsageInv, NEW w \in Writers, Stop(w), FilesKeep, Subsides,
         uploads' = uploads, usage' = usage, gen' \in {gen, 0}
  PROVE  UsageInv'
<1>1. writer' = [writer EXCEPT ![w] = Idle] /\ Idle \in WriterState
  BY IdleIsTyped DEF Stop
<1>2. Keeps(Idle, writer[w]) /\ ~Owns(Idle, gen')
  BY IdleIsTyped DEF Keeps, Owns
<1>3. \A v \in Writers \ {w} : Owns(writer[v], gen') => Owns(writer[v], gen)
  BY DEF Owns
<1> QED BY <1>1, <1>2, <1>3, KeptUsage

(* A writer's own usage stays what it was, in a phase that asks the same. *)
LEMMA GotoUsage ==
  ASSUME TypeInv, FenceInv, UsageInv, NEW w \in Writers, Running(w), NEW pc \in Phase \ {"mark"},
         Goto(w, pc), FilesKeep, Subsides,
         uploads' = uploads, usage' = usage, gen' \in {gen, 0},
         pc \in Claiming \cup Claimed => writer[w].pc \in Claiming \cup Claimed,
         \/ pc \notin Filling
         \/ {pc, writer[w].pc} \subseteq {"clear", "reserve", "insert", "usage"}
         \/ {pc, writer[w].pc} \subseteq {"check", "finalize"}
  PROVE  UsageInv'
<1>1. PICK q \in WriterState :
           /\ writer' = [writer EXCEPT ![w] = q] /\ q.pc = pc
           /\ q.file = writer[w].file /\ q.rev = writer[w].rev /\ q.gen = writer[w].gen
           /\ q.version = writer[w].version /\ q.kept = writer[w].kept
           /\ q.lastId = writer[w].lastId /\ q.usage = writer[w].usage
           /\ q.first = writer[w].first /\ q.sent = writer[w].sent
  BY GotoIs
<1>2. Keeps(q, writer[w])
  BY <1>1 DEF Keeps, Running
<1>3. /\ \A v \in Writers \ {w} : Owns(writer[v], gen') => Owns(writer[v], gen)
      /\ Owns(q, gen') => Owns(writer[w], gen)
  BY <1>1 DEF Owns, Running
<1>4. Owns(q, gen') /\ q.pc \in Claiming \cup Claimed => session'.state # "ready"
  BY <1>1, <1>3 DEF UsageInv, OwnerAtWork, Subsides
<1>5. ASSUME uploads < 2, Owns(q, gen'), Stands(q, files) PROVE Priced(q, usage)
  <2>1. Priced(writer[w], usage)
    <3>1. Stands(writer[w], files)
      BY <1>1, <1>5 DEF Stands
    <3> QED BY <1>3, <1>5, <3>1 DEF UsageInv, SourcesStand, OwnerPrices
  <2>2. CASE pc \notin Filling
    BY <1>1, <2>2 DEF Priced, Filling
  <2>3. CASE {pc, writer[w].pc} \subseteq {"clear", "reserve", "insert", "usage"}
    BY <1>1, <2>1, <2>3 DEF Priced
  <2>4. CASE {pc, writer[w].pc} \subseteq {"check", "finalize"}
    BY <1>1, <2>1, <2>4 DEF Priced
  <2> QED BY <2>2, <2>3, <2>4
<1> QED BY <1>1, <1>2, <1>3, <1>4, <1>5, KeptUsage

(* The batches that change the usage rows: the writer owns the session then, *)
(* which is not ready, and no other writer expects anything of them.         *)
LEMMA PricingStep ==
  ASSUME TypeInv, FenceInv, UsageInv, NEW w \in Writers, NEW q \in WriterState,
         writer' = [writer EXCEPT ![w] = q], Keeps(q, writer[w]), files' = files,
         uploads' = uploads, session' = session, gen' = gen,
         Owns(writer[w], gen), writer[w].pc \in Claiming \cup Claimed,
         uploads < 2 /\ Stands(writer[w], files) => Priced(q, usage')
  PROVE  UsageInv'
<1>1. writer'[w] = q /\ \A v \in Writers \ {w} : writer'[v] = writer[v]
  BY DEF TypeInv, WritersOK
<1>2. session.state # "ready"
  BY DEF UsageInv, OwnerAtWork
<1>3. OwnerAtWork'
  BY <1>2 DEF OwnerAtWork
<1>4. ASSUME uploads < 2 PROVE SourcesStand'
  <2>1. SourcesStand
    BY <1>4 DEF UsageInv
  <2>2. BytesStand'
    BY <1>1, <2>1 DEF SourcesStand, BytesStand, Running, Keeps, Stands
  <2>3. OwnerPrices'
    <3>1. ASSUME NEW v \in Writers, Owns(writer'[v], gen), Stands(writer'[v], files)
          PROVE  Priced(writer'[v], usage')
      <4>1. v = w
        BY <1>1, <3>1, OneOwner
      <4>2. Stands(writer[w], files)
        BY <1>1, <3>1, <4>1 DEF Stands, Keeps, Owns
      <4> QED BY <1>1, <1>4, <4>1, <4>2
    <3> QED BY <3>1 DEF OwnerPrices
  <2>4. MarksItsOwn' /\ ReadyIsPriced' /\ ParsedIsIndexed'
    BY <1>2 DEF MarksItsOwn, Marks, ReadyIsPriced, ParsedIsIndexed
  <2> QED BY <2>2, <2>3, <2>4 DEF SourcesStand
<1> QED BY <1>3, <1>4 DEF UsageInv

LEMMA GuardIsOwner ==
  ASSUME TypeInv, FenceInv, NEW w \in Writers, Guard(w),
         writer[w].pc \notin {"idle", "fail", "failSession"}
  PROVE  Owns(writer[w], gen) /\ Stands(writer[w], files)
<1>1. writer[w].gen # 0
  BY DEF FenceInv, GenerationsDiffer, Numbered
<1> QED BY <1>1 DEF Guard, SourceCurrent, Job, Rev, Owns, Stands

LEMMA KeepsGoto ==
  ASSUME TypeInv, NEW w \in Writers, Running(w), NEW pc \in Phase \ {"mark"}, Goto(w, pc)
  PROVE  \E q \in WriterState :
           /\ writer' = [writer EXCEPT ![w] = q] /\ q.pc = pc /\ Keeps(q, writer[w])
           /\ q.file = writer[w].file /\ q.rev = writer[w].rev /\ q.gen = writer[w].gen
           /\ q.usage = writer[w].usage
<1>1. PICK q \in WriterState :
           /\ writer' = [writer EXCEPT ![w] = q] /\ q.pc = pc
           /\ q.file = writer[w].file /\ q.rev = writer[w].rev /\ q.gen = writer[w].gen
           /\ q.version = writer[w].version /\ q.kept = writer[w].kept
           /\ q.lastId = writer[w].lastId /\ q.usage = writer[w].usage
           /\ q.first = writer[w].first /\ q.sent = writer[w].sent
  BY GotoIs
<1>2. Keeps(q, writer[w])
  BY <1>1 DEF Keeps, Running
<1> QED BY <1>1, <1>2

LEMMA FilesStay == files' = files => FilesKeep
  BY DEF FilesKeep

(* The turns that are gone are deleted, and nothing else. *)
LEMMA ClearUsageUsage ==
  ASSUME TypeInv, FenceInv, UsageInv, NEW w \in Writers, ClearUsage(w)
  PROVE  UsageInv'
<1>1. /\ writer[w].pc = "clearUsage" /\ Running(w) /\ Goto(w, "clear") /\ "clear" \in Phase \ {"mark"}
      /\ UNCHANGED <<files, session, gen, uploads>>
      /\ writer[w].pc \in Claimed /\ writer[w].usage \in UsageRows
  BY WriterIs DEF ClearUsage, Running, budget, Phase, Writing, Claimed, Filling
<1>2. PICK q \in WriterState :
           /\ writer' = [writer EXCEPT ![w] = q] /\ q.pc = "clear" /\ Keeps(q, writer[w])
           /\ q.file = writer[w].file /\ q.rev = writer[w].rev /\ q.gen = writer[w].gen
           /\ q.usage = writer[w].usage
  BY <1>1, KeepsGoto
<1>3. CASE ~Guard(w)
  <2>1. usage' = usage
    BY <1>3 DEF ClearUsage
  <2>2. Owns(q, gen) => Owns(writer[w], gen)
    BY <1>1, <1>2 DEF Owns, Running
  <2>3. Owns(q, gen) => ~Stands(q, files)
    BY <1>2, <1>3, <2>2 DEF Guard, SourceCurrent, Job, Rev, Stands, Owns
  <2>4. Subsides /\ FilesKeep
    BY <1>1, FilesStay DEF Subsides
  <2>5. Owns(q, gen) => session.state # "ready"
    BY <1>1, <2>2 DEF UsageInv, OwnerAtWork
  <2> QED BY <1>1, <1>2, <2>1, <2>3, <2>4, <2>5, KeptUsage
<1>4. CASE Guard(w)
  <2>1. Owns(writer[w], gen) /\ Stands(writer[w], files)
    BY <1>1, <1>4, GuardIsOwner
  <2>2. ASSUME uploads < 2 PROVE Priced(q, usage')
    <3>1. writer[w].usage = IF writer[w].file \in Archives THEN NoUsage ELSE usage
      BY <1>1, <2>1, <2>2 DEF UsageInv, SourcesStand, OwnerPrices, Priced
    <3>2. CASE writer[w].file \in Archives
      <4>1. usage' = NoUsage /\ q.usage = NoUsage
        BY <1>2, <1>4, <3>1, <3>2 DEF ClearUsage, Job
      <4>2. NoUsage = [t \in {} |-> NoUsage[t]] /\ DOMAIN NoUsage = {}
        BY EmptyUsage, UsageIsFunction
      <4>3. Narrowed(NoUsage, q.rev) = [t \in {} |-> NoUsage[t]]
        BY <4>2 DEF Narrowed
      <4> QED BY <1>2, <4>1, <4>2, <4>3 DEF Priced
    <3>3. CASE writer[w].file \notin Archives
      <4>1. q.usage = usage /\ usage' = [t \in DOMAIN usage \ (DOMAIN usage \ DOMAIN UsageOf[Rev(w)]) |-> usage[t]]
        BY <1>2, <1>4, <3>1, <3>3 DEF ClearUsage, Job
      <4>2. DOMAIN usage \ (DOMAIN usage \ DOMAIN UsageOf[Rev(w)]) = DOMAIN usage \cap DOMAIN UsageOf[Rev(w)]
        OBVIOUS
      <4>3. usage' = Narrowed(q.usage, q.rev)
        BY <1>2, <4>1, <4>2 DEF Narrowed, Rev
      <4> QED BY <1>2, <4>3 DEF Priced
    <3> QED BY <3>2, <3>3
  <2> QED BY <1>1, <1>2, <2>1, <2>2, PricingStep
<1> QED BY <1>3, <1>4

(* Then the rows that differ are replaced, and the others are those parsed. *)
LEMMA InsertUsageUsage ==
  ASSUME TypeInv, FenceInv, UsageInv, NEW w \in Writers, InsertUsage(w)
  PROVE  UsageInv'
<1>1. /\ writer[w].pc = "usage" /\ Running(w) /\ Goto(w, "check") /\ "check" \in Phase \ {"mark"}
      /\ UNCHANGED <<files, session, gen, uploads>>
      /\ writer[w].pc \in Claimed /\ writer[w].usage \in UsageRows
      /\ writer[w].rev \in Revisions
  BY WriterIs DEF InsertUsage, Running, budget, Phase, Writing, Claimed, Filling
<1>2. PICK q \in WriterState :
           /\ writer' = [writer EXCEPT ![w] = q] /\ q.pc = "check" /\ Keeps(q, writer[w])
           /\ q.file = writer[w].file /\ q.rev = writer[w].rev /\ q.gen = writer[w].gen
           /\ q.usage = writer[w].usage
  BY <1>1, KeepsGoto
<1>3. CASE ~Guard(w)
  <2>1. usage' = usage
    BY <1>3 DEF InsertUsage
  <2>2. Owns(q, gen) => Owns(writer[w], gen)
    BY <1>1, <1>2 DEF Owns, Running
  <2>3. Owns(q, gen) => ~Stands(q, files)
    BY <1>2, <1>3, <2>2 DEF Guard, SourceCurrent, Job, Rev, Stands, Owns
  <2>4. Subsides /\ FilesKeep
    BY <1>1, FilesStay DEF Subsides
  <2>5. Owns(q, gen) => session.state # "ready"
    BY <1>1, <2>2 DEF UsageInv, OwnerAtWork
  <2> QED BY <1>1, <1>2, <2>1, <2>3, <2>4, <2>5, KeptUsage
<1>4. CASE Guard(w)
  <2>1. Owns(writer[w], gen) /\ Stands(writer[w], files)
    BY <1>1, <1>4, GuardIsOwner
  <2>2. ASSUME uploads < 2 PROVE Priced(q, usage')
    <3> DEFINE r == writer[w].rev
               p == writer[w].usage
    <3>1. usage = Narrowed(p, r)
      BY <1>1, <2>1, <2>2 DEF UsageInv, SourcesStand, OwnerPrices, Priced
    <3>2. DOMAIN usage = DOMAIN p \cap DOMAIN UsageOf[r] /\ \A t \in DOMAIN usage : usage[t] = p[t]
      BY <3>1 DEF Narrowed
    <3>3. UsageOf[r] = [t \in DOMAIN UsageOf[r] |-> UsageOf[r][t]]
      BY <1>1, ParsedUsage, UsageIsFunction
    <3>4. Changed(w) = {t \in DOMAIN UsageOf[r] : ~(t \in DOMAIN p /\ p[t] = UsageOf[r][t])}
      BY DEF Changed, Rev
    <3>5. usage' = [t \in DOMAIN usage \cup Changed(w) |->
                      IF t \in Changed(w) THEN UsageOf[r][t] ELSE usage[t]]
      BY <1>4 DEF InsertUsage, Rev
    <3> HIDE DEF r, p
    <3>6. DOMAIN usage \cup Changed(w) = DOMAIN UsageOf[r]
      BY <3>2, <3>4
    <3>7. \A t \in DOMAIN UsageOf[r] :
            (IF t \in Changed(w) THEN UsageOf[r][t] ELSE usage[t]) = UsageOf[r][t]
      BY <3>2, <3>4
    <3>8. usage' = UsageOf[r]
      BY <3>3, <3>5, <3>6, <3>7
    <3> QED BY <1>2, <3>8 DEF Priced, r
  <2> QED BY <1>1, <1>2, <2>1, <2>2, PricingStep
<1> QED BY <1>3, <1>4

(* Steps of no writer that upload nothing. *)
LEMMA OutsideUsage ==
  ASSUME TypeInv, UsageInv, writer' = writer, files' = files, uploads' = uploads, usage' = usage,
         gen' \in {gen, 0}, Subsides
  PROVE  UsageInv'
<1>1. \A v \in Writers : Owns(writer[v], gen') => Owns(writer[v], gen)
  BY DEF Owns
<1>2. OwnerAtWork'
  BY <1>1 DEF UsageInv, OwnerAtWork, Subsides
<1>3. ASSUME uploads < 2 PROVE SourcesStand'
  <2>1. BytesStand /\ OwnerPrices /\ MarksItsOwn /\ ReadyIsPriced /\ ParsedIsIndexed
    BY <1>3 DEF UsageInv, SourcesStand
  <2>2. BytesStand' /\ OwnerPrices'
    BY <1>1, <2>1 DEF BytesStand, OwnerPrices, Running
  <2>3. MarksItsOwn' /\ ReadyIsPriced' /\ ParsedIsIndexed'
    BY <2>1 DEF MarksItsOwn, Marks, ReadyIsPriced, ParsedIsIndexed, Subsides
  <2> QED BY <2>2, <2>3 DEF SourcesStand
<1> QED BY <1>2, <1>3 DEF UsageInv

(* An upload takes its file's bytes from every writer that runs, for good:  *)
(* they come back with a second one only.                                   *)
LEMMA UploadUsage ==
  ASSUME TypeInv, UsageInv, NEW f \in Files, Upload(f)
  PROVE  UsageInv'
<1>1. PICK r \in Revisions \ {files[f].rev} : files' = [files EXCEPT ![f] = [rev |-> r, state |-> "pending"]]
  BY DEF Upload
<1>2. /\ UNCHANGED <<session, gen, usage, writer>> /\ uploads' = uploads + 1 /\ uploads \in Nat
      /\ files \in [Files -> File]
  BY DEF Upload, TypeInv, MainOK
<1>3. /\ files'[f].rev = r /\ files'[f].state = "pending" /\ r # files[f].rev
      /\ \A g \in Files \ {f} : files'[g] = files[g]
  BY <1>1, <1>2
<1>4. OwnerAtWork'
  BY <1>2 DEF UsageInv, OwnerAtWork
<1>5. ASSUME uploads' < 2 PROVE SourcesStand'
  <2>1. uploads = 0 /\ uploads < 2 /\ uploads' # 0
    BY <1>2, <1>5
  <2>2. BytesStand /\ OwnerPrices /\ MarksItsOwn /\ ReadyIsPriced /\ ParsedIsIndexed
    BY <2>1 DEF UsageInv, SourcesStand
  <2>3. BytesStand'
    BY <2>1 DEF BytesStand
  <2>4. ASSUME NEW v \in Writers, Running(v), Stands(writer[v], files') PROVE Stands(writer[v], files)
    BY <2>1, <2>2, <2>4 DEF BytesStand
  <2>5. OwnerPrices'
    BY <1>2, <2>2, <2>4 DEF OwnerPrices, Owns, Running
  <2>6. MarksItsOwn'
    BY <1>2, <2>2, <2>4 DEF MarksItsOwn, Marks, Running
  <2>7. ReadyIsPriced'
    BY <1>2, <2>2 DEF ReadyIsPriced
  <2>8. ParsedIsIndexed'
    BY <1>2, <1>3, <2>2 DEF ParsedIsIndexed
  <2> QED BY <2>3, <2>5, <2>6, <2>7, <2>8 DEF SourcesStand
<1> QED BY <1>4, <1>5 DEF UsageInv

LEMMA StartUsage ==
  ASSUME TypeInv, FenceInv, UsageInv, NEW w \in Writers, NEW f \in Files, Start(w, f)
  PROVE  UsageInv'
<1>1. PICK q \in WriterState :
           /\ writer' = [writer EXCEPT ![w] = q]
           /\ q.pc = IF BlocksOf[files[f].rev] # <<>> THEN "invalidate"
                     ELSE IF f \in Archives THEN "clearStart" ELSE "fail"
           /\ q.file = f /\ q.rev = files[f].rev /\ q.rev \in Revisions /\ q.gen = writes + 1
           /\ q.version = 0 /\ q.kept = 0 /\ q.sent = 0
  BY StartIs
<1>2. UNCHANGED <<files, session, gen, usage, uploads>>
  BY DEF Start, mainVars, budget
<1>3. writer'[w] = q /\ \A v \in Writers \ {w} : writer'[v] = writer[v]
  BY <1>1 DEF TypeInv, WritersOK
<1>4. ~Owns(q, gen) /\ Stands(q, files) /\ q.pc # "mark"
  BY <1>1 DEF Owns, Stands, FenceInv, GenerationsDiffer, TypeInv, MainOK
<1>5. OwnerAtWork'
  <2>1. \A v \in Writers : Owns(writer'[v], gen) => writer'[v] = writer[v]
    BY <1>3, <1>4
  <2> QED BY <1>2, <2>1 DEF UsageInv, OwnerAtWork
<1>6. ASSUME uploads < 2 PROVE SourcesStand'
  <2>1. BytesStand /\ OwnerPrices /\ MarksItsOwn /\ ReadyIsPriced /\ ParsedIsIndexed
    BY <1>6 DEF UsageInv, SourcesStand
  <2>2. ASSUME uploads = 0, NEW v \in Writers, writer'[v].pc # "idle" PROVE Stands(writer'[v], files)
    BY <1>3, <1>4, <2>1, <2>2 DEF BytesStand, Running
  <2>3. BytesStand'
    BY <1>2, <2>2 DEF BytesStand, Running
  <2>4. \A v \in Writers : Owns(writer'[v], gen) => writer'[v] = writer[v]
    BY <1>3, <1>4
  <2>5. OwnerPrices'
    BY <1>2, <2>1, <2>4 DEF OwnerPrices
  <2>6. \A v \in Writers : Marks(writer'[v], files, session)
    BY <1>3, <1>4, <2>1 DEF MarksItsOwn, Marks
  <2>7. MarksItsOwn' /\ ReadyIsPriced' /\ ParsedIsIndexed'
    BY <1>2, <2>1, <2>6 DEF MarksItsOwn, ReadyIsPriced, ParsedIsIndexed
  <2> QED BY <2>3, <2>5, <2>7 DEF SourcesStand
<1> QED BY <1>2, <1>5, <1>6 DEF UsageInv

LEMMA CaptureUsage ==
  ASSUME TypeInv, FenceInv, UsageInv, NEW w \in Writers, Running(w), NEW pc \in Claiming,
         Capture(w, pc), writer[w].gen # 0, gen' = writer[w].gen, session' \in Session,
         session'.state # "ready", files' = files, usage' = usage, uploads' = uploads
  PROVE  UsageInv'
<1>1. PICK q \in WriterState :
           /\ writer' = [writer EXCEPT ![w] = q] /\ q.pc = pc
           /\ q.file = writer[w].file /\ q.rev = writer[w].rev /\ q.gen = writer[w].gen
           /\ q.version = session'.version /\ q.kept = writer[w].kept
           /\ q.lastId = writer[w].lastId /\ q.usage = writer[w].usage
           /\ q.first = writer[w].first /\ q.sent = writer[w].sent
  BY CaptureIs
<1>2. Keeps(q, writer[w]) /\ Priced(q, usage)
  BY <1>1 DEF Keeps, Running, Priced, Claiming
<1>3. ASSUME NEW v \in Writers \ {w} PROVE ~Owns(writer[v], gen')
  BY DEF FenceInv, GenerationsDiffer, Owns, Running
<1>4. FilesKeep /\ Subsides
  BY FilesStay DEF Subsides
<1> QED BY <1>1, <1>2, <1>3, <1>4, KeptUsage

LEMMA CapturingUsage ==
  ASSUME TypeInv, FenceInv, UsageInv, NEW w \in Writers, Invalidate(w) \/ ClearStart(w)
  PROVE  UsageInv'
<1>1. /\ Running(w) /\ UNCHANGED <<files, usage, uploads>> /\ writer[w].gen # 0
  BY DEF Invalidate, ClearStart, Running, budget, FenceInv, GenerationsDiffer, Numbered
<1>2. CASE Invalidate(w) /\ SourceCurrent(w)
  <2>1. Capture(w, "claim") /\ gen' = writer[w].gen
    BY <1>2 DEF Invalidate
  <2>2. session' \in Session /\ session'.state = "parsing"
    BY <1>2, InvalidateSession
  <2> QED BY <1>1, <2>1, <2>2, CaptureUsage DEF Claiming
<1>3. CASE Invalidate(w) /\ ~SourceCurrent(w)
  <2>1. Stop(w) /\ gen' = gen
    BY <1>3 DEF Invalidate
  <2>2. Subsides
    <3>1. session' = session \/ session'.state = "parsing"
      BY <1>3, InvalidateSession
    <3> QED BY <3>1 DEF Subsides
  <2> QED BY <1>1, <2>1, <2>2, FilesStay, StopUsage
<1>4. CASE ClearStart(w) /\ SourceCurrent(w) /\ session.file = Job(w) /\ session.state # "absent"
  <2>1. /\ session' \in Session /\ session'.state # "ready"
        /\ gen' = writer[w].gen /\ Capture(w, "clearClaim")
    BY <1>4, ClearStartSession
  <2> QED BY <1>1, <2>1, CaptureUsage DEF Claiming
<1>5. CASE ClearStart(w) /\ ~(SourceCurrent(w) /\ session.file = Job(w) /\ session.state # "absent")
  <2>1. Stop(w) /\ UNCHANGED <<session, gen>>
    BY <1>5 DEF ClearStart
  <2>2. Subsides
    BY <2>1 DEF Subsides
  <2> QED BY <1>1, <2>1, <2>2, FilesStay, StopUsage
<1> QED BY <1>2, <1>3, <1>4, <1>5

(* The steps on the shard leave the main database as it is. *)
LEMMA ShardStepUsage ==
  ASSUME TypeInv, FenceInv, UsageInv, NEW w \in Writers,
         Claim(w) \/ Clear(w) \/ ClearBlocks(w) \/ CheckFence(w) \/ Throw(w)
  PROVE  UsageInv'
<1>1. Running(w) /\ UNCHANGED <<files, session, gen, usage, uploads>> /\ FilesKeep /\ Subsides
  BY FilesStay DEF Claim, Clear, ClearBlocks, CheckFence, Throw, Running, mainVars, budget, Subsides
<1>2. CASE Stop(w)
  BY <1>1, <1>2, StopUsage
<1>3. ASSUME NEW pc \in {"probe", "clearBlocks", "clearCheck", "clearCommit", "revert", "fail"},
             Goto(w, pc), pc \in Claimed => writer[w].pc \in Claiming \cup Claimed
      PROVE  UsageInv'
  <2>1. pc \in Phase \ {"mark"} /\ pc \notin Filling /\ pc \notin Claiming
    BY DEF Phase, Writing, Clearing, Settling, Filling, Claiming
  <2> QED BY <1>1, <1>3, <2>1, GotoUsage
<1>4. CASE Claim(w)
  <2>1. /\ writer[w].pc \in Claiming
        /\ Stop(w) \/ Goto(w, "probe") \/ Goto(w, "clearBlocks")
    BY <1>4 DEF Claim, Claiming
  <2> QED BY <1>2, <1>3, <2>1
<1>5. CASE Clear(w)
  <2>1. /\ writer[w].pc = "clear"
        /\ Stop(w) \/ Goto(w, "usage") \/ Goto(w, "reserve")
    BY <1>5 DEF Clear
  <2>2. /\ writer[w].pc \in Claimed /\ "usage" \in Phase \ {"mark"} /\ "reserve" \in Phase \ {"mark"}
    BY <2>1 DEF Claimed, Filling, Phase, Writing
  <2>3. CASE Goto(w, "usage")
    BY <1>1, <2>1, <2>2, <2>3, GotoUsage
  <2>4. CASE Goto(w, "reserve")
    BY <1>1, <2>1, <2>2, <2>4, GotoUsage
  <2> QED BY <1>2, <2>1, <2>3, <2>4
<1>6. CASE ClearBlocks(w)
  <2>1. writer[w].pc \in Claimed /\ (Stop(w) \/ Goto(w, "clearCheck"))
    BY <1>6 DEF ClearBlocks, Claimed
  <2> QED BY <1>2, <1>3, <2>1
<1>7. CASE CheckFence(w)
  <2>1. \/ Stop(w)
        \/ writer[w].pc = "check" /\ Goto(w, "finalize")
        \/ writer[w].pc = "clearCheck" /\ Goto(w, "clearCommit")
    BY <1>7 DEF CheckFence
  <2>2. CASE writer[w].pc = "check" /\ Goto(w, "finalize")
    <3>1. writer[w].pc \in Claimed /\ "finalize" \in Phase \ {"mark"}
      BY <2>2 DEF Claimed, Filling, Phase, Writing
    <3> QED BY <1>1, <2>2, <3>1, GotoUsage
  <2>3. CASE writer[w].pc = "clearCheck" /\ Goto(w, "clearCommit")
    <3>1. writer[w].pc \in Claimed
      BY <2>3 DEF Claimed
    <3> QED BY <1>3, <2>3, <3>1
  <2> QED BY <1>2, <2>1, <2>2, <2>3
<1>8. CASE Throw(w)
  <2>1. Stop(w) \/ Goto(w, "revert") \/ Goto(w, "fail")
    BY <1>8 DEF Throw
  <2>2. "revert" \notin Claimed /\ "fail" \notin Claimed
    BY DEF Claimed, Filling
  <2> QED BY <1>2, <1>3, <2>1, <2>2
<1> QED BY <1>4, <1>5, <1>6, <1>7, <1>8

(* The steps that also fill in a field of the writer's state. *)
LEMMA FillUsage ==
  ASSUME TypeInv, FenceInv, UsageInv, NEW w \in Writers,
         Probe(w) \/ ReserveIds(w) \/ Insert(w) \/ Missing(w)
  PROVE  UsageInv'
<1>1. Running(w) /\ UNCHANGED <<files, session, gen, usage, uploads>> /\ FilesKeep /\ Subsides
  BY FilesStay DEF Probe, ReserveIds, Insert, Missing, Running, mainVars, budget, Subsides
<1>2. ASSUME NEW q \in WriterState, writer' = [writer EXCEPT ![w] = q],
             q.file = writer[w].file, q.rev = writer[w].rev, q.gen \in {writer[w].gen, 0},
             q.pc # "mark", q.pc \in Claiming \cup Claimed => writer[w].pc \in Claiming \cup Claimed,
             Owns(writer[w], gen) /\ Priced(writer[w], usage) => Priced(q, usage)
      PROVE  UsageInv'
  <2>1. Keeps(q, writer[w]) /\ (Owns(q, gen) => Owns(writer[w], gen))
    BY <1>1, <1>2 DEF Keeps, Owns, Running
  <2>2. Owns(q, gen') /\ q.pc \in Claiming \cup Claimed => session'.state # "ready"
    BY <1>1, <1>2, <2>1 DEF UsageInv, OwnerAtWork
  <2>3. ASSUME uploads < 2, Owns(q, gen'), Stands(q, files) PROVE Priced(q, usage)
    <3>1. Stands(writer[w], files) /\ Owns(writer[w], gen)
      BY <1>1, <1>2, <2>1, <2>3 DEF Stands
    <3> QED BY <1>2, <2>3, <3>1 DEF UsageInv, SourcesStand, OwnerPrices
  <2>4. \A v \in Writers \ {w} : Owns(writer[v], gen') => Owns(writer[v], gen)
    BY <1>1
  <2> QED BY <1>1, <1>2, <2>1, <2>2, <2>3, <2>4, KeptUsage
<1>3. CASE Probe(w)
  <2>1. PICK n \in 0..Len(BlocksOf[writer[w].rev]), lastId \in Nat, turns \in UsageRows :
              /\ Retain(w, n, lastId, turns)
              /\ turns = IF writer[w].file \in Archives THEN NoUsage ELSE usage
    BY <1>3, ProbeIs
  <2>2. n \in Nat
    BY <1>3, ProbeIs, Distinct
  <2>3. PICK q \in WriterState :
           /\ writer' = [writer EXCEPT ![w] = q] /\ q.pc = "clearUsage"
           /\ q.file = writer[w].file /\ q.rev = writer[w].rev /\ q.gen = writer[w].gen
           /\ q.version = writer[w].version /\ q.kept = n
           /\ q.lastId = lastId /\ q.usage = turns
           /\ q.first = writer[w].first /\ q.sent = writer[w].sent
    BY <1>1, <2>1, <2>2, RetainIs
  <2>4. Priced(q, usage)
    BY <2>1, <2>3 DEF Priced
  <2>5. writer[w].pc \in Claimed
    BY <1>3 DEF Probe, Claimed
  <2> QED BY <1>2, <2>3, <2>4, <2>5
<1>4. CASE ReserveIds(w)
  <2>1. PICK q \in WriterState :
           /\ writer' = [writer EXCEPT ![w] = q] /\ q.pc = "insert"
           /\ q.file = writer[w].file /\ q.rev = writer[w].rev /\ q.gen = writer[w].gen
           /\ q.version = writer[w].version /\ q.kept = writer[w].kept
           /\ q.lastId = writer[w].lastId /\ q.usage = writer[w].usage
           /\ q.first = nextId /\ q.sent = writer[w].sent
    BY <1>4, ReserveIs
  <2>2. writer[w].pc = "reserve" /\ writer[w].pc \in Claimed
    BY <1>4 DEF ReserveIds, Claimed, Filling
  <2>3. Priced(writer[w], usage) => Priced(q, usage)
    BY <2>1, <2>2 DEF Priced
  <2> QED BY <1>2, <2>1, <2>2, <2>3
<1>5. CASE Insert(w) /\ HoldsFence(w)
  <2>1. PICK q \in WriterState :
           /\ writer' = [writer EXCEPT ![w] = q]
           /\ q.pc = IF Upto(w) = Remaining(w) THEN "usage" ELSE "insert"
           /\ q.file = writer[w].file /\ q.rev = writer[w].rev /\ q.gen = writer[w].gen
           /\ q.version = writer[w].version /\ q.kept = writer[w].kept
           /\ q.lastId = writer[w].lastId /\ q.usage = writer[w].usage
           /\ q.first = writer[w].first /\ q.sent = Upto(w)
    BY <1>5, InsertIs
  <2>2. writer[w].pc = "insert" /\ writer[w].pc \in Claimed
    BY <1>5 DEF Insert, Claimed, Filling
  <2>3. Priced(writer[w], usage) => Priced(q, usage)
    BY <2>1, <2>2 DEF Priced
  <2>4. q.pc # "mark"
    BY <2>1
  <2> QED BY <1>2, <2>1, <2>2, <2>3, <2>4
<1>6. CASE Insert(w) /\ ~HoldsFence(w)
  <2>1. Stop(w)
    BY <1>6 DEF Insert
  <2> QED BY <1>1, <2>1, StopUsage
<1>7. CASE Missing(w)
  <2>1. PICK q \in WriterState :
           /\ writer' = [writer EXCEPT ![w] = q] /\ q.pc = "fail"
           /\ q.file = writer[w].file /\ q.rev = writer[w].rev /\ q.gen = 0
           /\ q.version = writer[w].version /\ q.kept = writer[w].kept
           /\ q.lastId = writer[w].lastId /\ q.usage = writer[w].usage
           /\ q.first = writer[w].first /\ q.sent = writer[w].sent
    BY <1>7, MissingIs
  <2>2. Priced(q, usage) /\ q.pc \notin Claiming \cup Claimed
    BY <2>1 DEF Priced, Claiming, Claimed, Filling
  <2> QED BY <1>2, <2>1, <2>2
<1> QED BY <1>3, <1>4, <1>5, <1>6, <1>7

(* The file's row is typed, and a new state leaves its bytes.               *)
LEMMA StateSet ==
  ASSUME TypeInv, NEW f \in Files, NEW s, files' = [files EXCEPT ![f].state = s]
  PROVE  /\ \A g \in Files : files'[g].rev = files[g].rev
         /\ files'[f].state = s /\ \A g \in Files \ {f} : files'[g] = files[g]
  BY DEF TypeInv, MainOK, File

(* A file is marked parsed when the session that is ready is of its bytes.  *)
LEMMA MarkUsage ==
  ASSUME TypeInv, FenceInv, UsageInv, NEW w \in Writers, Mark(w)
  PROVE  UsageInv'
<1>1. /\ writer[w].pc = "mark" /\ Running(w) /\ UNCHANGED <<session, gen, usage, uploads>>
      /\ Subsides /\ Job(w) \in Files
  BY WriterIs DEF Mark, Running, budget, Subsides, Job
<1>2. CASE ~Markable(w)
  <2>1. Goto(w, "revert") /\ files' = files
    BY <1>2 DEF Mark
  <2>2. "revert" \in Phase \ {"mark"} /\ "revert" \notin Filling \cup Claiming \cup Claimed
    BY DEF Phase, Settling, Filling, Claiming, Claimed
  <2> QED BY <1>1, <2>1, <2>2, FilesStay, GotoUsage
<1>3. CASE Markable(w)
  <2>1. /\ files' = [files EXCEPT ![Job(w)].state = "parsed"] /\ writer' = [writer EXCEPT ![w] = Idle]
        /\ SourceCurrent(w)
    BY <1>3 DEF Mark, Markable, Stop
  <2>2. \A g \in Files : files'[g].rev = files[g].rev /\ (g # Job(w) => files'[g] = files[g])
    BY <1>1, <2>1, StateSet
  <2>3. writer'[w] = Idle /\ \A v \in Writers \ {w} : writer'[v] = writer[v]
    BY <2>1 DEF TypeInv, WritersOK
  <2>4. ~Owns(Idle, gen) /\ Idle.pc = "idle"
    BY DEF Owns, Idle
  <2>5. OwnerAtWork'
    <3>1. \A v \in Writers : Owns(writer'[v], gen) => writer'[v] = writer[v]
      BY <2>3, <2>4
    <3> QED BY <1>1, <3>1 DEF UsageInv, OwnerAtWork
  <2>6. ASSUME uploads < 2 PROVE SourcesStand'
    <3>1. BytesStand /\ OwnerPrices /\ MarksItsOwn /\ ReadyIsPriced /\ ParsedIsIndexed
      BY <2>6 DEF UsageInv, SourcesStand
    <3>2. ASSUME NEW v \in Writers, writer'[v].pc # "idle"
          PROVE  /\ writer'[v] = writer[v] /\ Running(v)
                 /\ Stands(writer'[v], files') <=> Stands(writer[v], files)
      <4>1. writer'[v] = writer[v] /\ Running(v)
        BY <2>3, <2>4, <3>2 DEF Running
      <4> QED BY <2>2, <4>1, WriterIs DEF Stands, Running
    <3>3. BytesStand'
      BY <1>1, <3>1, <3>2 DEF BytesStand, Running
    <3>4. OwnerPrices'
      BY <1>1, <3>1, <3>2 DEF OwnerPrices, Owns
    <3>5. MarksItsOwn'
      BY <1>1, <3>1, <3>2 DEF MarksItsOwn, Marks
    <3>6. ReadyIsPriced'
      BY <1>1, <3>1 DEF ReadyIsPriced
    <3>7. ASSUME NEW f \in Files, files'[f].state = "parsed", session.file = f, session.state = "ready"
          PROVE  session.rev = files'[f].rev
      <4>1. CASE f # Job(w)
        BY <2>2, <3>1, <3>7, <4>1 DEF ParsedIsIndexed
      <4>2. CASE f = Job(w)
        BY <1>1, <2>1, <2>2, <3>1, <3>7, <4>2 DEF MarksItsOwn, Marks, Stands, SourceCurrent, Job, Rev
      <4> QED BY <4>1, <4>2
    <3>8. ParsedIsIndexed'
      BY <1>1, <3>7 DEF ParsedIsIndexed
    <3> QED BY <3>3, <3>4, <3>5, <3>6, <3>8 DEF SourcesStand
  <2> QED BY <1>1, <2>5, <2>6 DEF UsageInv
<1> QED BY <1>2, <1>3

LEMMA FinalizeUsage ==
  ASSUME TypeInv, FenceInv, UsageInv, NEW w \in Writers, Finalize(w)
  PROVE  UsageInv'
<1>1. /\ writer[w].pc = "finalize" /\ Running(w) /\ UNCHANGED <<files, gen, usage, uploads>>
      /\ writer[w].file \in Files
  BY WriterIs DEF Finalize, Running, budget
<1>2. CASE ~Guard(w)
  <2>1. Stop(w) /\ session' = session
    BY <1>2 DEF Finalize
  <2>2. Subsides
    BY <2>1 DEF Subsides
  <2> QED BY <1>1, <2>1, <2>2, FilesStay, StopUsage
<1>3. CASE Guard(w)
  <2>1. /\ session'.state = "ready" /\ session'.file = writer[w].file
        /\ session'.rev = writer[w].rev /\ Goto(w, "mark")
    BY <1>3, FinalizeIs
  <2>2. PICK q \in WriterState :
           /\ writer' = [writer EXCEPT ![w] = q] /\ q.pc = "mark"
           /\ q.file = writer[w].file /\ q.rev = writer[w].rev /\ q.gen = writer[w].gen
           /\ q.version = writer[w].version /\ q.kept = writer[w].kept
           /\ q.lastId = writer[w].lastId /\ q.usage = writer[w].usage
           /\ q.first = writer[w].first /\ q.sent = writer[w].sent
    BY <1>1, <2>1, GotoIs DEF Phase, Settling
  <2>3. writer'[w] = q /\ \A v \in Writers \ {w} : writer'[v] = writer[v]
    BY <2>2 DEF TypeInv, WritersOK
  <2>4. Owns(writer[w], gen) /\ Stands(writer[w], files)
    BY <1>1, <1>3, GuardIsOwner
  <2>5. \A v \in Writers \ {w} : ~Owns(writer[v], gen)
    BY <2>4, OneOwner
  <2>6. OwnerAtWork'
    <3>1. q.pc \notin Claiming \cup Claimed
      BY <2>2 DEF Claiming, Claimed, Filling
    <3>2. \A v \in Writers : ~(Owns(writer'[v], gen) /\ writer'[v].pc \in Claiming \cup Claimed)
      BY <2>3, <2>5, <3>1
    <3> QED BY <1>1, <3>2 DEF OwnerAtWork
  <2>7. ASSUME uploads < 2 PROVE SourcesStand'
    <3>1. BytesStand /\ OwnerPrices /\ MarksItsOwn
      BY <2>7 DEF UsageInv, SourcesStand
    <3>2. BytesStand'
      BY <1>1, <2>2, <2>3, <3>1 DEF BytesStand, Running, Stands
    <3>3. OwnerPrices'
      <4>1. Priced(q, usage)
        BY <2>2 DEF Priced
      <4>2. \A v \in Writers : Owns(writer'[v], gen) => Priced(writer'[v], usage)
        BY <2>3, <2>5, <4>1
      <4> QED BY <1>1, <4>2 DEF OwnerPrices
    <3>4. usage = UsageOf[writer[w].rev]
      BY <1>1, <2>4, <3>1 DEF OwnerPrices, Priced
    <3>5. ReadyIsPriced'
      BY <1>1, <2>1, <3>4 DEF ReadyIsPriced
    <3>6. ParsedIsIndexed'
      BY <1>1, <2>1, <2>4 DEF ParsedIsIndexed, Stands
    <3>7. ASSUME NEW v \in Writers, Stands(writer'[v], files), session'.file = writer'[v].file
          PROVE  session'.rev = writer'[v].rev
      BY <2>1, <2>4, <3>7 DEF Stands
    <3>8. MarksItsOwn'
      BY <1>1, <3>7 DEF MarksItsOwn, Marks
    <3> QED BY <3>2, <3>3, <3>5, <3>6, <3>8 DEF SourcesStand
  <2> QED BY <1>1, <2>6, <2>7 DEF UsageInv
<1> QED BY <1>2, <1>3

LEMMA SetStateSubsides ==
  ASSUME TypeInv, NEW s \in {"parsing", "error"}, session' = SetState(s)
  PROVE  Subsides
<1>1. session \in Session /\ s \in {"absent", "parsing", "ready", "error"} /\ s # "ready"
  BY DEF TypeInv, MainOK
<1>2. session'.state = s
  BY <1>1, SetStateIs
<1> QED BY <1>1, <1>2 DEF Subsides

LEMMA SettlingUsage ==
  ASSUME TypeInv, FenceInv, UsageInv, NEW w \in Writers,
         Revert(w) \/ FailSession(w) \/ FailFile(w) \/ ClearCommit(w)
  PROVE  UsageInv'
<1>1. Running(w) /\ uploads' = uploads
  BY DEF Revert, FailSession, FailFile, ClearCommit, Running, budget
<1>2. CASE Revert(w)
  <2>1. /\ Stop(w) /\ UNCHANGED <<files, usage>>
        /\ (session' = SetState("parsing") /\ gen' = 0) \/ UNCHANGED <<session, gen>>
    BY <1>2 DEF Revert
  <2>2. Subsides /\ FilesKeep /\ gen' \in {gen, 0}
    BY <2>1, SetStateSubsides, FilesStay DEF Subsides
  <2> QED BY <1>1, <2>1, <2>2, StopUsage
<1>3. CASE FailSession(w)
  <2>1. /\ Stop(w) /\ UNCHANGED <<files, usage>>
        /\ (session' = SetState("error") /\ gen' = 0) \/ UNCHANGED <<session, gen>>
    BY <1>3 DEF FailSession
  <2>2. Subsides /\ FilesKeep /\ gen' \in {gen, 0}
    BY <2>1, SetStateSubsides, FilesStay DEF Subsides
  <2> QED BY <1>1, <2>1, <2>2, StopUsage
<1>4. CASE FailFile(w)
  <2>1. /\ UNCHANGED <<session, gen, usage>> /\ Job(w) \in Files
        /\ Stop(w) \/ Goto(w, "clearStart") \/ Goto(w, "failSession")
        /\ files' = files \/ files' = [files EXCEPT ![Job(w)].state = "error"]
    BY <1>1, <1>4, WriterIs DEF FailFile, Job, Running
  <2>2. Subsides
    BY <2>1 DEF Subsides
  <2>3. FilesKeep
    <3>1. CASE files' = files
      BY <3>1, FilesStay
    <3>2. CASE files' = [files EXCEPT ![Job(w)].state = "error"]
      BY <2>1, <3>2, StateSet DEF FilesKeep
    <3> QED BY <2>1, <3>1, <3>2
  <2>4. \A pc \in {"clearStart", "failSession"} :
          pc \in Phase \ {"mark"} /\ pc \notin Filling \cup Claiming \cup Claimed
    BY DEF Phase, Clearing, Settling, Filling, Claiming, Claimed
  <2>5. CASE Stop(w)
    BY <1>1, <2>1, <2>2, <2>3, <2>5, StopUsage
  <2>6. ASSUME NEW pc \in {"clearStart", "failSession"}, Goto(w, pc) PROVE UsageInv'
    BY <1>1, <2>1, <2>2, <2>3, <2>4, <2>6, GotoUsage
  <2> QED BY <2>1, <2>5, <2>6
<1>5. CASE ClearCommit(w)
  <2>1. /\ Stop(w) /\ files' = files /\ writer[w].pc = "clearCommit"
        /\ \/ UNCHANGED <<usage, gen, session>>
           \/ /\ Guard(w) /\ usage' = NoUsage /\ gen' = 0
              /\ session' = session \/ session'.state = "absent"
    BY <1>5, ClearCommitIs DEF ClearCommit
  <2>2. CASE UNCHANGED <<usage, gen, session>>
    <3>1. Subsides
      BY <2>2 DEF Subsides
    <3> QED BY <1>1, <2>1, <2>2, <3>1, FilesStay, StopUsage
  <2>3. CASE /\ Guard(w) /\ usage' = NoUsage /\ gen' = 0
             /\ session' = session \/ session'.state = "absent"
    <3>1. Owns(writer[w], gen)
      BY <2>1, <2>3, GuardIsOwner
    <3>2. session.state # "ready"
      BY <2>1, <3>1 DEF UsageInv, OwnerAtWork, Claimed
    <3>3. session'.state # "ready"
      BY <2>3, <3>2
    <3>4. writer'[w].pc = "idle" /\ \A v \in Writers \ {w} : writer'[v] = writer[v]
      BY <2>1, IdleIsTyped DEF Stop, TypeInv, WritersOK
    <3>5. \A v \in Writers : ~Owns(writer'[v], gen')
      BY <2>3 DEF Owns
    <3>6. OwnerAtWork'
      BY <3>5 DEF OwnerAtWork
    <3>7. ASSUME uploads < 2 PROVE SourcesStand'
      <4>1. BytesStand
        BY <3>7 DEF UsageInv, SourcesStand
      <4>2. BytesStand'
        BY <1>1, <2>1, <3>4, <4>1 DEF BytesStand, Running
      <4>3. OwnerPrices' /\ MarksItsOwn' /\ ReadyIsPriced' /\ ParsedIsIndexed'
        BY <3>3, <3>5 DEF OwnerPrices, MarksItsOwn, Marks, ReadyIsPriced, ParsedIsIndexed
      <4> QED BY <4>2, <4>3 DEF SourcesStand
    <3> QED BY <1>1, <3>6, <3>7 DEF UsageInv
  <2> QED BY <2>1, <2>2, <2>3
<1> QED BY <1>2, <1>3, <1>4, <1>5

LEMMA StepUsage ==
  ASSUME TypeInv, FenceInv, UsageInv, [Next]_vars
  PROVE  UsageInv'
<1>1. CASE UNCHANGED vars
  <2>1. UNCHANGED <<writer, files, session, gen, usage, uploads>>
    BY <1>1 DEF vars, mainVars, budget
  <2>2. Subsides
    BY <2>1 DEF Subsides
  <2> QED BY <2>1, <2>2, OutsideUsage
<1>2. ASSUME NEW f \in Files, Upload(f) PROVE UsageInv'
  BY <1>2, UploadUsage
<1>3. ASSUME NEW f \in Files, Flip(f) PROVE UsageInv'
  <2>1. session' = SetState("parsing") /\ gen' = 0 /\ UNCHANGED <<writer, files, usage, uploads>>
    BY <1>3 DEF Flip, budget
  <2>2. Subsides
    BY <2>1, SetStateSubsides
  <2> QED BY <2>1, <2>2, OutsideUsage
<1>4. CASE Touch
  <2>1. session' = [session EXCEPT !.version = @ + 1] /\ UNCHANGED <<gen, writer, files, usage, uploads>>
    BY <1>4 DEF Touch
  <2>2. Subsides
    BY <2>1 DEF Subsides, TypeInv, MainOK, Session
  <2> QED BY <2>1, <2>2, OutsideUsage
<1>5. ASSUME NEW w \in Writers, Step(w) PROVE UsageInv'
  BY <1>5, CapturingUsage, ShardStepUsage, FillUsage, ClearUsageUsage, InsertUsageUsage,
     FinalizeUsage, MarkUsage, SettlingUsage, Zenon DEF Step
<1>6. ASSUME NEW w \in Writers, NEW f \in Files, Start(w, f) PROVE UsageInv'
  BY <1>6, StartUsage
<1> QED BY <1>1, <1>2, <1>3, <1>4, <1>5, <1>6 DEF Next

LEMMA InitUsage == Init => UsageInv
<1> SUFFICES ASSUME Init PROVE UsageInv
  OBVIOUS
<1>1. gen = 0 /\ writer = [w \in Writers |-> Idle]
  BY DEF Init
<1>2. \A w \in Writers : ~Running(w) /\ ~Owns(writer[w], gen) /\ writer[w].pc # "mark"
  BY <1>1 DEF Running, Idle, Owns
<1>3. OwnerAtWork /\ BytesStand /\ OwnerPrices /\ MarksItsOwn
  BY <1>2 DEF OwnerAtWork, BytesStand, OwnerPrices, MarksItsOwn, Marks
<1>4. PICK f \in Files, r \in Revisions :
       \/ session = [state |-> "absent", file |-> NoFile, rev |-> NoRevision, version |-> 0]
       \/ /\ files = [g \in Files |-> IF g = f THEN [rev |-> r, state |-> "parsed"]
                                               ELSE [rev |-> NoRevision, state |-> "pending"]]
          /\ session = [state |-> "ready", file |-> f, rev |-> r, version |-> 1]
          /\ usage = UsageOf[r]
  BY DEF Init
<1>5. ReadyIsPriced /\ ParsedIsIndexed
  BY <1>4 DEF ReadyIsPriced, ParsedIsIndexed
<1> QED BY <1>3, <1>5 DEF UsageInv, SourcesStand

(* Unless bytes came back, a ready session is priced and totalled from its   *)
(* own usage rows, and a file marked parsed vouches for no other bytes.      *)
THEOREM IndexIsOfItsBytes == Spec => []IndexIsWhole
<1>1. Init => TypeInv /\ FenceInv /\ UsageInv
  BY InitTypes, InitFence, InitUsage
<1>2. TypeInv /\ FenceInv /\ UsageInv /\ [Next]_vars => TypeInv' /\ FenceInv' /\ UsageInv'
  BY StepTypes, StepFence, StepUsage
<1>3. UsageInv => IndexIsWhole
  BY DEF UsageInv, SourcesStand, ReadyIsPriced, ParsedIsIndexed, IndexIsWhole,
         ParsedDescribesIndex, UsageIsWhole, NeverReverted
<1> QED BY <1>1, <1>2, <1>3, PTL DEF Spec
=============================================================================
