------------------------------ MODULE Collector ------------------------------
(***************************************************************************)
(* The passes of a collector over the files of a machine: a run, a         *)
(* backfill and its dry run (collector/run.py, state.py, scanner.py,       *)
(* external_images.py).                                                    *)
(*                                                                         *)
(* Files change under a pass, between its stat, its read and its answer;   *)
(* a pass may die anywhere; a request may be refused or its answer lost.   *)
(* A content is a sequence of parts, some of them references to assets,    *)
(* and stands for its hash; how the hub stores one is in Multipart and     *)
(* Ingest.                                                                 *)
(***************************************************************************)
EXTENDS Integers, Sequences, FiniteSets, FiniteSetsExt, SequencesExt, Functions, TLC

CONSTANTS Owners,    \* the files of the stores, in the order of the walk
          Images,    \* assets that transcripts refer to
          Databases, \* files of Owners that are snapshotted
          Hubs,      \* identities: machine_id and hub_url
          MaxPut,    \* multipart_threshold_bytes
          MaxFile,   \* MULTIPART_MAX_FILE_BYTES
          Chunk,     \* BACKFILL_CHUNK
          Tours      \* bound: contents, passes, identities, faults

TourFaults == {"refuse", \* a request fails
               "lost",   \* it is carried out, its answer is lost
               "read",   \* a file cannot be read
               "locked", \* a database cannot be snapshotted
               "die"}    \* the process dies

Files == Range(Owners) \cup Images

Prefix(content, n) == SubSeq(content, 1, IF n < Len(content) THEN n ELSE Len(content))

Modes == {"run", "backfill", "dry"}

(* A file never returns to content that a reading of an earlier version may *)
(* have given.                                                              *)
NeverReturns(versions) ==
  \A i, j \in DOMAIN versions : i < j => Prefix(versions[i], Len(versions[j])) # versions[j]

(* The walk yields a file once.  A file may return to what it was where no  *)
(* process dies; what a hub loses of an asset is not sent again.            *)
ASSUME CollectorAssumption ==
  /\ Owners \in Seq(Range(Owners)) /\ \A i, j \in DOMAIN Owners : Owners[i] = Owners[j] => i = j
  /\ Databases \subseteq Range(Owners) /\ Range(Owners) \cap Images = {} /\ IsFiniteSet(Images)
  /\ MaxPut \in Nat /\ MaxFile \in Nat /\ Chunk \in Nat \ {0}
  /\ \A t \in Tours :
       /\ t = [versions |-> t.versions, modes |-> t.modes, hubs |-> t.hubs, faults |-> t.faults, purge |-> t.purge]
       /\ DOMAIN t.versions = Files
       /\ \A p \in Files : /\ t.versions[p] \in Seq(Range(t.versions[p]))
                           /\ \A c \in Range(t.versions[p]) : c # <<>> /\ c \in Seq(Range(c))
       /\ t.modes \in Seq(Modes) /\ t.hubs \in Seq(Hubs) /\ t.hubs # <<>>
       /\ t.faults \subseteq TourFaults /\ t.purge \subseteq Range(Owners)
       /\ "die" \in t.faults => \A p \in Files : NeverReturns(t.versions[p])

VARIABLES tour,  \* what is ahead: [versions, modes, hubs, faults, purge]
          disk,  \* the version of each file, 0 when absent
          rows,  \* files of state.db: [size, mtime, sha, status]
          scans, \* asset_scans: [size, mtime] of the transcript
          known, \* meta.machine_id and meta.hub_url
          pass,  \* the process that holds the lock
          holds  \* what each hub stores

collectorVars == <<tour, disk, rows, scans, known, pass, holds>>

None == [size |-> -1, mtime |-> -1, sha |-> <<>>, status |-> "none"]

NoScan == [size |-> -1, mtime |-> -1]

NoItem == [path |-> "none", size |-> 0, mtime |-> 0, sha |-> <<>>, snapshot |-> FALSE]

Idle == [pc |-> "idle", mode |-> "run", todo |-> <<>>, bad |-> FALSE, seen |-> <<>>,                  \* the pass
         chunk |-> <<>>, hashed |-> <<>>, there |-> {}, missing |-> <<>>, bodies |-> <<>>, unsent |-> {},     \* a chunk
        landing |-> FALSE, parents |-> <<>>,
         item |-> NoItem, answered |-> FALSE,                                                         \* a file
         owner |-> NoItem, assets |-> <<>>, found |-> <<>>, changed |-> FALSE, whole |-> FALSE, failed |-> FALSE] \* assets

Content(p) == IF disk[p] = 0 THEN <<>> ELSE tour.versions[p][disk[p]]

Size(p) == Len(Content(p))

(* A commit in the WAL leaves the main file as it was.                      *)
Mtime(p) == IF p \in Databases THEN 0 ELSE disk[p]

Fault(f) == f \in tour.faults /\ tour' = [tour EXCEPT !.faults = @ \ {f}]

References(p) == Images \cap Range(Content(p))

-----------------------------------------------------------------------------
(* The machine and its configuration                                        *)

Change(p) ==
  /\ disk[p] < Len(tour.versions[p])
  /\ disk' = [disk EXCEPT ![p] = @ + 1]
  /\ UNCHANGED <<tour, rows, scans, known, pass, holds>>

Repoint ==
  /\ pass.pc = "idle" /\ Len(tour.hubs) > 1
  /\ tour' = [tour EXCEPT !.hubs = Tail(@)]
  /\ UNCHANGED <<disk, rows, scans, known, pass, holds>>

(* A hub loses what it holds of a file, with a backfill ahead.              *)
Lose(p) ==
  /\ pass.pc = "idle" /\ p \in tour.purge /\ holds[known][p] # <<>> /\ "backfill" \in Range(tour.modes)
  /\ UNCHANGED tour
  /\ holds' = [holds EXCEPT ![known][p] = <<>>]
  /\ UNCHANGED <<disk, rows, scans, known, pass>>

-----------------------------------------------------------------------------
(* The lock is free when its process is gone.  A new identity re-offers all *)
(* files, in one transaction.                                               *)
Start ==
  /\ pass.pc = "idle"
  /\ LET mode == IF tour.modes = <<>> THEN "run" ELSE Head(tour.modes)
     IN  /\ pass' = [Idle EXCEPT !.pc = "scan", !.mode = mode, !.todo = Owners,
                                 !.seen = [p \in Files |-> disk[p]]]
         /\ tour' = [tour EXCEPT !.modes = IF @ = <<>> THEN @ ELSE Tail(@)]
  /\ known' = Head(tour.hubs)
  /\ IF known = Head(tour.hubs) THEN UNCHANGED <<rows, scans>>
     ELSE /\ rows' = [p \in Files |-> IF rows[p] = None THEN None ELSE [rows[p] EXCEPT !.status = "pending"]]
          /\ scans' = [p \in Files |-> NoScan]
  /\ UNCHANGED <<disk, holds>>

ItemOf(p) == [path |-> p, size |-> Size(p), mtime |-> Mtime(p),
              sha |-> IF p \in Databases THEN Content(p) ELSE <<>>, snapshot |-> p \in Databases]

(* A run takes a file at a time, a backfill a chunk of them.                *)
Stat ==
  /\ pass.pc = "scan" /\ pass.todo # <<>> /\ Len(pass.chunk) < Chunk
  /\ LET p == Head(pass.todo)
         on == [pass EXCEPT !.todo = Tail(@), !.seen[p] = disk[p]]
     IN  \/ /\ disk[p] = 0 /\ pass' = on /\ UNCHANGED tour
         \/ /\ disk[p] # 0 /\ UNCHANGED tour
            /\ pass' = IF pass.mode = "run" THEN [on EXCEPT !.pc = "look", !.item = ItemOf(p)]
                       ELSE [on EXCEPT !.chunk = Append(@, ItemOf(p))]
         \/ /\ disk[p] # 0 /\ p \in Databases /\ Fault("locked")
            /\ pass' = [on EXCEPT !.bad = TRUE]
  /\ UNCHANGED <<disk, rows, scans, known, holds>>

(* A snapshot is read as it was taken.                                      *)
Reads(item) == IF item.snapshot THEN item.sha ELSE Prefix(Content(item.path), item.size)

(* The fast path.                                                           *)
Unchanged(item) ==
  /\ ~item.snapshot
  /\ rows[item.path].status = "ok" /\ rows[item.path].size = item.size /\ rows[item.path].mtime = item.mtime

(* Nothing to send.                                                         *)
SameBytes(item, sha) == rows[item.path].status = "ok" /\ rows[item.path].sha = sha

RowOf(item, sha, status) == [size |-> item.size, mtime |-> item.mtime, sha |-> sha, status |-> status]

(* On to the assets of a transcript, or to the next asset of one.           *)
Handled(ok, changed) ==
  IF pass.owner = NoItem
  THEN [pass EXCEPT !.pc = IF ok THEN "assets" ELSE "scan", !.owner = IF ok THEN pass.item ELSE NoItem,
                    !.item = NoItem, !.changed = changed, !.bad = @ \/ ~ok]
  ELSE [pass EXCEPT !.pc = "snapshot", !.item = NoItem, !.failed = @ \/ ~ok, !.bad = @ \/ ~ok]

LookAt ==
  /\ pass.pc = "look"
  /\ LET item == pass.item
         sha == Reads(item)
     IN  \/ /\ Unchanged(item)
            /\ pass' = Handled(TRUE, FALSE) /\ UNCHANGED <<tour, rows>>
         \/ /\ ~Unchanged(item) /\ item.size > MaxFile
            /\ rows' = [rows EXCEPT ![item.path] = RowOf(item, @.sha, "error")]
            /\ pass' = Handled(FALSE, TRUE) /\ UNCHANGED tour
         \/ /\ ~Unchanged(item) /\ item.size <= MaxFile /\ ~item.snapshot /\ Fault("read")
            /\ rows' = [rows EXCEPT ![item.path] = IF @ = None THEN @ ELSE [@ EXCEPT !.status = "error"]]
            /\ pass' = Handled(FALSE, FALSE)
         \/ /\ ~Unchanged(item) /\ item.size <= MaxFile /\ SameBytes(item, sha)
            /\ rows' = [rows EXCEPT ![item.path] = RowOf(item, sha, "ok")]
            /\ pass' = Handled(TRUE, TRUE) /\ UNCHANGED tour
         \/ /\ ~Unchanged(item) /\ item.size <= MaxFile /\ ~SameBytes(item, sha)
            /\ pass' = [pass EXCEPT !.pc = "send", !.item.sha = sha] /\ UNCHANGED <<tour, rows>>
  /\ UNCHANGED <<disk, scans, known, holds>>

(* Small: the bytes that were hashed.  Large: the ranges of the file as it  *)
(* is by now, which the hub refuses when they are not what was announced.   *)
Arrives(item) ==
  item.size < MaxPut \/ item.snapshot \/ Prefix(Content(item.path), item.size) = item.sha

SendItem ==
  /\ pass.pc = "send"
  /\ LET item == pass.item
     IN  \/ /\ Arrives(item)
            /\ holds' = [holds EXCEPT ![known][item.path] = item.sha]
            /\ \/ pass' = [pass EXCEPT !.pc = "record", !.answered = TRUE] /\ UNCHANGED tour
               \/ pass' = [pass EXCEPT !.pc = "record", !.answered = FALSE] /\ Fault("lost")
         \/ /\ \/ ~Arrives(item) /\ UNCHANGED tour
               \/ Arrives(item) /\ Fault("refuse")
            /\ pass' = [pass EXCEPT !.pc = "record", !.answered = FALSE]
            /\ UNCHANGED holds
  /\ UNCHANGED <<disk, rows, scans, known>>

(* Mutant: the file as it is when the answer arrives. *)
RecordedNow(item, ok) == [size |-> Size(item.path), mtime |-> Mtime(item.path), sha |-> item.sha,
                          status |-> IF ok THEN "ok" ELSE "error"]

(* The row has the size and time of the scan.                               *)
Recorded(item, ok) == RowOf(item, item.sha, IF ok THEN "ok" ELSE "error")

Record ==
  /\ pass.pc = "record"
  /\ rows' = [rows EXCEPT ![pass.item.path] = Recorded(pass.item, pass.answered)]
  /\ pass' = IF pass.mode = "run" \/ pass.owner # NoItem THEN Handled(pass.answered, TRUE)
             ELSE [pass EXCEPT !.pc = IF pass.landing THEN "land" ELSE "large", !.bad = @ \/ ~pass.answered, !.item = NoItem,
                               !.parents = IF pass.answered /\ ~pass.item.snapshot THEN Append(@, pass.item) ELSE @]
  /\ UNCHANGED <<tour, disk, scans, known, holds>>

-----------------------------------------------------------------------------
(* Assets                                                                   *)

Scanned(owner) == scans[owner.path] = [size |-> owner.size, mtime |-> owner.mtime]

NextOwner == [pass EXCEPT !.pc = IF pass.mode = "run" THEN "scan" ELSE "parents", !.owner = NoItem, !.assets = <<>>,
                      !.found = <<>>, !.failed = FALSE, !.whole = FALSE]

(* A reference to a file that is missing or cannot be read is passed over.  *)
Found(p) == {a \in References(p) : disk[a] # 0}

(* The snapshot of a database is gone by now: nothing is found in it, and   *)
(* the failure is not remembered.                                           *)
Discover ==
  /\ pass.pc = "assets"
  /\ LET p == pass.owner.path
         found == Found(p)
     IN  pass' = IF (~pass.changed /\ Scanned(pass.owner)) \/ pass.owner.snapshot THEN NextOwner
                 ELSE [pass EXCEPT !.pc = "snapshot", !.assets = SetToSeq(found), !.whole = found = References(p),
                                   !.found = [a \in found |-> Content(a)]]
  /\ UNCHANGED <<tour, disk, rows, scans, known, holds>>

(* _snapshot_external_asset: a copy of what was discovered, or nothing.     *)
Snapshot ==
  /\ pass.pc = "snapshot" /\ pass.assets # <<>>
  /\ LET a == Head(pass.assets)
         on == [pass EXCEPT !.assets = Tail(@)]
         item == [path |-> a, size |-> Size(a), mtime |-> disk[a], sha |-> Content(a), snapshot |-> TRUE]
     IN  \/ /\ UNCHANGED tour
            /\ pass' = IF Content(a) = pass.found[a] THEN [on EXCEPT !.pc = "look", !.item = item]
                       ELSE [on EXCEPT !.failed = TRUE, !.bad = TRUE]
         \/ /\ Fault("read")
            /\ pass' = [on EXCEPT !.failed = TRUE, !.bad = TRUE]
  /\ UNCHANGED <<disk, rows, scans, known, holds>>

(* What a later scan could not repair.                                      *)
Cacheable(whole, failed) == whole /\ ~failed

MarkScan ==
  /\ pass.pc = "snapshot" /\ pass.assets = <<>>
  /\ scans' = IF Cacheable(pass.whole, pass.failed)
              THEN [scans EXCEPT ![pass.owner.path] = [size |-> pass.owner.size, mtime |-> pass.owner.mtime]]
              ELSE scans
  /\ pass' = NextOwner
  /\ UNCHANGED <<tour, disk, rows, known, holds>>

-----------------------------------------------------------------------------
(* A backfill, chunk by chunk                                               *)

Gathered == pass.pc = "scan" /\ pass.chunk # <<>> /\ (pass.todo = <<>> \/ Len(pass.chunk) = Chunk)

(* The first file that has no hash yet.  One that cannot be shipped or read *)
(* drops out.                                                               *)
HashNext ==
  /\ Gathered \/ pass.pc = "hash"
  /\ pass.chunk # <<>>
  /\ LET item == Head(pass.chunk)
         on == [pass EXCEPT !.pc = "hash", !.chunk = Tail(@)]
     IN  \/ /\ item.size > MaxFile /\ UNCHANGED tour
            /\ rows' = IF pass.mode = "dry" THEN rows ELSE [rows EXCEPT ![item.path] = RowOf(item, <<>>, "error")]
            /\ pass' = [on EXCEPT !.bad = TRUE]
         \/ /\ item.size <= MaxFile /\ UNCHANGED <<tour, rows>>
            /\ pass' = [on EXCEPT !.hashed = Append(@, [item EXCEPT !.sha = Reads(item)])]
         \/ /\ item.size <= MaxFile /\ ~item.snapshot /\ Fault("read") /\ UNCHANGED rows
            /\ pass' = [on EXCEPT !.bad = TRUE]
  /\ UNCHANGED <<disk, scans, known, holds>>

(* files/check.  A failure makes all of them missing.                       *)
CheckFiles ==
  /\ pass.pc = "hash" /\ pass.chunk = <<>>
  /\ \/ /\ pass' = [pass EXCEPT !.pc = "present",
                                 !.there = {i.path : i \in {i \in Range(pass.hashed) : holds[known][i.path] = i.sha}}]
        /\ UNCHANGED tour
     \/ /\ pass' = [pass EXCEPT !.pc = "present", !.bad = TRUE]
        /\ Fault("refuse")
  /\ UNCHANGED <<disk, rows, scans, known, holds>>

(* What the hub has is recorded, one file at a time; a dry run passes over  *)
(* the rest and looks for the assets of all of them.                        *)
RecordPresent ==
  /\ pass.pc = "present" /\ pass.hashed # <<>>
  /\ LET item == Head(pass.hashed)
         there == item.path \in pass.there
         dry == pass.mode = "dry"
     IN  /\ rows' = IF there THEN [rows EXCEPT ![item.path] = RowOf(item, item.sha, "ok")] ELSE rows
         /\ pass' = [pass EXCEPT !.hashed = Tail(@),
                                 !.missing = IF there \/ dry THEN @ ELSE Append(@, item),
                                 !.parents = IF (there \/ dry) /\ ~item.snapshot THEN Append(@, item) ELSE @]
  /\ UNCHANGED <<tour, disk, scans, known, holds>>

Checked ==
  /\ pass.pc = "present" /\ pass.hashed = <<>>
  /\ pass' = [pass EXCEPT !.pc = IF pass.mode = "dry" THEN "count" ELSE "large", !.there = {}]
  /\ UNCHANGED <<tour, disk, rows, scans, known, holds>>

(* A dry run asks for the assets of its chunk, and sends nothing.           *)
CountAssets ==
  /\ pass.pc = "count"
  /\ LET on == [pass EXCEPT !.pc = "scan", !.parents = <<>>]
         assets == UNION {References(i.path) : i \in Range(pass.parents)}
     IN  \/ /\ pass' = on
            /\ UNCHANGED tour
         \/ /\ \E a \in assets : disk[a] # 0
            /\ Fault("refuse")
            /\ pass' = [on EXCEPT !.bad = TRUE]
  /\ UNCHANGED <<disk, rows, scans, known, holds>>

Large(item) == item.size >= MaxPut

SendLarge ==
  /\ pass.pc = "large"
  /\ \E k \in DOMAIN pass.missing :
       /\ Large(pass.missing[k]) /\ \A j \in 1..(k - 1) : ~Large(pass.missing[j])
       /\ pass' = [pass EXCEPT !.pc = "send", !.item = pass.missing[k], !.missing = RemoveAt(@, k)]
  /\ UNCHANGED <<tour, disk, rows, scans, known, holds>>

(* Bytes and hash of one reading.                                           *)
ReadAgain(item) == [item EXCEPT !.sha = Reads(item)]

(* The missing small files are read into bodies.                            *)
ReadSmall ==
  /\ pass.pc = "large" /\ pass.missing # <<>> /\ \A k \in DOMAIN pass.missing : ~Large(pass.missing[k])
  /\ LET item == Head(pass.missing)
         on == [pass EXCEPT !.missing = Tail(@)]
     IN  \/ /\ UNCHANGED tour
            /\ pass' = [on EXCEPT !.bodies = Append(@, ReadAgain(item)), !.unsent = @ \cup {item.path}]
         \/ /\ ~item.snapshot /\ Fault("read")
            /\ pass' = [on EXCEPT !.bad = TRUE]
  /\ UNCHANGED <<disk, rows, scans, known, holds>>

Took(p, answered) ==
  pass' = [pass EXCEPT !.unsent = @ \ {p}, !.there = IF answered THEN @ \cup {p} ELSE @]

(* upload_batch, in any order: its answers.                                 *)
SendBatch ==
  /\ pass.pc = "large" /\ pass.missing = <<>> /\ pass.unsent # {}
  /\ \E item \in Range(pass.bodies) :
       /\ item.path \in pass.unsent
       /\ \/ holds' = [holds EXCEPT ![known][item.path] = item.sha] /\ Took(item.path, TRUE) /\ UNCHANGED tour
          \/ holds' = [holds EXCEPT ![known][item.path] = item.sha] /\ Took(item.path, FALSE) /\ Fault("lost")
          \/ UNCHANGED holds /\ Took(item.path, FALSE) /\ Fault("refuse")
  /\ UNCHANGED <<disk, rows, scans, known>>

(* A body that was not acknowledged is sent once more.                      *)
Land ==
  /\ \/ pass.pc = "large" /\ pass.missing = <<>> /\ pass.unsent = {}
     \/ pass.pc = "land"
  /\ pass' = IF pass.bodies = <<>> THEN [pass EXCEPT !.pc = "parents", !.there = {}]
             ELSE LET item == Head(pass.bodies)
                      took == item.path \in pass.there
                  IN  [pass EXCEPT !.pc = IF took THEN "record" ELSE "send", !.item = item, !.answered = took,
                                   !.bodies = Tail(@), !.landing = TRUE]
  /\ UNCHANGED <<tour, disk, rows, scans, known, holds>>

NextParent ==
  /\ pass.pc = "parents"
  /\ pass' = IF pass.parents = <<>> THEN [pass EXCEPT !.pc = "scan", !.landing = FALSE]
             ELSE [pass EXCEPT !.pc = "assets", !.owner = Head(pass.parents), !.parents = Tail(@), !.changed = TRUE]
  /\ UNCHANGED <<tour, disk, rows, scans, known, holds>>

(* The exit code of the last pass stays to be seen.                         *)
Finish ==
  /\ pass.pc = "scan" /\ pass.todo = <<>> /\ pass.chunk = <<>>
  /\ pass' = [pass EXCEPT !.pc = "done"]
  /\ UNCHANGED <<tour, disk, rows, scans, known, holds>>

Exit ==
  /\ pass.pc = "done" /\ pass' = Idle
  /\ UNCHANGED <<tour, disk, rows, scans, known, holds>>

Kill ==
  /\ pass.pc \notin {"idle", "done"} /\ Fault("die") /\ pass' = Idle
  /\ UNCHANGED <<disk, rows, scans, known, holds>>

CollectorInit ==
  /\ tour \in Tours
  /\ disk = [p \in Files |-> 0]
  /\ rows = [p \in Files |-> None] /\ scans = [p \in Files |-> NoScan]
  /\ known = Head(tour.hubs) /\ pass = Idle
  /\ holds = [h \in Hubs |-> [p \in Files |-> <<>>]]

PassStep == Start \/ Stat \/ LookAt \/ SendItem \/ Record \/ Discover \/ Snapshot \/ MarkScan
            \/ HashNext \/ CheckFiles \/ RecordPresent \/ Checked \/ CountAssets \/ SendLarge \/ ReadSmall \/ SendBatch \/ Land \/ NextParent \/ Finish \/ Exit

CollectorNext == PassStep \/ Repoint \/ Kill \/ \E p \in Files : Change(p) \/ Lose(p)

(* The schedule runs the collector for ever.                                *)
CollectorFairness == WF_collectorVars(PassStep)

CollectorSpec == CollectorInit /\ [][CollectorNext]_collectorVars /\ CollectorFairness

-----------------------------------------------------------------------------
CollectorTypeOK ==
  /\ \A p \in Files : rows[p].status \in {"none", "ok", "error", "pending"} /\ (rows[p] = None <=> rows[p].status = "none")
  /\ \A k \in DOMAIN pass.chunk : pass.chunk[k].path \in Range(Owners)
  /\ pass.unsent \subseteq {i.path : i \in Range(pass.bodies)}
  /\ pass.mode = "run" => pass.chunk = <<>> /\ pass.hashed = <<>> /\ pass.missing = <<>> /\ pass.parents = <<>>
  /\ pass.pc = "snapshot" => pass.owner # NoItem

InFlight == {pass.item.path} \cup {i.path : i \in Range(pass.bodies)}

(* A row that lets a file pass without being sent, by its size and time or  *)
(* by its hash, never does so for bytes that this hub does not hold.        *)
SkippedIsHeld ==
  \A p \in Files \ (tour.purge \cup InFlight) :
    LET sameStat == p \notin Databases \cup Images /\ rows[p].size = Size(p) /\ rows[p].mtime = Mtime(p)
    IN  disk[p] # 0 /\ rows[p].status = "ok" /\ (sameStat \/ rows[p].sha = Content(p)) => holds[known][p] = Content(p)

(* No asset reaches a hub before a transcript that refers to it.            *)
AssetsFollow ==
  \A h \in Hubs : \A a \in {a \in Images : holds[h][a] # <<>>} :
    \E p \in Range(Owners) : /\ \E v \in Range(tour.versions[p]) : a \in Range(v)
                            /\ (holds[h][p] # <<>> \/ p \in tour.purge)

(* Exit code 0 of a backfill: the hub holds every file that has not changed *)
(* since the pass looked at it, and the assets of transcripts.              *)
BackfillIsHonest ==
  pass.pc = "done" /\ pass.mode = "backfill" /\ ~pass.bad =>
    LET same(p) == disk[p] # 0 /\ disk[p] = pass.seen[p]
        sent(p) == same(p) => holds[known][p] = Content(p)
    IN  \A p \in Range(Owners) :
          /\ sent(p)
          /\ same(p) /\ p \notin Databases => \A a \in References(p) : sent(a)

(* Whatever failed or changed in between, the hub of the configuration      *)
(* comes to hold every file as it is, but what is too large, and an asset   *)
(* that changed after it was found.                                         *)
CaughtUp ==
  \A p \in Files :
    \/ Size(p) = 0 \/ Size(p) > MaxFile
    \/ p \in Images /\ (Len(tour.versions[p]) > 1 \/ \A o \in Range(Owners) : p \notin References(o) \/ Size(o) > MaxFile)
    \/ holds[Head(tour.hubs)][p] = Content(p)

(* What the hub holds of a machine's files is what the collector was told:  *)
(* a row that skips a file, and an exit code of zero, are never wrong; no   *)
(* asset is sent ahead of a transcript (run.py).                            *)
CollectorIsHonest == CollectorTypeOK /\ SkippedIsHeld /\ AssetsFollow /\ BackfillIsHonest
=============================================================================
