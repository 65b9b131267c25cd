------------------------ MODULE SessionCatalogProofs ------------------------
(* Proofs about SessionCatalog, for every number of sessions, shards and    *)
(* concurrent invocations.                                                  *)
EXTENDS SessionCatalog, FiniteSetTheorems, TLAPS

(* The number of shards is a number. *)
LEMMA ShardCountIsNat == ShardCount \in Nat
  BY CatalogAssumption, FS_CardinalityType DEF ShardCount

LEMMA IdleIsRun == Idle \in Run /\ NoCopy \in Copy
  BY DEF Idle, Run, NoCopy, Copy

LEMMA RunStep ==
  ASSUME NEW p \in Syncers, NEW r \in Run, run \in [Syncers -> Run],
         run' = [run EXCEPT ![p] = r]
  PROVE  run' \in [Syncers -> Run]
  OBVIOUS

(* Every state of the catalog is well typed: no action writes a row that is *)
(* not a catalog row, a version that is not a number, or a control state    *)
(* the code does not have.                                                  *)
THEOREM TypeCorrect == Spec => []TypeOK
<1>1. Init => TypeOK
  BY IdleIsRun DEF Init, TypeOK, Entry
<1>2. TypeOK /\ [Next]_vars => TypeOK'
  <2> SUFFICES ASSUME TypeOK, [Next]_vars PROVE TypeOK'
    OBVIOUS
  <2> USE IdleIsRun, ShardCountIsNat DEF TypeOK
  <2>1. ASSUME NEW s \in Sessions, NEW row \in Rows \cup {Absent}, NEW stars \in SUBSET Turns,
               Stamp(s, row, stars)
        PROVE  TypeOK'
    BY <2>1 DEF Stamp, Copy, Entry
  <2>2. CASE Change
    <3>1. ASSUME NEW s \in Sessions, WriteSession(s) PROVE TypeOK'
      BY <2>1, <3>1 DEF WriteSession, Copy
    <3>2. ASSUME NEW s \in Sessions, DeleteSession(s) PROVE TypeOK'
      BY <2>1, <3>2 DEF DeleteSession, Copy
    <3>3. ASSUME NEW s \in Sessions, Star(s) PROVE TypeOK'
      <4>1. PICK t \in Turns \ main[s].stars : Stamp(s, main[s].row, main[s].stars \cup {t})
        BY <3>3 DEF Star
      <4> QED BY <2>1, <4>1 DEF Copy
    <3>4. ASSUME NEW s \in Sessions, Unstar(s) PROVE TypeOK'
      <4>1. PICK t \in main[s].stars : Stamp(s, main[s].row, main[s].stars \ {t})
        BY <3>4 DEF Unstar
      <4> QED BY <2>1, <4>1 DEF Copy
    <3> QED BY <2>2, <3>1, <3>2, <3>3, <3>4 DEF Change
  <2>3. ASSUME NEW p \in Syncers, StartSync(p) \/ StartDrain(p) PROVE TypeOK'
    <3>1. PICK kind \in {"sync", "drain"}, ids \in SUBSET Sessions : Start(p, kind, ids)
      BY <2>3 DEF StartSync, StartDrain
    <3>2. [Idle EXCEPT !.pc = IF kind = "sync" THEN "read" ELSE "capture",
                       !.kind = kind, !.asked = ids,
                       !.todo = IF kind = "sync" THEN ids ELSE {}] \in Run
      BY <3>1 DEF Idle, Run
    <3>3. [s \in Sessions |-> main[s].version] \in [Sessions -> Nat]
      BY DEF Copy
    <3> QED BY <3>1, <3>2, <3>3 DEF Start
  <2>r. run \in [Syncers -> Run] /\ \A p \in Syncers : run[p] \in Run
    OBVIOUS
  <2>n. \A p \in Syncers : run[p].spent + 1 \in Nat /\ run[p].spent + ShardCount \in Nat
    BY DEF Run
  <2>k. ASSUME run' \in [Syncers -> Run], UNCHANGED <<main, outbox, seq, shard, floor, failures>>
        PROVE  TypeOK'
    BY <2>k
  <2>4. ASSUME NEW p \in Syncers, Capture(p) PROVE TypeOK'
    <3>1. Captured \in SUBSET Sessions
      BY ZenonT(40) DEF Captured, Oldest, Entry
    <3> HIDE DEF TypeOK
    <3>2. PICK pc \in {"current", "read"} :
            run' = [run EXCEPT ![p] =
                      [run[p] EXCEPT !.pc = pc, !.todo = Captured, !.spent = 1]]
      BY <2>4 DEF Capture
    <3>3. [run[p] EXCEPT !.pc = pc, !.todo = Captured, !.spent = 1] \in Run
      BY <2>r, <3>1, <3>2 DEF Run
    <3>4. run' \in [Syncers -> Run]
      BY <2>r, <3>2, <3>3, RunStep
    <3> QED BY <2>4, <2>k, <3>4 DEF Capture
  <2>5. ASSUME NEW p \in Syncers, ReadBulk(p) PROVE TypeOK'
    <3>1. CASE Affordable(p, 1 + ShardCount)
      <4> DEFINE Large(ids) == {s \in ids : main[s].row \in LargeRows}
                 Small(ids) == {s \in ids \ Large(ids) : main[s].version > 0}
                 Read(ids) == [s \in Sessions |-> IF s \in ids \ Large(ids) THEN main[s] ELSE NoCopy]
      <4>1. PICK ids \in Rounds(p) :
              run' = [run EXCEPT ![p] =
                 [run[p] EXCEPT !.pc = "apply", !.todo = run[p].todo \ ids, !.entry = Read(ids),
                    !.unsent = Small(ids), !.large = Large(ids), !.spent = run[p].spent + 1]]
        BY <2>5, <3>1 DEF ReadBulk
      <4>2. ids \in SUBSET Sessions
        BY <2>r DEF Rounds, Run
      <4>3. /\ Large(ids) \in SUBSET Sessions /\ Small(ids) \in SUBSET Sessions
            /\ Read(ids) \in [Sessions -> Copy]
        BY <4>2
      <4> HIDE DEF Large, Small, Read, TypeOK
      <4>4. [run[p] EXCEPT !.pc = "apply", !.todo = run[p].todo \ ids, !.entry = Read(ids),
                    !.unsent = Small(ids), !.large = Large(ids), !.spent = run[p].spent + 1] \in Run
        BY <2>r, <2>n, <4>2, <4>3 DEF Run
      <4>5. run' \in [Syncers -> Run]
        BY <2>r, <4>1, <4>4, RunStep
      <4> QED BY <2>5, <2>k, <4>5 DEF ReadBulk
    <3>2. CASE ~Affordable(p, 1 + ShardCount)
      <4> HIDE DEF TypeOK
      <4>1. [run[p] EXCEPT !.pc = "pending"] \in Run
        BY <2>r DEF Run
      <4>2. run' \in [Syncers -> Run]
        BY <2>5, <2>r, <3>2, <4>1, RunStep DEF ReadBulk
      <4> QED BY <2>5, <2>k, <4>2 DEF ReadBulk
    <3> QED BY <3>1, <3>2
  <2>6. ASSUME NEW p \in Syncers, StartBatch(p) PROVE TypeOK'
    <3> HIDE DEF TypeOK
    <3>1. \/ run' = [run EXCEPT ![p] = [run[p] EXCEPT !.exhausted = TRUE]]
          \/ \E ids \in SUBSET run[p].unsent :
               run' = [run EXCEPT ![p] = [run[p] EXCEPT !.batch = ids, !.unsent = run[p].unsent \ ids]]
      BY <2>6 DEF StartBatch
    <3>2. \A ids \in SUBSET run[p].unsent : ids \in SUBSET Sessions
      BY <2>r DEF Run
    <3>3. /\ [run[p] EXCEPT !.exhausted = TRUE] \in Run
          /\ \A ids \in SUBSET run[p].unsent : [run[p] EXCEPT !.batch = ids, !.unsent = run[p].unsent \ ids] \in Run
      BY ZenonT(40), <2>r, <3>2 DEF Run
    <3>4. run' \in [Syncers -> Run]
      BY <2>r, <3>1, <3>3, RunStep
    <3> QED BY <2>6, <2>k, <3>4 DEF StartBatch
  <2>7. ASSUME NEW p \in Syncers, ReadLarge(p) PROVE TypeOK'
    <3>1. PICK s \in run[p].large :
            \/ run' = [run EXCEPT ![p] = [run[p] EXCEPT !.exhausted = TRUE]]
            \/ run' = [run EXCEPT ![p] =
                 [run[p] EXCEPT !.entry = [run[p].entry EXCEPT ![s] = main[s]],
                                !.batch = {s}, !.large = run[p].large \ {s}, !.spent = run[p].spent + 1]]
      BY <2>7 DEF ReadLarge
    <3>2. s \in Sessions /\ run[p].entry \in [Sessions -> Copy]
      BY <2>r DEF Run
    <3>3. {s} \in SUBSET Sessions /\ [run[p].entry EXCEPT ![s] = main[s]] \in [Sessions -> Copy]
      BY <3>2
    <3> HIDE DEF TypeOK
    <3>4. /\ [run[p] EXCEPT !.exhausted = TRUE] \in Run
          /\ [run[p] EXCEPT !.entry = [run[p].entry EXCEPT ![s] = main[s]],
                            !.batch = {s}, !.large = run[p].large \ {s}, !.spent = run[p].spent + 1] \in Run
      BY <2>r, <2>n, <3>3 DEF Run
    <3>5. run' \in [Syncers -> Run]
      BY <2>r, <3>1, <3>4, RunStep
    <3> QED BY <2>7, <2>k, <3>5 DEF ReadLarge
  <2>8. ASSUME NEW p \in Syncers, NEW k \in Shards, ApplyShard(p, k) PROVE TypeOK'
    <3>1. run[p].entry \in [Sessions -> Copy]
      BY <2>r DEF Run
    <3>2. [s \in Sessions |-> IF s \in run[p].batch THEN Accept(shard[k][s], run[p].entry[s])
                                                    ELSE shard[k][s]] \in [Sessions -> Copy]
      BY <3>1 DEF Accept
    <3>3. shard' \in [Shards -> [Sessions -> Copy]]
      BY <2>8, <3>2 DEF ApplyShard, AcceptedByAll
    <3>4. run' \in [Syncers -> Run]
      <4> HIDE DEF TypeOK
      <4>1. [run[p] EXCEPT !.batch = {}, !.accepted = {},
                           !.covered = run[p].covered \cup run[p].batch, !.spent = run[p].spent + ShardCount] \in Run
        BY <2>r, <2>n DEF Run
      <4>2. [run[p] EXCEPT !.accepted = run[p].accepted \cup {k}] \in Run
        BY <2>r DEF Run
      <4>3. \/ run' = [run EXCEPT ![p] = [run[p] EXCEPT !.batch = {}, !.accepted = {},
                           !.covered = run[p].covered \cup run[p].batch, !.spent = run[p].spent + ShardCount]]
            \/ run' = [run EXCEPT ![p] = [run[p] EXCEPT !.accepted = run[p].accepted \cup {k}]]
        BY <2>8 DEF ApplyShard, AcceptedByAll
      <4> QED BY <2>r, <4>1, <4>2, <4>3, RunStep
    <3> QED BY <2>8, <3>3, <3>4 DEF ApplyShard, AcceptedByAll
  <2>9. ASSUME NEW p \in Syncers, Retire(p) PROVE TypeOK'
    <3> DEFINE spent == run[p].spent + (IF run[p].covered = {} THEN 0 ELSE 1)
    <3>1. /\ AfterRound(p) \in {"pending", "read", "current", "check"}
          /\ spent \in Nat /\ run[p].asked \in SUBSET Sessions /\ run[p].todo \in SUBSET Sessions
          /\ run[p].kind \in {"sync", "drain"}
      BY <2>r, <2>n DEF AfterRound, Run
    <3> HIDE DEF TypeOK, spent
    <3>2. [Idle EXCEPT !.pc = AfterRound(p), !.asked = run[p].asked,
                       !.kind = run[p].kind, !.todo = run[p].todo, !.spent = spent] \in Run
      BY <3>1, IdleIsRun DEF Run
    <3>3. run' \in [Syncers -> Run]
      BY <2>9, <2>r, <3>2, RunStep DEF Retire, spent
    <3> QED BY <2>9, <3>3 DEF Retire, TypeOK
  <2>10. ASSUME NEW p \in Syncers, Check(p) PROVE TypeOK'
    <3> HIDE DEF TypeOK
    <3>1. \A pc \in {"current", "pending"} : [run[p] EXCEPT !.pc = pc, !.spent = run[p].spent + 1] \in Run
      BY <2>r, <2>n DEF Run
    <3>2. PICK pc \in {"current", "pending"} :
            run' = [run EXCEPT ![p] = [run[p] EXCEPT !.pc = pc, !.spent = run[p].spent + 1]]
      BY <2>10 DEF Check
    <3>3. run' \in [Syncers -> Run]
      BY <2>r, <3>1, <3>2, RunStep
    <3> QED BY <2>10, <2>k, <3>3 DEF Check
  <2>11. ASSUME NEW p \in Syncers, Return(p) \/ Fail(p) PROVE TypeOK'
    <3>1. [s \in Sessions |-> 0] \in [Sessions -> Nat]
      OBVIOUS
    <3>2. run' \in [Syncers -> Run]
      BY <2>11, RunStep DEF Return, Fail
    <3> QED BY <2>11, <3>1, <3>2 DEF Return, Fail
  <2>12. CASE UNCHANGED vars
    BY <2>12 DEF vars
  <2> QED BY <2>2, <2>3, <2>4, <2>5, <2>6, <2>7, <2>8, <2>9, <2>10, <2>11, <2>12
          DEF Next, Step
<1> QED BY <1>1, <1>2, PTL DEF Spec

-----------------------------------------------------------------------------
(* The inductive invariant behind OutboxComplete and NoRegression.          *)

(* A copy taken from main is no newer than main, is main's own if main has  *)
(* not moved since, and is empty if main had nothing to copy.               *)
Behind(c, s) ==
  /\ c.version <= main[s].version
  /\ c.version = 0 => c = NoCopy
  /\ c.version = main[s].version => c = main[s]

AllBehind ==
  /\ \A p \in Syncers, s \in Sessions : Behind(run[p].entry[s], s)
  /\ \A k \in Shards, s \in Sessions : Behind(shard[k][s], s)

(* No version is ahead of the counter; only a session never written has     *)
(* version 0.                                                               *)
Counted ==
  \A s \in Sessions : main[s].version <= seq /\ (main[s].version = 0 => main[s] = NoCopy)

(* Two snapshots of a session with one version are the same snapshot.       *)
Agree ==
  /\ \A p, q \in Syncers, s \in Sessions :
       run[p].entry[s].version = run[q].entry[s].version => run[p].entry[s] = run[q].entry[s]
  /\ \A p \in Syncers, k \in Shards, s \in Sessions :
       run[p].entry[s].version = shard[k][s].version => run[p].entry[s] = shard[k][s]

(* Between rounds nothing is in flight; a batch waits on some shard, and    *)
(* its entries are not read a second time.                                  *)
Shape(r) ==
  /\ r.pc # "apply" => r.batch = {} /\ r.covered = {} /\ r.large = {}
  /\ r.batch = {} => r.accepted = {}
  /\ r.large \cap (r.unsent \cup r.batch \cup r.covered) = {}

RoundShape == \A p \in Syncers : Shape(run[p])

(* What a shard accepted, it has at least at that version. *)
Applied(r) ==
  /\ \A s \in r.batch, k \in r.accepted : shard[k][s].version >= r.entry[s].version
  /\ \A s \in r.covered, k \in Shards : shard[k][s].version >= r.entry[s].version

AcceptedApplied == \A p \in Syncers : Applied(run[p])

(* Main's latest version is still in the outbox, or is on every shard.      *)
LatestOwed ==
  \A s \in Sessions :
    \/ [seq |-> main[s].version, id |-> s] \in outbox
    \/ \A k \in Shards : shard[k][s] = main[s]

IInv == TypeOK /\ AllBehind /\ Counted /\ Agree /\ RoundShape /\ AcceptedApplied /\ LatestOwed

(* Steps that touch neither main nor a shard may only drop an entry or read *)
(* it from main; they keep every fact about copies.                         *)
LEMMA ReadStep ==
  ASSUME TypeOK, TypeOK', AllBehind, Counted, Agree,
         UNCHANGED <<main, seq, shard>>,
         \A p \in Syncers, s \in Sessions :
            run'[p].entry[s] \in {run[p].entry[s], main[s], NoCopy}
  PROVE  AllBehind' /\ Counted' /\ Agree'
<1>t. /\ \A p \in Syncers, s \in Sessions : run[p].entry[s] \in Copy
      /\ \A s \in Sessions : main[s] \in Copy
      /\ \A k \in Shards, s \in Sessions : shard[k][s] \in Copy
  BY DEF TypeOK, Run
<1>v. NoCopy.version = 0 /\ \A c \in Copy : c.version \in Nat
  BY DEF NoCopy, Copy
<1>1. Counted'
  BY DEF Counted
<1>2. AllBehind'
  BY <1>t, <1>v DEF AllBehind, Behind, Counted
<1>3. Agree'
  <2>1. ASSUME NEW p \in Syncers, NEW q \in Syncers, NEW s \in Sessions,
               run'[p].entry[s].version = run'[q].entry[s].version
        PROVE  run'[p].entry[s] = run'[q].entry[s]
    <3>1. Behind(run[p].entry[s], s) /\ Behind(run[q].entry[s], s)
      BY DEF AllBehind
    <3>2. run[p].entry[s].version = run[q].entry[s].version => run[p].entry[s] = run[q].entry[s]
      BY DEF Agree
    <3>3. /\ run'[p].entry[s] \in {run[p].entry[s], main[s], NoCopy}
          /\ run'[q].entry[s] \in {run[q].entry[s], main[s], NoCopy}
      OBVIOUS
    <3>4. main[s].version = 0 => main[s] = NoCopy
      BY DEF Counted
    <3> QED BY <2>1, <3>1, <3>2, <3>3, <3>4, <1>v DEF Behind
  <2>2. ASSUME NEW p \in Syncers, NEW k \in Shards, NEW s \in Sessions,
               run'[p].entry[s].version = shard[k][s].version
        PROVE  run'[p].entry[s] = shard[k][s]
    BY SMTT(30), <2>2, <1>t, <1>v DEF AllBehind, Behind, Counted, Agree
  <2> QED BY <2>1, <2>2 DEF Agree
<1> QED BY <1>1, <1>2, <1>3

(* A change of main is newer than every copy, and is owed at once. *)
LEMMA ChangeStep ==
  ASSUME IInv, TypeOK', Change
  PROVE  IInv'
<1>0. PICK s \in Sessions : \E row, stars : Stamp(s, row, stars)
  BY DEF Change, WriteSession, DeleteSession, Star, Unstar
<1>1. PICK row, stars : Stamp(s, row, stars)
  BY <1>0
<1>t. /\ \A p \in Syncers, u \in Sessions : run[p].entry[u].version \in Nat
      /\ \A u \in Sessions : main[u].version \in Nat
      /\ \A k \in Shards, u \in Sessions : shard[k][u].version \in Nat
      /\ seq \in Nat /\ main \in [Sessions -> Copy]
  BY DEF IInv, TypeOK, Run, Copy
<1>2. /\ main'[s].version = seq + 1 /\ seq' = seq + 1
      /\ \A u \in Sessions \ {s} : main'[u] = main[u]
      /\ UNCHANGED <<shard, run>>
      /\ [seq |-> seq + 1, id |-> s] \in outbox' /\ outbox \subseteq outbox'
  BY <1>1, <1>t DEF Stamp
<1>3. \A u \in Sessions : main[u].version <= seq
  BY DEF IInv, Counted
<1>4. AllBehind'
  BY <1>t, <1>2, <1>3 DEF IInv, AllBehind, Behind
<1>5. Counted'
  BY <1>t, <1>2 DEF IInv, Counted
<1>6. Agree' /\ RoundShape' /\ AcceptedApplied'
  BY <1>2 DEF IInv, Agree, RoundShape, Shape, AcceptedApplied, Applied
<1>7. LatestOwed'
  BY <1>2 DEF IInv, LatestOwed
<1> QED BY <1>4, <1>5, <1>6, <1>7 DEF IInv

(* A step of one invocation that touches no database keeps the invariant if *)
(* what it leaves in its own control state fits.                            *)
LEMMA LocalStep ==
  ASSUME IInv, TypeOK', NEW p \in Syncers, NEW r \in Run,
         UNCHANGED <<main, outbox, seq, shard>>,
         run' = [run EXCEPT ![p] = r],
         \A s \in Sessions : r.entry[s] \in {run[p].entry[s], main[s], NoCopy},
         Shape(r), Applied(r)
  PROVE  IInv'
<1>1. run'[p] = r /\ \A q \in Syncers \ {p} : run'[q] = run[q]
  BY DEF IInv, TypeOK
<1>2. \A q \in Syncers, s \in Sessions : run'[q].entry[s] \in {run[q].entry[s], main[s], NoCopy}
  BY <1>1
<1>3. AllBehind' /\ Counted' /\ Agree'
  BY <1>2, ReadStep DEF IInv
<1>4. RoundShape'
  BY <1>1 DEF IInv, RoundShape
<1>5. AcceptedApplied'
  BY <1>1 DEF IInv, AcceptedApplied, Applied
<1>6. LatestOwed'
  BY DEF IInv, LatestOwed
<1> QED BY <1>3, <1>4, <1>5, <1>6 DEF IInv

(* What one shard batch does: the shards move forward, each changed copy    *)
(* becoming the entry the batch carries, and the entries stay.              *)
LEMMA ApplyEffect ==
  ASSUME IInv, NEW p \in Syncers, NEW k \in Shards, ApplyShard(p, k)
  PROVE  /\ \A j \in Shards, s \in Sessions :
              \/ shard'[j][s] = shard[j][s]
              \/ /\ j = k /\ s \in run[p].batch
                 /\ shard'[j][s] = run[p].entry[s]
                 /\ run[p].entry[s].version > shard[j][s].version
         /\ \A s \in run[p].batch : shard'[k][s].version >= run[p].entry[s].version
         /\ \A j \in Shards, s \in Sessions : shard'[j][s].version >= shard[j][s].version
         /\ \A q \in Syncers : run'[q].entry = run[q].entry
<1>t. /\ \A q \in Syncers, s \in Sessions : run[q].entry[s].version \in Nat
      /\ \A j \in Shards, s \in Sessions : shard[j][s].version \in Nat
      /\ shard \in [Shards -> [Sessions -> Copy]] /\ run \in [Syncers -> Run]
      /\ run[p].batch \subseteq Sessions
  BY DEF IInv, TypeOK, Run, Copy
<1>1. \A j \in Shards, s \in Sessions :
        shard'[j][s] = IF j = k /\ s \in run[p].batch THEN Accept(shard[j][s], run[p].entry[s])
                                                      ELSE shard[j][s]
  BY <1>t DEF ApplyShard, AcceptedByAll
<1>2. \A s \in Sessions : run[p].entry[s].version = shard[k][s].version
                            => run[p].entry[s] = shard[k][s]
  BY DEF IInv, Agree
<1>3. \A q \in Syncers : run'[q].entry = run[q].entry
  BY <1>t DEF ApplyShard, AcceptedByAll, Run
<1>4. ASSUME NEW j \in Shards, NEW s \in Sessions
      PROVE  /\ shard'[j][s].version >= shard[j][s].version
             /\ \/ shard'[j][s] = shard[j][s]
                \/ /\ j = k /\ s \in run[p].batch
                   /\ shard'[j][s] = run[p].entry[s]
                   /\ run[p].entry[s].version > shard[j][s].version
  <2>1. CASE j = k /\ s \in run[p].batch
    <3>1. shard'[j][s] = Accept(shard[k][s], run[p].entry[s])
      BY <2>1, <1>1
    <3>2. run[p].entry[s].version \in Nat /\ shard[k][s].version \in Nat
      BY <1>t
    <3>3. CASE run[p].entry[s].version > shard[k][s].version
      BY <2>1, <3>1, <3>2, <3>3 DEF Accept
    <3>4. CASE run[p].entry[s].version = shard[k][s].version
      BY <2>1, <3>1, <3>2, <3>4, <1>2 DEF Accept
    <3>5. CASE run[p].entry[s].version < shard[k][s].version
      BY <2>1, <3>1, <3>2, <3>5 DEF Accept
    <3> QED BY <3>2, <3>3, <3>4, <3>5
  <2>2. CASE ~(j = k /\ s \in run[p].batch)
    BY <2>2, <1>t, <1>1
  <2> QED BY <2>1, <2>2
<1>5. ASSUME NEW s \in run[p].batch
      PROVE  shard'[k][s].version >= run[p].entry[s].version
  BY <1>t, <1>1 DEF Accept
<1> QED BY <1>3, <1>4, <1>5

LEMMA ApplyStep ==
  ASSUME IInv, TypeOK', NEW p \in Syncers, NEW k \in Shards, ApplyShard(p, k)
  PROVE  IInv'
<1>e. /\ \A j \in Shards, s \in Sessions :
            \/ shard'[j][s] = shard[j][s]
            \/ /\ j = k /\ s \in run[p].batch
               /\ shard'[j][s] = run[p].entry[s]
               /\ run[p].entry[s].version > shard[j][s].version
      /\ \A s \in run[p].batch : shard'[k][s].version >= run[p].entry[s].version
      /\ \A j \in Shards, s \in Sessions : shard'[j][s].version >= shard[j][s].version
      /\ \A q \in Syncers : run'[q].entry = run[q].entry
  BY ApplyEffect
<1>t. /\ \A q \in Syncers, s \in Sessions : run[q].entry[s].version \in Nat
      /\ \A j \in Shards, s \in Sessions : shard[j][s].version \in Nat
      /\ \A j \in Shards, s \in Sessions : shard'[j][s].version \in Nat
      /\ run \in [Syncers -> Run]
      /\ \A q \in Syncers : run[q] \in Run /\ run[q].batch \subseteq Sessions /\ run[q].covered \subseteq Sessions
      /\ \A q \in Syncers : run[q].accepted \subseteq Shards
      /\ \A s \in Sessions : main[s].version \in Nat
  BY DEF IInv, TypeOK, Run, Copy
<1>u. /\ UNCHANGED <<main, outbox, seq>>
      /\ \A q \in Syncers \ {p} : run'[q] = run[q]
      /\ run[p].batch # {} /\ run[p].pc = "apply"
  BY <1>t DEF ApplyShard, AcceptedByAll, IInv, RoundShape, Shape
<1>r. \/ /\ run'[p] = [run[p] EXCEPT !.batch = {}, !.accepted = {},
                           !.covered = run[p].covered \cup run[p].batch,
                           !.spent = run[p].spent + ShardCount]
         /\ run[p].accepted \cup {k} = Shards
      \/ run'[p] = [run[p] EXCEPT !.accepted = run[p].accepted \cup {k}]
  BY <1>t DEF ApplyShard, AcceptedByAll
<1>1. AllBehind'
  BY <1>e, <1>u DEF IInv, AllBehind, Behind
<1>2. Counted'
  BY <1>u DEF IInv, Counted
<1>3. Agree'
  <2>1. ASSUME NEW q \in Syncers, NEW j \in Shards, NEW s \in Sessions,
               run'[q].entry[s].version = shard'[j][s].version
        PROVE  run'[q].entry[s] = shard'[j][s]
    BY <2>1, <1>e DEF IInv, Agree
  <2> QED BY SMTT(30), <2>1, <1>e DEF IInv, Agree
<1>4. RoundShape'
  <2>1. Shape(run[p]) /\ run[p] \in Run
    BY <1>t DEF IInv, RoundShape
  <2>2. Shape(run'[p])
    BY ZenonT(40), <2>1, <1>u, <1>r DEF Shape, Run
  <2> QED BY <2>2, <1>u DEF IInv, RoundShape
<1>5. AcceptedApplied'
  <2>1. ASSUME NEW q \in Syncers, q # p PROVE Applied(run[q])'
    BY <2>1, <1>e, <1>t, <1>u DEF IInv, AcceptedApplied, Applied
  <2>2. Applied(run[p])'
    <3>1. /\ \A s \in run[p].batch, j \in run[p].accepted : shard'[j][s].version >= run[p].entry[s].version
          /\ \A s \in run[p].covered, j \in Shards : shard'[j][s].version >= run[p].entry[s].version
      BY <1>e, <1>t DEF IInv, AcceptedApplied, Applied
    <3>2. run[p] \in Run
      BY <1>t
    <3>3. CASE run'[p] = [run[p] EXCEPT !.accepted = run[p].accepted \cup {k}]
      BY <3>1, <3>2, <3>3, <1>e DEF Applied, Run
    <3>4. CASE /\ run'[p] = [run[p] EXCEPT !.batch = {}, !.accepted = {},
                           !.covered = run[p].covered \cup run[p].batch,
                           !.spent = run[p].spent + ShardCount]
               /\ run[p].accepted \cup {k} = Shards
      <4>1. /\ run'[p].batch = {} /\ run'[p].covered = run[p].covered \cup run[p].batch
            /\ run'[p].entry = run[p].entry
        BY <3>2, <3>4 DEF Run
      <4> QED BY <4>1, <3>1, <3>4, <1>e DEF Applied
    <3> QED BY <3>3, <3>4, <1>r
  <2> QED BY <2>1, <2>2 DEF AcceptedApplied
<1>6. LatestOwed'
  <2> SUFFICES ASSUME NEW s \in Sessions, [seq |-> main[s].version, id |-> s] \notin outbox,
                      NEW j \in Shards
               PROVE  shard'[j][s] = main[s]
    BY <1>u DEF LatestOwed
  <2>1. shard[j][s] = main[s]
    BY DEF IInv, LatestOwed
  <2>2. run[p].entry[s].version <= main[s].version
    BY DEF IInv, AllBehind, Behind
  <2> QED BY <2>1, <2>2, <1>e, <1>t
<1> QED BY <1>1, <1>2, <1>3, <1>4, <1>5, <1>6 DEF IInv

(* A retirement deletes a session's latest entry only when every shard      *)
(* holds that version.                                                      *)
LEMMA RetireStep ==
  ASSUME IInv, TypeOK', NEW p \in Syncers, Retire(p)
  PROVE  IInv'
<1>t. /\ run \in [Syncers -> Run] /\ run[p] \in Run
      /\ \A s \in Sessions : run[p].entry[s].version \in Nat /\ main[s].version \in Nat
      /\ \A k \in Shards, s \in Sessions : shard[k][s].version \in Nat
      /\ run[p].covered \subseteq Sessions
  BY DEF IInv, TypeOK, Run, Copy
<1>u. UNCHANGED <<main, seq, shard>> /\ outbox' = outbox \ Retirable(p)
  BY DEF Retire
<1>r. /\ \A q \in Syncers \ {p} : run'[q] = run[q]
      /\ run'[p].batch = {} /\ run'[p].covered = {} /\ run'[p].large = {}
      /\ run'[p].accepted = {} /\ run'[p].unsent = {}
      /\ run'[p].entry = [s \in Sessions |-> NoCopy]
  BY <1>t DEF Retire, Idle
<1>1. \A q \in Syncers, s \in Sessions : run'[q].entry[s] \in {run[q].entry[s], main[s], NoCopy}
  BY <1>r
<1>2. AllBehind' /\ Counted' /\ Agree'
  BY <1>1, <1>u, ReadStep DEF IInv
<1>3. RoundShape'
  BY <1>r DEF IInv, RoundShape, Shape
<1>4. AcceptedApplied'
  BY <1>r, <1>u DEF IInv, AcceptedApplied, Applied
<1>5. LatestOwed'
  <2> SUFFICES ASSUME NEW s \in Sessions, [seq |-> main[s].version, id |-> s] \notin outbox',
                      NEW k \in Shards
               PROVE  shard[k][s] = main[s]
    BY <1>u DEF LatestOwed
  <2>1. CASE [seq |-> main[s].version, id |-> s] \notin outbox
    BY <2>1 DEF IInv, LatestOwed
  <2>2. CASE [seq |-> main[s].version, id |-> s] \in Retirable(p)
    <3>1. s \in run[p].covered /\ main[s].version <= run[p].entry[s].version
      BY <2>2 DEF Retirable
    <3>2. shard[k][s].version >= run[p].entry[s].version
      BY <3>1 DEF IInv, AcceptedApplied, Applied
    <3>3. Behind(shard[k][s], s)
      BY DEF IInv, AllBehind
    <3> QED BY <3>1, <3>2, <3>3, <1>t DEF Behind
  <2> QED BY <2>1, <2>2, <1>u
<1> QED BY <1>2, <1>3, <1>4, <1>5 DEF IInv

(* The invariant is inductive: one step per action. *)
LEMMA Inductive ==
  ASSUME IInv, TypeOK', [Next]_vars
  PROVE  IInv'
<1>t. /\ run \in [Syncers -> Run] /\ \A p \in Syncers : run[p] \in Run
      /\ \A p \in Syncers : run'[p] \in Run
      /\ \A p \in Syncers : Shape(run[p]) /\ Applied(run[p])
  BY DEF IInv, TypeOK, RoundShape, AcceptedApplied
<1>1. CASE Change
  BY <1>1, ChangeStep
<1>2. ASSUME NEW p \in Syncers, StartSync(p) \/ StartDrain(p) PROVE IInv'
  <2>1. PICK kind, ids : Start(p, kind, ids)
    BY <1>2 DEF StartSync, StartDrain
  <2>2. /\ run'[p].batch = {} /\ run'[p].covered = {} /\ run'[p].large = {}
        /\ run'[p].accepted = {} /\ run'[p].entry = [s \in Sessions |-> NoCopy]
    BY <1>t, <2>1 DEF Start, Idle
  <2>3. Shape(run'[p]) /\ Applied(run'[p])
    BY <2>2 DEF Shape, Applied
  <2>4. UNCHANGED <<main, outbox, seq, shard>> /\ run' = [run EXCEPT ![p] = run'[p]]
    BY <1>t, <2>1 DEF Start
  <2> QED BY <1>t, <2>2, <2>3, <2>4, LocalStep
<1>3. ASSUME NEW p \in Syncers, Capture(p) \/ Check(p) PROVE IInv'
  <2>1. /\ run'[p].batch = run[p].batch /\ run'[p].covered = run[p].covered
        /\ run'[p].large = run[p].large /\ run'[p].unsent = run[p].unsent
        /\ run'[p].accepted = run[p].accepted /\ run'[p].entry = run[p].entry
        /\ run[p].pc # "apply"
    <3>1. CASE Capture(p)
      <4>1. PICK pc, ids : run' = [run EXCEPT ![p] =
              [run[p] EXCEPT !.pc = pc, !.todo = ids, !.spent = 1]]
        BY <3>1 DEF Capture
      <4>2. run[p].pc # "apply"
        BY <3>1 DEF Capture
      <4> QED BY <1>t, <4>1, <4>2 DEF Run
    <3>2. CASE Check(p)
      <4>1. PICK pc : run' = [run EXCEPT ![p] =
              [run[p] EXCEPT !.pc = pc, !.spent = run[p].spent + 1]]
        BY <3>2 DEF Check
      <4>2. run[p].pc # "apply"
        BY <3>2 DEF Check
      <4> QED BY <1>t, <4>1, <4>2 DEF Run
    <3> QED BY <1>3, <3>1, <3>2
  <2>2. Shape(run'[p]) /\ Applied(run'[p])
    BY <1>t, <2>1 DEF Shape, Applied
  <2>3. UNCHANGED <<main, outbox, seq, shard>> /\ run' = [run EXCEPT ![p] = run'[p]]
    BY <1>t, <1>3 DEF Capture, Check
  <2> QED BY <1>t, <2>1, <2>2, <2>3, LocalStep
<1>4. ASSUME NEW p \in Syncers, ReadBulk(p) PROVE IInv'
  <2>1. UNCHANGED <<main, outbox, seq, shard>> /\ run' = [run EXCEPT ![p] = run'[p]]
    BY <1>t, <1>4 DEF ReadBulk
  <2>2. run[p].batch = {} /\ run[p].covered = {} /\ run[p].large = {} /\ run[p].accepted = {}
    BY <1>t, <1>4 DEF ReadBulk, Shape
  <2>3. CASE Affordable(p, 1 + ShardCount)
    <3>1. PICK ids : run' = [run EXCEPT ![p] =
             [run[p] EXCEPT !.pc = "apply", !.todo = run[p].todo \ ids,
                !.entry = [s \in Sessions |->
                   IF s \in ids \ {u \in ids : main[u].row \in LargeRows} THEN main[s] ELSE NoCopy],
                !.unsent = {s \in ids \ {u \in ids : main[u].row \in LargeRows} : main[s].version > 0},
                !.large = {u \in ids : main[u].row \in LargeRows}, !.spent = run[p].spent + 1]]
      BY <1>4, <2>3 DEF ReadBulk
    <3> DEFINE large == {u \in ids : main[u].row \in LargeRows}
               unsent == {s \in ids \ large : main[s].version > 0}
               entry == [s \in Sessions |-> IF s \in ids \ large THEN main[s] ELSE NoCopy]
    <3>2. large \cap unsent = {} /\ \A s \in Sessions : entry[s] \in {main[s], NoCopy}
      OBVIOUS
    <3>3. run' = [run EXCEPT ![p] =
             [run[p] EXCEPT !.pc = "apply", !.todo = run[p].todo \ ids, !.entry = entry,
                !.unsent = unsent, !.large = large, !.spent = run[p].spent + 1]]
      BY <3>1
    <3> HIDE DEF large, unsent, entry
    <3>4. /\ run'[p].pc = "apply" /\ run'[p].batch = {} /\ run'[p].covered = {}
          /\ run'[p].large = large /\ run'[p].unsent = unsent
          /\ run'[p].accepted = {} /\ run'[p].entry = entry
      BY <1>t, <2>2, <3>3 DEF Run
    <3>5. Shape(run'[p]) /\ Applied(run'[p])
      BY <3>2, <3>4 DEF Shape, Applied
    <3> QED BY <1>t, <2>1, <3>2, <3>4, <3>5, LocalStep
  <2>4. CASE ~Affordable(p, 1 + ShardCount)
    <3>1. /\ run'[p].batch = {} /\ run'[p].covered = {} /\ run'[p].large = {}
          /\ run'[p].accepted = {} /\ run'[p].entry = run[p].entry
      <4>1. run' = [run EXCEPT ![p] = [run[p] EXCEPT !.pc = "pending"]]
        BY <1>4, <2>4 DEF ReadBulk
      <4> QED BY <1>t, <2>2, <4>1 DEF Run
    <3>2. Shape(run'[p]) /\ Applied(run'[p])
      BY <3>1 DEF Shape, Applied
    <3> QED BY <1>t, <2>1, <3>1, <3>2, LocalStep
  <2> QED BY <2>3, <2>4
<1>5. ASSUME NEW p \in Syncers, StartBatch(p) PROVE IInv'
  <2>1. UNCHANGED <<main, outbox, seq, shard>> /\ run' = [run EXCEPT ![p] = run'[p]]
    BY <1>t, <1>5 DEF StartBatch
  <2>2. /\ run'[p].pc = "apply" /\ run'[p].batch \cup run'[p].unsent \subseteq run[p].unsent
        /\ run'[p].covered = run[p].covered /\ run'[p].large = run[p].large
        /\ run'[p].accepted = {} /\ run'[p].entry = run[p].entry
    <3>1. run[p].pc = "apply" /\ run[p].batch = {} /\ run[p].accepted = {}
      BY <1>t, <1>5 DEF StartBatch, Between, Shape
    <3>2. CASE run' = [run EXCEPT ![p] = [run[p] EXCEPT !.exhausted = TRUE]]
      BY <1>t, <3>1, <3>2 DEF Run
    <3>3. CASE \E ids \in SUBSET run[p].unsent :
                 run' = [run EXCEPT ![p] = [run[p] EXCEPT !.batch = ids, !.unsent = run[p].unsent \ ids]]
      BY <1>t, <3>1, <3>3 DEF Run
    <3> QED BY <1>5, <3>2, <3>3 DEF StartBatch
  <2>3. Shape(run'[p]) /\ Applied(run'[p])
    BY <1>t, <2>2 DEF Shape, Applied
  <2> QED BY <1>t, <2>1, <2>2, <2>3, LocalStep
<1>6. ASSUME NEW p \in Syncers, ReadLarge(p) PROVE IInv'
  <2>1. UNCHANGED <<main, outbox, seq, shard>> /\ run' = [run EXCEPT ![p] = run'[p]]
    BY <1>t, <1>6 DEF ReadLarge
  <2>2. run[p].pc = "apply" /\ run[p].batch = {} /\ run[p].accepted = {}
    BY <1>t, <1>6 DEF ReadLarge, Between, Shape
  <2>3. CASE run' = [run EXCEPT ![p] = [run[p] EXCEPT !.exhausted = TRUE]]
    <3>1. /\ run'[p].pc = "apply" /\ run'[p].batch = {} /\ run'[p].unsent = run[p].unsent
          /\ run'[p].covered = run[p].covered /\ run'[p].large = run[p].large
          /\ run'[p].accepted = {} /\ run'[p].entry = run[p].entry
      BY <1>t, <2>2, <2>3 DEF Run
    <3>2. Shape(run'[p]) /\ Applied(run'[p])
      BY <1>t, <3>1 DEF Shape, Applied
    <3> QED BY <1>t, <2>1, <3>1, <3>2, LocalStep
  <2>4. CASE \E s \in run[p].large : run' = [run EXCEPT ![p] =
               [run[p] EXCEPT !.entry = [run[p].entry EXCEPT ![s] = main[s]],
                              !.batch = {s}, !.large = run[p].large \ {s},
                              !.spent = run[p].spent + 1]]
    <3>1. PICK s \in run[p].large : run' = [run EXCEPT ![p] =
               [run[p] EXCEPT !.entry = [run[p].entry EXCEPT ![s] = main[s]],
                              !.batch = {s}, !.large = run[p].large \ {s},
                              !.spent = run[p].spent + 1]]
      BY <2>4
    <3>2. /\ run'[p].pc = "apply" /\ run'[p].batch = {s} /\ run'[p].unsent = run[p].unsent
          /\ run'[p].covered = run[p].covered /\ run'[p].large = run[p].large \ {s}
          /\ run'[p].accepted = {} /\ run'[p].entry = [run[p].entry EXCEPT ![s] = main[s]]
      BY <1>t, <2>2, <3>1 DEF Run
    <3>3. s \notin run[p].covered /\ run[p].entry \in [Sessions -> Copy]
      BY <1>t DEF Shape, Run
    <3>4. \A u \in Sessions : run'[p].entry[u] \in {run[p].entry[u], main[u], NoCopy}
      BY <3>2, <3>3
    <3>5. \A u \in run[p].covered : run'[p].entry[u] = run[p].entry[u]
      BY <1>t, <3>2, <3>3 DEF Run
    <3>6. Shape(run'[p]) /\ Applied(run'[p])
      BY <1>t, <3>2, <3>5 DEF Shape, Applied
    <3> QED BY <1>t, <2>1, <3>4, <3>6, LocalStep
  <2> QED BY <1>6, <2>3, <2>4 DEF ReadLarge
<1>7. ASSUME NEW p \in Syncers, Return(p) \/ Fail(p) PROVE IInv'
  <2>1. UNCHANGED <<main, outbox, seq, shard>> /\ run' = [run EXCEPT ![p] = Idle]
    BY <1>7 DEF Return, Fail
  <2>2. Shape(Idle) /\ Applied(Idle) /\ \A s \in Sessions : Idle.entry[s] = NoCopy
    BY DEF Shape, Applied, Idle
  <2> QED BY <2>1, <2>2, IdleIsRun, LocalStep
<1>8. CASE UNCHANGED vars
  BY <1>8 DEF vars, IInv, TypeOK, AllBehind, Behind, Counted, Agree, RoundShape, Shape,
              AcceptedApplied, Applied, LatestOwed
<1> QED BY <1>1, <1>2, <1>3, <1>4, <1>5, <1>6, <1>7, <1>8, ApplyStep, RetireStep
        DEF Next, Step

(* The invariant holds of every reachable state. *)
THEOREM Invariance == Spec => []IInv
<1>1. Init => IInv
  <2> SUFFICES ASSUME Init PROVE IInv
    OBVIOUS
  <2>1. TypeOK
    BY IdleIsRun DEF Init, TypeOK, Entry
  <2>2. AllBehind /\ Counted /\ Agree /\ LatestOwed
    <3>1. /\ \A s \in Sessions : main[s] = NoCopy
          /\ \A p \in Syncers, s \in Sessions : run[p].entry[s] = NoCopy
          /\ \A k \in Shards, s \in Sessions : shard[k][s] = NoCopy
          /\ seq = 0 /\ NoCopy.version = 0
      BY DEF Init, Idle, NoCopy
    <3> QED BY <3>1 DEF AllBehind, Behind, Counted, Agree, LatestOwed
  <2>3. RoundShape /\ AcceptedApplied
    BY DEF Init, RoundShape, Shape, AcceptedApplied, Applied, Idle
  <2> QED BY <2>1, <2>2, <2>3 DEF IInv
<1>2. IInv /\ TypeOK' /\ [Next]_vars => IInv'
  BY Inductive
<1> QED BY <1>1, <1>2, TypeCorrect, PTL DEF Spec

(* A session that owes no outbox entry is on every shard exactly as main    *)
(* holds it, so a search that finds the outbox empty reads no stale row,    *)
(* star or cost.                                                            *)
THEOREM CompleteWhenRetired == Spec => []CatalogIsSound
<1>1. IInv => CatalogIsSound
  BY DEF IInv, LatestOwed, OutboxComplete, CatalogIsSound
<1> QED BY <1>1, Invariance, PTL

(* No late, duplicated or concurrent sync moves a shard backwards or        *)
(* rewrites a version with other contents.                                  *)
THEOREM ShardsMoveForward == Spec => NoRegression
<1>1. ASSUME IInv, [Next]_vars
      PROVE  [\A k \in Shards, s \in Sessions :
                shard'[k][s] # shard[k][s] => shard'[k][s].version > shard[k][s].version]_vars
  <2>1. CASE \E p \in Syncers, k \in Shards : ApplyShard(p, k)
    <3>1. PICK p \in Syncers, k \in Shards : ApplyShard(p, k)
      BY <2>1
    <3> QED BY <1>1, <3>1, ApplyEffect
  <2>2. CASE UNCHANGED shard
    BY <2>2
  <2>3. UNCHANGED shard \/ \E p \in Syncers, k \in Shards : ApplyShard(p, k)
    BY <1>1 DEF Next, Step, Change, WriteSession, DeleteSession, Star, Unstar, Stamp, StartSync,
                StartDrain, Start, Capture, ReadBulk, StartBatch, ReadLarge, Retire, Check,
                Return, Fail, vars
  <2> QED BY <2>1, <2>2, <2>3
<1> QED BY <1>1, Invariance, PTL DEF Spec, NoRegression

(* The propagation implements the forward-moving replica: a trigger is a    *)
(* change, a shard batch an advance, a retirement a settlement, and every   *)
(* other D1 call is invisible.                                              *)
THEOREM Refinement == Spec => ImplementsReplica
<1>1. Init => Replica!Init
  BY DEF Init, Replica!Init, Owed
<1>2. ASSUME IInv, IInv', [Next]_vars
      PROVE  [Replica!Next]_(Replica!vars)
  <2>1. CASE Change
    <3>0. PICK s \in Sessions : \E row, stars : Stamp(s, row, stars)
      BY <2>1 DEF Change, WriteSession, DeleteSession, Star, Unstar
    <3>1. PICK row, stars : Stamp(s, row, stars)
      BY <3>0
    <3>2. /\ main \in [Sessions -> Copy] /\ main' \in [Sessions -> Copy]
          /\ seq \in Nat /\ main[s].version \in Nat /\ main[s].version <= seq
      BY <1>2 DEF IInv, TypeOK, Copy, Counted
    <3>3. /\ main'[s].version = seq + 1
          /\ \A u \in Sessions \ {s} : main'[u] = main[u]
          /\ UNCHANGED shard
      BY <3>1, <3>2 DEF Stamp
    <3>4. Owed' = Owed \cup {s}
      <4> DEFINE new == [seq |-> seq + 1, id |-> s]
      <4>1. outbox' = outbox \cup {new} /\ new.id = s
        BY <3>1 DEF Stamp
      <4> HIDE DEF new
      <4>2. \A u \in Sessions : (\E o \in outbox' : o.id = u) <=> (\E o \in outbox : o.id = u) \/ u = s
        BY <4>1
      <4> QED BY <4>2 DEF Owed
    <3>5. Replica!Change(s)
      BY <3>2, <3>3, <3>4 DEF Replica!Change
    <3> QED BY <3>5 DEF Replica!Next
  <2>2. CASE \E p \in Syncers, k \in Shards : ApplyShard(p, k)
    <3>1. PICK p \in Syncers, k \in Shards : ApplyShard(p, k)
      BY <2>2
    <3>2. UNCHANGED <<main, outbox>>
      BY <3>1 DEF ApplyShard, AcceptedByAll
    <3>3. UNCHANGED Owed
      BY <3>2 DEF Owed
    <3>4. /\ shard \in [Shards -> [Sessions -> Copy]] /\ shard' \in [Shards -> [Sessions -> Copy]]
      BY <1>2 DEF IInv, TypeOK
    <3>5. \A j \in Shards \ {k} : shard'[j] = shard[j]
      BY <3>1, <3>4 DEF ApplyShard, AcceptedByAll
    <3>6. ASSUME NEW s \in Sessions, shard'[k][s] # shard[k][s]
          PROVE  /\ shard[k][s].version < shard'[k][s].version
                 /\ shard'[k][s].version <= main[s].version
                 /\ shard'[k][s].version = main[s].version => shard'[k][s] = main[s]
      <4>1. shard'[k][s].version > shard[k][s].version
        BY <1>2, <3>1, <3>6, ApplyEffect
      <4>2. Behind(shard[k][s], s)'
        BY <1>2 DEF IInv, AllBehind
      <4>3. shard[k][s].version \in Nat /\ shard'[k][s].version \in Nat
        BY <3>4 DEF Copy
      <4> QED BY <4>1, <4>2, <4>3, <3>2 DEF Behind
    <3>7. Replica!Advance(k)
      BY <3>2, <3>3, <3>4, <3>5, <3>6 DEF Replica!Advance
    <3> QED BY <3>7 DEF Replica!Next
  <2>3. CASE \E p \in Syncers : Retire(p)
    <3>1. UNCHANGED <<main, shard>> /\ outbox' \subseteq outbox
      BY <2>3 DEF Retire
    <3> DEFINE settled == Owed \ Owed'
    <3>2. Owed' = Owed \ settled
      BY <3>1 DEF Owed
    <3>3. \A s \in settled, k \in Shards : shard[k][s] = main[s]
      <4> SUFFICES ASSUME NEW s \in settled, NEW k \in Shards PROVE shard[k][s] = main[s]
        OBVIOUS
      <4>1. s \in Sessions /\ ~ \E o \in outbox' : o.id = s
        BY DEF Owed
      <4>2. [seq |-> main'[s].version, id |-> s] \notin outbox'
        BY <4>1
      <4>3. shard'[k][s] = main'[s]
        BY <1>2, <4>1, <4>2 DEF IInv, LatestOwed
      <4> QED BY <3>1, <4>3
    <3>4. Replica!Settle(settled)
      BY <3>1, <3>2, <3>3 DEF Replica!Settle
    <3>5. settled \in SUBSET Sessions
      BY DEF Owed
    <3> QED BY <3>4, <3>5 DEF Replica!Next
  <2>4. CASE UNCHANGED <<main, outbox, shard>>
    BY <2>4 DEF Replica!vars, Owed
  <2>5. \/ Change \/ \E p \in Syncers, k \in Shards : ApplyShard(p, k)
        \/ \E p \in Syncers : Retire(p)
        \/ UNCHANGED <<main, outbox, shard>>
    BY <1>2 DEF Next, Step, StartSync, StartDrain, Start, Capture, ReadBulk, StartBatch,
                ReadLarge, Check, Return, Fail, vars
  <2> QED BY <2>1, <2>2, <2>3, <2>4, <2>5
<1> QED BY <1>1, <1>2, Invariance, PTL DEF Spec, ImplementsReplica, Replica!Spec
-----------------------------------------------------------------------------
(* What a sync or a drain answers.                                          *)

(* Every shard has the session at least as main had it when p began. *)
Fresh(p, s) == \A k \in Shards : shard[k][s].version >= floor[p][s]

FloorsHold == \A p \in Syncers, s \in Sessions : floor[p][s] <= main[s].version

(* What this round read is no older than what main held when p began. *)
ReadSince(p) ==
  \A s \in run[p].unsent \cup run[p].batch \cup run[p].covered : run[p].entry[s].version >= floor[p][s]

(* Each id that was asked for is still to be taken, is somewhere in this    *)
(* round, or is fresh on every shard.                                       *)
Accounted(p) ==
  \A s \in run[p].asked :
    /\ run[p].pc = "current" => Fresh(p, s)
    /\ run[p].pc = "read" /\ run[p].kind = "sync" => s \in run[p].todo \/ Fresh(p, s)
    /\ run[p].pc = "apply" /\ run[p].kind = "sync" =>
         \/ s \in run[p].todo \cup run[p].unsent \cup run[p].large \cup run[p].batch \cup run[p].covered
         \/ Fresh(p, s)

ReserveOf(r) == IF r.kind = "drain" THEN 2 ELSE 1

(* What is spent and what the round still has to pay for fit the allowance. *)
Paid(r) ==
  /\ r.spent <= MaxSubrequests
  /\ r.pc = "apply" => r.spent + ReserveOf(r) + (IF r.batch = {} THEN 0 ELSE ShardCount) <= MaxSubrequests
  /\ r.pc = "check" => r.spent + 1 <= MaxSubrequests

Honest(p) ==
  /\ ReadSince(p) /\ Accounted(p) /\ Paid(run[p])
  /\ run[p].pc = "capture" => run[p].kind = "drain"

HonestInv == FloorsHold /\ \A p \in Syncers : Honest(p)

(* No step moves a shard backwards. *)
LEMMA ForwardStep ==
  ASSUME IInv, [Next]_vars
  PROVE  \A k \in Shards, s \in Sessions :
           shard'[k][s] # shard[k][s] => shard'[k][s].version > shard[k][s].version
<1>1. CASE \E p \in Syncers, k \in Shards : ApplyShard(p, k)
  <2>1. PICK p \in Syncers, k \in Shards : ApplyShard(p, k)
    BY <1>1
  <2> QED BY <2>1, ApplyEffect
<1>2. UNCHANGED shard \/ \E p \in Syncers, k \in Shards : ApplyShard(p, k)
  BY DEF Next, Step, Change, WriteSession, DeleteSession, Star, Unstar, Stamp, StartSync,
         StartDrain, Start, Capture, ReadBulk, StartBatch, ReadLarge, Retire, Check,
         Return, Fail, vars
<1> QED BY <1>1, <1>2

(* Main's versions only grow, and one invocation acts at a time. *)
LEMMA MainGrows ==
  ASSUME IInv, [Next]_vars
  PROVE  /\ \A s \in Sessions : main'[s].version >= main[s].version
         /\ \/ UNCHANGED <<run, floor>>
            \/ /\ UNCHANGED main
               /\ \E p \in Syncers :
                    /\ StartSync(p) \/ StartDrain(p) \/ Step(p) \/ Fail(p)
                    /\ \A q \in Syncers \ {p} : run'[q] = run[q] /\ floor'[q] = floor[q]
<1>t. /\ main \in [Sessions -> Copy] /\ run \in [Syncers -> Run] /\ floor \in [Syncers -> [Sessions -> Nat]]
      /\ \A s \in Sessions : main[s].version \in Nat /\ main[s].version <= seq
      /\ seq \in Nat
  BY DEF IInv, TypeOK, Copy, Counted
<1>1. ASSUME Change
      PROVE  UNCHANGED <<run, floor>> /\ \A s \in Sessions : main'[s].version >= main[s].version
  <2>0. PICK s \in Sessions : \E row, stars : Stamp(s, row, stars)
    BY <1>1 DEF Change, WriteSession, DeleteSession, Star, Unstar
  <2>1. PICK row, stars : Stamp(s, row, stars)
    BY <2>0
  <2>2. main'[s].version = seq + 1 /\ \A u \in Sessions \ {s} : main'[u] = main[u]
    BY <1>t, <2>1 DEF Stamp
  <2> QED BY <1>t, <2>1, <2>2 DEF Stamp
<1>2. ASSUME NEW p \in Syncers, StartSync(p) \/ StartDrain(p) \/ Step(p) \/ Fail(p)
      PROVE  /\ UNCHANGED main
             /\ \A q \in Syncers \ {p} : run'[q] = run[q] /\ floor'[q] = floor[q]
  <2>1. UNCHANGED main
    BY <1>2 DEF StartSync, StartDrain, Start, Step, Capture, ReadBulk, StartBatch, ReadLarge, ApplyShard, Retire,
                Check, Return, Fail, AcceptedByAll
  <2>2. \E r : run' = [run EXCEPT ![p] = r]
    BY <1>2 DEF StartSync, StartDrain, Start, Step, Capture, ReadBulk, StartBatch, ReadLarge, ApplyShard, Retire,
                Check, Return, Fail, AcceptedByAll
  <2>3. UNCHANGED floor \/ \E f : floor' = [floor EXCEPT ![p] = f]
    BY <1>2 DEF StartSync, StartDrain, Start, Step, Capture, ReadBulk, StartBatch, ReadLarge, ApplyShard, Retire,
                Check, Return, Fail, AcceptedByAll
  <2> QED BY <1>t, <2>1, <2>2, <2>3
<1> QED BY <1>t, <1>1, <1>2 DEF Next, vars

LEMMA HonestInit == Init => HonestInv
<1> SUFFICES ASSUME Init PROVE FloorsHold /\ \A p \in Syncers : Honest(p)
  BY DEF HonestInv
<1>1. /\ \A p \in Syncers : /\ run[p].pc = "idle" /\ run[p].spent = 0 /\ run[p].unsent = {}
                             /\ run[p].batch = {} /\ run[p].covered = {}
      /\ \A p \in Syncers, s \in Sessions : floor[p][s] = 0
      /\ \A s \in Sessions : main[s].version = 0
  BY DEF Init, Idle, NoCopy
<1> QED BY <1>1, CatalogAssumption DEF FloorsHold, Honest, ReadSince, Accounted, Paid

LEMMA HonestStep ==
  ASSUME IInv, HonestInv, TypeOK', [Next]_vars
  PROVE  HonestInv'
<1>i. IInv /\ TypeOK /\ FloorsHold /\ \A p \in Syncers : Honest(p) /\ Shape(run[p]) /\ Applied(run[p])
  BY DEF HonestInv, IInv, RoundShape, AcceptedApplied
<1>t. /\ run \in [Syncers -> Run] /\ floor \in [Syncers -> [Sessions -> Nat]] /\ main \in [Sessions -> Copy]
      /\ \A p \in Syncers : run[p] \in Run /\ run'[p] \in Run /\ run[p].entry \in [Sessions -> Copy]
      /\ \A p \in Syncers : run[p].spent \in Nat /\ run[p].asked \subseteq Sessions /\ run[p].kind \in {"sync", "drain"}
      /\ \A p \in Syncers : run[p].unsent \cup run[p].large \cup run[p].batch \cup run[p].covered \subseteq Sessions
      /\ \A p \in Syncers, s \in Sessions : /\ floor[p][s] \in Nat /\ floor'[p][s] \in Nat
                                            /\ run[p].entry[s].version \in Nat
      /\ \A s \in Sessions : main[s].version \in Nat /\ main'[s].version \in Nat
      /\ \A k \in Shards, s \in Sessions : shard[k][s].version \in Nat /\ shard'[k][s].version \in Nat
      /\ ShardCount \in Nat /\ MaxSubrequests \in Nat /\ MaxSubrequests >= 1
  BY <1>i, CatalogAssumption, ShardCountIsNat DEF TypeOK, Run, Copy
<1>u. run \in [Syncers -> Run] /\ \A p \in Syncers : run[p] \in Run
  BY <1>t
<1>g. /\ \A s \in Sessions : main'[s].version >= main[s].version
      /\ \A k \in Shards, s \in Sessions : shard'[k][s].version >= shard[k][s].version
  BY <1>i, <1>t, MainGrows, ForwardStep
<1>f. ASSUME NEW p \in Syncers, NEW s \in Sessions, floor'[p] = floor[p], Fresh(p, s) PROVE Fresh(p, s)'
  BY <1>f, <1>g, <1>t DEF Fresh
<1>o. ASSUME NEW p \in Syncers, run'[p] = run[p], floor'[p] = floor[p] PROVE Honest(p)'
  <2>1. Honest(p) /\ \A s \in run[p].asked : Fresh(p, s) => Fresh(p, s)'
    BY <1>f, <1>i, <1>o, <1>t
  <2>2. ReadSince(p)'
    BY <1>o, <2>1 DEF Honest, ReadSince
  <2>3. Accounted(p)'
    BY <1>o, <2>1 DEF Honest, Accounted
  <2> QED BY <1>o, <2>1, <2>2, <2>3 DEF Honest
<1>1. ASSUME NEW p \in Syncers, StartSync(p) \/ StartDrain(p) PROVE Honest(p)' /\ floor'[p] = [s \in Sessions |-> main[s].version]
  <2>1. PICK kind \in {"sync", "drain"}, ids \in SUBSET Sessions : Start(p, kind, ids)
    BY <1>1 DEF StartSync, StartDrain
  <2>2. /\ run'[p].pc = IF kind = "sync" THEN "read" ELSE "capture"
        /\ run'[p].kind = kind /\ run'[p].asked = ids /\ (kind = "sync" => run'[p].todo = ids)
        /\ run'[p].spent = 0 /\ run'[p].unsent = {} /\ run'[p].batch = {} /\ run'[p].covered = {}
    BY <1>t, <2>1 DEF Start, Idle
  <2>3. floor'[p] = [s \in Sessions |-> main[s].version]
    BY <1>t, <2>1 DEF Start
  <2> QED BY <1>t, <2>2, <2>3 DEF Honest, ReadSince, Accounted, Paid
<1>e. ASSUME NEW p \in Syncers, outbox = {}, UNCHANGED <<shard, floor>>
      PROVE  \A s \in Sessions : Fresh(p, s)'
  <2>1. \A s \in Sessions, k \in Shards : shard[k][s] = main[s]
    BY <1>e, <1>i DEF IInv, LatestOwed
  <2>2. \A s \in Sessions : floor[p][s] <= main[s].version
    BY <1>i DEF FloorsHold
  <2> QED BY <1>e, <1>t, <2>1, <2>2 DEF Fresh
<1>2. ASSUME NEW p \in Syncers, Capture(p) \/ Check(p) PROVE Honest(p)'
  <2>1. UNCHANGED <<shard, floor>>
    BY <1>2 DEF Capture, Check
  <2>2. /\ run'[p].unsent = run[p].unsent /\ run'[p].batch = {} /\ run'[p].covered = {}
        /\ run'[p].entry = run[p].entry /\ run'[p].asked = run[p].asked /\ run'[p].kind = run[p].kind
        /\ run'[p].pc \in {"current", "read", "pending"} /\ (run'[p].pc = "current" => outbox = {})
        /\ (run'[p].pc = "read" => Capture(p))
        /\ run'[p].spent = 1 \/ (run[p].pc = "check" /\ run'[p].spent = run[p].spent + 1)
    <3>1. CASE Capture(p)
      <4>1. PICK pc \in {"current", "read"} :
              /\ run' = [run EXCEPT ![p] = [run[p] EXCEPT !.pc = pc, !.todo = Captured, !.spent = 1]]
              /\ pc = "current" => outbox = {}
        BY <3>1 DEF Capture
      <4>2. run[p].pc = "capture"
        BY <3>1 DEF Capture
      <4>3. run[p].batch = {} /\ run[p].covered = {}
        BY <1>i, <4>2 DEF Shape
      <4>4. /\ run'[p].pc = pc /\ run'[p].unsent = run[p].unsent /\ run'[p].batch = run[p].batch
            /\ run'[p].covered = run[p].covered /\ run'[p].entry = run[p].entry
            /\ run'[p].asked = run[p].asked /\ run'[p].kind = run[p].kind /\ run'[p].spent = 1
        BY <1>u, <4>1 DEF Run
      <4> QED BY <3>1, <4>1, <4>3, <4>4
    <3>2. CASE Check(p)
      <4>1. PICK pc \in {"current", "pending"}, n \in {run[p].spent + 1} :
              /\ run' = [run EXCEPT ![p] = [run[p] EXCEPT !.pc = pc, !.spent = n]]
              /\ pc = "current" => outbox = {}
        BY <3>2 DEF Check
      <4>2. run[p].pc = "check"
        BY <3>2 DEF Check
      <4>3. run[p].batch = {} /\ run[p].covered = {}
        BY <1>i, <4>2 DEF Shape
      <4>4. /\ run'[p].pc = pc /\ run'[p].unsent = run[p].unsent /\ run'[p].batch = run[p].batch
            /\ run'[p].covered = run[p].covered /\ run'[p].entry = run[p].entry
            /\ run'[p].asked = run[p].asked /\ run'[p].kind = run[p].kind /\ run'[p].spent = n
        BY <1>u, <4>1 DEF Run
      <4> QED BY <4>1, <4>2, <4>3, <4>4
    <3> QED BY <1>2, <3>1, <3>2
  <2>3. run'[p].spent <= MaxSubrequests
    BY <1>i, <1>t, <2>2 DEF Honest, Paid
  <2>4. ReadSince(p)'
    BY <1>i, <1>t, <2>1, <2>2 DEF Honest, ReadSince
  <2>5. Capture(p) => run[p].kind = "drain"
    BY <1>i DEF Capture, Honest
  <2>6. Accounted(p)'
    BY <1>e, <1>t, <2>1, <2>2, <2>5 DEF Accounted
  <2> QED BY <2>2, <2>3, <2>4, <2>6 DEF Honest, Paid
<1>9. ASSUME NEW p \in Syncers, Return(p) \/ Fail(p) PROVE Honest(p)' /\ floor'[p] = [s \in Sessions |-> 0]
  <2>1. run'[p] = Idle /\ floor'[p] = [s \in Sessions |-> 0]
    BY <1>9, <1>t DEF Return, Fail
  <2> QED BY <1>t, <2>1 DEF Idle, Honest, ReadSince, Accounted, Paid
<1>3. ASSUME NEW p \in Syncers, ReadBulk(p) PROVE Honest(p)'
  <2>1. UNCHANGED <<main, shard, floor>> /\ run[p].pc = "read" /\ run[p].batch = {} /\ run[p].covered = {}
    BY <1>3, <1>i DEF ReadBulk, Shape
  <2>2. CASE Affordable(p, 1 + ShardCount)
    <3> DEFINE Large(ids) == {s \in ids : main[s].row \in LargeRows}
               Small(ids) == {s \in ids \ Large(ids) : main[s].version > 0}
               Snapshot(ids) == [s \in Sessions |-> IF s \in ids \ Large(ids) THEN main[s] ELSE NoCopy]
    <3>1. PICK ids \in SUBSET run[p].todo :
            run' = [run EXCEPT ![p] =
              [run[p] EXCEPT !.pc = "apply", !.todo = run[p].todo \ ids, !.entry = Snapshot(ids),
                 !.unsent = Small(ids), !.large = Large(ids), !.spent = run[p].spent + 1]]
      BY <1>3, <2>2 DEF ReadBulk, Rounds
    <3>2. /\ \A s \in ids : s \in Sessions => s \in Small(ids) \/ s \in Large(ids) \/ main[s].version = 0
          /\ \A s \in Small(ids) : s \in Sessions => Snapshot(ids)[s] = main[s]
      BY <1>t
    <3> HIDE DEF Large, Small, Snapshot
    <3>3. /\ run'[p].pc = "apply" /\ run'[p].todo = run[p].todo \ ids /\ run'[p].entry = Snapshot(ids)
          /\ run'[p].unsent = Small(ids) /\ run'[p].large = Large(ids) /\ run'[p].spent = run[p].spent + 1
          /\ run'[p].batch = {} /\ run'[p].covered = {} /\ run'[p].kind = run[p].kind /\ run'[p].asked = run[p].asked
      BY <1>t, <2>1, <3>1 DEF Run
    <3>4. \A s \in Sessions : floor'[p][s] <= main[s].version
      BY <1>i, <2>1 DEF FloorsHold
    <3>5. ReadSince(p)'
      <4>1. Small(ids) \subseteq Sessions
        BY <1>t, <3>3 DEF Run
      <4> QED BY <1>t, <3>2, <3>3, <3>4, <4>1 DEF ReadSince
    <3>6. Accounted(p)'
      <4>1. ASSUME NEW s \in run[p].asked, run[p].kind = "sync"
            PROVE  s \in run'[p].todo \cup run'[p].unsent \cup run'[p].large \/ Fresh(p, s)'
        <5>1. s \in run[p].todo \/ Fresh(p, s)
          BY <1>i, <2>1, <4>1 DEF Honest, Accounted
        <5>2. CASE Fresh(p, s)
          BY <1>f, <1>t, <2>1, <5>2
        <5>3. CASE s \in Sessions /\ main[s].version = 0
          BY <1>t, <2>1, <3>4, <5>3 DEF Fresh
        <5> QED BY <1>t, <3>2, <3>3, <5>1, <5>2, <5>3
      <4> QED BY <3>3, <4>1 DEF Accounted
    <3>7. Paid(run'[p])
      BY <1>t, <2>2, <3>3 DEF Paid, ReserveOf, Affordable, Reserve
    <3> QED BY <3>3, <3>5, <3>6, <3>7 DEF Honest
  <2>3. CASE ~Affordable(p, 1 + ShardCount)
    <3>1. run' = [run EXCEPT ![p] = [run[p] EXCEPT !.pc = "pending"]]
      BY <1>3, <2>3 DEF ReadBulk
    <3>2. /\ run'[p].pc = "pending" /\ run'[p].spent = run[p].spent /\ run'[p].unsent = run[p].unsent
          /\ run'[p].batch = {} /\ run'[p].covered = {} /\ run'[p].entry = run[p].entry
      BY <1>t, <2>1, <3>1 DEF Run
    <3>3. ReadSince(p)'
      BY <1>i, <1>t, <2>1, <3>2 DEF Honest, ReadSince
    <3> QED BY <1>i, <3>2, <3>3 DEF Honest, Accounted, Paid
  <2> QED BY <2>2, <2>3
(* Steps inside a round that keep what is known of each id. *)
<1>r. ASSUME NEW p \in Syncers, UNCHANGED floor, run[p].pc = "apply", run'[p].pc = "apply",
             run'[p].kind = run[p].kind, run'[p].asked = run[p].asked,
             run[p].todo \cup run[p].unsent \cup run[p].large \cup run[p].batch \cup run[p].covered
               \subseteq run'[p].todo \cup run'[p].unsent \cup run'[p].large \cup run'[p].batch \cup run'[p].covered
      PROVE  Accounted(p)'
  <2>1. \A s \in run[p].asked : Fresh(p, s) => Fresh(p, s)'
    BY <1>f, <1>r, <1>t
  <2> QED BY <1>i, <1>r, <2>1 DEF Honest, Accounted
<1>4. ASSUME NEW p \in Syncers, StartBatch(p) PROVE Honest(p)'
  <2>1. UNCHANGED floor /\ run[p].pc = "apply" /\ run[p].batch = {}
    BY <1>4 DEF StartBatch, Between
  <2>2. /\ run'[p].pc = "apply" /\ run'[p].kind = run[p].kind /\ run'[p].asked = run[p].asked
        /\ run'[p].todo = run[p].todo /\ run'[p].large = run[p].large /\ run'[p].covered = run[p].covered
        /\ run'[p].entry = run[p].entry /\ run'[p].spent = run[p].spent
        /\ run'[p].unsent \cup run'[p].batch = run[p].unsent
        /\ run'[p].batch = {} \/ Affordable(p, ShardCount)
    <3>1. CASE run' = [run EXCEPT ![p] = [run[p] EXCEPT !.exhausted = TRUE]]
      BY <1>t, <2>1, <3>1 DEF Run
    <3>2. ASSUME NEW ids \in SUBSET run[p].unsent, Affordable(p, ShardCount),
                 run' = [run EXCEPT ![p] = [run[p] EXCEPT !.batch = ids, !.unsent = run[p].unsent \ ids]]
          PROVE  /\ run'[p].pc = "apply" /\ run'[p].kind = run[p].kind /\ run'[p].asked = run[p].asked
                 /\ run'[p].todo = run[p].todo /\ run'[p].large = run[p].large /\ run'[p].covered = run[p].covered
                 /\ run'[p].entry = run[p].entry /\ run'[p].spent = run[p].spent
                 /\ run'[p].unsent \cup run'[p].batch = run[p].unsent
      BY <1>t, <2>1, <3>2 DEF Run
    <3> QED BY <1>4, <3>1, <3>2 DEF StartBatch
  <2>3. ReadSince(p)'
    BY <1>i, <2>1, <2>2 DEF Honest, ReadSince
  <2>4. Accounted(p)'
    BY <1>r, <2>1, <2>2
  <2>5. Paid(run'[p])
    BY <1>i, <1>t, <2>1, <2>2 DEF Honest, Paid, ReserveOf, Affordable, Reserve
  <2> QED BY <2>2, <2>3, <2>4, <2>5 DEF Honest
<1>5. ASSUME NEW p \in Syncers, ReadLarge(p) PROVE Honest(p)'
  <2>1. UNCHANGED <<main, floor>> /\ run[p].pc = "apply" /\ run[p].batch = {} /\ run[p].unsent = {}
    BY <1>5 DEF ReadLarge, Between
  <2>2. /\ run'[p].pc = "apply" /\ run'[p].kind = run[p].kind /\ run'[p].asked = run[p].asked
        /\ run'[p].todo = run[p].todo /\ run'[p].unsent = {} /\ run'[p].covered = run[p].covered
        /\ run'[p].large \cup run'[p].batch = run[p].large
        /\ \A s \in Sessions : run'[p].entry[s] \in {run[p].entry[s], main[s]}
        /\ \A s \in run'[p].batch : run'[p].entry[s] = main[s]
        /\ \/ run'[p].batch = {} /\ run'[p].spent = run[p].spent
           \/ Affordable(p, 1 + ShardCount) /\ run'[p].spent = run[p].spent + 1
    <3>1. CASE run' = [run EXCEPT ![p] = [run[p] EXCEPT !.exhausted = TRUE]]
      BY <1>t, <2>1, <3>1 DEF Run
    <3>2. ASSUME NEW s \in run[p].large, Affordable(p, 1 + ShardCount),
                 run' = [run EXCEPT ![p] =
                   [run[p] EXCEPT !.entry = [run[p].entry EXCEPT ![s] = main[s]],
                      !.batch = {s}, !.large = run[p].large \ {s}, !.spent = run[p].spent + 1]]
          PROVE  /\ run'[p].pc = "apply" /\ run'[p].kind = run[p].kind /\ run'[p].asked = run[p].asked
                 /\ run'[p].todo = run[p].todo /\ run'[p].unsent = {} /\ run'[p].covered = run[p].covered
                 /\ run'[p].large \cup run'[p].batch = run[p].large
                 /\ \A u \in Sessions : run'[p].entry[u] \in {run[p].entry[u], main[u]}
                 /\ \A u \in run'[p].batch : run'[p].entry[u] = main[u]
                 /\ run'[p].spent = run[p].spent + 1
      <4> DEFINE entry == [run[p].entry EXCEPT ![s] = main[s]]
      <4>1. entry[s] = main[s] /\ \A u \in Sessions : entry[u] \in {run[p].entry[u], main[u]}
        BY <1>t, <3>2
      <4> HIDE DEF entry
      <4>2. run' = [run EXCEPT ![p] = [run[p] EXCEPT !.entry = entry,
                      !.batch = {s}, !.large = run[p].large \ {s}, !.spent = run[p].spent + 1]]
        BY <3>2 DEF entry
      <4>3. /\ run'[p].pc = "apply" /\ run'[p].kind = run[p].kind /\ run'[p].asked = run[p].asked
            /\ run'[p].todo = run[p].todo /\ run'[p].unsent = run[p].unsent /\ run'[p].covered = run[p].covered
            /\ run'[p].large = run[p].large \ {s} /\ run'[p].batch = {s} /\ run'[p].entry = entry
            /\ run'[p].spent = run[p].spent + 1
        BY <1>t, <2>1, <4>2 DEF Run
      <4> QED BY <2>1, <3>2, <4>1, <4>3
    <3> QED BY <1>5, <3>1, <3>2 DEF ReadLarge
  <2>3. ReadSince(p)'
    <3>1. \A s \in Sessions : main[s].version >= floor[p][s]
      BY <1>i, <1>t DEF FloorsHold
    <3>2. \A s \in run[p].covered : s \in Sessions /\ run[p].entry[s].version >= floor[p][s]
      BY <1>i, <1>t DEF Honest, ReadSince
    <3>3. run'[p].batch \subseteq Sessions
      BY <1>t, <2>2
    <3> QED BY <2>1, <2>2, <3>1, <3>2, <3>3 DEF ReadSince
  <2>4. Accounted(p)'
    BY <1>r, <2>1, <2>2
  <2>5. Paid(run'[p])
    BY <1>i, <1>t, <2>1, <2>2 DEF Honest, Paid, ReserveOf, Affordable, Reserve
  <2> QED BY <2>2, <2>3, <2>4, <2>5 DEF Honest
<1>6. ASSUME NEW p \in Syncers, NEW k \in Shards, ApplyShard(p, k) PROVE Honest(p)'
  <2>1. UNCHANGED floor /\ run[p].pc = "apply" /\ run[p].batch # {}
    BY <1>6, <1>i DEF ApplyShard, Shape, AcceptedByAll
  <2>2. /\ run'[p].pc = "apply" /\ run'[p].kind = run[p].kind /\ run'[p].asked = run[p].asked
        /\ run'[p].todo = run[p].todo /\ run'[p].unsent = run[p].unsent /\ run'[p].large = run[p].large
        /\ run'[p].entry = run[p].entry
        /\ run'[p].batch \cup run'[p].covered = run[p].batch \cup run[p].covered
        /\ \/ run'[p].batch = {} /\ run'[p].spent = run[p].spent + ShardCount
           \/ run'[p].batch = run[p].batch /\ run'[p].spent = run[p].spent
    BY <1>6, <1>t, <2>1 DEF ApplyShard, AcceptedByAll, Run
  <2>3. ReadSince(p)'
    BY <1>i, <2>1, <2>2 DEF Honest, ReadSince
  <2>4. Accounted(p)'
    BY <1>r, <2>1, <2>2
  <2>5. Paid(run'[p])
    BY <1>i, <1>t, <2>1, <2>2 DEF Honest, Paid, ReserveOf
  <2> QED BY <2>2, <2>3, <2>4, <2>5 DEF Honest
<1>7. ASSUME NEW p \in Syncers, Retire(p) PROVE Honest(p)'
  <2>1. /\ UNCHANGED <<floor, shard>> /\ run[p].pc = "apply" /\ run[p].batch = {}
        /\ run[p].exhausted \/ (run[p].unsent = {} /\ run[p].large = {})
    BY <1>7 DEF Retire, RoundDone
  <2> DEFINE spent == run[p].spent + (IF run[p].covered = {} THEN 0 ELSE 1)
  <2>2. /\ run'[p].pc = AfterRound(p) /\ run'[p].asked = run[p].asked /\ run'[p].kind = run[p].kind
        /\ run'[p].todo = run[p].todo /\ run'[p].spent = spent
        /\ run'[p].unsent = {} /\ run'[p].batch = {} /\ run'[p].covered = {}
    BY <1>7, <1>t DEF Retire, Idle
  <2>3. Accounted(p)'
    <3>1. ASSUME NEW s \in run[p].asked, ~run[p].exhausted, run[p].kind = "sync"
          PROVE  s \in run[p].todo \/ Fresh(p, s)'
      <4>1. s \in run[p].todo \/ s \in run[p].covered \/ Fresh(p, s)
        BY <1>i, <2>1, <3>1 DEF Honest, Accounted
      <4>2. CASE s \in run[p].covered
        <5>1. s \in Sessions /\ run[p].entry[s].version >= floor[p][s]
          BY <1>i, <1>t, <4>2 DEF Honest, ReadSince
        <5>2. \A k \in Shards : shard[k][s].version >= run[p].entry[s].version
          BY <1>i, <4>2 DEF Applied
        <5> QED BY <1>t, <2>1, <5>1, <5>2 DEF Fresh
      <4> QED BY <1>f, <1>t, <2>1, <4>1, <4>2
    <3>2. ASSUME NEW s \in run[p].asked
          PROVE  /\ run'[p].pc = "current" => Fresh(p, s)'
                 /\ run'[p].pc = "read" /\ run'[p].kind = "sync" => s \in run'[p].todo \/ Fresh(p, s)'
                 /\ run'[p].pc # "apply"
      BY <2>2, <3>1 DEF AfterRound
    <3> QED BY <2>2, <3>2 DEF Accounted
  <2>4. Paid(run'[p])
    BY <1>i, <1>t, <2>1, <2>2 DEF Honest, Paid, ReserveOf, AfterRound
  <2>5. run'[p].pc # "capture"
    BY <2>2 DEF AfterRound
  <2>6. ReadSince(p)'
    BY <2>2 DEF ReadSince
  <2> QED BY <2>3, <2>4, <2>5, <2>6 DEF Honest
<1>8. FloorsHold'
  <2>1. ASSUME NEW p \in Syncers, NEW s \in Sessions, floor'[p] = floor[p] PROVE floor'[p][s] <= main'[s].version
    BY <1>g, <1>i, <1>t, <2>1 DEF FloorsHold
  <2>2. ASSUME NEW p \in Syncers, NEW s \in Sessions,
               floor'[p] = [u \in Sessions |-> main[u].version] \/ floor'[p] = [u \in Sessions |-> 0]
        PROVE  floor'[p][s] <= main'[s].version
    BY <1>g, <1>t, <2>2
  <2>3. ASSUME NEW p \in Syncers, Step(p), ~Return(p) PROVE UNCHANGED floor
    BY <2>3 DEF Step, Capture, ReadBulk, StartBatch, ReadLarge, ApplyShard, Retire, Check, AcceptedByAll
  <2>4. ASSUME NEW p \in Syncers
        PROVE  \/ floor'[p] = floor[p]
               \/ floor'[p] = [u \in Sessions |-> main[u].version] \/ floor'[p] = [u \in Sessions |-> 0]
    BY <1>1, <1>9, <1>i, <2>3, MainGrows
  <2> QED BY <2>1, <2>2, <2>4 DEF FloorsHold
<1>10. ASSUME NEW p \in Syncers, Step(p) PROVE Honest(p)'
  BY <1>10, <1>2, <1>3, <1>4, <1>5, <1>6, <1>7, <1>9 DEF Step
<1>11. ASSUME NEW p \in Syncers PROVE Honest(p)'
  BY <1>1, <1>9, <1>10, <1>i, <1>o, MainGrows
<1> QED BY <1>8, <1>11 DEF HonestInv

(* A sync or a drain that answers "current" is right, whatever others write *)
(* and retire meanwhile, and no invocation spends more D1 calls than its    *)
(* allowance.                                                               *)
THEOREM AnswersAreHonest == Spec => []SyncIsHonest
<1>1. Init => HonestInv
  BY HonestInit
<1>2. IInv /\ HonestInv /\ TypeOK' /\ [Next]_vars => HonestInv'
  BY HonestStep
<1>3. TypeOK /\ HonestInv => SyncIsHonest
  BY DEF HonestInv, Honest, Accounted, Fresh, Paid, SyncIsHonest, CurrentIsFresh, WithinAllowance
<1> QED BY <1>1, <1>2, <1>3, TypeCorrect, Invariance, PTL DEF Spec

=============================================================================
