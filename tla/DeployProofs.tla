---------------------------- MODULE DeployProofs ----------------------------
(***************************************************************************)
(* The migrations of a database and the cutover of the block index, for    *)
(* any manifests, sessions, shards, queues, plans and faults.              *)
(*                                                                         *)
(* Migrations: main only grows, so every manifest that was on it begins    *)
(* the newest one, and so do the migrations of the database: a runner adds *)
(* the one that follows them or gives up.                                  *)
(*                                                                         *)
(* Cutover: from the drain to the activation the worker is in maintenance  *)
(* and nothing runs, so what the job verified stays true until it acts on  *)
(* it; and a version of a session leaves the outbox only when every shard  *)
(* has it.                                                                 *)
(***************************************************************************)
EXTENDS MigrationRunner, IndexCutover, FiniteSetTheorems, WellFoundedInduction, TLAPS

Pcs == {"idle", "open", "create", "guard", "apply", "applied", "write", "record", "rows",
        "recorded", "verify", "verified", "done"}

Records == [phase : Phases, by : Runners \cup {"none"}]

Invocations == [pc : Pcs, of : Manifests, record : Records, todo : SUBSET Nat,
                from : {"none", "applied", "recorded", "verified"}]

RunnerTypes ==
  /\ branch \in Manifests /\ history \subseteq Manifests
  /\ installed \in Seq(Migrations)
  /\ journal \in [Manifests -> Records]
  /\ runner \in [Runners -> Invocations]

BranchGrows ==
  /\ First \in history /\ branch \in history
  /\ \A m \in history : IsInitial(m, branch)
  /\ IsInitial(installed, branch)

(* Invocations that overlap have one manifest, of main.                     *)
OneManifest ==
  /\ \A p \in Runners : runner[p].of \in history
  /\ \A p, q \in Runners : runner[p].pc # "idle" /\ runner[q].pc # "idle" => runner[p].of = runner[q].of

(* The invocation r has made one of these steps and may be writing so.      *)
Past(r, pcs) == r.pc \in pcs \/ (r.pc = "write" /\ r.from \in pcs)

(* What an invocation still applies or records are the last migrations of   *)
(* its manifest, and those before them are in the database.                 *)
PendingIsLast(r) ==
  r.pc \in {"apply", "rows"} => \E k \in 0..Len(installed) : r.todo = {i \in DOMAIN r.of : i > k}

AppliedIsInstalled(r) == Past(r, {"rows", "recorded", "verified", "done"}) => installed = r.of

RecordedIsLedger(r) == Past(r, {"verified", "done"}) => IsLedger(r.of)

Sound(r) ==
  /\ r.pc = "write" => r.from # "none"
  /\ PendingIsLast(r) /\ AppliedIsInstalled(r) /\ RecordedIsLedger(r)

LedgerIsInstalled == ledger \subseteq Entries(installed)

RunnerInv ==
  /\ RunnerTypes /\ BranchGrows /\ OneManifest
  /\ \A p \in Runners : Sound(runner[p])
  /\ LedgerIsInstalled

-----------------------------------------------------------------------------
(* IsInitial, element by element. *)
LEMMA InitialByElement ==
  ASSUME NEW S, NEW s \in Seq(S), NEW t \in Seq(S)
  PROVE  IsInitial(s, t) <=> Len(s) <= Len(t) /\ \A i \in 1..Len(s) : s[i] = t[i]
BY DEF IsInitial

LEMMA InitialOfInitial ==
  ASSUME NEW S, NEW s \in Seq(S), NEW t \in Seq(S), NEW u \in Seq(S),
         IsInitial(s, t), IsInitial(t, u)
  PROVE  IsInitial(s, u)
BY InitialByElement

LEMMA LeastIsNext ==
  ASSUME NEW m \in Seq(Migrations), NEW k \in Nat, NEW todo, todo = {i \in DOMAIN m : i > k}, todo # {}
  PROVE  /\ Least(todo) = k + 1 /\ k + 1 \in DOMAIN m
         /\ todo \ {k + 1} = {i \in DOMAIN m : i > k + 1}
<1>1. k + 1 \in todo /\ \A i \in todo : i \in Nat /\ k + 1 <= i
  OBVIOUS
<1>2. \A i \in todo : (\A j \in todo : i <= j) => i = k + 1
  BY <1>1
<1> QED  BY <1>1, <1>2 DEF Least

LEMMA ManifestsAreSequences ==
  /\ \A m \in Manifests : m \in Seq(Migrations)
  /\ \A m \in Manifests : \A i, j \in DOMAIN m : m[i].name = m[j].name => i = j
BY RunnerAssumption

(* RunnerInit *)
LEMMA RunnerInvInit == RunnerInit => RunnerInv
<1> SUFFICES ASSUME RunnerInit PROVE RunnerInv
  OBVIOUS
<1> USE ManifestsAreSequences DEF RunnerInit
<1>1. First \in Manifests /\ NoRecord \in Records /\ IdleRunner \in Invocations
  BY RunnerAssumption DEF NoRecord, Records, Phases, IdleRunner, Invocations, Pcs
<1>2. RunnerTypes
  BY <1>1 DEF RunnerTypes
<1>3. BranchGrows
  BY <1>1, InitialByElement DEF BranchGrows
<1>4. OneManifest
  BY DEF OneManifest, IdleRunner
<1>5. \A p \in Runners : Sound(runner[p])
  BY DEF Sound, PendingIsLast, AppliedIsInstalled, RecordedIsLedger, Past, IdleRunner
<1> QED  BY <1>2, <1>3, <1>4, <1>5 DEF RunnerInv, LedgerIsInstalled

(* A step of one invocation that leaves the database alone. *)
LEMMA InvocationKeeps ==
  ASSUME RunnerInv, NEW p \in Runners, NEW r \in Invocations,
         UNCHANGED <<branch, history, installed, ledger>>,
         journal' \in [Manifests -> Records],
         runner' = [runner EXCEPT ![p] = r], r.of \in history, Sound(r),
         r.pc # "idle" => \A q \in Runners \ {p} : runner[q].pc # "idle" => runner[q].of = r.of
  PROVE  RunnerInv'
<1> USE DEF RunnerInv
<1>1. RunnerTypes'
  BY DEF RunnerTypes
<1>2. \A q \in Runners : runner'[q] = IF q = p THEN r ELSE runner[q]
  BY DEF RunnerTypes
<1>3. BranchGrows' /\ LedgerIsInstalled'
  BY DEF BranchGrows, IsInitial, LedgerIsInstalled, Entries
<1>4. OneManifest'
  BY <1>2 DEF OneManifest
<1>5. ASSUME NEW q \in Runners
      PROVE  Sound(runner[q])'
  BY <1>2 DEF Sound, PendingIsLast, AppliedIsInstalled, RecordedIsLedger, Past, IsLedger, Entries
<1> QED  BY <1>1, <1>3, <1>4, <1>5

(* The same of one that goes on. *)
LEMMA GoingOnKeeps ==
  ASSUME RunnerInv, NEW p \in Runners, NEW r \in Invocations,
         UNCHANGED <<branch, history, installed, ledger>>,
         journal' \in [Manifests -> Records],
         runner' = [runner EXCEPT ![p] = r], runner[p].pc # "idle", r.of = runner[p].of, Sound(r)
  PROVE  RunnerInv'
BY InvocationKeeps DEF RunnerInv, OneManifest

(* A runner that leaves is idle; its job's journal may go with it. *)
LEMMA LeaveKeeps ==
  ASSUME RunnerInv, NEW p \in Runners, Leave(p), UNCHANGED <<branch, history, installed, ledger>>
  PROVE  RunnerInv'
<1>1. NoRecord \in Records /\ IdleRunner \in Invocations /\ IdleRunner.of = First /\ IdleRunner.pc = "idle"
  BY RunnerAssumption DEF NoRecord, Records, Phases, IdleRunner, Invocations, Pcs
<1>2. journal' \in [Manifests -> Records]
  BY <1>1 DEF Leave, RunnerInv, RunnerTypes
<1>3. Sound(IdleRunner)
  BY DEF Sound, PendingIsLast, AppliedIsInstalled, RecordedIsLedger, Past, IdleRunner
<1>4. IdleRunner.of \in history
  BY <1>1 DEF RunnerInv, BranchGrows
<1> QED  BY <1>1, <1>2, <1>3, <1>4, InvocationKeeps DEF Leave

(* Main grows by a manifest that begins with the newest one. *)
LEMMA CommitKeeps ==
  ASSUME RunnerInv, NEW m \in Manifests, Commit(m)
  PROVE  RunnerInv'
<1> USE DEF RunnerInv, Commit
<1>1. RunnerTypes' /\ LedgerIsInstalled' /\ OneManifest'
  BY DEF RunnerTypes, LedgerIsInstalled, Entries, OneManifest
<1>2. \A q \in Runners : Sound(runner[q])'
  BY DEF Sound, PendingIsLast, AppliedIsInstalled, RecordedIsLedger, Past, IsLedger, Entries
<1>3. /\ IsInitial(branch, m) /\ IsInitial(m, m) /\ m \in Seq(Migrations)
      /\ \A h \in history : h \in Seq(Migrations)
      /\ branch \in Seq(Migrations) /\ installed \in Seq(Migrations)
  BY ManifestsAreSequences, InitialByElement DEF MayFollow, RunnerTypes
<1>4. \A h \in history : IsInitial(h, m)
  BY <1>3, InitialOfInitial DEF BranchGrows
<1>5. IsInitial(installed, m)
  BY <1>3, InitialOfInitial DEF BranchGrows
<1>6. \A h \in history \cup {m} : IsInitial(h, m)
  BY <1>3, <1>4
<1>7. IsInitial(installed, branch)' /\ (\A h \in history : IsInitial(h, branch))'
  BY <1>5, <1>6 DEF IsInitial
<1>8. BranchGrows'
  BY <1>7 DEF BranchGrows
<1> QED  BY <1>1, <1>2, <1>8

-----------------------------------------------------------------------------
(* Production starts one invocation of the newest manifest; elsewhere those *)
(* that overlap have the same one.                                          *)
LEMMA RunKeeps ==
  ASSUME RunnerInv, NEW p \in Runners, Run(p)
  PROVE  RunnerInv'
<1> USE DEF RunnerInv
<1>1. PICK m \in history :
        /\ \A q \in Runners \ {p} : runner[q].pc # "idle" => runner[q].of = m
        /\ runner' = [runner EXCEPT ![p] = [IdleRunner EXCEPT !.pc = "open", !.of = m]]
  BY DEF Run
<1> DEFINE r == [IdleRunner EXCEPT !.pc = "open", !.of = m]
<1>2. r \in Invocations /\ r.of = m /\ r.pc = "open"
  BY RunnerAssumption DEF RunnerTypes, NoRecord, Records, Phases, IdleRunner, Invocations, Pcs
<1>3. Sound(r)
  BY DEF Sound, PendingIsLast, AppliedIsInstalled, RecordedIsLedger, Past, IdleRunner
<1>4. journal' \in [Manifests -> Records] /\ UNCHANGED <<branch, history, installed, ledger>>
  BY DEF Run, dbVars, RunnerTypes
<1> HIDE DEF r
<1>5. runner' = [runner EXCEPT ![p] = r]
  BY <1>1 DEF r
<1> QED  BY <1>1, <1>2, <1>3, <1>4, <1>5, InvocationKeeps

LEMMA OpenKeeps ==
  ASSUME RunnerInv, NEW p \in Runners, Open(p)
  PROVE  RunnerInv'
<1> DEFINE found == journal[runner[p].of]
           r == [runner[p] EXCEPT !.record = found,
                   !.pc = IF found = NoRecord THEN "create" ELSE Resume(found.phase)]
<1>1. runner[p] \in Invocations /\ found \in Records /\ runner[p].pc = "open"
  BY DEF RunnerInv, RunnerTypes, Invocations, Open
<1>2. r.pc \in {"create", "guard", "record", "verify"} /\ r.of = runner[p].of
  BY <1>1 DEF Invocations, Resume
<1>3. r \in Invocations
  BY <1>1, <1>2 DEF Invocations, Pcs
<1>4. Sound(r)
  BY <1>2 DEF Sound, PendingIsLast, AppliedIsInstalled, RecordedIsLedger, Past
<1>5. /\ journal' \in [Manifests -> Records] /\ UNCHANGED <<branch, history, installed, ledger>>
      /\ runner' = [runner EXCEPT ![p] = r]
  BY DEF Open, dbVars, RunnerInv, RunnerTypes
<1> HIDE DEF r
<1> QED  BY <1>1, <1>2, <1>3, <1>4, <1>5, GoingOnKeeps

LEMMA CreateKeeps ==
  ASSUME RunnerInv, NEW p \in Runners, Create(p)
  PROVE  RunnerInv'
<1> DEFINE record == [phase |-> "intended", by |-> p]
           r == [runner[p] EXCEPT !.record = record, !.pc = "guard"]
<1>1. runner[p] \in Invocations /\ record \in Records /\ runner[p].pc = "create"
  BY DEF RunnerInv, RunnerTypes, Invocations, Create, Records, Phases
<1>2. r \in Invocations /\ r.pc = "guard" /\ r.of = runner[p].of
  BY <1>1 DEF Invocations, Pcs
<1>3. Sound(r)
  BY <1>2 DEF Sound, PendingIsLast, AppliedIsInstalled, RecordedIsLedger, Past
<1>4. /\ journal' \in [Manifests -> Records] /\ UNCHANGED <<branch, history, installed, ledger>>
      /\ runner' = [runner EXCEPT ![p] = r]
  BY <1>1 DEF Create, dbVars, RunnerInv, RunnerTypes
<1> HIDE DEF r
<1> QED  BY <1>1, <1>2, <1>3, <1>4, GoingOnKeeps

(* Both manifests begin the newest one and names in it differ, so what the  *)
(* database lacks by name are the places after its last migration.          *)
LEMMA PendingByName ==
  ASSUME RunnerInv, NEW m \in history, NEW i \in DOMAIN m
  PROVE  IsInstalled(m[i].name) <=> i <= Len(installed)
<1>1. /\ m \in Seq(Migrations) /\ installed \in Seq(Migrations) /\ branch \in Seq(Migrations)
      /\ branch \in Manifests /\ IsInitial(m, branch) /\ IsInitial(installed, branch)
  BY ManifestsAreSequences DEF RunnerInv, RunnerTypes, BranchGrows
<1>2. \A j \in 1..Len(m) : m[j] = branch[j] /\ j \in 1..Len(branch)
  BY <1>1, InitialByElement
<1>3. \A j \in 1..Len(installed) : installed[j] = branch[j] /\ j \in 1..Len(branch)
  BY <1>1, InitialByElement
<1>4. \A j \in 1..Len(installed) : installed[j].name = m[i].name => j = i
  BY <1>1, <1>2, <1>3, ManifestsAreSequences
<1>5. i \in 1..Len(m) /\ i \in Nat /\ DOMAIN installed = 1..Len(installed)
  BY <1>1
<1>6. i <= Len(installed) => installed[i].name = m[i].name
  BY <1>2, <1>3, <1>5
<1> QED  BY <1>1, <1>4, <1>5, <1>6 DEF IsInstalled

LEMMA GuardKeeps ==
  ASSUME RunnerInv, NEW p \in Runners, Guard(p)
  PROVE  RunnerInv'
<1> DEFINE m == runner[p].of
           todo == {i \in DOMAIN m : ~IsInstalled(m[i].name)}
           r == [runner[p] EXCEPT !.pc = "apply", !.todo = todo]
<1>1. /\ runner[p] \in Invocations /\ runner[p].pc = "guard" /\ m \in history
      /\ m \in Seq(Migrations) /\ installed \in Seq(Migrations) /\ journal \in [Manifests -> Records]
  BY ManifestsAreSequences DEF RunnerInv, RunnerTypes, OneManifest, Invocations, Guard
<1>2. UNCHANGED <<branch, history, installed, ledger>>
  BY DEF Guard, dbVars
<1>3. CASE Leave(p)
  BY <1>2, <1>3, LeaveKeeps
<1>4. CASE runner' = [runner EXCEPT ![p] = r] /\ UNCHANGED journal
  <2>1. todo = {i \in DOMAIN m : i > Len(installed)}
    BY <1>1, PendingByName
  <2>2. todo \in SUBSET Nat /\ Len(installed) \in 0..Len(installed)
    BY <1>1
  <2> HIDE DEF todo
  <2>3. r \in Invocations /\ r.pc = "apply" /\ r.of = m /\ r.todo = todo
    BY <1>1, <2>2 DEF Invocations, Pcs
  <2>4. Sound(r)
    BY <2>1, <2>2, <2>3 DEF Sound, PendingIsLast, AppliedIsInstalled, RecordedIsLedger, Past
  <2> HIDE DEF r
  <2> QED  BY <1>1, <1>2, <1>4, <2>3, <2>4, GoingOnKeeps
<1> QED  BY <1>3, <1>4 DEF Guard

(* A migration is added only after the last one, which is the next of the   *)
(* newest manifest; nobody has found the database complete then.            *)
LEMMA AddedKeeps ==
  ASSUME RunnerInv, NEW p \in Runners, runner[p].pc = "apply", runner[p].todo # {},
         LET i == Least(runner[p].todo)
             e == runner[p].of[i]
         IN  /\ ~IsInstalled(e.name)
             /\ installed' = Append(installed, e)
             /\ runner' = [runner EXCEPT ![p].todo = @ \ {i}],
         UNCHANGED <<branch, history, ledger, journal>>
  PROVE  RunnerInv'
<1> DEFINE m == runner[p].of
           todo == runner[p].todo
<1> USE DEF RunnerInv
<1>1. /\ runner[p] \in Invocations /\ m \in history /\ m \in Manifests
      /\ m \in Seq(Migrations) /\ installed \in Seq(Migrations) /\ branch \in Seq(Migrations)
      /\ IsInitial(m, branch) /\ IsInitial(installed, branch)
  BY ManifestsAreSequences DEF RunnerTypes, OneManifest, BranchGrows, Invocations
<1>2. PICK k \in 0..Len(installed) : todo = {i \in DOMAIN m : i > k}
  BY DEF Sound, PendingIsLast
<1>3. k \in Nat /\ Len(installed) \in Nat
  BY <1>1, <1>2
<1>4. /\ Least(todo) = k + 1 /\ k + 1 \in DOMAIN m
      /\ todo \ {k + 1} = {i \in DOMAIN m : i > k + 1}
  BY <1>1, <1>2, <1>3, LeastIsNext
<1>5. ~IsInstalled(m[k + 1].name) /\ installed' = Append(installed, m[k + 1])
  BY <1>4
<1>6. k = Len(installed)
  BY <1>1, <1>2, <1>3, <1>4, <1>5, PendingByName
<1>7. k + 1 \in 1..Len(m) /\ m[k + 1] \in Migrations
  BY <1>1, <1>4
<1>8. /\ installed' \in Seq(Migrations) /\ Len(installed') = k + 1
      /\ \A i \in 1..k : installed'[i] = installed[i]
      /\ installed'[k + 1] = m[k + 1]
  BY <1>1, <1>5, <1>6, <1>7
<1> DEFINE r == [runner[p] EXCEPT !.todo = todo \ {k + 1}]
<1>9. runner' = [runner EXCEPT ![p] = r]
  BY <1>4
<1>10. r \in Invocations /\ r.pc = "apply" /\ r.of = m /\ r.todo = todo \ {k + 1}
  BY <1>1 DEF Invocations
<1> HIDE DEF r
<1>11. \A q \in Runners : runner'[q] = IF q = p THEN r ELSE runner[q]
  BY <1>9 DEF RunnerTypes
<1>12. RunnerTypes' /\ OneManifest'
  <2>1. runner' \in [Runners -> Invocations]
    BY <1>9, <1>10 DEF RunnerTypes
  <2>2. \A q \in Runners : runner'[q].of = runner[q].of /\ runner'[q].pc = runner[q].pc
    BY <1>10, <1>11
  <2> QED  BY <1>8, <2>1, <2>2 DEF RunnerTypes, OneManifest
<1>13. IsInitial(installed', branch)
  <2>1. \A i \in 1..Len(installed') : Len(installed') <= Len(branch) /\ installed'[i] = branch[i]
    BY <1>1, <1>6, <1>7, <1>8, InitialByElement
  <2>2. Len(installed') <= Len(branch)
    BY <1>3, <1>8, <2>1
  <2> QED  BY <1>1, <1>8, <2>1, <2>2, InitialByElement
<1>14. BranchGrows'
  BY <1>13 DEF BranchGrows, IsInitial
<1>15. Entries(installed) \subseteq Entries(installed)'
  BY <1>1, <1>6, <1>8 DEF Entries
<1>16. LedgerIsInstalled'
  BY <1>15 DEF LedgerIsInstalled
<1>17. ASSUME NEW q \in Runners
       PROVE  ~Past(runner[q], {"rows", "recorded", "verified", "done"})
  <2> SUFFICES ASSUME Past(runner[q], {"rows", "recorded", "verified", "done"}) PROVE FALSE
    OBVIOUS
  <2>1. installed = runner[q].of /\ runner[q].pc # "idle"
    BY DEF Sound, AppliedIsInstalled, Past
  <2>2. runner[q].of = m
    BY <2>1 DEF OneManifest
  <2> QED  BY <1>1, <1>6, <1>7, <2>1, <2>2
<1>18. ASSUME NEW q \in Runners
       PROVE  ~Past(runner'[q], {"rows", "recorded", "verified", "done"})
  BY <1>10, <1>11, <1>17 DEF Past
<1>19. ASSUME NEW q \in Runners
       PROVE  PendingIsLast(runner[q])'
  <2>1. CASE q = p
    <3>1. k + 1 \in 0..Len(installed') /\ runner'[q].todo = {i \in DOMAIN runner'[q].of : i > k + 1}
      BY <1>3, <1>4, <1>8, <1>10, <1>11, <2>1
    <3> QED  BY <3>1 DEF PendingIsLast
  <2>2. CASE q # p
    <3>1. runner'[q] = runner[q] /\ PendingIsLast(runner[q])
      BY <1>11, <2>2 DEF Sound
    <3>2. \A j \in 0..Len(installed) : j \in 0..Len(installed')
      BY <1>3, <1>6, <1>8
    <3> QED  BY <3>1, <3>2 DEF PendingIsLast
  <2> QED  BY <2>1, <2>2
<1>20. ASSUME NEW q \in Runners
       PROVE  Sound(runner[q])'
  <2>1. runner'[q].pc = "write" => runner'[q].from # "none"
    BY <1>10, <1>11 DEF Sound
  <2>2. AppliedIsInstalled(runner[q])' /\ RecordedIsLedger(runner[q])'
    BY <1>18 DEF AppliedIsInstalled, RecordedIsLedger, Past
  <2> QED  BY <1>19, <2>1, <2>2 DEF Sound
<1> QED  BY <1>12, <1>14, <1>16, <1>20

LEMMA ApplyKeeps ==
  ASSUME RunnerInv, NEW p \in Runners, Apply(p)
  PROVE  RunnerInv'
<1>1. UNCHANGED <<branch, history, ledger>> /\ runner[p].pc = "apply"
  BY DEF Apply
<1>2. CASE runner[p].todo = {}
  <2> DEFINE r == [runner[p] EXCEPT !.pc = "applied"]
  <2>1. runner[p] \in Invocations
    BY DEF RunnerInv, RunnerTypes
  <2>2. r \in Invocations /\ r.pc = "applied" /\ r.of = runner[p].of
    BY <2>1 DEF Invocations, Pcs
  <2>3. Sound(r)
    BY <2>2 DEF Sound, PendingIsLast, AppliedIsInstalled, RecordedIsLedger, Past
  <2>4. runner' = [runner EXCEPT ![p] = r] /\ UNCHANGED <<installed, journal>>
    BY <1>2 DEF Apply, To
  <2>5. journal' \in [Manifests -> Records]
    BY <2>4 DEF RunnerInv, RunnerTypes
  <2> HIDE DEF r
  <2> QED  BY <1>1, <2>2, <2>3, <2>4, <2>5, GoingOnKeeps
<1>3. CASE runner[p].todo # {} /\ Leave(p) /\ UNCHANGED installed
  BY <1>1, <1>3, LeaveKeeps
<1>4. CASE runner[p].todo # {} /\ ~(Leave(p) /\ UNCHANGED installed)
  BY <1>1, <1>4, AddedKeeps DEF Apply
<1> QED  BY <1>2, <1>3, <1>4

LEMMA AdvancesKeeps ==
  ASSUME RunnerInv, NEW p \in Runners, Advances(p)
  PROVE  RunnerInv'
<1> DEFINE r == [runner[p] EXCEPT !.from = runner[p].pc, !.pc = "write"]
<1>1. /\ runner[p] \in Invocations /\ runner[p].pc \in {"applied", "recorded", "verified"}
      /\ Sound(runner[p]) /\ journal \in [Manifests -> Records]
  BY DEF RunnerInv, RunnerTypes, Advances
<1>2. UNCHANGED <<branch, history, installed, ledger>>
  BY DEF Advances, dbVars
<1>3. CASE Leave(p)
  BY <1>2, <1>3, LeaveKeeps
<1>4. CASE ~Leave(p)
  <2>1. r \in Invocations /\ r.pc = "write" /\ r.from = runner[p].pc /\ r.of = runner[p].of
    BY <1>1 DEF Invocations, Pcs
  <2>2. Sound(r)
    BY <1>1, <2>1 DEF Sound, PendingIsLast, AppliedIsInstalled, RecordedIsLedger, Past
  <2>3. runner' = [runner EXCEPT ![p].from = runner[p].pc, ![p].pc = "write"] /\ UNCHANGED journal
    BY <1>4 DEF Advances
  <2>4. runner' = [runner EXCEPT ![p] = r]
    BY <1>1, <2>3 DEF Invocations, RunnerInv, RunnerTypes
  <2> HIDE DEF r
  <2> QED  BY <1>1, <1>2, <2>1, <2>2, <2>3, <2>4, GoingOnKeeps
<1> QED  BY <1>3, <1>4

LEMMA WriteRecordKeeps ==
  ASSUME RunnerInv, NEW p \in Runners, WriteRecord(p)
  PROVE  RunnerInv'
<1> DEFINE record == [phase |-> NextPhase(runner[p].from), by |-> p]
           r == [runner[p] EXCEPT !.record = record, !.from = "none", !.pc = AfterPhase(runner[p].from)]
<1>1. /\ runner[p] \in Invocations /\ runner[p].pc = "write" /\ Sound(runner[p])
      /\ runner[p].from \in {"applied", "recorded", "verified"}
  BY DEF RunnerInv, RunnerTypes, Invocations, WriteRecord, Sound
<1>2. record \in Records
  BY <1>1 DEF Records, Phases, NextPhase
<1>3. /\ r \in Invocations /\ r.of = runner[p].of /\ r.pc \in {"record", "verify", "done"}
      /\ r.pc = "done" => runner[p].from = "verified"
  BY <1>1, <1>2 DEF Invocations, Pcs, AfterPhase
<1>4. Sound(r)
  BY <1>1, <1>3 DEF Sound, PendingIsLast, AppliedIsInstalled, RecordedIsLedger, Past
<1>5. /\ journal' \in [Manifests -> Records] /\ UNCHANGED <<branch, history, installed, ledger>>
      /\ runner' = [runner EXCEPT ![p] = r]
  BY <1>2 DEF WriteRecord, dbVars, RunnerInv, RunnerTypes
<1> HIDE DEF r
<1> QED  BY <1>1, <1>3, <1>4, <1>5, GoingOnKeeps

(* Names that agree are the same migrations: both lists begin main's.       *)
LEMMA AppliedByName ==
  ASSUME RunnerInv, NEW m \in history, IsApplied(m)
  PROVE  installed = m
<1>1. /\ m \in Seq(Migrations) /\ installed \in Seq(Migrations) /\ branch \in Seq(Migrations)
      /\ IsInitial(m, branch) /\ IsInitial(installed, branch)
  BY ManifestsAreSequences DEF RunnerInv, RunnerTypes, BranchGrows
<1>2. DOMAIN installed = DOMAIN m
  BY DEF IsApplied, Names
<1>3. Len(installed) = Len(m)
  BY <1>1, <1>2
<1>4. \A i \in 1..Len(m) : installed[i] = m[i]
  BY <1>1, <1>3, InitialByElement
<1> QED  BY <1>1, <1>3, <1>4

LEMMA RecordKeeps ==
  ASSUME RunnerInv, NEW p \in Runners, Record(p)
  PROVE  RunnerInv'
<1> DEFINE m == runner[p].of
           r == [runner[p] EXCEPT !.todo = DOMAIN m, !.pc = "rows"]
<1>1. /\ runner[p] \in Invocations /\ runner[p].pc = "record" /\ m \in history
      /\ m \in Seq(Migrations) /\ journal \in [Manifests -> Records] /\ installed \in Seq(Migrations)
  BY ManifestsAreSequences DEF RunnerInv, RunnerTypes, OneManifest, Invocations, Record
<1>2. UNCHANGED <<branch, history, installed, ledger>>
  BY DEF Record, dbVars
<1>3. CASE ~IsApplied(m)
  BY <1>2, <1>3, LeaveKeeps DEF Record
<1>4. CASE IsApplied(m)
  <2>1. installed = m
    BY <1>1, <1>4, AppliedByName
  <2>2. r \in Invocations /\ r.pc = "rows" /\ r.of = m /\ r.todo = DOMAIN m
    <3>1. DOMAIN m \in SUBSET Nat
      BY <1>1
    <3> QED  BY <1>1, <3>1 DEF Invocations, Pcs
  <2>3. 0 \in 0..Len(installed) /\ DOMAIN m = {i \in DOMAIN m : i > 0}
    BY <1>1
  <2>4. Sound(r)
    BY <2>1, <2>2, <2>3 DEF Sound, PendingIsLast, AppliedIsInstalled, RecordedIsLedger, Past
  <2>5. runner' = [runner EXCEPT ![p] = r] /\ UNCHANGED journal
    BY <1>4 DEF Record
  <2> HIDE DEF r
  <2> QED  BY <1>1, <1>2, <2>2, <2>4, <2>5, GoingOnKeeps
<1> QED  BY <1>3, <1>4

(* A row is of a migration that is installed with these bytes; a row that   *)
(* is there stays.                                                          *)
LEMMA RecordRowKeeps ==
  ASSUME RunnerInv, NEW p \in Runners, RecordRow(p)
  PROVE  RunnerInv'
<1> DEFINE m == runner[p].of
           todo == runner[p].todo
           e == m[Least(todo)]
<1> USE DEF RunnerInv
<1>1. /\ runner[p] \in Invocations /\ runner[p].pc = "rows" /\ todo # {}
      /\ Sound(runner[p]) /\ m \in Seq(Migrations) /\ installed \in Seq(Migrations)
      /\ UNCHANGED <<branch, history, installed, journal>>
  BY ManifestsAreSequences DEF RunnerTypes, OneManifest, Invocations, RecordRow
<1>2. PICK k \in 0..Len(installed) : todo = {i \in DOMAIN m : i > k}
  BY <1>1 DEF Sound, PendingIsLast
<1>3. k \in Nat /\ Len(installed) \in Nat
  BY <1>1, <1>2
<1>4. /\ Least(todo) = k + 1 /\ k + 1 \in DOMAIN m
      /\ todo \ {k + 1} = {i \in DOMAIN m : i > k + 1}
  BY <1>1, <1>2, <1>3, LeastIsNext
<1>5. installed = m
  BY <1>1 DEF Sound, AppliedIsInstalled, Past
<1>6. <<e.name, e.sha>> \in Entries(installed)
  BY <1>4, <1>5 DEF Entries
<1>7. ledger \subseteq ledger' /\ ledger' \subseteq ledger \cup {<<e.name, e.sha>>}
  BY DEF RecordRow
<1>8. LedgerIsInstalled'
  BY <1>1, <1>6, <1>7 DEF LedgerIsInstalled, Entries
<1> DEFINE r == [runner[p] EXCEPT !.todo = todo \ {k + 1}]
<1>9. runner' = [runner EXCEPT ![p] = r]
  BY <1>4 DEF RecordRow
<1>10. r \in Invocations /\ r.pc = "rows" /\ r.of = m /\ r.todo = todo \ {k + 1}
  BY <1>1 DEF Invocations
<1> HIDE DEF r
<1>11. \A q \in Runners : runner'[q] = IF q = p THEN r ELSE runner[q]
  BY <1>9 DEF RunnerTypes
<1>12. RunnerTypes' /\ OneManifest' /\ BranchGrows'
  <2>1. runner' \in [Runners -> Invocations]
    BY <1>9, <1>10 DEF RunnerTypes
  <2>2. \A q \in Runners : runner'[q].of = runner[q].of /\ runner'[q].pc = runner[q].pc
    BY <1>1, <1>10, <1>11
  <2> QED  BY <1>1, <2>1, <2>2 DEF RunnerTypes, OneManifest, BranchGrows, IsInitial
<1>13. k + 1 \in 0..Len(installed')
  BY <1>1, <1>3, <1>4, <1>5
<1>14. Sound(runner[p])'
  <2>1. PendingIsLast(runner[p])'
    BY <1>4, <1>10, <1>11, <1>13 DEF PendingIsLast
  <2>2. AppliedIsInstalled(runner[p])' /\ RecordedIsLedger(runner[p])'
    BY <1>1, <1>5, <1>10, <1>11 DEF AppliedIsInstalled, RecordedIsLedger, Past
  <2>3. runner'[p].pc # "write"
    BY <1>10, <1>11
  <2> QED  BY <2>1, <2>2, <2>3 DEF Sound
<1>15. ASSUME NEW q \in Runners, q # p
       PROVE  Sound(runner[q])'
  <2>1. runner'[q] = runner[q] /\ Sound(runner[q])
    BY <1>11, <1>15
  <2>2. PendingIsLast(runner[q])' /\ AppliedIsInstalled(runner[q])'
    BY <1>1, <2>1 DEF Sound, PendingIsLast, AppliedIsInstalled, Past
  <2>3. RecordedIsLedger(runner[q])'
    <3> SUFFICES ASSUME Past(runner[q], {"verified", "done"}) PROVE IsLedger(runner[q].of)'
      BY <2>1 DEF RecordedIsLedger, Past
    <3>1. ledger = Entries(runner[q].of) /\ installed = runner[q].of
      BY <2>1 DEF Sound, RecordedIsLedger, AppliedIsInstalled, Past, IsLedger
    <3>2. <<e.name, e.sha>> \in ledger
      BY <1>6, <3>1
    <3>3. ledger' = ledger
      BY <1>7, <3>2
    <3> QED  BY <2>1, <3>1, <3>3 DEF IsLedger, Entries
  <2> QED  BY <2>1, <2>2, <2>3 DEF Sound
<1> QED  BY <1>8, <1>12, <1>14, <1>15

LEMMA RecordCheckKeeps ==
  ASSUME RunnerInv, NEW p \in Runners, RecordCheck(p)
  PROVE  RunnerInv'
<1> DEFINE r == [runner[p] EXCEPT !.pc = "recorded"]
<1>1. /\ runner[p] \in Invocations /\ runner[p].pc = "rows" /\ Sound(runner[p])
      /\ journal \in [Manifests -> Records]
  BY DEF RunnerInv, RunnerTypes, RecordCheck
<1>2. UNCHANGED <<branch, history, installed, ledger>>
  BY DEF RecordCheck, dbVars
<1>3. CASE ~IsLedger(runner[p].of)
  BY <1>2, <1>3, LeaveKeeps DEF RecordCheck
<1>4. CASE IsLedger(runner[p].of)
  <2>1. r \in Invocations /\ r.pc = "recorded" /\ r.of = runner[p].of
    BY <1>1 DEF Invocations, Pcs
  <2>2. Sound(r)
    BY <1>1, <2>1 DEF Sound, PendingIsLast, AppliedIsInstalled, RecordedIsLedger, Past
  <2>3. runner' = [runner EXCEPT ![p] = r] /\ UNCHANGED journal
    BY <1>4 DEF RecordCheck, To
  <2> HIDE DEF r
  <2> QED  BY <1>1, <1>2, <2>1, <2>2, <2>3, GoingOnKeeps
<1> QED  BY <1>3, <1>4

LEMMA VerifyKeeps ==
  ASSUME RunnerInv, NEW p \in Runners, Verify(p)
  PROVE  RunnerInv'
<1> DEFINE pc == IF runner[p].record.phase = "committed" THEN "done" ELSE "verified"
           r == [runner[p] EXCEPT !.pc = pc]
<1>1. /\ runner[p] \in Invocations /\ runner[p].pc = "verify" /\ runner[p].of \in history
      /\ journal \in [Manifests -> Records]
  BY DEF RunnerInv, RunnerTypes, OneManifest, Verify
<1>2. UNCHANGED <<branch, history, installed, ledger>>
  BY DEF Verify, dbVars
<1>3. CASE ~IsApplied(runner[p].of) \/ ~IsLedger(runner[p].of)
  BY <1>2, <1>3, LeaveKeeps DEF Verify
<1>4. CASE IsApplied(runner[p].of) /\ IsLedger(runner[p].of)
  <2>1. installed = runner[p].of
    BY <1>1, <1>4, AppliedByName
  <2>2. r \in Invocations /\ r.pc \in {"verified", "done"} /\ r.of = runner[p].of
    BY <1>1 DEF Invocations, Pcs
  <2>3. Sound(r)
    BY <1>4, <2>1, <2>2 DEF Sound, PendingIsLast, AppliedIsInstalled, RecordedIsLedger, Past
  <2>4. runner' = [runner EXCEPT ![p] = r] /\ UNCHANGED journal
    BY <1>4 DEF Verify, To
  <2> HIDE DEF r
  <2> QED  BY <1>1, <1>2, <2>2, <2>3, <2>4, GoingOnKeeps
<1> QED  BY <1>3, <1>4

-----------------------------------------------------------------------------
LEMMA RunnerStep ==
  ASSUME RunnerInv, RunnerNext
  PROVE  RunnerInv'
<1>1. CASE \E m \in Manifests : Commit(m)
  BY <1>1, CommitKeeps
<1>2. CASE \E p \in Runners : Run(p) \/ Open(p) \/ Create(p) \/ Guard(p) \/ Apply(p)
  BY <1>2, RunKeeps, OpenKeeps, CreateKeeps, GuardKeeps, ApplyKeeps
<1>3. CASE \E p \in Runners : Advances(p) \/ WriteRecord(p) \/ Record(p) \/ RecordRow(p) \/ RecordCheck(p) \/ Verify(p)
  BY <1>3, AdvancesKeeps, WriteRecordKeeps, RecordKeeps, RecordRowKeeps, RecordCheckKeeps, VerifyKeeps
<1>4. CASE \E p \in Runners : Done(p) \/ Killed(p)
  BY <1>4, LeaveKeeps DEF Done, Killed, dbVars
<1> QED  BY <1>1, <1>2, <1>3, <1>4 DEF RunnerNext

LEMMA RunnerStutter ==
  ASSUME RunnerInv, UNCHANGED runnerVars
  PROVE  RunnerInv'
<1>1. RunnerTypes' /\ BranchGrows' /\ OneManifest' /\ LedgerIsInstalled'
  BY DEF RunnerInv, runnerVars, RunnerTypes, BranchGrows, OneManifest, LedgerIsInstalled, IsInitial, Entries
<1>2. \A p \in Runners : Sound(runner[p])'
  BY DEF RunnerInv, runnerVars, Sound, PendingIsLast, AppliedIsInstalled, RecordedIsLedger, Past, IsLedger, Entries
<1> QED  BY <1>1, <1>2 DEF RunnerInv

(* The invariant of the runner: what main was begins what it is, and so do  *)
(* the migrations of the database (migration-manifest.mjs, assertImmutable- *)
(* Base; migration-runner.mjs, runMigrations).                              *)
THEOREM RunnerInvariant == RunnerSpec => []RunnerInv
<1>1. RunnerInit => RunnerInv
  BY RunnerInvInit
<1>2. RunnerInv /\ [RunnerNext]_runnerVars => RunnerInv'
  BY RunnerStep, RunnerStutter
<1> QED  BY <1>1, <1>2, PTL DEF RunnerSpec

(* Types of the journal and of the invocations that resume from it          *)
(* (migration-journal.mjs, assertJournal).                                  *)
THEOREM RunnerTypeCorrect == RunnerSpec => []RunnerTypeOK
<1>1. RunnerInv => RunnerTypeOK
  BY DEF RunnerInv, RunnerTypes, BranchGrows, RunnerTypeOK, Invocations, Records
<1> QED  BY <1>1, RunnerInvariant, PTL

(* A row of the ledger names a migration that is installed with the bytes   *)
(* the row has, and a finished run reports a database that has exactly its  *)
(* manifest (migration-runner.mjs, assertAppliedManifest and assertLedger). *)
THEOREM LedgersStayHonest == RunnerSpec => []LedgersAreHonest
<1>1. RunnerInv => LedgerIsHonest
  <2> SUFFICES ASSUME RunnerInv, NEW row \in ledger
               PROVE  \E i \in DOMAIN installed : installed[i].name = row[1] /\ installed[i].sha = row[2]
    BY DEF LedgerIsHonest
  <2>1. PICK i \in DOMAIN installed : row = <<installed[i].name, installed[i].sha>>
    BY DEF RunnerInv, LedgerIsInstalled, Entries
  <2> QED  BY <2>1
<1>2. RunnerInv => DoneIsInstalled
  BY DEF RunnerInv, Sound, AppliedIsInstalled, RecordedIsLedger, Past, DoneIsInstalled
<1>3. RunnerTypeOK /\ RunnerInv => LedgersAreHonest
  BY <1>1, <1>2 DEF LedgersAreHonest
<1> QED  BY <1>3, RunnerTypeCorrect, RunnerInvariant, PTL

-----------------------------------------------------------------------------
(* The cutover.                                                             *)

SeedStates == {"none", "pending", "complete"}

Readies == [state : {"ready"}, seed : {proof.seed}, rev : Nat, cycle : {0, 1}]

Freezes == [state : {"frozen"}, rev : Nat, cycle : {0, 1}, waits : BOOLEAN]

Atomics == [state : {"this"}, rev : Nat, cycle : {0, 1}]

IsSeed(seed) ==
  /\ seed = [state |-> seed.state, after |-> seed.after, rows |-> seed.rows]
  /\ seed.state \in SeedStates

(* What binds a proof of readiness is in it: its seed is the one that is    *)
(* stored.                                                                  *)
ProofShape ==
  /\ proof = [copy |-> proof.copy, seed |-> proof.seed, ready |-> proof.ready, active |-> proof.active,
              freeze |-> proof.freeze, atomic |-> proof.atomic]
  /\ IsSeed(proof.seed)
  /\ proof.ready = Nothing \/ proof.ready \in Readies
  /\ proof.active = Nothing \/ proof.active = [state |-> "active", ready |-> proof.ready]
  /\ proof.freeze = Nothing \/ proof.freeze \in Freezes
  /\ proof.atomic = Nothing \/ proof.atomic \in Atomics

JobShape ==
  /\ job = [pc |-> job.pc, rev |-> job.rev, layout |-> job.layout, paused |-> job.paused,
            seed |-> job.seed, page |-> job.page, scan |-> job.scan, shards |-> job.shards]
  /\ job.rev \in Nat /\ IsSeed(job.seed) /\ job.paused \in BOOLEAN

HubShape ==
  /\ head \in Nat /\ worker \in [mode : {"active", "maintenance"}, rev : Nat]
  /\ consumers \subseteq Queues /\ busy \in BOOLEAN /\ applied \in 0..2
  /\ main \in [Sessions -> Nat] /\ catalog \in [Shards -> [Sessions -> Nat]]
  /\ outbox \subseteq Sessions \X Nat

-----------------------------------------------------------------------------
(* Steps of the job: while the seed moves, from the drain to the proof, and *)
(* from the migrations on.                                                  *)
Seeding == {"pending", "scan", "snapshot", "shards", "retire", "last", "ready", "certify"}

Activating == {"stale", "activate", "reconcile", "verify"}

Quiet == job.pc \in {"copy", "seed", "unready"} \cup Seeding \/ (job.pc = "migrate" /\ job.layout # "active")

(* A checkpoint that is there holds, and what a step is about to write, it  *)
(* has checked.                                                             *)
BooksAgree ==
  /\ applied # 0 => proof.copy = "complete"
  /\ proof.ready # Nothing => proof.copy = "complete" /\ proof.seed.state = "complete"
  /\ proof.active # Nothing => proof.ready # Nothing /\ applied = 2
  /\ job.layout = "active" => proof.active # Nothing

StepsKnow ==
  /\ job.pc \in {"seed", "unready"} \cup Seeding \cup Activating => applied = 2
  /\ job.pc \in {"unready"} \cup Seeding => proof.active = Nothing
  /\ job.pc \in Seeding => proof.ready = Nothing
  /\ job.pc \in {"ready", "certify"} => proof.seed.state = "complete"
  /\ job.pc \in Activating => proof.active # Nothing \/ (proof.ready # Nothing /\ SameCycle(proof.ready))

(* The freeze of this attempt knows of work that still runs.                *)
FreezeKnows ==
  /\ job.pc \in {"initialize", "state", "pause", "maintain"} =>
       proof.freeze = Nothing \/ proof.freeze.cycle = 0
  /\ job.pc = "drain" /\ proof.freeze # Nothing /\ proof.freeze.cycle = 1 => (busy => proof.freeze.waits)

NothingRuns ==
  /\ job.pc \in {"maintain", "drain"} \/ Quiet => consumers = {}
  /\ job.pc = "drain" \/ Quiet => worker.mode = "maintenance"
  /\ Quiet => ~busy

(* No shard is ahead of main, and a version that one lacks is owed.         *)
ShardsFollow ==
  /\ applied # 2 => main = [s \in Sessions |-> 0]
  /\ \A k \in Shards, s \in Sessions : catalog[k][s] <= main[s]
  /\ \A k \in Shards, s \in Sessions : catalog[k][s] = main[s] \/ <<s, main[s]>> \in outbox

(* A page of the seed is of main, and the shards it was written to have it. *)
PageIsMain ==
  job.pc \in {"snapshot", "shards", "retire"} =>
    /\ Covered(job.page) \subseteq Sessions
    /\ \A s \in Covered(job.page) : job.page[s] \in Nat /\ job.page[s] <= main[s]

PageIsWritten ==
  /\ job.pc \in {"shards", "retire"} =>
       \A k \in Shards \ job.shards : \A s \in Covered(job.page) : job.page[s] <= catalog[k][s]
  /\ job.pc = "retire" => job.shards = {}

CutoverInv ==
  /\ ProofShape /\ JobShape /\ HubShape
  /\ BooksAgree /\ StepsKnow /\ FreezeKnows /\ NothingRuns
  /\ ShardsFollow /\ PageIsMain /\ PageIsWritten
LEMMA FailureKeeps == ASSUME CutoverInv, Failed, UNCHANGED <<head, worker, consumers, busy, applied, main, outbox, catalog, proof>>
      PROVE  CutoverInv'
<1> USE DEF CutoverInv, Step, jobVars, sideVars, IdleJob, NoSeed, Nothing, IsSeed, SeedStates, Seeding,
      Activating, Quiet, Failed
<1>1. ProofShape'
  BY DEF ProofShape, Readies, Freezes, Atomics
<1>2. JobShape'
  BY DEF JobShape
<1>3. HubShape'
  BY DEF HubShape
<1>4. BooksAgree'
  BY DEF BooksAgree, ProofShape, JobShape
<1>5. StepsKnow'
  BY DEF StepsKnow, SameCycle, BooksAgree, ProofShape, JobShape
<1>6. FreezeKnows'
  BY DEF FreezeKnows, ProofShape, Freezes, JobShape
<1>7. NothingRuns'
  BY DEF NothingRuns, JobShape
<1>8. ShardsFollow'
  BY DEF ShardsFollow, HubShape
<1>9. PageIsMain'
  BY DEF PageIsMain, Covered, JobShape
<1>10. PageIsWritten'
  BY DEF PageIsWritten, Covered, JobShape
<1> QED  BY <1>1, <1>2, <1>3, <1>4, <1>5, <1>6, <1>7, <1>8, <1>9, <1>10


LEMMA ShardTakes ==
  ASSUME CutoverInv, NEW k \in Shards, SeedShard(k)
  PROVE  /\ Covered(job.page) \subseteq Sessions
         /\ catalog' \in [Shards -> [Sessions -> Nat]]
         /\ \A l \in Shards, s \in Sessions : /\ catalog[l][s] <= catalog'[l][s] /\ catalog'[l][s] <= main[s]
                                              /\ catalog[l][s] = main[s] => catalog'[l][s] = main[s]
         /\ \A s \in Covered(job.page) : job.page[s] <= catalog'[k][s]
<1> DEFINE row == [s \in Sessions |-> IF s \in Covered(job.page) /\ catalog[k][s] < job.page[s] THEN
  job.page[s] ELSE catalog[k][s]]
<1>1. catalog' = [catalog EXCEPT ![k] = row] /\ job.pc = "shards"
  BY DEF SeedShard
<1>2. /\ Covered(job.page) \subseteq Sessions
      /\ \A s \in Covered(job.page) : job.page[s] \in Nat /\ job.page[s] <= main[s]
  BY <1>1 DEF CutoverInv, PageIsMain
<1>3. /\ main \in [Sessions -> Nat] /\ catalog \in [Shards -> [Sessions -> Nat]]
      /\ \A l \in Shards, s \in Sessions : catalog[l][s] <= main[s]
  BY DEF CutoverInv, HubShape, ShardsFollow
<1>4. row \in [Sessions -> Nat]
  BY <1>2, <1>3
<1>5. \A s \in Sessions : catalog[k][s] <= row[s] /\ row[s] <= main[s]
  BY <1>2, <1>3
<1>6. \A s \in Covered(job.page) : job.page[s] <= row[s]
  BY <1>2, <1>3
<1> HIDE DEF row
<1>7. catalog' \in [Shards -> [Sessions -> Nat]]
  BY <1>1, <1>3, <1>4
<1>8. catalog'[k] = row /\ \A l \in Shards \ {k} : catalog'[l] = catalog[l]
  BY <1>1, <1>3
<1>9. ASSUME NEW l \in Shards, NEW s \in Sessions
      PROVE  /\ catalog[l][s] <= catalog'[l][s] /\ catalog'[l][s] <= main[s]
             /\ catalog[l][s] = main[s] => catalog'[l][s] = main[s]
  <2>1. catalog[l][s] \in Nat /\ catalog'[l][s] \in Nat /\ main[s] \in Nat /\ catalog[l][s] <= main[s]
    BY <1>3, <1>7
  <2>2. catalog[l][s] <= catalog'[l][s] /\ catalog'[l][s] <= main[s]
    BY <1>5, <1>8, <2>1
  <2> QED  BY <2>1, <2>2
<1> QED  BY <1>2, <1>6, <1>7, <1>8, <1>9

LEMMA SeedShardKeeps == ASSUME CutoverInv, NEW k \in Shards, SeedShard(k) PROVE CutoverInv'
<1>0. /\ job.pc = "shards" /\ k \in job.shards /\ UNCHANGED <<head, worker, consumers, busy, applied, main, outbox, proof>>
  BY DEF SeedShard, sideVars
<1>1. CASE Failed
  <2> USE DEF CutoverInv, Step, jobVars, sideVars, IdleJob, NoSeed, Nothing, IsSeed, SeedStates,
        Seeding, Activating, Quiet, Failed
  <2>1. ProofShape'
    BY <1>0, <1>1, ShardTakes DEF ProofShape, Readies, Freezes, Atomics
  <2>2. JobShape'
    BY <1>0, <1>1, ShardTakes DEF JobShape
  <2>3. HubShape'
    BY <1>0, <1>1, ShardTakes DEF HubShape
  <2>4. BooksAgree'
    BY <1>0, <1>1, ShardTakes DEF BooksAgree, ProofShape, JobShape
  <2>5. StepsKnow'
    BY <1>0, <1>1, ShardTakes DEF StepsKnow, SameCycle, BooksAgree, ProofShape, JobShape
  <2>6. FreezeKnows'
    BY <1>0, <1>1, ShardTakes DEF FreezeKnows, ProofShape, Freezes, JobShape
  <2>7. NothingRuns'
    BY <1>0, <1>1, ShardTakes DEF NothingRuns, JobShape
  <2>8. ShardsFollow'
    BY <1>0, <1>1, ShardTakes DEF ShardsFollow, HubShape, HubShape
  <2>9. PageIsMain'
    BY <1>0, <1>1, ShardTakes DEF PageIsMain, Covered, JobShape
  <2>10. PageIsWritten'
    BY <1>0, <1>1, ShardTakes DEF PageIsWritten, Covered, JobShape
  <2> QED  BY <2>1, <2>2, <2>3, <2>4, <2>5, <2>6, <2>7, <2>8, <2>9, <2>10
<1>2. CASE job' = [job EXCEPT !.shards = @ \ {k}, !.pc = IF job.shards = {k} THEN "retire" ELSE @]
  <2> USE DEF CutoverInv, Step, jobVars, sideVars, IdleJob, NoSeed, Nothing, IsSeed, SeedStates,
        Seeding, Activating, Quiet
  <2>1. ProofShape'
    BY <1>0, <1>2, ShardTakes DEF ProofShape, Readies, Freezes, Atomics
  <2>2. JobShape'
    BY <1>0, <1>2, ShardTakes DEF JobShape
  <2>3. HubShape'
    BY <1>0, <1>2, ShardTakes DEF HubShape
  <2>4. BooksAgree'
    BY <1>0, <1>2, ShardTakes DEF BooksAgree, ProofShape, JobShape
  <2>5. StepsKnow'
    BY <1>0, <1>2, ShardTakes DEF StepsKnow, SameCycle, BooksAgree, ProofShape, JobShape
  <2>6. FreezeKnows'
    BY <1>0, <1>2, ShardTakes DEF FreezeKnows, ProofShape, Freezes, JobShape
  <2>7. NothingRuns'
    BY <1>0, <1>2, ShardTakes DEF NothingRuns, JobShape
  <2>8. ShardsFollow'
    BY <1>0, <1>2, ShardTakes DEF ShardsFollow, HubShape
  <2>9. PageIsMain'
    BY <1>0, <1>2, ShardTakes DEF PageIsMain, Covered, JobShape
  <2>10. PageIsWritten'
    BY <1>0, <1>2, ShardTakes DEF PageIsWritten, Covered, JobShape, PageIsMain, HubShape
  <2> QED  BY <2>1, <2>2, <2>3, <2>4, <2>5, <2>6, <2>7, <2>8, <2>9, <2>10
<1> QED  BY <1>1, <1>2 DEF SeedShard

LEMMA ChangeKeeps == ASSUME CutoverInv, NEW s \in Sessions, Change(s) PROVE CutoverInv'
<1> USE DEF CutoverInv, Step, jobVars, sideVars, IdleJob, NoSeed, Nothing, IsSeed, SeedStates, Seeding,
      Activating, Quiet, Change
<1>1. ProofShape'
  BY DEF ProofShape, Readies, Freezes, Atomics
<1>2. JobShape'
  BY DEF JobShape
<1>3. HubShape'
  BY DEF HubShape
<1>4. BooksAgree'
  BY DEF BooksAgree, ProofShape, JobShape
<1>5. StepsKnow'
  BY DEF StepsKnow, SameCycle, BooksAgree, ProofShape, JobShape
<1>6. FreezeKnows'
  BY DEF FreezeKnows, ProofShape, Freezes, JobShape
<1>7. NothingRuns'
  BY DEF NothingRuns, JobShape
<1>8. ShardsFollow'
  BY DEF ShardsFollow, HubShape
<1>9. PageIsMain'
  BY DEF PageIsMain, Covered, JobShape, HubShape
<1>10. PageIsWritten'
  BY DEF PageIsWritten, Covered, JobShape, HubShape
<1> QED  BY <1>1, <1>2, <1>3, <1>4, <1>5, <1>6, <1>7, <1>8, <1>9, <1>10

LEMMA PropagateKeeps == ASSUME CutoverInv, NEW s \in Sessions, NEW k \in Shards, Propagate(s, k)
      PROVE  CutoverInv'
<1> USE DEF CutoverInv, Step, jobVars, sideVars, IdleJob, NoSeed, Nothing, IsSeed, SeedStates, Seeding,
      Activating, Quiet, Propagate
<1>1. ProofShape'
  BY DEF ProofShape, Readies, Freezes, Atomics
<1>2. JobShape'
  BY DEF JobShape
<1>3. HubShape'
  BY DEF HubShape
<1>4. BooksAgree'
  BY DEF BooksAgree, ProofShape, JobShape
<1>5. StepsKnow'
  BY DEF StepsKnow, SameCycle, BooksAgree, ProofShape, JobShape
<1>6. FreezeKnows'
  BY DEF FreezeKnows, ProofShape, Freezes, JobShape
<1>7. NothingRuns'
  BY DEF NothingRuns, JobShape
<1>8. ShardsFollow'
  BY DEF ShardsFollow, HubShape
<1>9. PageIsMain'
  BY DEF PageIsMain, Covered, JobShape
<1>10. PageIsWritten'
  BY DEF PageIsWritten, Covered, JobShape, PageIsMain, HubShape
<1> QED  BY <1>1, <1>2, <1>3, <1>4, <1>5, <1>6, <1>7, <1>8, <1>9, <1>10

LEMMA PushKeeps == ASSUME CutoverInv, Push PROVE CutoverInv'
<1> USE DEF CutoverInv, Step, jobVars, sideVars, IdleJob, NoSeed, Nothing, IsSeed, SeedStates, Seeding,
      Activating, Quiet, Push
<1>1. ProofShape'
  BY DEF ProofShape, Readies, Freezes, Atomics
<1>2. JobShape'
  BY DEF JobShape
<1>3. HubShape'
  BY DEF HubShape
<1>4. BooksAgree'
  BY DEF BooksAgree, ProofShape, JobShape
<1>5. StepsKnow'
  BY DEF StepsKnow, SameCycle, BooksAgree, ProofShape, JobShape
<1>6. FreezeKnows'
  BY DEF FreezeKnows, ProofShape, Freezes, JobShape
<1>7. NothingRuns'
  BY DEF NothingRuns, JobShape
<1>8. ShardsFollow'
  BY DEF ShardsFollow, HubShape
<1>9. PageIsMain'
  BY DEF PageIsMain, Covered, JobShape
<1>10. PageIsWritten'
  BY DEF PageIsWritten, Covered, JobShape
<1> QED  BY <1>1, <1>2, <1>3, <1>4, <1>5, <1>6, <1>7, <1>8, <1>9, <1>10

LEMMA FinishKeeps == ASSUME CutoverInv, Finish PROVE CutoverInv'
<1> USE DEF CutoverInv, Step, jobVars, sideVars, IdleJob, NoSeed, Nothing, IsSeed, SeedStates, Seeding,
      Activating, Quiet, Finish
<1>1. ProofShape'
  BY DEF ProofShape, Readies, Freezes, Atomics
<1>2. JobShape'
  BY DEF JobShape
<1>3. HubShape'
  BY DEF HubShape
<1>4. BooksAgree'
  BY DEF BooksAgree, ProofShape, JobShape
<1>5. StepsKnow'
  BY DEF StepsKnow, SameCycle, BooksAgree, ProofShape, JobShape
<1>6. FreezeKnows'
  BY DEF FreezeKnows, ProofShape, Freezes, JobShape
<1>7. NothingRuns'
  BY DEF NothingRuns, JobShape
<1>8. ShardsFollow'
  BY DEF ShardsFollow, HubShape
<1>9. PageIsMain'
  BY DEF PageIsMain, Covered, JobShape
<1>10. PageIsWritten'
  BY DEF PageIsWritten, Covered, JobShape
<1> QED  BY <1>1, <1>2, <1>3, <1>4, <1>5, <1>6, <1>7, <1>8, <1>9, <1>10

LEMMA DiesKeeps == ASSUME CutoverInv, Dies PROVE CutoverInv'
<1> USE DEF CutoverInv, Step, jobVars, sideVars, IdleJob, NoSeed, Nothing, IsSeed, SeedStates, Seeding,
      Activating, Quiet, Dies
<1>1. ProofShape'
  BY DEF ProofShape, Readies, Freezes, Atomics
<1>2. JobShape'
  BY DEF JobShape
<1>3. HubShape'
  BY DEF HubShape
<1>4. BooksAgree'
  BY DEF BooksAgree, ProofShape, JobShape
<1>5. StepsKnow'
  BY DEF StepsKnow, SameCycle, BooksAgree, ProofShape, JobShape
<1>6. FreezeKnows'
  BY DEF FreezeKnows, ProofShape, Freezes, JobShape
<1>7. NothingRuns'
  BY DEF NothingRuns, JobShape
<1>8. ShardsFollow'
  BY DEF ShardsFollow, HubShape
<1>9. PageIsMain'
  BY DEF PageIsMain, Covered, JobShape
<1>10. PageIsWritten'
  BY DEF PageIsWritten, Covered, JobShape
<1> QED  BY <1>1, <1>2, <1>3, <1>4, <1>5, <1>6, <1>7, <1>8, <1>9, <1>10

LEMMA PauseKeeps == ASSUME CutoverInv, Pause PROVE CutoverInv'
<1> USE DEF CutoverInv, Step, jobVars, sideVars, IdleJob, NoSeed, Nothing, IsSeed, SeedStates, Seeding,
      Activating, Quiet, Pause
<1>1. ProofShape'
  BY DEF ProofShape, Readies, Freezes, Atomics
<1>2. JobShape'
  BY DEF JobShape
<1>3. HubShape'
  BY DEF HubShape
<1>4. BooksAgree'
  BY DEF BooksAgree, ProofShape, JobShape
<1>5. StepsKnow'
  BY DEF StepsKnow, SameCycle, BooksAgree, ProofShape, JobShape
<1>6. FreezeKnows'
  BY DEF FreezeKnows, ProofShape, Freezes, JobShape
<1>7. NothingRuns'
  BY DEF NothingRuns, JobShape
<1>8. ShardsFollow'
  BY DEF ShardsFollow, HubShape
<1>9. PageIsMain'
  BY DEF PageIsMain, Covered, JobShape
<1>10. PageIsWritten'
  BY DEF PageIsWritten, Covered, JobShape
<1> QED  BY <1>1, <1>2, <1>3, <1>4, <1>5, <1>6, <1>7, <1>8, <1>9, <1>10

LEMMA SeedRetireKeeps == ASSUME CutoverInv, SeedRetire PROVE CutoverInv'
<1>1. CASE Failed /\ UNCHANGED <<head, worker, consumers, busy, applied, main, outbox, catalog, proof>>
  BY <1>1, FailureKeeps
<1>2. CASE /\ job.pc = "retire" /\ outbox' = {o \in outbox : ~Retirable(o, job.page)}
          /\ \E rows, after : job' = [job EXCEPT !.pc = "pending", !.page = <<>>,
                                        !.seed = [@ EXCEPT !.rows = rows, !.after = after]]
          /\ UNCHANGED <<head, worker, consumers, busy, applied, main, catalog, proof>>
  <2> USE DEF CutoverInv, Step, jobVars, sideVars, IdleJob, NoSeed, Nothing, IsSeed, SeedStates,
        Seeding, Activating, Quiet
  <2>1. ProofShape'
    BY <1>2 DEF ProofShape, Readies, Freezes, Atomics
  <2>2. JobShape'
    BY <1>2 DEF JobShape
  <2>3. HubShape'
    BY <1>2 DEF HubShape
  <2>4. BooksAgree'
    BY <1>2 DEF BooksAgree, ProofShape, JobShape
  <2>5. StepsKnow'
    BY <1>2 DEF StepsKnow, SameCycle, BooksAgree, ProofShape, JobShape
  <2>6. FreezeKnows'
    BY <1>2 DEF FreezeKnows, ProofShape, Freezes, JobShape
  <2>7. NothingRuns'
    BY <1>2 DEF NothingRuns, JobShape
  <2>8. ShardsFollow'
    <3>1. /\ job.shards = {} /\ Covered(job.page) \subseteq Sessions
          /\ \A s \in Covered(job.page) : job.page[s] \in Nat /\ job.page[s] <= main[s]
          /\ \A k \in Shards : \A s \in Covered(job.page) : job.page[s] <= catalog[k][s]
      BY <1>2 DEF CutoverInv, PageIsMain, PageIsWritten
    <3>2. ASSUME NEW k \in Shards, NEW s \in Sessions, <<s, main[s]>> \in outbox, <<s, main[s]>> \notin outbox'
          PROVE  catalog[k][s] = main[s]
      <4>1. s \in Covered(job.page) /\ main[s] <= job.page[s]
        BY <1>2, <3>2 DEF Retirable
      <4>2. main[s] \in Nat /\ catalog[k][s] \in Nat /\ catalog[k][s] <= main[s]
        BY DEF CutoverInv, HubShape, ShardsFollow
      <4> QED  BY <3>1, <4>1, <4>2
    <3> QED  BY <1>2, <3>2 DEF CutoverInv, ShardsFollow
  <2>9. PageIsMain'
    BY <1>2 DEF PageIsMain, Covered, JobShape
  <2>10. PageIsWritten'
    BY <1>2 DEF PageIsWritten, Covered, JobShape
  <2> QED  BY <2>1, <2>2, <2>3, <2>4, <2>5, <2>6, <2>7, <2>8, <2>9, <2>10
<1> QED  BY <1>1, <1>2 DEF SeedRetire, Step, jobVars, sideVars

LEMMA BeginKeeps == ASSUME CutoverInv, Begin PROVE CutoverInv'
<1> USE DEF CutoverInv, Step, jobVars, sideVars, IdleJob, NoSeed, Nothing, IsSeed, SeedStates, Seeding,
      Activating, Quiet, Begin
<1>1. ProofShape'
  BY DEF ProofShape, Readies, Freezes, Atomics
<1>2. JobShape'
  BY DEF JobShape
<1>3. HubShape'
  BY DEF HubShape
<1>4. BooksAgree'
  BY DEF BooksAgree, ProofShape, JobShape
<1>5. StepsKnow'
  BY DEF StepsKnow, SameCycle, BooksAgree, ProofShape, JobShape
<1>6. FreezeKnows'
  <2>1. job.pc # "drain" /\ UNCHANGED <<job, proof>>
    BY DEF Begin, CutoverInv, NothingRuns
  <2>2. job.pc \in {"initialize", "state", "pause", "maintain"} => proof.freeze = Nothing \/ proof.freeze.cycle = 0
    BY DEF CutoverInv, FreezeKnows
  <2>3. job'.pc \in {"initialize", "state", "pause", "maintain"} => proof'.freeze = Nothing \/ proof'.freeze.cycle = 0
    BY <2>1, <2>2
  <2>4. job'.pc # "drain"
    BY <2>1
  <2> QED  BY <2>3, <2>4, Zenon DEF FreezeKnows
<1>7. NothingRuns'
  BY DEF NothingRuns, JobShape
<1>8. ShardsFollow'
  BY DEF ShardsFollow, HubShape
<1>9. PageIsMain'
  BY DEF PageIsMain, Covered, JobShape
<1>10. PageIsWritten'
  BY DEF PageIsWritten, Covered, JobShape
<1> QED  BY <1>1, <1>2, <1>3, <1>4, <1>5, <1>6, <1>7, <1>8, <1>9, <1>10

LEMMA FallbackKeeps ==
  ASSUME CutoverInv, job.pc \in {"repause", "redeploy"}, Fallback,
         UNCHANGED <<head, worker, consumers, busy, applied, main, outbox, catalog, proof>>
  PROVE  CutoverInv'
<1>0. job' = IdleJob \/ job' = [job EXCEPT !.pc = "redeploy"]
  BY DEF Fallback, Step
<1> USE DEF CutoverInv, IdleJob, NoSeed, Nothing, IsSeed, SeedStates, Seeding, Activating, Quiet
<1>1. ProofShape'
  BY <1>0 DEF ProofShape, Readies, Freezes, Atomics
<1>2. JobShape'
  <2>1. CASE job' = IdleJob
    BY <2>1 DEF JobShape
  <2>2. CASE job' = [job EXCEPT !.pc = "redeploy"]
    BY <2>2 DEF JobShape
  <2> QED  BY <1>0, <2>1, <2>2
<1>3. HubShape'
  BY <1>0 DEF HubShape
<1>4. BooksAgree'
  BY <1>0 DEF BooksAgree, ProofShape, JobShape
<1>5. StepsKnow'
  BY <1>0 DEF StepsKnow, SameCycle, BooksAgree, ProofShape, JobShape
<1>6. FreezeKnows'
  BY <1>0 DEF FreezeKnows, ProofShape, Freezes, JobShape
<1>7. NothingRuns'
  BY <1>0 DEF NothingRuns, JobShape
<1>8. ShardsFollow'
  BY <1>0 DEF ShardsFollow, HubShape
<1>9. PageIsMain'
  BY <1>0 DEF PageIsMain, Covered, JobShape
<1>10. PageIsWritten'
  BY <1>0 DEF PageIsWritten, Covered, JobShape
<1> QED  BY <1>1, <1>2, <1>3, <1>4, <1>5, <1>6, <1>7, <1>8, <1>9, <1>10

LEMMA FailsKeeps == ASSUME CutoverInv, Fails PROVE CutoverInv'
<1>1. CASE job.pc \in {"repause", "redeploy"}
  BY <1>1, FallbackKeeps DEF Fails, sideVars
<1>2. CASE job.pc \notin {"repause", "redeploy"}
  <2>1. Failed
    BY <1>2 DEF Fails, Fallback
  <2> QED  BY <2>1, FailureKeeps DEF Fails, sideVars
<1> QED  BY <1>1, <1>2

(* What is aged keeps its place, and is of no later attempt.               *)
LEMMA AgedIsOld ==
  /\ Aged(Nothing) = Nothing
  /\ \A c \in Freezes : Aged(c) \in Freezes /\ Aged(c).cycle = 0
  /\ \A c \in Atomics : Aged(c) \in Atomics
  /\ \A c \in Readies : Aged(c) \in Readies /\ Aged(c) # Nothing
BY DEF Aged, Nothing, Freezes, Atomics, Readies

LEMMA StartJobKeeps == ASSUME CutoverInv, StartJob PROVE CutoverInv'
<1>1. /\ job' = [pc |-> "initialize", rev |-> head, layout |-> "none", paused |-> FALSE,
                 seed |-> NoSeed, page |-> <<>>, scan |-> FALSE, shards |-> {}]
      /\ UNCHANGED <<head, worker, consumers, busy, applied, main, outbox, catalog>>
  BY DEF StartJob, IdleJob, jobVars, sideVars
<1>2. proof' = [copy |-> proof.copy, seed |-> proof.seed, ready |-> Aged(proof.ready),
                active |-> IF proof.active = Nothing THEN Nothing ELSE [state |-> "active", ready |-> Aged(proof.ready)],
                freeze |-> Aged(proof.freeze), atomic |-> Aged(proof.atomic)]
  <2>1. proof = [copy |-> proof.copy, seed |-> proof.seed, ready |-> proof.ready, active |-> proof.active,
                 freeze |-> proof.freeze, atomic |-> proof.atomic]
    BY DEF CutoverInv, ProofShape
  <2>2. proof.active # Nothing => proof.active = [state |-> "active", ready |-> proof.ready]
    BY DEF CutoverInv, ProofShape
  <2>3. proof' = [proof EXCEPT !.freeze = Aged(@), !.atomic = Aged(@), !.ready = Aged(@), !.active = AgedWith(@)]
    BY DEF StartJob
  <2>4. proof' = [copy |-> proof.copy, seed |-> proof.seed, ready |-> Aged(proof.ready),
                  active |-> AgedWith(proof.active),
                  freeze |-> Aged(proof.freeze), atomic |-> Aged(proof.atomic)]
    BY <2>1, <2>3
  <2>5. proof.active # Nothing =>
          [proof.active EXCEPT !.ready = Aged(@)] = [state |-> "active", ready |-> Aged(proof.ready)]
    BY <2>2
  <2> QED  BY <2>4, <2>5 DEF AgedWith
<1>3. /\ proof.ready = Nothing \/ proof.ready \in Readies
      /\ proof.freeze = Nothing \/ proof.freeze \in Freezes
      /\ proof.atomic = Nothing \/ proof.atomic \in Atomics
  BY DEF CutoverInv, ProofShape
<1>4. /\ Aged(proof.ready) = Nothing \/ Aged(proof.ready) \in Readies
      /\ Aged(proof.freeze) = Nothing \/ (Aged(proof.freeze) \in Freezes /\ Aged(proof.freeze).cycle = 0)
      /\ Aged(proof.atomic) = Nothing \/ Aged(proof.atomic) \in Atomics
      /\ proof.ready = Nothing <=> Aged(proof.ready) = Nothing
  BY <1>3, AgedIsOld
<1>5. UNCHANGED <<proof.copy, proof.seed>> /\ Readies' = Readies
  BY <1>2 DEF Readies
<1>6. ProofShape'
  BY <1>2, <1>4, <1>5 DEF CutoverInv, ProofShape, IsSeed, Freezes, Atomics
<1>7. HubShape' /\ ShardsFollow'
  BY <1>1 DEF CutoverInv, HubShape, ShardsFollow
<1>8. JobShape'
  BY <1>1 DEF CutoverInv, HubShape, JobShape, IsSeed, NoSeed, SeedStates
<1>9. BooksAgree'
  BY <1>1, <1>2, <1>4 DEF CutoverInv, BooksAgree, Nothing
<1>10. FreezeKnows'
  <2>1. job'.pc = "initialize" /\ proof'.freeze = Aged(proof.freeze)
    BY <1>1, <1>2
  <2> QED  BY <1>4, <2>1 DEF FreezeKnows
<1>11. StepsKnow' /\ NothingRuns' /\ PageIsMain' /\ PageIsWritten'
  BY <1>1 DEF StepsKnow, NothingRuns, PageIsMain, PageIsWritten, Seeding, Activating, Quiet
<1> QED  BY <1>6, <1>7, <1>8, <1>9, <1>10, <1>11 DEF CutoverInv

LEMMA ReconcileKeeps == ASSUME CutoverInv, Reconcile PROVE CutoverInv'
<1> DEFINE ids == PageOf({o[1] : o \in outbox})
           page == [s \in ids |-> main[s]]
<1>1. /\ ids \subseteq Sessions /\ main \in [Sessions -> Nat] /\ catalog \in [Shards -> [Sessions -> Nat]]
  BY DEF CutoverInv, HubShape, PageOf
<1>2. /\ catalog' = [k \in Shards |-> [s \in Sessions |-> IF s \in ids THEN main[s] ELSE catalog[k][s]]]
      /\ outbox' = {o \in outbox : ~(o[1] \in ids /\ o[2] <= main[o[1]])}
  BY DEF Reconcile, Covered, Retirable
<1>3. UNCHANGED <<head, worker, consumers, busy, applied, main, proof>> /\ Step("verify") /\ job.pc = "reconcile"
  BY DEF Reconcile, sideVars
<1> HIDE DEF ids
<1>4. HubShape'
  <2>1. catalog' \in [Shards -> [Sessions -> Nat]]
    BY <1>1, <1>2
  <2> QED  BY <1>2, <1>3, <2>1 DEF CutoverInv, HubShape
<1>5. applied = 2
  BY <1>3 DEF CutoverInv, StepsKnow, Activating
<1>6. ASSUME NEW k \in Shards, NEW s \in Sessions
      PROVE  catalog'[k][s] <= main[s] /\ (catalog'[k][s] = main[s] \/ <<s, main[s]>> \in outbox')
  <2>1. catalog'[k][s] = IF s \in ids THEN main[s] ELSE catalog[k][s]
    BY <1>2
  <2>2. main[s] \in Nat /\ catalog[k][s] <= main[s] /\ (catalog[k][s] = main[s] \/ <<s, main[s]>> \in outbox)
    BY <1>1 DEF CutoverInv, ShardsFollow
  <2> QED  BY <1>2, <2>1, <2>2
<1>7. ShardsFollow'
  BY <1>3, <1>5, <1>6 DEF ShardsFollow
<1>8. ProofShape'
  BY <1>3 DEF CutoverInv, Step, jobVars, sideVars, IdleJob, NoSeed, Nothing, IsSeed, SeedStates,
     Seeding, Activating, Quiet, ProofShape, Readies, Freezes, Atomics
<1>9. JobShape'
  BY <1>3 DEF CutoverInv, Step, jobVars, sideVars, IdleJob, NoSeed, Nothing, IsSeed, SeedStates,
     Seeding, Activating, Quiet, JobShape
<1>10. BooksAgree'
  BY <1>3 DEF CutoverInv, Step, jobVars, sideVars, IdleJob, NoSeed, Nothing, IsSeed, SeedStates,
     Seeding, Activating, Quiet, BooksAgree, ProofShape, JobShape
<1>11. StepsKnow'
  BY <1>3 DEF CutoverInv, Step, jobVars, sideVars, IdleJob, NoSeed, Nothing, IsSeed, SeedStates,
     Seeding, Activating, Quiet, StepsKnow, SameCycle, BooksAgree, ProofShape, JobShape
<1>12. FreezeKnows'
  BY <1>3 DEF CutoverInv, Step, jobVars, sideVars, IdleJob, NoSeed, Nothing, IsSeed, SeedStates,
     Seeding, Activating, Quiet, FreezeKnows, ProofShape, Freezes, JobShape
<1>13. NothingRuns'
  BY <1>3 DEF CutoverInv, Step, jobVars, sideVars, IdleJob, NoSeed, Nothing, IsSeed, SeedStates,
     Seeding, Activating, Quiet, NothingRuns, JobShape
<1>14. PageIsMain'
  BY <1>3 DEF CutoverInv, Step, jobVars, sideVars, IdleJob, NoSeed, Nothing, IsSeed, SeedStates,
     Seeding, Activating, Quiet, PageIsMain, Covered, JobShape
<1>15. PageIsWritten'
  BY <1>3 DEF CutoverInv, Step, jobVars, sideVars, IdleJob, NoSeed, Nothing, IsSeed, SeedStates,
     Seeding, Activating, Quiet, PageIsWritten, Covered, JobShape
<1> QED  BY <1>4, <1>7, <1>8, <1>9, <1>10, <1>11, <1>12, <1>13, <1>14, <1>15 DEF CutoverInv

LEMMA ClassifyKeeps == ASSUME CutoverInv, Classify PROVE CutoverInv'
<1>1. CASE Failed /\ UNCHANGED <<head, worker, consumers, busy, applied, main, outbox, catalog, proof>>
  BY <1>1, FailureKeeps
<1>2. CASE /\ job.pc = "state" /\ Classifies
          /\ job' = [job EXCEPT !.layout = Layout, !.pc = IF Layout = "active" THEN "migrate" ELSE "pause",
                                !.paused = (Layout # "active")]
          /\ UNCHANGED <<head, worker, consumers, busy, applied, main, outbox, catalog, proof>>
  <2> USE DEF CutoverInv, Step, jobVars, sideVars, IdleJob, NoSeed, Nothing, IsSeed, SeedStates,
        Seeding, Activating, Quiet, Layout, Classifies
  <2>1. ProofShape'
    BY <1>2 DEF ProofShape, Readies, Freezes, Atomics
  <2>2. JobShape'
    BY <1>2 DEF JobShape
  <2>3. HubShape'
    BY <1>2 DEF HubShape
  <2>4. BooksAgree'
    BY <1>2 DEF BooksAgree, ProofShape, JobShape
  <2>5. StepsKnow'
    BY <1>2 DEF StepsKnow, SameCycle, BooksAgree, ProofShape, JobShape
  <2>6. FreezeKnows'
    BY <1>2 DEF FreezeKnows, ProofShape, Freezes, JobShape
  <2>7. NothingRuns'
    BY <1>2 DEF NothingRuns, JobShape
  <2>8. ShardsFollow'
    BY <1>2 DEF ShardsFollow, HubShape
  <2>9. PageIsMain'
    BY <1>2 DEF PageIsMain, Covered, JobShape
  <2>10. PageIsWritten'
    BY <1>2 DEF PageIsWritten, Covered, JobShape
  <2> QED  BY <2>1, <2>2, <2>3, <2>4, <2>5, <2>6, <2>7, <2>8, <2>9, <2>10
<1> QED  BY <1>1, <1>2 DEF Classify, Step, jobVars, sideVars

LEMMA StaleKeeps == ASSUME CutoverInv, Stale PROVE CutoverInv'
<1>1. CASE Failed /\ UNCHANGED <<head, worker, consumers, busy, applied, main, outbox, catalog, proof>>
  BY <1>1, FailureKeeps
<1>2. CASE /\ job.pc = "stale" /\ job' = [job EXCEPT !.pc = "activate"]
          /\ UNCHANGED <<head, worker, consumers, busy, applied, main, outbox, catalog, proof>>
  <2> USE DEF CutoverInv, Step, jobVars, sideVars, IdleJob, NoSeed, Nothing, IsSeed, SeedStates,
        Seeding, Activating, Quiet
  <2>1. ProofShape'
    BY <1>2 DEF ProofShape, Readies, Freezes, Atomics
  <2>2. JobShape'
    BY <1>2 DEF JobShape
  <2>3. HubShape'
    BY <1>2 DEF HubShape
  <2>4. BooksAgree'
    BY <1>2 DEF BooksAgree, ProofShape, JobShape
  <2>5. StepsKnow'
    BY <1>2 DEF StepsKnow, SameCycle, BooksAgree, ProofShape, JobShape
  <2>6. FreezeKnows'
    BY <1>2 DEF FreezeKnows, ProofShape, Freezes, JobShape
  <2>7. NothingRuns'
    BY <1>2 DEF NothingRuns, JobShape
  <2>8. ShardsFollow'
    BY <1>2 DEF ShardsFollow, HubShape
  <2>9. PageIsMain'
    BY <1>2 DEF PageIsMain, Covered, JobShape
  <2>10. PageIsWritten'
    BY <1>2 DEF PageIsWritten, Covered, JobShape
  <2> QED  BY <2>1, <2>2, <2>3, <2>4, <2>5, <2>6, <2>7, <2>8, <2>9, <2>10
<1> QED  BY <1>1, <1>2 DEF Stale, Step, jobVars, sideVars

LEMMA ReadyKeeps == ASSUME CutoverInv, Ready PROVE CutoverInv'
<1>1. CASE Failed /\ UNCHANGED <<head, worker, consumers, busy, applied, main, outbox, catalog, proof>>
  BY <1>1, FailureKeeps
<1>2. CASE /\ job.pc = "ready" /\ outbox = {} /\ proof.seed.state = "complete" /\ job' = [job EXCEPT !.pc = "certify"]
          /\ UNCHANGED <<head, worker, consumers, busy, applied, main, outbox, catalog, proof>>
  <2> USE DEF CutoverInv, Step, jobVars, sideVars, IdleJob, NoSeed, Nothing, IsSeed, SeedStates,
        Seeding, Activating, Quiet
  <2>1. ProofShape'
    BY <1>2 DEF ProofShape, Readies, Freezes, Atomics
  <2>2. JobShape'
    BY <1>2 DEF JobShape
  <2>3. HubShape'
    BY <1>2 DEF HubShape
  <2>4. BooksAgree'
    BY <1>2 DEF BooksAgree, ProofShape, JobShape
  <2>5. StepsKnow'
    BY <1>2 DEF StepsKnow, SameCycle, BooksAgree, ProofShape, JobShape
  <2>6. FreezeKnows'
    BY <1>2 DEF FreezeKnows, ProofShape, Freezes, JobShape
  <2>7. NothingRuns'
    BY <1>2 DEF NothingRuns, JobShape
  <2>8. ShardsFollow'
    BY <1>2 DEF ShardsFollow, HubShape
  <2>9. PageIsMain'
    BY <1>2 DEF PageIsMain, Covered, JobShape
  <2>10. PageIsWritten'
    BY <1>2 DEF PageIsWritten, Covered, JobShape
  <2> QED  BY <2>1, <2>2, <2>3, <2>4, <2>5, <2>6, <2>7, <2>8, <2>9, <2>10
<1> QED  BY <1>1, <1>2 DEF Ready, Step, jobVars, sideVars

LEMMA SeedLastKeeps == ASSUME CutoverInv, SeedLast PROVE CutoverInv'
<1>1. CASE Failed /\ UNCHANGED <<head, worker, consumers, busy, applied, main, outbox, catalog, proof>>
  BY <1>1, FailureKeeps
<1>2. CASE /\ job.pc = "last" /\ outbox = {} /\ job' = [job EXCEPT !.pc = "pending", !.seed.state = "complete"]
          /\ UNCHANGED <<head, worker, consumers, busy, applied, main, outbox, catalog, proof>>
  <2> USE DEF CutoverInv, Step, jobVars, sideVars, IdleJob, NoSeed, Nothing, IsSeed, SeedStates,
        Seeding, Activating, Quiet
  <2>1. ProofShape'
    BY <1>2 DEF ProofShape, Readies, Freezes, Atomics
  <2>2. JobShape'
    BY <1>2 DEF JobShape
  <2>3. HubShape'
    BY <1>2 DEF HubShape
  <2>4. BooksAgree'
    BY <1>2 DEF BooksAgree, ProofShape, JobShape
  <2>5. StepsKnow'
    BY <1>2 DEF StepsKnow, SameCycle, BooksAgree, ProofShape, JobShape
  <2>6. FreezeKnows'
    BY <1>2 DEF FreezeKnows, ProofShape, Freezes, JobShape
  <2>7. NothingRuns'
    BY <1>2 DEF NothingRuns, JobShape
  <2>8. ShardsFollow'
    BY <1>2 DEF ShardsFollow, HubShape
  <2>9. PageIsMain'
    BY <1>2 DEF PageIsMain, Covered, JobShape
  <2>10. PageIsWritten'
    BY <1>2 DEF PageIsWritten, Covered, JobShape
  <2> QED  BY <2>1, <2>2, <2>3, <2>4, <2>5, <2>6, <2>7, <2>8, <2>9, <2>10
<1> QED  BY <1>1, <1>2 DEF SeedLast, Step, jobVars, sideVars

LEMMA SnapshotKeeps == ASSUME CutoverInv, Snapshot PROVE CutoverInv'
<1>1. CASE Failed /\ UNCHANGED <<head, worker, consumers, busy, applied, main, outbox, catalog, proof>>
  BY <1>1, FailureKeeps
<1>2. CASE /\ job.pc = "snapshot" /\ (\A s \in Covered(job.page) : main[s] = job.page[s])
          /\ job' = [job EXCEPT !.pc = "shards", !.shards = Shards]
          /\ UNCHANGED <<head, worker, consumers, busy, applied, main, outbox, catalog, proof>>
  <2> USE DEF CutoverInv, Step, jobVars, sideVars, IdleJob, NoSeed, Nothing, IsSeed, SeedStates,
        Seeding, Activating, Quiet
  <2>1. ProofShape'
    BY <1>2 DEF ProofShape, Readies, Freezes, Atomics
  <2>2. JobShape'
    BY <1>2 DEF JobShape
  <2>3. HubShape'
    BY <1>2 DEF HubShape
  <2>4. BooksAgree'
    BY <1>2 DEF BooksAgree, ProofShape, JobShape
  <2>5. StepsKnow'
    BY <1>2 DEF StepsKnow, SameCycle, BooksAgree, ProofShape, JobShape
  <2>6. FreezeKnows'
    BY <1>2 DEF FreezeKnows, ProofShape, Freezes, JobShape
  <2>7. NothingRuns'
    BY <1>2 DEF NothingRuns, JobShape
  <2>8. ShardsFollow'
    BY <1>2 DEF ShardsFollow, HubShape
  <2>9. PageIsMain'
    BY <1>2 DEF PageIsMain, Covered, JobShape
  <2>10. PageIsWritten'
    BY <1>2 DEF PageIsWritten, Covered, JobShape
  <2> QED  BY <2>1, <2>2, <2>3, <2>4, <2>5, <2>6, <2>7, <2>8, <2>9, <2>10
<1> QED  BY <1>1, <1>2 DEF Snapshot, Step, jobVars, sideVars

LEMMA InitializeKeeps == ASSUME CutoverInv, Initialize PROVE CutoverInv'
<1> USE DEF CutoverInv, Step, jobVars, sideVars, IdleJob, NoSeed, Nothing, IsSeed, SeedStates, Seeding,
      Activating, Quiet, Initialize
<1>1. ProofShape'
  BY DEF ProofShape, Readies, Freezes, Atomics, JobShape, ThisCycle
<1>2. JobShape'
  BY DEF JobShape
<1>3. HubShape'
  BY DEF HubShape
<1>4. BooksAgree'
  BY DEF BooksAgree, ProofShape, JobShape
<1>5. StepsKnow'
  BY DEF StepsKnow, SameCycle, BooksAgree, ProofShape, JobShape
<1>6. FreezeKnows'
  BY DEF FreezeKnows, ProofShape, Freezes, JobShape
<1>7. NothingRuns'
  BY DEF NothingRuns, JobShape
<1>8. ShardsFollow'
  BY DEF ShardsFollow, HubShape
<1>9. PageIsMain'
  BY DEF PageIsMain, Covered, JobShape
<1>10. PageIsWritten'
  BY DEF PageIsWritten, Covered, JobShape
<1> QED  BY <1>1, <1>2, <1>3, <1>4, <1>5, <1>6, <1>7, <1>8, <1>9, <1>10

LEMMA UnreadyKeeps == ASSUME CutoverInv, Unready PROVE CutoverInv'
<1> USE DEF CutoverInv, Step, jobVars, sideVars, IdleJob, NoSeed, Nothing, IsSeed, SeedStates, Seeding,
      Activating, Quiet, Unready
<1>1. ProofShape'
  BY DEF ProofShape, Readies, Freezes, Atomics, StepsKnow, JobShape
<1>2. JobShape'
  BY DEF JobShape
<1>3. HubShape'
  BY DEF HubShape
<1>4. BooksAgree'
  BY DEF BooksAgree, ProofShape, JobShape, StepsKnow
<1>5. StepsKnow'
  BY DEF StepsKnow, SameCycle, BooksAgree, ProofShape, JobShape
<1>6. FreezeKnows'
  BY DEF FreezeKnows, ProofShape, Freezes, JobShape
<1>7. NothingRuns'
  BY DEF NothingRuns, JobShape
<1>8. ShardsFollow'
  BY DEF ShardsFollow, HubShape
<1>9. PageIsMain'
  BY DEF PageIsMain, Covered, JobShape
<1>10. PageIsWritten'
  BY DEF PageIsWritten, Covered, JobShape
<1> QED  BY <1>1, <1>2, <1>3, <1>4, <1>5, <1>6, <1>7, <1>8, <1>9, <1>10

LEMMA SeedCheckpointKeeps == ASSUME CutoverInv, SeedCheckpoint PROVE CutoverInv'
<1> USE DEF CutoverInv, Step, jobVars, sideVars, IdleJob, NoSeed, Nothing, IsSeed, SeedStates, Seeding,
      Activating, Quiet, SeedCheckpoint
<1>1. ProofShape'
  BY DEF ProofShape, Readies, Freezes, Atomics, StepsKnow, JobShape
<1>2. JobShape'
  BY DEF JobShape
<1>3. HubShape'
  BY DEF HubShape
<1>4. BooksAgree'
  BY DEF BooksAgree, ProofShape, JobShape, StepsKnow
<1>5. StepsKnow'
  BY DEF StepsKnow, SameCycle, BooksAgree, ProofShape, JobShape
<1>6. FreezeKnows'
  BY DEF FreezeKnows, ProofShape, Freezes, JobShape
<1>7. NothingRuns'
  BY DEF NothingRuns, JobShape
<1>8. ShardsFollow'
  BY DEF ShardsFollow, HubShape
<1>9. PageIsMain'
  BY DEF PageIsMain, Covered, JobShape
<1>10. PageIsWritten'
  BY DEF PageIsWritten, Covered, JobShape
<1> QED  BY <1>1, <1>2, <1>3, <1>4, <1>5, <1>6, <1>7, <1>8, <1>9, <1>10

LEMMA MaintainKeeps == ASSUME CutoverInv, Maintain PROVE CutoverInv'
<1> USE DEF CutoverInv, Step, jobVars, sideVars, IdleJob, NoSeed, Nothing, IsSeed, SeedStates, Seeding,
      Activating, Quiet, Maintain
<1>1. ProofShape'
  BY DEF ProofShape, Readies, Freezes, Atomics
<1>2. JobShape'
  BY DEF JobShape
<1>3. HubShape'
  BY DEF HubShape, JobShape
<1>4. BooksAgree'
  BY DEF BooksAgree, ProofShape, JobShape
<1>5. StepsKnow'
  BY DEF StepsKnow, SameCycle, BooksAgree, ProofShape, JobShape
<1>6. FreezeKnows'
  BY DEF FreezeKnows, ProofShape, Freezes, JobShape
<1>7. NothingRuns'
  BY DEF NothingRuns, JobShape
<1>8. ShardsFollow'
  BY DEF ShardsFollow, HubShape
<1>9. PageIsMain'
  BY DEF PageIsMain, Covered, JobShape
<1>10. PageIsWritten'
  BY DEF PageIsWritten, Covered, JobShape
<1> QED  BY <1>1, <1>2, <1>3, <1>4, <1>5, <1>6, <1>7, <1>8, <1>9, <1>10

LEMMA ActivateKeeps == ASSUME CutoverInv, Activate PROVE CutoverInv'
<1> USE DEF CutoverInv, Step, jobVars, sideVars, IdleJob, NoSeed, Nothing, IsSeed, SeedStates, Seeding,
      Activating, Quiet, Activate
<1>1. ProofShape'
  BY DEF ProofShape, Readies, Freezes, Atomics
<1>2. JobShape'
  BY DEF JobShape
<1>3. HubShape'
  BY DEF HubShape, JobShape
<1>4. BooksAgree'
  BY DEF BooksAgree, ProofShape, JobShape
<1>5. StepsKnow'
  BY DEF StepsKnow, SameCycle, BooksAgree, ProofShape, JobShape
<1>6. FreezeKnows'
  BY DEF FreezeKnows, ProofShape, Freezes, JobShape
<1>7. NothingRuns'
  BY DEF NothingRuns, JobShape
<1>8. ShardsFollow'
  BY DEF ShardsFollow, HubShape
<1>9. PageIsMain'
  BY DEF PageIsMain, Covered, JobShape
<1>10. PageIsWritten'
  BY DEF PageIsWritten, Covered, JobShape
<1> QED  BY <1>1, <1>2, <1>3, <1>4, <1>5, <1>6, <1>7, <1>8, <1>9, <1>10

LEMMA CertifyKeeps == ASSUME CutoverInv, Certify PROVE CutoverInv'
<1>1. CASE Failed /\ UNCHANGED <<head, worker, consumers, busy, applied, main, outbox, catalog, proof>>
  BY <1>1, FailureKeeps
<1>2. CASE /\ job.pc = "certify" /\ job' = [job EXCEPT !.pc = "stale"]
          /\ proof' = [proof EXCEPT !.ready = [state |-> "ready", seed |-> proof.seed, rev |-> job.rev, cycle |-> 1]]
          /\ UNCHANGED <<head, worker, consumers, busy, applied, main, outbox, catalog>>
  <2> USE DEF CutoverInv, Step, jobVars, sideVars, IdleJob, NoSeed, Nothing, IsSeed, SeedStates,
        Seeding, Activating, Quiet
  <2>1. ProofShape'
    BY <1>2 DEF ProofShape, Readies, Freezes, Atomics, JobShape, StepsKnow, BooksAgree
  <2>2. JobShape'
    BY <1>2 DEF JobShape
  <2>3. HubShape'
    BY <1>2 DEF HubShape
  <2>4. BooksAgree'
    BY <1>2 DEF BooksAgree, ProofShape, JobShape, StepsKnow
  <2>5. StepsKnow'
    BY <1>2 DEF StepsKnow, SameCycle, BooksAgree, ProofShape, JobShape
  <2>6. FreezeKnows'
    BY <1>2 DEF FreezeKnows, ProofShape, Freezes, JobShape
  <2>7. NothingRuns'
    BY <1>2 DEF NothingRuns, JobShape
  <2>8. ShardsFollow'
    BY <1>2 DEF ShardsFollow, HubShape
  <2>9. PageIsMain'
    BY <1>2 DEF PageIsMain, Covered, JobShape
  <2>10. PageIsWritten'
    BY <1>2 DEF PageIsWritten, Covered, JobShape
  <2> QED  BY <2>1, <2>2, <2>3, <2>4, <2>5, <2>6, <2>7, <2>8, <2>9, <2>10
<1> QED  BY <1>1, <1>2 DEF Certify, Step, jobVars, sideVars

LEMMA VerifyActiveKeeps == ASSUME CutoverInv, VerifyActive PROVE CutoverInv'
<1>1. CASE Failed /\ UNCHANGED <<head, worker, consumers, busy, applied, main, outbox, catalog, proof>>
  BY <1>1, FailureKeeps
<1>2. CASE /\ job.pc = "verify" /\ proof.ready # Nothing /\ job' = IdleJob
          /\ proof' = [proof EXCEPT !.active = IF proof.active = Nothing THEN [state |-> "active", ready |-> proof.ready] ELSE @]
          /\ UNCHANGED <<head, worker, consumers, busy, applied, main, outbox, catalog>>
  <2> USE DEF CutoverInv, Step, jobVars, sideVars, IdleJob, NoSeed, Nothing, IsSeed, SeedStates,
        Seeding, Activating, Quiet
  <2>1. ProofShape'
    BY <1>2 DEF ProofShape, Readies, Freezes, Atomics
  <2>2. JobShape'
    BY <1>2 DEF JobShape
  <2>3. HubShape'
    BY <1>2 DEF HubShape
  <2>4. BooksAgree'
    BY <1>2 DEF BooksAgree, ProofShape, JobShape, StepsKnow
  <2>5. StepsKnow'
    BY <1>2 DEF StepsKnow, SameCycle, BooksAgree, ProofShape, JobShape
  <2>6. FreezeKnows'
    BY <1>2 DEF FreezeKnows, ProofShape, Freezes, JobShape
  <2>7. NothingRuns'
    BY <1>2 DEF NothingRuns, JobShape
  <2>8. ShardsFollow'
    BY <1>2 DEF ShardsFollow, HubShape
  <2>9. PageIsMain'
    BY <1>2 DEF PageIsMain, Covered, JobShape
  <2>10. PageIsWritten'
    BY <1>2 DEF PageIsWritten, Covered, JobShape
  <2> QED  BY <2>1, <2>2, <2>3, <2>4, <2>5, <2>6, <2>7, <2>8, <2>9, <2>10
<1> QED  BY <1>1, <1>2 DEF VerifyActive, Step, jobVars, sideVars

LEMMA MigrateKeeps == ASSUME CutoverInv, Migrate PROVE CutoverInv'
<1>1. CASE Failed /\ UNCHANGED <<head, worker, consumers, busy, applied, main, outbox, catalog, proof>>
  BY <1>1, FailureKeeps
<1>2. CASE /\ job.pc = "migrate" /\ applied = 2 /\ job' = [job EXCEPT !.pc = IF job.layout = "active" THEN "stale" ELSE "seed"]
          /\ UNCHANGED <<head, worker, consumers, busy, applied, main, outbox, catalog, proof>>
  <2> USE DEF CutoverInv, Step, jobVars, sideVars, IdleJob, NoSeed, Nothing, IsSeed, SeedStates,
        Seeding, Activating, Quiet
  <2>1. ProofShape'
    BY <1>2 DEF ProofShape, Readies, Freezes, Atomics
  <2>2. JobShape'
    BY <1>2 DEF JobShape
  <2>3. HubShape'
    BY <1>2 DEF HubShape
  <2>4. BooksAgree'
    BY <1>2 DEF BooksAgree, ProofShape, JobShape
  <2>5. StepsKnow'
    BY <1>2 DEF StepsKnow, SameCycle, BooksAgree, ProofShape, JobShape
  <2>6. FreezeKnows'
    BY <1>2 DEF FreezeKnows, ProofShape, Freezes, JobShape
  <2>7. NothingRuns'
    BY <1>2 DEF NothingRuns, JobShape
  <2>8. ShardsFollow'
    BY <1>2 DEF ShardsFollow, HubShape
  <2>9. PageIsMain'
    BY <1>2 DEF PageIsMain, Covered, JobShape
  <2>10. PageIsWritten'
    BY <1>2 DEF PageIsWritten, Covered, JobShape
  <2> QED  BY <2>1, <2>2, <2>3, <2>4, <2>5, <2>6, <2>7, <2>8, <2>9, <2>10
<1>3. CASE /\ job.pc = "migrate" /\ applied = 1 /\ applied' = 2 /\ main' = [s \in Sessions |-> 1] /\ outbox' = Sessions \X {1} /\ UNCHANGED job
          /\ UNCHANGED <<head, worker, consumers, busy, catalog, proof>>
  <2> USE DEF CutoverInv, Step, jobVars, sideVars, IdleJob, NoSeed, Nothing, IsSeed, SeedStates,
        Seeding, Activating, Quiet
  <2>1. ProofShape'
    BY <1>3 DEF ProofShape, Readies, Freezes, Atomics
  <2>2. JobShape'
    BY <1>3 DEF JobShape
  <2>3. HubShape'
    BY <1>3 DEF HubShape
  <2>4. BooksAgree'
    BY <1>3 DEF BooksAgree, ProofShape, JobShape
  <2>5. StepsKnow'
    BY <1>3 DEF StepsKnow, SameCycle, BooksAgree, ProofShape, JobShape
  <2>6. FreezeKnows'
    BY <1>3 DEF FreezeKnows, ProofShape, Freezes, JobShape
  <2>7. NothingRuns'
    BY <1>3 DEF NothingRuns, JobShape
  <2>8. ShardsFollow'
    BY <1>3 DEF ShardsFollow, HubShape
  <2>9. PageIsMain'
    BY <1>3 DEF PageIsMain, Covered, JobShape
  <2>10. PageIsWritten'
    BY <1>3 DEF PageIsWritten, Covered, JobShape
  <2> QED  BY <2>1, <2>2, <2>3, <2>4, <2>5, <2>6, <2>7, <2>8, <2>9, <2>10
<1>4. CASE /\ job.pc = "migrate" /\ applied = 0 /\ applied' = 1 /\ proof.copy = "complete" /\ UNCHANGED job
          /\ UNCHANGED <<head, worker, consumers, busy, main, outbox, catalog, proof>>
  <2> USE DEF CutoverInv, Step, jobVars, sideVars, IdleJob, NoSeed, Nothing, IsSeed, SeedStates,
        Seeding, Activating, Quiet
  <2>1. ProofShape'
    BY <1>4 DEF ProofShape, Readies, Freezes, Atomics
  <2>2. JobShape'
    BY <1>4 DEF JobShape
  <2>3. HubShape'
    BY <1>4 DEF HubShape
  <2>4. BooksAgree'
    BY <1>4 DEF BooksAgree, ProofShape, JobShape
  <2>5. StepsKnow'
    BY <1>4 DEF StepsKnow, SameCycle, BooksAgree, ProofShape, JobShape
  <2>6. FreezeKnows'
    BY <1>4 DEF FreezeKnows, ProofShape, Freezes, JobShape
  <2>7. NothingRuns'
    BY <1>4 DEF NothingRuns, JobShape
  <2>8. ShardsFollow'
    BY <1>4 DEF ShardsFollow, HubShape
  <2>9. PageIsMain'
    BY <1>4 DEF PageIsMain, Covered, JobShape
  <2>10. PageIsWritten'
    BY <1>4 DEF PageIsWritten, Covered, JobShape
  <2> QED  BY <2>1, <2>2, <2>3, <2>4, <2>5, <2>6, <2>7, <2>8, <2>9, <2>10
<1> QED  BY <1>1, <1>2, <1>3, <1>4 DEF Migrate, Step, jobVars, sideVars, CutoverInv, HubShape

LEMMA DrainKeeps == ASSUME CutoverInv, Drain PROVE CutoverInv'
<1>1. CASE Failed /\ UNCHANGED <<head, worker, consumers, busy, applied, main, outbox, catalog, proof>>
  BY <1>1, FailureKeeps
<1>2. CASE /\ job.pc = "drain" /\ UNCHANGED job
          /\ proof' = [proof EXCEPT !.freeze = [state |-> "frozen", rev |-> job.rev, cycle |-> 1, waits |-> busy]]
          /\ UNCHANGED <<head, worker, consumers, busy, applied, main, outbox, catalog>>
  <2> USE DEF CutoverInv, Step, jobVars, sideVars, IdleJob, NoSeed, Nothing, IsSeed, SeedStates,
        Seeding, Activating, Quiet
  <2>1. ProofShape'
    <3> DEFINE freeze == [state |-> "frozen", rev |-> job.rev, cycle |-> 1, waits |-> busy]
    <3>1. freeze \in Freezes
      BY DEF CutoverInv, JobShape, HubShape, Freezes
    <3>2. proof' = [proof EXCEPT !.freeze = freeze]
      BY <1>2
    <3> HIDE DEF freeze
    <3> QED  BY <3>1, <3>2 DEF CutoverInv, ProofShape, Readies, Atomics, IsSeed
  <2>2. JobShape'
    BY <1>2 DEF JobShape
  <2>3. HubShape'
    BY <1>2 DEF HubShape
  <2>4. BooksAgree'
    BY <1>2 DEF BooksAgree, ProofShape, JobShape
  <2>5. StepsKnow'
    BY <1>2 DEF StepsKnow, SameCycle, BooksAgree, ProofShape, JobShape
  <2>6. FreezeKnows'
    BY <1>2 DEF FreezeKnows, ProofShape, Freezes, JobShape
  <2>7. NothingRuns'
    BY <1>2 DEF NothingRuns, JobShape
  <2>8. ShardsFollow'
    BY <1>2 DEF ShardsFollow, HubShape
  <2>9. PageIsMain'
    BY <1>2 DEF PageIsMain, Covered, JobShape
  <2>10. PageIsWritten'
    BY <1>2 DEF PageIsWritten, Covered, JobShape
  <2> QED  BY <2>1, <2>2, <2>3, <2>4, <2>5, <2>6, <2>7, <2>8, <2>9, <2>10
<1>3. CASE /\ job.pc = "drain" /\ SameCycle(proof.freeze) /\ ~proof.freeze.waits /\ job' = [job EXCEPT !.pc = "copy"]
          /\ UNCHANGED <<head, worker, consumers, busy, applied, main, outbox, catalog, proof>>
  <2> USE DEF CutoverInv, Step, jobVars, sideVars, IdleJob, NoSeed, Nothing, IsSeed, SeedStates,
        Seeding, Activating, Quiet, SameCycle
  <2>1. ProofShape'
    BY <1>3 DEF ProofShape, Readies, Freezes, Atomics
  <2>2. JobShape'
    BY <1>3 DEF JobShape
  <2>3. HubShape'
    BY <1>3 DEF HubShape
  <2>4. BooksAgree'
    BY <1>3 DEF BooksAgree, ProofShape, JobShape
  <2>5. StepsKnow'
    BY <1>3 DEF StepsKnow, SameCycle, BooksAgree, ProofShape, JobShape
  <2>6. FreezeKnows'
    BY <1>3 DEF FreezeKnows, ProofShape, Freezes, JobShape
  <2>7. NothingRuns'
    <3>1. job.pc = "drain" /\ proof.freeze # Nothing /\ proof.freeze.cycle = 1 /\ ~proof.freeze.waits
      BY <1>3, Zenon DEF SameCycle
    <3>2. ~busy
      BY <3>1, Zenon DEF CutoverInv, FreezeKnows
    <3> QED  BY <1>3, <3>2 DEF CutoverInv, NothingRuns, JobShape, Seeding, Quiet
  <2>8. ShardsFollow'
    BY <1>3 DEF ShardsFollow, HubShape
  <2>9. PageIsMain'
    BY <1>3 DEF PageIsMain, Covered, JobShape
  <2>10. PageIsWritten'
    BY <1>3 DEF PageIsWritten, Covered, JobShape
  <2> QED  BY <2>1, <2>2, <2>3, <2>4, <2>5, <2>6, <2>7, <2>8, <2>9, <2>10
<1> QED  BY <1>1, <1>2, <1>3 DEF Drain, Step, jobVars, sideVars

LEMMA CopyKeeps == ASSUME CutoverInv, Copy PROVE CutoverInv'
<1>1. CASE Failed /\ UNCHANGED <<head, worker, consumers, busy, applied, main, outbox, catalog, proof>>
  BY <1>1, FailureKeeps
<1>2. CASE /\ job.pc = "copy" /\ proof' = [proof EXCEPT !.copy = "complete"] /\ job' = [job EXCEPT !.pc = "migrate"]
          /\ UNCHANGED <<head, worker, consumers, busy, applied, main, outbox, catalog>>
  <2> USE DEF CutoverInv, Step, jobVars, sideVars, IdleJob, NoSeed, Nothing, IsSeed, SeedStates,
        Seeding, Activating, Quiet
  <2>1. ProofShape'
    BY <1>2 DEF ProofShape, Readies, Freezes, Atomics
  <2>2. JobShape'
    BY <1>2 DEF JobShape
  <2>3. HubShape'
    BY <1>2 DEF HubShape
  <2>4. BooksAgree'
    BY <1>2 DEF BooksAgree, ProofShape, JobShape
  <2>5. StepsKnow'
    BY <1>2 DEF StepsKnow, SameCycle, BooksAgree, ProofShape, JobShape
  <2>6. FreezeKnows'
    BY <1>2 DEF FreezeKnows, ProofShape, Freezes, JobShape
  <2>7. NothingRuns'
    BY <1>2 DEF NothingRuns, JobShape
  <2>8. ShardsFollow'
    BY <1>2 DEF ShardsFollow, HubShape
  <2>9. PageIsMain'
    BY <1>2 DEF PageIsMain, Covered, JobShape
  <2>10. PageIsWritten'
    BY <1>2 DEF PageIsWritten, Covered, JobShape
  <2> QED  BY <2>1, <2>2, <2>3, <2>4, <2>5, <2>6, <2>7, <2>8, <2>9, <2>10
<1>3. CASE /\ job.pc = "copy" /\ proof.copy # "complete" /\ proof' = [proof EXCEPT !.copy = "pending"] /\ Failed
          /\ UNCHANGED <<head, worker, consumers, busy, applied, main, outbox, catalog>>
  <2> USE DEF CutoverInv, Step, jobVars, sideVars, IdleJob, NoSeed, Nothing, IsSeed, SeedStates,
        Seeding, Activating, Quiet, Failed
  <2>1. ProofShape'
    BY <1>3 DEF ProofShape, Readies, Freezes, Atomics
  <2>2. JobShape'
    BY <1>3 DEF JobShape
  <2>3. HubShape'
    BY <1>3 DEF HubShape
  <2>4. BooksAgree'
    BY <1>3 DEF BooksAgree, ProofShape, JobShape
  <2>5. StepsKnow'
    BY <1>3 DEF StepsKnow, SameCycle, BooksAgree, ProofShape, JobShape
  <2>6. FreezeKnows'
    BY <1>3 DEF FreezeKnows, ProofShape, Freezes, JobShape
  <2>7. NothingRuns'
    BY <1>3 DEF NothingRuns, JobShape
  <2>8. ShardsFollow'
    BY <1>3 DEF ShardsFollow, HubShape
  <2>9. PageIsMain'
    BY <1>3 DEF PageIsMain, Covered, JobShape
  <2>10. PageIsWritten'
    BY <1>3 DEF PageIsWritten, Covered, JobShape
  <2> QED  BY <2>1, <2>2, <2>3, <2>4, <2>5, <2>6, <2>7, <2>8, <2>9, <2>10
<1> QED  BY <1>1, <1>2, <1>3 DEF Copy, Step, jobVars, sideVars

LEMMA SeedKeeps == ASSUME CutoverInv, Seed PROVE CutoverInv'
<1>1. CASE Failed /\ UNCHANGED <<head, worker, consumers, busy, applied, main, outbox, catalog, proof>>
  BY <1>1, FailureKeeps
<1>2. CASE /\ job.pc = "seed" /\ proof.active = Nothing
          /\ job' = [job EXCEPT !.pc = SeedOpen(proof.ready), !.seed = Resumed(proof.seed)]
          /\ UNCHANGED <<head, worker, consumers, busy, applied, main, outbox, catalog, proof>>
  <2> USE DEF CutoverInv, Step, jobVars, sideVars, IdleJob, NoSeed, Nothing, IsSeed, SeedStates,
        Seeding, Activating, Quiet, SeedOpen, Resumed
  <2>1. ProofShape'
    BY <1>2 DEF ProofShape, Readies, Freezes, Atomics
  <2>2. JobShape'
    <3>1. IsSeed(Resumed(proof.seed))
      BY DEF CutoverInv, ProofShape, IsSeed, SeedStates, NoSeed, Resumed
    <3> QED  BY <1>2, <3>1 DEF CutoverInv, JobShape, IsSeed, SeedOpen
  <2>3. HubShape'
    BY <1>2 DEF HubShape
  <2>4. BooksAgree'
    BY <1>2 DEF BooksAgree, ProofShape, JobShape
  <2>5. StepsKnow'
    BY <1>2 DEF StepsKnow, SameCycle, BooksAgree, ProofShape, JobShape
  <2>6. FreezeKnows'
    BY <1>2 DEF FreezeKnows, ProofShape, Freezes, JobShape
  <2>7. NothingRuns'
    BY <1>2 DEF NothingRuns, JobShape
  <2>8. ShardsFollow'
    BY <1>2 DEF ShardsFollow, HubShape
  <2>9. PageIsMain'
    BY <1>2 DEF PageIsMain, Covered, JobShape
  <2>10. PageIsWritten'
    BY <1>2 DEF PageIsWritten, Covered, JobShape
  <2> QED  BY <2>1, <2>2, <2>3, <2>4, <2>5, <2>6, <2>7, <2>8, <2>9, <2>10
<1> QED  BY <1>1, <1>2 DEF Seed, Step, jobVars, sideVars

LEMMA ScanKeeps == ASSUME CutoverInv, Scan PROVE CutoverInv'
<1>1. CASE Failed /\ UNCHANGED <<head, worker, consumers, busy, applied, main, outbox, catalog, proof>>
  BY <1>1, FailureKeeps
<1>2. CASE /\ job.pc = "scan" /\ job' = [job EXCEPT !.pc = "last"]
          /\ UNCHANGED <<head, worker, consumers, busy, applied, main, outbox, catalog, proof>>
  <2> USE DEF CutoverInv, Step, jobVars, sideVars, IdleJob, NoSeed, Nothing, IsSeed, SeedStates,
        Seeding, Activating, Quiet
  <2>1. ProofShape'
    BY <1>2 DEF ProofShape, Readies, Freezes, Atomics
  <2>2. JobShape'
    BY <1>2 DEF JobShape
  <2>3. HubShape'
    BY <1>2 DEF HubShape
  <2>4. BooksAgree'
    BY <1>2 DEF BooksAgree, ProofShape, JobShape
  <2>5. StepsKnow'
    BY <1>2 DEF StepsKnow, SameCycle, BooksAgree, ProofShape, JobShape
  <2>6. FreezeKnows'
    BY <1>2 DEF FreezeKnows, ProofShape, Freezes, JobShape
  <2>7. NothingRuns'
    BY <1>2 DEF NothingRuns, JobShape
  <2>8. ShardsFollow'
    BY <1>2 DEF ShardsFollow, HubShape
  <2>9. PageIsMain'
    BY <1>2 DEF PageIsMain, Covered, JobShape
  <2>10. PageIsWritten'
    BY <1>2 DEF PageIsWritten, Covered, JobShape
  <2> QED  BY <2>1, <2>2, <2>3, <2>4, <2>5, <2>6, <2>7, <2>8, <2>9, <2>10
<1>3. CASE /\ \E ids, scan : /\ job.pc = "scan" /\ ids \subseteq Sessions
            /\ job' = [job EXCEPT !.pc = "snapshot", !.page = [s \in ids |-> main[s]], !.scan = scan]
          /\ UNCHANGED <<head, worker, consumers, busy, applied, main, outbox, catalog, proof>>
  <2> USE DEF CutoverInv, Step, jobVars, sideVars, IdleJob, NoSeed, Nothing, IsSeed, SeedStates,
        Seeding, Activating, Quiet
  <2>1. ProofShape'
    BY <1>3 DEF ProofShape, Readies, Freezes, Atomics
  <2>2. JobShape'
    BY <1>3 DEF JobShape
  <2>3. HubShape'
    BY <1>3 DEF HubShape
  <2>4. BooksAgree'
    BY <1>3 DEF BooksAgree, ProofShape, JobShape
  <2>5. StepsKnow'
    BY <1>3 DEF StepsKnow, SameCycle, BooksAgree, ProofShape, JobShape
  <2>6. FreezeKnows'
    BY <1>3 DEF FreezeKnows, ProofShape, Freezes, JobShape
  <2>7. NothingRuns'
    BY <1>3 DEF NothingRuns, JobShape
  <2>8. ShardsFollow'
    BY <1>3 DEF ShardsFollow, HubShape
  <2>9. PageIsMain'
    <3>1. PICK ids, scan : /\ ids \subseteq Sessions
                           /\ job' = [job EXCEPT !.pc = "snapshot", !.page = [s \in ids |-> main[s]], !.scan = scan]
      BY <1>3
    <3>2. job'.page = [s \in ids |-> main[s]]
      BY <3>1 DEF CutoverInv, JobShape
    <3>3. Covered(job'.page) = ids /\ \A s \in ids : job'.page[s] = main[s]
      BY <3>2 DEF Covered
    <3> QED  BY <1>3, <3>1, <3>3 DEF CutoverInv, HubShape, PageIsMain, Covered
  <2>10. PageIsWritten'
    BY <1>3 DEF PageIsWritten, Covered, JobShape
  <2> QED  BY <2>1, <2>2, <2>3, <2>4, <2>5, <2>6, <2>7, <2>8, <2>9, <2>10
<1> QED
  <2> DEFINE ahead == {s \in Sessions : s > job.seed.after}
             ids == IF ahead # {} THEN PageOf(ahead) ELSE PageOf(Owed(job.seed.after))
  <2>1. ids \subseteq Sessions
    BY DEF CutoverInv, HubShape, PageOf, Owed
  <2>2. job.pc = "scan" /\ UNCHANGED <<head, worker, consumers, busy, applied, main, outbox, catalog, proof>>
    BY DEF Scan, jobVars, sideVars
  <2>3. \/ Failed
        \/ job' = [job EXCEPT !.pc = "last"]
        \/ job' = [job EXCEPT !.pc = "snapshot", !.page = [s \in ids |-> main[s]], !.scan = ahead # {}]
    BY DEF Scan, Step
  <2> HIDE DEF ids
  <2> QED  BY <1>1, <1>2, <1>3, <2>1, <2>2, <2>3

LEMMA CutoverStarts == CutoverInit => CutoverInv
<1> SUFFICES ASSUME CutoverInit PROVE CutoverInv
  OBVIOUS
<1> USE DEF CutoverInit, Step, jobVars, sideVars, IdleJob, NoSeed, Nothing, IsSeed, SeedStates, Seeding,
      Activating, Quiet
<1>1. ProofShape
  BY DEF ProofShape, Readies, Freezes, Atomics
<1>2. JobShape
  BY DEF JobShape
<1>3. HubShape
  BY DEF HubShape
<1>4. BooksAgree
  BY DEF BooksAgree, ProofShape, JobShape
<1>5. StepsKnow
  BY DEF StepsKnow, SameCycle, BooksAgree, ProofShape, JobShape
<1>6. FreezeKnows
  BY DEF FreezeKnows, ProofShape, Freezes, JobShape
<1>7. NothingRuns
  BY DEF NothingRuns, JobShape
<1>8. ShardsFollow
  BY DEF ShardsFollow, HubShape
<1>9. PageIsMain
  BY DEF PageIsMain, Covered, JobShape
<1>10. PageIsWritten
  BY DEF PageIsWritten, Covered, JobShape
<1> QED  BY <1>1, <1>2, <1>3, <1>4, <1>5, <1>6, <1>7, <1>8, <1>9, <1>10 DEF CutoverInv

LEMMA JobKeeps == ASSUME CutoverInv, JobStep PROVE CutoverInv'
BY StartJobKeeps,
   InitializeKeeps,
   ClassifyKeeps,
   PauseKeeps,
   MaintainKeeps,
   DrainKeeps,
   CopyKeeps,
   MigrateKeeps,
   SeedKeeps,
   UnreadyKeeps,
   SeedCheckpointKeeps,
   ScanKeeps,
   SnapshotKeeps,
   SeedShardKeeps,
   SeedRetireKeeps,
   SeedLastKeeps,
   ReadyKeeps,
   CertifyKeeps,
   StaleKeeps,
   ActivateKeeps,
   ReconcileKeeps,
   VerifyActiveKeeps
DEF JobStep

LEMMA StillKeeps == ASSUME CutoverInv, UNCHANGED cutoverVars PROVE CutoverInv'
<1> USE DEF cutoverVars, CutoverInv, Step, jobVars, sideVars, IdleJob, NoSeed, Nothing, IsSeed,
      SeedStates, Seeding, Activating, Quiet
<1>1. ProofShape'
  BY DEF ProofShape, Readies, Freezes, Atomics
<1>2. JobShape'
  BY DEF JobShape
<1>3. HubShape'
  BY DEF HubShape
<1>4. BooksAgree'
  BY DEF BooksAgree, ProofShape, JobShape
<1>5. StepsKnow'
  BY DEF StepsKnow, SameCycle, BooksAgree, ProofShape, JobShape
<1>6. FreezeKnows'
  BY DEF FreezeKnows, ProofShape, Freezes, JobShape
<1>7. NothingRuns'
  BY DEF NothingRuns, JobShape
<1>8. ShardsFollow'
  BY DEF ShardsFollow, HubShape
<1>9. PageIsMain'
  BY DEF PageIsMain, Covered, JobShape
<1>10. PageIsWritten'
  BY DEF PageIsWritten, Covered, JobShape
<1> QED  BY <1>1, <1>2, <1>3, <1>4, <1>5, <1>6, <1>7, <1>8, <1>9, <1>10 DEF CutoverInv

THEOREM CutoverInvariant == CutoverSpec => []CutoverInv
<1>1. CutoverInv /\ [CutoverNext]_cutoverVars => CutoverInv'
  BY PushKeeps, BeginKeeps, FinishKeeps, ChangeKeeps, PropagateKeeps, JobKeeps, FailsKeeps, DiesKeeps,
     StillKeeps
  DEF CutoverNext
<1> QED  BY CutoverStarts, <1>1, PTL DEF CutoverSpec

(* Whatever died, the checkpoints say where to go on: no proof is left that *)
(* does not hold, and the legacy tables are gone only after a complete copy *)
(* (assertReadyProof, assertActivationProof, classifyIndexMigration).       *)
THEOREM CheckpointsHold == CutoverSpec => []Classifiable
<1>1. CutoverInv => Classifiable
  BY DEF CutoverInv, ProofShape, Readies, BooksAgree, Classifiable, Classifies, Proven, Binds, Nothing
<1> QED  BY <1>1, CutoverInvariant, PTL

(* Over a complete seed every shard has the newest version of every session *)
(* or the outbox owes it one (seedFrozenCatalog, reconcileIndexCatalog).    *)
THEOREM CatalogStaysWhole == CutoverSpec => []CatalogIsWhole
<1>1. CutoverInv => CatalogIsWhole
  <2> SUFFICES ASSUME CutoverInv, NEW s \in Sessions, NEW k \in Shards, catalog[k][s] # main[s]
               PROVE  \E o \in outbox : o[1] = s /\ o[2] > catalog[k][s]
    BY DEF CatalogIsWhole
  <2>1. <<s, main[s]>> \in outbox /\ catalog[k][s] <= main[s] /\ catalog[k][s] \in Nat /\ main[s] \in Nat
    BY DEF CutoverInv, HubShape, ShardsFollow
  <2> QED  BY <2>1
<1> QED  BY <1>1, CutoverInvariant, PTL

(* The steps that write the books of the copy and of the seed, and those of *)
(* the migrations.                                                          *)
LEMMA OnlyTheseMove ==
  ASSUME CutoverInv, [CutoverNext]_cutoverVars
  PROVE  \/ proof.copy' = proof.copy /\ proof.seed' = proof.seed /\ applied' = applied
         \/ Copy \/ Migrate \/ SeedCheckpoint
<1> USE DEF CutoverInv, ProofShape, jobVars, sideVars
<1>1. ASSUME Push PROVE proof.copy' = proof.copy /\ proof.seed' = proof.seed /\ applied' = applied
  BY <1>1 DEF Push
<1>2. ASSUME Begin PROVE proof.copy' = proof.copy /\ proof.seed' = proof.seed /\ applied' = applied
  BY <1>2 DEF Begin
<1>3. ASSUME Finish PROVE proof.copy' = proof.copy /\ proof.seed' = proof.seed /\ applied' = applied
  BY <1>3 DEF Finish
<1>4. ASSUME NEW s \in Sessions, Change(s)
      PROVE  proof.copy' = proof.copy /\ proof.seed' = proof.seed /\ applied' = applied
  BY <1>4 DEF Change
<1>5. ASSUME NEW s \in Sessions, NEW k \in Shards, Propagate(s, k)
      PROVE  proof.copy' = proof.copy /\ proof.seed' = proof.seed /\ applied' = applied
  BY <1>5 DEF Propagate
<1>6. ASSUME Fails PROVE proof.copy' = proof.copy /\ proof.seed' = proof.seed /\ applied' = applied
  BY <1>6 DEF Fails
<1>7. ASSUME Dies PROVE proof.copy' = proof.copy /\ proof.seed' = proof.seed /\ applied' = applied
  BY <1>7 DEF Dies
<1>8. ASSUME StartJob PROVE proof.copy' = proof.copy /\ proof.seed' = proof.seed /\ applied' = applied
  BY <1>8 DEF StartJob
<1>9. ASSUME Initialize PROVE proof.copy' = proof.copy /\ proof.seed' = proof.seed /\ applied' = applied
  BY <1>9 DEF Initialize
<1>10. ASSUME Classify PROVE proof.copy' = proof.copy /\ proof.seed' = proof.seed /\ applied' = applied
  BY <1>10 DEF Classify
<1>11. ASSUME Pause PROVE proof.copy' = proof.copy /\ proof.seed' = proof.seed /\ applied' = applied
  BY <1>11 DEF Pause
<1>12. ASSUME Maintain PROVE proof.copy' = proof.copy /\ proof.seed' = proof.seed /\ applied' = applied
  BY <1>12 DEF Maintain
<1>13. ASSUME Drain PROVE proof.copy' = proof.copy /\ proof.seed' = proof.seed /\ applied' = applied
  BY <1>13 DEF Drain
<1>14. ASSUME Seed PROVE proof.copy' = proof.copy /\ proof.seed' = proof.seed /\ applied' = applied
  BY <1>14 DEF Seed
<1>15. ASSUME Unready PROVE proof.copy' = proof.copy /\ proof.seed' = proof.seed /\ applied' = applied
  BY <1>15 DEF Unready
<1>16. ASSUME Scan PROVE proof.copy' = proof.copy /\ proof.seed' = proof.seed /\ applied' = applied
  BY <1>16 DEF Scan
<1>17. ASSUME Snapshot PROVE proof.copy' = proof.copy /\ proof.seed' = proof.seed /\ applied' = applied
  BY <1>17 DEF Snapshot
<1>18. ASSUME NEW k \in Shards, SeedShard(k)
      PROVE  proof.copy' = proof.copy /\ proof.seed' = proof.seed /\ applied' = applied
  BY <1>18 DEF SeedShard
<1>19. ASSUME SeedRetire
      PROVE  proof.copy' = proof.copy /\ proof.seed' = proof.seed /\ applied' = applied
  BY <1>19 DEF SeedRetire
<1>20. ASSUME SeedLast PROVE proof.copy' = proof.copy /\ proof.seed' = proof.seed /\ applied' = applied
  BY <1>20 DEF SeedLast
<1>21. ASSUME Ready PROVE proof.copy' = proof.copy /\ proof.seed' = proof.seed /\ applied' = applied
  BY <1>21 DEF Ready
<1>22. ASSUME Certify PROVE proof.copy' = proof.copy /\ proof.seed' = proof.seed /\ applied' = applied
  BY <1>22 DEF Certify
<1>23. ASSUME Stale PROVE proof.copy' = proof.copy /\ proof.seed' = proof.seed /\ applied' = applied
  BY <1>23 DEF Stale
<1>24. ASSUME Activate PROVE proof.copy' = proof.copy /\ proof.seed' = proof.seed /\ applied' = applied
  BY <1>24 DEF Activate
<1>25. ASSUME Reconcile PROVE proof.copy' = proof.copy /\ proof.seed' = proof.seed /\ applied' = applied
  BY <1>25 DEF Reconcile
<1>26. ASSUME VerifyActive
      PROVE  proof.copy' = proof.copy /\ proof.seed' = proof.seed /\ applied' = applied
  BY <1>26 DEF VerifyActive
<1>27. ASSUME UNCHANGED cutoverVars
      PROVE  proof.copy' = proof.copy /\ proof.seed' = proof.seed /\ applied' = applied
  BY <1>27 DEF cutoverVars
<1> QED  BY <1>1, <1>2, <1>3, <1>4, <1>5, <1>6, <1>7, <1>8, <1>9, <1>10, <1>11, <1>12, <1>13, <1>14,
      <1>15, <1>16, <1>17, <1>18, <1>19, <1>20, <1>21, <1>22, <1>23, <1>24, <1>25, <1>26, <1>27 DEF
      CutoverNext, JobStep

(* The blocks, the schema and the seed move only while no consumer, no      *)
(* worker of before and no work of its own is there (index-control.mjs,     *)
(* assertDrained).                                                          *)
THEOREM MovesStayAlone == CutoverSpec => MovesAreAlone
<1> DEFINE Alone == worker.mode = "maintenance" /\ consumers = {} /\ ~busy
<1>1. ASSUME CutoverInv, Quiet PROVE Alone
  BY <1>1 DEF CutoverInv, NothingRuns
<1>2. ASSUME CutoverInv, [CutoverNext]_cutoverVars,
             proof.copy' # proof.copy \/ applied' # applied \/ proof.seed' # proof.seed
      PROVE  Alone
  <2>1. CASE Copy
    BY <1>1, <1>2, <2>1 DEF Copy, Quiet
  <2>2. CASE Migrate
    <3>1. proof' = proof /\ job.pc = "migrate"
      BY <2>2 DEF Migrate
    <3>2. applied # 2
      BY <1>2, <2>2, <3>1 DEF Migrate
    <3>3. job.layout # "active"
      BY <1>2, <3>2 DEF CutoverInv, BooksAgree
    <3> QED  BY <1>1, <1>2, <3>1, <3>3 DEF Quiet
  <2>3. CASE SeedCheckpoint
    BY <1>1, <1>2, <2>3 DEF SeedCheckpoint, Quiet, Seeding
  <2> QED  BY <1>2, <2>1, <2>2, <2>3, OnlyTheseMove
<1> QED  BY <1>2, CutoverInvariant, PTL DEF CutoverSpec, MovesAreAlone

(* The hub is made active only over both migrations, a complete copy and    *)
(* seed, and a proof of this attempt, or one an activation rests on         *)
(* (verifyReadyIndex, activate).                                            *)
THEOREM ActivationsAreProven == CutoverSpec => ActiveIsReady
<1> DEFINE Granted ==
      /\ applied = 2 /\ proof.copy = "complete" /\ Proven
      /\ proof.active = Nothing => proof.ready # Nothing /\ SameCycle(proof.ready)
<1>1. ASSUME CutoverInv, Activate PROVE Granted
  <2>1. Proven
    BY <1>1 DEF CutoverInv, ProofShape, Readies, BooksAgree, Proven, Binds, Nothing
  <2>2. applied = 2 /\ (proof.active # Nothing \/ (proof.ready # Nothing /\ SameCycle(proof.ready)))
    BY <1>1 DEF CutoverInv, StepsKnow, Activate, Activating
  <2>3. proof.copy = "complete"
    BY <1>1, <2>2 DEF CutoverInv, BooksAgree
  <2> QED  BY <2>1, <2>2, <2>3
<1> USE DEF jobVars, sideVars
<1>2. ASSUME Push PROVE worker' = worker \/ worker'.mode = "maintenance"
  BY <1>2 DEF Push
<1>3. ASSUME Begin PROVE worker' = worker \/ worker'.mode = "maintenance"
  BY <1>3 DEF Begin
<1>4. ASSUME Finish PROVE worker' = worker \/ worker'.mode = "maintenance"
  BY <1>4 DEF Finish
<1>5. ASSUME NEW s \in Sessions, Change(s) PROVE worker' = worker \/ worker'.mode = "maintenance"
  BY <1>5 DEF Change
<1>6. ASSUME NEW s \in Sessions, NEW k \in Shards, Propagate(s, k)
      PROVE  worker' = worker \/ worker'.mode = "maintenance"
  BY <1>6 DEF Propagate
<1>7. ASSUME Fails PROVE worker' = worker \/ worker'.mode = "maintenance"
  BY <1>7 DEF Fails
<1>8. ASSUME Dies PROVE worker' = worker \/ worker'.mode = "maintenance"
  BY <1>8 DEF Dies
<1>9. ASSUME StartJob PROVE worker' = worker \/ worker'.mode = "maintenance"
  BY <1>9 DEF StartJob
<1>10. ASSUME Initialize PROVE worker' = worker \/ worker'.mode = "maintenance"
  BY <1>10 DEF Initialize
<1>11. ASSUME Classify PROVE worker' = worker \/ worker'.mode = "maintenance"
  BY <1>11 DEF Classify
<1>12. ASSUME Pause PROVE worker' = worker \/ worker'.mode = "maintenance"
  BY <1>12 DEF Pause
<1>13. ASSUME Maintain PROVE worker' = worker \/ worker'.mode = "maintenance"
  BY <1>13 DEF Maintain
<1>14. ASSUME Drain PROVE worker' = worker \/ worker'.mode = "maintenance"
  BY <1>14 DEF Drain
<1>15. ASSUME Copy PROVE worker' = worker \/ worker'.mode = "maintenance"
  BY <1>15 DEF Copy
<1>16. ASSUME Migrate PROVE worker' = worker \/ worker'.mode = "maintenance"
  BY <1>16 DEF Migrate
<1>17. ASSUME Seed PROVE worker' = worker \/ worker'.mode = "maintenance"
  BY <1>17 DEF Seed
<1>18. ASSUME Unready PROVE worker' = worker \/ worker'.mode = "maintenance"
  BY <1>18 DEF Unready
<1>19. ASSUME SeedCheckpoint PROVE worker' = worker \/ worker'.mode = "maintenance"
  BY <1>19 DEF SeedCheckpoint
<1>20. ASSUME Scan PROVE worker' = worker \/ worker'.mode = "maintenance"
  BY <1>20 DEF Scan
<1>21. ASSUME Snapshot PROVE worker' = worker \/ worker'.mode = "maintenance"
  BY <1>21 DEF Snapshot
<1>22. ASSUME NEW k \in Shards, SeedShard(k) PROVE worker' = worker \/ worker'.mode = "maintenance"
  BY <1>22 DEF SeedShard
<1>23. ASSUME SeedRetire PROVE worker' = worker \/ worker'.mode = "maintenance"
  BY <1>23 DEF SeedRetire
<1>24. ASSUME SeedLast PROVE worker' = worker \/ worker'.mode = "maintenance"
  BY <1>24 DEF SeedLast
<1>25. ASSUME Ready PROVE worker' = worker \/ worker'.mode = "maintenance"
  BY <1>25 DEF Ready
<1>26. ASSUME Certify PROVE worker' = worker \/ worker'.mode = "maintenance"
  BY <1>26 DEF Certify
<1>27. ASSUME Stale PROVE worker' = worker \/ worker'.mode = "maintenance"
  BY <1>27 DEF Stale
<1>28. ASSUME Reconcile PROVE worker' = worker \/ worker'.mode = "maintenance"
  BY <1>28 DEF Reconcile
<1>29. ASSUME VerifyActive PROVE worker' = worker \/ worker'.mode = "maintenance"
  BY <1>29 DEF VerifyActive
<1>30. ASSUME CutoverInv, [CutoverNext]_cutoverVars, worker' # worker, worker'.mode = "active"
      PROVE  Granted
  BY <1>30, <1>1, <1>2, <1>3, <1>4, <1>5, <1>6, <1>7, <1>8, <1>9, <1>10, <1>11, <1>12, <1>13, <1>14,
     <1>15, <1>16, <1>17, <1>18, <1>19, <1>20, <1>21, <1>22, <1>23, <1>24, <1>25, <1>26, <1>27, <1>28,
     <1>29
  DEF CutoverNext, JobStep, cutoverVars
<1> QED  BY <1>30, CutoverInvariant, PTL DEF CutoverSpec, ActiveIsReady

-----------------------------------------------------------------------------
(* What the types of the cutover rest on: a seed counts no session twice,   *)
(* since the page of a scan is all there is up to its last session.         *)
CopyStates == {"none", "pending", "complete"}

LayoutStates == {"none", "legacy", "pending", "active"}

UpTo(n) == {s \in Sessions : s <= n}

Beyond(n) == {s \in Sessions : s > n}

SeedCounts(seed) ==
  seed.after \in Sessions \cup {0} /\ seed.rows \in Nat /\ seed.rows >= Cardinality(UpTo(seed.after))

RevisionsKnown == worker.rev \in 0..head /\ job.rev \in 0..head

VersionsBounded ==
  /\ main \in [Sessions -> 0..MaxVersion] /\ outbox \subseteq Sessions \X (1..MaxVersion)
  /\ catalog \in [Shards -> [Sessions -> 0..MaxVersion]]

ScanIsNext ==
  job.pc \in {"snapshot", "shards", "retire"} /\ job.scan => Covered(job.page) = PageOf(Beyond(job.seed.after)) /\ Covered(job.page) # {}

CutoverTypes ==
  /\ RevisionsKnown /\ VersionsBounded /\ proof.copy \in CopyStates /\ job.layout \in LayoutStates
  /\ SeedCounts(proof.seed) /\ SeedCounts(job.seed) /\ ScanIsNext

(* A step that changes no version, and whose seed is one that was there.    *)
SameSeed(seed, x) == seed.after = x.after /\ seed.rows = x.rows

Calm ==
  /\ head' \in Nat /\ head <= head'
  /\ worker'.rev \in {worker.rev, job.rev} /\ job'.rev \in {0, job.rev, head}
  /\ UNCHANGED <<main, outbox, catalog>>
  /\ proof'.copy \in CopyStates /\ job'.layout \in LayoutStates
  /\ SameSeed(proof'.seed, proof.seed) \/ SameSeed(proof'.seed, job.seed)
  /\ SameSeed(job'.seed, job.seed) \/ SameSeed(job'.seed, proof.seed) \/ SameSeed(job'.seed, NoSeed)
  /\ job'.pc \in {"snapshot", "shards", "retire"} =>
       /\ job.pc \in {"snapshot", "shards", "retire"}
       /\ job'.scan = job.scan /\ job'.page = job.page /\ job'.seed = job.seed

LEMMA SessionsAreCounted == Sessions \subseteq Nat /\ 0 \notin Sessions /\ IsFiniteSet(Sessions)
BY CutoverAssumption

LEMMA SizesAreCounted == PageSessions \in Nat \ {0} /\ MaxVersion \in Nat \ {0}
BY CutoverAssumption

LEMMA NothingCounts == SeedCounts(NoSeed)
<1>1. UpTo(0) = {}
  <2>1. \A n \in Nat : n <= 0 => n = 0
    OBVIOUS
  <2> QED  BY <2>1, SessionsAreCounted DEF UpTo
<1>2. NoSeed.after = 0 /\ NoSeed.rows = 0
  BY DEF NoSeed
<1>3. UpTo(NoSeed.after) = {}
  BY <1>1, <1>2
<1>4. Cardinality(UpTo(NoSeed.after)) = 0
  BY <1>3, FS_EmptySet, Zenon
<1> QED  BY <1>2, <1>4 DEF SeedCounts

LEMMA FailedJob ==
  ASSUME Failed
  PROVE  job'.seed = NoSeed /\ job'.rev \in {0, job.rev} /\ job'.layout = "none" /\ job'.pc \notin {"snapshot", "shards", "retire"}
<1>1. CASE job.paused
  BY <1>1 DEF Failed, IdleJob
<1>2. CASE ~job.paused
  BY <1>2 DEF Failed, IdleJob
<1> QED  BY <1>1, <1>2

LEMMA FailedIsCalm ==
  ASSUME CutoverTypes, CutoverInv, Failed, UNCHANGED <<head, worker, main, outbox, catalog, proof>>
  PROVE  Calm
BY FailedJob DEF Calm, SameSeed, CutoverTypes, LayoutStates, CutoverInv, HubShape

LEMMA SeedsOfOne == ASSUME NEW x, NEW seed, SeedCounts(x), SameSeed(seed, x) PROVE SeedCounts(seed)
BY DEF SeedCounts, SameSeed

LEMMA CalmKeepsTypes == ASSUME CutoverTypes, Calm, head \in Nat PROVE CutoverTypes'
<1>1. RevisionsKnown'
  BY DEF CutoverTypes, Calm, RevisionsKnown
<1>2. VersionsBounded'
  BY DEF CutoverTypes, Calm, VersionsBounded
<1>3. SeedCounts(proof'.seed)
  BY SeedsOfOne DEF CutoverTypes, Calm
<1>4. SeedCounts(job'.seed)
  BY SeedsOfOne, NothingCounts DEF CutoverTypes, Calm
<1>5. ScanIsNext'
  BY DEF CutoverTypes, Calm, ScanIsNext, PageOf, Beyond, Covered
<1> QED  BY <1>1, <1>2, <1>3, <1>4, <1>5 DEF CutoverTypes, Calm, SeedCounts, UpTo

LEMMA StartJobTypes == ASSUME CutoverInv, CutoverTypes, StartJob PROVE CutoverTypes'
<1>1. CASE Failed /\ UNCHANGED <<head, worker, main, outbox, catalog, proof>>
  BY <1>1, FailedIsCalm, CalmKeepsTypes DEF CutoverInv, HubShape
<1>2. Calm \/ (Failed /\ UNCHANGED <<head, worker, main, outbox, catalog, proof>>)
  BY DEF StartJob, Calm, Step, IdleJob, NoSeed, SameSeed, jobVars, sideVars, CutoverTypes, Layout, Resumed, SeedOpen, CutoverInv,
         HubShape, JobShape, ProofShape, IsSeed, CopyStates, LayoutStates
<1> QED  BY <1>1, <1>2, CalmKeepsTypes DEF CutoverInv, HubShape

LEMMA InitializeTypes == ASSUME CutoverInv, CutoverTypes, Initialize PROVE CutoverTypes'
<1>1. CASE Failed /\ UNCHANGED <<head, worker, main, outbox, catalog, proof>>
  BY <1>1, FailedIsCalm, CalmKeepsTypes DEF CutoverInv, HubShape
<1>2. Calm \/ (Failed /\ UNCHANGED <<head, worker, main, outbox, catalog, proof>>)
  BY DEF Initialize, Calm, Step, IdleJob, NoSeed, SameSeed, jobVars, sideVars, CutoverTypes, Layout, Resumed, SeedOpen, CutoverInv,
         HubShape, JobShape, ProofShape, IsSeed, CopyStates, LayoutStates
<1> QED  BY <1>1, <1>2, CalmKeepsTypes DEF CutoverInv, HubShape

LEMMA ClassifyTypes == ASSUME CutoverInv, CutoverTypes, Classify PROVE CutoverTypes'
<1>1. CASE Failed /\ UNCHANGED <<head, worker, main, outbox, catalog, proof>>
  BY <1>1, FailedIsCalm, CalmKeepsTypes DEF CutoverInv, HubShape
<1>2. CASE ~(Failed /\ UNCHANGED <<head, worker, main, outbox, catalog, proof>>)
  <2>1. /\ job' = [job EXCEPT !.layout = Layout, !.pc = IF Layout = "active" THEN "migrate" ELSE "pause",
                              !.paused = (Layout # "active")]
        /\ UNCHANGED <<head, worker, main, outbox, catalog, proof>>
    BY <1>2 DEF Classify, jobVars, sideVars
  <2>2. Layout \in LayoutStates
    BY DEF Layout, LayoutStates
  <2>3. /\ job'.layout \in LayoutStates /\ job'.seed = job.seed /\ job'.rev = job.rev
        /\ job'.pc \notin {"snapshot", "shards", "retire"}
    <3> HIDE DEF Layout
    <3> QED  BY <2>1, <2>2 DEF CutoverInv, JobShape
  <2>4. Calm
    BY <2>1, <2>3 DEF Calm, SameSeed, CutoverTypes, CutoverInv, HubShape
  <2> QED  BY <2>4, CalmKeepsTypes DEF CutoverInv, HubShape
<1> QED  BY <1>1, <1>2, CalmKeepsTypes DEF CutoverInv, HubShape

LEMMA PauseTypes == ASSUME CutoverInv, CutoverTypes, Pause PROVE CutoverTypes'
<1>1. CASE Failed /\ UNCHANGED <<head, worker, main, outbox, catalog, proof>>
  BY <1>1, FailedIsCalm, CalmKeepsTypes DEF CutoverInv, HubShape
<1>2. Calm \/ (Failed /\ UNCHANGED <<head, worker, main, outbox, catalog, proof>>)
  BY DEF Pause, Calm, Step, IdleJob, NoSeed, SameSeed, jobVars, sideVars, CutoverTypes, Layout, Resumed, SeedOpen, CutoverInv,
         HubShape, JobShape, ProofShape, IsSeed, CopyStates, LayoutStates
<1> QED  BY <1>1, <1>2, CalmKeepsTypes DEF CutoverInv, HubShape

LEMMA MaintainTypes == ASSUME CutoverInv, CutoverTypes, Maintain PROVE CutoverTypes'
<1>1. CASE Failed /\ UNCHANGED <<head, worker, main, outbox, catalog, proof>>
  BY <1>1, FailedIsCalm, CalmKeepsTypes DEF CutoverInv, HubShape
<1>2. Calm \/ (Failed /\ UNCHANGED <<head, worker, main, outbox, catalog, proof>>)
  BY DEF Maintain, Calm, Step, IdleJob, NoSeed, SameSeed, jobVars, sideVars, CutoverTypes, Layout, Resumed, SeedOpen, CutoverInv,
         HubShape, JobShape, ProofShape, IsSeed, CopyStates, LayoutStates
<1> QED  BY <1>1, <1>2, CalmKeepsTypes DEF CutoverInv, HubShape

LEMMA DrainTypes == ASSUME CutoverInv, CutoverTypes, Drain PROVE CutoverTypes'
<1>1. CASE Failed /\ UNCHANGED <<head, worker, main, outbox, catalog, proof>>
  BY <1>1, FailedIsCalm, CalmKeepsTypes DEF CutoverInv, HubShape
<1>2. CASE ~(Failed /\ UNCHANGED <<head, worker, main, outbox, catalog, proof>>)
  <2>1. /\ job'.layout = job.layout /\ job'.seed = job.seed /\ job'.rev = job.rev
        /\ job'.pc \notin {"snapshot", "shards", "retire"}
        /\ proof'.copy = proof.copy /\ proof'.seed = proof.seed
        /\ UNCHANGED <<head, worker, main, outbox, catalog>>
    BY <1>2 DEF Drain, Step, Failed, jobVars, sideVars, CutoverInv, JobShape, IsSeed, ProofShape
  <2>2. Calm
    BY <2>1 DEF Calm, SameSeed, CutoverTypes, CutoverInv, HubShape, CopyStates, LayoutStates
  <2> QED  BY <2>1, <2>2, CalmKeepsTypes DEF CutoverInv, HubShape
<1> QED  BY <1>1, <1>2, CalmKeepsTypes DEF CutoverInv, HubShape

LEMMA CopyTypes == ASSUME CutoverInv, CutoverTypes, Copy PROVE CutoverTypes'
<1>1. CASE Failed /\ UNCHANGED <<head, worker, main, outbox, catalog, proof>>
  BY <1>1, FailedIsCalm, CalmKeepsTypes DEF CutoverInv, HubShape
<1>2. CASE ~(Failed /\ UNCHANGED <<head, worker, main, outbox, catalog, proof>>)
  <2>1. /\ \/ proof' = [proof EXCEPT !.copy = "complete"] /\ job' = [job EXCEPT !.pc = "migrate"]
           \/ proof' = [proof EXCEPT !.copy = "pending"] /\ Failed
        /\ UNCHANGED <<head, worker, main, outbox, catalog>>
    BY <1>2 DEF Copy, Step, sideVars
  <2>2. proof'.copy \in CopyStates /\ proof'.seed = proof.seed
    BY <2>1 DEF CutoverInv, ProofShape, CopyStates
  <2>3. Calm
    <3>1. CASE Failed
      BY <2>1, <2>2, <3>1, FailedJob DEF Calm, SameSeed, LayoutStates, CutoverInv, HubShape
    <3>2. CASE job' = [job EXCEPT !.pc = "migrate"]
      <4>1. job'.layout = job.layout /\ job'.seed = job.seed /\ job'.rev = job.rev /\ job'.pc = "migrate"
        BY <3>2 DEF CutoverInv, JobShape
      <4> QED  BY <2>1, <2>2, <4>1 DEF Calm, SameSeed, CutoverTypes, CutoverInv, HubShape
    <3> QED  BY <2>1, <3>1, <3>2
  <2> QED  BY <2>3, CalmKeepsTypes DEF CutoverInv, HubShape
<1> QED  BY <1>1, <1>2

LEMMA SeedTypes == ASSUME CutoverInv, CutoverTypes, Seed PROVE CutoverTypes'
<1>1. CASE Failed /\ UNCHANGED <<head, worker, main, outbox, catalog, proof>>
  BY <1>1, FailedIsCalm, CalmKeepsTypes DEF CutoverInv, HubShape
<1>2. CASE ~(Failed /\ UNCHANGED <<head, worker, main, outbox, catalog, proof>>)
  <2>1. /\ job' = [job EXCEPT !.pc = SeedOpen(proof.ready), !.seed = Resumed(proof.seed)]
        /\ UNCHANGED <<head, worker, main, outbox, catalog, proof>>
    BY <1>2 DEF Seed, jobVars, sideVars
  <2>2. SeedOpen(proof.ready) \in {"unready", "pending"}
    BY DEF SeedOpen
  <2>3. /\ job'.seed = Resumed(proof.seed) /\ job'.layout = job.layout /\ job'.rev = job.rev
        /\ job'.pc \notin {"snapshot", "shards", "retire"}
    BY <2>1, <2>2 DEF CutoverInv, JobShape
  <2>4. SameSeed(Resumed(proof.seed), proof.seed) \/ SameSeed(Resumed(proof.seed), NoSeed)
    BY DEF SameSeed, Resumed, NoSeed
  <2>5. Calm
    BY <2>1, <2>3, <2>4 DEF Calm, SameSeed, CutoverTypes, CutoverInv, HubShape
  <2> QED  BY <2>5, CalmKeepsTypes DEF CutoverInv, HubShape
<1> QED  BY <1>1, <1>2

LEMMA UnreadyTypes == ASSUME CutoverInv, CutoverTypes, Unready PROVE CutoverTypes'
<1>1. CASE Failed /\ UNCHANGED <<head, worker, main, outbox, catalog, proof>>
  BY <1>1, FailedIsCalm, CalmKeepsTypes DEF CutoverInv, HubShape
<1>2. Calm \/ (Failed /\ UNCHANGED <<head, worker, main, outbox, catalog, proof>>)
  BY DEF Unready, Calm, Step, IdleJob, NoSeed, SameSeed, jobVars, sideVars, CutoverTypes, Layout, Resumed, SeedOpen, CutoverInv,
         HubShape, JobShape, ProofShape, IsSeed, CopyStates, LayoutStates
<1> QED  BY <1>1, <1>2, CalmKeepsTypes DEF CutoverInv, HubShape

LEMMA SeedCheckpointTypes == ASSUME CutoverInv, CutoverTypes, SeedCheckpoint PROVE CutoverTypes'
<1>1. CASE Failed /\ UNCHANGED <<head, worker, main, outbox, catalog, proof>>
  BY <1>1, FailedIsCalm, CalmKeepsTypes DEF CutoverInv, HubShape
<1>2. Calm \/ (Failed /\ UNCHANGED <<head, worker, main, outbox, catalog, proof>>)
  BY DEF SeedCheckpoint, Calm, Step, IdleJob, NoSeed, SameSeed, jobVars, sideVars, CutoverTypes, Layout, Resumed, SeedOpen, CutoverInv,
         HubShape, JobShape, ProofShape, IsSeed, CopyStates, LayoutStates
<1> QED  BY <1>1, <1>2, CalmKeepsTypes DEF CutoverInv, HubShape

LEMMA SnapshotTypes == ASSUME CutoverInv, CutoverTypes, Snapshot PROVE CutoverTypes'
<1>1. CASE Failed /\ UNCHANGED <<head, worker, main, outbox, catalog, proof>>
  BY <1>1, FailedIsCalm, CalmKeepsTypes DEF CutoverInv, HubShape
<1>2. CASE ~(Failed /\ UNCHANGED <<head, worker, main, outbox, catalog, proof>>)
  <2>1. /\ job'.layout = job.layout /\ job'.seed = job.seed /\ job'.rev = job.rev
        /\ job.pc = "snapshot" /\ job'.scan = job.scan /\ job'.page = job.page
        /\ UNCHANGED <<head, worker, main, outbox, catalog, proof>>
    BY <1>2 DEF Snapshot, Step, Failed, jobVars, sideVars, CutoverInv, JobShape, IsSeed
  <2>2. Calm
    BY <2>1 DEF Calm, SameSeed, CutoverTypes, CutoverInv, HubShape, CopyStates, LayoutStates
  <2> QED  BY <2>1, <2>2, CalmKeepsTypes DEF CutoverInv, HubShape
<1> QED  BY <1>1, <1>2, CalmKeepsTypes DEF CutoverInv, HubShape

LEMMA SeedLastTypes == ASSUME CutoverInv, CutoverTypes, SeedLast PROVE CutoverTypes'
<1>1. CASE Failed /\ UNCHANGED <<head, worker, main, outbox, catalog, proof>>
  BY <1>1, FailedIsCalm, CalmKeepsTypes DEF CutoverInv, HubShape
<1>2. CASE ~(Failed /\ UNCHANGED <<head, worker, main, outbox, catalog, proof>>)
  <2>1. /\ job'.layout = job.layout /\ SameSeed(job'.seed, job.seed) /\ job'.rev = job.rev
        /\ job'.pc \notin {"snapshot", "shards", "retire"}
        /\ UNCHANGED <<head, worker, main, outbox, catalog, proof>>
    BY <1>2 DEF SeedLast, Step, Failed, jobVars, sideVars, CutoverInv, JobShape, IsSeed, SameSeed
  <2>2. Calm
    BY <2>1 DEF Calm, SameSeed, CutoverTypes, CutoverInv, HubShape, CopyStates, LayoutStates
  <2> QED  BY <2>1, <2>2, CalmKeepsTypes DEF CutoverInv, HubShape
<1> QED  BY <1>1, <1>2, CalmKeepsTypes DEF CutoverInv, HubShape

LEMMA ReadyTypes == ASSUME CutoverInv, CutoverTypes, Ready PROVE CutoverTypes'
<1>1. CASE Failed /\ UNCHANGED <<head, worker, main, outbox, catalog, proof>>
  BY <1>1, FailedIsCalm, CalmKeepsTypes DEF CutoverInv, HubShape
<1>2. Calm \/ (Failed /\ UNCHANGED <<head, worker, main, outbox, catalog, proof>>)
  BY DEF Ready, Calm, Step, IdleJob, NoSeed, SameSeed, jobVars, sideVars, CutoverTypes, Layout, Resumed, SeedOpen, CutoverInv,
         HubShape, JobShape, ProofShape, IsSeed, CopyStates, LayoutStates
<1> QED  BY <1>1, <1>2, CalmKeepsTypes DEF CutoverInv, HubShape

LEMMA CertifyTypes == ASSUME CutoverInv, CutoverTypes, Certify PROVE CutoverTypes'
<1>1. CASE Failed /\ UNCHANGED <<head, worker, main, outbox, catalog, proof>>
  BY <1>1, FailedIsCalm, CalmKeepsTypes DEF CutoverInv, HubShape
<1>2. Calm \/ (Failed /\ UNCHANGED <<head, worker, main, outbox, catalog, proof>>)
  BY DEF Certify, Calm, Step, IdleJob, NoSeed, SameSeed, jobVars, sideVars, CutoverTypes, Layout, Resumed, SeedOpen, CutoverInv,
         HubShape, JobShape, ProofShape, IsSeed, CopyStates, LayoutStates
<1> QED  BY <1>1, <1>2, CalmKeepsTypes DEF CutoverInv, HubShape

LEMMA StaleTypes == ASSUME CutoverInv, CutoverTypes, Stale PROVE CutoverTypes'
<1>1. CASE Failed /\ UNCHANGED <<head, worker, main, outbox, catalog, proof>>
  BY <1>1, FailedIsCalm, CalmKeepsTypes DEF CutoverInv, HubShape
<1>2. Calm \/ (Failed /\ UNCHANGED <<head, worker, main, outbox, catalog, proof>>)
  BY DEF Stale, Calm, Step, IdleJob, NoSeed, SameSeed, jobVars, sideVars, CutoverTypes, Layout, Resumed, SeedOpen, CutoverInv,
         HubShape, JobShape, ProofShape, IsSeed, CopyStates, LayoutStates
<1> QED  BY <1>1, <1>2, CalmKeepsTypes DEF CutoverInv, HubShape

LEMMA ActivateTypes == ASSUME CutoverInv, CutoverTypes, Activate PROVE CutoverTypes'
<1>1. CASE Failed /\ UNCHANGED <<head, worker, main, outbox, catalog, proof>>
  BY <1>1, FailedIsCalm, CalmKeepsTypes DEF CutoverInv, HubShape
<1>2. Calm \/ (Failed /\ UNCHANGED <<head, worker, main, outbox, catalog, proof>>)
  BY DEF Activate, Calm, Step, IdleJob, NoSeed, SameSeed, jobVars, sideVars, CutoverTypes, Layout, Resumed, SeedOpen, CutoverInv,
         HubShape, JobShape, ProofShape, IsSeed, CopyStates, LayoutStates
<1> QED  BY <1>1, <1>2, CalmKeepsTypes DEF CutoverInv, HubShape

LEMMA VerifyActiveTypes == ASSUME CutoverInv, CutoverTypes, VerifyActive PROVE CutoverTypes'
<1>1. CASE Failed /\ UNCHANGED <<head, worker, main, outbox, catalog, proof>>
  BY <1>1, FailedIsCalm, CalmKeepsTypes DEF CutoverInv, HubShape
<1>2. Calm \/ (Failed /\ UNCHANGED <<head, worker, main, outbox, catalog, proof>>)
  BY DEF VerifyActive, Calm, Step, IdleJob, NoSeed, SameSeed, jobVars, sideVars, CutoverTypes, Layout, Resumed, SeedOpen, CutoverInv,
         HubShape, JobShape, ProofShape, IsSeed, CopyStates, LayoutStates
<1> QED  BY <1>1, <1>2, CalmKeepsTypes DEF CutoverInv, HubShape

LEMMA FailsTypes == ASSUME CutoverInv, CutoverTypes, Fails PROVE CutoverTypes'
<1>0. UNCHANGED <<head, worker, main, outbox, catalog, proof>>
  BY DEF Fails, sideVars
<1>1. CASE job.pc \notin {"repause", "redeploy"}
  <2>1. Failed
    BY <1>1 DEF Fails, Fallback
  <2> QED  BY <1>0, <2>1, FailedIsCalm, CalmKeepsTypes DEF CutoverInv, HubShape
<1>2. CASE job.pc \in {"repause", "redeploy"}
  <2>1. job' = IdleJob \/ job' = [job EXCEPT !.pc = "redeploy"]
    BY <1>2 DEF Fails, Fallback, Step
  <2>2. Calm
    BY <1>0, <2>1 DEF Calm, IdleJob, NoSeed, SameSeed, CutoverTypes, CutoverInv,
         HubShape, JobShape, ProofShape, IsSeed, CopyStates, LayoutStates
  <2> QED  BY <2>2, CalmKeepsTypes DEF CutoverInv, HubShape
<1> QED  BY <1>1, <1>2

LEMMA DiesTypes == ASSUME CutoverInv, CutoverTypes, Dies PROVE CutoverTypes'
<1>1. CASE Failed /\ UNCHANGED <<head, worker, main, outbox, catalog, proof>>
  BY <1>1, FailedIsCalm, CalmKeepsTypes DEF CutoverInv, HubShape
<1>2. Calm \/ (Failed /\ UNCHANGED <<head, worker, main, outbox, catalog, proof>>)
  BY DEF Dies, Calm, Step, IdleJob, NoSeed, SameSeed, jobVars, sideVars, CutoverTypes, Layout, Resumed, SeedOpen, CutoverInv,
         HubShape, JobShape, ProofShape, IsSeed, CopyStates, LayoutStates
<1> QED  BY <1>1, <1>2, CalmKeepsTypes DEF CutoverInv, HubShape

LEMMA PushTypes == ASSUME CutoverInv, CutoverTypes, Push PROVE CutoverTypes'
<1>1. CASE Failed /\ UNCHANGED <<head, worker, main, outbox, catalog, proof>>
  BY <1>1, FailedIsCalm, CalmKeepsTypes DEF CutoverInv, HubShape
<1>2. Calm \/ (Failed /\ UNCHANGED <<head, worker, main, outbox, catalog, proof>>)
  BY DEF Push, Calm, Step, IdleJob, NoSeed, SameSeed, jobVars, sideVars, CutoverTypes, Layout, Resumed, SeedOpen, CutoverInv,
         HubShape, JobShape, ProofShape, IsSeed, CopyStates, LayoutStates
<1> QED  BY <1>1, <1>2, CalmKeepsTypes DEF CutoverInv, HubShape

LEMMA BeginTypes == ASSUME CutoverInv, CutoverTypes, Begin PROVE CutoverTypes'
<1>1. CASE Failed /\ UNCHANGED <<head, worker, main, outbox, catalog, proof>>
  BY <1>1, FailedIsCalm, CalmKeepsTypes DEF CutoverInv, HubShape
<1>2. Calm \/ (Failed /\ UNCHANGED <<head, worker, main, outbox, catalog, proof>>)
  BY DEF Begin, Calm, Step, IdleJob, NoSeed, SameSeed, jobVars, sideVars, CutoverTypes, Layout, Resumed, SeedOpen, CutoverInv,
         HubShape, JobShape, ProofShape, IsSeed, CopyStates, LayoutStates
<1> QED  BY <1>1, <1>2, CalmKeepsTypes DEF CutoverInv, HubShape

LEMMA FinishTypes == ASSUME CutoverInv, CutoverTypes, Finish PROVE CutoverTypes'
<1>1. CASE Failed /\ UNCHANGED <<head, worker, main, outbox, catalog, proof>>
  BY <1>1, FailedIsCalm, CalmKeepsTypes DEF CutoverInv, HubShape
<1>2. Calm \/ (Failed /\ UNCHANGED <<head, worker, main, outbox, catalog, proof>>)
  BY DEF Finish, Calm, Step, IdleJob, NoSeed, SameSeed, jobVars, sideVars, CutoverTypes, Layout, Resumed, SeedOpen, CutoverInv,
         HubShape, JobShape, ProofShape, IsSeed, CopyStates, LayoutStates
<1> QED  BY <1>1, <1>2, CalmKeepsTypes DEF CutoverInv, HubShape

(* A finite set of numbers has a greatest one, so that the cursor behind a  *)
(* page is one of its sessions.                                             *)
LEMMA GreatestOfFinite ==
  ASSUME NEW P, P \subseteq Nat, P # {}, IsFiniteSet(P)
  PROVE  \E m \in P : \A t \in P : t <= m
<1> DEFINE From(x) == {t \in P : x <= t}
           T == {From(x) : x \in P}
<1>0. \A x, y \in P : x < y => From(y) \subseteq From(x) /\ x \in From(x) /\ x \notin From(y) /\ From(x) \subseteq P
  <2> SUFFICES ASSUME NEW x \in P, NEW y \in P, x < y
               PROVE  From(y) \subseteq From(x) /\ x \in From(x) /\ x \notin From(y) /\ From(x) \subseteq P
    BY Zenon
  <2>1. x \in Nat /\ y \in Nat
    OBVIOUS
  <2>2. ASSUME NEW t \in P, y <= t PROVE x <= t
    <3>1. t \in Nat
      OBVIOUS
    <3> QED  BY <2>1, <2>2, <3>1
  <2>3. x <= x /\ ~(y <= x)
    BY <2>1
  <2> HIDE DEF T
  <2> QED  BY <2>2, <2>3
<1>1. T \subseteq FiniteSubsetsOf(P) /\ T # {}
  <2>1. ASSUME NEW x \in P PROVE From(x) \in FiniteSubsetsOf(P)
    <3>1. From(x) \in SUBSET P
      OBVIOUS
    <3> HIDE DEF From
    <3> QED  BY <3>1, FS_Subset DEF FiniteSubsetsOf
  <2> QED  BY <2>1
<1>2. PICK U \in T : \A V \in T : <<V, U>> \notin StrictSubsetOrdering(P)
  <2> HIDE DEF T
  <2> QED  BY <1>1, WFMin, FS_StrictSubsetOrderingWellFounded
<1>3. PICK m \in P : U = From(m)
  BY <1>2
<1>4. ASSUME NEW t \in P, ~(t <= m) PROVE FALSE
  <2>0. m \in Nat /\ t \in Nat /\ m < t /\ P \subseteq Nat
    BY <1>4
  <2>1. From(t) \in T /\ From(t) \subseteq From(m) /\ m \in From(m) /\ m \notin From(t) /\ From(m) \subseteq P
    <3> HIDE DEF From
    <3> QED  BY <2>0, <1>0
  <2>2. <<From(t), U>> \in StrictSubsetOrdering(P)
    BY <1>3, <2>1 DEF StrictSubsetOrdering
  <2> QED  BY <1>2, <2>1, <2>2
<1> QED  BY <1>4

(* No session up to the last of a page is left out by it.                   *)
LEMMA PageReaches ==
  ASSUME NEW n \in Nat, NEW P, P = PageOf(Beyond(n)), P # {}, NEW last, last = CHOOSE s \in P : \A t \in P : t <= s
  PROVE  last \in Sessions /\ Cardinality(UpTo(last)) <= Cardinality(UpTo(n)) + Cardinality(P)
<1>1. P \subseteq Beyond(n) /\ Beyond(n) \subseteq Sessions /\ Sessions \subseteq Nat /\ IsFiniteSet(Sessions)
  BY CutoverAssumption DEF PageOf, Beyond
<1>2. IsFiniteSet(P) /\ IsFiniteSet(Beyond(n)) /\ IsFiniteSet(UpTo(n)) /\ IsFiniteSet(UpTo(last))
  BY <1>1, FS_Subset DEF UpTo
<1>3. last \in P /\ \A t \in P : t <= last
  BY <1>1, <1>2, GreatestOfFinite
<1>4. UpTo(last) \subseteq UpTo(n) \cup P
  <2> SUFFICES ASSUME NEW s \in UpTo(last), s \notin UpTo(n) PROVE s \in P
    OBVIOUS
  <2> DEFINE Ahead(x) == {t \in Beyond(n) : t < x}
  <2>1. s \in Beyond(n) /\ s <= last
    BY <1>1 DEF UpTo, Beyond
  <2>0. s \in Nat /\ last \in Nat /\ Beyond(n) \subseteq Nat
    BY <1>1, <1>3, <2>1
  <2>2. Ahead(s) \in SUBSET Ahead(last) /\ Ahead(last) \in SUBSET Beyond(n) /\ Ahead(s) \in SUBSET Beyond(n)
    <3>1. ASSUME NEW t \in Beyond(n), t < s PROVE t < last
      <4>1. t \in Nat
        BY <2>0
      <4> QED  BY <2>0, <2>1, <3>1, <4>1
    <3> QED  BY <3>1
  <2>6. IsFiniteSet(Ahead(last)) /\ IsFiniteSet(Ahead(s))
    <3> HIDE DEF Ahead
    <3> QED  BY <1>2, <2>2, FS_Subset
  <2>3. Cardinality(Ahead(s)) <= Cardinality(Ahead(last)) /\ Cardinality(Ahead(s)) \in Nat /\ Cardinality(Ahead(last)) \in Nat
    <3> HIDE DEF Ahead
    <3> QED  BY <2>2, <2>6, FS_Subset, FS_CardinalityType
  <2>4. Cardinality(Ahead(last)) < PageSessions
    BY <1>3 DEF PageOf
  <2>5. Cardinality(Ahead(s)) < PageSessions
    BY <2>3, <2>4, CutoverAssumption
  <2> QED  BY <2>1, <2>5 DEF PageOf
<1>5. IsFiniteSet(UpTo(n) \cup P) /\ Cardinality(UpTo(last)) <= Cardinality(UpTo(n) \cup P)
  BY <1>2, <1>4, FS_Union, FS_Subset
<1>6. Cardinality(UpTo(n) \cup P) <= Cardinality(UpTo(n)) + Cardinality(P)
  <2>1. IsFiniteSet(UpTo(n) \cap P)
    BY <1>2, FS_Subset
  <2>2. Cardinality(UpTo(n) \cap P) \in Nat /\ Cardinality(UpTo(n)) \in Nat /\ Cardinality(P) \in Nat
    BY <1>2, <2>1, FS_CardinalityType
  <2>3. Cardinality(UpTo(n) \cup P) = Cardinality(UpTo(n)) + Cardinality(P) - Cardinality(UpTo(n) \cap P)
    BY <1>2, FS_Union
  <2> QED  BY <2>2, <2>3
<1>7. /\ Cardinality(UpTo(last)) \in Nat /\ Cardinality(UpTo(n) \cup P) \in Nat
      /\ Cardinality(UpTo(n)) \in Nat /\ Cardinality(P) \in Nat
  BY <1>2, <1>5, FS_CardinalityType
<1> QED  BY <1>1, <1>3, <1>5, <1>6, <1>7

LEMMA SeedRetireTypes == ASSUME CutoverInv, CutoverTypes, SeedRetire PROVE CutoverTypes'
<1>1. CASE Failed /\ UNCHANGED <<head, worker, main, outbox, catalog, proof>>
  BY <1>1, FailedIsCalm, CalmKeepsTypes DEF CutoverInv, HubShape
<1>2. CASE ~(Failed /\ UNCHANGED <<head, worker, main, outbox, catalog, proof>>)
  <2> DEFINE P == Covered(job.page)
             last == CHOOSE s \in P : \A t \in P : t <= s
             rows == job.seed.rows + Cardinality(P)
             after == IF job.scan THEN last ELSE job.seed.after
  <2>1. /\ job.pc = "retire" /\ outbox' = {o \in outbox : ~Retirable(o, job.page)}
        /\ job' = [job EXCEPT !.pc = "pending", !.page = <<>>, !.seed = [job.seed EXCEPT !.rows = rows, !.after = after]]
        /\ UNCHANGED <<head, worker, main, catalog, proof>>
    BY <1>2 DEF SeedRetire, sideVars
  <2>2. /\ IsFiniteSet(P) /\ Cardinality(P) \in Nat
    BY <2>1, CutoverAssumption, FS_Subset, FS_CardinalityType DEF CutoverInv, PageIsMain
  <2>3. /\ job.seed.after \in Nat /\ job.seed.after \in Sessions \cup {0} /\ job.seed.rows \in Nat
        /\ Cardinality(UpTo(job.seed.after)) \in Nat
        /\ job.seed.rows >= Cardinality(UpTo(job.seed.after))
    <3>1. IsFiniteSet(UpTo(job.seed.after))
      BY CutoverAssumption, FS_Subset DEF UpTo
    <3>2. job.seed.after \in Sessions \cup {0} /\ job.seed.rows \in Nat /\ job.seed.rows >= Cardinality(UpTo(job.seed.after))
      BY DEF CutoverTypes, SeedCounts
    <3>3. Cardinality(UpTo(job.seed.after)) \in Nat
      BY <3>1, FS_CardinalityType
    <3>4. Sessions \cup {0} \subseteq Nat
      BY SessionsAreCounted
    <3> QED  BY <3>2, <3>3, <3>4
  <2>4. job.scan => P = PageOf(Beyond(job.seed.after)) /\ P # {}
    BY <2>1 DEF CutoverTypes, ScanIsNext
  <2>5. job.scan => last \in Sessions /\ Cardinality(UpTo(last)) <= Cardinality(UpTo(job.seed.after)) + Cardinality(P)
    <3> HIDE DEF P
    <3> QED  BY <2>3, <2>4, PageReaches
  <2>6. IsFiniteSet(UpTo(after)) /\ Cardinality(UpTo(after)) \in Nat
    <3>1. IsFiniteSet(UpTo(after))
      BY CutoverAssumption, FS_Subset DEF UpTo
    <3> QED  BY <3>1, FS_CardinalityType
  <2>7. after \in Sessions \cup {0} /\ rows \in Nat /\ rows >= Cardinality(UpTo(after))
    <3> HIDE DEF P, last
    <3>1. CASE job.scan
      <4>1. after = last
        BY <3>1
      <4> QED  BY <3>1, <4>1, <2>2, <2>3, <2>5, <2>6
    <3>2. CASE ~job.scan
      <4>1. after = job.seed.after
        BY <3>2
      <4> QED  BY <3>2, <4>1, <2>2, <2>3
    <3> QED  BY <3>1, <3>2
  <2>8. job'.seed.after = after /\ job'.seed.rows = rows /\ job'.pc = "pending" /\ job'.rev = job.rev /\ job'.layout = job.layout
    <3> HIDE DEF P, last, rows, after
    <3> QED  BY <2>1 DEF CutoverInv, JobShape, IsSeed
  <2> HIDE DEF P, last, rows, after
  <2>9. SeedCounts(job'.seed)
    BY <2>7, <2>8 DEF SeedCounts
  <2>10. RevisionsKnown' /\ VersionsBounded' /\ proof'.copy \in CopyStates /\ job'.layout \in LayoutStates /\ SeedCounts(proof'.seed)
    BY <2>1, <2>8 DEF CutoverTypes, RevisionsKnown, VersionsBounded
  <2>11. ScanIsNext'
    BY <2>8 DEF ScanIsNext
  <2> QED  BY <2>9, <2>10, <2>11 DEF CutoverTypes, SeedCounts, UpTo
<1> QED  BY <1>1, <1>2

LEMMA ScanTypes == ASSUME CutoverInv, CutoverTypes, Scan PROVE CutoverTypes'
<1> DEFINE ahead == Beyond(job.seed.after)
           ids == IF ahead # {} THEN PageOf(ahead) ELSE PageOf(Owed(job.seed.after))
           scan == ahead # {}
<1>1. /\ \/ Failed
         \/ job' = [job EXCEPT !.pc = "last"]
         \/ ids # {} /\ job' = [job EXCEPT !.pc = "snapshot", !.page = [s \in ids |-> main[s]], !.scan = scan]
      /\ UNCHANGED <<head, worker, main, outbox, catalog, proof>>
  BY DEF Scan, Step, jobVars, sideVars, Beyond
<1> HIDE DEF ids, scan
<1>2. CASE Failed
  BY <1>1, <1>2, FailedIsCalm, CalmKeepsTypes DEF CutoverInv, HubShape
<1>3. CASE job' = [job EXCEPT !.pc = "last"]
  <2>1. job'.layout = job.layout /\ job'.seed = job.seed /\ job'.rev = job.rev /\ job'.pc = "last"
    BY <1>3 DEF CutoverInv, JobShape
  <2>2. Calm
    BY <1>1, <2>1 DEF Calm, SameSeed, CutoverTypes, CutoverInv, HubShape
  <2> QED  BY <2>2, CalmKeepsTypes DEF CutoverInv, HubShape
<1>4. CASE ids # {} /\ job' = [job EXCEPT !.pc = "snapshot", !.page = [s \in ids |-> main[s]], !.scan = scan]
  <2>1. /\ job'.page = [s \in ids |-> main[s]] /\ job'.scan = scan /\ job'.seed = job.seed
        /\ job'.rev = job.rev /\ job'.layout = job.layout
    BY <1>4 DEF CutoverInv, JobShape
  <2>2. Covered(job'.page) = ids
    BY <2>1 DEF Covered
  <2>3. job'.scan => ids = PageOf(ahead)
    BY <2>1 DEF ids, scan
  <2>4. ScanIsNext'
    BY <1>4, <2>1, <2>2, <2>3 DEF ScanIsNext, Covered, PageOf, Beyond
  <2>5. RevisionsKnown' /\ VersionsBounded'
    BY <1>1, <2>1 DEF CutoverTypes, RevisionsKnown, VersionsBounded
  <2> QED  BY <1>1, <2>1, <2>4, <2>5 DEF CutoverTypes, SeedCounts, UpTo
<1> QED  BY <1>1, <1>2, <1>3, <1>4

(* The steps that write versions.                                           *)
LEMMA VersionsWritten ==
  ASSUME CutoverTypes, RevisionsKnown', VersionsBounded', proof' = proof, job'.seed = job.seed, job'.layout = job.layout,
         ScanIsNext'
  PROVE  CutoverTypes'
BY DEF CutoverTypes, SeedCounts, UpTo

LEMMA ChangeTypes == ASSUME CutoverInv, CutoverTypes, NEW s \in Sessions, Change(s) PROVE CutoverTypes'
<1>1. main[s] \in 0..MaxVersion /\ MaxVersion \in Nat /\ main[s] + 1 \in 1..MaxVersion
  BY CutoverAssumption DEF Change, CutoverTypes, VersionsBounded
<1>2. VersionsBounded'
  BY <1>1 DEF Change, CutoverTypes, VersionsBounded
<1>3. RevisionsKnown' /\ ScanIsNext'
  BY DEF Change, sideVars, CutoverTypes, RevisionsKnown, ScanIsNext, PageOf, Beyond, Covered
<1> QED  BY <1>2, <1>3, VersionsWritten DEF Change

LEMMA PropagateTypes ==
  ASSUME CutoverInv, CutoverTypes, NEW s \in Sessions, NEW k \in Shards, Propagate(s, k) PROVE CutoverTypes'
<1>1. VersionsBounded'
  BY DEF Propagate, CutoverTypes, VersionsBounded
<1>2. RevisionsKnown' /\ ScanIsNext'
  BY DEF Propagate, sideVars, CutoverTypes, RevisionsKnown, ScanIsNext, PageOf, Beyond, Covered
<1> QED  BY <1>1, <1>2, VersionsWritten DEF Propagate

LEMMA MigrateTypes == ASSUME CutoverInv, CutoverTypes, Migrate PROVE CutoverTypes'
<1>1. VersionsBounded'
  <2>1. \A s \in Sessions : 1 \in 0..MaxVersion /\ 1 \in 1..MaxVersion
    BY CutoverAssumption
  <2>2. CASE UNCHANGED <<main, outbox>>
    BY <2>2 DEF Migrate, CutoverTypes, VersionsBounded
  <2>3. CASE main' = [s \in Sessions |-> 1] /\ outbox' = Sessions \X {1}
    BY <2>1, <2>3 DEF Migrate, CutoverTypes, VersionsBounded
  <2> QED  BY <2>2, <2>3 DEF Migrate
<1>2. /\ job'.seed \in {job.seed, NoSeed} /\ job'.layout \in LayoutStates /\ job'.rev \in {0, job.rev}
      /\ job'.pc \notin {"snapshot", "shards", "retire"}
      /\ UNCHANGED <<head, worker, proof>>
  <2>1. /\ \/ Failed
           \/ job' = [job EXCEPT !.pc = IF job.layout = "active" THEN "stale" ELSE "seed"]
           \/ job' = job
        /\ job.pc = "migrate" /\ UNCHANGED <<head, worker, proof>>
    BY DEF Migrate, Step, sideVars
  <2>2. CASE Failed
    BY <2>1, <2>2, FailedJob DEF LayoutStates
  <2>3. CASE ~Failed
    BY <2>1, <2>3 DEF CutoverInv, JobShape, CutoverTypes
  <2> QED  BY <2>2, <2>3
<1>3. RevisionsKnown' /\ ScanIsNext'
  BY <1>2 DEF CutoverTypes, RevisionsKnown, ScanIsNext, CutoverInv, HubShape
<1>4. SeedCounts(job'.seed) /\ SeedCounts(proof'.seed)
  BY <1>2, NothingCounts DEF CutoverTypes
<1> QED  BY <1>1, <1>2, <1>3, <1>4 DEF CutoverTypes, SeedCounts, UpTo

LEMMA SeedShardTypes == ASSUME CutoverInv, CutoverTypes, NEW k \in Shards, SeedShard(k) PROVE CutoverTypes'
<1>1. catalog' \in [Shards -> [Sessions -> 0..MaxVersion]]
  <2>1. /\ catalog' \in [Shards -> [Sessions -> Nat]]
        /\ \A l \in Shards, s \in Sessions : catalog'[l][s] <= main[s]
    BY ShardTakes
  <2>2. \A s \in Sessions : main[s] \in 0..MaxVersion
    BY DEF CutoverTypes, VersionsBounded
  <2>3. \A l \in Shards, s \in Sessions : catalog'[l][s] \in 0..MaxVersion
    BY <2>1, <2>2, CutoverAssumption
  <2>4. \A l \in Shards : catalog'[l] \in [Sessions -> 0..MaxVersion]
    BY <2>1, <2>3
  <2> QED  BY <2>1, <2>4
<1>2. VersionsBounded'
  BY <1>1 DEF SeedShard, CutoverTypes, VersionsBounded
<1>3. /\ job'.seed \in {job.seed, NoSeed} /\ job'.layout \in LayoutStates /\ job'.rev \in {0, job.rev}
      /\ job'.pc \in {"snapshot", "shards", "retire"} => job'.seed = job.seed /\ job'.scan = job.scan /\ job'.page = job.page
      /\ job.pc = "shards" /\ UNCHANGED <<head, worker, proof>>
  <2>1. /\ \/ Failed
           \/ job' = [job EXCEPT !.shards = job.shards \ {k}, !.pc = IF job.shards = {k} THEN "retire" ELSE "shards"]
        /\ job.pc = "shards" /\ UNCHANGED <<head, worker, proof>>
    BY DEF SeedShard, sideVars
  <2>2. CASE Failed
    BY <2>1, <2>2, FailedJob DEF LayoutStates
  <2>3. CASE ~Failed
    BY <2>1, <2>3 DEF CutoverInv, JobShape, CutoverTypes
  <2> QED  BY <2>2, <2>3
<1>4. RevisionsKnown' /\ ScanIsNext'
  <2>1. RevisionsKnown'
    BY <1>3 DEF CutoverTypes, RevisionsKnown, CutoverInv, HubShape
  <2>2. ScanIsNext'
    BY <1>3 DEF CutoverTypes, ScanIsNext, PageOf, Beyond, Covered
  <2> QED  BY <2>1, <2>2
<1>5. SeedCounts(job'.seed) /\ SeedCounts(proof'.seed)
  BY <1>3, NothingCounts DEF CutoverTypes
<1> QED  BY <1>2, <1>3, <1>4, <1>5 DEF CutoverTypes, SeedCounts, UpTo

LEMMA ReconcileTypes == ASSUME CutoverInv, CutoverTypes, Reconcile PROVE CutoverTypes'
<1> DEFINE page == [s \in PageOf({o[1] : o \in outbox}) |-> main[s]]
<1>1. /\ catalog' = [k \in Shards |-> [s \in Sessions |-> IF s \in Covered(page) THEN page[s] ELSE catalog[k][s]]]
      /\ outbox' = {o \in outbox : ~Retirable(o, page)} /\ job.pc = "reconcile" /\ job' = [job EXCEPT !.pc = "verify"]
      /\ UNCHANGED <<head, worker, main, proof>>
  BY DEF Reconcile, Step, sideVars
<1>2. \A s \in Covered(page) : page[s] = main[s]
  BY DEF Covered
<1> HIDE DEF page
<1>3. VersionsBounded'
  BY <1>1, <1>2 DEF CutoverTypes, VersionsBounded
<1>4. job'.pc = "verify" /\ job'.seed = job.seed /\ job'.layout = job.layout /\ job'.rev = job.rev
  BY <1>1 DEF CutoverInv, JobShape
<1>5. RevisionsKnown' /\ ScanIsNext'
  BY <1>1, <1>4 DEF CutoverTypes, RevisionsKnown, ScanIsNext
<1> QED  BY <1>1, <1>3, <1>4, <1>5, VersionsWritten

LEMMA TypesStart == CutoverInit => CutoverTypes
<1> SUFFICES ASSUME CutoverInit PROVE CutoverTypes
  OBVIOUS
<1>1. RevisionsKnown /\ VersionsBounded /\ ScanIsNext
  BY CutoverAssumption DEF CutoverInit, IdleJob, RevisionsKnown, VersionsBounded, ScanIsNext
<1>2. proof.seed = NoSeed /\ job.seed = NoSeed /\ proof.copy \in CopyStates /\ job.layout \in LayoutStates
  BY DEF CutoverInit, IdleJob, CopyStates, LayoutStates
<1> QED  BY <1>1, <1>2, NothingCounts DEF CutoverTypes

LEMMA StillTypes == ASSUME CutoverTypes, UNCHANGED cutoverVars PROVE CutoverTypes'
BY DEF CutoverTypes, cutoverVars, RevisionsKnown, VersionsBounded, ScanIsNext, SeedCounts, UpTo, PageOf, Beyond, Covered

LEMMA JobTypes == ASSUME CutoverInv, CutoverTypes, JobStep PROVE CutoverTypes'
BY StartJobTypes, InitializeTypes, ClassifyTypes, PauseTypes, MaintainTypes, DrainTypes, CopyTypes, MigrateTypes, SeedTypes,
   UnreadyTypes, SeedCheckpointTypes, ScanTypes, SnapshotTypes, SeedShardTypes, SeedRetireTypes, SeedLastTypes, ReadyTypes,
   CertifyTypes, StaleTypes, ActivateTypes, ReconcileTypes, VerifyActiveTypes
DEF JobStep

(* Whatever step of the job dies and whatever goes on beside it, the        *)
(* checkpoints hold, the seed has counted every session behind its cursor,  *)
(* and over a complete seed a shard that lacks a version is owed it         *)
(* (index-control.mjs, seedFrozenCatalog).                                  *)
THEOREM CutoverStaysWhole == CutoverSpec => []CutoverIsWhole
<1>1. CutoverInv /\ CutoverTypes /\ [CutoverNext]_cutoverVars => CutoverTypes'
  BY PushTypes, BeginTypes, FinishTypes, ChangeTypes, PropagateTypes, JobTypes, FailsTypes, DiesTypes, StillTypes
  DEF CutoverNext
<1>2. CutoverInv /\ CutoverTypes => CutoverTypeOK
  BY DEF CutoverInv, CutoverTypes, HubShape, ProofShape, IsSeed, SeedStates, RevisionsKnown, VersionsBounded, SeedCounts, UpTo,
         CopyStates, LayoutStates, CutoverTypeOK
<1>3. CutoverTypeOK /\ Classifiable /\ CatalogIsWhole => CutoverIsWhole
  BY DEF CutoverIsWhole
<1> QED  BY <1>1, <1>2, <1>3, TypesStart, CutoverInvariant, CheckpointsHold, CatalogStaysWhole, PTL DEF CutoverSpec

(* The blocks, the schema and the seed move alone, and the hub is made      *)
(* active only over their proofs (assertDrained, activate).                 *)
THEOREM MovesStaySafe == CutoverSpec => MovesAreSafe
BY MovesStayAlone, ActivationsAreProven, PTL DEF MovesAreSafe
=============================================================================
