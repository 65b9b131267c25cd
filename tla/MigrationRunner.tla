-------------------------- MODULE MigrationRunner --------------------------
(***************************************************************************)
(* The migrations of a database: hub/scripts/lib/migration-runner.mjs and  *)
(* the journal of hub/scripts/lib/migration-journal.mjs that a runner      *)
(* resumes from, over manifests that grow on the main branch.              *)
(*                                                                         *)
(* Wrangler knows a migration by its name only; what its bytes were is in  *)
(* the checksum ledger, which is written afterwards from the manifest at   *)
(* hand.  In production a journal is lost with its job; at a developer's   *)
(* it stays, two runners may share it, and branches may be switched.       *)
(***************************************************************************)
EXTENDS Naturals, Sequences

CONSTANTS Manifests,   \* manifests: sequences of [name, sha]
          First,       \* the manifest the database starts with
          Runners,     \* invocations of the runner
          RunnerPlans  \* bound: target, crashes and commits of a behaviour

Migrations == UNION {{m[i] : i \in DOMAIN m} : m \in Manifests}

(* validateManifestShape: a filename occurs once.                           *)
ASSUME RunnerAssumption ==
  /\ Manifests \subseteq Seq(Migrations) /\ First \in Manifests
  /\ \A m \in Manifests : \A i, j \in DOMAIN m : m[i].name = m[j].name => i = j
  /\ RunnerPlans \subseteq [target : {"production", "local"}, crashes : Nat, runs : Nat]

VARIABLES branch,   \* the newest manifest on main
          history,  \* manifests that were on main
          installed, \* d1_migrations: the migrations Wrangler applied, with the bytes they had
          ledger,   \* migration_checksum_ledger: <<name, sha>>
          journal,  \* journal[m]: the journal of the deployment of manifest m
          runner,   \* runner[p]: an invocation
          rplan,    \* the behaviour's plan
          rused     \* crashes and invocations so far

runnerVars == <<branch, history, installed, ledger, journal, runner, rplan, rused>>

NoRecord == [phase |-> "none", by |-> "none"]

(* todo: places in the manifest, taken in their order; from: the step whose *)
(* end is written to the journal.                                           *)
IdleRunner == [pc |-> "idle", of |-> First, record |-> NoRecord, todo |-> {}, from |-> "none"]

Least(places) == CHOOSE i \in places : \A j \in places : i <= j

Names(m) == [i \in DOMAIN m |-> m[i].name]

Entries(m) == {<<m[i].name, m[i].sha>> : i \in DOMAIN m}

IsInitial(short, long) == Len(short) <= Len(long) /\ SubSeq(long, 1, Len(short)) = short

RunnerInit ==
  /\ rplan \in RunnerPlans
  /\ branch = First /\ history = {First}
  /\ installed = First /\ ledger = Entries(First)
  /\ journal = [m \in Manifests |-> NoRecord]
  /\ runner = [p \in Runners |-> IdleRunner]
  /\ rused = [crashes |-> 0, runs |-> 0]

(* Mutant: a commit may bring any manifest. *)
MayFollowAny(base, m) == m # base

(* assertImmutableBase, the check of every push against the commit before.  *)
MayFollow(base, m) == m # base /\ IsInitial(base, m)

Commit(m) ==
  /\ MayFollow(branch, m) /\ m \notin history
  /\ branch' = m /\ history' = history \cup {m}
  /\ UNCHANGED <<installed, ledger, journal, runner, rplan, rused>>

-----------------------------------------------------------------------------
To(p, pc) == runner' = [runner EXCEPT ![p].pc = pc]

(* A failed or killed runner; a job's journal goes with it.                 *)
Leave(p) ==
  /\ runner' = [runner EXCEPT ![p] = IdleRunner]
  /\ journal' = IF rplan.target = "production" THEN [m \in Manifests |-> NoRecord] ELSE journal

dbVars == <<branch, history, installed, ledger, rplan>>

(* Production runs one job at a time, of the newest commit; elsewhere an    *)
(* older checkout may be started again.                                     *)
Run(p) ==
  /\ runner[p].pc = "idle" /\ rused.runs < rplan.runs
  /\ rused' = [rused EXCEPT !.runs = @ + 1]
  /\ \E m \in history :
       /\ rplan.target = "production" => m = branch
       /\ \A q \in Runners \ {p} : runner[q].pc # "idle" =>
            rplan.target = "local" /\ runner[q].of = m
       /\ runner' = [runner EXCEPT ![p] = [IdleRunner EXCEPT !.pc = "open", !.of = m]]
  /\ UNCHANGED <<dbVars, journal>>

(* openMigrationJournal *)
Resume(phase) == CASE phase = "intended"          -> "guard"
                   [] phase = "wrangler-applied"  -> "record"
                   [] OTHER                       -> "verify"

Open(p) ==
  LET found == journal[runner[p].of]
  IN  /\ runner[p].pc = "open"
      /\ runner' = [runner EXCEPT ![p] = [@ EXCEPT !.record = found,
                      !.pc = IF found = NoRecord THEN "create" ELSE Resume(found.phase)]]
      /\ UNCHANGED <<dbVars, journal, rused>>

Create(p) ==
  LET record == [phase |-> "intended", by |-> p]
  IN  /\ runner[p].pc = "create"
      /\ journal' = [journal EXCEPT ![runner[p].of] = record]
      /\ runner' = [runner EXCEPT ![p] = [@ EXCEPT !.record = record, !.pc = "guard"]]
      /\ UNCHANGED <<dbVars, rused>>

IsInstalled(name) == \E i \in DOMAIN installed : installed[i].name = name

(* assertAppliedManifestPrefix, in production; Wrangler then lists what is  *)
(* pending by name.                                                         *)
Guard(p) ==
  /\ runner[p].pc = "guard"
  /\ IF rplan.target = "production" /\ ~IsInitial(Names(installed), Names(runner[p].of))
       THEN Leave(p)
       ELSE /\ runner' = [runner EXCEPT ![p] = [@ EXCEPT !.pc = "apply",
                 !.todo = {i \in DOMAIN runner[p].of : ~IsInstalled(runner[p].of[i].name)}]]
            /\ UNCHANGED journal
  /\ UNCHANGED <<dbVars, rused>>

(* One migration and its name, in one transaction; a second runner's fails. *)
Apply(p) ==
  /\ runner[p].pc = "apply"
  /\ IF runner[p].todo = {} THEN To(p, "applied") /\ UNCHANGED <<installed, journal>>
     ELSE LET i == Least(runner[p].todo)
              e == runner[p].of[i]
          IN  IF IsInstalled(e.name)
                THEN Leave(p) /\ UNCHANGED installed
                ELSE /\ installed' = Append(installed, e)
                     /\ runner' = [runner EXCEPT ![p].todo = @ \ {i}]
                     /\ UNCHANGED journal
  /\ UNCHANGED <<branch, history, ledger, rplan, rused>>

(* advanceMigrationJournal: the stored record has to be the one this runner *)
(* read or wrote; then the next one takes its place.                        *)
NextPhase(pc) == CASE pc = "applied"  -> "wrangler-applied"
                   [] pc = "recorded" -> "checksum-recorded"
                   [] pc = "verified" -> "committed"

AfterPhase(pc) == CASE pc = "applied"  -> "record"
                    [] pc = "recorded" -> "verify"
                    [] pc = "verified" -> "done"

Advances(p) ==
  /\ runner[p].pc \in {"applied", "recorded", "verified"}
  /\ IF journal[runner[p].of] # runner[p].record THEN Leave(p)
     ELSE /\ runner' = [runner EXCEPT ![p].from = runner[p].pc, ![p].pc = "write"]
          /\ UNCHANGED journal
  /\ UNCHANGED <<dbVars, rused>>

WriteRecord(p) ==
  LET record == [phase |-> NextPhase(runner[p].from), by |-> p]
  IN  /\ runner[p].pc = "write"
      /\ journal' = [journal EXCEPT ![runner[p].of] = record]
      /\ runner' = [runner EXCEPT ![p] = [@ EXCEPT !.record = record, !.from = "none", !.pc = AfterPhase(runner[p].from)]]
      /\ UNCHANGED <<dbVars, rused>>

(* assertAppliedManifest *)
IsApplied(m) == Names(installed) = Names(m)

IsLedger(m) == ledger = Entries(m)

(* recordLedger: INSERT OR IGNORE, one statement per migration.             *)
Record(p) ==
  /\ runner[p].pc = "record"
  /\ IF ~IsApplied(runner[p].of) THEN Leave(p)
     ELSE /\ runner' = [runner EXCEPT ![p] = [@ EXCEPT !.todo = DOMAIN runner[p].of, !.pc = "rows"]]
          /\ UNCHANGED journal
  /\ UNCHANGED <<dbVars, rused>>

RecordRow(p) ==
  /\ runner[p].pc = "rows" /\ runner[p].todo # {}
  /\ LET i == Least(runner[p].todo)
         e == runner[p].of[i]
     IN  /\ ledger' = IF \E row \in ledger : row[1] = e.name THEN ledger ELSE ledger \cup {<<e.name, e.sha>>}
         /\ runner' = [runner EXCEPT ![p].todo = @ \ {i}]
  /\ UNCHANGED <<branch, history, installed, journal, rplan, rused>>

RecordCheck(p) ==
  /\ runner[p].pc = "rows" /\ runner[p].todo = {}
  /\ IF IsLedger(runner[p].of) THEN To(p, "recorded") /\ UNCHANGED journal ELSE Leave(p)
  /\ UNCHANGED <<dbVars, rused>>

(* A committed journal is verified again and stays as it is.                *)
Verify(p) ==
  /\ runner[p].pc = "verify"
  /\ IF ~IsApplied(runner[p].of) \/ ~IsLedger(runner[p].of) THEN Leave(p)
     ELSE To(p, IF runner[p].record.phase = "committed" THEN "done" ELSE "verified") /\ UNCHANGED journal
  /\ UNCHANGED <<dbVars, rused>>

Done(p) ==
  /\ runner[p].pc = "done" /\ Leave(p)
  /\ UNCHANGED <<dbVars, rused>>

Killed(p) ==
  /\ runner[p].pc # "idle" /\ rused.crashes < rplan.crashes
  /\ rused' = [rused EXCEPT !.crashes = @ + 1]
  /\ Leave(p)
  /\ UNCHANGED dbVars

RunnerNext ==
  \/ \E m \in Manifests : Commit(m)
  \/ \E p \in Runners :
       \/ Run(p) \/ Open(p) \/ Create(p) \/ Guard(p) \/ Apply(p) \/ Advances(p) \/ WriteRecord(p)
       \/ Record(p) \/ RecordRow(p) \/ RecordCheck(p) \/ Verify(p) \/ Done(p) \/ Killed(p)

RunnerSpec == RunnerInit /\ [][RunnerNext]_runnerVars

-----------------------------------------------------------------------------
Phases == {"none", "intended", "wrangler-applied", "checksum-recorded", "committed"}

RunnerTypeOK ==
  /\ branch \in history /\ history \subseteq Manifests
  /\ \A m \in Manifests : journal[m].phase \in Phases
  /\ \A p \in Runners : runner[p].of \in Manifests /\ runner[p].record.phase \in Phases

(* The ledger never claims other bytes for a migration than were applied,    *)
(* wherever a runner died and whatever it resumed from.                     *)
LedgerIsHonest ==
  \A row \in ledger : \E i \in DOMAIN installed : installed[i].name = row[1] /\ installed[i].sha = row[2]

(* A runner reports success only of a database that has its manifest's      *)
(* migrations, all of them and no others, each of them in the ledger.       *)
DoneIsInstalled ==
  \A p \in Runners : runner[p].pc = "done" => installed = runner[p].of /\ IsLedger(runner[p].of)

(* A ledger or a finished run never claims a migration that the database    *)
(* does not have (migrate.mjs).                                             *)
LedgersAreHonest == RunnerTypeOK /\ LedgerIsHonest /\ DoneIsInstalled
=============================================================================
