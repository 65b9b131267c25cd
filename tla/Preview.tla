------------------------------ MODULE Preview ------------------------------
(* The preview of a pull request: one Worker, its catalog and two index     *)
(* shards, a bucket and a queue on an account of their own, provisioned in  *)
(* place by CI, removed when the request is closed, and swept by a daily    *)
(* janitor (infra/cf/preview-control.mjs, preview-trust.mjs).               *)
EXTENDS Naturals, Sequences, SequencesExt, FiniteSets, FiniteSetsExt

CONSTANTS Uploads,       \* files of the preview, one of them the fixture of CI
          Fixture,
          IndexBases,    \* bindings of its index databases
          HomeShard,     \* the shard that indexes a file
          DatabaseLimit, \* databases the account may hold
          PreviewPlans   \* what happens: [heads, events, debris, legacy, sweeps, faults]

VARIABLES pull,   \* the request: [open, head, testing, next]
          bases,  \* its databases: [id, sums, ledger, layout, rows] per binding
          bucket, \* its R2 bucket: [on, keys]; cut, a history: the catalog whose
                  \* objects were going when a job died
          hosted, \* its Worker: the head it was built from, the ids it binds
          edge,   \* the head its address answers from
          line,   \* its queue: [id, attached]
          others, \* scratch databases, and debris of retired previews
          card,   \* its deployment card on GitHub
          ci,     \* the job that holds the request's concurrency group
          queued, \* the job that waits for it
          red,    \* the last job failed
          sweep,  \* the janitor
          births, \* ids given out
          pvplan,
          struck  \* faults that have happened

account == <<bases, bucket, hosted, edge, line, others, births>>
workflow == <<pull, card, ci, queued, red, sweep, pvplan, struck>>
previewVars == <<account, workflow>>

Bindings == {"DB"} \cup IndexBases
BindingOrder == <<"DB">> \o SetToSeq(IndexBases)

(* The checksums of the migrations that a head has for a database.          *)
ManifestOf(h, b) == IF b = "DB" THEN pvplan.heads[h].main ELSE pvplan.heads[h].index

NoIds == [b \in Bindings |-> 0]
NoBase == [id |-> 0, sums |-> <<>>, ledger |-> <<>>, layout |-> FALSE, rows |-> {}]
NoWorker == [head |-> 0, ids |-> NoIds]
NoLine == [id |-> 0, attached |-> FALSE]

(* A job or a sweep, with the items it has still to delete.                 *)
NoWork == [kind |-> "none", at |-> "rest", head |-> 0, ids |-> NoIds, n |-> 1,
           left |-> {}, failed |-> {}, size |-> 0]
NoSweep == [at |-> "rest", owned |-> {}, closed |-> {}, left |-> {}, failed |-> {}, size |-> 0]

JobOf(kind, h) == [NoWork EXCEPT !.kind = kind, !.head = h, !.at = IF kind = "preview" THEN "list" ELSE "unhook"]

Befalls(fault) == fault \in pvplan.faults \ struck /\ struck' = struck \cup {fault}

-----------------------------------------------------------------------------
(* The account. The request has number 1; 2 was closed long ago.            *)

Item(pr, what, id) == [pr |-> pr, what |-> what, id |-> id]

Scripts ==
  {o \in others : o.what \in {"old-app", "old-edge"}} \cup {i \in {Item(1, "app", 0)} : hosted.head # 0}

Databases ==
  {o \in others : o.what \in {"probe", "old-base"}} \cup {Item(1, b, bases[b].id) : b \in {c \in Bindings : bases[c].id # 0}}

Stores ==
  Databases \cup {i \in {Item(1, "bucket", 0)} : bucket.on} \cup {i \in {Item(1, "queue", line.id)} : line.id # 0}

(* What the retired scheme of one generation per head has left behind.      *)
IsDebris(item) == item.what \in {"old-app", "old-edge", "old-base"}

CleanupOrder(item) ==
  CASE item.what \in {"app", "old-app", "old-edge"} -> 0
    [] item.what = "queue" -> 1
    [] item.what = "bucket" -> 3
    [] OTHER -> 4

(* A bucket is emptied before it is deleted.                                *)
Emptying(item) == item.what = "bucket" /\ bucket.keys # {}

(* One request of the deletion of an item. What is not found is gone; a     *)
(* database and a queue are addressed by the ids they were listed with.     *)
DeleteApp == hosted' = NoWorker /\ edge' = 0 /\ UNCHANGED <<bases, bucket, line, others>>

DeleteQueue(item) ==
  /\ line' = IF line.id = item.id THEN NoLine ELSE line
  /\ UNCHANGED <<bases, bucket, hosted, edge, others>>

DeleteBucket ==
  /\ IF bucket.keys = {} THEN bucket' = [bucket EXCEPT !.on = FALSE]
                         ELSE \E k \in bucket.keys : bucket' = [bucket EXCEPT !.keys = @ \ {k}]
  /\ UNCHANGED <<bases, hosted, edge, line, others>>

DeleteBase(b, id) ==
  /\ bases' = IF bases[b].id = id THEN [bases EXCEPT ![b] = NoBase] ELSE bases
  /\ UNCHANGED <<bucket, hosted, edge, line, others>>

DeleteOne(item) ==
  /\ UNCHANGED births
  /\ CASE item.what = "app" -> DeleteApp
       [] item.what = "queue" -> DeleteQueue(item)
       [] item.what = "bucket" -> DeleteBucket
       [] item.what \in Bindings -> DeleteBase(item.what, item.id)
       [] OTHER -> others' = others \ {item} /\ UNCHANGED <<bases, bucket, hosted, edge, line>>

(* Cloudflare refuses to delete a Worker that another one binds.            *)
Refused(item) == item.what = "old-app" /\ Item(item.pr, "old-edge", item.id) \in others

(* Passes over the items: what a pass could not delete is tried again by    *)
(* the next, as long as a pass gets on (deleteInDependencyPasses).          *)
Deleting(work, items) == [work EXCEPT !.left = items, !.failed = {}, !.size = Cardinality(items)]
Foremost(work) ==
  CHOOSE i \in work.left : \A j \in work.left : 10 * i.pr + CleanupOrder(i) <= 10 * j.pr + CleanupOrder(j)
Skip(work) == [work EXCEPT !.left = @ \ {Foremost(work)}, !.failed = @ \cup {Foremost(work)}]
Advance(work) == IF Emptying(Foremost(work)) THEN work ELSE [work EXCEPT !.left = @ \ {Foremost(work)}]
Cleared(work) == work.left = {} /\ work.failed = {}
Blocked(work) == work.left = {} /\ work.failed # {} /\ Cardinality(work.failed) = work.size
GetsOn(work) == work.left = {} /\ work.failed # {} /\ Cardinality(work.failed) < work.size

-----------------------------------------------------------------------------
(* The request: pushes, whose preview waits for the tests of the head, its  *)
(* closing and reopening, and a dispatched close, the reset of a preview.   *)

HasEvent(kind) == pull.next <= Len(pvplan.events) /\ pvplan.events[pull.next] = kind

PushHead ==
  /\ HasEvent("push")
  /\ pull' = [pull EXCEPT !.head = @ + 1, !.testing = @ \cup {pull.head + 1}, !.next = @ + 1]
  /\ UNCHANGED <<account, card, ci, queued, red, sweep, pvplan, struck>>

(* A job that is queued displaces the one that waited.                      *)
ClosePull ==
  /\ HasEvent("close")
  /\ pull' = [pull EXCEPT !.open = FALSE, !.next = @ + 1]
  /\ queued' = JobOf("close", 0)
  /\ UNCHANGED <<account, card, ci, red, sweep, pvplan, struck>>

Dispatch ==
  /\ HasEvent("dispatch")
  /\ pull' = [pull EXCEPT !.next = @ + 1]
  /\ queued' = JobOf("close", 0)
  /\ UNCHANGED <<account, card, ci, red, sweep, pvplan, struck>>

Reopen ==
  /\ HasEvent("reopen")
  /\ pull' = [pull EXCEPT !.open = TRUE, !.testing = @ \cup {pull.head}, !.next = @ + 1]
  /\ UNCHANGED <<account, card, ci, queued, red, sweep, pvplan, struck>>

Tested(h) ==
  /\ h \in pull.testing
  /\ pull' = [pull EXCEPT !.testing = @ \ {h}]
  /\ queued' = JobOf("preview", h)
  /\ UNCHANGED <<account, card, ci, red, sweep, pvplan, struck>>

(* Somebody reruns a failed preview, or the one that a reset took away.     *)
Rerun ==
  /\ pull.open /\ pull.testing = {} /\ queued.kind = "none" /\ ci.kind = "none" /\ pull.next > Len(pvplan.events)
  /\ red \/ hosted.head = 0
  /\ queued' = JobOf("preview", pull.head)
  /\ UNCHANGED <<account, pull, card, ci, red, sweep, pvplan, struck>>

StartCi ==
  /\ ci.kind = "none" /\ queued.kind # "none"
  /\ ci' = queued /\ queued' = NoWork
  /\ UNCHANGED <<account, pull, card, red, sweep, pvplan, struck>>

-----------------------------------------------------------------------------
(* The preview job.                                                         *)

AtStep(at) == ci.at = at /\ UNCHANGED <<pull, queued, sweep, pvplan>>
Proceed(at) == ci' = [ci EXCEPT !.at = at, !.n = 1] /\ UNCHANGED <<card, red, struck>>
Repeat == ci' = [ci EXCEPT !.n = @ + 1] /\ UNCHANGED <<card, red, struck>>
GiveUpCi == ci' = NoWork /\ red' = TRUE /\ UNCHANGED card

(* The runner is lost, a request it makes is refused, or a step runs into   *)
(* its deadline.                                                            *)
DieCi ==
  /\ ci.kind # "none" /\ Befalls("die") /\ GiveUpCi
  /\ bucket' = [bucket EXCEPT !.cut = IF bases["DB"].rows \subseteq bucket.keys THEN @ ELSE bases["DB"].id]
  /\ UNCHANGED <<bases, hosted, edge, line, others, births, pull, queued, sweep, pvplan>>

Here == BindingOrder[ci.n]
HereManifest == ManifestOf(ci.head, Here)
AtLast == ci.n = Len(BindingOrder)

(* The databases that exist; nothing is created beyond the account's limit. *)
Missing == {b \in Bindings : bases[b].id = 0}

ListBases ==
  /\ AtStep("list")
  /\ IF Cardinality(Databases) + Cardinality(Missing) > DatabaseLimit
     THEN GiveUpCi /\ UNCHANGED struck
     ELSE /\ ci' = [ci EXCEPT !.at = "inspect", !.ids = [b \in Bindings |-> bases[b].id]]
          /\ UNCHANGED <<card, red, struck>>
  /\ UNCHANGED account

Recorded == ci.ids["DB"] # 0 /\ bases["DB"].layout

(* A Worker from before the shards binds the catalog alone.                 *)
LegacyWorker == hosted.head # 0 /\ \A b \in Bindings \ {"DB"} : hosted.ids[b] = 0

(* The Worker binds the databases of the plan; only a recorded layout lets  *)
(* a database be missing, as all are reset then.                            *)
BindsPlan ==
  \/ hosted.head = 0
  \/ \A b \in IF LegacyWorker THEN {"DB"} ELSE Bindings :
       \/ ci.ids[b] # 0 /\ hosted.ids[b] = ci.ids[b]
       \/ ci.ids[b] = 0 /\ Recorded /\ \A c \in Bindings : bases[c].id # hosted.ids[b]

(* Every applied migration needs the checksum of the artifact recorded.     *)
Diverged(b) ==
  /\ ci.ids[b] # 0
  /\ LET base == bases[b] IN
       ~ \A n \in DOMAIN base.sums :
           n <= Len(base.ledger) /\ n <= Len(ManifestOf(ci.head, b)) /\ base.ledger[n] = ManifestOf(ci.head, b)[n]

Incomplete ==
  IF Recorded THEN \E b \in Bindings : ci.ids[b] = 0
               ELSE \E b \in Bindings : ci.ids[b] # 0 /\ bases[b].sums # <<>>

Inspect ==
  /\ AtStep("inspect")
  /\ IF \/ \E b \in Bindings : ci.ids[b] # 0 /\ bases[b].id # ci.ids[b]
        \/ ~BindsPlan
        \/ Recorded /\ LegacyWorker
     THEN GiveUpCi /\ UNCHANGED struck
     ELSE Proceed(IF Incomplete \/ \E b \in Bindings : Diverged(b) THEN "unhook" ELSE "create")
  /\ UNCHANGED account

(* A reset: consumers, Worker, objects and then the databases.              *)
Unhook ==
  /\ AtStep("unhook") /\ Proceed(IF ci.kind = "preview" THEN "retire" ELSE "remove")
  /\ line' = [line EXCEPT !.attached = FALSE]
  /\ UNCHANGED <<bases, bucket, hosted, edge, others, births>>

(* Mutant: the objects are left to the new catalog.                         *)
RetireKeeping ==
  /\ AtStep("retire") /\ Proceed("drop")
  /\ DeleteApp /\ UNCHANGED births

Retire ==
  /\ AtStep("retire") /\ Proceed("empty")
  /\ DeleteApp /\ UNCHANGED births

EmptyBucket ==
  /\ AtStep("empty")
  /\ IF bucket.keys = {} THEN Proceed("drop") /\ UNCHANGED bucket
     ELSE /\ UNCHANGED <<ci, card, red, struck>>
          /\ \E k \in bucket.keys : bucket' = [bucket EXCEPT !.keys = @ \ {k}]
  /\ UNCHANGED <<bases, hosted, edge, line, others, births>>

Drop ==
  /\ AtStep("drop")
  /\ DeleteBase(Here, ci.ids[Here]) /\ UNCHANGED births
  /\ ci' = [ci EXCEPT !.ids[Here] = 0, !.n = IF AtLast THEN 1 ELSE ci.n + 1, !.at = IF AtLast THEN "create" ELSE "drop"]
  /\ UNCHANGED <<card, red, struck>>

(* A database that is missing is looked for by its name once more.          *)
CreateBase ==
  /\ AtStep("create")
  /\ LET id == CASE ci.ids[Here] # 0 -> ci.ids[Here]
                 [] bases[Here].id # 0 -> bases[Here].id
                 [] OTHER -> births + 1
     IN /\ IF id = births + 1 THEN bases' = [bases EXCEPT ![Here] = [NoBase EXCEPT !.id = id]] /\ births' = id
                              ELSE UNCHANGED <<bases, births>>
        /\ ci' = [ci EXCEPT !.ids[Here] = id, !.n = IF AtLast THEN 1 ELSE ci.n + 1, !.at = IF AtLast THEN "back" ELSE "create"]
  /\ UNCHANGED <<bucket, hosted, edge, line, others, card, red, struck>>

EnsureRest ==
  /\ AtStep("back") /\ Proceed("migrate")
  /\ bucket' = [bucket EXCEPT !.on = TRUE]
  /\ IF line.id # 0 THEN UNCHANGED <<line, births>>
                    ELSE line' = [id |-> births + 1, attached |-> FALSE] /\ births' = births + 1
  /\ UNCHANGED <<bases, hosted, edge, others>>

(* The runner applies what is pending, one migration after another; then    *)
(* the checksums of all of them are recorded.                               *)
Lost == bases[Here].id # ci.ids[Here]

RecordLedger == bases' = [bases EXCEPT ![Here].ledger = HereManifest]

MigrateBase ==
  /\ AtStep("migrate")
  /\ CASE Lost -> GiveUpCi /\ UNCHANGED <<bases, struck>>
       [] ~Lost /\ Len(bases[Here].sums) < Len(HereManifest) ->
            /\ bases' = [bases EXCEPT ![Here].sums = Append(@, HereManifest[Len(@) + 1])]
            /\ UNCHANGED <<ci, card, red, struck>>
       [] OTHER ->
            /\ RecordLedger
            /\ IF AtLast THEN Proceed("layout") ELSE Repeat
  /\ UNCHANGED <<bucket, hosted, edge, line, others, births>>

RecordLayout ==
  /\ AtStep("layout")
  /\ IF bases["DB"].id # ci.ids["DB"] THEN GiveUpCi /\ UNCHANGED <<bases, struck>>
     ELSE Proceed("deploy") /\ bases' = [bases EXCEPT !["DB"].layout = TRUE]
  /\ UNCHANGED <<bucket, hosted, edge, line, others, births>>

(* The upload is refused when a resource it binds is gone.                  *)
Deploy ==
  /\ AtStep("deploy")
  /\ IF (\E b \in Bindings : bases[b].id # ci.ids[b]) \/ ~bucket.on \/ line.id = 0
     THEN GiveUpCi /\ UNCHANGED <<hosted, line, struck>>
     ELSE /\ hosted' = [head |-> ci.head, ids |-> ci.ids]
          /\ line' = [line EXCEPT !.attached = TRUE]
          /\ Proceed("route")
  /\ UNCHANGED <<bases, bucket, edge, others, births>>

(* Its address answers from the new head after a while.                     *)
Spread ==
  /\ hosted.head # 0 /\ edge # hosted.head
  /\ edge' = hosted.head
  /\ UNCHANGED <<bases, bucket, hosted, line, others, births, workflow>>

(* What is waited for comes before the deadline, or the job fails.          *)
Awaits(at, condition, next) ==
  /\ AtStep(at)
  /\ \/ condition /\ Proceed(next)
     \/ ~condition /\ Befalls("settle") /\ GiveUpCi
     \/ hosted.head = 0 /\ GiveUpCi /\ UNCHANGED struck

Routable == Awaits("route", edge # 0, "proof") /\ UNCHANGED account

(* The proof of the native copy, on scratch databases whose names no other  *)
(* run draws.                                                               *)
Probes == Cardinality(IndexBases) + 1

(* Mutant: the proof is not asked whether the account has room for it.      *)
ProofPreflightUnasked == AtStep("proof") /\ Proceed("probe") /\ UNCHANGED account

ProofPreflight ==
  /\ AtStep("proof") /\ UNCHANGED account
  /\ IF Cardinality(Databases) + Probes > DatabaseLimit
     THEN GiveUpCi /\ UNCHANGED struck ELSE Proceed("probe")

ProofCreate ==
  /\ AtStep("probe") /\ UNCHANGED <<card, red, struck>>
  /\ births' = births + 1 /\ others' = others \cup {Item(1, "probe", births')}
  /\ ci' = [ci EXCEPT !.left = @ \cup {Item(1, "probe", births')}, !.at = IF Cardinality(ci.left) + 1 = Probes THEN "clean" ELSE "probe"]
  /\ UNCHANGED <<bases, bucket, hosted, edge, line>>

(* The databases go whether the proof succeeds or not.                      *)
ProofClean ==
  /\ AtStep("clean")
  /\ \/ /\ ci.left # {} /\ ci' = Advance(ci) /\ others' = others \ {Foremost(ci)}
        /\ UNCHANGED <<bases, bucket, hosted, edge, line, births, card, red, struck>>
     \/ ci.left = {} /\ Proceed("smoke") /\ UNCHANGED account
     \/ ci.left = {} /\ Befalls("proof") /\ GiveUpCi /\ UNCHANGED account

Smoke == Awaits("smoke", edge = ci.head, "seed") /\ UNCHANGED account

(* The Worker answers, and what it binds is there.                          *)
Serves == edge # 0 /\ bucket.on /\ \A b \in Bindings : hosted.ids[b] # 0 /\ bases[b].id = hosted.ids[b]

Upload(k) ==
  /\ Serves
  /\ bucket' = [bucket EXCEPT !.keys = @ \cup {k}]
  /\ bases' = [bases EXCEPT !["DB"].rows = @ \cup {k}]
  /\ UNCHANGED <<hosted, edge, line, others, births>>

UploadByHand == \E k \in Uploads \ {Fixture} : k \notin bases["DB"].rows /\ Upload(k) /\ UNCHANGED workflow

IndexUpload(k) ==
  /\ Serves /\ line.attached /\ k \in bases["DB"].rows \ bases[HomeShard[k]].rows
  /\ bases' = [bases EXCEPT ![HomeShard[k]].rows = @ \cup {k}]
  /\ UNCHANGED <<bucket, hosted, edge, line, others, births, workflow>>

SeedFixture ==
  /\ AtStep("seed")
  /\ IF Serves THEN Upload(Fixture) /\ Proceed("indexed")
               ELSE GiveUpCi /\ UNCHANGED <<account, struck>>

SeedIndexed == Awaits("indexed", Fixture \in bases[HomeShard[Fixture]].rows, "green") /\ UNCHANGED account

(* GitHub closes the deployment card with the conclusion of the job.        *)
Green ==
  /\ AtStep("green")
  /\ ci' = NoWork /\ red' = FALSE /\ card' = "live"
  /\ UNCHANGED <<account, struck>>

-----------------------------------------------------------------------------
(* The close job: the resources by name, one after the other, then debris   *)
(* of the request, then its card.                                           *)
ClosePlan == <<"app", "queue", "bucket">> \o BindingOrder

ByName(what) ==
  Item(1, what, CASE what = "queue" -> line.id [] what \in Bindings -> bases[what].id [] OTHER -> 0)

RemoveByName ==
  /\ AtStep("remove")
  /\ LET item == ByName(ClosePlan[ci.n]) IN
       /\ DeleteOne(item)
       /\ CASE Emptying(item) -> UNCHANGED <<ci, card, red, struck>>
            [] ~Emptying(item) /\ ci.n < Len(ClosePlan) -> Repeat
            [] OTHER -> /\ ci' = [Deleting(ci, {o \in others : o.pr = 1}) EXCEPT !.at = "debris"]
                        /\ UNCHANGED <<card, red, struck>>

RemoveDebris ==
  /\ AtStep("debris")
  /\ \/ Cleared(ci) /\ Proceed("card") /\ UNCHANGED account
     \/ Blocked(ci) /\ GiveUpCi /\ UNCHANGED <<account, struck>>
     \/ GetsOn(ci) /\ ci' = Deleting(ci, ci.failed) /\ UNCHANGED <<account, card, red, struck>>
     \/ /\ ci.left # {} /\ UNCHANGED <<card, red, struck>>
        /\ IF Refused(Foremost(ci)) THEN ci' = Skip(ci) /\ UNCHANGED account
                                     ELSE ci' = Advance(ci) /\ DeleteOne(Foremost(ci))

RetireCard ==
  /\ AtStep("card")
  /\ ci' = NoWork /\ card' = (IF card = "live" THEN "inactive" ELSE card)
  /\ UNCHANGED <<account, red, struck>>

-----------------------------------------------------------------------------
(* The janitor: it lists what the names on the account say is owned, asks   *)
(* GitHub which requests are closed, and deletes what they own.             *)
InSweep(at) == sweep.at = at /\ UNCHANGED <<pull, ci, queued, red, pvplan>>
EndSweep == sweep' = NoSweep

DieSweep ==
  /\ sweep.at # "rest" /\ Befalls("sweep") /\ EndSweep
  /\ UNCHANGED <<account, pull, ci, queued, red, card, pvplan>>

StartSweep ==
  /\ InSweep("rest") /\ (pvplan.sweeps = "any" \/ (pvplan.sweeps = "closed" /\ ~pull.open)) /\ Scripts \cup Stores # {}
  /\ sweep' = [sweep EXCEPT !.at = "list", !.owned = Scripts]
  /\ UNCHANGED <<account, card, struck>>

ListStores ==
  /\ InSweep("list")
  /\ sweep' = [sweep EXCEPT !.at = "ask", !.owned = @ \cup Stores]
  /\ UNCHANGED <<account, card, struck>>

(* A request whose state cannot be read keeps what it has.                  *)
Deletable(item, closed, unresolved) == item.pr \in closed \/ (IsDebris(item) /\ item.pr \notin unresolved)

AskGitHub ==
  /\ InSweep("ask")
  /\ \E unresolved \in {{}, {1}} :
       /\ IF unresolved = {} THEN UNCHANGED struck ELSE Befalls("github")
       /\ LET owners == {i.pr : i \in sweep.owned}
              closed == (owners \ unresolved) \ (IF pull.open THEN {1} ELSE {})
              items == {i \in sweep.owned : Deletable(i, closed, unresolved)}
          IN  sweep' = [Deleting(sweep, items) EXCEPT !.at = "delete", !.owned = {}, !.closed = closed]
  /\ UNCHANGED <<account, card>>

SweepItem ==
  /\ InSweep("delete") /\ sweep.left # {} /\ UNCHANGED card
  /\ \/ /\ \/ Refused(Foremost(sweep)) /\ UNCHANGED struck
           \/ ~Refused(Foremost(sweep)) /\ Befalls("api")
        /\ sweep' = Skip(sweep) /\ UNCHANGED account
     \/ /\ ~Refused(Foremost(sweep)) /\ UNCHANGED struck
        /\ sweep' = Advance(sweep) /\ DeleteOne(Foremost(sweep))

(* The cards of the closed requests are retired when the sweep succeeded.   *)
SweepPass ==
  /\ InSweep("delete") /\ sweep.left = {} /\ UNCHANGED <<account, card, struck>>
  /\ \/ Cleared(sweep) /\ sweep' = [sweep EXCEPT !.at = "cards"]
     \/ Blocked(sweep) /\ EndSweep
     \/ GetsOn(sweep) /\ sweep' = Deleting(sweep, sweep.failed)

SweepCards ==
  /\ InSweep("cards")
  /\ card' = IF 1 \in sweep.closed /\ card = "live" THEN "inactive" ELSE card
  /\ EndSweep /\ UNCHANGED <<account, struck>>

-----------------------------------------------------------------------------
PreviewInit ==
  /\ pvplan \in PreviewPlans
  /\ pull = [open |-> TRUE, head |-> IF pvplan.legacy THEN 2 ELSE 1, testing |-> {IF pvplan.legacy THEN 2 ELSE 1}, next |-> 1]
  /\ others = pvplan.debris
  /\ IF pvplan.legacy
     THEN LET sums == ManifestOf(1, "DB")
              key == CHOOSE k \in Uploads : k # Fixture
          IN /\ bases = [b \in Bindings |->
                           IF b = "DB" THEN [id |-> 1, sums |-> sums, ledger |-> sums, layout |-> FALSE, rows |-> {key}]
                                       ELSE NoBase]
             /\ bucket = [on |-> TRUE, keys |-> {key}, cut |-> 0]
             /\ hosted = [head |-> 1, ids |-> [NoIds EXCEPT !["DB"] = 1]]
             /\ edge = 1 /\ line = [id |-> 2, attached |-> TRUE] /\ births = 2 /\ card = "live"
     ELSE /\ bases = [b \in Bindings |-> NoBase] /\ bucket = [on |-> FALSE, keys |-> {}, cut |-> 0]
          /\ hosted = NoWorker /\ edge = 0 /\ line = NoLine /\ births = 0 /\ card = "none"
  /\ ci = NoWork /\ queued = NoWork /\ red = FALSE /\ sweep = NoSweep /\ struck = {}

Events == PushHead \/ ClosePull \/ Dispatch \/ Reopen

CiStep ==
  \/ StartCi \/ ListBases \/ Inspect \/ Unhook \/ Retire \/ EmptyBucket \/ Drop \/ CreateBase \/ EnsureRest
  \/ MigrateBase \/ RecordLayout \/ Deploy \/ Routable \/ ProofPreflight \/ ProofCreate \/ ProofClean
  \/ Smoke \/ SeedFixture \/ SeedIndexed \/ Green \/ RemoveByName \/ RemoveDebris \/ RetireCard

SweepStep == StartSweep \/ ListStores \/ AskGitHub \/ SweepItem \/ SweepPass \/ SweepCards

EdgeStep == Spread \/ \E k \in Uploads : IndexUpload(k)

PreviewNext ==
  \/ Events \/ Rerun \/ (\E h \in pull.testing : Tested(h))
  \/ CiStep \/ DieCi \/ SweepStep \/ DieSweep \/ EdgeStep \/ UploadByHand

(* GitHub runs what is queued, the janitor comes every day, failed previews *)
(* are rerun, and Cloudflare delivers what was deployed and uploaded.       *)
PreviewFairness ==
  /\ WF_previewVars(CiStep) /\ WF_previewVars(SweepStep) /\ WF_previewVars(EdgeStep)
  /\ WF_previewVars(Rerun) /\ WF_previewVars(\E h \in pull.testing : Tested(h))

PreviewSpec == PreviewInit /\ [][PreviewNext]_previewVars /\ PreviewFairness

-----------------------------------------------------------------------------
(* Types; the account never holds more databases than it may, so that no    *)
(* proof takes the place of a preview (withScratchD1Databases).             *)
PreviewTypeOK ==
  /\ \A b \in Bindings : bases[b].id \in 0..births /\ bases[b].rows \subseteq Uploads /\ bases[b].layout \in BOOLEAN
  /\ bucket.keys \subseteq Uploads /\ (bucket.keys # {} => bucket.on)
  /\ hosted.head \in 0..Len(pvplan.heads) /\ edge \in 0..Len(pvplan.heads) /\ (hosted.head = 0 => edge = 0)
  /\ line.id \in 0..births /\ card \in {"none", "live", "inactive"} /\ red \in BOOLEAN
  /\ ci.kind \in {"none", "preview", "close"} /\ (ci.kind = "none" <=> ci.at = "rest")
  /\ Cardinality(Databases) <= DatabaseLimit

(* A preview that answers has the whole schema of its head, its shards hold *)
(* nothing the catalog does not know, no object lies in its bucket that no  *)
(* row names, and, while its request is open, no row names an object that   *)
(* is gone (provision).  The last is not so of the catalog whose objects    *)
(* were being deleted, by a reset or a removal, when the job died: a head   *)
(* that continues its migrations takes it for a preview.                    *)
PreviewIsWhole ==
  Serves =>
    /\ \A b \in Bindings : IsPrefix(ManifestOf(hosted.head, b), bases[b].sums)
    /\ \A b \in Bindings \ {"DB"} : bases[b].rows \subseteq bases["DB"].rows
    /\ bucket.keys \subseteq bases["DB"].rows
    /\ pull.open /\ bases["DB"].id # bucket.cut => bases["DB"].rows \subseteq bucket.keys

(* The heads of the plan only add migrations, and nothing takes the preview *)
(* away on purpose.                                                         *)
Continuing ==
  /\ \A n \in 1..Len(pvplan.events) : pvplan.events[n] = "push"
  /\ \A g, h \in 1..Len(pvplan.heads), b \in Bindings : g <= h => IsPrefix(ManifestOf(g, b), ManifestOf(h, b))
  /\ ~pvplan.legacy

(* The job previews a head that a later one has overtaken: its artifact     *)
(* does not know what is applied.                                           *)
Overtaken ==
  ci.kind = "preview" /\ \E b \in Bindings : Len(ManifestOf(ci.head, b)) < Len(bases[b].sums)

(* The job resets as one before it died between the migrations of a         *)
(* database and the record of their checksums (recordMigrationLedger).      *)
Unrecorded == ci.at \in {"empty", "drop"} /\ \E b \in Bindings : bases[b].ledger # bases[b].sums

(* What was uploaded to a preview by hand outlives every push that only     *)
(* adds migrations (the in-place deploy of provision), every job that dies  *)
(* or fails and the reruns of it, and every janitor, whatever GitHub does   *)
(* not answer: but for a head that is previewed after a later one, and for  *)
(* a death with migrations applied that are not in the ledger, both of      *)
(* which make the next job reset (migrationDivergence).                     *)
UploadsSurvive ==
  [][Continuing /\ ~Overtaken /\ ~Unrecorded =>
       bases["DB"].rows \subseteq bases'["DB"].rows /\ bucket.keys \subseteq bucket'.keys]_previewVars

(* A preview that answers is whole, and no push takes away what was         *)
(* uploaded to it by hand, but for the cases that PreviewIsWhole and        *)
(* UploadsSurvive name (preview-control.mjs).                               *)
PreviewIsHonest == [](PreviewTypeOK /\ PreviewIsWhole) /\ UploadsSurvive

Ended == pull.next > Len(pvplan.events)

Gone == Scripts \cup Stores = {}

Served == Serves /\ ~red /\ card = "live"

(* Whatever a closed request left is removed in the end, by its close job   *)
(* or, where that was displaced or died, by the janitor; an open one gets   *)
(* its preview: no interruption leaves a state that provision neither       *)
(* continues nor resets.                                                    *)
PreviewSettled == Ended => IF pull.open THEN Served ELSE Gone
=============================================================================
