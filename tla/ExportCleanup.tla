--------------------------- MODULE ExportCleanup ---------------------------
(***************************************************************************)
(* Export archives of one store: an archive holds many conversations, its  *)
(* parse writes them in slices and then deletes the sessions it owned and  *)
(* no longer contains.  Another archive may still contain those, so the    *)
(* cleanup first reserves its siblings, deletes, and at last has them      *)
(* parsed again.  hub/src/ingest/consumer.ts, runExportParse and its       *)
(* helpers; hub/src/queue.ts; the reservation branches of                  *)
(* hub/src/api/upload.ts.                                                  *)
(*                                                                         *)
(* One delivery runs at a time (max_concurrency 1); uploads, files/check   *)
(* and the hour after which a reservation is stale come between any two of *)
(* its requests.  The object of an archive is that of its row (Ingest has  *)
(* the difference), and the write of one session is IndexWrite.            *)
(***************************************************************************)
EXTENDS Naturals, Sequences, FiniteSets, SequencesExt

CONSTANTS Archives,     \* file ids of the store
          Talks,        \* conversation ids in order
          KickPage,     \* EXPORT_KICK_PAGE
          CleanupPlans  \* what a behaviour uploads, and bounds for its faults

(* The zips an archive is uploaded with: the conversations that have turns, *)
(* the mtime, rows that were skipped, and a zip that is missing, corrupt or *)
(* without any turn.                                                        *)
Zips == [talks : SUBSET Talks, age : Nat, skipped : BOOLEAN, bad : BOOLEAN]

ASSUME CleanupAssumption ==
  /\ Archives \subseteq Nat \ {0} /\ Talks \subseteq Nat \ {0}
  /\ IsFiniteSet(Archives) /\ IsFiniteSet(Talks)
  /\ KickPage \in Nat \ {0}
  /\ \A pl \in CleanupPlans : \A f \in Archives : pl.zips[f] \in Seq(Zips)

VARIABLES archive,  \* archive[f]: its row in files
          talk,     \* talk[t]: the session's row
          jobs,     \* the parse queue
          turn,     \* the delivery that runs
          eplan, eused

cleanupVars == <<archive, talk, jobs, turn, eplan, eused>>

Content(f, ver) == eplan.zips[f][ver]
ZipOf(f) == Content(f, archive[f].ver)

Gone == [owner |-> 0, state |-> "gone"]

NoJob == [file |-> 0, ver |-> 0, reason |-> "none", phase |-> "none", at |-> 0,
          kick |-> 0, count |-> 0, by |-> 0, gen |-> 0]

NoDelivery == [pc |-> "idle", m |-> NoJob, written |-> {}, at |-> 0, kick |-> 0, count |-> 0,
         page |-> <<>>, owned |-> <<>>, reserved |-> FALSE, failing |-> FALSE]

Row(state, ver) == [state |-> state, ver |-> ver, gen |-> 0, by |-> 0, fresh |-> FALSE, reason |-> "none"]

Holders(t, vers) ==
  {f \in Archives : vers[f] > 0 /\ ~Content(f, vers[f]).bad /\ t \in Content(f, vers[f]).talks}

(* At first every archive is parsed and the newest that has a conversation  *)
(* owns it.                                                                 *)
CleanupInit ==
  /\ eplan \in CleanupPlans
  /\ archive = [f \in Archives |->
       Row(IF eplan.start[f] = 0 THEN "none"
           ELSE IF Content(f, 1).bad THEN "error" ELSE "parsed", eplan.start[f])]
  /\ talk = [t \in Talks |->
       IF Holders(t, eplan.start) = {} THEN Gone
       ELSE [owner |-> CHOOSE f \in Holders(t, eplan.start) :
                         \A g \in Holders(t, eplan.start) : Content(g, 1).age <= Content(f, 1).age,
             state |-> "ready"]]
  /\ jobs = <<>> /\ turn = NoDelivery
  /\ eused = [cuts |-> 0, throws |-> 0, drops |-> 0, stales |-> 0, checks |-> 0, swaps |-> 0]

May(kind) == eused[kind] < eplan[kind]
Use(kind) == eused' = [eused EXCEPT ![kind] = @ + 1]

-----------------------------------------------------------------------------
(* Uploads, checks and the clock.                                           *)

Live(r) == r.state = "reserved" /\ r.fresh

NewJob(f, ver, reason, r) ==
  [NoJob EXCEPT !.file = f, !.ver = ver, !.reason = reason, !.phase = "parse", !.by = r.by, !.gen = r.gen]

Untagged(j) == [j EXCEPT !.by = 0, !.gen = 0]

OwnedToParsing(f, states) ==
  [t \in Talks |-> IF talk[t].owner = f /\ talk[t].state \in states
                   THEN [talk[t] EXCEPT !.state = "parsing"] ELSE talk[t]]

(* recordUploadedObject: a live reservation stays and becomes an upload's.  *)
Uploaded(r) ==
  IF Live(r) THEN [r EXCEPT !.ver = @ + 1, !.reason = "upload"]
  ELSE [Row("pending", r.ver + 1) EXCEPT !.gen = r.gen]

UploadArchive(f) ==
  /\ archive[f].ver < Len(eplan.zips[f])
  /\ LET r == Uploaded(archive[f])
         j == NewJob(f, r.ver, "upload", r) IN
     /\ archive' = [archive EXCEPT ![f] = r]
     /\ jobs' = IF Live(r) /\ r.reason # "upload" THEN jobs
                ELSE Append(jobs, IF Live(r) THEN j ELSE Untagged(j))
  /\ talk' = OwnedToParsing(f, {"parsing", "ready", "error"})
  /\ UNCHANGED <<turn, eplan, eused>>

(* markPendingAndEnqueue: what a requeue leaves of the row, and its intent. *)
IntentOf(r) == IF r.state \in {"reserved", "pending"} THEN r.reason ELSE "none"

Requeued(r) ==
  [Row("pending", r.ver) EXCEPT !.gen = IF r.state = "reserved" THEN r.gen + 1 ELSE r.gen]

Requeueable(r) == ~Live(r)

Awaited(f) == turn.m.file = f \/ \E i \in DOMAIN jobs : jobs[i].file = f

(* files/check, or an upload of the same bytes, of a row that is not        *)
(* terminal.  One that finds its message lost is free, another is counted.  *)
CheckArchive(f) ==
  LET r == archive[f]  intent == IntentOf(r)
      lost == ~Awaited(f) /\ ~(r.state = "error" /\ ZipOf(f).bad) IN
  /\ r.state \in {"pending", "reserved", "error"}
  /\ \/ lost /\ UNCHANGED eused
     \/ ~lost /\ May("checks") /\ Use("checks")
  /\ \/ /\ Requeueable(r)
        /\ archive' = [archive EXCEPT ![f] = Requeued(r)]
        /\ jobs' = Append(jobs, Untagged(NewJob(f, r.ver, IF intent = "none" THEN "upload" ELSE intent, r)))
     \/ /\ ~Requeueable(r) /\ r.reason = "upload"
        /\ jobs' = Append(jobs, NewJob(f, r.ver, "upload", r))
        /\ UNCHANGED archive
  /\ UNCHANGED <<talk, turn, eplan>>

(* The send of a requeue fails: the row is pending and keeps its intent.    *)
CheckUnsent(f) ==
  LET r == archive[f] IN
  /\ r.state \in {"pending", "reserved", "error"} /\ Requeueable(r)
  /\ May("drops") /\ Use("drops")
  /\ archive' = [archive EXCEPT ![f] = [Requeued(r) EXCEPT !.reason = IntentOf(r)]]
  /\ UNCHANGED <<talk, jobs, turn, eplan>>

(* An hour passes over a reservation.  A delivery takes minutes: none goes  *)
(* stale in the delivery that has just refreshed it.                        *)
ReservationAges(f) ==
  /\ Live(archive[f]) /\ turn.pc \in {"idle", "open", "refresh"}
  /\ \/ jobs = <<>> /\ turn.pc = "idle" /\ UNCHANGED eused
     \/ May("stales") /\ Use("stales")
  /\ archive' = [archive EXCEPT ![f] = [@ EXCEPT !.fresh = FALSE]]
  /\ UNCHANGED <<talk, jobs, turn, eplan>>

-----------------------------------------------------------------------------
(* The delivery.                                                            *)

Owns(m) ==
  LET r == archive[m.file] IN r.state = "reserved" /\ m.by # 0 /\ m.by = r.by /\ m.gen = r.gen

(* parseOne: a stale capability, an untagged message of a live reservation, *)
(* and other bytes are not for this delivery.                               *)
Refused(m) ==
  LET r == archive[m.file] IN
  \/ m.by # 0 /\ ~Owns(m)
  \/ ~Owns(m) /\ Live(r)
  \/ m.ver # r.ver

(* Mutant: the siblings are parsed before the deletes. *)
NeverWaits(m) == FALSE

(* A tagged message waits until its owner has done its deletes.             *)
MustWait(m) == Owns(m) /\ archive[m.by].state \notin {"parsed", "error"}

Dequeued(i) == RemoveAt(jobs, i)

(* Messages come in order, but for as many as the plan swaps.               *)
Deliverable(i) == turn.pc = "idle" /\ i \in DOMAIN jobs /\ (i = 1 \/ May("swaps"))

Counted(i) == IF i = 1 THEN UNCHANGED eused ELSE Use("swaps")

RefuseJob(i) ==
  /\ Deliverable(i) /\ Refused(jobs[i]) /\ Counted(i)
  /\ jobs' = Dequeued(i)
  /\ UNCHANGED <<archive, talk, turn, eplan>>

DeferJob(i) ==
  /\ Deliverable(i) /\ ~Refused(jobs[i]) /\ MustWait(jobs[i]) /\ Counted(i)
  /\ jobs' = Append(Dequeued(i), jobs[i])
  /\ UNCHANGED <<archive, talk, turn, eplan>>

StartJob(i) ==
  LET m == jobs[i] IN
  /\ Deliverable(i) /\ ~Refused(m) /\ ~MustWait(m) /\ Counted(i)
  /\ jobs' = Dequeued(i)
  /\ turn' = [NoDelivery EXCEPT !.pc = IF m.phase = "late" THEN "fan" ELSE "open", !.m = m,
                          !.kick = m.kick, !.at = IF m.phase = "parse" THEN m.at ELSE 0]
  /\ UNCHANGED <<archive, talk, eplan>>

me == turn.m.file
Mine == archive[me].ver = turn.m.ver  \* the hash the message carries
Book == Content(me, turn.m.ver)

Goto(pc) == turn' = [turn EXCEPT !.pc = pc]
Stop == turn' = NoDelivery
SendNext(m) == jobs' = Append(jobs, m)

(* supersededDuringCleanup: other bytes are the next delivery's.            *)
OtherBytesCame == talk' = OwnedToParsing(me, {"ready"}) /\ Stop

(* A plain message starts the archive's parse again.                        *)
Plain == [turn.m EXCEPT !.phase = "parse", !.at = 0, !.kick = 0, !.count = 0]

(* raiseExportRetry and forcePending: the message comes again, to a row     *)
(* that is pending, or stays reserved for a tagged one.                     *)
ForcedPending ==
  IF turn.m.by = 0 /\ Mine THEN [archive EXCEPT ![me] = [@ EXCEPT !.state = "pending"]] ELSE archive

WrittenReverted ==
  [t \in Talks |-> IF t \in turn.written /\ talk[t].owner # 0 THEN [talk[t] EXCEPT !.state = "parsing"]
                   ELSE talk[t]]

Raise ==
  /\ archive' = ForcedPending /\ talk' = WrittenReverted
  /\ SendNext(turn.m) /\ Stop

(* A request fails anywhere in an export's delivery.                        *)
DeliveryThrows ==
  /\ turn.pc # "idle" /\ May("throws") /\ Use("throws")
  /\ turn.m.by # 0 /\ turn.pc \in {"confirm", "fan", "send"} => eplan.trailing
  /\ IF turn.m.phase = "late" THEN SendNext(turn.m) /\ Stop /\ UNCHANGED <<archive, talk>> ELSE Raise
  /\ UNCHANGED eplan

(* The invocation dies, and the message is delivered again.                 *)
DeliveryDies ==
  /\ turn.pc # "idle" /\ May("throws") /\ Use("throws")
  /\ SendNext(turn.m) /\ Stop
  /\ UNCHANGED <<archive, talk, eplan>>

(* A message is given up after its retries.                                 *)
JobIsLost(i) ==
  /\ i \in DOMAIN jobs /\ May("drops") /\ Use("drops")
  /\ jobs' = Dequeued(i)
  /\ UNCHANGED <<archive, talk, turn, eplan>>

(* The last step of a delivery that leaves the rest to another message; the *)
(* send may fail.                                                           *)
HandOver(m) ==
  \/ SendNext(m) /\ Stop /\ UNCHANGED <<archive, eused>>
  \/ /\ May("throws") /\ Use("throws")
     /\ archive' = ForcedPending /\ SendNext(turn.m) /\ Stop

(* The zip is read, and the hash is checked again.                          *)
OpenZip ==
  /\ turn.pc = "open"
  /\ \/ ~Mine /\ Stop
     \/ Mine /\ Book.bad /\ Goto("fail")
     \/ Mine /\ ~Book.bad /\ Goto("write")
  /\ UNCHANGED <<archive, talk, jobs, eplan, eused>>

(* isOwnerNewer *)
OwnerNewer(t) == ZipOf(talk[t].owner).age > Book.age

(* runExportParse: whose session a conversation stays.                      *)
Reservable(t) ==
  LET s == talk[t]  other == s.owner # 0 /\ s.owner # me /\ archive[s.owner].state # "error" IN
  /\ ~(turn.m.reason = "recover" /\ other /\ s.state = "ready")
  /\ ~(other /\ s.state # "error" /\ OwnerNewer(t))

Unwritten == IF turn.m.phase = "parse" THEN {t \in Book.talks : t > turn.at} ELSE {}

NextTalk == CHOOSE t \in Unwritten : \A u \in Unwritten : t <= u

PassTalk ==
  /\ turn.pc = "write" /\ Unwritten # {} /\ ~Reservable(NextTalk)
  /\ turn' = [turn EXCEPT !.at = NextTalk]
  /\ UNCHANGED <<archive, talk, jobs, eplan, eused>>

(* writeSession: the session is not ready while it is written, and neither  *)
(* end of the write happens under another hash.                             *)
BeginTalk ==
  /\ turn.pc = "write" /\ Unwritten # {} /\ Reservable(NextTalk)
  /\ IF Mine
     THEN /\ talk' = [talk EXCEPT ![NextTalk] =
                       [owner |-> IF @.owner = 0 THEN me ELSE @.owner, state |-> "parsing"]]
          /\ turn' = [turn EXCEPT !.pc = "publish", !.written = @ \cup {NextTalk}]
          /\ UNCHANGED <<archive, jobs>>
     ELSE Raise
  /\ UNCHANGED <<eplan, eused>>

PublishTalk ==
  /\ turn.pc = "publish"
  /\ IF Mine
     THEN /\ talk' = [talk EXCEPT ![NextTalk] = [owner |-> me, state |-> "ready"]]
          /\ turn' = [turn EXCEPT !.pc = "write", !.at = NextTalk]
          /\ UNCHANGED <<archive, jobs>>
     ELSE Raise
  /\ UNCHANGED <<eplan, eused>>

(* A slice ends where the conversations do, or the budget.                  *)
EndSlice ==
  /\ turn.pc = "write"
  /\ \/ /\ ~Mine /\ OtherBytesCame
        /\ UNCHANGED <<archive, jobs, eused>>
     \/ /\ Mine /\ Unwritten = {}
        /\ turn' = [turn EXCEPT !.at = IF turn.m.phase = "parse" THEN 0 ELSE turn.m.at,
                                !.count = turn.m.count,
                                !.reserved = turn.m.phase = "delete",
                                !.pc = IF turn.m.phase \in {"reserve", "delete"} THEN "refresh" ELSE "scan"]
        /\ UNCHANGED <<archive, talk, jobs, eused>>
     \/ /\ Mine /\ Unwritten # {} /\ turn.written # {} /\ May("cuts") /\ Use("cuts")
        /\ SendNext([turn.m EXCEPT !.at = turn.at]) /\ Stop
        /\ UNCHANGED <<archive, talk>>
  /\ UNCHANGED eplan

-----------------------------------------------------------------------------
(* Reservations.                                                            *)

Reservations == {f \in Archives : archive[f].state = "reserved" /\ archive[f].by = me}

(* anotherCleanupHoldsStore.                                                *)
Contended == \E f \in Archives \ {me} : Live(archive[f]) /\ archive[f].by # me

(* refreshOwnedReservations on the entry of a continuation.                 *)
Refresh ==
  /\ turn.pc = "refresh"
  /\ archive' = [f \in Archives |->
       IF f \in Reservations THEN [archive[f] EXCEPT !.fresh = TRUE, !.gen = @ + 1] ELSE archive[f]]
  /\ LET n == Cardinality(Reservations) IN
     turn' = [turn EXCEPT !.count = n,
                !.pc = IF n < turn.m.count THEN "release"
                       ELSE IF turn.m.phase = "delete" THEN "scan" ELSE "select"]
  /\ UNCHANGED <<talk, jobs, eplan, eused>>

Released ==
  [f \in Archives |->
    IF f \in Reservations
    THEN [Row(IF archive[f].reason = "upload" THEN "pending" ELSE "parsed", archive[f].ver)
            EXCEPT !.gen = archive[f].gen + 1]
    ELSE archive[f]]

(* Some were healed away: the rest is released, and all begins again.       *)
ReleaseSiblings ==
  /\ turn.pc = "release"
  /\ archive' = IF turn.m.by = 0 THEN Released
                ELSE [Released EXCEPT ![me] = archive[me]]
  /\ talk' = IF turn.failing THEN talk ELSE OwnedToParsing(me, {"ready"})
  /\ SendNext(Plain) /\ Stop
  /\ UNCHANGED <<eplan, eused>>

Siblings == {f \in Archives \ {me} : f > turn.kick /\ archive[f].state \in {"parsed", "pending"}}

FirstOf(S) ==
  LET sorted == SetToSortSeq(S, LAMBDA x, y : x < y) IN
  SubSeq(sorted, 1, IF Len(sorted) < KickPage THEN Len(sorted) ELSE KickPage)

(* reserveSiblings: a page of siblings as they are now ...                  *)
SelectPage ==
  /\ turn.pc = "select"
  /\ IF Mine
     THEN /\ turn' = [turn EXCEPT !.pc = "flip",
                !.page = [i \in 1..Len(FirstOf(Siblings)) |->
                            LET f == FirstOf(Siblings)[i] IN [file |-> f, ver |-> archive[f].ver]]]
          /\ UNCHANGED talk
     ELSE OtherBytesCame
  /\ UNCHANGED <<archive, jobs, eplan, eused>>

(* ... is flipped where it still is so.                                     *)
Flippable == {f \in Archives : /\ archive[f].state \in {"parsed", "pending"}
                               /\ \E i \in DOMAIN turn.page : turn.page[i] = [file |-> f, ver |-> archive[f].ver]}

Reserve(r) ==
  [r EXCEPT !.state = "reserved", !.by = me, !.fresh = TRUE, !.gen = @ + 1,
            !.reason = IF r.state = "pending" THEN "upload" ELSE "recover"]

FlipPage ==
  /\ turn.pc = "flip"
  /\ archive' = [f \in Archives |-> IF f \in Flippable THEN Reserve(archive[f]) ELSE archive[f]]
  /\ LET full == Len(turn.page) = KickPage IN
     turn' = [turn EXCEPT !.page = <<>>, !.count = @ + Cardinality(Flippable),
                !.kick = IF turn.page = <<>> THEN @ ELSE turn.page[Len(turn.page)].file,
                !.reserved = ~full,
                !.pc = IF full THEN "more" ELSE IF turn.failing THEN "markerror" ELSE "scan"]
  /\ UNCHANGED <<talk, jobs, eplan, eused>>

(* Another page in this delivery, or in the next.                           *)
NextPage ==
  /\ turn.pc = "more"
  /\ \/ Goto("select") /\ UNCHANGED <<archive, jobs, eused>>
     \/ /\ May("cuts")
        /\ SendNext([turn.m EXCEPT !.phase = IF turn.failing THEN "parse" ELSE "reserve",
                                  !.at = turn.at, !.kick = turn.kick, !.count = turn.count])
        /\ Stop /\ Use("cuts") /\ UNCHANGED archive
  /\ UNCHANGED <<talk, eplan>>

-----------------------------------------------------------------------------
(* The cleanup.                                                             *)

(* A page of the sessions the archive owns; the hash is checked again.      *)
ScanPage ==
  /\ turn.pc = "scan"
  /\ IF Mine
     THEN /\ turn' = [turn EXCEPT !.pc = "reconcile",
                !.owned = SetToSortSeq({t \in Talks : talk[t].owner = me /\ t > turn.at}, LAMBDA x, y : x < y)]
          /\ UNCHANGED talk
     ELSE OtherBytesCame
  /\ UNCHANGED <<archive, jobs, eplan, eused>>

Kept(t) == t \in Book.talks

SkipKept ==
  /\ turn.pc = "reconcile" /\ turn.owned # <<>> /\ Kept(Head(turn.owned))
  /\ turn' = [turn EXCEPT !.at = Head(turn.owned), !.owned = Tail(@)]
  /\ UNCHANGED <<archive, talk, jobs, eplan, eused>>

(* The first session to delete: the siblings are reserved before, unless    *)
(* another cleanup has the store.                                           *)
BeginReserve ==
  /\ turn.pc = "reconcile" /\ turn.owned # <<>> /\ ~Kept(Head(turn.owned)) /\ ~turn.reserved
  /\ \/ ~Contended /\ turn' = [turn EXCEPT !.pc = "select", !.kick = 0] /\ UNCHANGED <<archive, jobs, eused>>
     \/ Contended /\ HandOver(Plain)
  /\ UNCHANGED <<talk, eplan>>

(* Rows that could not be read may be this one's: then it is only marked.   *)
DeleteTalk ==
  LET t == Head(turn.owned) IN
  /\ turn.pc = "reconcile" /\ turn.owned # <<>> /\ ~Kept(t) /\ turn.reserved
  /\ talk' = IF talk[t].owner # me \/ ~Mine THEN talk
             ELSE [talk EXCEPT ![t] = IF Book.skipped THEN [@ EXCEPT !.state = "error"] ELSE Gone]
  /\ turn' = [turn EXCEPT !.at = t, !.owned = Tail(@)]
  /\ UNCHANGED <<archive, jobs, eplan, eused>>

(* The budget ends the page: the next delivery goes on behind it.           *)
CutCleanup ==
  /\ turn.pc = "reconcile" /\ turn.owned # <<>> /\ May("cuts")
  /\ SendNext([turn.m EXCEPT !.phase = IF turn.reserved THEN "delete" ELSE "scan",
                            !.at = turn.at, !.kick = 0, !.count = turn.count])
  /\ Stop /\ Use("cuts")
  /\ UNCHANGED <<archive, talk, eplan>>

(* markParsed: the row leaves its own reservation as well.                  *)
Marked(state) == [Row(state, archive[me].ver) EXCEPT !.gen = archive[me].gen]

MarkArchive ==
  /\ turn.pc = "reconcile" /\ turn.owned = <<>>
  /\ IF Mine
     THEN archive' = [archive EXCEPT ![me] = Marked("parsed")] /\ Goto("confirm") /\ UNCHANGED talk
     ELSE OtherBytesCame /\ UNCHANGED archive
  /\ UNCHANGED <<jobs, eplan, eused>>

-----------------------------------------------------------------------------
(* An archive that cannot be read keeps its sessions, marked, and has the   *)
(* siblings recover what they can: failExportFile.                          *)

Owned == {t \in Talks : talk[t].owner = me}

BeginFail ==
  /\ turn.pc = "fail"
  /\ \/ Owned = {} /\ Goto("markerror") /\ UNCHANGED <<archive, jobs, eused>>
     \/ /\ Owned # {} /\ turn.m.kick > 0
        /\ turn' = [turn EXCEPT !.pc = "refresh", !.failing = TRUE, !.count = turn.m.count]
        /\ UNCHANGED <<archive, jobs, eused>>
     \/ /\ Owned # {} /\ turn.m.kick = 0 /\ ~Contended
        /\ turn' = [turn EXCEPT !.pc = "select", !.failing = TRUE]
        /\ UNCHANGED <<archive, jobs, eused>>
     \/ Owned # {} /\ turn.m.kick = 0 /\ Contended /\ HandOver(Plain)
  /\ UNCHANGED <<talk, eplan>>

MarkFailed ==
  /\ turn.pc = "markerror"
  /\ IF Mine
     THEN /\ archive' = [archive EXCEPT ![me] = Marked("error")]
          /\ talk' = [t \in Talks |-> IF t \in Owned THEN [talk[t] EXCEPT !.state = "error"] ELSE talk[t]]
          /\ IF turn.failing THEN Goto("confirm") ELSE Stop
     ELSE Stop /\ UNCHANGED <<archive, talk>>
  /\ UNCHANGED <<jobs, eplan, eused>>

-----------------------------------------------------------------------------
(* The siblings' messages, after the deletes: fanOutRecover.                *)

Confirm ==
  /\ turn.pc = "confirm"
  /\ IF Mine THEN turn' = [turn EXCEPT !.pc = "fan", !.kick = 0] ELSE Stop
  /\ UNCHANGED <<archive, talk, jobs, eplan, eused>>

Unsent == {f \in Reservations : f > turn.kick}

SelectReserved ==
  /\ turn.pc = "fan"
  /\ turn' = [turn EXCEPT !.pc = "send",
       !.page = [i \in 1..Len(FirstOf(Unsent)) |->
                   LET f == FirstOf(Unsent)[i]  r == archive[f] IN
                   NewJob(f, r.ver, IF r.reason = "upload" THEN "upload" ELSE "recover", r)]]
  /\ UNCHANGED <<archive, talk, jobs, eplan, eused>>

(* Each is sent, or is not and stays reserved; the rest may be left to a    *)
(* message of its own, and that one may be lost.                            *)
SendReserved ==
  /\ turn.pc = "send"
  /\ LET rest == turn.page = <<>> \/ Len(turn.page) < KickPage
         last == IF turn.page = <<>> THEN turn.kick ELSE turn.page[Len(turn.page)].file
         late == [NoJob EXCEPT !.file = me, !.ver = turn.m.ver, !.reason = turn.m.reason,
                               !.phase = "late", !.kick = last]
         goOn == IF rest THEN Stop ELSE turn' = [turn EXCEPT !.pc = "fan", !.kick = last, !.page = <<>>] IN
     \/ jobs' = jobs \o turn.page /\ goOn /\ UNCHANGED eused
     \/ turn.page # <<>> /\ May("drops") /\ Use("drops") /\ goOn /\ UNCHANGED jobs
     \/ ~rest /\ May("cuts") /\ Use("cuts") /\ jobs' = Append(jobs \o turn.page, late) /\ Stop
  /\ UNCHANGED <<archive, talk, eplan>>

-----------------------------------------------------------------------------
TurnStep ==
  \/ OpenZip \/ PassTalk \/ BeginTalk \/ PublishTalk \/ EndSlice
  \/ Refresh \/ ReleaseSiblings \/ SelectPage \/ FlipPage \/ NextPage
  \/ ScanPage \/ SkipKept \/ BeginReserve \/ DeleteTalk \/ CutCleanup \/ MarkArchive
  \/ BeginFail \/ MarkFailed \/ Confirm \/ SelectReserved \/ SendReserved

DeliverJob == \E i \in DOMAIN jobs : RefuseJob(i) \/ DeferJob(i) \/ StartJob(i)

CleanupNext ==
  \/ \E f \in Archives : UploadArchive(f) \/ CheckArchive(f) \/ CheckUnsent(f) \/ ReservationAges(f)
  \/ DeliverJob \/ (\E i \in DOMAIN jobs : JobIsLost(i))
  \/ TurnStep \/ DeliveryThrows \/ DeliveryDies

(* Messages are delivered, collectors check their files in every cycle, and *)
(* time passes.                                                             *)
CleanupSpec ==
  /\ CleanupInit /\ [][CleanupNext]_cleanupVars
  /\ WF_cleanupVars(DeliverJob) /\ WF_cleanupVars(TurnStep)
  /\ \A f \in Archives : WF_cleanupVars(CheckArchive(f)) /\ WF_cleanupVars(ReservationAges(f))

-----------------------------------------------------------------------------
CleanupTypeOK ==
  /\ \A f \in Archives :
       /\ archive[f].state \in {"none", "pending", "parsed", "error", "reserved"}
       /\ archive[f].by \in Archives \cup {0} /\ archive[f].by # f
       /\ archive[f].state = "reserved" => archive[f].by # 0 /\ archive[f].reason # "none"
  /\ \A t \in Talks : talk[t] = Gone \/ (talk[t].owner \in Archives /\ talk[t].state \in {"parsing", "ready", "error"})

(* Nothing is left to do, and no check would start anything.                *)
AllQuiet ==
  /\ turn = NoDelivery /\ jobs = <<>>
  /\ \A f \in Archives : \/ archive[f].state \in {"none", "parsed"}
                         \/ archive[f].state = "error" /\ ZipOf(f).bad

(* Whatever a cleanup deletes, a conversation that an archive of the store  *)
(* still contains is served at the end, from an archive that contains it.   *)
NothingStranded ==
  AllQuiet => \A f \in Archives : archive[f].state = "parsed" => \A t \in ZipOf(f).talks :
    talk[t].state = "ready" /\ t \in ZipOf(talk[t].owner).talks

(* The newest archive serves all it contains: recovering, healing and late  *)
(* deliveries of the others never win over it, and its own upload is never  *)
(* turned into one that only fills gaps.                                    *)
NewestServes ==
  AllQuiet => \A f \in Archives :
    archive[f].state = "parsed" /\ (\A g \in Archives \ {f} : archive[g].ver > 0 => ZipOf(g).age < ZipOf(f).age)
      => \A t \in ZipOf(f).talks : talk[t].owner = f

(* A session that its archive contains no more is gone, or marked when it   *)
(* may be among the rows that could not be read.                            *)
DroppedIsGone ==
  AllQuiet => \A t \in Talks : talk[t].state \in {"ready", "parsing"} => t \in ZipOf(talk[t].owner).talks

(* After a cleanup the newest archive wins, what it dropped is gone, and    *)
(* what another archive has is served from there (consumer.ts).             *)
CleanupIsWhole == CleanupTypeOK /\ NothingStranded /\ NewestServes /\ DroppedIsGone
=============================================================================
