------------------------------- MODULE Ingest -------------------------------
(***************************************************************************)
(* From a collector's file to a ready session: the PUT of hub/src/api/     *)
(* upload.ts, the parse queue with hub/src/queue.ts, and the consumer of   *)
(* hub/src/ingest/consumer.ts over one session of which several machines   *)
(* hold a copy.                                                            *)
(*                                                                         *)
(* The raw object in R2, the files row in D1 and the queue share no        *)
(* transaction, so each call is an action of its own.  The index write is  *)
(* three of them here; module IndexWrite has its detail.  Export archives, *)
(* reservations and multipart uploads are left out.                        *)
(***************************************************************************)
EXTENDS Naturals, FiniteSets

CONSTANTS Files,       \* copies of the session, one per machine
          Revisions,   \* contents, named by their hash
          Extends,     \* <<r, q>>: r is q with more bytes appended
          ParseOf,     \* ParseOf[r]: what the parser makes of r
          Better,      \* <<f, g>>: machine priority prefers copy f
          SizeOf,      \* SizeOf[r]: decides between copies of equal priority
          Tries,       \* requests of one file that may run at once
          Plans        \* bound: copies, contents, edits, faults of a behaviour, and if backfills run

FaultKinds == {"timeout",   \* the collector gives up on a request that is still served
               "crash",     \* a request dies
               "object",    \* the raw object is lost or replaced outside the hub
               "throw",     \* a call of the consumer throws
               "lose",      \* a retried message is dead-lettered
               "duplicate"} \* an acknowledged message is delivered again

NoRevision == "none"
NoFile     == "none"
NoRequest  == <<>>

(* An append to an append is an append. *)
ASSUME IngestAssumption ==
  /\ NoRevision \notin Revisions /\ NoFile \notin Files
  /\ Extends \subseteq Revisions \X Revisions
  /\ \A r, q, p \in Revisions : <<r, q>> \in Extends /\ <<q, p>> \in Extends => <<r, p>> \in Extends
  /\ ParseOf \in [Revisions -> {"turns", "empty", "malformed"}]
  /\ Better \subseteq Files \X Files
  /\ SizeOf \in [Revisions -> Nat]
  /\ Plans \subseteq [copies : SUBSET Files, contents : SUBSET Revisions,
                     edits : Nat, faults : SUBSET FaultKinds, backfill : BOOLEAN]

VARIABLES local,    \* local[f]: content on the machine
          known,    \* known[f]: hash the collector's state holds as ok
          live,     \* live[f]: the request the collector waits for
          req,      \* req[u]: a request in the hub
          r2,       \* r2[f]: bytes of the canonical raw object
          prev,     \* prev[f]: predecessors under raw-prev/
          files,    \* files[f]: content hash and parse state
          session,  \* state, canonical file, hash it was published under, bytes parsed
          owned,    \* the rollup generation is the running delivery's
          queue,    \* parse messages
          job,      \* the consumer (max_concurrency 1)
          saved,    \* history: hashes the hub acknowledged
          judged,   \* history: the hash a delivery last put in a terminal state
          plan,     \* the behaviour's plan: each of its faults may strike once
          edits,    \* changes of the local files so far
          faults    \* faults that have struck

collectorVars == <<local, known, live>>
rawVars       == <<r2, prev>>
indexVars     == <<session, owned>>
historyVars   == <<saved, judged>>
budget        == <<plan, edits>>
vars == <<collectorVars, req, rawVars, files, indexVars, queue, job, historyVars, budget, faults>>

Terminal == {"parsed", "skipped", "superseded"}

Requests == Files \X Tries

NoRow == [hash |-> NoRevision, state |-> "absent"]

IdleRequest == [pc |-> "idle", rev |-> NoRevision, old |-> NoRevision,
                same |-> FALSE, requeue |-> FALSE]

IdleJob == [pc |-> "idle", file |-> NoFile, hash |-> NoRevision, reason |-> "upload",
            bytes |-> NoRevision, wrote |-> FALSE, failed |-> FALSE,
            next |-> NoFile, nextHash |-> NoRevision]

Message(f, hash, reason) == [file |-> f, hash |-> hash, reason |-> reason]

Init ==
  /\ plan \in Plans
  /\ local \in [Files -> plan.contents \cup {NoRevision}]
  /\ \A f \in Files : local[f] # NoRevision <=> f \in plan.copies
  /\ known = [f \in Files |-> NoRevision]
  /\ live = [f \in Files |-> NoRequest]
  /\ req = [u \in Requests |-> IdleRequest]
  /\ r2 = [f \in Files |-> NoRevision]
  /\ prev = [f \in Files |-> {}]
  /\ files = [f \in Files |-> NoRow]
  /\ session = [state |-> "absent", file |-> NoFile, rev |-> NoRevision, bytes |-> NoRevision]
  /\ owned = FALSE
  /\ queue = {}
  /\ job = IdleJob
  /\ saved = [f \in Files |-> {}]
  /\ judged = [f \in Files |-> NoRevision]
  /\ edits = 0 /\ faults = {}

Fault(kind) == kind \in plan.faults \ faults /\ faults' = faults \cup {kind}

-----------------------------------------------------------------------------
(* The collector.  A run sends every file whose hash its state does not     *)
(* hold; it may give up on a request that is still being served and send    *)
(* the file again.                                                          *)

Edit(f) ==
  /\ f \in plan.copies /\ edits < plan.edits /\ edits' = edits + 1
  /\ \E r \in plan.contents \ {local[f]} : local' = [local EXCEPT ![f] = r]
  /\ UNCHANGED <<known, live, req, rawVars, files, indexVars, queue, job, historyVars, plan, faults>>

(* Requests differ in nothing but their place.                              *)
FreeTry(f) == CHOOSE k \in Tries : req[<<f, k>>].pc = "idle"

Begin(u, pc) ==
  /\ req[u].pc = "idle" /\ u[2] = FreeTry(u[1])
  /\ req' = [req EXCEPT ![u] = [IdleRequest EXCEPT !.pc = pc, !.rev = local[u[1]]]]
  /\ live' = [live EXCEPT ![u[1]] = u]
  /\ UNCHANGED <<local, known, rawVars, files, indexVars, queue, job, historyVars, budget>>

Send(u) == live[u[1]] = NoRequest /\ known[u[1]] # local[u[1]] /\ Begin(u, "look") /\ UNCHANGED faults

SendAgain(u) == live[u[1]] # NoRequest /\ Begin(u, "look") /\ Fault("timeout")

(* A backfill asks about every file and sends what the hub has not.         *)
Backfill(u) ==
  /\ plan.backfill /\ u[1] \in plan.copies
  /\ live[u[1]] = NoRequest /\ Begin(u, "check") /\ UNCHANGED faults

(* The hub answers 200 or 201.  Only the request the collector still waits  *)
(* for reaches its state.                                                   *)
Answer(u) ==
  LET f == u[1]
  IN  /\ req' = [req EXCEPT ![u] = IdleRequest]
      /\ live' = [live EXCEPT ![f] = IF @ = u THEN NoRequest ELSE @]
      /\ known' = [known EXCEPT ![f] = IF live[f] = u THEN req[u].rev ELSE @]
      /\ saved' = [saved EXCEPT ![f] = @ \cup {req[u].rev}]
      /\ UNCHANGED local

Advance(u, pc) == req' = [req EXCEPT ![u].pc = pc] /\ UNCHANGED <<collectorVars, saved>>

(* The Worker dies or a call throws; the collector records an error and     *)
(* sends the file again in its next run.                                    *)
Crash(u) ==
  /\ req[u].pc # "idle" /\ Fault("crash")
  /\ req' = [req EXCEPT ![u] = IdleRequest]
  /\ IF live[u[1]] = u
       THEN live' = [live EXCEPT ![u[1]] = NoRequest] /\ known' = [known EXCEPT ![u[1]] = NoRevision]
       ELSE UNCHANGED <<live, known>>
  /\ UNCHANGED <<local, rawVars, files, indexVars, queue, job, historyVars, budget>>

(* The raw object disappears, or is replaced by something outside the hub.  *)
LoseObject(f) ==
  /\ r2[f] # NoRevision /\ Fault("object")
  /\ \E r \in plan.contents \cup {NoRevision} : r # r2[f] /\ r2' = [r2 EXCEPT ![f] = r]
  /\ UNCHANGED <<collectorVars, req, prev, files, indexVars, queue, job, historyVars, budget>>

-----------------------------------------------------------------------------
(* putFile: an unchanged hash repairs the object, a rewrite first keeps the *)
(* object it displaces.                                                     *)

Unparsed(row) == row.state \notin Terminal

(* Mutant: a body the stored file extends passes for an append. *)
AppendsEither(r, row) == <<r, row.hash>> \in Extends \/ <<row.hash, r>> \in Extends

(* bodyExtendsStored *)
Appends(r, row) == <<r, row.hash>> \in Extends

Look(u) ==
  LET row == files[u[1]]
      same == row.hash = req[u].rev
  IN  /\ req[u].pc = "look"
      /\ req' = [req EXCEPT ![u] = [@ EXCEPT
           !.old = row.hash, !.same = same,
           !.requeue = same /\ Unparsed(row),
           !.pc = IF same THEN "row"
                  ELSE IF row = NoRow \/ Appends(req[u].rev, row) THEN "put" ELSE "preserve"]]
      /\ UNCHANGED <<collectorVars, rawVars, files, indexVars, queue, job, historyVars, budget, faults>>

(* preserveDisplacedObject: only bytes that have the predecessor's hash go  *)
(* under its key; anything else is skipped and the upload goes on.          *)
Preserve(u) ==
  LET f == u[1]
  IN  /\ req[u].pc = "preserve"
      /\ prev' = IF r2[f] = req[u].old THEN [prev EXCEPT ![f] = @ \cup {req[u].old}] ELSE prev
      /\ Advance(u, "put")
      /\ UNCHANGED <<r2, files, indexVars, queue, job, judged, budget, faults>>

Put(u) ==
  /\ req[u].pc = "put"
  /\ r2' = [r2 EXCEPT ![u[1]] = req[u].rev]
  /\ Advance(u, "upsert")
  /\ UNCHANGED <<prev, files, indexVars, queue, job, judged, budget, faults>>

(* recordUploadedObject *)

(* Mutant: new bytes keep the row's parse state. *)
RestampKeeping(u) ==
  [hash |-> req[u].rev, state |-> IF files[u[1]] = NoRow THEN "pending" ELSE files[u[1]].state]

Restamp(u) == [hash |-> req[u].rev, state |-> "pending"]

Upsert(u) ==
  /\ req[u].pc = "upsert"
  /\ files' = [files EXCEPT ![u[1]] = Restamp(u)]
  /\ Advance(u, "row")
  /\ UNCHANGED <<rawVars, indexVars, queue, job, judged, budget, faults>>

Converged(u) == IF req[u].same THEN "settle" ELSE "flip"

(* convergeR2WithRow: the row, the object, the repair.                      *)
ConvergeRow(u) ==
  /\ req[u].pc = "row"
  /\ Advance(u, IF files[u[1]].hash = req[u].rev THEN "head" ELSE Converged(u))
  /\ UNCHANGED <<rawVars, files, indexVars, queue, job, judged, budget, faults>>

ConvergeHead(u) ==
  /\ req[u].pc = "head"
  /\ Advance(u, IF r2[u[1]] = req[u].rev THEN Converged(u) ELSE "reput")
  /\ UNCHANGED <<rawVars, files, indexVars, queue, job, judged, budget, faults>>

ConvergePut(u) ==
  /\ req[u].pc = "reput"
  /\ r2' = [r2 EXCEPT ![u[1]] = req[u].rev]
  /\ req' = [req EXCEPT ![u] = [@ EXCEPT !.pc = Converged(u), !.requeue = TRUE]]
  /\ UNCHANGED <<collectorVars, prev, files, indexVars, queue, job, historyVars, budget, faults>>

(* An unchanged upload is done, unless it repaired the object or the row    *)
(* was not terminal when it looked.                                         *)
Settle(u) ==
  /\ req[u].pc = "settle"
  /\ IF req[u].requeue THEN Advance(u, "mark") ELSE Answer(u)
  /\ UNCHANGED <<rawVars, files, indexVars, queue, job, judged, budget, faults>>

SetSession(state) == session' = [session EXCEPT !.state = state] /\ owned' = FALSE

(* flipOwnedSessionsToParsing *)
Flip(u) ==
  LET f == u[1]
  IN  /\ req[u].pc = "flip"
      /\ IF session.file = f /\ files[f].hash = req[u].rev
           THEN SetSession("parsing") ELSE UNCHANGED indexVars
      /\ Advance(u, "send")
      /\ UNCHANGED <<rawVars, files, queue, job, judged, budget, faults>>

(* markPendingAndEnqueue: the row first, then the message.                  *)
MarkPending(u) ==
  /\ req[u].pc = "mark"
  /\ files' = [files EXCEPT ![u[1]].state = "pending"]
  /\ Advance(u, "send")
  /\ UNCHANGED <<rawVars, indexVars, queue, job, judged, budget, faults>>

Enqueue(u) ==
  /\ req[u].pc = "send"
  /\ queue' = queue \cup {Message(u[1], req[u].rev, "upload")}
  /\ Answer(u)
  /\ UNCHANGED <<rawVars, files, indexVars, job, judged, budget, faults>>

(* checkFiles: a row of this hash and an object that has it, or the         *)
(* collector sends the bytes it has by then.                                *)
Missing(u) == [req[u] EXCEPT !.pc = "look", !.rev = local[u[1]]]

Check(u) ==
  LET row == files[u[1]]
  IN  /\ req[u].pc = "check"
      /\ req' = [req EXCEPT ![u] =
           IF row.hash = req[u].rev THEN [@ EXCEPT !.pc = "checkHead", !.requeue = Unparsed(row)]
                                    ELSE Missing(u)]
      /\ UNCHANGED <<collectorVars, rawVars, files, indexVars, queue, job, historyVars, budget, faults>>

CheckHead(u) ==
  /\ req[u].pc = "checkHead"
  /\ req' = [req EXCEPT ![u] =
       IF r2[u[1]] = req[u].rev THEN [@ EXCEPT !.pc = "settle"] ELSE Missing(u)]
  /\ UNCHANGED <<collectorVars, rawVars, files, indexVars, queue, job, historyVars, budget, faults>>

-----------------------------------------------------------------------------
(* The consumer: one delivery at a time.                                    *)

Step(pc) == job' = [job EXCEPT !.pc = pc]

hubVars == <<collectorVars, req, rawVars, saved, budget>>

Delivered == Message(job.file, job.hash, job.reason)

Ack ==
  /\ job' = IdleJob
  /\ \/ UNCHANGED <<queue, faults>>
     \/ Fault("duplicate") /\ queue' = queue \cup {Delivered}

(* A retried message comes again, or is lost when its retries are spent.    *)
Requeued == queue' = queue \cup {Delivered} \/ ("lose" \in plan.faults /\ queue' = queue)

Retry == job' = IdleJob /\ Requeued /\ UNCHANGED faults

SourceCurrent == files[job.file].hash = job.hash

(* Ties of priority go to the larger content, then to one fixed copy.       *)
Prefers(f, g) ==
  \/ <<f, g>> \in Better
  \/ /\ <<g, f>> \notin Better
     /\ \/ SizeOf[files[f].hash] > SizeOf[files[g].hash]
        \/ SizeOf[files[f].hash] = SizeOf[files[g].hash] /\ f = CHOOSE h \in {f, g} : TRUE

IsFirst(f, set) == \A g \in set \ {f} : Prefers(f, g)

First(set) == CHOOSE f \in set : IsFirst(f, set)

Uploaded == {f \in Files : files[f] # NoRow}

(* chooseCanonical: a copy that failed or is empty only if all of them are. *)
(* A delivery gives way to another copy only when that one is parsed.       *)
GivesWay ==
  LET candidates == {f \in Uploaded : files[f].state # "superseded"}
      sound == {f \in candidates : files[f].state \notin {"error", "skipped"}}
      pool  == IF sound = {} THEN candidates ELSE sound
  IN  pool # {} /\ First(pool) # job.file /\ files[First(pool)].state = "parsed"

Deliver(m) ==
  /\ job.pc = "idle" /\ m \in queue
  /\ job' = [IdleJob EXCEPT !.pc = IF files[m.file].hash = m.hash THEN "canonical" ELSE "stale",
                            !.file = m.file, !.hash = m.hash, !.reason = m.reason]
  /\ queue' = queue \ {m}
  /\ owned' = FALSE
  /\ UNCHANGED <<hubVars, files, session, judged, faults>>

Reject == job.pc = "stale" /\ Ack /\ UNCHANGED <<hubVars, files, indexVars, judged>>

ChooseCanonical ==
  /\ job.pc = "canonical"
  /\ Step(IF GivesWay THEN "supersede" ELSE "get")
  /\ UNCHANGED <<hubVars, files, indexVars, queue, judged, faults>>

(* The row, whatever bytes it has by now.                                   *)
Supersede ==
  /\ job.pc = "supersede"
  /\ files' = [files EXCEPT ![job.file].state = "superseded"]
  /\ judged' = [judged EXCEPT ![job.file] = job.hash]
  /\ Ack
  /\ UNCHANGED <<hubVars, indexVars>>

Read ==
  /\ job.pc = "get"
  /\ job' = [job EXCEPT !.bytes = r2[job.file],
                        !.pc = IF r2[job.file] = NoRevision THEN "fail"
                               ELSE IF ParseOf[r2[job.file]] = "turns" THEN "rank" ELSE "empty"]
  /\ UNCHANGED <<hubVars, files, indexVars, queue, judged, faults>>

(* chooseBestParsed *)
Outranked == \E f \in Files \ {job.file} : files[f].state = "parsed" /\ Prefers(f, job.file)

Rank ==
  /\ job.pc = "rank"
  /\ Step(IF Outranked THEN "supersede" ELSE "recheck")
  /\ UNCHANGED <<hubVars, files, indexVars, queue, judged, faults>>

Recheck ==
  /\ job.pc = "recheck"
  /\ Step(IF SourceCurrent THEN "invalidate" ELSE "stale")
  /\ UNCHANGED <<hubVars, files, indexVars, queue, judged, faults>>

(* writeSession's first and last main batches; what was overtaken retries.  *)
Invalidate ==
  /\ job.pc = "invalidate"
  /\ LET placeholder == [session EXCEPT !.state = "parsing", !.file = job.file]
     IN  IF SourceCurrent
           THEN /\ session' = IF session.state = "absent" THEN placeholder
                                                          ELSE [session EXCEPT !.state = "parsing"]
                /\ owned' = TRUE
                /\ job' = [job EXCEPT !.pc = "publish", !.wrote = TRUE]
                /\ UNCHANGED <<queue, faults>>
           ELSE /\ session' = IF session.state = "absent" /\ files[job.file].state = "pending"
                                THEN placeholder ELSE session
                /\ UNCHANGED owned
                /\ Retry
  /\ UNCHANGED <<hubVars, files, judged>>

Publish ==
  /\ job.pc = "publish"
  /\ IF owned /\ SourceCurrent
       THEN /\ session' = [state |-> "ready", file |-> job.file, rev |-> job.hash, bytes |-> job.bytes]
            /\ Step("parsed") /\ UNCHANGED <<queue, faults>>
       ELSE Retry /\ UNCHANGED session
  /\ UNCHANGED <<hubVars, files, owned, judged>>

(* Mutant: the file is marked whatever its bytes are by now. *)
MarkableAny == TRUE

Markable == SourceCurrent

MarkParsed ==
  /\ job.pc = "parsed"
  /\ IF Markable /\ owned /\ session.file = job.file /\ session.state = "ready"
       THEN /\ files' = [files EXCEPT ![job.file].state = "parsed"]
            /\ judged' = [judged EXCEPT ![job.file] = job.hash]
            /\ Step("others")
       ELSE Step("revert") /\ UNCHANGED <<files, judged>>
  /\ UNCHANGED <<hubVars, indexVars, queue, faults>>

(* revertSlice *)
Revert ==
  /\ job.pc = "revert"
  /\ IF owned THEN SetSession("parsing") ELSE UNCHANGED indexVars
  /\ Ack
  /\ UNCHANGED <<hubVars, files, judged>>

Losers == {f \in Files \ {job.file} : files[f].state = "parsed"}

SupersedeOthers ==
  /\ job.pc = "others"
  /\ LET won == owned /\ SourceCurrent /\ session.file = job.file /\ session.state = "ready"
     IN  /\ files' = [f \in Files |-> IF won /\ f \in Losers
                                        THEN [files[f] EXCEPT !.state = "superseded"] ELSE files[f]]
         /\ judged' = [f \in Files |-> IF won /\ f \in Losers THEN files[f].hash ELSE judged[f]]
  /\ Ack
  /\ UNCHANGED <<hubVars, indexVars>>

-----------------------------------------------------------------------------
(* A parse with no turns leaves the file skipped or in error; if it was the *)
(* session's canonical copy the session is cleared and another copy tried.  *)
MarkEmpty ==
  /\ job.pc = "empty"
  /\ IF Markable
       THEN LET state == IF ParseOf[job.bytes] = "malformed" THEN "error" ELSE "skipped"
            IN  /\ files' = [files EXCEPT ![job.file].state = state]
                /\ judged' = IF state = "skipped" THEN [judged EXCEPT ![job.file] = job.hash] ELSE judged
                /\ Step("clear")
       ELSE Step("stale") /\ UNCHANGED <<files, judged>>
  /\ UNCHANGED <<hubVars, indexVars, queue, faults>>

Clear ==
  /\ job.pc = "clear"
  /\ IF session.file = job.file /\ SourceCurrent
       THEN session' = [session EXCEPT !.state = "error", !.bytes = NoRevision] /\ owned' = TRUE
       ELSE UNCHANGED indexVars
  /\ Step(IF session.file = job.file \/ job.reason = "recover" THEN "recover" ELSE "stale")
  /\ UNCHANGED <<hubVars, files, queue, judged, faults>>

(* A transient error of D1, like a kill, says nothing of the content: the   *)
(* file stays as it is and the exact message comes again.                   *)
ThrowTransient == job' = IdleJob /\ Requeued

(* A call throws: any other error puts the file in error.                   *)
Throw ==
  /\ job.pc # "idle" /\ Fault("throw")
  /\ \/ ThrowTransient
     \/ /\ ~job.failed /\ job.pc # "fail"
        /\ Step("fail") /\ UNCHANGED queue
  /\ UNCHANGED <<hubVars, files, indexVars, judged>>

FailFile ==
  /\ job.pc = "fail"
  /\ IF SourceCurrent
       THEN /\ files' = [files EXCEPT ![job.file].state = "error"]
            /\ job' = [job EXCEPT !.pc = "failSession", !.failed = TRUE]
            /\ UNCHANGED <<queue, faults>>
       ELSE Retry /\ UNCHANGED files
  /\ UNCHANGED <<hubVars, indexVars, judged>>

(* Only the write that holds the generation, or, before any write, only the *)
(* canonical file, turns the session to error.                              *)
Failable ==
  /\ session.state # "absent" /\ SourceCurrent
  /\ IF job.wrote THEN owned ELSE session.file = job.file

FailSession ==
  /\ job.pc = "failSession"
  /\ IF Failable THEN SetSession("error") ELSE UNCHANGED indexVars
  /\ IF Failable \/ job.reason = "recover" THEN Step("recover") /\ UNCHANGED <<queue, faults>> ELSE Retry
  /\ UNCHANGED <<hubVars, files, judged>>

(* Mutant: a superseded copy has no second chance. *)
RecoveryUnbeaten ==
  {f \in Uploaded \ {job.file} : files[f].state \notin {"error", "skipped", "superseded"}}

(* chooseRecoveryCandidate: a superseded copy gets its second chance last.  *)
RecoveryCandidates ==
  LET sound == {f \in Uploaded \ {job.file} : files[f].state \notin {"error", "skipped"}}
      unbeaten == {f \in sound : files[f].state # "superseded"}
  IN  IF unbeaten = {} THEN sound ELSE unbeaten

Finish == IF job.failed THEN Retry ELSE Ack

Recover ==
  /\ job.pc = "recover"
  /\ IF RecoveryCandidates = {}
       THEN Finish
       ELSE \E f \in RecoveryCandidates :
              /\ IsFirst(f, RecoveryCandidates)
              /\ job' = [job EXCEPT !.pc = "kick", !.next = f, !.nextHash = files[f].hash]
              /\ UNCHANGED <<queue, faults>>
  /\ UNCHANGED <<hubVars, files, indexVars, judged>>

Kick ==
  /\ job.pc = "kick"
  /\ files' = [files EXCEPT ![job.next].state = "pending"]
  /\ Step("kicked")
  /\ UNCHANGED <<hubVars, indexVars, queue, judged, faults>>

Kicked ==
  /\ job.pc = "kicked"
  /\ LET sent == queue \cup {Message(job.next, job.nextHash, "recover")}
     IN  queue' = IF job.failed THEN sent \cup {Delivered} ELSE sent
  /\ job' = IdleJob
  /\ UNCHANGED <<hubVars, files, indexVars, judged, faults>>

Serve(u) ==
  \/ Look(u) \/ Preserve(u) \/ Put(u) \/ Upsert(u) \/ ConvergeRow(u) \/ ConvergeHead(u)
  \/ ConvergePut(u) \/ Settle(u) \/ Flip(u) \/ MarkPending(u) \/ Enqueue(u)
  \/ Check(u) \/ CheckHead(u)

Consume ==
  \/ \E m \in queue : Deliver(m)
  \/ Reject \/ ChooseCanonical \/ Supersede \/ Read \/ Rank \/ Recheck
  \/ Invalidate \/ Publish \/ MarkParsed \/ Revert \/ SupersedeOthers
  \/ MarkEmpty \/ Clear \/ FailFile \/ FailSession \/ Recover \/ Kick \/ Kicked

Next ==
  \/ \E f \in Files : Edit(f) \/ LoseObject(f)
  \/ \E u \in Requests : Send(u) \/ SendAgain(u) \/ Backfill(u) \/ Serve(u) \/ Crash(u)
  \/ Consume \/ Throw

Spec == Init /\ [][Next]_vars

(* Requests and deliveries run on, and the collector's scheduled runs       *)
(* repeat.                                                                  *)
Fairness ==
  /\ \A u \in Requests : WF_vars(Serve(u))
  /\ \A f \in Files : WF_vars(\E u \in {f} \X Tries : Send(u))
  /\ WF_vars(Consume)

(* Somebody repeats the backfill. *)
BackfillSpec ==
  /\ Spec /\ Fairness
  /\ \A f \in Files : WF_vars(\E u \in {f} \X Tries : Backfill(u))

-----------------------------------------------------------------------------
Hash == Revisions \cup {NoRevision}
Owner == Files \cup {NoFile}

TypeOK ==
  /\ local \in [Files -> Hash] /\ known \in [Files -> Hash]
  /\ live \in [Files -> Requests \cup {NoRequest}]
  /\ \A u \in Requests : req[u].rev \in Hash /\ req[u].old \in Hash
                        /\ {req[u].same, req[u].requeue} \subseteq BOOLEAN
  /\ r2 \in [Files -> Hash]
  /\ prev \in [Files -> SUBSET Revisions] /\ saved \in [Files -> SUBSET Revisions]
  /\ files \in [Files -> [hash : Hash, state : {"absent", "pending", "error"} \cup Terminal]]
  /\ \A f \in Files : files[f].state = "absent" <=> files[f].hash = NoRevision
  /\ session \in [state : {"absent", "parsing", "ready", "error"}, file : Owner,
                  rev : Hash, bytes : Hash]
  /\ owned \in BOOLEAN
  /\ queue \subseteq [file : Files, hash : Revisions, reason : {"upload", "recover"}]
  /\ judged \in [Files -> Hash]

Idle == job = IdleJob /\ queue = {} /\ \A u \in Requests : req[u].pc = "idle"

(* The plan of this behaviour has none of these faults. *)
Without(kinds) == plan.faults \cap kinds = {}

(* The hub may displace what it acknowledged but never destroys it: the     *)
(* bytes, or bytes that extend them, are the raw object or a preserved      *)
(* predecessor.                                                             *)
NeverDestroyed ==
  \A f \in Files : \A h \in saved[f] :
    \E v \in {r2[f]} \cup prev[f] : v = h \/ <<v, h>> \in Extends

(* The same, as long as no request dies or is given up and no object is     *)
(* lost.                                                                    *)
AcknowledgedIsRecoverable == Without({"crash", "object", "timeout"}) => NeverDestroyed

(* The session the best sound copy would give. *)
BestIsServed ==
  LET sound == {f \in plan.copies : ParseOf[local[f]] = "turns"}
  IN  IF sound = {} THEN session.state # "ready"
      ELSE /\ session.state = "ready" /\ session.file = First(sound)
           /\ session.rev = local[session.file] /\ session.bytes = session.rev

Stored == \A f \in plan.copies : local[f] = files[f].hash /\ local[f] = r2[f]

(* Priority alone decides between the copies, whatever is in them, or none  *)
(* of them changes.                                                         *)
Ranked ==
  plan.edits = 0 \/ \A f, g \in plan.copies : f = g \/ {<<f, g>>, <<g, f>>} \cap Better # {}

(* Whatever the order of uploads and deliveries, when all work is done the  *)
(* hub holds every machine's bytes and the session is parsed from the best  *)
(* copy, as long as no copy ever lost its turns and their order stays: a    *)
(* superseded copy is not looked at again when an equal one shrinks.        *)
SettledIsBest ==
  Without(FaultKinds) /\ Ranked /\ Idle /\ known = local /\ (\A r \in plan.contents : ParseOf[r] = "turns") =>
    Stored /\ BestIsServed

(* A file is parsed or skipped only because a delivery judged the bytes it  *)
(* has: new bytes are never taken for done, which nothing would ever look   *)
(* at again.                                                                *)
TerminalIsEarned ==
  \A f \in Files : files[f].state \in {"parsed", "skipped"} => judged[f] = files[f].hash

(* A copy may fall behind another while a parse of it is under way: it      *)
(* loses its turns, fails, or shrinks beside its equals.  The parse, which  *)
(* set the session to 'parsing', is overtaken, and the copy's next delivery *)
(* gives way to the other, which is parsed and has no delivery to come.     *)
MayFall ==
  /\ Cardinality(plan.copies) > 1 /\ plan.edits > 0
  /\ \/ \E r \in plan.contents : ParseOf[r] # "turns"
     \/ plan.faults \cap {"throw", "object"} # {}
     \/ ~Ranked

(* A request whose bytes were parsed for an earlier message of the same     *)
(* hash, of one that was given up or before an edit that was undone, sets   *)
(* the session to 'parsing' and dies before its own message.                *)
MayReflip == "crash" \in plan.faults /\ ("timeout" \in plan.faults \/ plan.edits > 1)

(* A session is 'parsing' only while a delivery, a message, an upload or a  *)
(* file that a files/check would send again is still going to settle it.    *)
ParsingIsOwed ==
  Without({"lose"}) /\ ~MayFall /\ ~MayReflip /\ session.state = "parsing" /\ Idle =>
    \E f \in Uploaded : files[f].state \notin Terminal

(* A session is in error only when no copy is left that could be parsed: a  *)
(* failed or emptied canonical copy hands over to the next one.             *)
FailedIsRecovered ==
  session.state = "error" /\ Idle =>
    \A f \in Uploaded : files[f].state \notin {"parsed", "superseded"}

(* What a file is said to be, a delivery found in its bytes.                *)
StatesAreEarned == TypeOK /\ TerminalIsEarned

(* The copies settle on the best of them.                                   *)
CopiesConverge == SettledIsBest /\ FailedIsRecovered
=============================================================================
