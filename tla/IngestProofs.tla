---------------------------- MODULE IngestProofs ----------------------------
(* Proofs about Ingest, for every set of copies, contents, plans and        *)
(* concurrent requests.                                                     *)
EXTENDS Ingest, TLAPS

(* The places of a request at which its file has a row. *)
AtRow == {"row", "head", "reput", "settle", "flip", "mark", "send", "checkHead"}

Request == [pc : {"idle", "look", "preserve", "put", "upsert", "check"} \cup AtRow,
            rev : Hash, old : Hash, same : BOOLEAN, requeue : BOOLEAN]

JobPlace == {"idle", "canonical", "stale", "supersede", "get", "rank", "recheck", "invalidate",
             "publish", "parsed", "revert", "others", "empty", "clear", "fail", "failSession",
             "recover", "kick", "kicked"}

Job == [pc : JobPlace, file : Owner, hash : Hash, reason : {"upload", "recover"}, bytes : Hash,
        wrote : BOOLEAN, failed : BOOLEAN, next : Owner, nextHash : Hash]

State == {"absent", "pending", "error"} \cup Terminal

Row == [hash : Hash, state : State]

(* Only the machines that have a copy send one, and what they send has      *)
(* content.                                                                 *)
CollectorOK ==
  /\ plan \in Plans
  /\ local \in [Files -> Hash] /\ known \in [Files -> Hash]
  /\ live \in [Files -> Requests \cup {NoRequest}]
  /\ \A f \in Files : local[f] # NoRevision <=> f \in plan.copies
  /\ \A f \in Files : known[f] # NoRevision \/ live[f] # NoRequest => f \in plan.copies

(* A request past its row, a message and a delivery still find the row. *)
Sound(u, q) ==
  q.pc # "idle" =>
    /\ u[1] \in plan.copies /\ q.rev \in Revisions
    /\ q.pc \in AtRow => files[u[1]].hash # NoRevision
    /\ q.pc = "preserve" => q.old \in Revisions

RequestsOK ==
  /\ req \in [Requests -> Request]
  /\ \A u \in Requests : Sound(u, req[u])

RowsOK ==
  /\ files \in [Files -> Row]
  /\ \A f \in Files : files[f].state = "absent" <=> files[f].hash = NoRevision

SoundJob(j) ==
  j.pc # "idle" =>
    /\ j.file \in Files /\ j.hash \in Revisions
    /\ files[j.file].hash # NoRevision
    /\ j.pc \in {"kick", "kicked"} =>
         j.next \in Files /\ j.nextHash \in Revisions /\ files[j.next].hash # NoRevision

Messages == [file : Files, hash : Revisions, reason : {"upload", "recover"}]

Queued == queue \subseteq Messages /\ \A m \in queue : files[m.file].hash # NoRevision

JobOK == job \in Job /\ SoundJob(job) /\ Queued

StoreOK ==
  /\ r2 \in [Files -> Hash]
  /\ prev \in [Files -> SUBSET Revisions] /\ saved \in [Files -> SUBSET Revisions]
  /\ session \in [state : {"absent", "parsing", "ready", "error"}, file : Owner,
                  rev : Hash, bytes : Hash]
  /\ owned \in BOOLEAN
  /\ judged \in [Files -> Hash]

TypeInv == CollectorOK /\ RequestsOK /\ RowsOK /\ JobOK /\ StoreOK

(* No step takes a row away. *)
RowsStay == \A f \in Files : files[f].hash # NoRevision => files'[f].hash # NoRevision

LEMMA Distinct ==
  /\ NoRevision \notin Revisions /\ NoFile \notin Files
  /\ \A u \in Requests : u # NoRequest /\ u[1] \in Files
  /\ \A p \in Plans : p.contents \subseteq Revisions /\ p.copies \subseteq Files
  BY IngestAssumption DEF Requests, NoRequest

LEMMA TypeInvIsTypeOK == TypeInv => TypeOK
  BY DEF TypeInv, TypeOK, CollectorOK, RequestsOK, RowsOK, JobOK, StoreOK, Request, Row, State, Queued, Messages

LEMMA IdleIsTyped == IdleRequest \in Request /\ IdleJob \in Job /\ NoRow \in Row
  BY DEF IdleRequest, IdleJob, Request, Job, JobPlace, Hash, Owner, NoRow, Row, State

-----------------------------------------------------------------------------
(* The steps of a request. *)

LEMMA RequestMoves ==
  ASSUME RequestsOK, NEW u \in Requests, NEW q \in Request, req' = [req EXCEPT ![u] = q],
         plan' = plan, RowsStay,
         q.pc # "idle" => /\ u[1] \in plan.copies /\ q.rev \in Revisions
                          /\ q.pc \in AtRow => files'[u[1]].hash # NoRevision
                          /\ q.pc = "preserve" => q.old \in Revisions
  PROVE  RequestsOK'
<1>1. req' \in [Requests -> Request]
  BY DEF RequestsOK
<1>2. ASSUME NEW v \in Requests PROVE Sound(v, req[v])'
  <2>1. CASE v = u
    BY <2>1 DEF RequestsOK, Sound
  <2>2. CASE v # u
    <3>1. req'[v] = req[v] /\ Sound(v, req[v])
      BY <2>2 DEF RequestsOK
    <3>2. v[1] \in Files
      BY Distinct
    <3> QED BY <3>1, <3>2 DEF Sound, RowsStay
  <2> QED BY <2>1, <2>2
<1> QED BY <1>1, <1>2 DEF RequestsOK

LEMMA RequestsWait ==
  ASSUME RequestsOK, UNCHANGED <<req, plan>>, RowsStay
  PROVE  RequestsOK'
<1>1. ASSUME NEW v \in Requests PROVE Sound(v, req[v])'
  <2>1. v[1] \in Files /\ Sound(v, req[v])
    BY Distinct DEF RequestsOK
  <2> QED BY <2>1 DEF Sound, RowsStay
<1> QED BY <1>1 DEF RequestsOK

LEMMA QueueWaits ==
  ASSUME Queued, RowsStay, queue' = queue
  PROVE  Queued'
  BY DEF Queued, Messages, RowsStay

LEMMA QueueGrows ==
  ASSUME Queued, RowsStay, NEW m \in Messages, files[m.file].hash # NoRevision
  PROVE  queue' \subseteq queue \cup {m} => Queued'
  BY DEF Queued, Messages, RowsStay

LEMMA JobWaits ==
  ASSUME JobOK, UNCHANGED job, RowsStay, queue' = queue \/ Queued'
  PROVE  JobOK'
<1>1. Queued'
  BY QueueWaits DEF JobOK
<1> QED BY <1>1 DEF JobOK, SoundJob, RowsStay

(* What a request finds in its own state. *)
LEMMA RequestIs ==
  ASSUME TypeInv, NEW u \in Requests
  PROVE  /\ req[u] \in Request /\ u[1] \in Files
         /\ req[u].rev \in Hash /\ req[u].old \in Hash
         /\ req[u].pc # "idle" => u[1] \in plan.copies /\ req[u].rev \in Revisions
         /\ req[u].pc \in AtRow => files[u[1]].hash # NoRevision
         /\ req[u].pc = "preserve" => req[u].old \in Revisions
         /\ local[u[1]] \in Hash /\ files[u[1]] \in Row
         /\ u[1] \in plan.copies => local[u[1]] \in Revisions
<1>1. req[u] \in Request /\ u[1] \in Files /\ Sound(u, req[u])
  BY Distinct DEF TypeInv, RequestsOK
<1>2. req[u].pc \in AtRow => req[u].pc # "idle"
  BY DEF AtRow
<1> QED BY <1>1, <1>2, Distinct DEF TypeInv, RowsOK, CollectorOK, Sound, Request, Hash

(* A request that only moves on. *)
LEMMA AdvanceMoves ==
  ASSUME TypeInv, NEW u \in Requests, NEW pc \in {"put", "upsert"} \cup AtRow, Advance(u, pc),
         req[u].pc # "idle", plan' = plan, RowsStay,
         pc \in AtRow => files'[u[1]].hash # NoRevision
  PROVE  RequestsOK' /\ CollectorOK' /\ saved' = saved
<1> DEFINE q == [req[u] EXCEPT !.pc = pc]
<1>1. q \in Request /\ q.pc = pc /\ q.rev = req[u].rev
  BY RequestIs DEF Request
<1>2. req' = [req EXCEPT ![u] = q]
  BY DEF Advance
<1>3. u[1] \in plan.copies /\ req[u].rev \in Revisions
  BY RequestIs
<1> HIDE DEF q
<1>4. RequestsOK'
  BY <1>1, <1>2, <1>3, RequestMoves DEF TypeInv, AtRow
<1> QED BY <1>4 DEF Advance, collectorVars, TypeInv, CollectorOK

LEMMA BeginMoves ==
  ASSUME TypeInv, NEW u \in Requests, NEW pc \in {"look", "check"}, Begin(u, pc),
         u[1] \in plan.copies
  PROVE  TypeInv'
<1> DEFINE q == [IdleRequest EXCEPT !.pc = pc, !.rev = local[u[1]]]
<1>1. q \in Request /\ q.pc = pc /\ q.rev = local[u[1]]
  BY RequestIs DEF Request, IdleRequest, Hash
<1>2. req' = [req EXCEPT ![u] = q] /\ live' = [live EXCEPT ![u[1]] = u]
  BY DEF Begin
<1>3. local[u[1]] \in Revisions
  BY RequestIs
<1> HIDE DEF q
<1>4. RowsStay /\ plan' = plan /\ UNCHANGED <<local, known, rawVars, files, indexVars, queue, job, historyVars>>
  BY DEF Begin, RowsStay, budget
<1>5. RequestsOK'
  BY <1>1, <1>2, <1>3, <1>4, RequestMoves DEF TypeInv, AtRow
<1>6. CollectorOK'
  BY <1>2, <1>4, Distinct DEF TypeInv, CollectorOK
<1>7. JobOK'
  BY <1>4, JobWaits DEF TypeInv, JobOK
<1> QED BY <1>4, <1>5, <1>6, <1>7 DEF TypeInv, RowsOK, StoreOK, rawVars, indexVars, historyVars

(* A request that is answered. *)
LEMMA AnswerMoves ==
  ASSUME TypeInv, NEW u \in Requests, Answer(u), req[u].pc # "idle", plan' = plan, RowsStay
  PROVE  RequestsOK' /\ CollectorOK' /\ saved' \in [Files -> SUBSET Revisions]
<1>1. u[1] \in Files /\ u[1] \in plan.copies /\ req[u].rev \in Revisions
  BY RequestIs
<1>2. req' = [req EXCEPT ![u] = IdleRequest]
  BY DEF Answer
<1>3. RequestsOK'
  BY <1>2, IdleIsTyped, RequestMoves DEF TypeInv, IdleRequest
<1>4. saved' \in [Files -> SUBSET Revisions]
  BY <1>1 DEF Answer, TypeInv, StoreOK
<1>5. CollectorOK'
  BY <1>1 DEF Answer, TypeInv, CollectorOK, Hash
<1> QED BY <1>3, <1>4, <1>5

LEMMA ServeTyped ==
  ASSUME TypeInv, NEW u \in Requests, Serve(u)
  PROVE  TypeInv'
<1> DEFINE f == u[1]
<1>0. f \in Files /\ req[u] \in Request
  BY RequestIs
<1>r. UNCHANGED files => RowsStay
  BY DEF RowsStay
<1>j. JobOK /\ StoreOK /\ RowsOK /\ RequestsOK /\ CollectorOK
  BY DEF TypeInv
<1>1. ASSUME Look(u) PROVE TypeInv'
  <2> DEFINE same == files[f].hash = req[u].rev
             pc == IF same THEN "row"
                   ELSE IF files[f] = NoRow \/ Appends(req[u].rev, files[f]) THEN "put" ELSE "preserve"
             q == [req[u] EXCEPT !.old = files[f].hash, !.same = same,
                                 !.requeue = same /\ Unparsed(files[f]), !.pc = pc]
  <2>1. req' = [req EXCEPT ![u] = q] /\ req[u].pc = "look"
    BY <1>1 DEF Look
  <2>2. files[f].hash \in Hash
    BY <1>0, <1>j DEF RowsOK, Row
  <2>3. q \in Request /\ q.rev = req[u].rev /\ q.pc = pc
    BY <1>0, <2>2 DEF Request, AtRow, Unparsed
  <2>4. u[1] \in plan.copies /\ req[u].rev \in Revisions
    BY <2>1, RequestIs
  <2>5. /\ pc \in AtRow => files[f].hash # NoRevision
        /\ pc = "preserve" => q.old \in Revisions
    <3>1. files[f].hash = NoRevision => files[f] = NoRow
      BY <1>0, <1>j DEF RowsOK, Row, NoRow
    <3>2. q.old = files[f].hash
      BY <1>0 DEF Request
    <3> QED BY <2>2, <2>4, <3>1, <3>2, Distinct DEF AtRow, Hash
  <2> HIDE DEF q, pc
  <2>6. UNCHANGED <<collectorVars, rawVars, files, indexVars, queue, job, historyVars, budget>>
    BY <1>1 DEF Look
  <2>7. RequestsOK'
    BY <1>j, <1>r, <2>1, <2>3, <2>4, <2>5, <2>6, RequestMoves DEF budget
  <2> QED BY <1>j, <1>r, <2>6, <2>7, JobWaits
          DEF TypeInv, CollectorOK, RowsOK, StoreOK, JobOK, collectorVars, rawVars, indexVars, historyVars, budget
<1>2. ASSUME NEW pc \in {"put", "upsert"} \cup AtRow, Advance(u, pc), req[u].pc # "idle",
             UNCHANGED <<files, indexVars, queue, job, judged, budget>>,
             r2' \in [Files -> Hash], prev' \in [Files -> SUBSET Revisions],
             pc \in AtRow => files[f].hash # NoRevision
      PROVE  TypeInv'
  <2>1. RequestsOK' /\ CollectorOK' /\ saved' = saved
    BY <1>2, <1>r, AdvanceMoves DEF budget
  <2> QED BY <1>j, <1>r, <1>2, <2>1, JobWaits DEF TypeInv, RowsOK, StoreOK, JobOK, indexVars
<1>3. ASSUME Preserve(u) PROVE TypeInv'
  <2>1. req[u].pc = "preserve" /\ req[u].old \in Revisions
    BY <1>3, RequestIs DEF Preserve
  <2>2. prev' \in [Files -> SUBSET Revisions] /\ r2' \in [Files -> Hash]
    BY <1>0, <1>3, <1>j, <2>1 DEF Preserve, StoreOK
  <2> QED BY <1>2, <1>3, <2>1, <2>2 DEF Preserve, AtRow
<1>4. ASSUME Put(u) PROVE TypeInv'
  <2>1. req[u].rev \in Hash
    BY RequestIs
  <2>2. r2' \in [Files -> Hash] /\ prev' \in [Files -> SUBSET Revisions]
    BY <1>0, <1>4, <1>j, <2>1 DEF Put, StoreOK
  <2> QED BY <1>2, <1>4, <2>2 DEF Put, AtRow
<1>5. ASSUME Upsert(u) PROVE TypeInv'
  <2>1. req[u].pc = "upsert" /\ req[u].rev \in Revisions /\ files' = [files EXCEPT ![f] = Restamp(u)]
    BY <1>5, RequestIs DEF Upsert
  <2>2. Restamp(u) \in Row /\ Restamp(u).hash \in Revisions /\ Restamp(u).state = "pending"
    BY <2>1 DEF Restamp, Row, State, Hash
  <2>3. RowsOK' /\ RowsStay /\ files'[f].hash # NoRevision
    BY <1>0, <1>j, <2>1, <2>2, Distinct DEF RowsOK, RowsStay
  <2>4. RequestsOK' /\ CollectorOK' /\ saved' = saved
    BY <1>5, <2>1, <2>3, AdvanceMoves DEF Upsert, AtRow, budget
  <2> QED BY <1>5, <1>j, <2>3, <2>4, JobWaits DEF Upsert, TypeInv, StoreOK, JobOK, rawVars, indexVars
<1>6. ASSUME ConvergeRow(u) PROVE TypeInv'
  <2>1. PICK pc \in {"head", "settle", "flip"} : Advance(u, pc)
    BY <1>6 DEF ConvergeRow, Converged
  <2>2. req[u].pc = "row" /\ files[f].hash # NoRevision
    BY <1>6, RequestIs DEF ConvergeRow, AtRow
  <2> QED BY <1>2, <1>6, <1>j, <2>1, <2>2 DEF ConvergeRow, AtRow, rawVars, StoreOK
<1>7. ASSUME ConvergeHead(u) PROVE TypeInv'
  <2>1. PICK pc \in {"reput", "settle", "flip"} : Advance(u, pc)
    BY <1>7 DEF ConvergeHead, Converged
  <2>2. req[u].pc = "head" /\ files[f].hash # NoRevision
    BY <1>7, RequestIs DEF ConvergeHead, AtRow
  <2> QED BY <1>2, <1>7, <1>j, <2>1, <2>2 DEF ConvergeHead, AtRow, rawVars, StoreOK
<1>8. ASSUME NEW q \in Request, req' = [req EXCEPT ![u] = q], req[u].pc # "idle",
             q.rev \in Revisions, q.pc # "preserve",
             q.pc \in AtRow => files[f].hash # NoRevision,
             r2' \in [Files -> Hash],
             UNCHANGED <<collectorVars, prev, files, indexVars, queue, job, historyVars, budget>>
      PROVE  TypeInv'
  <2>1. u[1] \in plan.copies
    BY <1>8, RequestIs
  <2>2. RequestsOK'
    BY <1>8, <1>j, <1>r, <2>1, RequestMoves DEF budget
  <2> QED BY <1>8, <1>j, <1>r, <2>2, JobWaits
          DEF TypeInv, CollectorOK, RowsOK, StoreOK, JobOK, collectorVars, indexVars, historyVars, budget
<1>9. ASSUME ConvergePut(u) PROVE TypeInv'
  <2> DEFINE q == [req[u] EXCEPT !.pc = Converged(u), !.requeue = TRUE]
  <2>1. req[u].pc = "reput" /\ files[f].hash # NoRevision /\ req[u].rev \in Revisions
    BY <1>9, RequestIs DEF ConvergePut, AtRow
  <2>2. q \in Request /\ q.rev = req[u].rev /\ q.pc = Converged(u) /\ q.pc # "preserve"
    BY <1>0 DEF Request, Converged, AtRow
  <2>3. req' = [req EXCEPT ![u] = q] /\ r2' = [r2 EXCEPT ![f] = req[u].rev]
    BY <1>9 DEF ConvergePut
  <2> HIDE DEF q
  <2>4. r2' \in [Files -> Hash]
    BY <1>0, <1>j, <2>1, <2>3 DEF StoreOK, Hash
  <2> QED BY <1>8, <1>9, <2>1, <2>2, <2>3, <2>4 DEF ConvergePut
<1>10. ASSUME Answer(u), req[u].pc # "idle", UNCHANGED <<rawVars, files, indexVars, job, judged, budget>>,
              queue' = queue \/ Queued'
       PROVE  TypeInv'
  <2>1. RequestsOK' /\ CollectorOK' /\ saved' \in [Files -> SUBSET Revisions]
    BY <1>10, <1>r, AnswerMoves DEF budget
  <2> QED BY <1>10, <1>j, <1>r, <2>1, JobWaits DEF TypeInv, RowsOK, StoreOK, JobOK, rawVars, indexVars
<1>11. ASSUME Settle(u) PROVE TypeInv'
  <2>1. req[u].pc = "settle" /\ files[f].hash # NoRevision
    BY <1>11, RequestIs DEF Settle, AtRow
  <2>2. CASE Advance(u, "mark")
    BY <1>2, <1>11, <1>j, <2>1, <2>2 DEF Settle, AtRow, rawVars, StoreOK
  <2>3. CASE Answer(u)
    BY <1>10, <1>11, <1>j, <2>1, <2>3 DEF Settle, JobOK
  <2> QED BY <1>11, <2>2, <2>3 DEF Settle
<1>12. ASSUME Flip(u) PROVE TypeInv'
  <2>1. req[u].pc = "flip" /\ files[f].hash # NoRevision /\ Advance(u, "send")
    BY <1>12, RequestIs DEF Flip, AtRow
  <2>2. StoreOK' /\ RequestsOK' /\ CollectorOK'
    <3>1. RequestsOK' /\ CollectorOK' /\ saved' = saved
      BY <1>12, <1>r, <2>1, AdvanceMoves DEF Flip, AtRow, budget
    <3> QED BY <1>12, <1>j, <3>1 DEF Flip, StoreOK, SetSession, rawVars, indexVars
  <2> QED BY <1>12, <1>j, <1>r, <2>2, JobWaits DEF Flip, TypeInv, RowsOK, JobOK
<1>13. ASSUME MarkPending(u) PROVE TypeInv'
  <2>1. req[u].pc = "mark" /\ files[f].hash # NoRevision
    BY <1>13, RequestIs DEF MarkPending, AtRow
  <2>2. RowsOK' /\ RowsStay /\ files'[f].hash # NoRevision
    BY <1>0, <1>13, <1>j, <2>1 DEF MarkPending, RowsOK, RowsStay, Row, State
  <2>3. RequestsOK' /\ CollectorOK' /\ saved' = saved
    BY <1>13, <2>1, <2>2, AdvanceMoves DEF MarkPending, AtRow, budget
  <2> QED BY <1>13, <1>j, <2>2, <2>3, JobWaits DEF MarkPending, TypeInv, StoreOK, JobOK, rawVars, indexVars
<1>14. ASSUME Enqueue(u) PROVE TypeInv'
  <2>1. req[u].pc = "send" /\ req[u].rev \in Revisions /\ files[f].hash # NoRevision
    BY <1>14, RequestIs DEF Enqueue, AtRow
  <2> DEFINE m == Message(f, req[u].rev, "upload")
  <2>m. m \in Messages /\ m.file = f /\ queue' = queue \cup {m} /\ RowsStay
    BY <1>0, <1>14, <1>r, <2>1 DEF Enqueue, Message, Messages
  <2> HIDE DEF m
  <2>2. Queued'
    BY <1>j, <2>1, <2>m, QueueGrows DEF JobOK
  <2> QED BY <1>10, <1>14, <2>1, <2>2 DEF Enqueue
<1>15. Missing(u) \in Request /\ (req[u].pc # "idle" => Missing(u).rev \in Revisions) /\ Missing(u).pc = "look"
  BY RequestIs DEF Missing, Request
<1>16. ASSUME Check(u) PROVE TypeInv'
  <2>1. req[u].pc = "check" /\ req[u].rev \in Revisions
    BY <1>16, RequestIs DEF Check
  <2>2. PICK q : /\ q = IF files[f].hash = req[u].rev
                          THEN [req[u] EXCEPT !.pc = "checkHead", !.requeue = Unparsed(files[f])]
                          ELSE Missing(u)
                 /\ req' = [req EXCEPT ![u] = q]
    BY <1>16 DEF Check
  <2>3. q \in Request /\ q.rev \in Revisions /\ q.pc # "preserve" /\ (q.pc \in AtRow => files[f].hash # NoRevision)
    BY ZenonT(40), <1>0, <1>15, <2>1, <2>2, Distinct DEF Request, AtRow, Unparsed
  <2> QED BY <1>8, <1>16, <1>j, <2>1, <2>2, <2>3 DEF Check, rawVars, StoreOK
<1>17. ASSUME CheckHead(u) PROVE TypeInv'
  <2>1. req[u].pc = "checkHead" /\ req[u].rev \in Revisions /\ files[f].hash # NoRevision
    BY <1>17, RequestIs DEF CheckHead, AtRow
  <2>2. PICK q : /\ q = IF r2[f] = req[u].rev THEN [req[u] EXCEPT !.pc = "settle"] ELSE Missing(u)
                 /\ req' = [req EXCEPT ![u] = q]
    BY <1>17 DEF CheckHead
  <2>3. q \in Request /\ q.rev \in Revisions /\ q.pc # "preserve"
    BY <1>0, <1>15, <2>1, <2>2 DEF Request, AtRow
  <2> QED BY <1>8, <1>17, <1>j, <2>1, <2>2, <2>3 DEF CheckHead, rawVars, StoreOK
<1> QED BY <1>1, <1>3, <1>4, <1>5, <1>6, <1>7, <1>9, <1>11, <1>12, <1>13, <1>14, <1>16, <1>17 DEF Serve

-----------------------------------------------------------------------------
(* The collector and the faults of the world. *)

LEMMA CollectorTyped ==
  ASSUME TypeInv, [\/ \E f \in Files : Edit(f) \/ LoseObject(f)
                   \/ \E u \in Requests : Send(u) \/ SendAgain(u) \/ Backfill(u) \/ Crash(u)]_vars
  PROVE  TypeInv'
<1>r. UNCHANGED files => RowsStay
  BY DEF RowsStay
<1>j. JobOK /\ StoreOK /\ RowsOK /\ RequestsOK /\ CollectorOK
  BY DEF TypeInv
<1>w. ASSUME CollectorOK', StoreOK', UNCHANGED <<req, files, queue, job, plan>> PROVE TypeInv'
  BY <1>j, <1>r, <1>w, RequestsWait, JobWaits DEF TypeInv, RowsOK, JobOK
<1>1. ASSUME NEW f \in Files, Edit(f) PROVE TypeInv'
  <2>1. PICK r \in plan.contents : local' = [local EXCEPT ![f] = r]
    BY <1>1 DEF Edit
  <2>2. r \in Revisions /\ f \in plan.copies
    BY <1>1, <1>j, Distinct DEF Edit, CollectorOK
  <2>3. CollectorOK'
    BY <1>1, <1>j, <2>1, <2>2, Distinct DEF Edit, CollectorOK, Hash
  <2> QED BY <1>1, <1>j, <1>w, <2>3 DEF Edit, StoreOK, rawVars, indexVars, historyVars
<1>2. ASSUME NEW f \in Files, LoseObject(f) PROVE TypeInv'
  <2>1. PICK r \in plan.contents \cup {NoRevision} : r2' = [r2 EXCEPT ![f] = r]
    BY <1>2 DEF LoseObject
  <2>2. r \in Hash
    BY <1>j, <2>1, Distinct DEF CollectorOK, Hash
  <2>3. StoreOK'
    BY <1>2, <1>j, <2>1, <2>2 DEF LoseObject, StoreOK, indexVars, historyVars
  <2> QED BY <1>2, <1>j, <1>w, <2>3 DEF LoseObject, CollectorOK, collectorVars, budget
<1>3. ASSUME NEW u \in Requests, Send(u) PROVE TypeInv'
  <2>1. u[1] \in plan.copies
    BY <1>3, <1>j, Distinct DEF Send, CollectorOK
  <2> QED BY <1>3, <2>1, BeginMoves DEF Send
<1>4. ASSUME NEW u \in Requests, SendAgain(u) PROVE TypeInv'
  <2>1. u[1] \in plan.copies
    BY <1>4, <1>j, Distinct DEF SendAgain, CollectorOK
  <2> QED BY <1>4, <2>1, BeginMoves DEF SendAgain
<1>5. ASSUME NEW u \in Requests, Backfill(u) PROVE TypeInv'
  BY <1>5, BeginMoves DEF Backfill
<1>6. ASSUME NEW u \in Requests, Crash(u) PROVE TypeInv'
  <2>1. req' = [req EXCEPT ![u] = IdleRequest] /\ plan' = plan /\ UNCHANGED files
    BY <1>6 DEF Crash, budget
  <2>2. RequestsOK'
    BY <1>j, <1>r, <2>1, IdleIsTyped, RequestMoves DEF IdleRequest
  <2>3. CollectorOK'
    BY <1>6, <1>j, Distinct DEF Crash, CollectorOK, budget, Hash
  <2> QED BY <1>6, <1>j, <1>r, <2>2, <2>3, JobWaits
          DEF Crash, TypeInv, RowsOK, StoreOK, JobOK, rawVars, indexVars, historyVars
<1>7. ASSUME UNCHANGED vars PROVE TypeInv'
  <2>1. CollectorOK' /\ StoreOK'
    BY <1>7, <1>j DEF vars, CollectorOK, StoreOK, collectorVars, rawVars, indexVars, historyVars, budget
  <2> QED BY <1>7, <1>w, <2>1 DEF vars, budget
<1> QED BY <1>1, <1>2, <1>3, <1>4, <1>5, <1>6, <1>7

-----------------------------------------------------------------------------
(* The steps of the consumer. *)

LEMMA DeliveredIsMessage ==
  ASSUME JobOK, job.pc # "idle", RowsStay
  PROVE  /\ Queued /\ Delivered \in Messages /\ files[Delivered.file].hash # NoRevision
         /\ queue' = queue \/ queue' = queue \cup {Delivered} => Queued'
<1>1. Queued /\ Delivered \in Messages /\ files[Delivered.file].hash # NoRevision
  BY DEF JobOK, SoundJob, Job, Delivered, Message, Messages
<1> QED BY <1>1, QueueWaits, QueueGrows

(* A row that changes its state keeps its content. *)
LEMMA RowRestated ==
  ASSUME RowsOK, NEW f \in Files, files[f].hash # NoRevision, NEW state \in State \ {"absent"},
         files' = [files EXCEPT ![f].state = state]
  PROVE  RowsOK' /\ RowsStay
  BY DEF RowsOK, RowsStay, Row

LEMMA HubStays ==
  ASSUME TypeInv, UNCHANGED hubVars, RowsStay
  PROVE  /\ CollectorOK' /\ RequestsOK' /\ UNCHANGED <<r2, prev, saved, plan>>
  BY RequestsWait DEF TypeInv, CollectorOK, hubVars, collectorVars, rawVars, budget

(* The delivery goes on to another step. *)
LEMMA JobMoves ==
  ASSUME JobOK, job.pc # "idle", RowsStay, Queued',
         NEW j \in Job, job' = j, j.file = job.file, j.hash = job.hash,
         j.pc # "idle",
         j.pc \in {"kick", "kicked"} =>
           j.next \in Files /\ j.nextHash \in Revisions /\ files'[j.next].hash # NoRevision
  PROVE  JobOK'
  BY DEF JobOK, SoundJob, RowsStay

(* The delivery is over. *)
LEMMA JobEnds ==
  ASSUME job' = IdleJob, Queued'
  PROVE  JobOK'
  BY IdleIsTyped DEF JobOK, SoundJob, IdleJob

LEMMA EndsAre ==
  ASSUME JobOK, job.pc # "idle", RowsStay
  PROVE  /\ Ack => JobOK'
         /\ Retry => JobOK'
         /\ Requeued => Queued'
<1>1. Ack => queue' = queue \/ queue' = queue \cup {Delivered}
  BY DEF Ack
<1>2. Requeued => queue' = queue \/ queue' = queue \cup {Delivered}
  BY DEF Requeued
<1>3. queue' = queue \/ queue' = queue \cup {Delivered} => Queued'
  BY DeliveredIsMessage
<1> QED BY <1>1, <1>2, <1>3, JobEnds DEF Ack, Retry

LEMMA StepMoves ==
  ASSUME JobOK, NEW pc \in JobPlace \ {"idle", "kick", "kicked"}, Step(pc),
         job.pc # "idle", RowsStay, queue' = queue
  PROVE  JobOK'
<1> DEFINE j == [job EXCEPT !.pc = pc]
<1>1. j \in Job /\ j.pc = pc /\ j.file = job.file /\ j.hash = job.hash
  BY DEF JobOK, Job
<1>2. job' = j /\ Queued'
  BY QueueWaits DEF Step, JobOK
<1> HIDE DEF j
<1> QED BY <1>1, <1>2, JobMoves

LEMMA ConsumeTyped ==
  ASSUME TypeInv, Consume \/ Throw
  PROVE  TypeInv'
<1>r. UNCHANGED files => RowsStay
  BY DEF RowsStay
<1>j. JobOK /\ StoreOK /\ RowsOK /\ RequestsOK /\ CollectorOK
  BY DEF TypeInv
<1>f. job.pc # "idle" =>
        /\ job.file \in Files /\ job.hash \in Revisions /\ job.bytes \in Hash /\ job \in Job
        /\ files[job.file].hash # NoRevision
  BY <1>j DEF JobOK, SoundJob, Job
<1>a. ASSUME UNCHANGED <<hubVars, files, indexVars, judged>>, JobOK' PROVE TypeInv'
  BY <1>a, <1>j, <1>r, HubStays DEF TypeInv, RowsOK, StoreOK, indexVars
<1>b. ASSUME UNCHANGED <<hubVars, files, judged>>, JobOK',
             session' \in [state : {"absent", "parsing", "ready", "error"}, file : Owner,
                           rev : Hash, bytes : Hash],
             owned' \in BOOLEAN
      PROVE  TypeInv'
  BY <1>b, <1>j, <1>r, HubStays DEF TypeInv, RowsOK, StoreOK
<1>c. ASSUME UNCHANGED <<hubVars, indexVars>>, JobOK', RowsOK', RowsStay, judged' \in [Files -> Hash]
      PROVE  TypeInv'
  BY <1>c, <1>j, HubStays DEF TypeInv, StoreOK, indexVars
<1>1. ASSUME NEW m \in queue, Deliver(m) PROVE TypeInv'
  <2>1. m \in Messages /\ m.file \in Files /\ m.hash \in Revisions /\ files[m.file].hash # NoRevision
    BY <1>j DEF JobOK, Queued, Messages
  <2> DEFINE pc == IF files[m.file].hash = m.hash THEN "canonical" ELSE "stale"
             j == [IdleJob EXCEPT !.pc = pc, !.file = m.file, !.hash = m.hash, !.reason = m.reason]
  <2>2. j \in Job /\ j.pc = pc /\ j.file = m.file /\ j.hash = m.hash
    BY <2>1 DEF Job, IdleJob, JobPlace, Hash, Owner, Messages
  <2>3. job' = j /\ queue' = queue \ {m} /\ UNCHANGED <<hubVars, files, session, judged>> /\ owned' = FALSE
    BY <1>1 DEF Deliver
  <2> HIDE DEF j
  <2>4. JobOK'
    BY <1>j, <2>1, <2>2, <2>3, Distinct DEF JobOK, SoundJob, Queued
  <2> QED BY <1>b, <1>j, <2>3, <2>4 DEF StoreOK
<1>2. ASSUME Reject PROVE TypeInv'
  BY <1>2, <1>a, <1>j, <1>r, EndsAre DEF Reject
<1>3. ASSUME NEW pc \in JobPlace \ {"idle", "kick", "kicked"}, Step(pc), job.pc # "idle",
             UNCHANGED <<hubVars, files, indexVars, queue, judged>>
      PROVE  TypeInv'
  BY <1>3, <1>a, <1>j, <1>r, StepMoves
<1>4. ASSUME ChooseCanonical PROVE TypeInv'
  <2>1. PICK pc \in {"supersede", "get"} : Step(pc)
    BY <1>4 DEF ChooseCanonical
  <2> QED BY <1>3, <1>4, <2>1 DEF ChooseCanonical, JobPlace
<1>5. ASSUME Supersede PROVE TypeInv'
  <2>2. job.file \in Files /\ job.hash \in Revisions /\ files[job.file].hash # NoRevision
    BY <1>5, <1>f DEF Supersede
  <2>3. RowsOK' /\ RowsStay
    BY <1>5, <1>j, <2>2 DEF Supersede, RowsOK, RowsStay, Row, State, Terminal
  <2>4. judged' \in [Files -> Hash]
    BY <1>5, <1>j, <2>2 DEF Supersede, StoreOK, Hash
  <2>1. JobOK'
    BY <1>5, <1>j, <2>3, EndsAre DEF Supersede
  <2> QED BY <1>5, <1>c, <2>1, <2>3, <2>4 DEF Supersede
<1>6. ASSUME Read PROVE TypeInv'
  <2> DEFINE pc == IF r2[job.file] = NoRevision THEN "fail"
                   ELSE IF ParseOf[r2[job.file]] = "turns" THEN "rank" ELSE "empty"
             j == [job EXCEPT !.bytes = r2[job.file], !.pc = pc]
  <2>1. job' = j /\ job.pc = "get" /\ UNCHANGED <<hubVars, files, indexVars, queue, judged>>
    BY <1>6 DEF Read
  <2>2. job \in Job /\ r2[job.file] \in Hash
    BY <1>f, <1>j, <2>1 DEF StoreOK
  <2>3. j \in Job /\ j.pc = pc /\ j.file = job.file /\ j.hash = job.hash
    BY <2>2 DEF Job, JobPlace
  <2>4. Queued' /\ pc \notin {"idle", "kick", "kicked"}
    BY <1>j, <1>r, <2>1, QueueWaits DEF JobOK
  <2> HIDE DEF j, pc
  <2>5. JobOK'
    BY <1>j, <1>r, <2>1, <2>3, <2>4, JobMoves
  <2> QED BY <1>a, <2>1, <2>5
<1>7. ASSUME Rank PROVE TypeInv'
  <2>1. PICK pc \in {"supersede", "recheck"} : Step(pc)
    BY <1>7 DEF Rank
  <2> QED BY <1>3, <1>7, <2>1 DEF Rank, JobPlace
<1>8. ASSUME Recheck PROVE TypeInv'
  <2>1. PICK pc \in {"invalidate", "stale"} : Step(pc)
    BY <1>8 DEF Recheck
  <2> QED BY <1>3, <1>8, <2>1 DEF Recheck, JobPlace
<1>9. ASSUME Invalidate PROVE TypeInv'
  <2>1. job.pc = "invalidate" /\ UNCHANGED <<hubVars, files, judged>>
    BY <1>9 DEF Invalidate
  <2>2. job.file \in Owner /\ job \in Job
    BY <1>f, <2>1 DEF Owner
  <2>3. /\ session' \in [state : {"absent", "parsing", "ready", "error"}, file : Owner,
                         rev : Hash, bytes : Hash]
        /\ owned' \in BOOLEAN
    BY <1>9, <1>j, <2>2 DEF Invalidate, StoreOK
  <2> DEFINE j == [job EXCEPT !.pc = "publish", !.wrote = TRUE]
  <2>4. j \in Job /\ j.pc = "publish" /\ j.file = job.file /\ j.hash = job.hash
    BY <2>2 DEF Job, JobPlace
  <2>5. \/ job' = j /\ UNCHANGED queue
        \/ Retry
    BY <1>9 DEF Invalidate
  <2> HIDE DEF j
  <2>6. UNCHANGED queue => Queued'
    BY <1>j, <1>r, <2>1, QueueWaits DEF JobOK
  <2>7. JobOK'
    BY <1>j, <1>r, <2>1, <2>4, <2>5, <2>6, JobMoves, EndsAre
  <2> QED BY <1>b, <2>1, <2>3, <2>7
<1>10. ASSUME Publish PROVE TypeInv'
  <2>1. job.pc = "publish" /\ UNCHANGED <<hubVars, files, owned, judged>>
    BY <1>10 DEF Publish
  <2>2. job.file \in Owner /\ job.hash \in Hash /\ job.bytes \in Hash
    BY <1>f, <2>1 DEF Owner, Hash
  <2>3. /\ session' \in [state : {"absent", "parsing", "ready", "error"}, file : Owner,
                         rev : Hash, bytes : Hash]
        /\ owned' \in BOOLEAN
    BY <1>10, <1>j, <2>1, <2>2 DEF Publish, StoreOK
  <2>4. JobOK'
    <3>1. (Step("parsed") /\ UNCHANGED queue) \/ Retry
      BY <1>10 DEF Publish
    <3> QED BY <1>j, <1>r, <2>1, <3>1, StepMoves, EndsAre DEF JobPlace
  <2> QED BY <1>b, <2>1, <2>3, <2>4
<1>11. ASSUME MarkParsed PROVE TypeInv'
  <2>1. job.pc = "parsed" /\ UNCHANGED <<hubVars, indexVars, queue>>
    BY <1>11 DEF MarkParsed
  <2>2. PICK pc \in {"others", "revert"} : Step(pc)
    BY <1>11 DEF MarkParsed
  <2>3. JobOK' \/ ~RowsStay
    BY <1>j, <2>1, <2>2, StepMoves DEF JobPlace
  <2>4. \/ UNCHANGED <<files, judged>>
        \/ /\ files' = [files EXCEPT ![job.file].state = "parsed"]
           /\ judged' = [judged EXCEPT ![job.file] = job.hash]
    BY <1>11 DEF MarkParsed
  <2>5. RowsOK' /\ RowsStay
    BY <1>f, <1>j, <1>r, <2>1, <2>4, RowRestated DEF State, Terminal, RowsOK
  <2>6. judged' \in [Files -> Hash]
    BY <1>f, <1>j, <2>1, <2>4 DEF StoreOK, Hash
  <2> QED BY <1>c, <2>1, <2>3, <2>5, <2>6
<1>12. ASSUME Revert PROVE TypeInv'
  <2>1. JobOK' /\ UNCHANGED <<hubVars, files, judged>>
    BY <1>12, <1>j, <1>r, EndsAre DEF Revert
  <2>2. /\ session' \in [state : {"absent", "parsing", "ready", "error"}, file : Owner,
                         rev : Hash, bytes : Hash]
        /\ owned' \in BOOLEAN
    BY <1>12, <1>j DEF Revert, SetSession, indexVars, StoreOK
  <2> QED BY <1>b, <2>1, <2>2
<1>13. ASSUME SupersedeOthers PROVE TypeInv'
  <2>1. RowsStay => JobOK' /\ UNCHANGED <<hubVars, indexVars>>
    BY <1>13, <1>j, EndsAre DEF SupersedeOthers
  <2>2. PICK won \in BOOLEAN :
          /\ files' = [f \in Files |-> IF won /\ f \in Losers
                                         THEN [files[f] EXCEPT !.state = "superseded"] ELSE files[f]]
          /\ judged' = [f \in Files |-> IF won /\ f \in Losers THEN files[f].hash ELSE judged[f]]
    BY <1>13 DEF SupersedeOthers
  <2>3. ASSUME NEW f \in Files
        PROVE  /\ files'[f] \in Row /\ files'[f].hash = files[f].hash
               /\ files'[f].state = "absent" <=> files'[f].hash = NoRevision
               /\ judged'[f] \in Hash
    BY <1>j, <2>2 DEF RowsOK, Row, State, Terminal, Losers, StoreOK
  <2>4. RowsOK' /\ RowsStay /\ judged' \in [Files -> Hash]
    BY <2>2, <2>3 DEF RowsOK, RowsStay
  <2> QED BY <1>c, <2>1, <2>4
<1>14. ASSUME MarkEmpty PROVE TypeInv'
  <2>1. job.pc = "empty" /\ UNCHANGED <<hubVars, indexVars, queue>>
    BY <1>14 DEF MarkEmpty
  <2>2. PICK pc \in {"clear", "stale"} : Step(pc)
    BY <1>14 DEF MarkEmpty
  <2>3. JobOK' \/ ~RowsStay
    BY <1>j, <2>1, <2>2, StepMoves DEF JobPlace
  <2>4. \/ UNCHANGED <<files, judged>>
        \/ \E state \in {"error", "skipped"} :
             /\ files' = [files EXCEPT ![job.file].state = state]
             /\ judged' = [judged EXCEPT ![job.file] = job.hash] \/ judged' = judged
    BY <1>14 DEF MarkEmpty
  <2>5. RowsOK' /\ RowsStay
    BY <1>f, <1>j, <1>r, <2>1, <2>4, RowRestated DEF State, Terminal, RowsOK
  <2>6. judged' \in [Files -> Hash]
    BY <1>f, <1>j, <2>1, <2>4 DEF StoreOK, Hash
  <2> QED BY <1>c, <2>1, <2>3, <2>5, <2>6
<1>15. ASSUME Clear PROVE TypeInv'
  <2>1. job.pc = "clear" /\ UNCHANGED <<hubVars, files, queue, judged>>
    BY <1>15 DEF Clear
  <2>2. PICK pc \in {"recover", "stale"} : Step(pc)
    BY <1>15 DEF Clear
  <2>3. JobOK'
    BY <1>j, <1>r, <2>1, <2>2, StepMoves DEF JobPlace
  <2>4. /\ session' \in [state : {"absent", "parsing", "ready", "error"}, file : Owner,
                         rev : Hash, bytes : Hash]
        /\ owned' \in BOOLEAN
    BY <1>15, <1>j DEF Clear, indexVars, StoreOK, Hash
  <2> QED BY <1>b, <2>1, <2>3, <2>4
<1>16. ASSUME Throw PROVE TypeInv'
  <2>1. UNCHANGED <<hubVars, files, indexVars, judged>> /\ job.pc # "idle"
    BY <1>16 DEF Throw, ThrowTransient
  <2>2. CASE job' = IdleJob /\ Requeued
    BY <1>a, <1>j, <1>r, <2>1, <2>2, EndsAre, JobEnds
  <2>3. CASE Step("fail") /\ UNCHANGED queue
    BY <1>a, <1>j, <1>r, <2>1, <2>3, StepMoves DEF JobPlace
  <2> QED BY <1>16, <2>2, <2>3 DEF Throw, ThrowTransient
<1>17. ASSUME FailFile PROVE TypeInv'
  <2>1. job.pc = "fail" /\ UNCHANGED <<hubVars, indexVars, judged>>
    BY <1>17 DEF FailFile
  <2>2. job \in Job /\ job.file \in Files /\ files[job.file].hash # NoRevision
    BY <1>f, <2>1
  <2> DEFINE j == [job EXCEPT !.pc = "failSession", !.failed = TRUE]
  <2>3. j \in Job /\ j.pc = "failSession" /\ j.file = job.file /\ j.hash = job.hash
    BY <2>2 DEF Job, JobPlace
  <2>4. \/ Retry /\ UNCHANGED files
        \/ /\ files' = [files EXCEPT ![job.file].state = "error"]
           /\ job' = j /\ UNCHANGED queue
    BY <1>17 DEF FailFile
  <2> HIDE DEF j
  <2>5. RowsOK' /\ RowsStay
    BY <1>j, <2>2, <2>4 DEF RowsOK, RowsStay, Row, State
  <2>6. JobOK'
    <3>1. UNCHANGED queue => Queued'
      BY <1>j, <2>5, QueueWaits DEF JobOK
    <3> QED BY <1>j, <2>1, <2>3, <2>4, <2>5, <3>1, JobMoves, EndsAre
  <2> QED BY <1>c, <1>j, <2>1, <2>5, <2>6 DEF StoreOK
<1>18. ASSUME FailSession PROVE TypeInv'
  <2>1. job.pc = "failSession" /\ UNCHANGED <<hubVars, files, judged>>
    BY <1>18 DEF FailSession
  <2>2. JobOK'
    <3>1. (Step("recover") /\ UNCHANGED queue) \/ Retry
      BY <1>18 DEF FailSession
    <3> QED BY <1>j, <1>r, <2>1, <3>1, StepMoves, EndsAre DEF JobPlace
  <2>3. /\ session' \in [state : {"absent", "parsing", "ready", "error"}, file : Owner,
                         rev : Hash, bytes : Hash]
        /\ owned' \in BOOLEAN
    BY <1>18, <1>j DEF FailSession, SetSession, indexVars, StoreOK
  <2> QED BY <1>b, <2>1, <2>2, <2>3
<1>19. ASSUME Recover PROVE TypeInv'
  <2>1. job.pc = "recover" /\ UNCHANGED <<hubVars, files, indexVars, judged>>
    BY <1>19 DEF Recover
  <2>2. CASE Finish
    BY <1>a, <1>j, <1>r, <2>1, <2>2, EndsAre DEF Finish
  <2>3. ASSUME NEW f \in RecoveryCandidates, UNCHANGED queue,
               job' = [job EXCEPT !.pc = "kick", !.next = f, !.nextHash = files[f].hash]
        PROVE  TypeInv'
    <3>1. f \in Files /\ files[f] # NoRow
      BY <2>3 DEF RecoveryCandidates, Uploaded
    <3>2. files[f].hash \in Revisions
      BY <1>j, <3>1 DEF RowsOK, Row, NoRow, Hash
    <3> DEFINE j == [job EXCEPT !.pc = "kick", !.next = f, !.nextHash = files[f].hash]
    <3>3. /\ j \in Job /\ j.pc = "kick" /\ j.file = job.file /\ j.hash = job.hash
          /\ j.next = f /\ j.nextHash = files[f].hash
      BY <1>f, <2>1, <3>1, <3>2 DEF Job, JobPlace, Owner, Hash
    <3>4. job' = j /\ Queued'
      BY <1>j, <1>r, <2>1, <2>3, QueueWaits DEF JobOK
    <3> HIDE DEF j
    <3>5. files'[f].hash # NoRevision
      BY <2>1, <3>2, Distinct
    <3>6. JobOK'
      BY <1>j, <1>r, <2>1, <3>1, <3>2, <3>3, <3>4, <3>5, JobMoves
    <3> QED BY <1>a, <2>1, <3>6
  <2>4. Finish \/ \E f \in RecoveryCandidates :
          /\ UNCHANGED queue
          /\ job' = [job EXCEPT !.pc = "kick", !.next = f, !.nextHash = files[f].hash]
    BY <1>19 DEF Recover
  <2> QED BY <2>2, <2>3, <2>4
<1>20. job.pc \in {"kick", "kicked"} =>
         job.next \in Files /\ job.nextHash \in Revisions /\ files[job.next].hash # NoRevision
  BY <1>j DEF JobOK, SoundJob
<1>21. ASSUME Kick PROVE TypeInv'
  <2>1. job.pc = "kick" /\ UNCHANGED <<hubVars, indexVars, queue, judged>>
    BY <1>21 DEF Kick
  <2>2. files' = [files EXCEPT ![job.next].state = "pending"] /\ job.next \in Files
    BY <1>20, <1>21, <2>1 DEF Kick
  <2>3. RowsOK' /\ RowsStay
    BY <1>20, <1>j, <2>1, <2>2 DEF RowsOK, RowsStay, Row, State
  <2> DEFINE j == [job EXCEPT !.pc = "kicked"]
  <2>4. /\ j \in Job /\ j.pc = "kicked" /\ j.file = job.file /\ j.hash = job.hash
        /\ j.next = job.next /\ j.nextHash = job.nextHash
    BY <1>f, <2>1 DEF Job, JobPlace
  <2>5. job' = j /\ Queued'
    BY <1>21, <1>j, <2>1, <2>3, QueueWaits DEF Kick, Step, JobOK
  <2> HIDE DEF j
  <2>6. files'[job.next].hash # NoRevision
    BY <1>20, <2>1, <2>3 DEF RowsStay
  <2>7. JobOK'
    BY <1>20, <1>j, <2>1, <2>3, <2>4, <2>5, <2>6, JobMoves
  <2> QED BY <1>c, <1>j, <2>1, <2>3, <2>7 DEF StoreOK
<1>22. ASSUME Kicked PROVE TypeInv'
  <2>1. job.pc = "kicked" /\ UNCHANGED <<hubVars, files, indexVars, judged>> /\ job' = IdleJob
    BY <1>22 DEF Kicked
  <2>2. Message(job.next, job.nextHash, "recover") \in Messages
    BY <1>20, <2>1 DEF Message, Messages
  <2>3. Queued /\ Delivered \in Messages /\ files[Delivered.file].hash # NoRevision
    BY <1>j, <1>r, <2>1, DeliveredIsMessage
  <2>4. \A m \in queue' : m \in Messages /\ files[m.file].hash # NoRevision
    BY <1>20, <1>22, <2>1, <2>2, <2>3 DEF Kicked, Queued, Message
  <2>5. Queued'
    BY <2>1, <2>4 DEF Queued, Messages
  <2> QED BY <1>a, <2>1, <2>5, JobEnds
<1> QED BY <1>1, <1>2, <1>4, <1>5, <1>6, <1>7, <1>8, <1>9, <1>10, <1>11, <1>12, <1>13, <1>14,
           <1>15, <1>16, <1>17, <1>18, <1>19, <1>21, <1>22 DEF Consume

LEMMA TypeInvHolds == Spec => []TypeInv
<1>1. Init => TypeInv
  <2> SUFFICES ASSUME Init PROVE TypeInv
    OBVIOUS
  <2>1. CollectorOK
    <3>1. plan \in Plans /\ plan.contents \subseteq Revisions
      BY Distinct DEF Init
    <3> QED BY <3>1 DEF Init, CollectorOK, Hash
  <2>2. RequestsOK
    BY IdleIsTyped DEF Init, RequestsOK, Sound, IdleRequest
  <2>3. RowsOK /\ JobOK
    BY IdleIsTyped DEF Init, RowsOK, NoRow, JobOK, SoundJob, IdleJob, Queued
  <2>4. StoreOK
    BY DEF Init, StoreOK, Hash, Owner
  <2> QED BY <2>1, <2>2, <2>3, <2>4 DEF TypeInv
<1>2. TypeInv /\ [Next]_vars => TypeInv'
  BY CollectorTyped, ServeTyped, ConsumeTyped DEF Next
<1> QED BY <1>1, <1>2, PTL DEF Spec

-----------------------------------------------------------------------------
(* What a step may do to a row and to what was judged of it. *)
JudgedWell(f) ==
  \/ files'[f] = files[f] /\ judged'[f] = judged[f]
  \/ files'[f].state \notin {"parsed", "skipped"}
  \/ judged'[f] = files'[f].hash

LEMMA StatesAreJudged ==
  ASSUME TypeInv, [Next]_vars, NEW f \in Files
  PROVE  JudgedWell(f)
<1>0. files \in [Files -> Row] /\ judged \in [Files -> Hash]
  BY DEF TypeInv, RowsOK, StoreOK
<1>j. job.pc # "idle" => job.file \in Files
  BY DEF TypeInv, JobOK, SoundJob
<1>1. ASSUME UNCHANGED <<files, judged>> PROVE JudgedWell(f)
  BY <1>1 DEF JudgedWell
<1>2. ASSUME NEW g \in Files, NEW row, row.state \notin {"parsed", "skipped"},
             files' = [files EXCEPT ![g] = row],
             judged' = judged
      PROVE  JudgedWell(f)
  BY <1>0, <1>2 DEF JudgedWell
<1>3. ASSUME NEW g \in Files, NEW state \in State, state \notin {"parsed", "skipped"},
             files' = [files EXCEPT ![g].state = state], judged' = judged
      PROVE  JudgedWell(f)
  BY <1>0, <1>3 DEF JudgedWell, Row
<1>4. ASSUME NEW state \in State, files' = [files EXCEPT ![job.file].state = state],
             judged' = [judged EXCEPT ![job.file] = job.hash], job.pc # "idle",
             state = "superseded" \/ SourceCurrent
      PROVE  JudgedWell(f)
  BY <1>0, <1>4, <1>j DEF JudgedWell, Row, SourceCurrent
<1>p. "pending" \in State /\ "pending" \notin {"parsed", "skipped"}
  BY DEF State
<1>5. ASSUME NEW u \in Requests, Serve(u) PROVE JudgedWell(f)
  <2>1. u[1] \in Files
    BY Distinct
  <2>2. ASSUME Upsert(u) PROVE JudgedWell(f)
    <3>1. files' = [files EXCEPT ![u[1]] = Restamp(u)] /\ judged' = judged
      BY <2>2 DEF Upsert
    <3>2. Restamp(u).state \notin {"parsed", "skipped"}
      BY DEF Restamp
    <3> QED BY <1>2, <2>1, <3>1, <3>2
  <2>3. ASSUME MarkPending(u) PROVE JudgedWell(f)
    <3>1. files' = [files EXCEPT ![u[1]].state = "pending"] /\ judged' = judged
      BY <2>3 DEF MarkPending
    <3> QED BY <1>3, <1>p, <2>1, <3>1
  <2>4. ASSUME ~Upsert(u), ~MarkPending(u) PROVE JudgedWell(f)
    BY <1>1, <1>5, <2>4 DEF Serve, Look, Preserve, Put, ConvergeRow, ConvergeHead, ConvergePut, Settle,
          Flip, Enqueue, Check, CheckHead, historyVars
  <2> QED BY <2>2, <2>3, <2>4
<1>6. ASSUME Supersede PROVE JudgedWell(f)
  BY <1>4, <1>6 DEF Supersede, State, Terminal
<1>7. ASSUME MarkParsed PROVE JudgedWell(f)
  BY <1>1, <1>4, <1>7 DEF MarkParsed, State, Terminal, Markable
<1>8. ASSUME SupersedeOthers PROVE JudgedWell(f)
  <2>1. PICK won \in BOOLEAN :
          /\ files' = [g \in Files |-> IF won /\ g \in Losers
                                         THEN [files[g] EXCEPT !.state = "superseded"] ELSE files[g]]
          /\ judged' = [g \in Files |-> IF won /\ g \in Losers THEN files[g].hash ELSE judged[g]]
    BY <1>8 DEF SupersedeOthers
  <2> QED BY <1>0, <2>1 DEF JudgedWell, Row
<1>9. ASSUME MarkEmpty PROVE JudgedWell(f)
  <2>1. job.pc = "empty"
    BY <1>9 DEF MarkEmpty
  <2>2. \/ UNCHANGED <<files, judged>>
        \/ /\ SourceCurrent
           /\ files' = [files EXCEPT ![job.file].state = "skipped"]
           /\ judged' = [judged EXCEPT ![job.file] = job.hash]
        \/ /\ files' = [files EXCEPT ![job.file].state = "error"]
           /\ judged' = judged
    BY <1>9 DEF MarkEmpty, Markable
  <2> QED BY <1>1, <1>3, <1>4, <1>j, <2>1, <2>2 DEF State, Terminal
<1>10. ASSUME FailFile PROVE JudgedWell(f)
  BY <1>1, <1>3, <1>10, <1>j DEF FailFile, State
<1>11. ASSUME Kick PROVE JudgedWell(f)
  <2>1. job.next \in Files
    BY <1>11 DEF Kick, TypeInv, JobOK, SoundJob
  <2>2. files' = [files EXCEPT ![job.next].state = "pending"] /\ judged' = judged
    BY <1>11 DEF Kick
  <2> QED BY <1>3, <1>p, <2>1, <2>2
<1>12. ASSUME Consume \/ Throw, ~Supersede, ~MarkParsed, ~SupersedeOthers, ~MarkEmpty, ~FailFile, ~Kick
       PROVE  JudgedWell(f)
  BY <1>1, <1>12 DEF Consume, Throw, ThrowTransient, Deliver, Reject, ChooseCanonical, Read, Rank, Recheck, Invalidate,
        Publish, Revert, Clear, FailSession, Recover, Kicked
<1>13. ASSUME [\/ \E g \in Files : Edit(g) \/ LoseObject(g)
               \/ \E u \in Requests : Send(u) \/ SendAgain(u) \/ Backfill(u) \/ Crash(u)]_vars
       PROVE  JudgedWell(f)
  BY <1>1, <1>13 DEF Edit, LoseObject, Send, SendAgain, Backfill, Begin, Crash, vars, historyVars
<1> QED BY <1>5, <1>6, <1>7, <1>8, <1>9, <1>10, <1>11, <1>12, <1>13 DEF Next

(* A file is parsed or skipped only because a delivery judged the bytes it  *)
(* has, whatever uploads, retries, faults and other copies come between.    *)
THEOREM StatesStayEarned == Spec => []StatesAreEarned
<1>1. Init => TerminalIsEarned
  BY DEF Init, TerminalIsEarned, NoRow
<1>2. TypeInv /\ TerminalIsEarned /\ [Next]_vars => TerminalIsEarned'
  BY StatesAreJudged DEF TerminalIsEarned, JudgedWell
<1>3. TypeInv /\ TerminalIsEarned => StatesAreEarned
  BY TypeInvIsTypeOK DEF StatesAreEarned
<1> QED BY <1>1, <1>2, <1>3, TypeInvHolds, PTL DEF Spec

-----------------------------------------------------------------------------
(* Recovery of what was acknowledged.  Without crashes, lost objects and    *)
(* requests given up, a file has one request at a time, and its row and its *)
(* object agree but between a put and the upsert after it.                  *)

(* What a request at its place knows of its file, whose row has the hash h, *)
(* whose object has the bytes r, and whose predecessors are p.              *)
PlaceOf(q, h, r, p) ==
  /\ q.pc = "preserve" => q.old = h
  /\ q.pc = "put" => q.old = h /\ (h = NoRevision \/ h \in p \/ <<q.rev, h>> \in Extends)
  /\ q.pc = "upsert" => r = q.rev
  /\ q.pc \in AtRow => h = q.rev
  /\ q.pc # "reput"

Recoverable(s, r, p) == \A h \in s : \E v \in {r} \cup p : v = h \/ <<v, h>> \in Extends

Uploading(f) == \E u \in Requests : u[1] = f /\ req[u].pc = "upsert"

SafeFile(f) ==
  /\ \A u \in Requests :
       u[1] = f /\ req[u].pc # "idle" =>
         live[f] = u /\ PlaceOf(req[u], files[f].hash, r2[f], prev[f])
  /\ Uploading(f) \/ r2[f] = files[f].hash
  /\ Recoverable(saved[f], r2[f], prev[f])

Careful == Without({"crash", "object", "timeout"})

(* Nothing happened to the file. *)
LEMMA FileWaits ==
  ASSUME NEW f \in Files, SafeFile(f), \A u \in Requests : u[1] = f => req'[u] = req[u],
         live'[f] = live[f], r2'[f] = r2[f], prev'[f] = prev[f], saved'[f] = saved[f],
         files'[f].hash = files[f].hash
  PROVE  SafeFile(f)'
<1>1. Uploading(f)' <=> Uploading(f)
  BY DEF Uploading
<1> QED BY <1>1 DEF SafeFile

(* The request u of the file f moves to q. *)
LEMMA FileMoves ==
  ASSUME NEW f \in Files, SafeFile(f), NEW u \in Requests, u[1] = f, req \in [Requests -> Request],
         req[u].pc # "idle" \/ live[f] = NoRequest,
         NEW q \in Request, req' = [req EXCEPT ![u] = q],
         q.pc # "idle" => live'[f] = u /\ PlaceOf(q, files'[f].hash, r2'[f], prev'[f]),
         q.pc = "upsert" \/ r2'[f] = files'[f].hash,
         Recoverable(saved'[f], r2'[f], prev'[f])
  PROVE  SafeFile(f)'
<1>1. ASSUME NEW v \in Requests, v[1] = f, v # u PROVE req'[v].pc = "idle"
  <2>1. req'[v] = req[v] /\ v # NoRequest
    BY <1>1, Distinct
  <2> QED BY <1>1, <2>1 DEF SafeFile
<1>2. req'[u] = q
  OBVIOUS
<1>3. Uploading(f)' \/ r2'[f] = files'[f].hash
  BY <1>2 DEF Uploading
<1>4. ASSUME NEW v \in Requests, v[1] = f, req'[v].pc # "idle"
      PROVE  live'[f] = v /\ PlaceOf(req'[v], files'[f].hash, r2'[f], prev'[f])
  <2>1. v = u
    BY <1>1, <1>4
  <2> QED BY <1>2, <1>4, <2>1
<1> QED BY <1>3, <1>4 DEF SafeFile

LEMMA StillRecoverable ==
  ASSUME NEW s \in SUBSET Revisions, NEW r \in Hash, NEW p \in SUBSET Revisions, Recoverable(s, r, p)
  PROVE  /\ \A h \in Revisions : Recoverable(s, r, p \cup {h})
         /\ \A n \in Revisions : r = NoRevision \/ r \in p \/ <<n, r>> \in Extends => Recoverable(s, n, p)
         /\ \A h \in Revisions : r = h => Recoverable(s \cup {h}, r, p)
<1>1. ASSUME NEW n \in Revisions, r = NoRevision \/ r \in p \/ <<n, r>> \in Extends, NEW h \in s
      PROVE  \E v \in {n} \cup p : v = h \/ <<v, h>> \in Extends
  <2>1. PICK v \in {r} \cup p : v = h \/ <<v, h>> \in Extends
    BY DEF Recoverable
  <2>2. CASE v \in p
    BY <2>1, <2>2
  <2>3. CASE v = r /\ r \notin p
    <3>1. r \in Revisions
      BY <2>1, <2>3, IngestAssumption DEF Hash
    <3>2. <<n, r>> \in Extends
      BY <1>1, <2>3, <3>1, Distinct
    <3>3. n = n /\ <<n, h>> \in Extends
      BY <2>1, <2>3, <3>1, <3>2, IngestAssumption
    <3> QED BY <3>3
  <2> QED BY <2>1, <2>2, <2>3
<1> QED BY <1>1 DEF Recoverable

(* What the request that runs finds in its file. *)
LEMMA RunningFinds ==
  ASSUME TypeInv, NEW u \in Requests, SafeFile(u[1]), req[u].pc # "idle"
  PROVE  /\ live[u[1]] = u
         /\ PlaceOf(req[u], files[u[1]].hash, r2[u[1]], prev[u[1]])
         /\ req[u].pc # "upsert" => r2[u[1]] = files[u[1]].hash
         /\ Recoverable(saved[u[1]], r2[u[1]], prev[u[1]])
<1>1. u[1] \in Files /\ u # NoRequest
  BY Distinct
<1>2. req[u].pc # "upsert" => ~Uploading(u[1])
  BY DEF Uploading, SafeFile
<1> QED BY <1>1, <1>2 DEF SafeFile

LEMMA ServeSafe ==
  ASSUME TypeInv, NEW u \in Requests, SafeFile(u[1]), Serve(u)
  PROVE  SafeFile(u[1])'
<1> DEFINE f == u[1]
<1>0. f \in Files /\ req[u] \in Request /\ req \in [Requests -> Request]
  BY RequestIs DEF TypeInv, RequestsOK
<1>s. saved[f] \in SUBSET Revisions /\ r2[f] \in Hash /\ prev[f] \in SUBSET Revisions
  BY <1>0 DEF TypeInv, StoreOK
<1>t. /\ r2 \in [Files -> Hash] /\ prev \in [Files -> SUBSET Revisions]
      /\ saved \in [Files -> SUBSET Revisions] /\ files \in [Files -> Row]
      /\ live \in [Files -> Requests \cup {NoRequest}]
  BY DEF TypeInv, StoreOK, RowsOK, CollectorOK
<1>p. req[u].pc # "idle"
  BY DEF Serve, Look, Preserve, Put, Upsert, ConvergeRow, ConvergeHead, ConvergePut, Settle,
         Flip, MarkPending, Enqueue, Check, CheckHead
<1>f. /\ live[f] = u /\ req[u].rev \in Revisions
      /\ PlaceOf(req[u], files[f].hash, r2[f], prev[f])
      /\ req[u].pc # "upsert" => r2[f] = files[f].hash
      /\ Recoverable(saved[f], r2[f], prev[f])
  BY <1>p, RunningFinds, RequestIs
<1>r. /\ \A h \in Revisions : Recoverable(saved[f], r2[f], prev[f] \cup {h})
      /\ \A h \in Revisions : r2[f] = h => Recoverable(saved[f] \cup {h}, r2[f], prev[f])
  BY <1>f, <1>s, StillRecoverable
<1>a. ASSUME NEW pc \in {"put", "upsert"} \cup AtRow, Advance(u, pc)
      PROVE  /\ req' = [req EXCEPT ![u] = [req[u] EXCEPT !.pc = pc]]
             /\ [req[u] EXCEPT !.pc = pc] \in Request
             /\ live' = live /\ saved' = saved
  BY <1>0, <1>a DEF Advance, collectorVars, Request
<1>m. ASSUME NEW q \in Request, req' = [req EXCEPT ![u] = q], live' = live, saved' = saved,
             PlaceOf(q, files'[f].hash, r2'[f], prev'[f]),
             q.pc = "upsert" \/ r2'[f] = files'[f].hash,
             Recoverable(saved[f], r2'[f], prev'[f])
      PROVE  SafeFile(f)'
  BY <1>0, <1>f, <1>m, <1>p, FileMoves
<1>1. ASSUME Look(u) PROVE SafeFile(f)'
  <2> DEFINE same == files[f].hash = req[u].rev
             pc == IF same THEN "row"
                   ELSE IF files[f] = NoRow \/ Appends(req[u].rev, files[f]) THEN "put" ELSE "preserve"
             q == [req[u] EXCEPT !.old = files[f].hash, !.same = same,
                                 !.requeue = same /\ Unparsed(files[f]), !.pc = pc]
  <2>1. req' = [req EXCEPT ![u] = q] /\ req[u].pc = "look"
    BY <1>1 DEF Look
  <2>2. files[f].hash \in Hash
    BY <1>0, <1>t DEF Row
  <2>3. q \in Request /\ q.rev = req[u].rev /\ q.pc = pc /\ q.old = files[f].hash
    BY <1>0, <2>2 DEF Request, AtRow, Unparsed
  <2>4. UNCHANGED <<live, saved, r2, prev, files>>
    BY <1>1 DEF Look, collectorVars, rawVars, historyVars
  <2>5. pc = "put" => files[f].hash = NoRevision \/ <<req[u].rev, files[f].hash>> \in Extends
    BY DEF NoRow, Appends
  <2>6. pc \in AtRow => files[f].hash = req[u].rev
    BY DEF AtRow
  <2>7. pc \notin {"upsert", "reput"}
    OBVIOUS
  <2> HIDE DEF q, pc
  <2>8. PlaceOf(q, files[f].hash, r2[f], prev[f])
    BY <2>3, <2>5, <2>6, <2>7 DEF PlaceOf
  <2> QED BY <1>f, <1>m, <2>1, <2>3, <2>4, <2>8
<1>2. ASSUME Preserve(u) PROVE SafeFile(f)'
  <2> DEFINE q == [req[u] EXCEPT !.pc = "put"]
  <2>1. /\ req' = [req EXCEPT ![u] = q] /\ q \in Request /\ live' = live /\ saved' = saved
        /\ req[u].pc = "preserve" /\ UNCHANGED <<r2, files>>
    BY <1>2, <1>a DEF Preserve
  <2>2. q.pc = "put" /\ q.rev = req[u].rev /\ q.old = req[u].old
    BY <1>0 DEF Request
  <2>3. req[u].old = files[f].hash /\ r2[f] = files[f].hash
    BY <1>f, <2>1 DEF PlaceOf
  <2>4. req[u].old \in Revisions
    BY <2>1, RequestIs
  <2>5. prev'[f] = prev[f] \cup {req[u].old}
    BY <1>0, <1>2, <1>t, <2>3 DEF Preserve
  <2> HIDE DEF q
  <2>6. PlaceOf(q, files[f].hash, r2[f], prev'[f])
    BY <2>2, <2>3, <2>5 DEF PlaceOf, AtRow
  <2>7. Recoverable(saved[f], r2[f], prev'[f])
    BY <1>r, <2>4, <2>5
  <2> QED BY <1>m, <2>1, <2>3, <2>6, <2>7
<1>3. ASSUME Put(u) PROVE SafeFile(f)'
  <2> DEFINE q == [req[u] EXCEPT !.pc = "upsert"]
  <2>1. /\ req' = [req EXCEPT ![u] = q] /\ q \in Request /\ live' = live /\ saved' = saved
        /\ req[u].pc = "put" /\ UNCHANGED <<prev, files>> /\ r2' = [r2 EXCEPT ![f] = req[u].rev]
    BY <1>3, <1>a DEF Put
  <2>2. q.pc = "upsert" /\ q.rev = req[u].rev
    BY <1>0 DEF Request
  <2>3. r2'[f] = req[u].rev
    BY <1>0, <1>t, <2>1
  <2>4. r2[f] = NoRevision \/ r2[f] \in prev[f] \/ <<req[u].rev, r2[f]>> \in Extends
    BY <1>f, <2>1 DEF PlaceOf
  <2> HIDE DEF q
  <2>5. PlaceOf(q, files[f].hash, r2'[f], prev[f])
    BY <2>2, <2>3 DEF PlaceOf, AtRow
  <2>6. Recoverable(saved[f], r2'[f], prev[f])
    BY <1>f, <1>s, <2>3, <2>4, StillRecoverable
  <2> QED BY <1>m, <2>1, <2>2, <2>5, <2>6
<1>4. ASSUME Upsert(u) PROVE SafeFile(f)'
  <2> DEFINE q == [req[u] EXCEPT !.pc = "row"]
  <2>1. /\ req' = [req EXCEPT ![u] = q] /\ q \in Request /\ live' = live /\ saved' = saved
        /\ req[u].pc = "upsert" /\ UNCHANGED <<r2, prev>> /\ files' = [files EXCEPT ![f] = Restamp(u)]
    BY <1>4, <1>a DEF Upsert, AtRow, rawVars
  <2>2. q.pc = "row" /\ q.rev = req[u].rev
    BY <1>0 DEF Request
  <2>3. files'[f].hash = req[u].rev /\ r2[f] = req[u].rev
    BY <1>0, <1>f, <1>t, <2>1 DEF Restamp, PlaceOf
  <2> HIDE DEF q
  <2>4. PlaceOf(q, files'[f].hash, r2[f], prev[f])
    BY <2>2, <2>3 DEF PlaceOf
  <2> QED BY <1>f, <1>m, <2>1, <2>3, <2>4
<1>5. ASSUME NEW pc \in AtRow \ {"reput"}, Advance(u, pc), req[u].pc \in AtRow, UNCHANGED <<r2, prev>>,
             files'[f].hash = files[f].hash
      PROVE  SafeFile(f)'
  <2> DEFINE q == [req[u] EXCEPT !.pc = pc]
  <2>1. req' = [req EXCEPT ![u] = q] /\ q \in Request /\ live' = live /\ saved' = saved
    BY <1>5, <1>a
  <2>2. q.pc = pc /\ q.rev = req[u].rev
    BY <1>0 DEF Request
  <2>3. files[f].hash = req[u].rev /\ r2[f] = files[f].hash
    BY <1>f, <1>5 DEF PlaceOf, AtRow
  <2> HIDE DEF q
  <2>4. PlaceOf(q, files'[f].hash, r2'[f], prev'[f])
    BY <1>5, <2>2, <2>3 DEF PlaceOf, AtRow
  <2> QED BY <1>f, <1>m, <1>5, <2>1, <2>3, <2>4
<1>6. ASSUME ConvergeRow(u) PROVE SafeFile(f)'
  <2>1. PICK pc \in {"head", "settle", "flip"} : Advance(u, pc)
    BY <1>6 DEF ConvergeRow, Converged
  <2> QED BY <1>5, <1>6, <2>1 DEF ConvergeRow, AtRow, rawVars
<1>7. ASSUME ConvergeHead(u) PROVE SafeFile(f)'
  <2>1. r2[f] = req[u].rev
    BY <1>f, <1>7 DEF ConvergeHead, PlaceOf, AtRow
  <2>2. PICK pc \in {"settle", "flip"} : Advance(u, pc)
    BY <1>7, <2>1 DEF ConvergeHead, Converged
  <2> QED BY <1>5, <1>7, <2>2 DEF ConvergeHead, AtRow, rawVars
<1>8. ASSUME ConvergePut(u) PROVE SafeFile(f)'
  BY <1>f, <1>8 DEF ConvergePut, PlaceOf
<1>9. ASSUME Answer(u), UNCHANGED <<r2, prev, files>>, req[u].pc \in AtRow PROVE SafeFile(f)'
  <2>1. files[f].hash = req[u].rev /\ r2[f] = files[f].hash
    BY <1>f, <1>9 DEF PlaceOf, AtRow
  <2>2. req' = [req EXCEPT ![u] = IdleRequest] /\ saved'[f] = saved[f] \cup {req[u].rev}
    BY <1>0, <1>9, <1>t DEF Answer
  <2>3. Recoverable(saved'[f], r2'[f], prev'[f])
    BY <1>9, <1>f, <1>r, <2>1, <2>2
  <2>4. IdleRequest.pc = "idle" /\ r2'[f] = files'[f].hash
    BY <1>9, <2>1 DEF IdleRequest
  <2> QED BY <1>0, <1>p, <2>2, <2>3, <2>4, IdleIsTyped, FileMoves
<1>10. ASSUME Settle(u) PROVE SafeFile(f)'
  <2>1. req[u].pc = "settle" /\ UNCHANGED <<r2, prev, files>> /\ (Advance(u, "mark") \/ Answer(u))
    BY <1>10 DEF Settle, rawVars
  <2> QED BY <1>5, <1>9, <2>1 DEF AtRow
<1>11. ASSUME Flip(u) PROVE SafeFile(f)'
  BY <1>5, <1>11 DEF Flip, AtRow, rawVars
<1>12. ASSUME MarkPending(u) PROVE SafeFile(f)'
  <2>1. files'[f].hash = files[f].hash
    BY <1>0, <1>12, <1>t DEF MarkPending, Row
  <2> QED BY <1>5, <1>12, <2>1 DEF MarkPending, AtRow, rawVars
<1>13. ASSUME Enqueue(u) PROVE SafeFile(f)'
  BY <1>9, <1>13 DEF Enqueue, AtRow, rawVars
<1>14. ASSUME NEW q \in Request, req' = [req EXCEPT ![u] = q], req[u].pc \notin {"upsert"},
              UNCHANGED <<live, saved, r2, prev, files>>,
              q.pc = "look" \/ (q.pc \in {"checkHead", "settle"} /\ q.rev = files[f].hash)
       PROVE  SafeFile(f)'
  <2>1. PlaceOf(q, files[f].hash, r2[f], prev[f])
    BY <1>14 DEF PlaceOf, AtRow
  <2> QED BY <1>f, <1>m, <1>14, <2>1
<1>15. Missing(u) \in Request /\ Missing(u).pc = "look"
  BY RequestIs DEF Missing, Request
<1>16. ASSUME Check(u) PROVE SafeFile(f)'
  <2>1. PICK q : /\ q = IF files[f].hash = req[u].rev
                          THEN [req[u] EXCEPT !.pc = "checkHead", !.requeue = Unparsed(files[f])]
                          ELSE Missing(u)
                 /\ req' = [req EXCEPT ![u] = q]
    BY <1>16 DEF Check
  <2>2. q \in Request /\ (q.pc = "look" \/ (q.pc = "checkHead" /\ q.rev = files[f].hash))
    BY <1>0, <1>15, <2>1 DEF Request, AtRow, Unparsed
  <2> QED BY <1>14, <1>16, <2>1, <2>2 DEF Check, collectorVars, rawVars, historyVars
<1>17. ASSUME CheckHead(u) PROVE SafeFile(f)'
  <2>1. PICK q : /\ q = IF r2[f] = req[u].rev THEN [req[u] EXCEPT !.pc = "settle"] ELSE Missing(u)
                 /\ req' = [req EXCEPT ![u] = q]
    BY <1>17 DEF CheckHead
  <2>2. req[u].rev = files[f].hash
    BY <1>17, <1>f DEF CheckHead, PlaceOf, AtRow
  <2>3. q \in Request /\ (q.pc = "look" \/ (q.pc = "settle" /\ q.rev = files[f].hash))
    BY <1>0, <1>15, <2>1, <2>2 DEF Request, AtRow
  <2> QED BY <1>14, <1>17, <2>1, <2>3 DEF CheckHead, collectorVars, rawVars, historyVars
<1> QED BY <1>1, <1>2, <1>3, <1>4, <1>6, <1>7, <1>8, <1>10, <1>11, <1>12, <1>13, <1>16, <1>17 DEF Serve

LEMMA ConsumerLeavesRaw ==
  ASSUME TypeInv, Consume \/ Throw, NEW f \in Files
  PROVE  UNCHANGED hubVars /\ files'[f].hash = files[f].hash
<1>1. UNCHANGED hubVars
  BY DEF Consume, Throw, ThrowTransient, Deliver, Reject, ChooseCanonical, Supersede, Read, Rank, Recheck, Invalidate,
         Publish, MarkParsed, Revert, SupersedeOthers, MarkEmpty, Clear, FailFile, FailSession, Recover,
         Kick, Kicked
<1>2. files \in [Files -> Row]
  BY DEF TypeInv, RowsOK
<1>3. ASSUME NEW g, NEW state, files' = [files EXCEPT ![g].state = state]
      PROVE  files'[f].hash = files[f].hash
  BY <1>2, <1>3 DEF Row
<1>4. ASSUME Supersede PROVE files'[f].hash = files[f].hash
  BY <1>3, <1>4 DEF Supersede
<1>5. ASSUME MarkParsed PROVE files'[f].hash = files[f].hash
  BY <1>3, <1>5 DEF MarkParsed
<1>6. ASSUME SupersedeOthers PROVE files'[f].hash = files[f].hash
  <2>1. files'[f] = [files[f] EXCEPT !.state = "superseded"] \/ files'[f] = files[f]
    BY <1>6 DEF SupersedeOthers
  <2> QED BY <1>2, <2>1 DEF Row
<1>7. ASSUME MarkEmpty PROVE files'[f].hash = files[f].hash
  BY <1>3, <1>7 DEF MarkEmpty
<1>8. ASSUME FailFile PROVE files'[f].hash = files[f].hash
  BY <1>3, <1>8 DEF FailFile
<1>9. ASSUME Kick PROVE files'[f].hash = files[f].hash
  BY <1>3, <1>9 DEF Kick
<1>10. ASSUME ~Supersede, ~MarkParsed, ~SupersedeOthers, ~MarkEmpty, ~FailFile, ~Kick
       PROVE  files'[f].hash = files[f].hash
  BY <1>10 DEF Consume, Throw, ThrowTransient, Deliver, Reject, ChooseCanonical, Read, Rank, Recheck, Invalidate,
         Publish, Revert, Clear, FailSession, Recover, Kicked
<1> QED BY <1>1, <1>4, <1>5, <1>6, <1>7, <1>8, <1>9, <1>10

(* A request touches no file but its own. *)
LEMMA ServeIsLocal ==
  ASSUME TypeInv, NEW u \in Requests, Serve(u), NEW f \in Files, f # u[1]
  PROVE  /\ \A v \in Requests : v[1] = f => req'[v] = req[v]
         /\ live'[f] = live[f] /\ r2'[f] = r2[f] /\ prev'[f] = prev[f] /\ saved'[f] = saved[f]
         /\ files'[f] = files[f]
<1>t. /\ r2 \in [Files -> Hash] /\ prev \in [Files -> SUBSET Revisions]
      /\ saved \in [Files -> SUBSET Revisions] /\ files \in [Files -> Row]
      /\ live \in [Files -> Requests \cup {NoRequest}] /\ req \in [Requests -> Request]
  BY DEF TypeInv, StoreOK, RowsOK, CollectorOK, RequestsOK
<1>1. \A pc : Advance(u, pc) => /\ \A v \in Requests : v[1] = f => req'[v] = req[v]
                                /\ live'[f] = live[f] /\ saved'[f] = saved[f]
  BY <1>t DEF Advance, collectorVars
<1>2. Answer(u) => /\ \A v \in Requests : v[1] = f => req'[v] = req[v]
                   /\ live'[f] = live[f] /\ saved'[f] = saved[f]
  BY <1>t DEF Answer
<1>3. Look(u) \/ ConvergePut(u) \/ Check(u) \/ CheckHead(u) =>
        /\ \A v \in Requests : v[1] = f => req'[v] = req[v]
        /\ live'[f] = live[f] /\ saved'[f] = saved[f]
  BY <1>t DEF Look, ConvergePut, Check, CheckHead, collectorVars, historyVars
<1>4. /\ \A v \in Requests : v[1] = f => req'[v] = req[v]
      /\ live'[f] = live[f] /\ saved'[f] = saved[f]
  BY <1>1, <1>2, <1>3 DEF Serve, Preserve, Put, Upsert, ConvergeRow, ConvergeHead, Settle, Flip,
     MarkPending, Enqueue
<1>5. r2'[f] = r2[f] /\ prev'[f] = prev[f] /\ files'[f] = files[f]
  BY <1>t DEF Serve, Look, Preserve, Put, Upsert, ConvergeRow, ConvergeHead, ConvergePut, Settle, Flip,
     MarkPending, Enqueue, Check, CheckHead, rawVars
<1> QED BY <1>4, <1>5

LEMMA BeginSafe ==
  ASSUME TypeInv, NEW u \in Requests, NEW pc \in {"look", "check"}, Begin(u, pc), NEW f \in Files,
         live[u[1]] = NoRequest, SafeFile(f), local[u[1]] \in Hash
  PROVE  SafeFile(f)'
<1>t. live \in [Files -> Requests \cup {NoRequest}] /\ req \in [Requests -> Request]
  BY DEF TypeInv, CollectorOK, RequestsOK
<1> DEFINE q == [IdleRequest EXCEPT !.pc = pc, !.rev = local[u[1]]]
<1>1. req' = [req EXCEPT ![u] = q] /\ live' = [live EXCEPT ![u[1]] = u] /\ UNCHANGED <<r2, prev, saved, files>>
  BY DEF Begin, rawVars, historyVars
<1>2. q \in Request /\ q.pc = pc
  BY DEF Request, IdleRequest, Hash
<1> HIDE DEF q
<1>3. CASE f = u[1]
  <2>1. ~Uploading(f)
    <3> SUFFICES ASSUME NEW v \in Requests, v[1] = f, req[v].pc = "upsert" PROVE FALSE
      BY DEF Uploading
    <3>1. live[f] = v /\ v # NoRequest
      BY Distinct DEF SafeFile
    <3> QED BY <1>3, <3>1
  <2>2. live'[f] = u /\ r2[f] = files[f].hash /\ Recoverable(saved[f], r2[f], prev[f])
    BY <1>1, <1>3, <1>t, <2>1 DEF SafeFile
  <2>3. PlaceOf(q, files[f].hash, r2[f], prev[f])
    BY <1>2 DEF PlaceOf, AtRow
  <2> QED BY <1>1, <1>2, <1>3, <1>t, <2>2, <2>3, FileMoves
<1>4. CASE f # u[1]
  BY <1>1, <1>4, <1>t, FileWaits
<1> QED BY <1>3, <1>4

LEMMA PlanStays ==
  ASSUME [Next]_vars
  PROVE  plan' = plan
<1>1. Consume \/ Throw => plan' = plan
  BY DEF Consume, Throw, ThrowTransient, Deliver, Reject, ChooseCanonical, Supersede, Read, Rank, Recheck, Invalidate,
         Publish, MarkParsed, Revert, SupersedeOthers, MarkEmpty, Clear, FailFile, FailSession, Recover,
         Kick, Kicked, hubVars, budget
<1>2. ASSUME NEW u \in Requests, Serve(u) PROVE plan' = plan
  BY <1>2 DEF Serve, Look, Preserve, Put, Upsert, ConvergeRow, ConvergeHead, ConvergePut, Settle, Flip,
     MarkPending, Enqueue, Check, CheckHead, budget
<1>3. ASSUME NEW u \in Requests, Send(u) \/ SendAgain(u) \/ Backfill(u) \/ Crash(u) PROVE plan' = plan
  BY <1>3 DEF Send, SendAgain, Backfill, Begin, Crash, budget
<1>4. ASSUME NEW f \in Files, Edit(f) \/ LoseObject(f) PROVE plan' = plan
  BY <1>4 DEF Edit, LoseObject, budget
<1> QED BY <1>1, <1>2, <1>3, <1>4 DEF Next, vars, budget

AllSafe == Careful => \A f \in Files : SafeFile(f)

(* The hub may displace what it acknowledged but never destroys it: while   *)
(* no request dies or is given up and no object is lost, the bytes of every *)
(* acknowledged upload, or bytes that extend them, are the raw object or a  *)
(* preserved predecessor.                                                   *)
THEOREM NothingAcknowledgedIsLost == Spec => []AcknowledgedIsRecoverable
<1>1. Init => AllSafe
  <2> SUFFICES ASSUME Init, NEW f \in Files PROVE SafeFile(f)
    BY DEF AllSafe
  <2>1. \A u \in Requests : req[u].pc = "idle"
    BY DEF Init, IdleRequest
  <2> QED BY <2>1 DEF Init, SafeFile, Recoverable, NoRow
<1>2. TypeInv /\ AllSafe /\ [Next]_vars => AllSafe'
  <2> SUFFICES ASSUME TypeInv, AllSafe, [Next]_vars, Careful', NEW f \in Files PROVE SafeFile(f)'
    BY DEF AllSafe
  <2>1. Careful /\ SafeFile(f)
    BY PlanStays DEF AllSafe, Careful, Without
  <2>2. \A k \in {"crash", "object", "timeout"} : ~Fault(k)
    BY <2>1 DEF Careful, Without, Fault
  <2>3. ASSUME NEW u \in Requests, Serve(u) PROVE SafeFile(f)'
    <3>1. CASE f = u[1]
      BY <2>1, <2>3, <3>1, ServeSafe
    <3>2. CASE f # u[1]
      BY <2>1, <2>3, <3>2, ServeIsLocal, FileWaits
    <3> QED BY <3>1, <3>2
  <2>4. ASSUME NEW u \in Requests, Send(u) \/ Backfill(u) PROVE SafeFile(f)'
    <3>1. local[u[1]] \in Hash
      BY RequestIs
    <3> QED BY <2>1, <2>4, <3>1, BeginSafe DEF Send, Backfill
  <2>5. ASSUME Consume \/ Throw PROVE SafeFile(f)'
    <3>1. UNCHANGED <<req, live, r2, prev, saved>> /\ files'[f].hash = files[f].hash
      BY <2>5, ConsumerLeavesRaw DEF hubVars, collectorVars, rawVars
    <3> QED BY <2>1, <3>1, FileWaits
  <2>6. ASSUME NEW g \in Files, Edit(g) PROVE SafeFile(f)'
    <3>1. UNCHANGED <<req, live, r2, prev, saved, files>>
      BY <2>6 DEF Edit, rawVars, historyVars
    <3> QED BY <2>1, <3>1, FileWaits
  <2>7. ASSUME UNCHANGED vars PROVE SafeFile(f)'
    <3>1. UNCHANGED <<req, live, r2, prev, saved, files>>
      BY <2>7 DEF vars, rawVars, historyVars, collectorVars
    <3> QED BY <2>1, <3>1, FileWaits
  <2> QED BY <2>2, <2>3, <2>4, <2>5, <2>6, <2>7 DEF Next, SendAgain, Crash, LoseObject
<1>3. TypeInv /\ AllSafe => AcknowledgedIsRecoverable
  BY DEF AllSafe, Careful, SafeFile, Recoverable, AcknowledgedIsRecoverable, NeverDestroyed
<1> QED BY <1>1, <1>2, <1>3, TypeInvHolds, PTL DEF Spec
=============================================================================
