------------------------------ MODULE Multipart ------------------------------
(***************************************************************************)
(* A large file on its way into the hub: the multipart upload of the       *)
(* collector (run.py) and of hub/src/api/multipart.ts, the record of a     *)
(* stored object in hub/src/api/upload.ts, and the prune of staging        *)
(* objects, over one path.                                                 *)
(*                                                                         *)
(* A content is the sequence of its parts; an append grows it.  The parts  *)
(* are read from a file that goes on changing, so what is assembled may be *)
(* a content that never was.  Requests that the collector gave up on go on *)
(* in the hub, beside its next ones and beside a file of the same path     *)
(* that an administrator carried over.                                     *)
(***************************************************************************)
EXTENDS Naturals, SequencesExt

CONSTANTS Contents,       \* versions of the file
          Nonces,         \* uploads that may be in flight at once
          MaxAttempts,    \* MULTIPART_MAX_ATTEMPTS
          MultipartPlans  \* bound: versions, faults, carried version, and if no parser wants the file

MultipartFaults == {"timeout",  \* the collector does not learn how a request ended
                    "crash",    \* a request dies
                    "refuse"}   \* R2 refuses a request

ASSUME MultipartAssumption ==
  /\ "carried" \notin Nonces
  /\ \A c \in Contents : c # <<>> /\ c \in Seq(Range(c))
  /\ MaxAttempts \in Nat \ {0}
  /\ \A p \in MultipartPlans :
       /\ p.versions \in Seq(Contents) /\ p.versions # <<>>
       /\ p.faults \subseteq MultipartFaults
       /\ p.carried \in Contents \cup {<<>>} /\ p.other \in BOOLEAN

VARIABLES version,   \* how far the source file has come in plan.versions
          sent,      \* the content that the collector's state holds as ok
          upload,    \* the collector's upload
          staging,   \* staging[n]: the multipart upload of a nonce, or its staging object
          finish,    \* finish[n]: a complete, or the PUT of the carried file, in the hub
          canonical, \* the raw object
          displaced, \* predecessors under raw-prev/
          fileRow,   \* the files row
          derived,   \* the session the file is canonical for
          parses,    \* parse messages: the hashes they carry
          parse,     \* the consumer
          stored,    \* history: what the hub said it had stored
          mplan, mfaults

multipartVars == <<version, sent, upload, staging, finish, canonical, displaced, fileRow, derived,
                   parses, parse, stored, mplan, mfaults>>

Nothing == <<>>
Carried == "carried"

Idling == [pc |-> "idle", rev |-> Nothing, n |-> Carried, read |-> <<>>, attempt |-> 1]
NoStaging == [state |-> "none", bytes |-> Nothing]
Finished == [pc |-> "idle", rev |-> Nothing, old |-> Nothing, body |-> Nothing, found |-> Nothing,
             landed |-> FALSE, late |-> FALSE]
NotParsing == [hash |-> Nothing, bytes |-> Nothing]

MultipartInit ==
  /\ mplan \in MultipartPlans /\ mfaults = {}
  /\ version = 1 /\ sent = Nothing
  /\ upload = Idling
  /\ staging = [n \in Nonces |-> NoStaging]
  /\ finish = [n \in Nonces \cup {Carried} |-> Finished]
  /\ canonical = Nothing /\ displaced = {}
  /\ fileRow = [hash |-> Nothing, state |-> "absent"]
  /\ derived = [state |-> "absent", rev |-> Nothing, bytes |-> Nothing]
  /\ parses = {} /\ parse = NotParsing
  /\ stored = {}

Source == mplan.versions[version]

Strikes(kind) == kind \in mplan.faults \ mfaults /\ mfaults' = mfaults \cup {kind}

hubState == <<canonical, displaced, fileRow, derived, parses, parse, stored>>

Rewrite ==
  /\ version < Len(mplan.versions) /\ version' = version + 1
  /\ UNCHANGED <<sent, upload, staging, finish, hubState, mplan, mfaults>>

-----------------------------------------------------------------------------
(* The collector.                                                           *)

Continue(pc) == upload' = [upload EXCEPT !.pc = pc]

(* _process_large_item: the hash of what the file holds now.                *)
Hash ==
  /\ upload.pc = "idle" /\ sent # Source
  /\ upload' = [Idling EXCEPT !.pc = "look", !.rev = Source]
  /\ UNCHANGED <<version, sent, staging, finish, hubState, mplan, mfaults>>

(* The answers of an upload that is over: 200, 201 or a failure.            *)
Succeed == sent' = upload.rev /\ upload' = Idling
(* The next attempt opens a new upload; the last one leaves an error, and   *)
(* the next run starts from the hash.                                       *)
Failed == IF upload.attempt < MaxAttempts
          THEN [upload EXCEPT !.pc = "look", !.attempt = @ + 1, !.read = <<>>] ELSE Idling

(* createMultipart: the row, the object, and an upload of its own key.      *)
CreateLook ==
  /\ upload.pc = "look"
  /\ Continue(IF fileRow.hash = upload.rev THEN "head" ELSE "open")
  /\ UNCHANGED <<version, sent, staging, finish, hubState, mplan, mfaults>>

Held == canonical = upload.rev

Settled == fileRow.state \in {"parsed", "skipped"}

CreateHead ==
  /\ upload.pc = "head"
  /\ \/ ~Held /\ Continue("open") /\ UNCHANGED <<sent, stored>>
     \/ Held /\ ~Settled /\ Continue("mark") /\ UNCHANGED <<sent, stored>>
     \/ Held /\ Settled /\ Succeed /\ stored' = stored \cup {upload.rev}
  /\ UNCHANGED <<version, staging, finish, canonical, displaced, fileRow, derived, parses, parse, mplan, mfaults>>

(* markPendingAndEnqueue *)
CreateMark ==
  /\ upload.pc = "mark" /\ Continue("send")
  /\ fileRow' = [fileRow EXCEPT !.state = "pending"]
  /\ UNCHANGED <<version, sent, staging, finish, canonical, displaced, derived, parses, parse, stored, mplan, mfaults>>

CreateSend ==
  /\ upload.pc = "send" /\ Succeed
  /\ parses' = parses \cup {upload.rev}
  /\ stored' = stored \cup {upload.rev}
  /\ UNCHANGED <<version, staging, finish, canonical, displaced, fileRow, derived, parse, mplan, mfaults>>

(* The answer may be lost; then nobody knows of the upload that is open.    *)
CreateOpen(n) ==
  /\ upload.pc = "open" /\ staging[n] = NoStaging /\ finish[n] = Finished
  /\ staging' = [staging EXCEPT ![n] = [state |-> "open", bytes |-> <<>>]]
  /\ \/ upload' = [upload EXCEPT !.pc = "part", !.n = n] /\ UNCHANGED mfaults
     \/ Strikes("timeout") /\ upload' = Failed
  /\ UNCHANGED <<version, sent, finish, hubState, mplan>>

(* _multipart_send_parts: each part is read from the file as it is by then; *)
(* a short read or a part that R2 refuses ends the attempt.                 *)
SendPart ==
  LET n == upload.n  i == Len(upload.read) + 1
  IN  /\ upload.pc = "part" /\ Len(upload.read) < Len(upload.rev)
      /\ IF i <= Len(Source) /\ staging[n].state = "open"
           THEN \/ /\ upload' = [upload EXCEPT !.read = Append(@, Source[i])]
                   /\ staging' = [staging EXCEPT ![n].bytes = Append(@, Source[i])]
                   /\ UNCHANGED mfaults
                \/ Strikes("refuse") /\ Continue("abort") /\ UNCHANGED staging
           ELSE Continue("abort") /\ UNCHANGED <<staging, mfaults>>
      /\ UNCHANGED <<version, sent, finish, hubState, mplan>>

Complete ==
  /\ upload.pc = "part" /\ Len(upload.read) = Len(upload.rev)
  /\ finish' = [finish EXCEPT ![upload.n] = [Finished EXCEPT !.pc = "look", !.rev = upload.rev]]
  /\ Continue("wait")
  /\ UNCHANGED <<version, sent, staging, hubState, mplan, mfaults>>

(* The collector stops waiting; the request does not.                       *)
GiveUp ==
  /\ upload.pc = "wait" /\ Strikes("timeout") /\ Continue("abort")
  /\ UNCHANGED <<version, sent, staging, finish, hubState, mplan>>

(* abortMultipart: the upload and whatever its complete has left.           *)
Abort ==
  /\ upload.pc = "abort" /\ upload' = Failed
  /\ \/ staging' = [staging EXCEPT ![upload.n] = NoStaging] /\ UNCHANGED mfaults
     \/ Strikes("refuse") /\ UNCHANGED staging
  /\ UNCHANGED <<version, sent, finish, hubState, mplan>>

-----------------------------------------------------------------------------
(* completeMultipart, and putFile for the carried file.                     *)

Requests == Nonces \cup {Carried}

Awaited(n) == upload.pc = "wait" /\ upload.n = n

At(n, pc) == finish[n].pc = pc

Goto(n, pc) == finish' = [finish EXCEPT ![n].pc = pc] /\ UNCHANGED <<sent, upload>>

(* The file is carried over once.                                           *)
Closed(n) == IF n = Carried THEN [Finished EXCEPT !.pc = "done", !.late = finish[n].late] ELSE Finished

(* An error; the collector aborts.                                          *)
Refuse(n) ==
  /\ finish' = [finish EXCEPT ![n] = Closed(n)]
  /\ upload' = IF Awaited(n) THEN [upload EXCEPT !.pc = "abort"] ELSE upload
  /\ UNCHANGED sent

(* 201 *)
Respond(n) ==
  /\ finish' = [finish EXCEPT ![n] = Closed(n)]
  /\ stored' = stored \cup {finish[n].rev}
  /\ IF Awaited(n) THEN Succeed ELSE UNCHANGED <<sent, upload>>

(* A request dies between two of its calls.                                 *)
Die(n) ==
  /\ finish[n].pc \notin {"idle", "done"} /\ Strikes("crash") /\ Refuse(n)
  /\ UNCHANGED <<version, staging, hubState, mplan>>

Carry ==
  /\ mplan.carried # Nothing /\ At(Carried, "idle")
  /\ finish' = [finish EXCEPT ![Carried] = [Finished EXCEPT !.pc = "look", !.rev = mplan.carried,
                                                            !.body = mplan.carried]]
  /\ UNCHANGED <<version, sent, upload, staging, hubState, mplan, mfaults>>

indexState == <<derived, parses, parse>>

(* The row, before the parts are assembled.                                 *)
Look(n) ==
  /\ At(n, "look")
  /\ finish' = [finish EXCEPT ![n] = [@ EXCEPT !.old = fileRow.hash,
                                       !.pc = IF n = Carried THEN "extends" ELSE "assemble"]]
  /\ UNCHANGED <<version, sent, upload, staging, hubState, mplan, mfaults>>

(* R2 completes an upload that is open, once.                               *)
Assemble(n) ==
  /\ At(n, "assemble")
  /\ \/ /\ staging[n].state = "open" /\ Goto(n, "get")
        /\ staging' = [staging EXCEPT ![n].state = "object"] /\ UNCHANGED mfaults
     \/ /\ \/ staging[n].state # "open" /\ UNCHANGED mfaults
           \/ Strikes("refuse")
        /\ Refuse(n) /\ UNCHANGED staging
  /\ UNCHANGED <<version, hubState, mplan>>

(* The staged object, unless an abort took it.                              *)
GetStaged(n) ==
  /\ At(n, "get")
  /\ IF staging[n].state = "object"
       THEN finish' = [finish EXCEPT ![n] = [@ EXCEPT !.body = staging[n].bytes, !.pc = "extends"]]
            /\ UNCHANGED <<sent, upload>>
       ELSE Refuse(n)
  /\ UNCHANGED <<version, staging, hubState, mplan, mfaults>>

Grown(body, old) == Len(old) <= Len(body) /\ SubSeq(body, 1, Len(old)) = old

(* Whether the stored file is the beginning of the new one: a ranged read   *)
(* of the staged object, which an abort may have deleted meanwhile.         *)
Extending(n) ==
  /\ Grown(finish[n].body, finish[n].old)
  /\ finish[n].old = Nothing \/ n = Carried \/ staging[n].state = "object"

Displaces(n) == finish[n].old \notin {Nothing, finish[n].rev} /\ ~Extending(n)

CheckExtends(n) ==
  /\ At(n, "extends") /\ Goto(n, IF Displaces(n) THEN "preserve" ELSE "put")
  /\ UNCHANGED <<version, staging, hubState, mplan, mfaults>>

(* preserveDisplacedObject: written once, and only bytes that have the      *)
(* predecessor's hash; anything else is skipped.                            *)
Predecessor(n) == IF canonical = finish[n].old THEN canonical ELSE Nothing

Preserve(n) ==
  /\ At(n, "preserve")
  /\ \/ displaced' = displaced \cup ({Predecessor(n)} \ {Nothing}) /\ Goto(n, "put") /\ UNCHANGED <<staging, mfaults>>
     \/ /\ Strikes("refuse") /\ Refuse(n) /\ UNCHANGED displaced
        /\ staging' = IF n = Carried THEN staging ELSE [staging EXCEPT ![n] = NoStaging]
  /\ UNCHANGED <<version, canonical, fileRow, indexState, stored, mplan>>

(* R2 compares the body with the declared hash and writes all or nothing.   *)
Verifies(n) == finish[n].body = finish[n].rev

PutCanonical(n) ==
  /\ At(n, "put")
  /\ canonical' = IF Verifies(n) THEN finish[n].body ELSE canonical
  /\ finish' = [finish EXCEPT ![n] = [@ EXCEPT !.landed = Verifies(n),
                                       !.pc = IF n = Carried THEN "upsert" ELSE "drop"]]
  /\ UNCHANGED <<version, sent, upload, staging, displaced, fileRow, indexState, stored, mplan, mfaults>>

DropStaging(n) ==
  /\ At(n, "drop")
  /\ \/ staging' = [staging EXCEPT ![n] = NoStaging] /\ UNCHANGED mfaults
     \/ Strikes("refuse") /\ UNCHANGED staging
  /\ IF finish[n].landed THEN Goto(n, "upsert") ELSE Refuse(n)
  /\ UNCHANGED <<version, hubState, mplan>>

-----------------------------------------------------------------------------
(* recordUploadedObject *)

Fresh(rev) == [hash |-> rev, state |-> IF mplan.other THEN "skipped" ELSE "pending"]

Upsert(n) ==
  /\ At(n, "upsert") /\ fileRow' = Fresh(finish[n].rev)
  /\ Goto(n, IF n = Carried THEN "row" ELSE IF mplan.other THEN "observe" ELSE "flip")
  /\ UNCHANGED <<version, staging, canonical, displaced, indexState, stored, mplan, mfaults>>

(* flipOwnedSessionsToParsing, as long as the row has this hash.            *)
Flipped(rev) ==
  IF derived.state # "absent" /\ fileRow.hash = rev THEN [derived EXCEPT !.state = "parsing"] ELSE derived

Flip(n) ==
  /\ At(n, "flip") /\ derived' = Flipped(finish[n].rev)
  /\ Goto(n, IF n = Carried THEN "send" ELSE "observe")
  /\ UNCHANGED <<version, staging, canonical, displaced, fileRow, parses, parse, stored, mplan, mfaults>>

(* convergeR2WithRow: a PUT writes its body again when the row is its own   *)
(* and the object is not.                                                   *)
PutRow(n) ==
  /\ At(n, "row")
  /\ Goto(n, IF fileRow.hash = finish[n].rev THEN "head" ELSE IF mplan.other THEN "send" ELSE "flip")
  /\ UNCHANGED <<version, staging, hubState, mplan, mfaults>>

PutHead(n) ==
  /\ At(n, "head")
  /\ Goto(n, IF canonical # finish[n].rev THEN "again" ELSE IF mplan.other THEN "send" ELSE "flip")
  /\ UNCHANGED <<version, staging, hubState, mplan, mfaults>>

PutAgain(n) ==
  /\ At(n, "again") /\ canonical' = finish[n].body
  /\ finish' = [finish EXCEPT ![n] = [@ EXCEPT !.late = fileRow.hash # finish[n].rev,
                                       !.pc = IF mplan.other THEN "send" ELSE "flip"]]
  /\ UNCHANGED <<version, sent, upload, staging, displaced, fileRow, indexState, stored, mplan, mfaults>>

(* convergeMultipartRow: a complete has no body left; it gives the row the  *)
(* hash of the object it finds.                                             *)
Observe(n) ==
  /\ At(n, "observe")
  /\ Goto(n, IF fileRow.hash = finish[n].rev THEN "compare" ELSE "send")
  /\ UNCHANGED <<version, staging, hubState, mplan, mfaults>>

Compare(n) ==
  /\ At(n, "compare")
  /\ finish' = [finish EXCEPT ![n] = [@ EXCEPT !.found = canonical,
                   !.pc = IF canonical \in {Nothing, finish[n].rev} THEN "send" ELSE "realign"]]
  /\ UNCHANGED <<version, sent, upload, staging, hubState, mplan, mfaults>>

(* Mutant: a complete does not look after its row. *)
RealignableNever(n) == FALSE

Realignable(n) == fileRow.hash = finish[n].rev

Realign(n) ==
  /\ At(n, "realign")
  /\ IF Realignable(n)
       THEN /\ fileRow' = Fresh(finish[n].found)
            /\ IF mplan.other THEN Respond(n) ELSE Goto(n, "reflip") /\ UNCHANGED stored
       ELSE Goto(n, "send") /\ UNCHANGED <<fileRow, stored>>
  /\ UNCHANGED <<version, staging, canonical, displaced, indexState, mplan, mfaults>>

Reflip(n) ==
  /\ At(n, "reflip") /\ derived' = Flipped(finish[n].found) /\ Goto(n, "resend")
  /\ UNCHANGED <<version, staging, canonical, displaced, fileRow, parses, parse, stored, mplan, mfaults>>

Resend(n) ==
  /\ At(n, "resend") /\ parses' = parses \cup {finish[n].found} /\ Respond(n)
  /\ UNCHANGED <<version, staging, canonical, displaced, fileRow, derived, parse, mplan, mfaults>>

Send(n) ==
  /\ At(n, "send") /\ Respond(n)
  /\ parses' = IF mplan.other THEN parses ELSE parses \cup {finish[n].rev}
  /\ UNCHANGED <<version, staging, canonical, displaced, fileRow, derived, parse, mplan, mfaults>>

-----------------------------------------------------------------------------
(* The consumer takes a message whose hash is the row's, reads the object,  *)
(* and publishes if the hash is still the row's.                            *)
TakeParse(m) ==
  /\ parse = NotParsing /\ m \in parses
  /\ parses' = parses \ {m}
  /\ parse' = IF fileRow.hash = m THEN [hash |-> m, bytes |-> canonical] ELSE parse
  /\ UNCHANGED <<version, sent, upload, staging, finish, canonical, displaced, fileRow, derived, stored, mplan, mfaults>>

Publish ==
  /\ parse # NotParsing /\ parse' = NotParsing
  /\ IF fileRow.hash = parse.hash
       THEN /\ fileRow' = [fileRow EXCEPT !.state = "parsed"]
            /\ derived' = [state |-> "ready", rev |-> parse.hash, bytes |-> parse.bytes]
       ELSE UNCHANGED <<fileRow, derived>>
  /\ UNCHANGED <<version, sent, upload, staging, finish, canonical, displaced, parses, stored, mplan, mfaults>>

(* What nobody uses for seven days: R2 drops an open upload, runPrune the   *)
(* staging object of a complete that died.                                  *)
Old(n) == At(n, "idle") /\ ~(upload.n = n /\ upload.pc \in {"part", "wait", "abort"})

Expire(n) ==
  /\ Old(n) /\ staging[n].state = "open"
  /\ staging' = [staging EXCEPT ![n] = NoStaging]
  /\ UNCHANGED <<version, sent, upload, finish, hubState, mplan, mfaults>>

(* Mutant: the prune keeps what was not copied. *)
PrunableCopied(n) == staging[n].state = "object" /\ staging[n].bytes = canonical

Prunable(n) == staging[n].state = "object"

Prune(n) ==
  /\ Old(n) /\ Prunable(n)
  /\ staging' = [staging EXCEPT ![n] = NoStaging]
  /\ UNCHANGED <<version, sent, upload, finish, hubState, mplan, mfaults>>

UploadStep ==
  \/ Hash \/ CreateLook \/ CreateHead \/ CreateMark \/ CreateSend \/ SendPart \/ Complete \/ Abort
  \/ \E n \in Nonces : CreateOpen(n)

ServeUpload(n) ==
  \/ Look(n) \/ Assemble(n) \/ GetStaged(n) \/ CheckExtends(n) \/ Preserve(n) \/ PutCanonical(n)
  \/ DropStaging(n) \/ Upsert(n) \/ Flip(n) \/ PutRow(n) \/ PutHead(n) \/ PutAgain(n)
  \/ Observe(n) \/ Compare(n) \/ Realign(n) \/ Reflip(n) \/ Resend(n) \/ Send(n)

ParseStep == (\E m \in parses : TakeParse(m)) \/ Publish

MultipartNext ==
  \/ Rewrite \/ UploadStep \/ GiveUp \/ Carry \/ ParseStep
  \/ \E n \in Requests : ServeUpload(n) \/ Die(n)
  \/ \E n \in Nonces : Expire(n) \/ Prune(n)

(* The scheduled runs repeat, requests are served, and the cron runs daily. *)
MultipartFairness ==
  /\ WF_multipartVars(UploadStep) /\ WF_multipartVars(ParseStep)
  /\ \A n \in Requests : WF_multipartVars(ServeUpload(n))
  /\ \A n \in Nonces : WF_multipartVars(Expire(n)) /\ WF_multipartVars(Prune(n))

MultipartSpec == MultipartInit /\ [][MultipartNext]_multipartVars /\ MultipartFairness

-----------------------------------------------------------------------------
MultipartTypeOK ==
  /\ sent \in Contents \cup {Nothing}
  /\ \A n \in Nonces : staging[n].state \in {"none", "open", "object"}
  /\ fileRow.hash \in Contents \cup {Nothing}
  /\ fileRow.state \in {"absent", "pending", "parsed", "skipped"}
  /\ displaced \subseteq Contents /\ parses \subseteq Contents /\ stored \subseteq Contents
  /\ derived.state \in {"absent", "parsing", "ready"}

Resting == parses = {} /\ parse = NotParsing /\ \A n \in Requests : finish[n].pc \in {"idle", "done"}

(* The raw object is always a file as it once was, never a mixture of two   *)
(* versions that were read while it changed.                                *)
CanonicalIsWhole == canonical \in {mplan.versions[i] : i \in 1..version} \cup {mplan.carried, Nothing}

(* A PUT that looked for its row and its object, and wrote its body again   *)
(* when the row was another's.                                              *)
PutTooLate == finish[Carried].late

(* A complete that the collector gave up on may go by a hash that is back,  *)
(* of a version that returned, or that the carried file shares.             *)
NeverBack == \A i, j \in DOMAIN mplan.versions : mplan.versions[i] = mplan.versions[j] => i = j

MisledByHash == "timeout" \in mfaults /\ (mplan.carried # Nothing \/ ~NeverBack)

(* What is at rest agrees, when no request died, no PUT was too late and no *)
(* abandoned complete was misled: the row has the hash of the object and    *)
(* the session was parsed from it.                                          *)
Agreeing ==
  /\ fileRow.hash = canonical
  /\ ~mplan.other /\ canonical # Nothing =>
       derived = [state |-> "ready", rev |-> canonical, bytes |-> canonical]

RowFindsObject ==
  Resting /\ "crash" \notin mfaults /\ ~PutTooLate /\ ~MisledByHash => Agreeing

(* What the hub said it had stored, or more of it, is the raw object or a   *)
(* preserved predecessor, as long as requests do not overlap.               *)
StoredIsRecoverable ==
  mfaults \cap {"timeout", "crash"} = {} /\ mplan.carried = Nothing =>
    \A rev \in stored : \E kept \in displaced \cup {canonical} : IsPrefix(rev, kept)

(* No staging object stays.                                                 *)
Released == \A n \in Nonces : staging[n] = NoStaging

(* Once the file rests, the hub gets it, whatever failed on the way.        *)
Arrived == "timeout" \notin mplan.faults /\ mplan.carried = Nothing => sent = Source /\ canonical = Source

(* The raw object, its row and its session agree once requests are over,    *)
(* and no acknowledged content is lost (multipart.ts, upload.ts).           *)
UploadIsWhole == MultipartTypeOK /\ CanonicalIsWhole /\ RowFindsObject /\ StoredIsRecoverable
=============================================================================
