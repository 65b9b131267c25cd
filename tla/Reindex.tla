------------------------------- MODULE Reindex -------------------------------
(***************************************************************************)
(* The reindex of a date range, hub/src/reindex-range.ts: a frozen list of *)
(* targets, dispatched a page at a time by continuations that hold a       *)
(* lease, and observed until each is parsed again or has failed.           *)
(*                                                                         *)
(* Uploads, a cleanup's reservation and the parse consumer work on the     *)
(* same rows meanwhile.  A continuation may die, or go on after its lease  *)
(* was taken over, and the queue may refuse a message it has taken.        *)
(***************************************************************************)
EXTENDS Naturals, Sequences, FiniteSets, SequencesExt

CONSTANTS Targets,        \* naturals: sessions, each with a file of its own
          Continuations,
          TargetPage,     \* PAGE_SIZE
          ReindexPlans    \* bound: sessions in the range, in a shared file, in files that do not parse; faults

ReindexFaults == {"reject",  \* the queue refuses a message, which it may have taken
                  "die",     \* a continuation dies
                  "slow",    \* a lease runs out under its holder
                  "upload",  \* a file changes
                  "reserve"} \* a cleanup reserves a file

ASSUME ReindexAssumption ==
  /\ Targets \subseteq Nat /\ IsFiniteSet(Targets) /\ TargetPage \in Nat \ {0}
  /\ \A p \in ReindexPlans : p.shared \cup p.broken \subseteq p.range /\ p.range \subseteq Targets /\ p.faults \subseteq ReindexFaults

VARIABLES source,    \* source[s]: the file: content, parse state and reservation
          live,      \* live[s]: the session: index_state, and the generation a write holds
          target,    \* target[s]: the reindex_range_targets row
          order,     \* last_attempt_at: targets attempted, least recently first
          rangeJob,  \* the job: status and lease
          dispatch,  \* dispatch[c]: a continuation
          messages,  \* parse messages
          consumer,  \* the parse in progress
          since,     \* since[s]: what the timestamps say of the time after dispatched_at
          rewritten, \* history: targets whose session was written wholly after dispatched_at
          iplan, spent

rowVars == <<source, live>>
receiptVars == <<target, order, rangeJob, since>>
reindexVars == <<rowVars, receiptVars, dispatch, messages, consumer, rewritten, iplan, spent>>

Free == "none"
NotSent == [pc |-> "idle", page |-> <<>>, reason |-> Free]
NoParse == [pc |-> "idle", s |-> 0, hash |-> 0, after |-> FALSE, owner |-> FALSE]

ReindexInit ==
  /\ iplan \in ReindexPlans /\ spent = {}
  /\ source = [s \in Targets |-> [hash |-> 1, state |-> "parsed", fresh |-> FALSE, reason |-> Free]]
  /\ live = [s \in Targets |-> [state |-> "ready", owned |-> FALSE]]
  /\ target = [s \in Targets |-> [state |-> "absent", attempt |-> Free, reason |-> Free]]
  /\ order = <<>>
  /\ rangeJob = [status |-> "absent", lease |-> Free, over |-> FALSE]
  /\ dispatch = [c \in Continuations |-> NotSent]
  /\ messages = {} /\ consumer = NoParse
  /\ since = [s \in Targets |-> [parsed |-> FALSE, updated |-> FALSE]]
  /\ rewritten = {}

Spends(kind) == kind \in iplan.faults \ spent /\ spent' = spent \cup {kind}

-----------------------------------------------------------------------------
(* What else happens to the rows.                                           *)

(* A session that leaves 'ready' loses its generation: the write under way  *)
(* cannot be published.                                                     *)
Lowered == [state |-> "parsing", owned |-> FALSE]

Message(s, reason, owner) == [s |-> s, hash |-> source[s].hash, reason |-> reason, owner |-> owner]

(* recordUploadedObject: new bytes, the session flipped, a message.         *)
UploadTarget(s) ==
  /\ Spends("upload") /\ source[s].state # "reserved"
  /\ source' = [source EXCEPT ![s] = [hash |-> 2, state |-> "pending", fresh |-> FALSE, reason |-> Free]]
  /\ live' = [live EXCEPT ![s] = Lowered]
  /\ messages' = messages \cup {[Message(s, "upload", FALSE) EXCEPT !.hash = 2]}
  /\ UNCHANGED <<receiptVars, dispatch, consumer, rewritten, iplan>>

(* A cleanup reserves the file, and later sends its owner's message, or     *)
(* dies; then the reservation goes stale and files/check heals it.          *)
ReserveTarget(s) ==
  /\ Spends("reserve") /\ source[s].state \in {"parsed", "pending"}
  /\ source' = [source EXCEPT ![s] = [@ EXCEPT !.state = "reserved", !.fresh = TRUE,
                   !.reason = IF source[s].state = "pending" THEN "upload" ELSE "recover"]]
  /\ UNCHANGED <<live, receiptVars, dispatch, messages, consumer, rewritten, iplan>>

OwnerSends(s) ==
  /\ source[s].state = "reserved" /\ source[s].fresh
  /\ Message(s, source[s].reason, TRUE) \notin messages /\ consumer.s # s
  /\ messages' = messages \cup {Message(s, source[s].reason, TRUE)}
  /\ UNCHANGED <<rowVars, receiptVars, dispatch, consumer, rewritten, iplan, spent>>

GoesStale(s) ==
  /\ source[s].state = "reserved" /\ source[s].fresh
  /\ \A m \in messages : ~(m.s = s /\ m.owner)
  /\ consumer.s # s
  /\ source' = [source EXCEPT ![s].fresh = FALSE]
  /\ UNCHANGED <<live, receiptVars, dispatch, messages, consumer, rewritten, iplan, spent>>

FilesCheck(s) ==
  /\ \/ source[s].state = "reserved" /\ ~source[s].fresh
     \/ source[s].state \in {"pending", "error"} /\ messages = {} /\ consumer = NoParse
          /\ s \notin iplan.broken
  /\ source' = [source EXCEPT ![s] = [@ EXCEPT !.state = "pending", !.fresh = FALSE, !.reason = Free]]
  /\ messages' = messages \cup {Message(s, IF source[s].reason = Free THEN "upload" ELSE source[s].reason, FALSE)}
  /\ UNCHANGED <<live, receiptVars, dispatch, consumer, rewritten, iplan, spent>>

-----------------------------------------------------------------------------
(* The consumer: one delivery at a time.                                    *)

Takes(m) ==
  /\ m.hash = source[m.s].hash
  /\ IF source[m.s].state = "reserved" /\ source[m.s].fresh THEN m.owner ELSE ~m.owner

Take(m) ==
  /\ consumer = NoParse /\ m \in messages /\ messages' = messages \ {m}
  /\ consumer' = IF Takes(m) THEN [NoParse EXCEPT !.pc = "begin", !.s = m.s, !.hash = m.hash, !.owner = m.owner]
                 ELSE NoParse
  /\ UNCHANGED <<rowVars, receiptVars, dispatch, rewritten, iplan, spent>>

(* A superseded delivery gives up; an upload's message owns the row, or the *)
(* delivery is repeated.                                                    *)
Superseded ==
  /\ consumer' = NoParse
  /\ messages' = IF source[consumer.s].hash = consumer.hash
                 THEN messages \cup {Message(consumer.s, "upload", consumer.owner)} ELSE messages

Dispatched(s) == target[s].attempt # Free

BeginParse ==
  /\ consumer.pc = "begin"
  /\ IF source[consumer.s].hash = consumer.hash
       THEN /\ live' = [live EXCEPT ![consumer.s] = [state |-> "parsing", owned |-> TRUE]]
            /\ consumer' = [consumer EXCEPT !.pc = "publish", !.after = Dispatched(consumer.s)]
            /\ UNCHANGED messages
       ELSE Superseded /\ UNCHANGED live
  /\ UNCHANGED <<source, receiptVars, dispatch, rewritten, iplan, spent>>

Publish ==
  LET s == consumer.s
  IN  /\ consumer.pc = "publish" /\ s \notin iplan.broken
      /\ IF source[s].hash = consumer.hash /\ live[s].owned
           THEN /\ live' = [live EXCEPT ![s].state = "ready"]
                /\ since' = [since EXCEPT ![s].updated = TRUE]
                /\ rewritten' = IF consumer.after THEN rewritten \cup {s} ELSE rewritten \ {s}
                /\ consumer' = [consumer EXCEPT !.pc = "mark"] /\ UNCHANGED messages
           ELSE Superseded /\ UNCHANGED <<live, since, rewritten>>
      /\ UNCHANGED <<source, target, order, rangeJob, dispatch, iplan, spent>>

(* markParsed: the row still has these bytes, and the session this write.   *)
Mark ==
  LET s == consumer.s
  IN  /\ consumer.pc = "mark"
      /\ IF source[s].hash = consumer.hash /\ live[s] = [state |-> "ready", owned |-> TRUE]
           THEN /\ source' = [source EXCEPT ![s] = [@ EXCEPT !.state = "parsed", !.fresh = FALSE, !.reason = Free]]
                /\ since' = [since EXCEPT ![s].parsed = TRUE]
                /\ consumer' = NoParse /\ UNCHANGED messages
           ELSE Superseded /\ UNCHANGED <<source, since>>
      /\ UNCHANGED <<live, target, order, rangeJob, dispatch, rewritten, iplan, spent>>

(* Bytes that cannot be parsed.                                             *)
FailParse ==
  LET s == consumer.s
  IN  /\ consumer.pc = "publish" /\ s \in iplan.broken
      /\ IF source[s].hash = consumer.hash
           THEN /\ source' = [source EXCEPT ![s] = [@ EXCEPT !.state = "error", !.fresh = FALSE]]
                /\ live' = [live EXCEPT ![s] = [state |-> "error", owned |-> FALSE]]
           ELSE UNCHANGED <<source, live>>
      /\ consumer' = NoParse
      /\ UNCHANGED <<receiptVars, dispatch, messages, rewritten, iplan, spent>>

-----------------------------------------------------------------------------
(* What an observer makes of a target (FAILURE, READY, FRESH).              *)

IsFresh(s) == source[s].state = "reserved" /\ source[s].fresh

Failure(s) ==
  \/ target[s].state = "error"
  \/ /\ target[s].state # "ready"
     /\ \/ source[s].hash # 1
        \/ Dispatched(s) /\ (source[s].state = "error" \/ live[s].state = "error")

ParsedSince(s) ==
  /\ Dispatched(s) /\ source[s].state = "parsed" /\ live[s].state = "ready"
  /\ since[s].parsed /\ since[s].updated

Outcome(s) ==
  CASE Failure(s) -> "error"
    [] ~Failure(s) /\ (target[s].state = "ready" \/ ParsedSince(s)) -> "ready"
    [] ~Failure(s) /\ ~(target[s].state = "ready" \/ ParsedSince(s)) /\ IsFresh(s) -> "blocked"
    [] OTHER -> "pending"

Closed(state) == state \in {"ready", "error"}

Running == rangeJob.status = "dispatching"

(* reconcileStatements: receipts are written once, and the job ends with    *)
(* its last target.                                                         *)
Receipts ==
  [s \in Targets |-> IF Running /\ s \in iplan.range /\ ~Closed(target[s].state) /\ Closed(Outcome(s)) THEN [target[s] EXCEPT !.state = Outcome(s)] ELSE target[s]]

Disposition(t) ==
  IF \A s \in iplan.range : t[s].state = "ready" THEN "complete"
  ELSE IF \E s \in iplan.range : t[s].state = "ready" THEN "partial" ELSE "failed"

Reconciles ==
  /\ target' = Receipts
  /\ rangeJob' = IF Running /\ \A s \in iplan.range : Closed(target'[s].state)
                 THEN [rangeJob EXCEPT !.status = Disposition(target')] ELSE rangeJob

(* createReindexRange: one transaction freezes the selection; one target in *)
(* a shared file fails them all, and none is no work.                       *)
CreateRange ==
  /\ rangeJob.status = "absent"
  /\ target' = [s \in Targets |-> [target[s] EXCEPT !.state =
                  IF s \notin iplan.range THEN @ ELSE IF iplan.shared # {} THEN "error" ELSE "pending"]]
  /\ rangeJob' = [rangeJob EXCEPT !.status =
                    IF iplan.shared # {} THEN "failed" ELSE IF iplan.range = {} THEN "complete" ELSE "dispatching"]
  /\ UNCHANGED <<rowVars, order, since, dispatch, messages, consumer, rewritten, iplan, spent>>

(* getReindexRange reconciles too.                                          *)
GetRange ==
  /\ Running /\ Reconciles /\ target' # target
  /\ UNCHANGED <<rowVars, order, since, dispatch, messages, consumer, rewritten, iplan, spent>>

-----------------------------------------------------------------------------
(* continueReindexRange                                                     *)

Claimable == rangeJob.lease = Free \/ rangeJob.over

ClaimRange(c) ==
  /\ dispatch[c] = NotSent /\ Running /\ Claimable
  /\ \E s \in iplan.range : ~Closed(Outcome(s)) /\ target[s].state # "enqueued"
  /\ rangeJob' = [rangeJob EXCEPT !.lease = c, !.over = FALSE]
  /\ dispatch' = [dispatch EXCEPT ![c] = [NotSent EXCEPT !.pc = "reconcile"]]
  /\ UNCHANGED <<rowVars, target, order, since, messages, consumer, rewritten, iplan, spent>>

ReconcileRange(c) ==
  /\ dispatch[c].pc = "reconcile" /\ Reconciles
  /\ dispatch' = [dispatch EXCEPT ![c].pc = "page"]
  /\ UNCHANGED <<rowVars, order, since, messages, consumer, rewritten, iplan, spent>>

Owed == {s \in iplan.range : Outcome(s) \in {"pending", "blocked"} /\ target[s].state # "enqueued"}

Tried(s) == s \in ToSet(order)

(* Blocked ones last, then the least recently attempted.                    *)
Sooner(s, t) ==
  LET rank(u) == IF Tried(u) THEN CHOOSE i \in DOMAIN order : order[i] = u ELSE 0
  IN  IF IsFresh(s) # IsFresh(t) THEN ~IsFresh(s)
      ELSE rank(s) < rank(t) \/ (rank(s) = rank(t) /\ s < t)

TakePage(c) ==
  LET sorted == SetToSortSeq(Owed, Sooner)
  IN  /\ dispatch[c].pc = "page"
      /\ dispatch' = [dispatch EXCEPT ![c] = [@ EXCEPT !.pc = "renew",
                        !.page = SubSeq(sorted, 1, IF Len(sorted) < TargetPage THEN Len(sorted) ELSE TargetPage)]]
      /\ UNCHANGED <<rowVars, receiptVars, messages, consumer, rewritten, iplan, spent>>

Holds(c) == Running /\ rangeJob.lease = c /\ ~rangeJob.over

(* Renewing fails when the lease is gone: the page is abandoned.            *)
Renew(c) ==
  /\ dispatch[c].pc = "renew"
  /\ dispatch' = [dispatch EXCEPT ![c].pc = IF dispatch[c].page = <<>> \/ ~Holds(c) THEN "release" ELSE "prepare"]
  /\ UNCHANGED <<rowVars, receiptVars, messages, consumer, rewritten, iplan, spent>>

Turn(c) == Head(dispatch[c].page)

NextTarget(c) == [dispatch[c] EXCEPT !.pc = "renew", !.page = Tail(@)]

Invalidated(s) == [live EXCEPT ![s] = Lowered]

(* Mutant: whatever the row was reserved for. *)
IntentNone(s) == IF target[s].reason # Free THEN target[s].reason ELSE "reindex"

Intent(s) ==
  IF source[s].state \in {"reserved", "pending"} /\ source[s].reason # Free THEN source[s].reason
  ELSE IF target[s].reason # Free THEN target[s].reason ELSE "reindex"

(* The batch of dispatchTarget: an attempt, and if the target may be sent,  *)
(* its intent, its file and its session, all or none.                       *)
Prepare(c) ==
  LET s == Turn(c)
      mine == Holds(c) /\ target[s].state \notin {"enqueued", "ready", "error"}
      sends == mine /\ ~Failure(s) /\ ~IsFresh(s) /\ ~ParsedSince(s)
  IN  /\ dispatch[c].pc = "prepare"
      /\ order' = IF mine THEN Append(SelectSeq(order, LAMBDA t : t # s), s) ELSE order
      /\ IF sends
           THEN /\ target' = [target EXCEPT ![s] = [@ EXCEPT !.state = "sending", !.attempt = c, !.reason = Intent(s)]]
                /\ since' = IF Dispatched(s) THEN since
                            ELSE [since EXCEPT ![s] = [parsed |-> FALSE, updated |-> FALSE]]
                /\ rewritten' = IF Dispatched(s) THEN rewritten ELSE rewritten \ {s}
                /\ source' = [source EXCEPT ![s] = [@ EXCEPT !.state = "pending", !.fresh = FALSE,
                                !.reason = IF source[s].state \in {"reserved", "pending"} THEN source[s].reason ELSE Free]]
                /\ live' = Invalidated(s)
                /\ dispatch' = [dispatch EXCEPT ![c] = [@ EXCEPT !.pc = "send", !.reason = Intent(s)]]
           ELSE /\ target' = IF mine /\ IsFresh(s) THEN [target EXCEPT ![s].state = "blocked"] ELSE target
                /\ dispatch' = [dispatch EXCEPT ![c] = NextTarget(c)]
                /\ UNCHANGED <<rowVars, since, rewritten>>
      /\ UNCHANGED <<rangeJob, messages, consumer, iplan, spent>>

TargetMessage(c) == [Message(Turn(c), dispatch[c].reason, FALSE) EXCEPT !.hash = 1]

(* A refusal may be wrong: the intent and its time stay as they are.        *)
SendTarget(c) ==
  /\ dispatch[c].pc = "send"
  /\ \/ /\ messages' = messages \cup {TargetMessage(c)}
        /\ dispatch' = [dispatch EXCEPT ![c].pc = "accept"] /\ UNCHANGED spent
     \/ /\ Spends("reject") /\ messages' \in {messages, messages \cup {TargetMessage(c)}}
        /\ dispatch' = [dispatch EXCEPT ![c] = NextTarget(c)]
  /\ UNCHANGED <<rowVars, receiptVars, consumer, rewritten, iplan>>

(* The receipt of the send, and the intent that it carried.                 *)
Accept(c) ==
  LET s == Turn(c)
  IN  /\ dispatch[c].pc = "accept"
      /\ target' = IF Holds(c) /\ target[s].attempt = c
                     /\ target[s].state = "sending"
                   THEN [target EXCEPT ![s].state = "enqueued"] ELSE target
      /\ source' = IF Holds(c) /\ source[s].hash = 1 /\ source[s].state = "pending" /\ source[s].reason = dispatch[c].reason
                   THEN [source EXCEPT ![s].reason = Free] ELSE source
      /\ dispatch' = [dispatch EXCEPT ![c] = NextTarget(c)]
      /\ UNCHANGED <<live, order, rangeJob, since, messages, consumer, rewritten, iplan, spent>>

Unheld(c) == IF rangeJob.lease = c THEN [rangeJob EXCEPT !.lease = Free, !.over = FALSE] ELSE rangeJob

Release(c) ==
  /\ dispatch[c].pc = "release" /\ rangeJob' = Unheld(c)
  /\ dispatch' = [dispatch EXCEPT ![c] = NotSent]
  /\ UNCHANGED <<rowVars, target, order, since, messages, consumer, rewritten, iplan, spent>>

DieHolding(c) ==
  /\ dispatch[c] # NotSent /\ Spends("die")
  /\ dispatch' = [dispatch EXCEPT ![c] = NotSent]
  /\ UNCHANGED <<rowVars, receiptVars, messages, consumer, rewritten, iplan>>

(* Five minutes after the last renewal.                                     *)
LeaseRunsOut ==
  /\ rangeJob.lease # Free /\ ~rangeJob.over
  /\ dispatch[rangeJob.lease] # NotSent => Spends("slow")
  /\ dispatch[rangeJob.lease] = NotSent => UNCHANGED spent
  /\ rangeJob' = [rangeJob EXCEPT !.over = TRUE]
  /\ UNCHANGED <<rowVars, target, order, since, dispatch, messages, consumer, rewritten, iplan>>

-----------------------------------------------------------------------------
Continue(c) ==
  ReconcileRange(c) \/ TakePage(c) \/ Renew(c) \/ Prepare(c) \/ SendTarget(c) \/ Accept(c) \/ Release(c)

Parsing == (\E m \in messages : Take(m)) \/ BeginParse \/ Publish \/ Mark \/ FailParse

Caring == \E s \in iplan.range : OwnerSends(s) \/ FilesCheck(s)

Claiming == \E c \in Continuations : ClaimRange(c)

ReindexNext ==
  \/ CreateRange \/ GetRange \/ Claiming \/ LeaseRunsOut \/ Parsing \/ Caring
  \/ \E c \in Continuations : Continue(c) \/ DieHolding(c)
  \/ \E s \in iplan.range : UploadTarget(s) \/ ReserveTarget(s) \/ GoesStale(s)

(* The administrator continues and polls; queue, cleanup and collector go on.*)
ReindexFairness ==
  /\ WF_reindexVars(Parsing) /\ WF_reindexVars(Caring) /\ WF_reindexVars(Claiming)
  /\ WF_reindexVars(GetRange) /\ WF_reindexVars(LeaseRunsOut)
  /\ \A c \in Continuations : WF_reindexVars(Continue(c))

ReindexSpec == ReindexInit /\ [][ReindexNext]_reindexVars /\ ReindexFairness

-----------------------------------------------------------------------------
ReindexTypeOK ==
  /\ rangeJob.status \in {"absent", "dispatching", "complete", "partial", "failed"}
  /\ rangeJob.lease \in Continuations \cup {Free}
  /\ \A s \in Targets :
       /\ source[s].state \in {"parsed", "pending", "reserved", "error"}
       /\ source[s].fresh => source[s].state = "reserved"
       /\ target[s].state \in {"absent", "pending", "sending", "enqueued", "blocked", "ready", "error"}

(* A target is ready only if its session was written, from the first row to *)
(* the publication, after it was dispatched.                                *)
ReadyIsWrittenAnew == \A s \in Targets : target[s].state = "ready" => s \in rewritten

(* A file that was taken from a reservation has the reason in the target    *)
(* too: whoever sends it next, after a refusal or another's lease, says so. *)
IntentIsKept ==
  \A s \in Targets :
    source[s].state = "pending" /\ source[s].reason # Free => target[s].reason = source[s].reason

RangeIsRewritten == ReadyIsWrittenAnew /\ IntentIsKept

(* A target of a reindex is ready only when it was written anew, and what a *)
(* reservation needed of it is asked of the parse (reindex-range.ts).       *)
RangeIsWhole == ReindexTypeOK /\ RangeIsRewritten
=============================================================================
