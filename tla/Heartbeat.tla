------------------------------ MODULE Heartbeat ------------------------------
(***************************************************************************)
(* The events that a collector buffers and its heartbeat delivers:         *)
(* collector/run.py (_heartbeat), collector/state.py (pending_events) and  *)
(* the receipt of hub/src/api/ops.ts.                                      *)
(*                                                                         *)
(* A pass buffers its events, then compacts, reads, sends, deletes and     *)
(* saves a cursor, page by page; it may die between any two of them, and   *)
(* an answer may be lost.  Ids are those of an INTEGER PRIMARY KEY: the    *)
(* largest in use plus one, so that deleted ones come back.                *)
(***************************************************************************)
EXTENDS Integers, Sequences, FiniteSets, FiniteSetsExt, Functions, TLC

CONSTANTS Keys,        \* identities of events: level, code, message, store
          Bytes,       \* what an event of that identity takes in a request
          Payload,     \* HEARTBEAT_MAX_BYTES, less the envelope
          EventPage,   \* HEARTBEAT_MAX_EVENTS
          MaxPages,    \* HEARTBEAT_MAX_BATCHES
          CompactRows, \* HEARTBEAT_COMPACT_ROWS
          BeatPlans    \* bound: the passes' events, and faults

BeatFaults == {"refuse", \* the hub answers an error
               "lost",   \* it stores the heartbeat, its answer is lost
               "die"}    \* the process dies

ASSUME HeartbeatAssumption ==
  /\ Bytes \in [Keys -> Nat \ {0}] /\ {Payload, EventPage, MaxPages, CompactRows} \subseteq Nat \ {0}
  /\ \A p \in BeatPlans : p.faults \subseteq BeatFaults /\ \A i \in DOMAIN p.passes : p.passes[i].events \in Seq(Keys)

VARIABLES beats,   \* how the run goes: [passes, faults]
          pending, \* pending_events: [key, count] by id
          cursor,  \* meta.heartbeat_event_cursor
          beat,    \* the pass
          heard,   \* heartbeats of the hub: the count of each identity
          told     \* history: the count of each identity that was buffered

heartbeatVars == <<beats, pending, cursor, beat, heard, told>>

NoWindow == -1

NoBeat == [pc |-> "rest", after |-> 0, end |-> NoWindow, page |-> <<>>, turn |-> 0, acks |-> {}, body |-> <<>>,
            over |-> FALSE, proved |-> FALSE, ok |-> FALSE]

-----------------------------------------------------------------------------
(* state.py                                                                 *)

LastEvent == Max({0} \cup DOMAIN pending)

(* buffer_events: one transaction.                                          *)
Buffered(keys) ==
  [id \in DOMAIN pending \cup {LastEvent + i : i \in DOMAIN keys} |->
     IF id \in DOMAIN pending THEN pending[id] ELSE [key |-> keys[id - LastEvent], count |-> 1]]

Ahead(ids, after) == {id \in ids : id > after}

(* The first n of them, in order.                                           *)
FirstOf(ids, n) == {id \in ids : Cardinality({i \in ids : i <= id}) <= n}

Ordered(ids) == [k \in 1..Cardinality(ids) |-> CHOOSE id \in ids : Cardinality({i \in ids : i <= id}) = k]

(* The rows that a compaction looks at.                                     *)
Window(after) == FirstOf(Ahead(DOMAIN pending, after), CompactRows)

CountOf(key, ids) == SumFunctionOnSet([id \in ids |-> pending[id].count], {id \in ids : pending[id].key = key})

(* compact_events: the earliest of each identity takes the counts of all.   *)
Compacted(after) ==
  LET window == Window(after)
      kept == {id \in window : \A i \in window : pending[i].key = pending[id].key => id <= i}
  IN  [id \in (DOMAIN pending \ window) \cup kept |->
         IF id \in window THEN [pending[id] EXCEPT !.count = CountOf(pending[id].key, window)] ELSE pending[id]]

EndOf(after) == IF Window(after) = {} THEN NoWindow ELSE Max(Window(after))

(* drain_events: reads a page of the window.                                *)
Page(events, after, end) ==
  Ordered(FirstOf({id \in DOMAIN events : id > after /\ (end = NoWindow \/ id <= end)}, EventPage))

-----------------------------------------------------------------------------
(* A page in a request: [size, acks, after, over, full]                     *)

Empty(after) == [size |-> 0, acks |-> {}, after |-> after, over |-> FALSE, full |-> FALSE]

(* One that fits in no request is passed over; one that does not fit in     *)
(* this request waits for the next.  A window holds an identity once.       *)
Take(page, id, events) ==
  LET n == Bytes[events[id].key]
  IN  IF page.full THEN page
      ELSE IF n > Payload THEN [page EXCEPT !.over = TRUE, !.after = id]
      ELSE IF page.size + n > Payload THEN [page EXCEPT !.full = TRUE]
      ELSE [page EXCEPT !.size = @ + n, !.acks = @ \cup {id}, !.after = id]

Request(ids, after, events) ==
  LET upTo[n \in 0..Len(ids)] == IF n = 0 THEN Empty(after) ELSE Take(upTo[n - 1], ids[n], events)
  IN  upTo[Len(ids)]

(* What is received: identities and counts.                                 *)
BodyOf(acks, events) == [key \in {events[id].key : id \in acks} |->
                         SumFunctionOnSet([id \in acks |-> events[id].count], {id \in acks : events[id].key = key})]

-----------------------------------------------------------------------------
(* A run or a backfill ends: its events are committed first of all.  A      *)
(* backfill leaves them to the next run.                                    *)
BufferEvents ==
  /\ beat.pc = "rest"
  /\ LET due == IF beats.passes # <<>> THEN beats.passes[1] ELSE [events |-> <<>>, run |-> TRUE]
     IN  /\ beats.passes # <<>> \/ DOMAIN pending # {}
         /\ pending' = Buffered(due.events)
         /\ told' = [key \in Keys |-> told[key] + Cardinality({i \in DOMAIN due.events : due.events[i] = key})]
         /\ beat' = IF due.run THEN [NoBeat EXCEPT !.pc = "compact", !.after = cursor] ELSE NoBeat
         /\ beats' = [beats EXCEPT !.passes = IF @ = <<>> THEN @ ELSE Tail(@)]
  /\ UNCHANGED <<cursor, heard>>

(* The window is fixed at the start of a pass and when it is exhausted.     *)
Compact ==
  /\ beat.pc = "compact"
  /\ pending' = Compacted(beat.after)
  /\ beat' = [beat EXCEPT !.pc = "drain", !.end = EndOf(beat.after)]
  /\ UNCHANGED <<beats, cursor, heard, told>>

(* Read a page and make a request of it.  When the window is exhausted the  *)
(* next one begins; when nothing is ahead, the cursor goes back to zero:    *)
(* at once in the first round, for the next pass in a later one.            *)
Drain ==
  /\ beat.pc = "drain"
  /\ LET ids == Page(pending, beat.after, beat.end)
         r == Request(ids, beat.after, pending)
     IN  \/ /\ ids # <<>> \/ (beat.end = NoWindow /\ beat.after = 0)
            /\ beat' = [beat EXCEPT !.pc = "post", !.page = ids, !.after = r.after, !.acks = r.acks,
                                    !.body = BodyOf(r.acks, pending), !.over = @ \/ r.over]
            /\ UNCHANGED cursor
         \/ /\ ids = <<>> /\ beat.end # NoWindow
            /\ beat' = [beat EXCEPT !.pc = "compact", !.after = beat.end]
            /\ UNCHANGED cursor
         \/ /\ ids = <<>> /\ beat.end = NoWindow /\ beat.after # 0
            /\ cursor' = 0
            /\ beat' = IF beat.turn > 0 THEN [beat EXCEPT !.pc = "end"]
                       ELSE [beat EXCEPT !.pc = "compact", !.after = 0]
  /\ UNCHANGED <<beats, pending, heard, told>>

Strike(fault) == fault \in beats.faults /\ beats' = [beats EXCEPT !.faults = @ \ {fault}]

(* POST /api/v1/heartbeat: the row and machines.last_seen_at in one batch.  *)
Post ==
  /\ beat.pc = "post"
  /\ \/ /\ UNCHANGED beats
        /\ beat' = [beat EXCEPT !.pc = "delete", !.proved = TRUE]
     \/ /\ Strike("lost")
        /\ beat' = NoBeat
  /\ heard' = [key \in Keys |-> heard[key] + IF key \in DOMAIN beat.body THEN beat.body[key] ELSE 0]
  /\ UNCHANGED <<pending, cursor, told>>

RefusePost ==
  /\ beat.pc = "post" /\ Strike("refuse")
  /\ beat' = NoBeat
  /\ UNCHANGED <<pending, cursor, heard, told>>

(* Mutant: the whole page is deleted. *)
AcksPage(page, acks) == {page[i] : i \in DOMAIN page}

(* What the request held.                                                   *)
Acks(page, acks) == acks

DeleteEvents ==
  /\ beat.pc = "delete"
  /\ pending' = Restrict(pending, DOMAIN pending \ Acks(beat.page, beat.acks))
  /\ beat' = [beat EXCEPT !.pc = "save"]
  /\ UNCHANGED <<beats, cursor, heard, told>>

(* An empty page was a proof of life, and the last request of the pass.     *)
SaveCursor ==
  /\ beat.pc = "save"
  /\ cursor' = IF beat.page = <<>> THEN 0 ELSE beat.after
  /\ beat' = [beat EXCEPT !.pc = IF beat.page = <<>> \/ beat.turn + 1 = MaxPages THEN "end" ELSE "drain",
                          !.turn = @ + 1, !.page = <<>>, !.acks = {}, !.body = <<>>]
  /\ UNCHANGED <<beats, pending, heard, told>>

EndBeat ==
  /\ beat.pc = "end"
  /\ beat' = [NoBeat EXCEPT !.ok = ~beat.over, !.proved = beat.proved]
  /\ UNCHANGED <<beats, pending, cursor, heard, told>>

KillBeat ==
  /\ beat.pc # "rest" /\ Strike("die")
  /\ beat' = NoBeat
  /\ UNCHANGED <<pending, cursor, heard, told>>

HeartbeatInit ==
  /\ beats \in BeatPlans
  /\ pending = <<>> /\ cursor = 0 /\ beat = NoBeat
  /\ heard = [key \in Keys |-> 0] /\ told = [key \in Keys |-> 0]

BeatStep == BufferEvents \/ Compact \/ Drain \/ Post \/ DeleteEvents \/ SaveCursor \/ EndBeat

HeartbeatNext == BeatStep \/ RefusePost \/ KillBeat

(* The schedule runs the collector for ever; faults are finite.             *)
HeartbeatFairness == WF_heartbeatVars(BeatStep)

HeartbeatSpec == HeartbeatInit /\ [][HeartbeatNext]_heartbeatVars /\ HeartbeatFairness

-----------------------------------------------------------------------------
HeartbeatTypeOK ==
  /\ \A id \in DOMAIN pending : id > 0 /\ pending[id].key \in Keys /\ pending[id].count > 0
  /\ cursor \in Nat
  /\ beat.pc \in {"rest", "compact", "drain", "post", "delete", "save", "end"} /\ beat.turn <= MaxPages
  /\ beat.acks \subseteq {beat.page[i] : i \in DOMAIN beat.page}

Waiting(key) == CountOf(key, DOMAIN pending)

(* No event is lost, whatever dies or is refused; and none is counted twice *)
(* unless an answer was lost, compaction and reused ids notwithstanding.    *)
EventsAreKept ==
  \A key \in Keys :
    /\ told[key] <= heard[key] + Waiting(key)
    /\ {"lost", "die"} \subseteq beats.faults /\ beat.pc \notin {"delete"} => told[key] = heard[key] + Waiting(key)

(* A pass that succeeds has proved an authenticated write to the hub.       *)
SuccessIsProof == beat.ok => beat.proved

(* All is delivered but what fits in no request, which holds up nothing.    *)
Delivered == \A id \in DOMAIN pending : Bytes[pending[id].key] > Payload

(* No event is lost or counted twice, and a heartbeat that succeeds has     *)
(* reached the hub (run.py, state.py).                                      *)
BeatIsHonest == HeartbeatTypeOK /\ EventsAreKept /\ SuccessIsProof
=============================================================================
