---------------------------- MODULE CertRotation ----------------------------
(***************************************************************************)
(* Client certificates of one machine: renewal (hub/src/api/certs.ts),     *)
(* the administrator's swap (adminMachines in hub/src/api/ops.ts), the     *)
(* daily prune (hub/src/cron/prune.ts) and the queue retired_certs that    *)
(* all of them feed.                                                       *)
(*                                                                         *)
(* The machines row has a current and a previous slot; the previous one    *)
(* authenticates until its grace window lapses.  A certificate that leaves *)
(* both must stay reserved until the CA, which revokes asynchronously, has *)
(* revoked it.  Each call to D1 or to the CA is one action; a certificate  *)
(* stands for its fingerprint and for its CA id.  The collector's side of  *)
(* the protocol and the CA are external.                                   *)
(***************************************************************************)
EXTENDS Naturals, FiniteSets

CONSTANTS MaxCerts,   \* bound: certificates that ever exist
          Requests,   \* renewals that may be in the hub at once
          Plans       \* bound: renewals, swaps, ids an operator names, and faults of a behaviour

FaultKinds == {"throw",    \* a D1 call throws without effect
               "commit",   \* a D1 batch commits and its answer is lost
               "reject",   \* the CA refuses a revocation
               "unclear",  \* the CA's answer is lost, whatever it did
               "malform",  \* the CA signs but answers with no usable certificate
               "crash",    \* a request or the prune dies
               "reply",    \* the collector never gets a reply
               "timeout"}  \* the collector gives up on a running request

ASSUME CertAssumption ==
  /\ MaxCerts \in Nat \ {0, 1}
  /\ Requests \cap {"prune", "admin", "none"} = {}
  /\ Plans \subseteq [id : BOOLEAN, admin : BOOLEAN, renewals : Nat, swaps : Nat,
                      edits : Nat, handles : SUBSET (1..MaxCerts), faults : SUBSET FaultKinds]

VARIABLES ca,        \* status of each certificate at the CA
          row,       \* rotation columns of the machines row
          isAdmin,   \* the machine has administrator rights
          retired,   \* retired_certs
          lapsed,    \* grace windows that have ended
          task,      \* renewals, the prune and the administrator's request
          installed, \* the certificate the collector presents
          returned,  \* certificates it or its operator was ever given
          awaited,   \* the renewal it waits for
          byGrace,   \* history: certificates installed by a grace renewal since the last promotion
          leaked,    \* history: certificates reported as leaked
          late,      \* history: a window lapsed under the installed certificate
          plan,      \* the behaviour's plan: each of its faults may strike once
          done,      \* renewals, swaps and edits asked for, windows opened
          faults     \* faults that have struck

collectorVars == <<installed, returned, awaited>>
historyVars   == <<byGrace, leaked, late>>
budget        == <<plan, done>>
vars == <<ca, row, isAdmin, retired, lapsed, task, collectorVars, historyVars, budget, faults>>

Certs == 1..MaxCerts
None  == 0        \* SQL NULL, in a slot as in an id

First == 1        \* the machine's certificate at the start
Spare == 2        \* enrolled by hand and not yet registered

Prune == "prune"
Admin == "admin"
NoRequest == "none"
Threads == Requests \cup {Prune, Admin}

NoRow == [cur |-> None]

IdleTask == [pc |-> "idle", auth |-> None, slot |-> "none", seen |-> NoRow, cert |-> None,
             id |-> None, trusted |-> FALSE, unknown |-> FALSE, ok |-> FALSE,
             todo |-> {}, claimed |-> None, poll |-> FALSE]

Init ==
  /\ plan \in Plans /\ done = [renewals |-> 0, swaps |-> 0, edits |-> 0, windows |-> 0] /\ faults = {}
  /\ ca = [c \in Certs |-> IF c \in {First, Spare} THEN "active" ELSE "none"]
  /\ row = [cur |-> First, curId |-> IF plan.id THEN First ELSE None,
            prev |-> None, prevId |-> None, until |-> 0]
  /\ isAdmin = plan.admin
  /\ retired = {} /\ lapsed = 0
  /\ task = [t \in Threads |-> IdleTask]
  /\ installed = First /\ returned = {First} /\ awaited = NoRequest
  /\ byGrace = {} /\ leaked = {} /\ late = FALSE

Fault(kind) == kind \in plan.faults \ faults /\ faults' = faults \cup {kind}

NoFault == UNCHANGED faults

Turns(t, x) == task' = [task EXCEPT ![t] = x]

Go(t, pc) == Turns(t, [task[t] EXCEPT !.pc = pc])

Open == row.prev # None /\ row.until > lapsed

-----------------------------------------------------------------------------
(* retired_certs.                                                           *)

Retired(c, id, source) ==
  [cert |-> c, id |-> id, source |-> source, claim |-> "free", revoked |-> FALSE]

Pending == {r \in retired : ~r.revoked}

(* queueRetiredIfDisplaced, for those of the displaced that exist.          *)
Displace(displaced, source) ==
  retired \cup {Retired(d[1], d[2], source) : d \in {e \in displaced : e[1] # None}}

(* A claim excludes every other one for an hour, longer than any run.       *)
Claimable(c) == {r \in Pending : r.id = c /\ r.claim # "held"}

Update(rows, claim, revoked) ==
  (retired \ rows) \cup {[r EXCEPT !.claim = claim, !.revoked = revoked] : r \in rows}

(* settleRetired and pollRetired, one certificate after the other; the poll  *)
(* asks for the status first.                                               *)
Claim(t, c) ==
  /\ task[t].pc = "settle" /\ c \in task[t].todo
  /\ \/ /\ retired' = Update(Claimable(c), "held", FALSE)
        /\ Turns(t, [task[t] EXCEPT !.todo = task[t].todo \ {c},
                       !.pc = IF Claimable(c) = {} THEN "settle"
                              ELSE IF task[t].poll THEN "status" ELSE "delete",
                       !.claimed = IF Claimable(c) = {} THEN None ELSE c])
        /\ NoFault
     \/ /\ Fault("throw")
        /\ Turns(t, [task[t] EXCEPT !.todo = task[t].todo \ {c}])
        /\ UNCHANGED retired
  /\ UNCHANGED <<ca, row, isAdmin, lapsed, collectorVars, historyVars, budget>>

(* Mutant: the certificate of the last claim is kept for the next. *)
NextClaimKeeping(t) == Go(t, "settle")

NextClaim(t) == Turns(t, [task[t] EXCEPT !.pc = "settle", !.claimed = None])

Status(t) ==
  /\ task[t].pc = "status"
  /\ \/ /\ IF ca[task[t].claimed] = "pending" THEN NextClaim(t)
           ELSE Go(t, IF ca[task[t].claimed] = "revoked" THEN "stamp" ELSE "delete")
        /\ NoFault
     \/ Fault("unclear") /\ NextClaim(t)
  /\ UNCHANGED <<ca, row, isAdmin, retired, lapsed, collectorVars, historyVars, budget>>

(* The CA revokes at once or accepts to; a revoked certificate may be gone. *)
Accepted(c) == IF ca[c] = "active" THEN {"pending", "revoked"} ELSE {ca[c]}

Becomes(c, status) == ca' = [ca EXCEPT ![c] = status]

Gone(status) == status = "revoked"

Delete(t) ==
  /\ task[t].pc = "delete"
  /\ LET c == task[t].claimed
     IN  \/ /\ \E s \in Accepted(c) : Becomes(c, s) /\ IF Gone(s) THEN Go(t, "stamp") ELSE NextClaim(t)
            /\ NoFault
         \/ /\ ca[c] = "active" /\ Fault("reject") /\ UNCHANGED ca
            /\ Go(t, "release")
         \/ /\ Fault("unclear")
            /\ \E s \in Accepted(c) \cup {ca[c]} : Becomes(c, s)
            /\ NextClaim(t)
  /\ UNCHANGED <<row, isAdmin, retired, lapsed, collectorVars, historyVars, budget>>

Stamp(t) ==
  /\ task[t].pc = "stamp"
  /\ LET rows == {r \in Pending : r.id = task[t].claimed}
     IN  \/ retired' = (retired \ rows) \cup {[r EXCEPT !.revoked = TRUE] : r \in rows} /\ NoFault
         \/ Fault("throw") /\ UNCHANGED retired
  /\ NextClaim(t)
  /\ UNCHANGED <<ca, row, isAdmin, lapsed, collectorVars, historyVars, budget>>

Release(t) ==
  /\ task[t].pc = "release"
  /\ \/ retired' = Update({r \in Pending : r.id = task[t].claimed}, "free", FALSE) /\ NoFault
     \/ Fault("throw") /\ UNCHANGED retired
  /\ NextClaim(t)
  /\ UNCHANGED <<ca, row, isAdmin, lapsed, collectorVars, historyVars, budget>>

Settled(t) ==
  /\ task[t].pc = "settle" /\ task[t].todo = {}
  /\ IF t \in Requests THEN Go(t, "reply") ELSE Turns(t, IdleTask)
  /\ UNCHANGED <<ca, row, isAdmin, retired, lapsed, collectorVars, historyVars, budget, faults>>

-----------------------------------------------------------------------------
(* POST /certs/renew.                                                       *)

Ask(t) ==
  /\ awaited = NoRequest /\ task[t].pc = "idle" /\ done.renewals < plan.renewals
  /\ awaited' = t /\ done' = [done EXCEPT !.renewals = @ + 1]
  /\ Turns(t, [IdleTask EXCEPT !.pc = "sent", !.auth = installed])
  /\ UNCHANGED <<ca, row, isAdmin, retired, lapsed, installed, returned, historyVars, plan, faults>>

GiveUp ==
  /\ awaited # NoRequest /\ Fault("timeout") /\ awaited' = NoRequest
  /\ UNCHANGED <<ca, row, isAdmin, retired, lapsed, task, installed, returned, historyVars, budget>>

(* machineIdentity *)
Slot(c) == IF c = row.cur THEN "current" ELSE IF c = row.prev /\ Open THEN "grace" ELSE "none"

Identify(t) ==
  /\ task[t].pc = "sent"
  /\ LET c == task[t].auth
         slot == IF ca[c] = "revoked" THEN "none" ELSE Slot(c)
     IN  Turns(t, [task[t] EXCEPT !.slot = slot, !.pc = IF slot = "none" THEN "reply" ELSE "read"])
  /\ UNCHANGED <<ca, row, isAdmin, retired, lapsed, collectorVars, historyVars, budget, faults>>

(* An administrator's grace certificate may not mint a current one.         *)
Read(t) ==
  /\ task[t].pc = "read"
  /\ Turns(t, [task[t] EXCEPT !.seen = row,
                  !.pc = IF isAdmin /\ task[t].slot = "grace" THEN "reply" ELSE "sign"])
  /\ UNCHANGED <<ca, row, isAdmin, retired, lapsed, collectorVars, historyVars, budget, faults>>

Sign(t) ==
  /\ task[t].pc = "sign"
  /\ \/ \E c \in Certs :
          /\ ca[c] = "none" /\ \A d \in 1..(c - 1) : ca[d] # "none"
          /\ Becomes(c, "active")
          /\ \/ Turns(t, [task[t] EXCEPT !.cert = c, !.pc = "swap"]) /\ NoFault
             \/ Turns(t, [task[t] EXCEPT !.cert = c, !.pc = "direct"]) /\ Fault("malform")
     \/ Go(t, "reply") /\ UNCHANGED ca /\ NoFault
  /\ UNCHANGED <<row, isAdmin, retired, lapsed, collectorVars, historyVars, budget>>

OnCurrent(t) == task[t].auth = task[t].seen.cur

(* A reply was lost: the machine still has the certificate in grace.        *)
Grace(t) == ~OnCurrent(t) /\ task[t].slot = "grace" /\ task[t].seen.prev = task[t].auth

(* Mutant: nobody promoted the machine since it was read. *)
GraceOpen == Open

GraceAllowed == Open /\ ~isAdmin

(* The row a renewal makes of the one it read, and what leaves it.          *)
Rotated(s, c) ==
  [row |-> [cur |-> c, curId |-> c, prev |-> s.cur, prevId |-> s.curId, until |-> done.windows + 1],
   out |-> <<s.prev, s.prevId>>, source |-> "prior_slot"]

(* Mutant: a recovery puts the successor that never arrived in grace. *)
RecoveredShifting(s, c) ==
  [row |-> [s EXCEPT !.cur = c, !.curId = c, !.prev = s.cur, !.prevId = s.curId],
   out |-> <<s.prev, s.prevId>>, source |-> "prior_slot"]

(* The successor never arrived: it goes, and grace does not begin again.    *)
Recovered(s, c) ==
  [row |-> [s EXCEPT !.cur = c, !.curId = c],
   out |-> <<s.cur, s.curId>>, source |-> "orphan_cleanup"]

Renewed(t) == IF OnCurrent(t) THEN Rotated(task[t].seen, task[t].cert)
                              ELSE Recovered(task[t].seen, task[t].cert)

Commit(t) ==
  /\ row' = Renewed(t).row
  /\ retired' = Displace({Renewed(t).out}, Renewed(t).source)
  /\ done' = IF OnCurrent(t) THEN [done EXCEPT !.windows = @ + 1] ELSE done
  /\ byGrace' = IF OnCurrent(t) THEN byGrace ELSE byGrace \cup {task[t].cert}

Swap(t) ==
  /\ task[t].pc = "swap"
  /\ IF row = task[t].seen /\ (OnCurrent(t) \/ (Grace(t) /\ GraceAllowed))
       THEN \/ /\ Commit(t) /\ NoFault
               /\ Turns(t, [task[t] EXCEPT !.pc = "settle", !.ok = TRUE,
                                            !.todo = {Renewed(t).out[2]} \ {None}])
            \/ Commit(t) /\ Fault("commit") /\ Go(t, "reclaim")
            \/ Fault("throw") /\ Go(t, "reclaim") /\ UNCHANGED <<row, retired, done, byGrace>>
       ELSE Go(t, "reclaim") /\ UNCHANGED <<row, retired, done, byGrace>> /\ NoFault
  /\ UNCHANGED <<ca, isAdmin, lapsed, collectorVars, leaked, late, plan>>

(* reclaimOrphan: the queue, or else a revocation without it.               *)
Reclaim(t) ==
  /\ task[t].pc = "reclaim"
  /\ LET queued == retired \cup {Retired(task[t].cert, task[t].cert, "orphan_cleanup")}
     IN  \/ /\ retired' = queued /\ NoFault
            /\ Turns(t, [task[t] EXCEPT !.pc = "settle", !.todo = {task[t].cert}])
         \/ Fault("throw") /\ Go(t, "direct") /\ UNCHANGED retired
         \/ Fault("commit") /\ Go(t, "direct") /\ retired' = queued
  /\ UNCHANGED <<ca, row, isAdmin, lapsed, collectorVars, historyVars, budget>>

(* revokeOrphanCert *)
Direct(t) ==
  /\ task[t].pc = "direct"
  /\ LET c == task[t].cert
     IN  \/ /\ \E s \in Accepted(c) : Becomes(c, s)
            /\ UNCHANGED leaked /\ NoFault
         \/ ca[c] = "active" /\ Fault("reject") /\ leaked' = leaked \cup {c} /\ UNCHANGED ca
         \/ /\ Fault("unclear") /\ leaked' = leaked \cup {c}
            /\ \E s \in Accepted(c) \cup {ca[c]} : Becomes(c, s)
  /\ Go(t, "reply")
  /\ UNCHANGED <<row, isAdmin, retired, lapsed, collectorVars, byGrace, late, budget>>

Reply(t) ==
  /\ task[t].pc = "reply"
  /\ Turns(t, IdleTask)
  /\ awaited' = IF awaited = t THEN NoRequest ELSE awaited
  /\ \/ /\ IF task[t].ok /\ awaited = t
             THEN installed' = task[t].cert /\ returned' = returned \cup {task[t].cert}
             ELSE UNCHANGED <<installed, returned>>
        /\ NoFault
     \/ task[t].ok /\ awaited = t /\ Fault("reply") /\ UNCHANGED <<installed, returned>>
  /\ UNCHANGED <<ca, row, isAdmin, retired, lapsed, historyVars, budget>>

Crash(t) ==
  /\ task[t].pc # "idle" /\ Fault("crash")
  /\ Turns(t, IdleTask)
  /\ awaited' = IF awaited = t THEN NoRequest ELSE awaited
  /\ UNCHANGED <<ca, row, isAdmin, retired, lapsed, installed, returned, historyVars, budget>>

-----------------------------------------------------------------------------
(* runDailyPrune *)

Due == row.prev # None /\ ~Open

(* A run that finds nothing to do changes nothing.                          *)
PruneStart ==
  /\ task[Prune].pc = "idle"
  /\ Due \/ \E r \in Pending : r.id # None /\ r.claim # "held"
  /\ Turns(Prune, [IdleTask EXCEPT !.pc = IF Due THEN "retire" ELSE "drain", !.seen = row, !.poll = TRUE])
  /\ UNCHANGED <<ca, row, isAdmin, retired, lapsed, collectorVars, historyVars, budget, faults>>

Retire ==
  /\ task[Prune].pc = "retire"
  /\ LET s == task[Prune].seen
     IN  IF row.prev = s.prev /\ row.until = s.until
           THEN /\ row' = [row EXCEPT !.prev = None, !.prevId = None, !.until = 0]
                /\ retired' = Displace({<<s.prev, s.prevId>>}, "prior_slot")
           ELSE UNCHANGED <<row, retired>>
  /\ Go(Prune, "drain")
  /\ UNCHANGED <<ca, isAdmin, lapsed, collectorVars, historyVars, budget, faults>>

Drain ==
  /\ task[Prune].pc = "drain"
  /\ Turns(Prune, [task[Prune] EXCEPT !.pc = "settle", !.todo = {r.id : r \in Pending} \ {None}])
  /\ UNCHANGED <<ca, row, isAdmin, retired, lapsed, collectorVars, historyVars, budget, faults>>

-----------------------------------------------------------------------------
(* POST /admin/machines.                                                    *)

Drop == Turns(Admin, IdleTask)

(* The operator names a certificate somebody holds, with its id or not; the *)
(* "unknown id" import is for certificates the hub never saw.               *)
AskAdmin(fp, id, unknown) ==
  /\ task[Admin].pc = "idle" /\ done.swaps < plan.swaps
  /\ done' = [done EXCEPT !.swaps = @ + 1]
  /\ unknown => fp = Spare
  /\ Turns(Admin, [IdleTask EXCEPT !.pc = "clash", !.cert = fp, !.id = id, !.unknown = unknown])
  /\ UNCHANGED <<ca, row, isAdmin, retired, lapsed, collectorVars, historyVars, plan, faults>>

Reinstatable(r) == r.claim = "free" /\ r.source = "prior_slot"

Clash ==
  /\ task[Admin].pc = "clash"
  /\ LET rows == {r \in Pending : r.cert = task[Admin].cert}
     IN  IF \A r \in rows : Reinstatable(r)
           THEN Turns(Admin, [task[Admin] EXCEPT !.pc = "idClash", !.trusted = \E r \in rows : r.id # None])
           ELSE Drop
  /\ UNCHANGED <<ca, row, isAdmin, retired, lapsed, collectorVars, historyVars, budget, faults>>

IdClash ==
  /\ task[Admin].pc = "idClash"
  /\ IF task[Admin].id # None /\ \E r \in retired : r.id = task[Admin].id
       THEN Drop ELSE Go(Admin, "look")
  /\ UNCHANGED <<ca, row, isAdmin, retired, lapsed, collectorVars, historyVars, budget, faults>>

Look ==
  /\ task[Admin].pc = "look"
  /\ LET id == task[Admin].id
         want == IF task[Admin].cert = None THEN row.cur ELSE task[Admin].cert
         changed == want # row.cur
         back == changed /\ want = row.prev
         displacedId == \/ id = row.prevId /\ ~back
                        \/ id = row.curId /\ changed
         unsourced == changed /\ ~back /\ ~task[Admin].trusted /\ id = None /\ ~task[Admin].unknown
     IN  IF (id # None /\ displacedId) \/ unsourced
           THEN Drop
           ELSE Turns(Admin, [task[Admin] EXCEPT !.cert = want, !.seen = row,
                  !.pc = IF id \in {None, row.curId, row.prevId} THEN "install" ELSE "verify"])
  /\ UNCHANGED <<ca, row, isAdmin, retired, lapsed, collectorVars, historyVars, budget, faults>>

(* The CA must know the id as that certificate's, and as active.            *)
Verify ==
  /\ task[Admin].pc = "verify"
  /\ LET id == task[Admin].id
     IN  IF id = task[Admin].cert /\ ca[id] = "active" THEN Go(Admin, "install") ELSE Drop
  /\ UNCHANGED <<ca, row, isAdmin, retired, lapsed, collectorVars, historyVars, budget, faults>>

(* Mutant: the id of a reservation ends with it. *)
CarriedNone(sources) == None

CarriedId(sources) == IF sources = {} THEN None ELSE (CHOOSE r \in sources : TRUE).id

(* Mutant: a claimed reservation may be taken back as well. *)
ConsumableClaimed(r) == r.source = "prior_slot"

Consumable(r) == Reinstatable(r)

(* One batch: the swap, the reservations of what it displaces, and, when it *)
(* reinstates a certificate, that one's id and the end of its reservation.  *)
Install ==
  /\ task[Admin].pc = "install"
  /\ LET s == task[Admin].seen
         c == task[Admin].cert
         id == task[Admin].id
         changed == c # s.cur
         rows == {r \in Pending : r.cert = c}
         sources == {r \in rows : Consumable(r) /\ r.id # None}
         known == IF id # None THEN id ELSE IF c = s.prev THEN s.prevId ELSE None
         given == IF known = None THEN CarriedId(sources) ELSE known
         displaced == {<<s.cur, s.curId>>} \cup (IF s.prev = c THEN {} ELSE {<<s.prev, s.prevId>>})
         wins == /\ row = s
                 /\ \A r \in rows : changed /\ Consumable(r)
                 /\ task[Admin].trusted => sources # {}
         effect ==
           IF changed
             THEN /\ row' = [cur |-> c, curId |-> given, prev |-> None, prevId |-> None, until |-> 0]
                  /\ retired' = Displace(displaced, "prior_slot") \ rows
                  /\ installed' = c /\ returned' = returned \cup {c}
             ELSE /\ row' = [s EXCEPT !.curId = IF id # None THEN id ELSE s.curId]
                  /\ UNCHANGED <<retired, installed, returned>>
     IN  \/ /\ wins /\ effect /\ NoFault
            /\ Turns(Admin, [task[Admin] EXCEPT !.pc = "settle",
                               !.todo = IF changed THEN {d[2] : d \in displaced} \ {None} ELSE {}])
         \/ wins /\ effect /\ Fault("commit") /\ Drop
         \/ ~wins /\ Drop /\ UNCHANGED <<row, retired, installed, returned, faults>>
  /\ UNCHANGED <<ca, isAdmin, lapsed, awaited, historyVars, budget>>

(* A request without certificate fields leaves the slots alone.             *)
Edit ==
  /\ done.edits < plan.edits
  /\ done' = [done EXCEPT !.edits = @ + 1]
  /\ isAdmin' = ~isAdmin
  /\ byGrace' = IF isAdmin THEN byGrace ELSE {}
  /\ UNCHANGED <<ca, row, retired, lapsed, task, collectorVars, leaked, late, plan, faults>>

-----------------------------------------------------------------------------
(* Time and the CA.                                                         *)

Lapse ==
  /\ Open
  /\ lapsed' = row.until
  /\ late' = (late \/ row.prev = installed)
  /\ UNCHANGED <<ca, row, isAdmin, retired, task, collectorVars, byGrace, leaked, budget, faults>>

(* An hour after a claim nobody works on the certificate any more.          *)
Age ==
  /\ LET old == {r \in Pending : r.claim = "held" /\ \A t \in Threads : task[t].claimed # r.id}
     IN  old # {} /\ retired' = Update(old, "stale", FALSE)
  /\ UNCHANGED <<ca, row, isAdmin, lapsed, task, collectorVars, historyVars, budget, faults>>

Finish(c) ==
  /\ ca[c] = "pending" /\ Becomes(c, "revoked")
  /\ UNCHANGED <<row, isAdmin, retired, lapsed, task, collectorVars, historyVars, budget, faults>>

Renewal(t) ==
  \/ Identify(t) \/ Read(t) \/ Sign(t) \/ Swap(t) \/ Reclaim(t) \/ Direct(t) \/ Reply(t)

Settling(t) ==
  \/ \E c \in Certs : Claim(t, c)
  \/ Status(t) \/ Delete(t) \/ Stamp(t) \/ Release(t) \/ Settled(t)

Pruning == PruneStart \/ Retire \/ Drain

Administration == Clash \/ IdClash \/ Look \/ Verify \/ Install

Next ==
  \/ \E t \in Requests : Ask(t) \/ Renewal(t)
  \/ \E t \in Threads : Settling(t) \/ Crash(t)
  \/ \E fp \in returned \cup {None, Spare}, id \in plan.handles \cup {None}, u \in BOOLEAN :
       AskAdmin(fp, id, u)
  \/ GiveUp \/ Pruning \/ Administration \/ Edit
  \/ Lapse \/ Age \/ \E c \in Certs : Finish(c)

Spec == Init /\ [][Next]_vars

(* The renewals and administrators in the hub are served, one or another of *)
(* them at a time.                                                          *)
Serving == (\E t \in Requests : Renewal(t)) \/ (\E t \in Threads \ {Prune} : Settling(t)) \/ Administration

(* Requests run on, the prune comes every day and the CA completes what it  *)
(* accepted.                                                                *)
Fairness ==
  /\ WF_vars(Serving) /\ WF_vars(Pruning \/ Settling(Prune)) /\ WF_vars(Age)
  /\ WF_vars(\E c \in Certs : Finish(c))

FairSpec == Spec /\ Fairness

-----------------------------------------------------------------------------
Ids == Certs \cup {None}

RowType == [cur : Certs, curId : Ids, prev : Ids, prevId : Ids, until : Nat]

TypeOK ==
  /\ ca \in [Certs -> {"none", "active", "pending", "revoked"}]
  /\ row \in RowType /\ row.curId \in {row.cur, None} /\ row.prevId \in {row.prev, None}
  /\ isAdmin \in BOOLEAN /\ late \in BOOLEAN /\ lapsed \in 0..done.windows
  /\ retired \subseteq [cert : Certs, id : Ids, source : {"prior_slot", "orphan_cleanup"},
                        claim : {"free", "held", "stale"}, revoked : BOOLEAN]
  /\ \A t \in Threads :
       /\ {task[t].auth, task[t].cert, task[t].id, task[t].claimed} \subseteq Ids
       /\ task[t].todo \subseteq Certs /\ task[t].seen \in RowType \cup {NoRow}
       /\ task[t].pc \in {"delete", "status", "stamp", "release"} <=> task[t].claimed # None
  /\ installed \in returned /\ returned \subseteq Certs
  /\ awaited \in Requests \cup {NoRequest}
  /\ byGrace \subseteq Certs /\ leaked \subseteq Certs

(* The plan of this behaviour has none of these faults. *)
Without(kinds) == plan.faults \cap kinds = {}

(* The hub never revokes a certificate a machine may authenticate with:     *)
(* whatever renewals, swaps, rollbacks and the prune do to the queue, the   *)
(* current and the grace certificate are active at the CA.  Excepted are a  *)
(* batch that commits and then fails, whose certificate renewCert reclaims, *)
(* and operators who name the id of a certificate that was in the row: it   *)
(* is checked before the swap but not by it, and one with a known id is     *)
(* revoked after it left, which an import as "unknown id" does not look at. *)
NamesOnlyNew == plan.handles = {} \/ (plan.handles \subseteq {Spare} /\ plan.swaps <= 1)

SlotsAreAlive ==
  Without({"commit"}) /\ NamesOnlyNew => \A c \in {row.cur, row.prev} \ {None} : ca[c] = "active"

InSlot(c) == <<c, c>> \in {<<row.cur, row.curId>>, <<row.prev, row.prevId>>}

(* Minted by the hub, or in its books with an id from the start. *)
Minted(c) == c \notin {First, Spare} \/ (c = First /\ plan.id)

InHand(c) == \E t \in Requests : task[t].cert = c /\ task[t].pc \in {"swap", "reclaim", "direct"}

(* No certificate the hub minted is forgotten while it is valid: a slot or  *)
(* the queue has it with the id it takes to revoke it, a renewal still has  *)
(* it in hand, or its leak was reported.  A request that dies is excepted.  *)
Tracked ==
  Without({"crash"}) =>
    \A c \in Certs \ leaked : Minted(c) /\ ca[c] = "active" =>
      InSlot(c) \/ InHand(c) \/ \E r \in Pending : r.cert = c /\ r.id = c

(* A fingerprint returns to the pool only when its certificate is revoked.  *)
FreedIsDead == \A r \in retired : r.revoked => ca[r.cert] = "revoked"

(* What the books say of a certificate is what the authority knows of it.   *)
RetiredAreTracked == Tracked /\ FreedIsDead

(* A promotion never reaches a certificate that a grace renewal installed   *)
(* behind its back.                                                         *)
GraceNeverElevates == isAdmin => row.cur \notin byGrace

(* What a machine was given keeps authenticating until it renews, or a      *)
(* whole grace window passes without it.                                    *)
InstalledAuthenticates == late \/ Slot(installed) # "none"

(* The same, as long as the collector never has two renewals under way and  *)
(* no administrator interferes.                                             *)
NoLockout == Without({"timeout"}) /\ plan.swaps = 0 =>
  InstalledAuthenticates

(* Every retired certificate whose id is known is revoked in the end, or    *)
(* reinstated.                                                              *)
AllRevoked == \A r \in Pending : r.id = None
=============================================================================
