-------------------------- MODULE IndexCopyProofs --------------------------
(***************************************************************************)
(* Proofs about IndexCopy: what a checkpoint acknowledged is final, every  *)
(* checkpoint passes its validation, no block is lost, and a completed     *)
(* copy is exact, for any blocks, shards, passes and plans.                *)
(*                                                                         *)
(* Until the source is frozen one pass works at a time, on the state of    *)
(* the checkpoint, and the source is the truth.  From then on the truth    *)
(* stands still; every row a pass writes was read from the frozen source,  *)
(* so a shard, once right about a block, stays right.                      *)
(***************************************************************************)
EXTENDS IndexCopy, TLAPS

(* The phases of a pass that have a page at hand, and those that have none. *)
PagePcs == {"compare", "discard", "forget", "legacySource", "legacyShards", "legacyPersist",
            "repairSource", "repairShards", "reread", "write", "verifySource", "verifyShards",
            "repairedSource", "repairedShards", "mark", "repaired", "frozen", "retire", "ack"}

BarePcs == {"plan", "planned", "empty", "install", "complete"}

Pcs == {"idle", "create", "reappeared", "entry", "migrate", "loop"} \cup PagePcs \cup BarePcs

(* The phases in which the page is known by its bytes. *)
BytesPcs == {"compare", "discard", "forget", "legacyPersist", "loop", "plan", "planned",
             "repairSource", "repairShards", "reread", "write", "verifySource", "verifyShards",
             "repairedSource", "repairedShards", "mark", "repaired", "frozen", "retire", "ack"}

(* The phases that end only when a page is acknowledged or none is left.    *)
OpenPcs == {"entry", "migrate", "loop", "plan", "planned"}

(* The phases that still use rows they have read from the source. *)
ReadPcs == {"legacyShards", "repairShards", "write", "planned"}

VerifiedPcs == {"mark", "frozen", "retire", "ack"}

Partial(S) == UNION {[D -> S] : D \in SUBSET Rows}

PageRec == [phase : {"none", "copying", "verified", "recovering"}, rows : Partial(Texts),
            base : Partial(Content), missing : SUBSET Rows]

StateRec == [mode : {"absent", "pending", "complete"}, encoding : {"bytes", "legacy"},
             acked : SUBSET (Rows \X Texts), pending : PageRec]

PassRec == [pc : Pcs, gen : Nat, state : StateRec, freeze : {"absent", "frozen"},
            rows : Partial(Texts), todo : SUBSET Rows, left : BOOLEAN]

(* A state is well formed: StateOk, and its page is empty exactly in no phase. *)
Formed(state) ==
  /\ state \in StateRec
  /\ StateOk(state)
  /\ state.pending.phase = "none" => state.pending = NoPage

(* What a pass holds in each phase. *)
PassFormed(q) ==
  /\ q \in PassRec /\ Formed(q.state)
  /\ q.pc = "idle" => q = IdlePass
  /\ q.pc = "create" => q.gen = 0
  /\ q.pc = "reappeared" => q.state.mode = "complete"
  /\ q.pc \in PagePcs => q.state.pending # NoPage
  /\ q.pc \in BarePcs => q.state.pending = NoPage
  /\ q.pc \in BytesPcs => q.state.encoding = "bytes"
  /\ q.pc \in OpenPcs => q.state.mode # "complete"
  /\ q.pc = "legacyShards" => DOMAIN q.rows \subseteq Ids(q.state.pending)
  /\ q.pc = "write" => q.todo \subseteq DOMAIN q.rows
  /\ q.pc = "planned" => q.rows # Nothing /\ DOMAIN q.rows \subseteq Ahead(q.state)

(* The first version's checkpoint is never known by its bytes.              *)
Legacy(state) == state = NoState \/ (state.encoding = "legacy" /\ state.mode = "pending")

TypeInv ==
  /\ source \in [Rows -> Content] /\ dest \in [Rows -> Content] /\ truth \in [Rows -> Content]
  /\ freeze \in {"absent", "frozen"}
  /\ checkpoint = [gen |-> checkpoint.gen, state |-> checkpoint.state]
  /\ checkpoint.gen \in Nat /\ Formed(checkpoint.state)
  /\ Formed(unfenced) /\ Legacy(unfenced)
  /\ import # NoState => unfenced # NoState
  /\ Formed(import) /\ Legacy(import)
  /\ DOMAIN pass = Passes /\ pass = [p \in Passes |-> pass[p]]
  /\ \A p \in Passes : PassFormed(pass[p])
  /\ plan \in Plans

(* A pass that works on the newest checkpoint knows what it says; only the  *)
(* page it is migrating is not persisted yet.                               *)
InStep(q, checkpt) ==
  q.pc # "idle" /\ q.gen = checkpt.gen =>
    /\ q.state.acked = checkpt.state.acked
    /\ q.state.mode = checkpt.state.mode
    /\ q.pc # "legacyPersist" => q.state = checkpt.state

FenceInv ==
  /\ checkpoint.gen = 0 => checkpoint.state = FreshState
  /\ \A p \in Passes :
       /\ pass[p].gen <= checkpoint.gen
       /\ InStep(pass[p], checkpoint)
       /\ pass[p].pc # "idle" /\ pass[p].gen = 0 => unfenced = NoState

(* What a state says is true of the source, the shards and the truth.       *)
Deletes == "delete" \in plan.writes

StateTrue(state, src, dst, tru, frz) ==
  /\ state.acked # {} => frz = "frozen"
  /\ \A a \in state.acked : dst[a[1]] = a[2] /\ tru[a[1]] \in {a[2], NoText}
  /\ frz = "frozen" /\ state.encoding = "bytes" =>
       \A i \in Ids(state.pending) : tru[i] \in {state.pending.rows[i], NoText}
  /\ ~Deletes => \A i \in Ids(state.pending) : tru[i] # NoText
  /\ state.mode = "complete" => frz = "frozen" /\ \A i \in Rows : src[i] = NoText

(* What a pass holds is true: rows it will write were read from the frozen  *)
(* source, what it verified the shards still have, and it discards copies   *)
(* only before the freeze.                                                  *)
PassTrue(q, src, dst, tru, frz) ==
  /\ StateTrue(q.state, src, dst, tru, frz)
  /\ ~Deletes => \A i \in DOMAIN q.rows : tru[i] # NoText
  /\ q.freeze = "frozen" => frz = "frozen"
  /\ q.pc \in {"compare", "discard"} => frz = "absent"
  /\ q.pc = "ack" => frz = "frozen"
  /\ q.pc \in ReadPcs /\ frz = "frozen" => \A i \in DOMAIN q.rows : q.rows[i] = tru[i]
  /\ q.pc = "legacyShards" /\ DOMAIN q.rows # Ids(q.state.pending) =>
       frz = "frozen" /\ \A i \in Ids(q.state.pending) \ DOMAIN q.rows : src[i] = NoText
  /\ q.pc \in VerifiedPcs => \A i \in Ids(q.state.pending) : dst[i] = q.state.pending.rows[i]
  /\ q.pc = "empty" /\ frz = "frozen" => \A i \in Rows : src[i] = NoText
  /\ q.pc = "complete" => frz = "frozen" /\ \A i \in Rows : src[i] = NoText

(* Source and shards against the truth.                                     *)
DataTrue(src, dst, tru, frz) ==
  /\ frz = "absent" => src = tru
  /\ frz = "frozen" => \A i \in Rows :
       \/ src[i] = tru[i]
       \/ src[i] = NoText /\ dst[i] = tru[i]
  /\ ~Deletes => \A i \in Rows : dst[i] # NoText => tru[i] # NoText

(* Before the freeze one pass works at a time, on the newest checkpoint.    *)
AloneInv ==
  freeze = "absent" => \A p \in Passes : pass[p].pc # "idle" =>
    /\ \A q \in Passes \ {p} : pass[q].pc = "idle"
    /\ pass[p].gen = checkpoint.gen

TruthInv ==
  /\ DataTrue(source, dest, truth, freeze)
  /\ StateTrue(checkpoint.state, source, dest, truth, freeze)
  /\ StateTrue(unfenced, source, dest, truth, freeze)
  /\ StateTrue(import, source, dest, truth, freeze)
  /\ \A p \in Passes : PassTrue(pass[p], source, dest, truth, freeze)
  /\ AloneInv

CopyInv == TypeInv /\ FenceInv /\ (OverlapsLate => TruthInv)
-----------------------------------------------------------------------------
(* Functions on some of the blocks, and states.                             *)

LEMMA PartialIs ==
  ASSUME NEW T, NEW f \in Partial(T)
  PROVE  /\ DOMAIN f \subseteq Rows
         /\ \A i \in DOMAIN f : f[i] \in T
         /\ f = [i \in DOMAIN f |-> f[i]]
BY DEF Partial

LEMMA RestrictedIs ==
  ASSUME NEW T, NEW f, NEW D \in SUBSET Rows, \A i \in D : f[i] \in T
  PROVE  /\ Restricted(f, D) \in Partial(T)
         /\ DOMAIN Restricted(f, D) = D
         /\ \A i \in D : Restricted(f, D)[i] = f[i]
<1>1. Restricted(f, D) \in [D -> T]
  BY DEF Restricted
<1> QED
  BY <1>1 DEF Partial, Restricted

LEMMA NothingIs ==
  /\ DOMAIN Nothing = {}
  /\ \A T : Nothing \in Partial(T)
<1>1. \A T : Nothing \in [{} -> T]
  BY DEF Nothing
<1> QED
  BY <1>1 DEF Partial, Nothing

(* The empty page is the only page of no block.                             *)
LEMMA NoPageIs ==
  /\ NoPage \in PageRec
  /\ NoPage.phase = "none" /\ Ids(NoPage) = {}
BY NothingIs DEF NoPage, PageRec, Ids

LEMMA FreshIs ==
  /\ Formed(FreshState) /\ Formed(NoState)
  /\ FreshState.acked = {} /\ FreshState.pending = NoPage /\ FreshState.encoding = "bytes" /\ FreshState.mode = "pending"
  /\ NoState.acked = {} /\ NoState.pending = NoPage /\ NoState.mode = "absent"
<1>1. /\ FreshState \in StateRec /\ NoState \in StateRec
      /\ FreshState.acked = {} /\ FreshState.pending = NoPage /\ FreshState.encoding = "bytes" /\ FreshState.mode = "pending"
      /\ NoState.acked = {} /\ NoState.pending = NoPage /\ NoState.mode = "absent" /\ NoState.encoding = "bytes"
  BY NoPageIs DEF FreshState, NoState, StateRec
<1>2. StateOk(FreshState)
  BY <1>1, NoPageIs DEF StateOk, PageType
<1>3. StateOk(NoState)
  BY <1>1, NoPageIs DEF StateOk, PageType
<1> QED
  BY <1>1, <1>2, <1>3 DEF Formed

LEMMA IdleIs ==
  /\ PassFormed(IdlePass)
  /\ IdlePass.pc = "idle" /\ IdlePass.gen = 0 /\ IdlePass.state = NoState
  /\ DOMAIN IdlePass.rows = {} /\ IdlePass.freeze = "absent"
<1>1. IdlePass \in PassRec
  BY FreshIs, NothingIs DEF IdlePass, PassRec, Formed, Pcs
<1>2. /\ IdlePass.pc = "idle" /\ IdlePass.gen = 0 /\ IdlePass.state = NoState
      /\ DOMAIN IdlePass.rows = {} /\ IdlePass.freeze = "absent"
  BY NothingIs DEF IdlePass
<1> QED
  BY <1>1, <1>2, FreshIs DEF PassFormed, PagePcs, BarePcs, BytesPcs, OpenPcs

(* The page of a state is of blocks behind nothing it has acknowledged.     *)
LEMMA FormedIs ==
  ASSUME NEW state, Formed(state)
  PROVE  /\ state \in StateRec /\ state.pending \in PageRec
         /\ Ids(state.pending) \subseteq Rows /\ state.acked \subseteq Rows \X Texts
         /\ \A i \in Ids(state.pending) : state.pending.rows[i] \in Texts /\ i \in Ahead(state)
         /\ state.pending = NoPage <=> Ids(state.pending) = {}
         /\ state.pending.phase = "none" <=> state.pending = NoPage
         /\ state.mode = "complete" => state.pending = NoPage
BY NoPageIs DEF Formed, StateOk, StateRec

LEMMA NoTextIsNone ==
  NoText \in Content
BY DEF Content

-----------------------------------------------------------------------------
(* The states a pass persists.                                              *)

(* The page is forgotten.                                                   *)
LEMMA FormedForgets ==
  ASSUME NEW state, Formed(state)
  PROVE  LET st == [state EXCEPT !.pending = NoPage]
         IN  /\ Formed(st) /\ st.acked = state.acked /\ st.mode = state.mode
             /\ st.encoding = state.encoding /\ st.pending = NoPage
<1> DEFINE st == [state EXCEPT !.pending = NoPage]
<1>1. /\ st \in StateRec /\ st.acked = state.acked /\ st.mode = state.mode
      /\ st.encoding = state.encoding /\ st.pending = NoPage
  BY NoPageIs DEF Formed, StateRec
<1> HIDE DEF st
<1>2. Formed(st)
  BY <1>1, NoPageIs DEF Formed, StateOk, PageType
<1> QED
  BY <1>1, <1>2 DEF st

LEMMA FormedBytes ==
  ASSUME NEW state, Formed(state)
  PROVE  LET st == [state EXCEPT !.encoding = "bytes"]
         IN  /\ Formed(st) /\ st.acked = state.acked /\ st.mode = state.mode
             /\ st.encoding = "bytes" /\ st.pending = state.pending
<1> DEFINE st == [state EXCEPT !.encoding = "bytes"]
<1>1. /\ st \in StateRec /\ st.acked = state.acked /\ st.mode = state.mode
      /\ st.encoding = "bytes" /\ st.pending = state.pending
  BY DEF Formed, StateRec
<1> HIDE DEF st
<1>2. Formed(st)
  BY <1>1 DEF Formed, StateOk, Ahead
<1> QED
  BY <1>1, <1>2 DEF st

LEMMA FormedVerified ==
  ASSUME NEW state, Formed(state), state.pending # NoPage
  PROVE  LET st == [state EXCEPT !.pending.phase = "verified"]
         IN  /\ Formed(st) /\ st.acked = state.acked /\ st.mode = state.mode
             /\ st.encoding = state.encoding
             /\ st.pending.rows = state.pending.rows /\ st.pending.phase = "verified"
<1> DEFINE pg == [state.pending EXCEPT !.phase = "verified"]
           st == [state EXCEPT !.pending.phase = "verified"]
<1>1. /\ pg \in PageRec /\ pg.rows = state.pending.rows /\ pg.phase = "verified"
      /\ pg.base = state.pending.base /\ pg.missing = state.pending.missing
  BY DEF Formed, StateRec, PageRec
<1> HIDE DEF pg
<1>2. st = [state EXCEPT !.pending = pg]
  BY DEF pg, Formed, StateRec
<1>3. /\ st \in StateRec /\ st.acked = state.acked /\ st.mode = state.mode
      /\ st.encoding = state.encoding /\ st.pending = pg
  BY <1>1, <1>2 DEF Formed, StateRec
<1> HIDE DEF st
<1>4. pg # NoPage /\ Ids(pg) # {}
  BY <1>1, FormedIs, NoPageIs DEF Ids
<1>5. StateOk(st)
  BY <1>1, <1>3, <1>4, FormedIs DEF Formed, StateOk, PageType, Ids, Ahead
<1>6. Formed(st)
  BY <1>1, <1>3, <1>5 DEF Formed
<1> QED
  BY <1>1, <1>3, <1>6 DEF st

(* A page of blocks that are ahead.                                         *)
LEMMA FormedPlans ==
  ASSUME NEW state, Formed(state), state.pending = NoPage, state.mode # "complete",
         NEW rows \in Partial(Texts), rows # Nothing, DOMAIN rows \subseteq Ahead(state)
  PROVE  LET st == [state EXCEPT !.pending = Page("copying", rows)]
         IN  /\ Formed(st) /\ st.acked = state.acked /\ st.mode = state.mode
             /\ st.encoding = state.encoding /\ st.pending.rows = rows /\ st.pending # NoPage
<1> DEFINE pg == Page("copying", rows)
           st == [state EXCEPT !.pending = pg]
<1>1. pg \in PageRec /\ pg.rows = rows /\ pg.phase = "copying" /\ pg.base = Nothing
  BY NothingIs DEF Page, NoPage, PageRec
<1>2. pg # NoPage
  BY <1>1, NoPageIs
<1> HIDE DEF pg
<1>3. DOMAIN rows # {}
  <2> SUFFICES ASSUME DOMAIN rows = {} PROVE rows = Nothing
    BY DEF Nothing
  <2>1. rows = [i \in DOMAIN rows |-> rows[i]]
    BY PartialIs
  <2> QED
    BY <2>1 DEF Nothing
<1>4. /\ st \in StateRec /\ st.acked = state.acked /\ st.mode = state.mode
      /\ st.encoding = state.encoding /\ st.pending = pg
  BY <1>1 DEF Formed, StateRec
<1> HIDE DEF st
<1>5. Ahead(st) = Ahead(state)
  BY <1>4 DEF Ahead
<1>6. StateOk(st)
  BY <1>1, <1>2, <1>3, <1>4, <1>5, PartialIs, FormedIs DEF Formed, StateOk, PageType, Ids
<1>7. Formed(st)
  BY <1>1, <1>4, <1>6 DEF Formed
<1> QED
  BY <1>1, <1>2, <1>4, <1>7 DEF st, pg

(* The page a pass has migrated.                                            *)
LEMMA FormedMigrates ==
  ASSUME NEW state, Formed(state), state.pending # NoPage,
         NEW rows \in Partial(Texts), DOMAIN rows = Ids(state.pending),
         NEW base \in Partial(Content), DOMAIN base = Ids(state.pending),
         NEW missing \in SUBSET Rows
  PROVE  LET st == Migrated(state, rows, base, missing)
         IN  /\ Formed(st) /\ st.acked = state.acked /\ st.mode = state.mode
             /\ st.encoding = "bytes" /\ st.pending.rows = rows /\ st.pending # NoPage
<1> DEFINE pg == [phase |-> "recovering", rows |-> rows, base |-> base, missing |-> missing]
           st == [state EXCEPT !.encoding = "bytes", !.pending = pg]
<1>1. pg \in PageRec /\ pg.rows = rows /\ pg.phase = "recovering" /\ pg.base = base
  BY DEF PageRec
<1>2. pg # NoPage
  BY <1>1, NoPageIs
<1> HIDE DEF pg
<1>3. /\ st \in StateRec /\ st.acked = state.acked /\ st.mode = state.mode
      /\ st.encoding = "bytes" /\ st.pending = pg
  BY <1>1 DEF Formed, StateRec
<1> HIDE DEF st
<1>4. Ahead(st) = Ahead(state)
  BY <1>3 DEF Ahead
<1>5. StateOk(st)
  BY <1>1, <1>2, <1>3, <1>4, PartialIs, FormedIs DEF Formed, StateOk, PageType, Ids
<1>6. Formed(st)
  BY <1>1, <1>3, <1>5 DEF Formed
<1> QED
  BY <1>1, <1>2, <1>3, <1>6 DEF st, pg, Migrated

(* An acknowledged page.                                                    *)
LEMMA FormedAcks ==
  ASSUME NEW state, Formed(state)
  PROVE  LET st == Acked(state)
         IN  /\ Formed(st) /\ st.mode = state.mode /\ st.encoding = state.encoding /\ st.pending = NoPage
             /\ st.acked = state.acked \cup {<<i, state.pending.rows[i]>> : i \in Ids(state.pending)}
<1> DEFINE st == Acked(state)
           more == {<<i, state.pending.rows[i]>> : i \in Ids(state.pending)}
<1>1. more \subseteq Rows \X Texts
  BY FormedIs
<1>2. state.acked \cup more \subseteq Rows \X Texts
  BY <1>1, FormedIs
<1> HIDE DEF more
<1>3. /\ st \in StateRec /\ st.acked = state.acked \cup more /\ st.mode = state.mode
      /\ st.encoding = state.encoding /\ st.pending = NoPage
  BY <1>2, NoPageIs DEF Formed, StateRec, Acked, more
<1> HIDE DEF st
<1>4. Formed(st)
  BY <1>2, <1>3, NoPageIs DEF Formed, StateOk, PageType
<1> QED
  BY <1>3, <1>4 DEF st, more

LEMMA FormedCompletes ==
  ASSUME NEW state, Formed(state), state.pending = NoPage
  PROVE  LET st == [state EXCEPT !.mode = "complete"]
         IN  /\ Formed(st) /\ st.acked = state.acked /\ st.mode = "complete"
             /\ st.encoding = state.encoding /\ st.pending = NoPage
<1> DEFINE st == [state EXCEPT !.mode = "complete"]
<1>1. /\ st \in StateRec /\ st.acked = state.acked /\ st.mode = "complete"
      /\ st.encoding = state.encoding /\ st.pending = NoPage
  BY DEF Formed, StateRec
<1> HIDE DEF st
<1>2. Formed(st)
  BY <1>1, NoPageIs DEF Formed, StateOk, PageType
<1> QED
  BY <1>1, <1>2 DEF st
-----------------------------------------------------------------------------
(* Steps of one pass.                                                       *)

LEMMA PassBecomes ==
  ASSUME DOMAIN pass = Passes, pass = [x \in Passes |-> pass[x]],
         NEW p \in Passes, NEW q, pass' = [pass EXCEPT ![p] = q]
  PROVE  /\ DOMAIN pass' = Passes /\ pass' = [x \in Passes |-> pass'[x]]
         /\ pass'[p] = q
         /\ \A x \in Passes \ {p} : pass'[x] = pass[x]
OBVIOUS

LEMMA IdleTrue ==
  ASSUME NEW src, NEW dst, NEW tru, NEW frz
  PROVE  /\ StateTrue(NoState, src, dst, tru, frz)
         /\ PassTrue(IdlePass, src, dst, tru, frz)
<1>1. StateTrue(NoState, src, dst, tru, frz)
  BY FreshIs, NoPageIs DEF StateTrue
<1> QED
  BY <1>1, IdleIs DEF PassTrue, ReadPcs, VerifiedPcs

(* A pass that forgot nothing of the newest checkpoint is still in step.    *)
LEMMA StaysInStep ==
  ASSUME FenceInv, NEW p \in Passes, pass[p].pc \notin {"idle", "legacyPersist"},
         NEW q, q.state = pass[p].state, q.gen = pass[p].gen
  PROVE  InStep(q, checkpoint)
BY DEF FenceInv, InStep

(* A pass that changes only itself.                                         *)
LEMMA OwnStep ==
  ASSUME CopyInv, NEW p \in Passes, pass[p].pc # "idle",
         NEW q, pass' = [pass EXCEPT ![p] = q],
         PassFormed(q), InStep(q, checkpoint),
         q = IdlePass \/ (q.pc # "idle" /\ q.gen = pass[p].gen),
         OverlapsLate => PassTrue(q, source, dest, truth, freeze),
         UNCHANGED <<source, freeze, dest, truth, checkpoint, unfenced, import, plan>>
  PROVE  CopyInv'
<1>1. /\ DOMAIN pass' = Passes /\ pass' = [x \in Passes |-> pass'[x]]
      /\ pass'[p] = q
      /\ \A x \in Passes \ {p} : pass'[x] = pass[x]
  BY PassBecomes DEF CopyInv, TypeInv
<1>2. TypeInv'
  BY <1>1 DEF CopyInv, TypeInv
<1>3. FenceInv'
  BY <1>1, IdleIs DEF CopyInv, TypeInv, FenceInv
<1>4. OverlapsLate' => TruthInv'
  <2> SUFFICES ASSUME OverlapsLate' PROVE TruthInv'
    OBVIOUS
  <2>1. OverlapsLate /\ TruthInv
    BY DEF OverlapsLate, CopyInv
  <2>2. AloneInv'
    BY <1>1, <2>1, IdleIs DEF TruthInv, AloneInv
  <2>3. \A x \in Passes : PassTrue(pass'[x], source, dest, truth, freeze)
    BY <1>1, <2>1 DEF TruthInv
  <2> QED
    BY <2>1, <2>2, <2>3 DEF TruthInv, DataTrue, StateTrue, PassTrue, Deletes
<1> QED
  BY <1>2, <1>3, <1>4 DEF CopyInv

(* A pass that ends.                                                        *)
LEMMA FailStep ==
  ASSUME CopyInv, NEW p \in Passes, pass[p].pc # "idle", Fail(p),
         UNCHANGED <<source, freeze, dest, truth, checkpoint, unfenced, import, plan>>
  PROVE  CopyInv'
<1>1. InStep(IdlePass, checkpoint)
  BY IdleIs DEF InStep
<1> QED
  BY <1>1, IdleIs, IdleTrue, OwnStep DEF Fail

(* A step of a pass that works on the same state.                           *)
LEMMA SameStateStep ==
  ASSUME CopyInv, NEW p \in Passes, pass[p].pc \notin {"idle", "legacyPersist"},
         NEW q \in PassRec, pass' = [pass EXCEPT ![p] = q],
         q.state = pass[p].state, q.gen = pass[p].gen, q.pc # "idle", PassFormed(q),
         OverlapsLate => PassTrue(q, source, dest, truth, freeze),
         UNCHANGED <<source, freeze, dest, truth, checkpoint, unfenced, import, plan>>
  PROVE  CopyInv'
<1>1. InStep(q, checkpoint)
  BY StaysInStep DEF CopyInv
<1> QED
  BY <1>1, OwnStep

(* Only the phase changes.                                                  *)
LEMMA GotoIs ==
  ASSUME TypeInv, NEW p \in Passes, NEW pc \in Pcs, Goto(p, pc)
  PROVE  \E q \in PassRec :
           /\ pass' = [pass EXCEPT ![p] = q]
           /\ q.pc = pc /\ q.gen = pass[p].gen /\ q.state = pass[p].state /\ q.freeze = pass[p].freeze
           /\ q.rows = pass[p].rows /\ q.todo = pass[p].todo /\ q.left = pass[p].left
<1> DEFINE q == [pass[p] EXCEPT !.pc = pc]
<1>1. pass[p] \in PassRec
  BY DEF TypeInv, PassFormed
<1>2. /\ q \in PassRec
      /\ q.pc = pc /\ q.gen = pass[p].gen /\ q.state = pass[p].state /\ q.freeze = pass[p].freeze
      /\ q.rows = pass[p].rows /\ q.todo = pass[p].todo /\ q.left = pass[p].left
  BY <1>1 DEF PassRec
<1>3. pass' = [pass EXCEPT ![p] = q]
  BY DEF Goto
<1> QED
  BY <1>2, <1>3

LEMMA PassIs ==
  ASSUME CopyInv, NEW p \in Passes
  PROVE  /\ pass[p] \in PassRec /\ PassFormed(pass[p]) /\ Formed(pass[p].state)
         /\ OverlapsLate => /\ PassTrue(pass[p], source, dest, truth, freeze)
                            /\ StateTrue(pass[p].state, source, dest, truth, freeze)
BY DEF CopyInv, TypeInv, PassFormed, TruthInv, PassTrue

LEMMA AdvancedIs ==
  ASSUME NEW r \in PassRec, NEW state \in StateRec, NEW pc \in Pcs
  PROVE  LET q == Advanced(r, state, pc)
         IN  /\ q \in PassRec /\ q.pc = pc /\ q.gen = r.gen + 1 /\ q.state = state
             /\ q.freeze = r.freeze /\ q.rows = r.rows
<1> DEFINE g == r.gen + 1
<1>1. g \in Nat
  BY DEF PassRec
<1>2. Advanced(r, state, pc) = [r EXCEPT !.pc = pc, !.gen = g, !.state = state]
  BY DEF Advanced
<1> HIDE DEF g
<1>3. LET q == [r EXCEPT !.pc = pc, !.gen = g, !.state = state]
      IN  /\ q \in PassRec /\ q.pc = pc /\ q.gen = g /\ q.state = state
          /\ q.freeze = r.freeze /\ q.rows = r.rows
  BY <1>1 DEF PassRec
<1> QED
  BY <1>2, <1>3 DEF g

(* A write of the checkpoint that passes the fence.                         *)
LEMMA PersistStep ==
  ASSUME CopyInv, NEW p \in Passes, pass[p].pc # "idle",
         NEW state, NEW pc \in Pcs \ {"create", "reappeared", "legacyPersist", "legacyShards"},
         FencePasses(pass[p].gen), Persist(p, state, pc), Formed(state),
         pc \in PagePcs => state.pending # NoPage,
         pc \in BarePcs => state.pending = NoPage,
         pc \in BytesPcs => state.encoding = "bytes",
         pc \in OpenPcs => state.mode # "complete",
         pc \notin {"write", "planned"},
         OverlapsLate => /\ StateTrue(state, source, dest, truth, freeze)
                         /\ pc \notin ReadPcs \cup {"compare", "discard", "ack", "empty", "complete"}
                         /\ pc \in VerifiedPcs => \A i \in Ids(state.pending) : dest[i] = state.pending.rows[i],
         UNCHANGED <<source, freeze, dest, truth, unfenced, import, plan>>
  PROVE  CopyInv'
<1> DEFINE r == pass[p]
           w == Advanced(r, state, pc)
           q == IF pc = "idle" THEN IdlePass ELSE w
<1>1. r \in PassRec /\ PassFormed(r)
  BY PassIs
<1>2. /\ checkpoint.gen = r.gen
      /\ checkpoint' = [gen |-> r.gen + 1, state |-> state]
  BY DEF Persist, FencePasses
<1>3. pass' = [pass EXCEPT ![p] = q]
  BY DEF Persist
<1>4. /\ w \in PassRec /\ w.pc = pc /\ w.gen = r.gen + 1 /\ w.state = state /\ w.freeze = r.freeze
      /\ w.rows = r.rows
  BY <1>1, AdvancedIs DEF Formed
<1>5. r.gen \in Nat
  BY <1>1 DEF PassRec
<1> HIDE DEF w
<1>6. pc # "idle" => PassFormed(w)
  BY <1>4 DEF PassFormed
<1>7. PassFormed(q) /\ q.gen <= r.gen + 1 /\ (q.pc # "idle" => q = w)
  BY <1>4, <1>5, <1>6, IdleIs
<1>8. pc # "idle" /\ OverlapsLate => PassTrue(w, source, dest, truth, freeze)
  <2> SUFFICES ASSUME pc # "idle", OverlapsLate PROVE PassTrue(w, source, dest, truth, freeze)
    OBVIOUS
  <2>1. PassTrue(r, source, dest, truth, freeze)
    BY PassIs
  <2> QED
    BY <2>1, <1>4 DEF PassTrue
<1>9. OverlapsLate => PassTrue(q, source, dest, truth, freeze)
  BY <1>8, IdleTrue
<1>10. q.pc # "idle" => q.gen = r.gen + 1 /\ q.state = state
  BY <1>4, <1>7
<1> HIDE DEF q
<1>11. /\ DOMAIN pass' = Passes /\ pass' = [x \in Passes |-> pass'[x]]
       /\ pass'[p] = q
       /\ \A x \in Passes \ {p} : pass'[x] = pass[x]
  BY <1>3, PassBecomes DEF CopyInv, TypeInv
<1>12. checkpoint'.gen = r.gen + 1 /\ checkpoint'.state = state
  BY <1>2
<1>13. TypeInv'
  BY <1>2, <1>5, <1>7, <1>11, <1>12 DEF CopyInv, TypeInv
<1>14. FenceInv'
  <2>1. \A x \in Passes \ {p} : pass[x].gen <= r.gen /\ pass[x].gen \in Nat
    BY <1>2 DEF CopyInv, FenceInv, TypeInv, PassFormed, PassRec
  <2>2. \A x \in Passes : pass'[x].gen <= checkpoint'.gen
    <3> TAKE x \in Passes
    <3>1. CASE x = p
      BY <1>7, <1>11, <1>12, <3>1
    <3>2. CASE x # p
      BY <1>5, <1>11, <1>12, <2>1, <3>2
    <3> QED
      BY <3>1, <3>2
  <2>3. InStep(q, checkpoint')
    BY <1>10, <1>12 DEF InStep
  <2>4. \A x \in Passes : InStep(pass'[x], checkpoint')
    BY <1>5, <1>11, <1>12, <2>1, <2>3 DEF InStep
  <2>5. \A x \in Passes : pass'[x].pc # "idle" /\ pass'[x].gen = 0 => unfenced' = NoState
    BY <1>5, <1>10, <1>11 DEF CopyInv, FenceInv
  <2>6. checkpoint'.gen # 0
    BY <1>5, <1>12
  <2> QED
    BY <2>2, <2>4, <2>5, <2>6 DEF FenceInv
<1>15. OverlapsLate' => TruthInv'
  <2> SUFFICES ASSUME OverlapsLate' PROVE TruthInv'
    OBVIOUS
  <2>1. OverlapsLate /\ TruthInv
    BY DEF OverlapsLate, CopyInv
  <2>2. AloneInv'
    BY <1>10, <1>11, <1>12, <2>1 DEF TruthInv, AloneInv
  <2>3. \A x \in Passes : PassTrue(pass'[x], source, dest, truth, freeze)
    BY <1>9, <1>11, <2>1 DEF TruthInv
  <2>4. StateTrue(checkpoint'.state, source, dest, truth, freeze)
    BY <1>12, <2>1
  <2> QED
    BY <2>1, <2>2, <2>3, <2>4 DEF TruthInv, DataTrue, StateTrue, PassTrue, Deletes
<1> QED
  BY <1>13, <1>14, <1>15 DEF CopyInv
-----------------------------------------------------------------------------
(* The actions of a pass that change only the pass.                         *)

LEMMA StartCopies ==
  ASSUME CopyInv, NEW p \in Passes, Start(p)
  PROVE  CopyInv'
<1> DEFINE pc == IF checkpoint.gen = 0 THEN "create"
                 ELSE IF checkpoint.state.mode = "complete" THEN "reappeared" ELSE "entry"
           q == [IdlePass EXCEPT !.gen = checkpoint.gen, !.state = checkpoint.state, !.pc = pc]
<1>1. /\ pass' = [pass EXCEPT ![p] = q]
      /\ checkpoint.gen = 0 => unfenced = NoState
      /\ UNCHANGED <<source, freeze, dest, truth, checkpoint, unfenced, import, plan>>
  BY DEF Start, dataVars
<1>2. pc \in Pcs \ {"idle"} /\ pc \notin PagePcs \cup BarePcs \cup BytesPcs
      /\ pc \notin {"legacyShards", "write", "planned", "legacyPersist"}
      /\ (pc = "create" => checkpoint.gen = 0) /\ (pc = "reappeared" => checkpoint.state.mode = "complete")
      /\ (pc \in OpenPcs => checkpoint.state.mode # "complete")
  BY DEF Pcs, PagePcs, BarePcs, BytesPcs, OpenPcs
<1> HIDE DEF pc
<1>3. checkpoint.gen \in Nat /\ Formed(checkpoint.state)
  BY DEF CopyInv, TypeInv
<1>4. /\ q \in PassRec /\ q.pc = pc /\ q.gen = checkpoint.gen /\ q.state = checkpoint.state
      /\ q.freeze = "absent" /\ DOMAIN q.rows = {}
  BY <1>2, <1>3, IdleIs, NothingIs DEF PassRec, IdlePass, Formed
<1> HIDE DEF q
<1>5. PassFormed(q)
  BY <1>2, <1>3, <1>4 DEF PassFormed
<1>6. /\ DOMAIN pass' = Passes /\ pass' = [x \in Passes |-> pass'[x]]
      /\ pass'[p] = q
      /\ \A x \in Passes \ {p} : pass'[x] = pass[x]
  BY <1>1, PassBecomes DEF CopyInv, TypeInv
<1>7. TypeInv'
  BY <1>1, <1>5, <1>6 DEF CopyInv, TypeInv
<1>8. FenceInv'
  <2>1. InStep(q, checkpoint)
    BY <1>4 DEF InStep
  <2> QED
    BY <1>1, <1>3, <1>4, <1>6, <2>1 DEF CopyInv, FenceInv
<1>9. OverlapsLate' => TruthInv'
  <2> SUFFICES ASSUME OverlapsLate' PROVE TruthInv'
    OBVIOUS
  <2>1. OverlapsLate /\ TruthInv
    BY <1>1 DEF OverlapsLate, CopyInv
  <2>2. AloneInv'
    <3> SUFFICES ASSUME freeze = "absent" PROVE AloneInv'
      BY <1>1 DEF AloneInv
    <3>1. \A x \in Passes \ {p} : pass[x].pc = "idle"
      BY <2>1 DEF Start, MayStart, OverlapsLate
    <3> QED
      BY <1>1, <1>4, <1>6, <3>1 DEF AloneInv
  <2>3. PassTrue(q, source, dest, truth, freeze)
    BY <1>2, <1>4, <2>1 DEF TruthInv, PassTrue, ReadPcs, VerifiedPcs, PagePcs, BarePcs
  <2>4. \A x \in Passes : PassTrue(pass'[x], source, dest, truth, freeze)
    BY <1>6, <2>1, <2>3 DEF TruthInv
  <2> QED
    BY <1>1, <2>1, <2>2, <2>4 DEF TruthInv, DataTrue, StateTrue, PassTrue, Deletes
<1> QED
  BY <1>7, <1>8, <1>9 DEF CopyInv

LEMMA ReappearedCopies ==
  ASSUME CopyInv, NEW p \in Passes, Reappeared(p)
  PROVE  CopyInv'
<1>1. /\ UNCHANGED <<source, freeze, dest, truth, checkpoint, unfenced, import, plan>>
      /\ pass[p].pc = "reappeared"
  BY DEF Reappeared, dataVars, stillVars, budgetVars
<1>2. CASE Fail(p)
  BY <1>1, <1>2, FailStep
<1>3. CASE Present(source) = {} /\ Goto(p, "empty")
  <2>1. PICK q \in PassRec :
          /\ pass' = [pass EXCEPT ![p] = q]
          /\ q.pc = "empty" /\ q.gen = pass[p].gen /\ q.state = pass[p].state /\ q.freeze = pass[p].freeze
          /\ q.rows = pass[p].rows
    BY <1>3, GotoIs DEF CopyInv, Pcs, BarePcs
  <2>2. PassFormed(q)
    BY <1>1, <2>1, PassIs, FormedIs DEF PassFormed, PagePcs, BarePcs, BytesPcs, OpenPcs
  <2>3. \A i \in Rows : source[i] = NoText
    BY <1>3 DEF Present
  <2>4. OverlapsLate => PassTrue(q, source, dest, truth, freeze)
    BY <2>1, <2>3, PassIs DEF PassTrue, ReadPcs, VerifiedPcs
  <2> QED
    BY <1>1, <2>1, <2>2, <2>4, SameStateStep
<1> QED
  BY <1>2, <1>3 DEF Reappeared

LEMMA EntryFreezeCopies ==
  ASSUME CopyInv, NEW p \in Passes, EntryFreeze(p)
  PROVE  CopyInv'
<1> DEFINE state == pass[p].state
           compared == /\ freeze = "absent" /\ state.encoding = "bytes"
                       /\ state.pending.phase \in {"copying", "verified"}
           pc == IF /\ state.acked = {} /\ freeze = "absent" /\ state.encoding = "bytes"
                    /\ state.pending.phase \in {"copying", "verified"}
                    /\ state.pending.base = Nothing
                   THEN "compare" ELSE Adopt(state)
<1>1. /\ UNCHANGED <<source, freeze, dest, truth, checkpoint, unfenced, import, plan>>
      /\ pass[p].pc = "entry"
      /\ Fail(p) \/ Goto(p, pc)
  BY DEF EntryFreeze, dataVars, stillVars, budgetVars
<1>2. /\ pc \in {"compare", "loop", "migrate"}
      /\ pc = "compare" => compared
      /\ pc = "loop" => state.encoding = "bytes"
  BY DEF Adopt
<1> HIDE DEF pc
<1>3. CASE Fail(p)
  BY <1>1, <1>3, FailStep
<1>4. CASE Goto(p, pc)
  <2>1. PICK q \in PassRec :
          /\ pass' = [pass EXCEPT ![p] = q]
          /\ q.pc = pc /\ q.gen = pass[p].gen /\ q.state = pass[p].state /\ q.freeze = pass[p].freeze
          /\ q.rows = pass[p].rows
    BY <1>2, <1>4, GotoIs DEF CopyInv, Pcs, PagePcs
  <2>2. PassFormed(q)
    <3>1. PassFormed(pass[p]) /\ Formed(state)
      BY PassIs
    <3>2. pc = "compare" => state.pending # NoPage
      BY <1>2, NoPageIs
    <3> QED
      BY <1>1, <1>2, <2>1, <3>1, <3>2 DEF PassFormed, PagePcs, BarePcs, BytesPcs, OpenPcs
  <2>3. OverlapsLate => PassTrue(q, source, dest, truth, freeze)
    BY <1>1, <1>2, <2>1, PassIs DEF PassTrue, ReadPcs, VerifiedPcs
  <2> QED
    BY <1>1, <1>2, <2>1, <2>2, <2>3, SameStateStep
<1> QED
  BY <1>1, <1>3, <1>4

LEMMA EntryCompareCopies ==
  ASSUME CopyInv, NEW p \in Passes, EntryCompare(p)
  PROVE  CopyInv'
<1> DEFINE r == pass[p]
           page == r.state.pending
           d == [r EXCEPT !.pc = "discard", !.todo = Ids(page)]
           l == [r EXCEPT !.pc = "loop"]
<1>1. /\ UNCHANGED <<source, freeze, dest, truth, checkpoint, unfenced, import, plan>>
      /\ r.pc = "compare"
      /\ pass' = [pass EXCEPT ![p] = IF Changed(page) THEN d ELSE l]
  BY DEF EntryCompare, dataVars, stillVars, budgetVars
<1>2. r \in PassRec /\ PassFormed(r) /\ Formed(r.state) /\ Ids(page) \subseteq Rows
  BY PassIs, FormedIs
<1>3. /\ d \in PassRec /\ d.pc = "discard" /\ d.gen = r.gen /\ d.state = r.state /\ d.freeze = r.freeze
      /\ d.rows = r.rows
  BY <1>2 DEF PassRec, Pcs, PagePcs
<1>4. /\ l \in PassRec /\ l.pc = "loop" /\ l.gen = r.gen /\ l.state = r.state /\ l.freeze = r.freeze
      /\ l.rows = r.rows
  BY <1>2 DEF PassRec, Pcs, PagePcs
<1>5. PICK q : q \in {d, l} /\ pass' = [pass EXCEPT ![p] = q]
  BY <1>1
<1>6. /\ q \in PassRec /\ q.pc \in {"discard", "loop"} /\ q.gen = r.gen /\ q.state = r.state
      /\ q.freeze = r.freeze /\ q.rows = r.rows
  BY <1>3, <1>4, <1>5
<1> HIDE DEF d, l
<1>7. PassFormed(q)
  BY <1>1, <1>2, <1>6, FormedIs DEF PassFormed, PagePcs, BarePcs, BytesPcs, OpenPcs
<1>8. OverlapsLate => PassTrue(q, source, dest, truth, freeze)
  BY <1>1, <1>6, PassIs DEF PassTrue, ReadPcs, VerifiedPcs
<1> QED
  BY <1>1, <1>5, <1>6, <1>7, <1>8, SameStateStep

LEMMA MigrateFreezeCopies ==
  ASSUME CopyInv, NEW p \in Passes, MigrateFreeze(p)
  PROVE  CopyInv'
<1> DEFINE r == pass[p]
           q == [r EXCEPT !.pc = "legacySource", !.freeze = freeze]
<1>1. /\ UNCHANGED <<source, freeze, dest, truth, checkpoint, unfenced, import, plan>>
      /\ r.pc = "migrate" /\ r.state.pending # NoPage
      /\ Fail(p) \/ pass' = [pass EXCEPT ![p] = q]
  BY DEF MigrateFreeze, dataVars, stillVars, budgetVars
<1>2. r \in PassRec /\ PassFormed(r) /\ Formed(r.state) /\ freeze \in {"absent", "frozen"}
  BY PassIs DEF CopyInv, TypeInv
<1>3. /\ q \in PassRec /\ q.pc = "legacySource" /\ q.gen = r.gen /\ q.state = r.state /\ q.freeze = freeze
      /\ q.rows = r.rows
  BY <1>2 DEF PassRec, Pcs, PagePcs
<1> HIDE DEF q
<1>4. CASE Fail(p)
  BY <1>1, <1>4, FailStep
<1>5. CASE pass' = [pass EXCEPT ![p] = q]
  <2>1. PassFormed(q)
    BY <1>1, <1>2, <1>3 DEF PassFormed, PagePcs, BarePcs, BytesPcs, OpenPcs
  <2>2. OverlapsLate => PassTrue(q, source, dest, truth, freeze)
    BY <1>1, <1>3, PassIs DEF PassTrue, ReadPcs, VerifiedPcs
  <2> QED
    BY <1>1, <1>3, <1>5, <2>1, <2>2, SameStateStep
<1> QED
  BY <1>1, <1>4, <1>5

(* Rows that were found in a frozen source are the truth.                   *)
LEMMA FoundIs ==
  ASSUME CopyInv, OverlapsLate, NEW i \in Rows, source[i] # NoText
  PROVE  /\ source[i] = truth[i]
         /\ truth[i] # NoText
BY DEF CopyInv, TypeInv, TruthInv, DataTrue

LEMMA MigrateSourceCopies ==
  ASSUME CopyInv, NEW p \in Passes, MigrateSource(p)
  PROVE  CopyInv'
<1> DEFINE r == pass[p]
           page == r.state.pending
           found == Ids(page) \cap Present(source)
           rows == Restricted(source, found)
           q == [r EXCEPT !.pc = "legacyShards", !.rows = rows]
<1>1. /\ UNCHANGED <<source, freeze, dest, truth, checkpoint, unfenced, import, plan>>
      /\ r.pc = "legacySource"
      /\ \/ Fail(p)
         \/ /\ found \in {{}, Ids(page)}
            /\ found = {} => r.freeze = "frozen"
            /\ pass' = [pass EXCEPT ![p] = q]
  BY DEF MigrateSource, dataVars, stillVars, budgetVars
<1>2. r \in PassRec /\ PassFormed(r) /\ Formed(r.state)
  BY PassIs
<1>3. /\ rows \in Partial(Texts) /\ DOMAIN rows = found /\ found \subseteq Rows
      /\ \A i \in found : rows[i] = source[i] /\ source[i] # NoText
  <2>1. \A i \in found : source[i] \in Texts /\ source[i] # NoText /\ i \in Rows
    BY DEF CopyInv, TypeInv, Present, Content
  <2> QED
    BY <2>1, RestrictedIs
<1> HIDE DEF rows
<1>4. /\ q \in PassRec /\ q.pc = "legacyShards" /\ q.gen = r.gen /\ q.state = r.state /\ q.freeze = r.freeze
      /\ q.rows = rows
  BY <1>2, <1>3 DEF PassRec, Pcs, PagePcs
<1> HIDE DEF q
<1>5. CASE Fail(p)
  BY <1>1, <1>5, FailStep
<1>6. CASE /\ found \in {{}, Ids(page)}
           /\ found = {} => r.freeze = "frozen"
           /\ pass' = [pass EXCEPT ![p] = q]
  <2>1. PassFormed(q)
    BY <1>1, <1>2, <1>3, <1>4 DEF PassFormed, PagePcs, BarePcs, BytesPcs, OpenPcs
  <2>2. ASSUME OverlapsLate PROVE PassTrue(q, source, dest, truth, freeze)
    <3>1. PassTrue(r, source, dest, truth, freeze)
      BY <2>2, PassIs
    <3>2. \A i \in DOMAIN q.rows : q.rows[i] = truth[i] /\ truth[i] # NoText
      BY <1>3, <1>4, <2>2, FoundIs
    <3>3. DOMAIN q.rows # Ids(page) =>
            freeze = "frozen" /\ \A i \in Ids(page) \ DOMAIN q.rows : source[i] = NoText
      BY <1>3, <1>4, <1>6, <1>2, <3>1, FormedIs DEF PassTrue, Present
    <3> QED
      BY <1>1, <1>4, <3>1, <3>2, <3>3 DEF PassTrue, ReadPcs, VerifiedPcs
  <2> QED
    BY <1>1, <1>4, <1>6, <2>1, <2>2, SameStateStep
<1> QED
  BY <1>1, <1>5, <1>6

LEMMA MigrateShardsCopies ==
  ASSUME CopyInv, NEW p \in Passes, MigrateShards(p)
  PROVE  CopyInv'
<1> DEFINE r == pass[p]
           page == r.state.pending
           exact == [i \in Ids(page) |-> IF i \in DOMAIN r.rows THEN r.rows[i] ELSE dest[i]]
           base == Restricted(dest, Ids(page))
           missing == Ids(page) \ DOMAIN r.rows
           state == Migrated(r.state, exact, base, missing)
           q == [r EXCEPT !.pc = "legacyPersist", !.state = state]
<1>1. /\ UNCHANGED <<source, freeze, dest, truth, checkpoint, unfenced, import, plan>>
      /\ r.pc = "legacyShards"
      /\ \/ Fail(p)
         \/ /\ \A i \in Ids(page) : exact[i] # NoText
            /\ pass' = [pass EXCEPT ![p] = q]
  BY DEF MigrateShards, dataVars, stillVars, budgetVars
<1>2. /\ r \in PassRec /\ PassFormed(r) /\ Formed(r.state) /\ page # NoPage /\ Ids(page) \subseteq Rows
      /\ DOMAIN r.rows \subseteq Ids(page)
  BY <1>1, PassIs, FormedIs DEF PassFormed, PagePcs
<1>3. CASE Fail(p)
  BY <1>1, <1>3, FailStep
<1>4. CASE /\ \A i \in Ids(page) : exact[i] # NoText
           /\ pass' = [pass EXCEPT ![p] = q]
  <2>1. \A i \in DOMAIN r.rows : r.rows[i] \in Texts
    BY <1>2, PartialIs DEF PassRec
  <2>2. \A i \in Ids(page) : exact[i] \in Texts
    BY <1>2, <1>4, <2>1 DEF CopyInv, TypeInv, Content
  <2>3. exact \in Partial(Texts) /\ DOMAIN exact = Ids(page)
    BY <1>2, <2>2 DEF Partial
  <2>4. base \in Partial(Content) /\ DOMAIN base = Ids(page)
    BY <1>2, RestrictedIs DEF CopyInv, TypeInv
  <2>5. \A i \in Ids(page) : exact[i] = IF i \in DOMAIN r.rows THEN r.rows[i] ELSE dest[i]
    OBVIOUS
  <2> HIDE DEF exact, base
  <2>6. /\ Formed(state) /\ state.acked = r.state.acked /\ state.mode = r.state.mode
        /\ state.encoding = "bytes" /\ state.pending.rows = exact /\ state.pending # NoPage
    BY <1>2, <2>3, <2>4, FormedMigrates
  <2> HIDE DEF state
  <2>7. /\ q \in PassRec /\ q.pc = "legacyPersist" /\ q.gen = r.gen /\ q.state = state /\ q.freeze = r.freeze
        /\ q.rows = r.rows
    BY <1>2, <2>6 DEF PassRec, Pcs, PagePcs, Formed
  <2> HIDE DEF q
  <2>8. PassFormed(q)
    BY <1>2, <2>6, <2>7 DEF PassFormed, PagePcs, BarePcs, BytesPcs, OpenPcs
  <2>9. InStep(q, checkpoint)
    BY <1>1, <2>6, <2>7 DEF CopyInv, FenceInv, InStep
  <2>10. ASSUME OverlapsLate PROVE PassTrue(q, source, dest, truth, freeze)
    <3>1. PassTrue(r, source, dest, truth, freeze) /\ StateTrue(r.state, source, dest, truth, freeze)
      BY <2>10, PassIs
    <3>2. Ids(state.pending) = Ids(page)
      BY <2>3, <2>6 DEF Ids
    <3>3. freeze = "frozen" => \A i \in Ids(page) : truth[i] \in {exact[i], NoText}
      <4> SUFFICES ASSUME freeze = "frozen", NEW i \in Ids(page) PROVE truth[i] \in {exact[i], NoText}
        OBVIOUS
      <4>1. CASE i \in DOMAIN r.rows
        BY <1>1, <2>5, <3>1, <4>1 DEF PassTrue, ReadPcs
      <4>2. CASE i \notin DOMAIN r.rows
        <5>1. source[i] = NoText
          BY <1>1, <3>1, <4>2 DEF PassTrue
        <5>2. truth[i] = NoText \/ dest[i] = truth[i]
          BY <1>2, <2>10, <5>1 DEF CopyInv, TruthInv, DataTrue
        <5> QED
          BY <2>5, <4>2, <5>2
      <4> QED
        BY <4>1, <4>2
    <3>4. StateTrue(state, source, dest, truth, freeze)
      BY <2>6, <3>1, <3>2, <3>3 DEF StateTrue
    <3> QED
      BY <2>7, <3>1, <3>4 DEF PassTrue, ReadPcs, VerifiedPcs
  <2>11. q.pc # "idle" /\ r.pc # "idle"
    BY <1>1, <2>7
  <2> QED
    BY <1>1, <1>4, <2>7, <2>8, <2>9, <2>10, <2>11, OwnStep
<1> QED
  BY <1>1, <1>3, <1>4
LEMMA LoopCopies ==
  ASSUME CopyInv, NEW p \in Passes, Loop(p)
  PROVE  CopyInv'
<1> DEFINE phase == pass[p].state.pending.phase
           pc == CASE phase = "none"       -> "plan"
                   [] phase = "recovering" -> "repairSource"
                   [] phase = "copying"    -> "reread"
                   [] OTHER                -> "verifySource"
<1>1. /\ UNCHANGED <<source, freeze, dest, truth, checkpoint, unfenced, import, plan>>
      /\ pass[p].pc = "loop"
      /\ Goto(p, pc)
  BY DEF Loop, dataVars, stillVars, budgetVars
<1>2. /\ pc \in {"plan", "repairSource", "reread", "verifySource"}
      /\ pc = "plan" <=> phase = "none"
  OBVIOUS
<1> HIDE DEF pc
<1>3. PICK q \in PassRec :
        /\ pass' = [pass EXCEPT ![p] = q]
        /\ q.pc = pc /\ q.gen = pass[p].gen /\ q.state = pass[p].state /\ q.freeze = pass[p].freeze
        /\ q.rows = pass[p].rows
  BY <1>1, <1>2, GotoIs DEF CopyInv, Pcs, PagePcs, BarePcs
<1>4. PassFormed(q)
  BY <1>1, <1>2, <1>3, PassIs, FormedIs DEF PassFormed, PagePcs, BarePcs, BytesPcs, OpenPcs
<1>5. OverlapsLate => PassTrue(q, source, dest, truth, freeze)
  BY <1>1, <1>2, <1>3, PassIs DEF PassTrue, ReadPcs, VerifiedPcs
<1> QED
  BY <1>1, <1>2, <1>3, <1>4, <1>5, SameStateStep

LEMMA RepairSourceCopies ==
  ASSUME CopyInv, NEW p \in Passes, RepairSource(p)
  PROVE  CopyInv'
<1> DEFINE r == pass[p]
           page == r.state.pending
           found == Ids(page) \cap Present(source)
           rows == Restricted(source, found)
           q == [r EXCEPT !.pc = "repairShards", !.rows = rows]
<1>1. /\ UNCHANGED <<source, freeze, dest, truth, checkpoint, unfenced, import, plan>>
      /\ r.pc = "repairSource"
      /\ Fail(p) \/ pass' = [pass EXCEPT ![p] = q]
  BY DEF RepairSource, dataVars, stillVars, budgetVars
<1>2. r \in PassRec /\ PassFormed(r) /\ Formed(r.state)
  BY PassIs
<1>3. /\ rows \in Partial(Texts) /\ DOMAIN rows = found /\ found \subseteq Rows
      /\ \A i \in found : rows[i] = source[i] /\ source[i] # NoText
  <2>1. \A i \in found : source[i] \in Texts /\ source[i] # NoText /\ i \in Rows
    BY DEF CopyInv, TypeInv, Present, Content
  <2> QED
    BY <2>1, RestrictedIs
<1> HIDE DEF rows
<1>4. /\ q \in PassRec /\ q.pc = "repairShards" /\ q.gen = r.gen /\ q.state = r.state /\ q.freeze = r.freeze
      /\ q.rows = rows
  BY <1>2, <1>3 DEF PassRec, Pcs, PagePcs
<1> HIDE DEF q
<1>5. CASE Fail(p)
  BY <1>1, <1>5, FailStep
<1>6. CASE pass' = [pass EXCEPT ![p] = q]
  <2>1. PassFormed(q)
    BY <1>1, <1>2, <1>4 DEF PassFormed, PagePcs, BarePcs, BytesPcs, OpenPcs
  <2>2. ASSUME OverlapsLate PROVE PassTrue(q, source, dest, truth, freeze)
    <3>1. \A i \in DOMAIN q.rows : q.rows[i] = truth[i] /\ truth[i] # NoText
      BY <1>3, <1>4, <2>2, FoundIs
    <3> QED
      BY <1>1, <1>4, <2>2, <3>1, PassIs DEF PassTrue, ReadPcs, VerifiedPcs
  <2> QED
    BY <1>1, <1>4, <1>6, <2>1, <2>2, SameStateStep
<1> QED
  BY <1>1, <1>5, <1>6

LEMMA RepairShardsCopies ==
  ASSUME CopyInv, NEW p \in Passes, RepairShards(p)
  PROVE  CopyInv'
<1> DEFINE r == pass[p]
           page == r.state.pending
           stale == {i \in Ids(page) : dest[i] # page.rows[i]}
           rows == Restricted(r.rows, stale)
           pc == IF stale = {} THEN "repairedSource" ELSE "write"
           q == [r EXCEPT !.pc = pc, !.rows = rows, !.todo = stale]
<1>1. /\ UNCHANGED <<source, freeze, dest, truth, checkpoint, unfenced, import, plan>>
      /\ r.pc = "repairShards"
      /\ \/ Fail(p)
         \/ stale \subseteq DOMAIN r.rows /\ pass' = [pass EXCEPT ![p] = q]
  BY DEF RepairShards, dataVars, stillVars, budgetVars
<1>2. r \in PassRec /\ PassFormed(r) /\ Formed(r.state) /\ stale \subseteq Rows
  BY PassIs, FormedIs
<1> HIDE DEF stale
<1>3. CASE Fail(p)
  BY <1>1, <1>3, FailStep
<1>4. CASE stale \subseteq DOMAIN r.rows /\ pass' = [pass EXCEPT ![p] = q]
  <2>1. /\ rows \in Partial(Texts) /\ DOMAIN rows = stale
        /\ \A i \in stale : rows[i] = r.rows[i]
    <3>1. \A i \in stale : r.rows[i] \in Texts
      BY <1>2, <1>4, PartialIs DEF PassRec
    <3> QED
      BY <1>2, <3>1, RestrictedIs
  <2>2. pc \in {"repairedSource", "write"}
    OBVIOUS
  <2> HIDE DEF rows, pc
  <2>3. /\ q \in PassRec /\ q.pc = pc /\ q.gen = r.gen /\ q.state = r.state /\ q.freeze = r.freeze
        /\ q.rows = rows /\ q.todo = stale
    BY <1>2, <2>1, <2>2 DEF PassRec, Pcs, PagePcs
  <2> HIDE DEF q
  <2>4. PassFormed(q)
    BY <1>1, <1>2, <2>1, <2>2, <2>3 DEF PassFormed, PagePcs, BarePcs, BytesPcs, OpenPcs
  <2>5. OverlapsLate => PassTrue(q, source, dest, truth, freeze)
    BY <1>1, <1>4, <2>1, <2>2, <2>3, PassIs DEF PassTrue, ReadPcs, VerifiedPcs
  <2> QED
    BY <1>1, <1>4, <2>2, <2>3, <2>4, <2>5, SameStateStep
<1> QED
  BY <1>1, <1>3, <1>4

LEMMA RereadCopies ==
  ASSUME CopyInv, NEW p \in Passes, Reread(p)
  PROVE  CopyInv'
<1> DEFINE r == pass[p]
           page == r.state.pending
           q == [r EXCEPT !.pc = "write", !.rows = page.rows, !.todo = Ids(page)]
<1>1. /\ UNCHANGED <<source, freeze, dest, truth, checkpoint, unfenced, import, plan>>
      /\ r.pc = "reread"
      /\ Fail(p) \/ (SourceMatches(page) /\ pass' = [pass EXCEPT ![p] = q])
  BY DEF Reread, dataVars, stillVars, budgetVars
<1>2. /\ r \in PassRec /\ PassFormed(r) /\ Formed(r.state) /\ Ids(page) \subseteq Rows
      /\ page.rows \in Partial(Texts) /\ DOMAIN page.rows = Ids(page)
      /\ \A i \in Ids(page) : page.rows[i] \in Texts
  BY PassIs, FormedIs DEF PageRec, Ids
<1>3. /\ q \in PassRec /\ q.pc = "write" /\ q.gen = r.gen /\ q.state = r.state /\ q.freeze = r.freeze
      /\ q.rows = page.rows /\ q.todo = Ids(page)
  BY <1>2 DEF PassRec, Pcs, PagePcs
<1> HIDE DEF q
<1>4. CASE Fail(p)
  BY <1>1, <1>4, FailStep
<1>5. CASE SourceMatches(page) /\ pass' = [pass EXCEPT ![p] = q]
  <2>1. PassFormed(q)
    BY <1>1, <1>2, <1>3 DEF PassFormed, PagePcs, BarePcs, BytesPcs, OpenPcs
  <2>2. ASSUME OverlapsLate PROVE PassTrue(q, source, dest, truth, freeze)
    <3>1. PassTrue(r, source, dest, truth, freeze) /\ StateTrue(r.state, source, dest, truth, freeze)
      BY <2>2, PassIs
    <3>2. freeze = "frozen" => \A i \in Ids(page) : page.rows[i] = truth[i]
      <4> SUFFICES ASSUME freeze = "frozen", NEW i \in Ids(page) PROVE page.rows[i] = truth[i]
        OBVIOUS
      <4>1. source[i] = page.rows[i] /\ i \in Rows
        BY <1>2, <1>5 DEF SourceMatches
      <4>2. source[i] = truth[i] \/ (source[i] = NoText /\ truth[i] \in {page.rows[i], NoText})
        BY <1>1, <1>2, <2>2, <3>1, <4>1 DEF CopyInv, TruthInv, DataTrue, StateTrue, PassFormed, BytesPcs
      <4>3. source[i] = NoText => source[i] = truth[i]
        BY <4>1, <4>2
      <4> QED
        BY <4>1, <4>2, <4>3
    <3>3. ~Deletes => \A i \in Ids(page) : truth[i] # NoText
      BY <3>1 DEF StateTrue
    <3> QED
      BY <1>1, <1>2, <1>3, <3>1, <3>2, <3>3 DEF PassTrue, ReadPcs, VerifiedPcs
  <2> QED
    BY <1>1, <1>3, <1>5, <2>1, <2>2, SameStateStep
<1> QED
  BY <1>1, <1>4, <1>5

LEMMA VerifySourceCopies ==
  ASSUME CopyInv, NEW p \in Passes, VerifySource(p)
  PROVE  CopyInv'
<1> DEFINE r == pass[p]
           page == r.state.pending
           left == Ids(page) \cap Present(source) # {}
           pc == IF r.pc = "repairedSource" THEN "repairedShards" ELSE "verifyShards"
           q == [r EXCEPT !.pc = pc, !.left = left]
<1>1. /\ UNCHANGED <<source, freeze, dest, truth, checkpoint, unfenced, import, plan>>
      /\ r.pc \in {"verifySource", "repairedSource"}
      /\ Fail(p) \/ pass' = [pass EXCEPT ![p] = q]
  BY DEF VerifySource, dataVars, stillVars, budgetVars
<1>2. r \in PassRec /\ PassFormed(r) /\ Formed(r.state)
  BY PassIs
<1>3. pc \in {"repairedShards", "verifyShards"} /\ left \in BOOLEAN
  OBVIOUS
<1> HIDE DEF pc, left
<1>4. /\ q \in PassRec /\ q.pc = pc /\ q.gen = r.gen /\ q.state = r.state /\ q.freeze = r.freeze
      /\ q.rows = r.rows
  BY <1>2, <1>3 DEF PassRec, Pcs, PagePcs
<1> HIDE DEF q
<1>5. CASE Fail(p)
  BY <1>1, <1>5, FailStep
<1>6. CASE pass' = [pass EXCEPT ![p] = q]
  <2>1. PassFormed(q)
    BY <1>1, <1>2, <1>3, <1>4 DEF PassFormed, PagePcs, BarePcs, BytesPcs, OpenPcs
  <2>2. OverlapsLate => PassTrue(q, source, dest, truth, freeze)
    BY <1>1, <1>3, <1>4, PassIs DEF PassTrue, ReadPcs, VerifiedPcs
  <2> QED
    BY <1>1, <1>3, <1>4, <1>6, <2>1, <2>2, SameStateStep
<1> QED
  BY <1>1, <1>5, <1>6

LEMMA VerifyShardsCopies ==
  ASSUME CopyInv, NEW p \in Passes, VerifyShards(p)
  PROVE  CopyInv'
<1> DEFINE page == pass[p].state.pending
           pc == IF pass[p].pc = "verifyShards" THEN "mark" ELSE "repaired"
<1>1. /\ UNCHANGED <<source, freeze, dest, truth, checkpoint, unfenced, import, plan>>
      /\ pass[p].pc \in {"verifyShards", "repairedShards"}
      /\ Fail(p) \/ (CopyVerified(page) /\ Goto(p, pc))
  BY DEF VerifyShards, dataVars, stillVars, budgetVars
<1>2. pc \in {"mark", "repaired"}
  OBVIOUS
<1> HIDE DEF pc
<1>3. CASE Fail(p)
  BY <1>1, <1>3, FailStep
<1>4. CASE CopyVerified(page) /\ Goto(p, pc)
  <2>1. PICK q \in PassRec :
          /\ pass' = [pass EXCEPT ![p] = q]
          /\ q.pc = pc /\ q.gen = pass[p].gen /\ q.state = pass[p].state /\ q.freeze = pass[p].freeze
          /\ q.rows = pass[p].rows
    BY <1>2, <1>4, GotoIs DEF CopyInv, Pcs, PagePcs
  <2>2. PassFormed(q)
    BY <1>1, <1>2, <2>1, PassIs DEF PassFormed, PagePcs, BarePcs, BytesPcs, OpenPcs
  <2>3. OverlapsLate => PassTrue(q, source, dest, truth, freeze)
    BY <1>1, <1>2, <1>4, <2>1, PassIs DEF PassTrue, ReadPcs, VerifiedPcs, CopyVerified
  <2> QED
    BY <1>1, <1>2, <2>1, <2>2, <2>3, SameStateStep
<1> QED
  BY <1>1, <1>3, <1>4

LEMMA ReadFreezeCopies ==
  ASSUME CopyInv, NEW p \in Passes, ReadFreeze(p)
  PROVE  CopyInv'
<1> DEFINE r == pass[p]
           pc == IF r.left THEN "retire" ELSE "ack"
           q == [r EXCEPT !.freeze = freeze, !.pc = pc]
<1>1. /\ UNCHANGED <<source, freeze, dest, truth, checkpoint, unfenced, import, plan>>
      /\ r.pc = "frozen"
      /\ \/ Fail(p)
         \/ (~r.left => freeze = "frozen") /\ pass' = [pass EXCEPT ![p] = q]
  BY DEF ReadFreeze, dataVars, stillVars, budgetVars
<1>2. r \in PassRec /\ PassFormed(r) /\ Formed(r.state) /\ freeze \in {"absent", "frozen"}
  BY PassIs DEF CopyInv, TypeInv
<1>3. pc \in {"retire", "ack"} /\ (pc = "ack" => ~r.left)
  OBVIOUS
<1> HIDE DEF pc
<1>4. /\ q \in PassRec /\ q.pc = pc /\ q.gen = r.gen /\ q.state = r.state /\ q.freeze = freeze
      /\ q.rows = r.rows
  BY <1>2, <1>3 DEF PassRec, Pcs, PagePcs
<1> HIDE DEF q
<1>5. CASE Fail(p)
  BY <1>1, <1>5, FailStep
<1>6. CASE (~r.left => freeze = "frozen") /\ pass' = [pass EXCEPT ![p] = q]
  <2>1. PassFormed(q)
    BY <1>1, <1>2, <1>3, <1>4 DEF PassFormed, PagePcs, BarePcs, BytesPcs, OpenPcs
  <2>2. OverlapsLate => PassTrue(q, source, dest, truth, freeze)
    BY <1>1, <1>3, <1>4, <1>6, PassIs DEF PassTrue, ReadPcs, VerifiedPcs
  <2> QED
    BY <1>1, <1>3, <1>4, <1>6, <2>1, <2>2, SameStateStep
<1> QED
  BY <1>1, <1>5, <1>6

LEMMA PlanPageCopies ==
  ASSUME CopyInv, NEW p \in Passes, PlanPage(p)
  PROVE  CopyInv'
<1> DEFINE r == pass[p]
           ahead == Present(source) \cap Ahead(r.state)
<1>1. /\ UNCHANGED <<source, freeze, dest, truth, checkpoint, unfenced, import, plan>>
      /\ r.pc = "plan"
      /\ \/ Fail(p)
         \/ Present(source) = {} /\ Goto(p, "empty")
         \/ \E page \in PagesOf(ahead) :
              pass' = [pass EXCEPT ![p] = [r EXCEPT !.pc = "planned", !.rows = Restricted(source, page)]]
  BY DEF PlanPage, dataVars, stillVars, budgetVars
<1>2. r \in PassRec /\ PassFormed(r) /\ Formed(r.state)
  BY PassIs
<1>3. CASE Fail(p)
  BY <1>1, <1>3, FailStep
<1>4. CASE Present(source) = {} /\ Goto(p, "empty")
  <2>1. PICK q \in PassRec :
          /\ pass' = [pass EXCEPT ![p] = q]
          /\ q.pc = "empty" /\ q.gen = pass[p].gen /\ q.state = pass[p].state /\ q.freeze = pass[p].freeze
          /\ q.rows = pass[p].rows
    BY <1>4, GotoIs DEF CopyInv, Pcs, BarePcs
  <2>2. PassFormed(q)
    BY <1>1, <2>1, PassIs DEF PassFormed, PagePcs, BarePcs, BytesPcs, OpenPcs
  <2>3. \A i \in Rows : source[i] = NoText
    BY <1>4 DEF Present
  <2>4. OverlapsLate => PassTrue(q, source, dest, truth, freeze)
    BY <1>1, <2>1, <2>3, PassIs DEF PassTrue, ReadPcs, VerifiedPcs
  <2> QED
    BY <1>1, <2>1, <2>2, <2>4, SameStateStep
<1>5. ASSUME NEW page \in PagesOf(ahead),
             pass' = [pass EXCEPT ![p] = [r EXCEPT !.pc = "planned", !.rows = Restricted(source, page)]]
      PROVE  CopyInv'
  <2> DEFINE rows == Restricted(source, page)
             q == [r EXCEPT !.pc = "planned", !.rows = rows]
  <2>1. page \subseteq ahead /\ page # {}
    BY DEF PagesOf, Groups
  <2>2. \A i \in page : i \in Rows /\ source[i] \in Texts /\ source[i] # NoText /\ i \in Ahead(r.state)
    BY <2>1 DEF CopyInv, TypeInv, Present, Content
  <2>3. rows \in Partial(Texts) /\ DOMAIN rows = page /\ \A i \in page : rows[i] = source[i]
    BY <2>2, RestrictedIs
  <2>4. rows # Nothing
    BY <2>1, <2>3, NothingIs
  <2> HIDE DEF rows
  <2>5. /\ q \in PassRec /\ q.pc = "planned" /\ q.gen = r.gen /\ q.state = r.state /\ q.freeze = r.freeze
        /\ q.rows = rows
    BY <1>2, <2>3 DEF PassRec, Pcs, BarePcs
  <2>6. pass' = [pass EXCEPT ![p] = q]
    BY <1>5 DEF rows
  <2> HIDE DEF q
  <2>7. PassFormed(q)
    <3>1. DOMAIN q.rows \subseteq Ahead(q.state) /\ q.rows # Nothing
      BY <2>2, <2>3, <2>4, <2>5
    <3> QED
      BY <1>1, <1>2, <2>5, <3>1 DEF PassFormed, PagePcs, BarePcs, BytesPcs, OpenPcs
  <2>8. ASSUME OverlapsLate PROVE PassTrue(q, source, dest, truth, freeze)
    <3>1. \A i \in DOMAIN q.rows : q.rows[i] = truth[i] /\ truth[i] # NoText
      BY <2>2, <2>3, <2>5, <2>8, FoundIs
    <3> QED
      BY <1>1, <2>5, <2>8, <3>1, PassIs DEF PassTrue, ReadPcs, VerifiedPcs
  <2> QED
    BY <1>1, <2>5, <2>6, <2>7, <2>8, SameStateStep
<1> QED
  BY <1>1, <1>3, <1>4, <1>5

(* A pass that has found the source empty and frozen is done.               *)
LEMMA FinishedStep ==
  ASSUME CopyInv, NEW p \in Passes, pass[p].pc \in {"empty", "install"}, Finished(p),
         UNCHANGED <<source, freeze, dest, truth, checkpoint, unfenced, import, plan>>,
         OverlapsLate => freeze = "frozen" /\ \A i \in Rows : source[i] = NoText
  PROVE  CopyInv'
<1>1. CASE Fail(p)
  BY <1>1, FailStep
<1>2. CASE Goto(p, "complete")
  <2>1. PICK q \in PassRec :
          /\ pass' = [pass EXCEPT ![p] = q]
          /\ q.pc = "complete" /\ q.gen = pass[p].gen /\ q.state = pass[p].state /\ q.freeze = pass[p].freeze
          /\ q.rows = pass[p].rows
    BY <1>2, GotoIs DEF CopyInv, Pcs, BarePcs
  <2>2. PassFormed(q)
    BY <2>1, PassIs DEF PassFormed, PagePcs, BarePcs, BytesPcs, OpenPcs
  <2>3. OverlapsLate => PassTrue(q, source, dest, truth, freeze)
    BY <2>1, PassIs DEF PassTrue, ReadPcs, VerifiedPcs
  <2> QED
    BY <2>1, <2>2, <2>3, SameStateStep
<1> QED
  BY <1>1, <1>2 DEF Finished

LEMMA FreezeEmptyCopies ==
  ASSUME CopyInv, NEW p \in Passes, FreezeEmpty(p)
  PROVE  CopyInv'
<1>1. /\ UNCHANGED <<source, freeze, dest, truth, checkpoint, unfenced, import, plan>>
      /\ pass[p].pc = "empty"
      /\ (freeze = "frozen" /\ Finished(p)) \/ Goto(p, "install")
  BY DEF FreezeEmpty, dataVars, stillVars, budgetVars
<1>2. CASE freeze = "frozen" /\ Finished(p)
  <2>1. OverlapsLate => \A i \in Rows : source[i] = NoText
    BY <1>1, <1>2, PassIs DEF PassTrue
  <2> QED
    BY <1>1, <1>2, <2>1, FinishedStep
<1>3. CASE Goto(p, "install")
  <2>1. PICK q \in PassRec :
          /\ pass' = [pass EXCEPT ![p] = q]
          /\ q.pc = "install" /\ q.gen = pass[p].gen /\ q.state = pass[p].state /\ q.freeze = pass[p].freeze
          /\ q.rows = pass[p].rows
    BY <1>3, GotoIs DEF CopyInv, Pcs, BarePcs
  <2>2. PassFormed(q)
    BY <1>1, <2>1, PassIs DEF PassFormed, PagePcs, BarePcs, BytesPcs, OpenPcs
  <2>3. OverlapsLate => PassTrue(q, source, dest, truth, freeze)
    BY <1>1, <2>1, PassIs DEF PassTrue, ReadPcs, VerifiedPcs
  <2> QED
    BY <1>1, <2>1, <2>2, <2>3, SameStateStep
<1> QED
  BY <1>1, <1>2, <1>3

LEMMA CrashCopies ==
  ASSUME CopyInv, NEW p \in Passes, Crash(p)
  PROVE  CopyInv'
<1>1. /\ UNCHANGED <<source, freeze, dest, truth, checkpoint, unfenced, import, plan>>
      /\ pass[p].pc # "idle" /\ Fail(p)
  BY DEF Crash, dataVars
<1> QED
  BY <1>1, FailStep
-----------------------------------------------------------------------------
(* The actions that write the checkpoint.                                   *)

LEMMA RejectedStep ==
  ASSUME CopyInv, NEW p \in Passes, pass[p].pc # "idle", NEW state, NEW pc,
         Persist(p, state, pc), ~FencePasses(pass[p].gen),
         UNCHANGED <<source, freeze, dest, truth, unfenced, import, plan>>
  PROVE  CopyInv'
BY FailStep DEF Persist

LEMMA CreateCopies ==
  ASSUME CopyInv, NEW p \in Passes, Create(p)
  PROVE  CopyInv'
<1>1. /\ UNCHANGED <<source, freeze, dest, truth, unfenced, import, plan>>
      /\ pass[p].pc = "create" /\ Persist(p, FreshState, "loop")
  BY DEF Create, dataVars, stillVars, budgetVars
<1>2. StateTrue(FreshState, source, dest, truth, freeze)
  BY FreshIs, NoPageIs DEF StateTrue
<1>3. CASE FencePasses(pass[p].gen)
  <2>1. /\ Formed(FreshState) /\ FreshState.encoding = "bytes" /\ FreshState.mode # "complete"
        /\ "loop" \in Pcs \ {"create", "reappeared", "legacyPersist", "legacyShards"}
        /\ "loop" \notin PagePcs \cup BarePcs \cup ReadPcs \cup VerifiedPcs
    BY FreshIs DEF Pcs, PagePcs, BarePcs, ReadPcs, VerifiedPcs
  <2> QED
    BY <1>1, <1>2, <1>3, <2>1, PersistStep
<1> QED
  BY <1>1, <1>3, RejectedStep

(* Most writes lead back to the loop.                                       *)
LEMMA LoopAgainStep ==
  ASSUME CopyInv, NEW p \in Passes, pass[p].pc # "idle", NEW state, Persist(p, state, "loop"),
         Formed(state), state.encoding = "bytes", state.mode # "complete",
         OverlapsLate => StateTrue(state, source, dest, truth, freeze),
         UNCHANGED <<source, freeze, dest, truth, unfenced, import, plan>>
  PROVE  CopyInv'
<1>1. /\ "loop" \in Pcs \ {"create", "reappeared", "legacyPersist", "legacyShards"}
      /\ "loop" \notin PagePcs \cup BarePcs \cup ReadPcs \cup VerifiedPcs
  BY DEF Pcs, PagePcs, BarePcs, ReadPcs, VerifiedPcs
<1>2. CASE FencePasses(pass[p].gen)
  BY <1>1, <1>2, PersistStep
<1> QED
  BY <1>2, RejectedStep

LEMMA ForgetCopies ==
  ASSUME CopyInv, NEW p \in Passes, Forget(p)
  PROVE  CopyInv'
<1> DEFINE r == pass[p]
           state == [r.state EXCEPT !.pending = NoPage]
<1>1. /\ UNCHANGED <<source, freeze, dest, truth, unfenced, import, plan>>
      /\ r.pc = "forget" /\ Persist(p, state, "loop")
  BY DEF Forget, dataVars, stillVars, budgetVars
<1>2. r.state.encoding = "bytes" /\ r.state.pending # NoPage /\ r.state.mode # "complete"
  BY <1>1, PassIs, FormedIs DEF PassFormed, PagePcs, BytesPcs
<1>3. /\ Formed(state) /\ state.acked = r.state.acked /\ state.mode = r.state.mode
      /\ state.encoding = r.state.encoding /\ state.pending = NoPage
  BY PassIs, FormedForgets
<1> HIDE DEF state
<1>4. OverlapsLate => StateTrue(state, source, dest, truth, freeze)
  BY <1>3, PassIs, NoPageIs DEF StateTrue
<1> QED
  BY <1>1, <1>2, <1>3, <1>4, LoopAgainStep

LEMMA MigrateEmptyCopies ==
  ASSUME CopyInv, NEW p \in Passes, MigrateEmpty(p)
  PROVE  CopyInv'
<1> DEFINE r == pass[p]
           state == [r.state EXCEPT !.encoding = "bytes"]
<1>1. /\ UNCHANGED <<source, freeze, dest, truth, unfenced, import, plan>>
      /\ r.pc = "migrate" /\ r.state.pending = NoPage /\ Persist(p, state, "loop")
  BY DEF MigrateEmpty, dataVars, stillVars, budgetVars
<1>2. r.state.mode # "complete"
  BY <1>1, PassIs DEF PassFormed, OpenPcs
<1>3. /\ Formed(state) /\ state.acked = r.state.acked /\ state.mode = r.state.mode
      /\ state.encoding = "bytes" /\ state.pending = NoPage
  BY <1>1, PassIs, FormedBytes
<1> HIDE DEF state
<1>4. OverlapsLate => StateTrue(state, source, dest, truth, freeze)
  BY <1>3, PassIs, NoPageIs DEF StateTrue
<1> QED
  BY <1>1, <1>2, <1>3, <1>4, LoopAgainStep

LEMMA MigratePersistCopies ==
  ASSUME CopyInv, NEW p \in Passes, MigratePersist(p)
  PROVE  CopyInv'
<1>1. /\ UNCHANGED <<source, freeze, dest, truth, unfenced, import, plan>>
      /\ pass[p].pc = "legacyPersist" /\ Persist(p, pass[p].state, "loop")
  BY DEF MigratePersist, dataVars, stillVars, budgetVars
<1>2. pass[p].state.mode # "complete" /\ pass[p].state.encoding = "bytes" /\ Formed(pass[p].state)
  BY <1>1, PassIs, FormedIs DEF PassFormed, PagePcs, BytesPcs
<1> QED
  BY <1>1, <1>2, PassIs, LoopAgainStep

LEMMA MarkVerifiedCopies ==
  ASSUME CopyInv, NEW p \in Passes, MarkVerified(p)
  PROVE  CopyInv'
<1> DEFINE r == pass[p]
           state == [r.state EXCEPT !.pending.phase = "verified"]
           pc == IF r.pc = "mark" THEN "frozen" ELSE "verifySource"
<1>1. /\ UNCHANGED <<source, freeze, dest, truth, unfenced, import, plan>>
      /\ r.pc \in {"mark", "repaired"} /\ Persist(p, state, pc)
  BY DEF MarkVerified, dataVars, stillVars, budgetVars
<1>2. r.state.encoding = "bytes" /\ r.state.pending # NoPage
  BY <1>1, PassIs DEF PassFormed, PagePcs, BytesPcs
<1>3. /\ Formed(state) /\ state.acked = r.state.acked /\ state.mode = r.state.mode
      /\ state.encoding = r.state.encoding
      /\ state.pending.rows = r.state.pending.rows /\ state.pending.phase = "verified"
  BY <1>2, PassIs, FormedVerified
<1>4. state.pending # NoPage
  BY <1>3, NoPageIs
<1> HIDE DEF state
<1>5. OverlapsLate => StateTrue(state, source, dest, truth, freeze)
  BY <1>3, PassIs DEF StateTrue, Ids
<1>6. /\ pc \in Pcs \ {"create", "reappeared", "legacyPersist", "legacyShards"}
      /\ pc \notin BarePcs \cup ReadPcs \cup OpenPcs
      /\ pc \notin {"write", "planned", "compare", "discard", "ack", "empty", "complete"}
      /\ pc \in VerifiedPcs => r.pc = "mark"
  BY DEF Pcs, PagePcs, BarePcs, ReadPcs, VerifiedPcs, OpenPcs
<1> HIDE DEF pc
<1>7. OverlapsLate /\ pc \in VerifiedPcs => \A i \in Ids(state.pending) : dest[i] = state.pending.rows[i]
  BY <1>3, <1>6, PassIs DEF PassTrue, VerifiedPcs, Ids
<1>8. CASE FencePasses(r.gen)
  BY <1>1, <1>2, <1>3, <1>4, <1>5, <1>6, <1>7, <1>8, PersistStep
<1> QED
  BY <1>1, <1>8, RejectedStep

LEMMA AcknowledgeCopies ==
  ASSUME CopyInv, NEW p \in Passes, Acknowledge(p)
  PROVE  CopyInv'
<1> DEFINE r == pass[p]
           state == Acked(r.state)
<1>1. /\ UNCHANGED <<source, freeze, dest, truth, unfenced, import, plan>>
      /\ r.pc = "ack" /\ Persist(p, state, "loop")
  BY DEF Acknowledge, dataVars, stillVars, budgetVars
<1>2. r.state.encoding = "bytes" /\ r.state.pending # NoPage /\ r.state.mode # "complete"
  BY <1>1, PassIs, FormedIs DEF PassFormed, PagePcs, BytesPcs
<1>3. /\ Formed(state) /\ state.mode = r.state.mode /\ state.encoding = r.state.encoding
      /\ state.pending = NoPage
      /\ state.acked = r.state.acked \cup {<<i, r.state.pending.rows[i]>> : i \in Ids(r.state.pending)}
  BY PassIs, FormedAcks
<1> HIDE DEF state
<1>4. ASSUME OverlapsLate PROVE StateTrue(state, source, dest, truth, freeze)
  <2>1. PassTrue(r, source, dest, truth, freeze) /\ StateTrue(r.state, source, dest, truth, freeze)
    BY <1>4, PassIs
  <2>2. freeze = "frozen"
    BY <1>1, <2>1 DEF PassTrue
  <2>3. \A i \in Ids(r.state.pending) :
          dest[i] = r.state.pending.rows[i] /\ truth[i] \in {r.state.pending.rows[i], NoText}
    BY <1>1, <1>2, <2>1, <2>2 DEF PassTrue, VerifiedPcs, StateTrue
  <2>4. \A a \in state.acked : dest[a[1]] = a[2] /\ truth[a[1]] \in {a[2], NoText}
    BY <1>3, <2>1, <2>3 DEF StateTrue
  <2> QED
    BY <1>3, <2>1, <2>2, <2>4, NoPageIs DEF StateTrue
<1> QED
  BY <1>1, <1>2, <1>3, <1>4, LoopAgainStep

LEMMA PlannedCopies ==
  ASSUME CopyInv, NEW p \in Passes, Planned(p)
  PROVE  CopyInv'
<1> DEFINE r == pass[p]
           state == [r.state EXCEPT !.pending = Page("copying", r.rows)]
<1>1. /\ UNCHANGED <<source, freeze, dest, truth, unfenced, import, plan>>
      /\ r.pc = "planned" /\ Persist(p, state, "loop")
  BY DEF Planned, dataVars, stillVars, budgetVars
<1>2. /\ r.state.encoding = "bytes" /\ r.state.pending = NoPage /\ r.state.mode # "complete"
      /\ r.rows \in Partial(Texts) /\ r.rows # Nothing /\ DOMAIN r.rows \subseteq Ahead(r.state)
      /\ Formed(r.state)
  BY <1>1, PassIs DEF PassFormed, BarePcs, BytesPcs, OpenPcs, PassRec
<1>3. /\ Formed(state) /\ state.acked = r.state.acked /\ state.mode = r.state.mode
      /\ state.encoding = r.state.encoding /\ state.pending.rows = r.rows
  BY <1>2, FormedPlans
<1> HIDE DEF state
<1>4. OverlapsLate => StateTrue(state, source, dest, truth, freeze)
  BY <1>1, <1>3, PassIs DEF StateTrue, PassTrue, ReadPcs, Ids
<1> QED
  BY <1>1, <1>2, <1>3, <1>4, LoopAgainStep

LEMMA CompleteCopies ==
  ASSUME CopyInv, NEW p \in Passes, Complete(p)
  PROVE  CopyInv'
<1> DEFINE r == pass[p]
           state == [r.state EXCEPT !.mode = "complete"]
<1>1. /\ UNCHANGED <<source, freeze, dest, truth, unfenced, import, plan>>
      /\ r.pc = "complete" /\ Persist(p, state, "idle")
  BY DEF Complete, dataVars, stillVars, budgetVars
<1>2. r.state.pending = NoPage
  BY <1>1, PassIs DEF PassFormed, BarePcs
<1>3. /\ Formed(state) /\ state.acked = r.state.acked /\ state.mode = "complete"
      /\ state.encoding = r.state.encoding /\ state.pending = NoPage
  BY <1>2, PassIs, FormedCompletes
<1> HIDE DEF state
<1>4. OverlapsLate => StateTrue(state, source, dest, truth, freeze)
  BY <1>1, <1>3, PassIs, NoPageIs DEF StateTrue, PassTrue
<1>5. /\ "idle" \in Pcs \ {"create", "reappeared", "legacyPersist", "legacyShards"}
      /\ "idle" \notin PagePcs \cup BarePcs \cup BytesPcs \cup OpenPcs \cup ReadPcs \cup VerifiedPcs
  BY DEF Pcs, PagePcs, BarePcs, BytesPcs, OpenPcs, ReadPcs, VerifiedPcs
<1>6. CASE FencePasses(r.gen)
  BY <1>1, <1>3, <1>4, <1>5, <1>6, PersistStep
<1> QED
  BY <1>1, <1>6, RejectedStep
-----------------------------------------------------------------------------
(* Writes to the shards.                                                    *)

(* Copies that change only to the truth, or before the freeze, falsify      *)
(* nothing a state says.                                                    *)
TruthWritten(dst) ==
  freeze = "frozen" => \A i \in Rows : dst[i] = dest[i] \/ (dst[i] = truth[i] /\ truth[i] # NoText)

LEMMA StateKeepsCopies ==
  ASSUME NEW state, Formed(state), freeze \in {"absent", "frozen"},
         StateTrue(state, source, dest, truth, freeze),
         NEW dst, TruthWritten(dst)
  PROVE  StateTrue(state, source, dst, truth, freeze)
<1>1. ASSUME NEW a \in state.acked PROVE dst[a[1]] = a[2]
  <2>1. a[1] \in Rows
    BY FormedIs
  <2>2. freeze = "frozen" /\ dest[a[1]] = a[2] /\ truth[a[1]] \in {a[2], NoText}
    BY DEF StateTrue
  <2> QED
    BY <2>1, <2>2 DEF TruthWritten
<1> QED
  BY <1>1 DEF StateTrue

LEMMA PassKeepsCopies ==
  ASSUME NEW q, PassFormed(q), freeze \in {"absent", "frozen"},
         PassTrue(q, source, dest, truth, freeze),
         NEW dst, TruthWritten(dst), freeze = "absent" => q.pc \notin VerifiedPcs
  PROVE  PassTrue(q, source, dst, truth, freeze)
<1>1. Formed(q.state) /\ StateTrue(q.state, source, dest, truth, freeze)
  BY DEF PassFormed, PassTrue
<1>2. StateTrue(q.state, source, dst, truth, freeze)
  BY <1>1, StateKeepsCopies
<1>3. ASSUME q.pc \in VerifiedPcs, NEW i \in Ids(q.state.pending) PROVE dst[i] = q.state.pending.rows[i]
  <2>1. freeze = "frozen" /\ q.state.encoding = "bytes" /\ i \in Rows
    BY <1>1, <1>3, FormedIs DEF PassFormed, VerifiedPcs, BytesPcs
  <2>2. dest[i] = q.state.pending.rows[i] /\ truth[i] \in {q.state.pending.rows[i], NoText}
    BY <1>1, <1>3, <2>1 DEF PassTrue, StateTrue
  <2> QED
    BY <2>1, <2>2 DEF TruthWritten
<1> QED
  BY <1>2, <1>3 DEF PassTrue

LEMMA CopiesStep ==
  ASSUME CopyInv, NEW p \in Passes, pass[p].pc \notin {"idle", "legacyPersist"} \cup VerifiedPcs,
         dest' \in [Rows -> Content], OverlapsLate => TruthWritten(dest'),
         OverlapsLate => DataTrue(source, dest', truth, freeze),
         NEW q \in PassRec, pass' = [pass EXCEPT ![p] = q], PassFormed(q),
         q.state = pass[p].state, q.gen = pass[p].gen, q.pc # "idle",
         OverlapsLate => PassTrue(q, source, dest', truth, freeze),
         UNCHANGED <<source, freeze, truth, checkpoint, unfenced, import, plan>>
  PROVE  CopyInv'
<1>1. /\ DOMAIN pass' = Passes /\ pass' = [x \in Passes |-> pass'[x]]
      /\ pass'[p] = q
      /\ \A x \in Passes \ {p} : pass'[x] = pass[x]
  BY PassBecomes DEF CopyInv, TypeInv
<1>2. InStep(q, checkpoint)
  BY StaysInStep DEF CopyInv
<1>3. TypeInv'
  BY <1>1 DEF CopyInv, TypeInv
<1>4. FenceInv'
  BY <1>1, <1>2 DEF CopyInv, FenceInv
<1>5. OverlapsLate' => TruthInv'
  <2> SUFFICES ASSUME OverlapsLate' PROVE TruthInv'
    OBVIOUS
  <2>1. OverlapsLate /\ TruthInv /\ TypeInv
    BY DEF OverlapsLate, CopyInv
  <2>2. AloneInv'
    BY <1>1, <2>1 DEF TruthInv, AloneInv
  <2>3. \A x \in Passes \ {p} : freeze = "absent" => pass[x].pc \notin VerifiedPcs
    BY <2>1 DEF TruthInv, AloneInv, VerifiedPcs
  <2>4. \A x \in Passes \ {p} : PassTrue(pass[x], source, dest', truth, freeze)
    <3> TAKE x \in Passes \ {p}
    <3>1. PassFormed(pass[x]) /\ PassTrue(pass[x], source, dest, truth, freeze) /\ freeze \in {"absent", "frozen"}
      BY <2>1 DEF TypeInv, TruthInv
    <3>2. TruthWritten(dest')
      BY <2>1
    <3> QED
      BY <2>3, <3>1, <3>2, PassKeepsCopies
  <2>5. \A x \in Passes : PassTrue(pass'[x], source, dest', truth, freeze)
    BY <1>1, <2>1, <2>4
  <2>6. /\ StateTrue(checkpoint.state, source, dest', truth, freeze)
        /\ StateTrue(unfenced, source, dest', truth, freeze)
        /\ StateTrue(import, source, dest', truth, freeze)
    <3>1. TruthWritten(dest') /\ freeze \in {"absent", "frozen"}
      BY <2>1 DEF TypeInv
    <3> QED
      BY <2>1, <3>1, StateKeepsCopies DEF TruthInv, TypeInv
  <2> QED
    BY SMTT(30), <2>1, <2>2, <2>5, <2>6 DEF TruthInv, DataTrue, StateTrue, PassTrue, Deletes
<1> QED
  BY <1>3, <1>4, <1>5 DEF CopyInv

(* The rows a request has done are no longer to do.                         *)
LEMMA RowsDoneIs ==
  ASSUME NEW p \in Passes, pass[p] \in PassRec, NEW ids, NEW pc \in Pcs, RowsDone(p, ids, pc)
  PROVE  \E q \in PassRec :
           /\ pass' = [pass EXCEPT ![p] = q]
           /\ q.pc \in {pc, pass[p].pc} /\ q.gen = pass[p].gen /\ q.state = pass[p].state
           /\ q.freeze = pass[p].freeze /\ q.rows = pass[p].rows /\ q.todo \subseteq pass[p].todo
<1> DEFINE left == pass[p].todo \ ids
           next == IF left = {} THEN pc ELSE pass[p].pc
           q == [pass[p] EXCEPT !.todo = left, !.pc = next]
<1>1. pass' = [pass EXCEPT ![p] = q]
  BY DEF RowsDone
<1>2. left \in SUBSET Rows /\ left \subseteq pass[p].todo /\ next \in Pcs /\ next \in {pc, pass[p].pc}
  BY DEF PassRec
<1> HIDE DEF left, next
<1>3. /\ q \in PassRec
      /\ q.pc = next /\ q.gen = pass[p].gen /\ q.state = pass[p].state
      /\ q.freeze = pass[p].freeze /\ q.rows = pass[p].rows /\ q.todo = left
  BY <1>2 DEF PassRec
<1> QED
  BY <1>1, <1>2, <1>3

LEMMA DiscardCopies ==
  ASSUME CopyInv, NEW p \in Passes, Discard(p)
  PROVE  CopyInv'
<1>1. /\ UNCHANGED <<source, freeze, truth, checkpoint, unfenced, import, plan>>
      /\ pass[p].pc = "discard" /\ RowsDone(p, NextShard(p), "forget")
      /\ dest' = [i \in Rows |-> IF i \in NextShard(p) THEN NoText ELSE dest[i]]
  BY DEF Discard, stillVars, budgetVars
<1>2. pass[p] \in PassRec /\ PassFormed(pass[p])
  BY PassIs
<1>3. PICK q \in PassRec :
        /\ pass' = [pass EXCEPT ![p] = q]
        /\ q.pc \in {"forget", "discard"} /\ q.gen = pass[p].gen /\ q.state = pass[p].state
        /\ q.freeze = pass[p].freeze /\ q.rows = pass[p].rows /\ q.todo \subseteq pass[p].todo
  BY <1>1, <1>2, RowsDoneIs DEF Pcs, PagePcs
<1>4. PassFormed(q)
  BY <1>1, <1>2, <1>3, FormedIs DEF PassFormed, PagePcs, BarePcs, BytesPcs, OpenPcs
<1>5. dest' \in [Rows -> Content]
  BY <1>1, NoTextIsNone DEF CopyInv, TypeInv
<1>6. ASSUME OverlapsLate
      PROVE  TruthWritten(dest') /\ DataTrue(source, dest', truth, freeze)
             /\ PassTrue(q, source, dest', truth, freeze)
  <2>1. PassTrue(pass[p], source, dest, truth, freeze) /\ freeze = "absent"
    BY <1>1, <1>6, PassIs DEF PassTrue
  <2>2. TruthWritten(dest')
    BY <2>1 DEF TruthWritten
  <2>3. DataTrue(source, dest', truth, freeze)
    BY <1>1, <1>6, <2>1 DEF CopyInv, TruthInv, DataTrue
  <2>4. PassTrue(q, source, dest, truth, freeze)
    BY <1>1, <1>3, <2>1 DEF PassTrue, ReadPcs, VerifiedPcs
  <2>5. PassTrue(q, source, dest', truth, freeze)
    BY <1>3, <1>4, <2>1, <2>2, <2>4, PassKeepsCopies DEF VerifiedPcs
  <2> QED
    BY <2>2, <2>3, <2>5
<1>7. pass[p].pc \notin {"idle", "legacyPersist"} \cup VerifiedPcs /\ q.pc # "idle"
  BY <1>1, <1>3 DEF VerifiedPcs
<1> QED
  BY <1>1, <1>3, <1>4, <1>5, <1>6, <1>7, CopiesStep

LEMMA WriteShardCopies ==
  ASSUME CopyInv, NEW p \in Passes, WriteShard(p)
  PROVE  CopyInv'
<1> DEFINE r == pass[p]
           pc == IF r.state.pending.phase = "recovering" THEN "repairedSource" ELSE "verifySource"
<1>1. PICK group \in Groups(NextShard(p)) :
        /\ dest' = [i \in Rows |-> IF i \in group THEN r.rows[i] ELSE dest[i]]
        /\ RowsDone(p, group, pc)
  BY DEF WriteShard
<1>2. /\ UNCHANGED <<source, freeze, truth, checkpoint, unfenced, import, plan>>
      /\ r.pc = "write"
  BY DEF WriteShard, stillVars, budgetVars
<1>3. r \in PassRec /\ PassFormed(r) /\ r.todo \subseteq DOMAIN r.rows /\ r.rows \in Partial(Texts)
  BY <1>2, PassIs DEF PassFormed, PassRec
<1>4. pc \in {"repairedSource", "verifySource"}
  OBVIOUS
<1> HIDE DEF pc
<1>5. \A i \in group : i \in DOMAIN r.rows /\ r.rows[i] \in Texts
  <2>1. group \subseteq r.todo
    BY DEF Groups, NextShard
  <2> QED
    BY <1>3, <2>1, PartialIs
<1>6. PICK q \in PassRec :
        /\ pass' = [pass EXCEPT ![p] = q]
        /\ q.pc \in {pc, "write"} /\ q.gen = r.gen /\ q.state = r.state
        /\ q.freeze = r.freeze /\ q.rows = r.rows /\ q.todo \subseteq r.todo
  <2>1. pc \in Pcs
    BY <1>4 DEF Pcs, PagePcs
  <2> QED
    BY <1>1, <1>2, <1>3, <2>1, RowsDoneIs
<1>7. PassFormed(q)
  BY <1>2, <1>3, <1>4, <1>6 DEF PassFormed, PagePcs, BarePcs, BytesPcs, OpenPcs
<1>8. dest' \in [Rows -> Content]
  BY <1>1, <1>5 DEF CopyInv, TypeInv, Content
<1>9. ASSUME OverlapsLate
      PROVE  TruthWritten(dest') /\ DataTrue(source, dest', truth, freeze)
             /\ PassTrue(q, source, dest', truth, freeze)
  <2>1. PassTrue(r, source, dest, truth, freeze) /\ freeze \in {"absent", "frozen"}
    BY <1>9, PassIs DEF CopyInv, TypeInv
  <2>2. freeze = "frozen" => \A i \in group : r.rows[i] = truth[i]
    BY <1>2, <1>5, <2>1 DEF PassTrue, ReadPcs
  <2>3. freeze = "frozen" => \A i \in group : truth[i] # NoText
    BY <1>5, <2>2, CopyAssumption
  <2>4. ~Deletes => \A i \in group : truth[i] # NoText
    BY <1>5, <2>1 DEF PassTrue
  <2>5. TruthWritten(dest')
    BY <1>1, <2>2, <2>3 DEF TruthWritten
  <2>6. DataTrue(source, dest', truth, freeze)
    BY <1>1, <1>9, <2>2, <2>3, <2>4 DEF CopyInv, TruthInv, DataTrue
  <2>7. PassTrue(q, source, dest, truth, freeze)
    BY <1>2, <1>4, <1>6, <2>1 DEF PassTrue, ReadPcs, VerifiedPcs
  <2>8. PassTrue(q, source, dest', truth, freeze)
    BY <1>4, <1>6, <1>7, <2>1, <2>5, <2>7, PassKeepsCopies DEF VerifiedPcs
  <2> QED
    BY <2>5, <2>6, <2>8
<1>10. r.pc \notin {"idle", "legacyPersist"} \cup VerifiedPcs /\ q.pc # "idle"
  BY <1>2, <1>4, <1>6 DEF VerifiedPcs
<1> QED
  BY <1>2, <1>6, <1>7, <1>8, <1>9, <1>10, CopiesStep
-----------------------------------------------------------------------------
(* The freeze, and the rows that the source gives up.                       *)

LEMMA StateKeepsRows ==
  ASSUME NEW state, NEW src, \A i \in Rows : src[i] \in {source[i], NoText},
         StateTrue(state, source, dest, truth, "frozen")
  PROVE  StateTrue(state, src, dest, truth, "frozen")
BY DEF StateTrue

LEMMA PassKeepsRows ==
  ASSUME NEW q, PassFormed(q), NEW src, \A i \in Rows : src[i] \in {source[i], NoText},
         PassTrue(q, source, dest, truth, "frozen")
  PROVE  PassTrue(q, src, dest, truth, "frozen")
<1>1. StateTrue(q.state, src, dest, truth, "frozen")
  BY StateKeepsRows DEF PassTrue
<1>2. Ids(q.state.pending) \subseteq Rows
  BY FormedIs DEF PassFormed
<1> QED
  BY <1>1, <1>2 DEF PassTrue

(* What the first version left is not known by its bytes: the freeze asks   *)
(* nothing of it.                                                           *)
LEMMA LegacyFreezes ==
  ASSUME NEW state, Formed(state), Legacy(state), StateTrue(state, source, dest, truth, "absent"), NEW src
  PROVE  StateTrue(state, src, dest, truth, "frozen")
<1>1. CASE state = NoState
  BY <1>1, IdleTrue
<1>2. CASE state.encoding = "legacy" /\ state.mode = "pending"
  BY <1>2 DEF StateTrue
<1> QED
  BY <1>1, <1>2 DEF Legacy

LEMMA FreezingStep ==
  ASSUME CopyInv, NEW p \in Passes, pass[p].pc \notin {"idle", "legacyPersist"},
         source' \in [Rows -> Content], \A i \in Rows : source'[i] \in {source[i], NoText},
         freeze' = "frozen",
         NEW q, pass' = [pass EXCEPT ![p] = q], PassFormed(q),
         q = IdlePass \/ (q.pc # "idle" /\ q.gen = pass[p].gen /\ q.state = pass[p].state),
         OverlapsLate => /\ DataTrue(source', dest, truth, "frozen")
                         /\ PassTrue(q, source', dest, truth, "frozen")
                         /\ freeze = "absent" => StateTrue(pass[p].state, source', dest, truth, "frozen"),
         UNCHANGED <<dest, truth, checkpoint, unfenced, import, plan>>
  PROVE  CopyInv'
<1>1. /\ DOMAIN pass' = Passes /\ pass' = [x \in Passes |-> pass'[x]]
      /\ pass'[p] = q
      /\ \A x \in Passes \ {p} : pass'[x] = pass[x]
  BY PassBecomes DEF CopyInv, TypeInv
<1>2. InStep(q, checkpoint)
  BY StaysInStep, IdleIs DEF CopyInv, InStep
<1>3. TypeInv'
  BY <1>1 DEF CopyInv, TypeInv
<1>4. FenceInv'
  BY <1>1, <1>2, IdleIs DEF CopyInv, TypeInv, FenceInv
<1>5. OverlapsLate' => TruthInv'
  <2> SUFFICES ASSUME OverlapsLate' PROVE TruthInv'
    OBVIOUS
  <2>1. OverlapsLate /\ TruthInv /\ TypeInv /\ FenceInv
    BY DEF OverlapsLate, CopyInv
  <2>2. AloneInv'
    BY DEF AloneInv
  <2>3. /\ \A x \in Passes \ {p} : PassTrue(pass[x], source', dest, truth, "frozen")
        /\ StateTrue(checkpoint.state, source', dest, truth, "frozen")
        /\ StateTrue(unfenced, source', dest, truth, "frozen")
        /\ StateTrue(import, source', dest, truth, "frozen")
    <3>1. CASE freeze = "frozen"
      <4>1. \A x \in Passes \ {p} : PassFormed(pass[x]) /\ PassTrue(pass[x], source, dest, truth, "frozen")
        BY <2>1, <3>1 DEF TypeInv, TruthInv
      <4>2. \A x \in Passes \ {p} : PassTrue(pass[x], source', dest, truth, "frozen")
        BY <4>1, PassKeepsRows
      <4>3. /\ StateTrue(checkpoint.state, source, dest, truth, "frozen")
            /\ StateTrue(unfenced, source, dest, truth, "frozen")
            /\ StateTrue(import, source, dest, truth, "frozen")
        BY <2>1, <3>1 DEF TruthInv
      <4> QED
        BY <4>2, <4>3, StateKeepsRows
    <3>2. CASE freeze = "absent"
      <4>1. \A x \in Passes \ {p} : pass[x] = IdlePass
        BY <2>1, <3>2 DEF TruthInv, AloneInv, TypeInv, PassFormed
      <4>2. checkpoint.state = pass[p].state
        BY <2>1, <3>2 DEF TruthInv, AloneInv, FenceInv, InStep
      <4>3. /\ StateTrue(unfenced, source, dest, truth, "absent") /\ Formed(unfenced) /\ Legacy(unfenced)
            /\ StateTrue(import, source, dest, truth, "absent") /\ Formed(import) /\ Legacy(import)
        BY <2>1, <3>2 DEF TruthInv, TypeInv
      <4>4. /\ StateTrue(unfenced, source', dest, truth, "frozen")
            /\ StateTrue(import, source', dest, truth, "frozen")
        BY <4>3, LegacyFreezes
      <4>5. \A x \in Passes \ {p} : PassTrue(pass[x], source', dest, truth, "frozen")
        BY <4>1, IdleTrue
      <4> QED
        BY <2>1, <3>2, <4>2, <4>4, <4>5
    <3> QED
      BY <2>1, <3>1, <3>2 DEF TypeInv
  <2>4. \A x \in Passes : PassTrue(pass'[x], source', dest, truth, "frozen")
    BY <1>1, <2>1, <2>3
  <2> QED
    BY SMTT(30), <2>1, <2>2, <2>3, <2>4 DEF TruthInv, DataTrue, StateTrue, PassTrue, Deletes
<1> QED
  BY <1>3, <1>4, <1>5 DEF CopyInv

LEMMA RetireCopies ==
  ASSUME CopyInv, NEW p \in Passes, Retire(p)
  PROVE  CopyInv'
<1> DEFINE r == pass[p]
           page == r.state.pending
<1>1. /\ UNCHANGED <<dest, truth, checkpoint, unfenced, import, plan>>
      /\ r.pc = "retire"
      /\ \/ /\ \A i \in Ids(page) : Retirable(i, page)
            /\ source' = [i \in Rows |-> IF i \in Ids(page) THEN NoText ELSE source[i]]
            /\ freeze' = "frozen" /\ Goto(p, "ack")
         \/ Fail(p) /\ UNCHANGED <<source, freeze>>
  BY DEF Retire, stillVars, budgetVars
<1>2. r \in PassRec /\ PassFormed(r) /\ Formed(r.state) /\ Ids(page) \subseteq Rows
  BY PassIs, FormedIs
<1>3. CASE Fail(p) /\ UNCHANGED <<source, freeze>>
  BY <1>1, <1>3, FailStep
<1>4. CASE /\ \A i \in Ids(page) : Retirable(i, page)
           /\ source' = [i \in Rows |-> IF i \in Ids(page) THEN NoText ELSE source[i]]
           /\ freeze' = "frozen" /\ Goto(p, "ack")
  <2>1. PICK q \in PassRec :
          /\ pass' = [pass EXCEPT ![p] = q]
          /\ q.pc = "ack" /\ q.gen = r.gen /\ q.state = r.state /\ q.freeze = r.freeze
          /\ q.rows = r.rows
    BY <1>4, GotoIs DEF CopyInv, Pcs, PagePcs
  <2>2. PassFormed(q)
    BY <1>1, <1>2, <2>1 DEF PassFormed, PagePcs, BarePcs, BytesPcs, OpenPcs
  <2>3. source' \in [Rows -> Content] /\ \A i \in Rows : source'[i] \in {source[i], NoText}
    BY <1>4, NoTextIsNone DEF CopyInv, TypeInv
  <2>4. ASSUME OverlapsLate
        PROVE  /\ DataTrue(source', dest, truth, "frozen")
               /\ PassTrue(q, source', dest, truth, "frozen")
               /\ StateTrue(r.state, source', dest, truth, "frozen")
    <3>1. /\ PassTrue(r, source, dest, truth, freeze) /\ StateTrue(r.state, source, dest, truth, freeze)
          /\ DataTrue(source, dest, truth, freeze) /\ freeze \in {"absent", "frozen"}
      BY <2>4, PassIs DEF CopyInv, TypeInv, TruthInv
    <3>2. \A i \in Ids(page) : dest[i] = page.rows[i] /\ source[i] \in {page.rows[i], NoText} /\ i \in Rows
      BY <1>1, <1>2, <1>4, <3>1 DEF PassTrue, VerifiedPcs, Retirable
    <3>3. DataTrue(source', dest, truth, "frozen")
      <4>1. \A i \in Rows : source[i] = truth[i] \/ (source[i] = NoText /\ dest[i] = truth[i])
        BY <3>1 DEF DataTrue
      <4>2. \A i \in Rows : source'[i] = truth[i] \/ (source'[i] = NoText /\ dest[i] = truth[i])
        BY <1>4, <3>2, <4>1
      <4> QED
        BY <3>1, <4>2 DEF DataTrue
    <3>4. \A i \in Ids(page) : truth[i] \in {page.rows[i], NoText}
      <4>1. CASE freeze = "absent"
        BY <3>1, <3>2, <4>1 DEF DataTrue
      <4>2. CASE freeze = "frozen"
        BY <1>1, <1>2, <3>1, <4>2 DEF StateTrue, PassFormed, BytesPcs
      <4> QED
        BY <3>1, <4>1, <4>2
    <3>5. StateTrue(r.state, source', dest, truth, "frozen")
      <4>1. r.state.mode # "complete"
        BY <1>1, <1>2, FormedIs DEF PassFormed, PagePcs
      <4> QED
        BY <3>1, <3>4, <4>1 DEF StateTrue
    <3>6. PassTrue(q, source', dest, truth, "frozen")
      BY <1>1, <2>1, <3>1, <3>2, <3>5 DEF PassTrue, ReadPcs, VerifiedPcs
    <3> QED
      BY <3>3, <3>5, <3>6
  <2> QED
    BY <1>1, <1>4, <2>1, <2>2, <2>3, <2>4, FreezingStep
<1> QED
  BY <1>1, <1>3, <1>4

LEMMA InstallFreezeCopies ==
  ASSUME CopyInv, NEW p \in Passes, InstallFreeze(p)
  PROVE  CopyInv'
<1> DEFINE r == pass[p]
<1>1. /\ UNCHANGED <<source, dest, truth, checkpoint, unfenced, import, plan>>
      /\ r.pc = "install"
      /\ \/ Installs /\ freeze' = "frozen" /\ Finished(p)
         \/ Fail(p) /\ UNCHANGED freeze
  BY DEF InstallFreeze, stillVars, budgetVars
<1>2. r \in PassRec /\ PassFormed(r) /\ Formed(r.state) /\ r.state.pending = NoPage
  BY <1>1, PassIs DEF PassFormed, BarePcs
<1>3. CASE Fail(p) /\ UNCHANGED freeze
  BY <1>1, <1>3, FailStep
<1>4. CASE Installs /\ freeze' = "frozen" /\ Finished(p)
  <2>1. \A i \in Rows : source[i] = NoText
    BY <1>4 DEF Installs, Present
  <2>2. PICK q :
          /\ pass' = [pass EXCEPT ![p] = q] /\ PassFormed(q)
          /\ \/ q = IdlePass
             \/ /\ q.pc = "complete" /\ q.gen = r.gen /\ q.state = r.state
                /\ q.freeze = r.freeze /\ q.rows = r.rows
    <3>1. CASE Fail(p)
      BY <3>1, IdleIs DEF Fail
    <3>2. CASE Goto(p, "complete")
      <4>1. PICK q \in PassRec :
              /\ pass' = [pass EXCEPT ![p] = q]
              /\ q.pc = "complete" /\ q.gen = r.gen /\ q.state = r.state /\ q.freeze = r.freeze
              /\ q.rows = r.rows
        BY <3>2, GotoIs DEF CopyInv, Pcs, BarePcs
      <4>2. PassFormed(q)
        BY <1>1, <1>2, <4>1 DEF PassFormed, PagePcs, BarePcs, BytesPcs, OpenPcs
      <4> QED
        BY <4>1, <4>2
    <3> QED
      BY <1>4, <3>1, <3>2 DEF Finished
  <2>3. ASSUME OverlapsLate
        PROVE  /\ DataTrue(source', dest, truth, "frozen")
               /\ PassTrue(q, source', dest, truth, "frozen")
               /\ StateTrue(r.state, source', dest, truth, "frozen")
    <3>1. /\ PassTrue(r, source, dest, truth, freeze) /\ StateTrue(r.state, source, dest, truth, freeze)
          /\ DataTrue(source, dest, truth, freeze) /\ freeze \in {"absent", "frozen"} /\ source' = source
      BY <1>1, <2>3, PassIs DEF CopyInv, TypeInv, TruthInv
    <3>2. DataTrue(source', dest, truth, "frozen")
      BY <3>1 DEF DataTrue
    <3>3. StateTrue(r.state, source', dest, truth, "frozen")
      BY <1>2, <2>1, <3>1, NoPageIs DEF StateTrue
    <3>4. PassTrue(q, source', dest, truth, "frozen")
      <4>1. CASE q = IdlePass
        BY <4>1, IdleTrue
      <4>2. CASE /\ q.pc = "complete" /\ q.gen = r.gen /\ q.state = r.state
                 /\ q.freeze = r.freeze /\ q.rows = r.rows
        BY <2>1, <3>1, <3>3, <4>2 DEF PassTrue, ReadPcs, VerifiedPcs
      <4> QED
        BY <2>2, <4>1, <4>2
    <3> QED
      BY <3>2, <3>3, <3>4
  <2>4. source' \in [Rows -> Content] /\ \A i \in Rows : source'[i] \in {source[i], NoText}
    BY <1>1 DEF CopyInv, TypeInv
  <2>5. q = IdlePass \/ (q.pc # "idle" /\ q.gen = r.gen /\ q.state = r.state)
    BY <2>2
  <2> QED
    BY <1>1, <1>4, <2>2, <2>3, <2>4, <2>5, FreezingStep
<1> QED
  BY <1>1, <1>3, <1>4
-----------------------------------------------------------------------------
(* The hub's late writes, and the checkpoint of the first version.          *)

(* Before the freeze a state says nothing of the contents of blocks.        *)
LEMMA StateKeepsLate ==
  ASSUME NEW state, Formed(state), StateTrue(state, source, dest, truth, "absent"),
         NEW src, NEW tru, ~Deletes => \A i \in Rows : truth[i] # NoText => tru[i] # NoText
  PROVE  StateTrue(state, src, dest, tru, "absent")
BY FormedIs DEF StateTrue

LEMMA PassKeepsLate ==
  ASSUME NEW q, PassFormed(q), PassTrue(q, source, dest, truth, "absent"),
         NEW src, NEW tru, ~Deletes => \A i \in Rows : truth[i] # NoText => tru[i] # NoText
  PROVE  PassTrue(q, src, dest, tru, "absent")
<1>1. StateTrue(q.state, src, dest, tru, "absent")
  BY StateKeepsLate DEF PassTrue, PassFormed
<1>2. DOMAIN q.rows \subseteq Rows
  BY PartialIs DEF PassFormed, PassRec
<1> QED
  BY <1>1, <1>2 DEF PassTrue

LEMMA LateWriteCopies ==
  ASSUME CopyInv, LateWrite
  PROVE  CopyInv'
<1>1. /\ UNCHANGED <<freeze, dest, checkpoint, unfenced, pass, import, plan>>
      /\ freeze = "absent"
  BY DEF LateWrite
<1>2. PICK i \in Rows, v \in Content :
        /\ v = NoText => Deletes \/ source[i] = NoText
        /\ source' = [source EXCEPT ![i] = v]
        /\ truth' = [truth EXCEPT ![i] = v]
  BY DEF LateWrite, Deletes
<1>3. /\ source' \in [Rows -> Content] /\ truth' \in [Rows -> Content]
  BY <1>2 DEF CopyInv, TypeInv
<1>4. TypeInv'
  BY <1>1, <1>3 DEF CopyInv, TypeInv
<1>5. FenceInv'
  BY <1>1 DEF CopyInv, FenceInv, InStep
<1>6. OverlapsLate' => TruthInv'
  <2> SUFFICES ASSUME OverlapsLate' PROVE TruthInv'
    OBVIOUS
  <2>1. OverlapsLate /\ TruthInv /\ TypeInv
    BY <1>1 DEF OverlapsLate, CopyInv
  <2>2. AloneInv'
    BY <1>1, <2>1 DEF TruthInv, AloneInv
  <2>3. source = truth
    BY <1>1, <2>1 DEF TruthInv, DataTrue
  <2>4. ~Deletes => \A j \in Rows : truth[j] # NoText => truth'[j] # NoText
    BY <1>2, <2>1, <2>3 DEF TypeInv
  <2>5. DataTrue(source', dest, truth', "absent")
    BY <1>1, <1>2, <2>1, <2>3, <2>4 DEF TruthInv, DataTrue
  <2>6. /\ StateTrue(checkpoint.state, source', dest, truth', "absent")
        /\ StateTrue(unfenced, source', dest, truth', "absent")
        /\ StateTrue(import, source', dest, truth', "absent")
    BY <1>1, <2>1, <2>4, StateKeepsLate DEF TruthInv, TypeInv
  <2>7. \A x \in Passes : PassTrue(pass[x], source', dest, truth', "absent")
    BY <1>1, <2>1, <2>4, PassKeepsLate DEF TruthInv, TypeInv
  <2> QED
    BY <1>1, <2>1, <2>2, <2>5, <2>6, <2>7 DEF TruthInv, DataTrue, StateTrue, PassTrue, Deletes
<1> QED
  BY <1>4, <1>5, <1>6 DEF CopyInv

LEMMA UnfencedWriteCopies ==
  ASSUME CopyInv, UnfencedWrite
  PROVE  CopyInv'
<1> DEFINE state == [unfenced EXCEPT !.pending.phase = "verified"]
<1>1. /\ UNCHANGED <<source, freeze, dest, truth, checkpoint, pass, import, plan>>
      /\ unfenced.pending.phase = "copying" /\ unfenced' = state
  BY DEF UnfencedWrite, dataVars, budgetVars
<1>2. Formed(unfenced) /\ Legacy(unfenced) /\ unfenced.pending # NoPage /\ unfenced # NoState
  BY <1>1, FreshIs, NoPageIs DEF CopyInv, TypeInv
<1>3. /\ Formed(state) /\ state.acked = unfenced.acked /\ state.mode = unfenced.mode
      /\ state.encoding = unfenced.encoding
      /\ state.pending.rows = unfenced.pending.rows
  BY <1>2, FormedVerified
<1> HIDE DEF state
<1>4. Legacy(state) /\ state # NoState
  BY <1>2, <1>3, FreshIs DEF Legacy
<1>5. TypeInv'
  BY <1>1, <1>3, <1>4 DEF CopyInv, TypeInv
<1>6. FenceInv'
  BY <1>1, <1>2 DEF CopyInv, FenceInv, InStep
<1>7. OverlapsLate' => TruthInv'
  <2> SUFFICES ASSUME OverlapsLate' PROVE TruthInv'
    OBVIOUS
  <2>1. OverlapsLate /\ TruthInv /\ TypeInv
    BY <1>1 DEF OverlapsLate, CopyInv
  <2>2. StateTrue(state, source, dest, truth, freeze)
    BY <1>3, <2>1 DEF TruthInv, StateTrue, Ids
  <2> QED
    BY <1>1, <2>1, <2>2 DEF TruthInv, AloneInv, DataTrue, StateTrue, PassTrue, Deletes
<1> QED
  BY <1>5, <1>6, <1>7 DEF CopyInv

LEMMA ImportReadCopies ==
  ASSUME CopyInv, ImportRead
  PROVE  CopyInv'
<1>1. /\ UNCHANGED <<source, freeze, dest, truth, checkpoint, unfenced, pass, plan>>
      /\ unfenced # NoState /\ import' = unfenced
  BY DEF ImportRead, dataVars, budgetVars
<1>2. TypeInv'
  BY <1>1 DEF CopyInv, TypeInv
<1>3. FenceInv'
  BY <1>1 DEF CopyInv, FenceInv, InStep
<1>4. OverlapsLate' => TruthInv'
  BY <1>1 DEF CopyInv, OverlapsLate, TruthInv, AloneInv, DataTrue, StateTrue, PassTrue, Deletes
<1> QED
  BY <1>2, <1>3, <1>4 DEF CopyInv

LEMMA ImportInsertCopies ==
  ASSUME CopyInv, ImportInsert
  PROVE  CopyInv'
<1>1. /\ UNCHANGED <<source, freeze, dest, truth, unfenced, pass, plan>>
      /\ import # NoState /\ import' = NoState
      /\ \/ UNCHANGED checkpoint
         \/ checkpoint.gen = 0 /\ unfenced = import /\ checkpoint' = [gen |-> 1, state |-> import]
  BY DEF ImportInsert, dataVars, budgetVars
<1>2. Formed(NoState) /\ Legacy(NoState)
  BY FreshIs DEF Legacy
<1>3. CASE UNCHANGED checkpoint
  <2>1. TypeInv'
    BY <1>1, <1>2, <1>3 DEF CopyInv, TypeInv
  <2>2. FenceInv'
    BY <1>1, <1>3 DEF CopyInv, FenceInv, InStep
  <2>3. OverlapsLate' => TruthInv'
    <3>1. StateTrue(NoState, source, dest, truth, freeze)
      BY IdleTrue
    <3> QED
      BY <1>1, <1>3, <3>1 DEF CopyInv, OverlapsLate, TruthInv, AloneInv, DataTrue, StateTrue, PassTrue, Deletes
  <2> QED
    BY <2>1, <2>2, <2>3 DEF CopyInv
<1>4. CASE checkpoint.gen = 0 /\ unfenced = import /\ checkpoint' = [gen |-> 1, state |-> import]
  <2>1. checkpoint'.gen = 1 /\ checkpoint'.state = import
    BY <1>4
  <2>2. \A x \in Passes : pass[x] = IdlePass /\ pass[x].pc = "idle" /\ pass[x].gen = 0
    <3> TAKE x \in Passes
    <3>1. PassFormed(pass[x]) /\ pass[x].gen <= 0 /\ pass[x].gen \in Nat
      BY <1>4 DEF CopyInv, TypeInv, FenceInv, PassFormed, PassRec
    <3>2. pass[x].pc = "idle"
      BY <1>1, <1>4, <3>1 DEF CopyInv, FenceInv
    <3> QED
      BY <3>1, <3>2, IdleIs DEF PassFormed
  <2>3. TypeInv'
    BY <1>1, <1>2, <1>4, <2>1 DEF CopyInv, TypeInv
  <2>4. FenceInv'
    BY <1>1, <2>1, <2>2 DEF FenceInv, InStep
  <2>5. OverlapsLate' => TruthInv'
    <3>1. StateTrue(NoState, source, dest, truth, freeze)
      BY IdleTrue
    <3>2. AloneInv'
      BY <1>1, <2>2 DEF AloneInv
    <3> QED
      BY <1>1, <2>1, <3>1, <3>2 DEF CopyInv, OverlapsLate, TruthInv, DataTrue, StateTrue, PassTrue, Deletes
  <2> QED
    BY <2>3, <2>4, <2>5 DEF CopyInv
<1> QED
  BY <1>1, <1>3, <1>4

-----------------------------------------------------------------------------
(* The invariant.                                                           *)

LEMMA FreshStarts ==
  ASSUME CopyInit, plan.start = "fresh"
  PROVE  CopyInv
<1>1. /\ truth \in [Rows -> Content] /\ source = truth /\ freeze = "absent" /\ dest = [i \in Rows |-> NoText]
      /\ unfenced = NoState /\ checkpoint = NoCheckpoint /\ pass = [p \in Passes |-> IdlePass]
      /\ import = NoState /\ plan \in Plans
  BY DEF CopyInit
<1>2. /\ checkpoint.gen = 0 /\ checkpoint.state = FreshState
      /\ checkpoint = [gen |-> checkpoint.gen, state |-> checkpoint.state]
  BY <1>1 DEF NoCheckpoint
<1>3. TypeInv
  BY <1>1, <1>2, FreshIs, IdleIs, NoTextIsNone DEF TypeInv, Legacy
<1>4. FenceInv
  BY <1>1, <1>2, IdleIs DEF FenceInv, InStep
<1>5. TruthInv
  <2>1. StateTrue(FreshState, source, dest, truth, freeze)
    BY FreshIs, NoPageIs DEF StateTrue
  <2>2. StateTrue(NoState, source, dest, truth, freeze) /\ PassTrue(IdlePass, source, dest, truth, freeze)
    BY IdleTrue
  <2>3. DataTrue(source, dest, truth, freeze)
    BY <1>1 DEF DataTrue
  <2> QED
    BY <1>1, <1>2, <2>1, <2>2, <2>3, IdleIs DEF TruthInv, AloneInv
<1> QED
  BY <1>3, <1>4, <1>5 DEF CopyInv

(* What the first version leaves says nothing that is not true.             *)
LEMMA LegacyStarts ==
  ASSUME CopyInit, plan.start # "fresh"
  PROVE  CopyInv
<1>1. /\ truth \in [Rows -> Texts]
      /\ checkpoint = NoCheckpoint /\ pass = [p \in Passes |-> IdlePass]
      /\ import = NoState /\ plan \in Plans
  BY DEF CopyInit
<1>2. PICK n \in {0} \cup Rows, phase \in {"none", "copying", "verified"}, deleted \in BOOLEAN :
        /\ phase # "none" => \E i \in Rows : n < i /\ i <= n + PageRows
        /\ deleted => phase = "verified"
        /\ LegacyStart(n, phase, deleted)
  BY DEF CopyInit
<1> DEFINE done == {i \in Rows : i <= n}
           page == {i \in Rows : n < i /\ i <= n + PageRows}
           gone == IF deleted THEN done \cup page ELSE done
           rows == [i \in page |-> Rendering[truth[i]]]
           pending == IF phase = "none" THEN NoPage ELSE Page(phase, rows)
           acked == {<<i, Rendering[truth[i]]>> : i \in done}
<1>3. PICK copied \in SUBSET page :
        /\ phase = "none" => copied = {}
        /\ phase = "verified" => copied = page
        /\ dest = [i \in Rows |-> IF i \in done \cup copied THEN Rendering[truth[i]] ELSE NoText]
  BY <1>2 DEF LegacyStart
<1>4. /\ source = [i \in Rows |-> IF i \in gone THEN NoText ELSE truth[i]]
      /\ freeze = IF gone = {} THEN "absent" ELSE "frozen"
      /\ unfenced = [mode |-> "pending", encoding |-> "legacy", acked |-> acked, pending |-> pending]
      /\ \A i \in gone : truth[i] = Rendering[truth[i]]
  BY <1>2 DEF LegacyStart
<1>5. \A i \in Rows : Rendering[truth[i]] \in Texts /\ truth[i] \in Texts /\ truth[i] # NoText
  BY <1>1, CopyAssumption
<1>6. /\ done \subseteq gone /\ gone \subseteq Rows /\ gone \subseteq done \cup copied
      /\ page \subseteq Rows
  BY <1>2, <1>3
<1>7. acked \subseteq Rows \X Texts
  BY <1>5
<1>8. rows \in Partial(Texts) /\ DOMAIN rows = page
  <2>1. rows \in [page -> Texts] /\ page \in SUBSET Rows
    BY <1>5
  <2> QED
    BY <2>1 DEF Partial
<1>9. /\ pending \in PageRec /\ Ids(pending) \subseteq page
      /\ \A i \in Ids(pending) : pending.rows[i] \in Texts
      /\ pending.phase # "recovering"
      /\ pending.phase = "none" <=> pending = NoPage
      /\ pending = NoPage <=> Ids(pending) = {}
  <2>1. CASE phase = "none"
    BY <2>1, NoPageIs
  <2>2. CASE phase # "none"
    <3> DEFINE pg == Page(phase, rows)
    <3>1. pg \in PageRec /\ pg.rows = rows /\ pg.phase = phase
      BY <1>8, NothingIs DEF Page, NoPage, PageRec
    <3>2. page # {} /\ pending = pg
      BY <1>2, <2>2
    <3> HIDE DEF pg
    <3>3. pg # NoPage /\ Ids(pg) = page
      BY <1>8, <2>2, <3>1, NoPageIs DEF Ids
    <3>4. \A i \in page : rows[i] \in Texts
      BY <1>5
    <3> QED
      BY <1>2, <2>2, <3>1, <3>2, <3>3, <3>4
  <2> QED
    BY <2>1, <2>2
<1>10. ASSUME NEW i \in page, NEW a \in acked PROVE a[1] < i
  <2>1. PICK j \in done : a = <<j, Rendering[truth[j]]>>
    OBVIOUS
  <2>2. a[1] = j /\ j \in Nat /\ i \in Nat /\ n \in Nat
    BY <2>1, CopyAssumption
  <2> QED
    BY <2>2
<1>11. \A a \in acked : a[1] \in done /\ a[2] = Rendering[truth[a[1]]]
  OBVIOUS
<1>12. acked # {} => done # {}
  OBVIOUS
<1>13. /\ unfenced.mode = "pending" /\ unfenced.encoding = "legacy"
       /\ unfenced.acked = acked /\ unfenced.pending = pending
  BY <1>4
<1>14. unfenced \in StateRec
  BY <1>4, <1>7, <1>9 DEF StateRec
<1>15. \A i \in Rows : i \in gone => source[i] = NoText
  BY <1>4
<1>16. \A i \in Rows : i \notin gone => source[i] = truth[i]
  BY <1>4
<1>17. \A i \in Rows : i \in done \cup copied => dest[i] = Rendering[truth[i]]
  BY <1>3
<1>18. \A i \in gone : truth[i] = Rendering[truth[i]]
  BY <1>4
<1>19. freeze = "absent" <=> gone = {}
  BY <1>4
<1>20. freeze \in {"absent", "frozen"}
  BY <1>4
<1>21. source \in [Rows -> Content] /\ dest \in [Rows -> Content] /\ truth \in [Rows -> Content]
  BY <1>1, <1>3, <1>4, <1>5 DEF Content
<1>22. done \subseteq Rows
  OBVIOUS
<1> HIDE DEF gone, done, page, rows, pending, acked
<1>23. Formed(unfenced) /\ Legacy(unfenced)
  <2>1. \A i \in Ids(pending) : i \in Ahead(unfenced)
    BY <1>6, <1>9, <1>10, <1>13 DEF Ahead
  <2>2. StateOk(unfenced)
    BY <1>6, <1>7, <1>9, <1>13, <2>1 DEF StateOk, PageType, PageRec
  <2> QED
    BY <1>9, <1>13, <1>14, <2>2 DEF Formed, Legacy
<1>24. TypeInv
  BY <1>1, <1>20, <1>21, <1>23, FreshIs, IdleIs DEF TypeInv, Legacy, NoCheckpoint
<1>25. FenceInv
  BY <1>1, IdleIs DEF FenceInv, InStep, NoCheckpoint
<1>26. StateTrue(unfenced, source, dest, truth, freeze)
  <2>1. unfenced.acked # {} => freeze = "frozen"
    BY <1>6, <1>12, <1>13, <1>19, <1>20
  <2>2. ASSUME NEW a \in unfenced.acked PROVE dest[a[1]] = a[2] /\ truth[a[1]] = a[2]
    <3>1. a[1] \in Rows /\ a[1] \in done /\ a[1] \in gone /\ a[2] = Rendering[truth[a[1]]]
      BY <1>6, <1>11, <1>13, <1>22, <2>2
    <3> QED
      BY <1>17, <1>18, <3>1
  <2>3. \A i \in Ids(unfenced.pending) : truth[i] # NoText
    BY <1>5, <1>6, <1>9, <1>13
  <2> QED
    BY <1>13, <2>1, <2>2, <2>3 DEF StateTrue
<1>27. DataTrue(source, dest, truth, freeze)
  <2>1. freeze = "absent" => source = truth
    <3> SUFFICES ASSUME freeze = "absent" PROVE source = truth
      OBVIOUS
    <3>1. \A i \in Rows : source[i] = truth[i]
      BY <1>16, <1>19
    <3> QED
      BY <1>21, <3>1
  <2>2. ASSUME NEW i \in Rows PROVE source[i] = truth[i] \/ (source[i] = NoText /\ dest[i] = truth[i])
    BY <1>6, <1>15, <1>16, <1>17, <1>18
  <2> QED
    BY <1>5, <2>1, <2>2 DEF DataTrue
<1>28. TruthInv
  <2>1. StateTrue(FreshState, source, dest, truth, freeze)
    BY FreshIs, NoPageIs DEF StateTrue
  <2>2. StateTrue(NoState, source, dest, truth, freeze) /\ PassTrue(IdlePass, source, dest, truth, freeze)
    BY IdleTrue
  <2> QED
    BY <1>1, <1>26, <1>27, <2>1, <2>2, IdleIs DEF TruthInv, AloneInv, NoCheckpoint
<1> QED
  BY <1>24, <1>25, <1>28 DEF CopyInv

LEMMA InitCopies == CopyInit => CopyInv
<1> QED
  BY FreshStarts, LegacyStarts

LEMMA StillCopies ==
  ASSUME CopyInv, UNCHANGED copyVars
  PROVE  CopyInv'
<1>1. UNCHANGED <<source, freeze, dest, truth, checkpoint, unfenced, import, pass, plan>>
  BY DEF copyVars, dataVars, budgetVars
<1>2. TypeInv' /\ FenceInv'
  BY <1>1 DEF CopyInv, TypeInv, FenceInv, InStep
<1>3. OverlapsLate' => TruthInv'
  BY <1>1 DEF CopyInv, OverlapsLate, TruthInv, AloneInv, DataTrue, StateTrue, PassTrue, Deletes
<1> QED
  BY <1>2, <1>3 DEF CopyInv

LEMMA AdvanceCopies ==
  ASSUME CopyInv, NEW p \in Passes, Advance(p)
  PROVE  CopyInv'
<1>1. CASE Start(p) \/ Reappeared(p) \/ Create(p) \/ EntryFreeze(p) \/ EntryCompare(p) \/ Discard(p) \/ Forget(p)
  BY <1>1, StartCopies, ReappearedCopies, CreateCopies, EntryFreezeCopies, EntryCompareCopies, DiscardCopies, ForgetCopies
<1>2. CASE MigrateEmpty(p) \/ MigrateFreeze(p) \/ MigrateSource(p) \/ MigrateShards(p) \/ MigratePersist(p)
  BY <1>2, MigrateEmptyCopies, MigrateFreezeCopies, MigrateSourceCopies, MigrateShardsCopies, MigratePersistCopies
<1>3. CASE Loop(p) \/ RepairSource(p) \/ RepairShards(p) \/ Reread(p) \/ WriteShard(p)
  BY <1>3, LoopCopies, RepairSourceCopies, RepairShardsCopies, RereadCopies, WriteShardCopies
<1>4. CASE VerifySource(p) \/ VerifyShards(p) \/ MarkVerified(p) \/ ReadFreeze(p) \/ Retire(p) \/ Acknowledge(p)
  BY <1>4, VerifySourceCopies, VerifyShardsCopies, MarkVerifiedCopies, ReadFreezeCopies, RetireCopies, AcknowledgeCopies
<1>5. CASE PlanPage(p) \/ Planned(p) \/ FreezeEmpty(p) \/ InstallFreeze(p) \/ Complete(p)
  BY <1>5, PlanPageCopies, PlannedCopies, FreezeEmptyCopies, InstallFreezeCopies, CompleteCopies
<1> QED
  BY <1>1, <1>2, <1>3, <1>4, <1>5 DEF Advance

LEMMA NextCopies ==
  ASSUME CopyInv, [CopyNext]_copyVars
  PROVE  CopyInv'
<1>1. ASSUME NEW p \in Passes, Advance(p) \/ Crash(p) PROVE CopyInv'
  BY <1>1, AdvanceCopies, CrashCopies
<1> QED
  BY <1>1, StillCopies, LateWriteCopies, UnfencedWriteCopies, ImportReadCopies, ImportInsertCopies DEF CopyNext

(* The invariant of a move of the index: the checkpoint, the source and the *)
(* shards agree, and every pass knows what it may do.                       *)
THEOREM CopyInvariant == CopySpec => []CopyInv
<1> QED
  BY InitCopies, NextCopies, PTL DEF CopySpec

(* Whatever dies and whatever is written late, each block the hub wrote is  *)
(* in the main database or, to the byte, in its shard.                      *)
THEOREM NoBlockIsLost == CopySpec => []NothingLost
<1>1. CopyInv => NothingLost
  <2> SUFFICES ASSUME CopyInv, OverlapsLate, NEW i \in Present(truth)
      PROVE  source[i] = truth[i] \/ (source[i] = NoText /\ dest[i] = truth[i])
    BY DEF NothingLost
  <2>1. DataTrue(source, dest, truth, freeze) /\ i \in Rows /\ freeze \in {"absent", "frozen"}
    BY DEF CopyInv, TypeInv, TruthInv, Present
  <2> QED
    BY <2>1 DEF DataTrue
<1> QED
  BY <1>1, CopyInvariant, PTL

(* Every checkpoint passes the validation that reads it back, and one that  *)
(* says complete describes the shards exactly.                              *)
THEOREM CopyStaysSound == CopySpec => []CopyIsSound
<1>1. CopyInv => CopyTypeOK
  <2> SUFFICES ASSUME CopyInv PROVE CopyTypeOK
    OBVIOUS
  <2>1. \A p \in Passes : pass[p].gen \in 0..checkpoint.gen
    BY DEF CopyInv, TypeInv, FenceInv, PassFormed, PassRec
  <2> QED
    BY <2>1 DEF CopyInv, TypeInv, Formed, CopyTypeOK
<1>2. CopyInv => CompleteIsExact
  <2> SUFFICES ASSUME CopyInv, OverlapsLate, checkpoint.state.mode = "complete"
      PROVE  /\ Present(source) = {} /\ freeze = "frozen"
             /\ "delete" \notin plan.writes => dest = truth
             /\ \A a \in checkpoint.state.acked : dest[a[1]] = a[2]
    BY DEF CompleteIsExact
  <2>1. /\ freeze = "frozen"
        /\ \A i \in Rows : source[i] = NoText
        /\ \A a \in checkpoint.state.acked : dest[a[1]] = a[2]
    BY DEF CopyInv, TruthInv, StateTrue
  <2>2. ASSUME "delete" \notin plan.writes PROVE dest = truth
    <3>1. \A i \in Rows : dest[i] = truth[i]
      BY <2>1, <2>2 DEF CopyInv, TruthInv, DataTrue, Deletes
    <3> QED
      BY <3>1 DEF CopyInv, TypeInv
  <2> QED
    BY <2>1, <2>2 DEF Present
<1> QED
  BY <1>1, <1>2, CopyInvariant, PTL DEF CopyIsSound

-----------------------------------------------------------------------------
(* Nothing goes back.                                                       *)

Onwards ==
  /\ checkpoint.state.acked \subseteq checkpoint'.state.acked
  /\ checkpoint.gen <= checkpoint'.gen
  /\ checkpoint.state.mode = "complete" => checkpoint'.state.mode = "complete"
  /\ freeze = "frozen" => freeze' = "frozen"

LEMMA StillOnwards ==
  ASSUME TypeInv, UNCHANGED checkpoint, UNCHANGED freeze \/ freeze' = "frozen"
  PROVE  Onwards
BY DEF TypeInv, Onwards

(* A checkpoint is replaced only by a pass that knows it.                   *)
LEMMA PersistsOnwards ==
  ASSUME CopyInv, NEW p \in Passes, pass[p].pc # "idle", UNCHANGED freeze,
         NEW state, NEW pc, Persist(p, state, pc),
         pass[p].state.acked \subseteq state.acked,
         pass[p].state.mode = "complete" => state.mode = "complete"
  PROVE  Onwards
<1>1. CASE FencePasses(pass[p].gen)
  <2>1. checkpoint'.gen = pass[p].gen + 1 /\ checkpoint'.state = state
    BY <1>1 DEF Persist
  <2>2. checkpoint.gen = pass[p].gen /\ checkpoint.gen \in Nat
    BY <1>1 DEF FencePasses, CopyInv, TypeInv
  <2>3. pass[p].state.acked = checkpoint.state.acked /\ pass[p].state.mode = checkpoint.state.mode
    BY <2>2 DEF CopyInv, FenceInv, InStep
  <2> QED
    BY <2>1, <2>2, <2>3 DEF Onwards
<1>2. CASE ~FencePasses(pass[p].gen)
  BY <1>2, StillOnwards DEF Persist, CopyInv
<1> QED
  BY <1>1, <1>2

LEMMA AdvanceOnwards ==
  ASSUME CopyInv, NEW p \in Passes, Advance(p)
  PROVE  Onwards
<1> DEFINE state == pass[p].state
<1>1. Formed(state) /\ state \in StateRec /\ TypeInv
  BY DEF CopyInv, TypeInv, PassFormed, Formed
<1>2. CASE Create(p)
  <2>1. pass[p].pc = "create" /\ Persist(p, FreshState, "loop") /\ UNCHANGED freeze
    BY <1>2 DEF Create, dataVars
  <2>2. CASE FencePasses(pass[p].gen)
    <3>1. checkpoint.gen = 0
      BY <2>1, <2>2 DEF FencePasses, CopyInv, TypeInv, PassFormed
    <3>2. checkpoint.state = FreshState /\ checkpoint'.gen = checkpoint.gen + 1 /\ checkpoint'.state = FreshState
      BY <2>1, <2>2, <3>1 DEF CopyInv, FenceInv, Persist, FencePasses
    <3> QED
      BY <2>1, <3>1, <3>2 DEF Onwards
  <2>3. CASE ~FencePasses(pass[p].gen)
    BY <1>1, <2>1, <2>3, StillOnwards DEF Persist
  <2> QED
    BY <2>2, <2>3
<1>3. CASE Forget(p)
  <2>1. /\ pass[p].pc = "forget" /\ UNCHANGED freeze
        /\ Persist(p, [state EXCEPT !.pending = NoPage], "loop")
    BY <1>3 DEF Forget, dataVars
  <2> QED
    BY <1>1, <2>1, FormedForgets, PersistsOnwards
<1>4. CASE MigrateEmpty(p)
  <2>1. /\ pass[p].pc = "migrate" /\ UNCHANGED freeze
        /\ Persist(p, [state EXCEPT !.encoding = "bytes"], "loop")
    BY <1>4 DEF MigrateEmpty, dataVars
  <2> QED
    BY <1>1, <2>1, FormedBytes, PersistsOnwards
<1>5. CASE MigratePersist(p)
  <2>1. pass[p].pc = "legacyPersist" /\ UNCHANGED freeze /\ Persist(p, state, "loop")
    BY <1>5 DEF MigratePersist, dataVars
  <2> QED
    BY <2>1, PersistsOnwards
<1>6. CASE MarkVerified(p)
  <2> DEFINE pc == IF pass[p].pc = "mark" THEN "frozen" ELSE "verifySource"
             st == [state EXCEPT !.pending.phase = "verified"]
  <2>1. /\ pass[p].pc \in {"mark", "repaired"} /\ UNCHANGED freeze /\ Persist(p, st, pc)
    BY <1>6 DEF MarkVerified, dataVars
  <2>2. st.acked = state.acked /\ st.mode = state.mode
    BY <1>1, <2>1, FormedVerified DEF TypeInv, PassFormed, PagePcs
  <2> HIDE DEF pc, st
  <2> QED
    BY <2>1, <2>2, PersistsOnwards
<1>7. CASE Acknowledge(p)
  <2>1. pass[p].pc = "ack" /\ UNCHANGED freeze /\ Persist(p, Acked(state), "loop")
    BY <1>7 DEF Acknowledge, dataVars
  <2>2. state.acked \subseteq Acked(state).acked /\ Acked(state).mode = state.mode
    BY <1>1, FormedAcks
  <2> QED
    BY <2>1, <2>2, PersistsOnwards
<1>8. CASE Planned(p)
  <2> DEFINE st == [state EXCEPT !.pending = Page("copying", pass[p].rows)]
  <2>1. pass[p].pc = "planned" /\ UNCHANGED freeze /\ Persist(p, st, "loop")
    BY <1>8 DEF Planned, dataVars
  <2>2. st.acked = state.acked /\ st.mode = state.mode
    BY <1>1 DEF StateRec
  <2> HIDE DEF st
  <2> QED
    BY <2>1, <2>2, PersistsOnwards
<1>9. CASE Complete(p)
  <2> DEFINE st == [state EXCEPT !.mode = "complete"]
  <2>1. pass[p].pc = "complete" /\ UNCHANGED freeze /\ Persist(p, st, "idle")
    BY <1>9 DEF Complete, dataVars
  <2>2. st.acked = state.acked /\ st.mode = "complete"
    BY <1>1 DEF StateRec
  <2> HIDE DEF st
  <2> QED
    BY <2>1, <2>2, PersistsOnwards
<1>10. CASE Retire(p)
  BY <1>1, <1>10, StillOnwards DEF Retire
<1>11. CASE InstallFreeze(p)
  BY <1>1, <1>11, StillOnwards DEF InstallFreeze
<1>12. CASE Start(p) \/ Reappeared(p) \/ EntryFreeze(p) \/ EntryCompare(p) \/ Discard(p)
  BY <1>1, <1>12, StillOnwards DEF Start, Reappeared, EntryFreeze, EntryCompare, Discard, dataVars
<1>13. CASE MigrateFreeze(p) \/ MigrateSource(p) \/ MigrateShards(p)
  BY <1>1, <1>13, StillOnwards DEF MigrateFreeze, MigrateSource, MigrateShards, dataVars
<1>14. CASE Loop(p) \/ RepairSource(p) \/ RepairShards(p) \/ Reread(p) \/ WriteShard(p)
  BY <1>1, <1>14, StillOnwards DEF Loop, RepairSource, RepairShards, Reread, WriteShard, dataVars
<1>15. CASE VerifySource(p) \/ VerifyShards(p) \/ ReadFreeze(p) \/ PlanPage(p) \/ FreezeEmpty(p)
  BY <1>1, <1>15, StillOnwards DEF VerifySource, VerifyShards, ReadFreeze, PlanPage, FreezeEmpty, dataVars
<1> QED
  BY <1>2, <1>3, <1>4, <1>5, <1>6, <1>7, <1>8, <1>9, <1>10, <1>11, <1>12, <1>13, <1>14, <1>15 DEF Advance

LEMMA NextOnwards ==
  ASSUME CopyInv, [CopyNext]_copyVars
  PROVE  [Onwards]_copyVars
<1>1. TypeInv
  BY DEF CopyInv
<1>2. CASE ImportInsert
  <2>1. CASE UNCHANGED checkpoint
    BY <1>1, <1>2, <2>1, StillOnwards DEF ImportInsert, dataVars
  <2>2. CASE checkpoint.gen = 0 /\ checkpoint' = [gen |-> 1, state |-> import]
    <3>1. checkpoint.state.acked = {} /\ checkpoint.state.mode # "complete"
      BY <2>2, FreshIs DEF CopyInv, FenceInv
    <3> QED
      BY <1>2, <2>2, <3>1 DEF Onwards, ImportInsert, dataVars
  <2> QED
    BY <1>2, <2>1, <2>2 DEF ImportInsert
<1>3. CASE LateWrite \/ UnfencedWrite \/ ImportRead
  BY <1>1, <1>3, StillOnwards DEF LateWrite, UnfencedWrite, ImportRead, dataVars
<1>4. ASSUME NEW p \in Passes, Crash(p) PROVE Onwards
  BY <1>1, <1>4, StillOnwards DEF Crash, dataVars
<1> QED
  BY <1>2, <1>3, <1>4, AdvanceOnwards DEF CopyNext

(* Acknowledged blocks, the freeze and completion are final: no delayed     *)
(* pass takes a newer checkpoint back.                                      *)
THEOREM CheckpointsGoForward == CopySpec => AcknowledgedIsFinal
<1>1. CopyInv /\ [CopyNext]_copyVars => [Onwards]_copyVars
  BY NextOnwards
<1> QED
  BY <1>1, CopyInvariant, PTL DEF CopySpec, AcknowledgedIsFinal, Onwards
=============================================================================
