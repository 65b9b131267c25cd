--------------------------- MODULE CatalogReplica ---------------------------
(***************************************************************************)
(* What the catalog propagation promises, with no syncs, drains or outbox  *)
(* entries: a shard's copy of a session only ever moves forward, a copy at *)
(* main's version is main's copy, and a session stops being owed to the    *)
(* shards only when every shard holds what main holds.  A search is served *)
(* only when nothing is owed.                                              *)
(***************************************************************************)
EXTENDS Naturals

CONSTANTS Sessions, Shards, Copies, NoCopy

VARIABLES main,   \* the authoritative copy of each session
          shard,  \* shard[k][s]: a shard's copy
          owed    \* the sessions some shard may not yet hold as main does

vars == <<main, shard, owed>>

Init ==
  /\ main = [s \in Sessions |-> NoCopy]
  /\ shard = [k \in Shards |-> [s \in Sessions |-> NoCopy]]
  /\ owed = {}

(* Main commits a new version and owes it to every shard. *)
Change(s) ==
  /\ main' \in [Sessions -> Copies]
  /\ main'[s].version > main[s].version
  /\ \A other \in Sessions \ {s} : main'[other] = main[other]
  /\ owed' = owed \cup {s}
  /\ UNCHANGED shard

(* One shard takes newer copies of some sessions, none ahead of main.       *)
Advance(k) ==
  /\ shard' \in [Shards -> [Sessions -> Copies]]
  /\ \A other \in Shards \ {k} : shard'[other] = shard[other]
  /\ \A s \in Sessions : LET new == shard'[k][s] IN new # shard[k][s] =>
       /\ shard[k][s].version < new.version
       /\ new.version <= main[s].version
       /\ new.version = main[s].version => new = main[s]
  /\ UNCHANGED <<main, owed>>

(* Sessions every shard holds as main does are owed no longer. *)
Settle(S) ==
  /\ \A s \in S, k \in Shards : shard[k][s] = main[s]
  /\ owed' = owed \ S
  /\ UNCHANGED <<main, shard>>

Next ==
  \/ \E s \in Sessions : Change(s)
  \/ \E k \in Shards : Advance(k)
  \/ \E S \in SUBSET Sessions : Settle(S)

Spec == Init /\ [][Next]_vars
=============================================================================
