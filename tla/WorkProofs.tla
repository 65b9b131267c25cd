----------------------------- MODULE WorkProofs -----------------------------
(***************************************************************************)
(* Proofs about what a collector and the hub exchange about its files.     *)
(*                                                                         *)
(* Collector: a row that lets a file pass is right, assets follow their    *)
(* transcripts, and a backfill that reports success has sent what did not  *)
(* change, for any files, contents, passes, hubs and faults.               *)
(*                                                                         *)
(* Multipart: the raw object is one version of its file, a path at rest    *)
(* agrees with its row and its session, and what was said to be stored is  *)
(* there, for any versions, uploads in flight, carried file and faults.    *)
(***************************************************************************)
EXTENDS Collector, Multipart, FiniteSetTheorems, SequenceTheorems, TLAPS

-----------------------------------------------------------------------------
(* Collector.                                                               *)
PassFields == {"pc", "mode", "todo", "bad", "seen", "chunk", "hashed", "there", "missing", "bodies", "unsent", "landing",
               "parents", "item", "answered", "owner", "assets", "found", "changed", "whole", "failed"}

ItemFields == {"path", "size", "mtime", "sha", "snapshot"}

PassPcs == {"idle", "scan", "look", "send", "record", "assets", "snapshot", "hash", "present", "count", "large", "land",
            "parents", "done"}

(* Where a file is in hand.                                                 *)
Sending == {"send", "record"}

Handling == {"look", "send", "record"}

(* A sequence, of whatever it is.                                           *)
Listing(s) == s \in Seq(Range(s))

Versions(versions) == Listing(versions) /\ \A c \in Range(versions) : c # <<>> /\ Listing(c)

TourTrue ==
  /\ DOMAIN tour = {"versions", "modes", "hubs", "faults", "purge"}
  /\ DOMAIN tour.versions = Files /\ \A p \in Files : Versions(tour.versions[p])
  /\ tour.modes \in Seq(Modes) /\ tour.hubs \in Seq(Hubs) /\ tour.hubs # <<>>
  /\ tour.purge \cap Images = {}
  /\ "die" \in tour.faults => \A p \in Files : NeverReturns(tour.versions[p])

DiskTrue == disk \in [Files -> Nat] /\ \A p \in Files : disk[p] <= Len(tour.versions[p])

RowTyped(row) ==
  /\ DOMAIN row = {"size", "mtime", "sha", "status"} /\ row.size \in Int /\ row.mtime \in Int
  /\ row.status \in {"none", "ok", "error", "pending"} /\ (row.status = "none" => row = None)

StoresTrue ==
  /\ DOMAIN rows = Files /\ \A p \in Files : RowTyped(rows[p])
  /\ known \in Hubs /\ DOMAIN holds = Hubs /\ \A h \in Hubs : DOMAIN holds[h] = Files

-----------------------------------------------------------------------------
(* The lists of a pass: no path twice, and each list in its phases.         *)
Paths(s) == {i.path : i \in Range(s)}

Once(s) == Listing(s) /\ \A j, k \in DOMAIN s : s[j] = s[k] => j = k

OncePath(s) == Listing(s) /\ \A j, k \in DOMAIN s : s[j].path = s[k].path => j = k

ListsTrue ==
  /\ Once(pass.todo) /\ Range(pass.todo) \subseteq Range(Owners)
  /\ OncePath(pass.chunk) /\ OncePath(pass.hashed) /\ OncePath(pass.missing) /\ OncePath(pass.bodies)
  /\ Paths(pass.chunk) \cup Paths(pass.hashed) \cup Paths(pass.missing) \cup Paths(pass.bodies) \subseteq Range(Owners)
  /\ Range(pass.todo) \cap Paths(pass.chunk) = {} /\ Paths(pass.chunk) \cap Paths(pass.hashed) = {}
  /\ Paths(pass.hashed) \cap Paths(pass.missing) = {} /\ Paths(pass.missing) \cap Paths(pass.bodies) = {}
  /\ Listing(pass.parents) /\ Listing(pass.assets)
  /\ pass.unsent \subseteq Paths(pass.bodies)
  /\ pass.pc \in Handling => pass.item.path \in (IF pass.owner = NoItem THEN Range(Owners) ELSE Images)
  /\ pass.pc \in Sending => pass.item.path \notin Paths(pass.missing) \cup Paths(pass.bodies)

PhasesTrue ==
  /\ DOMAIN pass = PassFields /\ pass.pc \in PassPcs /\ pass.mode \in Modes
  /\ pass.bad \in BOOLEAN /\ pass.landing \in BOOLEAN /\ pass.answered \in BOOLEAN
  /\ pass.changed \in BOOLEAN /\ pass.whole \in BOOLEAN /\ pass.failed \in BOOLEAN
  /\ pass.chunk # <<>> => pass.pc \in {"scan", "hash"} /\ pass.mode # "run"
  /\ pass.hashed # <<>> => pass.pc \in {"hash", "present"} /\ pass.mode # "run"
  /\ pass.missing # <<>> => pass.pc \in {"present", "large"} \cup Sending /\ ~pass.landing /\ pass.owner = NoItem /\ pass.mode # "run"
  /\ pass.bodies # <<>> => pass.pc \in {"large", "land"} \cup Sending /\ pass.owner = NoItem /\ pass.mode # "run"
  /\ pass.parents # <<>> => pass.pc \notin {"idle", "scan", "hash", "done"} /\ pass.mode # "run"
  /\ pass.unsent # {} => ~pass.landing
  /\ pass.landing => pass.pc \notin {"idle", "scan", "hash", "present", "count", "large", "done"} /\ pass.mode # "run"
  /\ pass.pc = "land" => pass.landing
  /\ pass.pc # "present" /\ ~pass.landing => pass.there \subseteq Paths(pass.bodies)
  /\ pass.pc \in {"assets", "snapshot"} => pass.owner # NoItem
  /\ pass.pc \in {"idle", "scan", "hash", "present", "count", "large", "land", "parents", "done"} => pass.owner = NoItem
  /\ pass.mode = "run" => pass.pc \notin {"hash", "present", "count", "large", "land", "parents"}
  /\ pass.mode = "dry" => pass.pc \in {"idle", "scan", "hash", "present", "count", "done"}
  /\ pass.pc = "count" => pass.mode = "dry"
  /\ pass.mode = "dry" => pass.missing = <<>>
  /\ pass.pc = "look" /\ pass.mode # "run" => pass.owner # NoItem
  /\ pass.owner = NoItem => pass.assets = <<>>
  /\ pass.pc = "done" => pass.todo = <<>>
  /\ pass.owner # NoItem \/ pass.pc = "parents" => pass.there = {}

-----------------------------------------------------------------------------
(* What is in hand, of a file with these versions, at version d by now and  *)
(* at version s when the pass saw it.                                       *)
Since(i, s) == IF i.path \in Images THEN i.mtime ELSE s

(* The file is or may again be what has this hash.                          *)
RecursIn(sha, versions, d) == \E k \in d..Len(versions) : sha = versions[k]

LookedAt(i, versions, d, s, row) ==
  /\ DOMAIN i = ItemFields /\ i.path \in Files
  /\ Since(i, s) \in 1..d /\ s <= Since(i, s)
  /\ i.size = Len(versions[Since(i, s)])
  /\ i.snapshot = (i.path \in Databases \cup Images)
  /\ i.mtime = (IF i.path \in Databases THEN 0 ELSE Since(i, s))
  /\ i.snapshot => i.sha = versions[Since(i, s)]
  /\ row.status = "ok" /\ NeverReturns(versions) /\ RecursIn(row.sha, versions, d) => Since(i, s) = d

HasReadAt(i, versions, d, s) == \E r \in Since(i, s)..d : i.sha = Prefix(versions[r], i.size)

Looked(i) == LookedAt(i, tour.versions[i.path], disk[i.path], pass.seen[i.path], rows[i.path])

HasRead(i) == HasReadAt(i, tour.versions[i.path], disk[i.path], pass.seen[i.path])

ReadItems == Range(pass.hashed) \cup Range(pass.missing) \cup Range(pass.bodies)
             \cup (IF pass.pc \in Sending THEN {pass.item} ELSE {})

Items == ReadItems \cup Range(pass.chunk) \cup (IF pass.pc \in Handling THEN {pass.item} ELSE {})

HandTrue ==
  /\ pass.pc # "idle" => pass.seen \in [Files -> Nat] /\ \A p \in Files : pass.seen[p] <= disk[p]
  /\ \A i \in Items : Looked(i)
  /\ \A i \in ReadItems : HasRead(i)

(* What the hub answered is so.                                             *)
Acked == IF pass.pc = "present" THEN Range(pass.hashed) ELSE Range(pass.bodies)

AnswersTrue ==
  /\ pass.pc = "record" /\ pass.answered => holds[known][pass.item.path] = pass.item.sha
  /\ \A i \in Acked : i.path \in pass.there => holds[known][i.path] = i.sha

(* Files that are on their way may be at the hub already.                   *)
Unsure == Paths(pass.bodies) \cup (IF pass.pc \in Sending THEN {pass.item.path} ELSE {})

RowTrueAt(p, versions, d, row, held, purged, unsure) ==
  row.status = "ok" =>
    /\ d > 0
    /\ p \notin Databases \cup Images => row.mtime <= d /\ (row.mtime = d => row.sha = versions[d])
    /\ NeverReturns(versions) /\ RecursIn(row.sha, versions, d) => row.sha = versions[d]
    /\ ~purged => /\ held # <<>>
                  /\ (NeverReturns(versions) \/ ~unsure) /\ RecursIn(row.sha, versions, d) => held = row.sha

RowTrue(p) == RowTrueAt(p, tour.versions[p], disk[p], rows[p], holds[known][p], p \in tour.purge, p \in Unsure)

RowsTrue == \A p \in Files : RowTrue(p)

(* A transcript is at the hub when its assets are looked for.               *)
Offered(p) == p \in Range(Owners) /\ (p \in tour.purge \/ holds[known][p] # <<>>)

Mentions(p, a) == \E v \in Range(tour.versions[p]) : a \in Range(v)

OwnersTrue ==
  /\ \A i \in Range(pass.parents) : i.size # 0 /\ i.snapshot = FALSE /\ (pass.mode # "dry" => Offered(i.path))
  /\ pass.owner # NoItem => Offered(pass.owner.path)
  /\ \A a \in Range(pass.assets) : a \in Images /\ disk[a] # 0 /\ Mentions(pass.owner.path, a)
  /\ pass.pc \in Handling /\ pass.owner # NoItem => Mentions(pass.owner.path, pass.item.path)

(* What a backfill that has met no failure still has to do, or has done.    *)
Same(p) == disk[p] # 0 /\ disk[p] = pass.seen[p]

InHand == Range(pass.todo) \cup Paths(pass.chunk) \cup Paths(pass.hashed) \cup Paths(pass.missing) \cup Unsure

AtWork == pass.pc \in Handling \cup {"snapshot"}

AssetOwed(p, a) ==
  \/ pass.owner.path = p /\ AtWork /\ a \in Range(pass.assets) /\ pass.found[a] = Content(a)
  \/ pass.owner.path = p /\ pass.pc \in Handling /\ pass.item.path = a

(* A file is at the hub, and an asset of a transcript is.                   *)
FileSent(p) == p \in InHand \/ holds[known][p] = Content(p)

AssetsSent(p) ==
  \/ p \in InHand \cup Paths(pass.parents) \/ (pass.pc = "assets" /\ pass.owner.path = p)
  \/ \A a \in References(p) : Same(a) => AssetOwed(p, a) \/ holds[known][a] = Content(a)

BackfillTrue ==
  pass.mode = "backfill" /\ ~pass.bad /\ pass.pc # "idle" =>
    /\ pass.owner # NoItem => ~pass.owner.snapshot /\ pass.changed
    /\ \A p \in Range(Owners) : Same(p) => FileSent(p) /\ (p \notin Databases => AssetsSent(p))

CInv ==
  /\ TourTrue /\ DiskTrue /\ StoresTrue /\ ListsTrue /\ PhasesTrue /\ HandTrue /\ AnswersTrue /\ RowsTrue
  /\ AssetsFollow /\ OwnersTrue /\ BackfillTrue

-----------------------------------------------------------------------------
(* Lists                                                                    *)

(* What a list is.                                                          *)
LEMMA ListingIs ==
  ASSUME NEW s, Listing(s)
  PROVE  /\ Len(s) \in Nat /\ DOMAIN s = 1..Len(s) /\ \A k \in 1..Len(s) : s[k] \in Range(s)
         /\ (s = <<>>) = (Len(s) = 0)
BY DEF Listing, Range

(* Any sequence is a listing.                                               *)
LEMMA SequenceLists ==
  ASSUME NEW S, NEW s \in Seq(S)
  PROVE  Listing(s)
<1>1. Len(s) \in Nat /\ DOMAIN s = 1..Len(s) /\ s = [k \in 1..Len(s) |-> s[k]]
  OBVIOUS
<1>2. \A k \in 1..Len(s) : s[k] \in Range(s)
  BY <1>1 DEF Range
<1>3. s \in [1..Len(s) -> Range(s)]
  BY <1>1, <1>2
<1> QED  BY <1>1, <1>3, SeqDef DEF Listing

LEMMA TailIs ==
  ASSUME NEW s, Listing(s), s # <<>>
  PROVE  /\ Listing(Tail(s)) /\ Range(s) = {Head(s)} \cup Range(Tail(s))
         /\ Len(Tail(s)) = Len(s) - 1 /\ Head(s) = s[1] /\ \A k \in 1..(Len(s) - 1) : Tail(s)[k] = s[k + 1]
<1>1. /\ Tail(s) \in Seq(Range(s)) /\ Len(Tail(s)) = Len(s) - 1 /\ \A k \in 1..Len(Tail(s)) : Tail(s)[k] = s[k + 1]
      /\ Len(s) \in Nat \ {0} /\ DOMAIN s = 1..Len(s) /\ Head(s) = s[1]
  BY DEF Listing
<1>2. DOMAIN Tail(s) = 1..(Len(s) - 1)
  BY <1>1
<1>3. Listing(Tail(s))
  BY <1>1, SequenceLists
<1>4. ASSUME NEW x \in Range(s) PROVE x \in {Head(s)} \cup Range(Tail(s))
  <2>1. PICK k \in 1..Len(s) : x = s[k]
    BY <1>1, <1>4 DEF Range
  <2>2. CASE k = 1
    BY <2>1, <2>2, <1>1
  <2>3. CASE k # 1
    <3>1. k - 1 \in 1..(Len(s) - 1) /\ (k - 1) + 1 = k
      BY <2>1, <2>3, <1>1
    <3>2. Tail(s)[k - 1] = x
      BY <3>1, <2>1, <1>1
    <3> QED  BY <3>1, <3>2, <1>2 DEF Range
  <2> QED  BY <2>2, <2>3
<1>5. {Head(s)} \cup Range(Tail(s)) \subseteq Range(s)
  BY <1>1, <1>2 DEF Range
<1> QED  BY <1>1, <1>3, <1>4, <1>5

LEMMA AppendIs ==
  ASSUME NEW s, Listing(s), NEW x
  PROVE  /\ Listing(Append(s, x)) /\ Range(Append(s, x)) = Range(s) \cup {x} /\ Append(s, x) # <<>>
         /\ Len(Append(s, x)) = Len(s) + 1 /\ Append(s, x)[Len(s) + 1] = x
         /\ \A k \in 1..Len(s) : Append(s, x)[k] = s[k]
<1> DEFINE t == Append(s, x)
<1>1. s \in Seq(Range(s) \cup {x}) /\ Len(s) \in Nat /\ DOMAIN s = 1..Len(s)
  <2>1. Range(s) \subseteq Range(s) \cup {x}
    OBVIOUS
  <2> QED  BY <2>1 DEF Listing
<1>2. /\ t \in Seq(Range(s) \cup {x}) /\ Len(t) = Len(s) + 1 /\ DOMAIN t = 1..(Len(s) + 1)
      /\ t[Len(s) + 1] = x /\ \A k \in 1..Len(s) : t[k] = s[k]
  BY <1>1
<1> HIDE DEF t
<1>3. Range(t) = Range(s) \cup {x}
  BY <1>1, <1>2 DEF Range
<1>4. Listing(t) /\ t # <<>>
  BY <1>2, <1>3 DEF Listing
<1> QED  BY <1>2, <1>3, <1>4 DEF t

LEMMA RemoveIs ==
  ASSUME NEW s, Listing(s), NEW k \in DOMAIN s
  PROVE  /\ Listing(RemoveAt(s, k)) /\ Range(RemoveAt(s, k)) \subseteq Range(s)
         /\ Range(s) = Range(RemoveAt(s, k)) \cup {s[k]}
         /\ Len(RemoveAt(s, k)) = Len(s) - 1
         /\ \A j \in 1..(Len(s) - 1) : RemoveAt(s, k)[j] = s[IF j < k THEN j ELSE j + 1]
<1> DEFINE t == RemoveAt(s, k)  n == Len(s)
<1>1. n \in Nat \ {0} /\ DOMAIN s = 1..n /\ k \in 1..n /\ s \in Seq(Range(s))
  BY DEF Listing
<1>2. /\ SubSeq(s, 1, k - 1) \in Seq(Range(s)) /\ Len(SubSeq(s, 1, k - 1)) = k - 1
      /\ \A j \in 1..(k - 1) : SubSeq(s, 1, k - 1)[j] = s[j]
  BY <1>1, SubSeqProperties
<1>3. /\ SubSeq(s, k + 1, n) \in Seq(Range(s)) /\ Len(SubSeq(s, k + 1, n)) = n - k
      /\ \A j \in 1..(n - k) : SubSeq(s, k + 1, n)[j] = s[k + j]
  BY <1>1, SubSeqProperties
<1>4. /\ t \in Seq(Range(s)) /\ Len(t) = n - 1
      /\ \A j \in 1..(n - 1) : t[j] = s[IF j < k THEN j ELSE j + 1]
  <2> DEFINE a == SubSeq(s, 1, k - 1)  b == SubSeq(s, k + 1, n)
  <2>1. t = a \o b
    BY DEF RemoveAt
  <2> HIDE DEF a, b, t
  <2>2. /\ a \in Seq(Range(s)) /\ b \in Seq(Range(s)) /\ Len(a) = k - 1 /\ Len(b) = n - k
    BY <1>2, <1>3 DEF a, b
  <2>3. /\ t \in Seq(Range(s)) /\ Len(t) = Len(a) + Len(b)
        /\ \A j \in 1..(Len(a) + Len(b)) : t[j] = IF j <= Len(a) THEN a[j] ELSE b[j - Len(a)]
    BY <2>1, <2>2, ConcatProperties
  <2>4. ASSUME NEW j \in 1..(n - 1) PROVE t[j] = s[IF j < k THEN j ELSE j + 1]
    <3>1. CASE j < k
      <4>1. j \in 1..(k - 1) /\ j <= Len(a) /\ j \in 1..(Len(a) + Len(b))
        BY <3>1, <2>2, <1>1
      <4> QED  BY <4>1, <3>1, <2>3, <1>2 DEF a
    <3>2. CASE j >= k
      <4>1. /\ j - Len(a) \in 1..(n - k) /\ ~(j <= Len(a)) /\ j \in 1..(Len(a) + Len(b)) /\ k + (j - Len(a)) = j + 1
        BY <3>2, <2>2, <1>1
      <4>2. t[j] = b[j - Len(a)]
        BY <4>1, <2>3
      <4>3. b[j - Len(a)] = s[j + 1]
        BY <4>1, <1>3 DEF b
      <4> QED  BY <4>2, <4>3, <3>2, <1>1
    <3> QED  BY <3>1, <3>2, <1>1
  <2> QED  BY <2>2, <2>3, <2>4, <1>1
<1> HIDE DEF t
<1>5. DOMAIN t = 1..(n - 1)
  BY <1>1, <1>4
<1>6. Range(t) \subseteq Range(s)
  BY <1>1, <1>4, <1>5 DEF Range
<1>7. Listing(t)
  BY <1>4, SequenceLists
<1>8. ASSUME NEW x \in Range(s), x # s[k] PROVE x \in Range(t)
  <2>1. PICK j \in 1..n : x = s[j]
    BY <1>1, <1>8 DEF Range
  <2>2. CASE j < k
    <3>1. j \in 1..(n - 1) /\ t[j] = x
      BY <2>1, <2>2, <1>1, <1>4
    <3> QED  BY <3>1, <1>5 DEF Range
  <2>3. CASE j > k
    <3>1. j - 1 \in 1..(n - 1) /\ ~(j - 1 < k) /\ (j - 1) + 1 = j
      BY <2>1, <2>3, <1>1
    <3>2. t[j - 1] = x
      BY <3>1, <2>1, <1>4
    <3> QED  BY <3>1, <3>2, <1>5 DEF Range
  <2> QED  BY <2>1, <2>2, <2>3, <1>1, <1>8
<1>9. s[k] \in Range(s)
  BY <1>1 DEF Range
<1> QED  BY <1>4, <1>6, <1>7, <1>8, <1>9 DEF t

LEMMA ListOf ==
  ASSUME NEW s, Listing(s), NEW x \in Range(s)
  PROVE  \E k \in DOMAIN s : x = s[k]
BY DEF Range

(* The empty list.                                                          *)
LEMMA NothingIs == Once(<<>>) /\ OncePath(<<>>) /\ Paths(<<>>) = {} /\ Range(<<>>) = {} /\ Listing(<<>>)
<1>1. Listing(<<>>)
  <2>1. <<>> \in Seq({})
    OBVIOUS
  <2> QED  BY <2>1, SequenceLists
<1>2. Range(<<>>) = {} /\ DOMAIN <<>> = {}
  BY DEF Range
<1> QED  BY <1>1, <1>2 DEF Once, OncePath, Paths

LEMMA HeadIn ==
  ASSUME NEW s, Listing(s), s # <<>>
  PROVE  Head(s) \in Range(s) /\ Range(Tail(s)) \subseteq Range(s) /\ Listing(Tail(s))
BY TailIs

LEMMA OnceTail ==
  ASSUME NEW s, Once(s), s # <<>>
  PROVE  Once(Tail(s)) /\ Range(s) = {Head(s)} \cup Range(Tail(s)) /\ Head(s) \notin Range(Tail(s))
<1>1. Listing(s)
  BY DEF Once
<1>2. /\ Listing(Tail(s)) /\ Range(s) = {Head(s)} \cup Range(Tail(s))
      /\ Len(Tail(s)) = Len(s) - 1 /\ Head(s) = s[1] /\ \A k \in 1..(Len(s) - 1) : Tail(s)[k] = s[k + 1]
  BY <1>1, TailIs
<1>3. Len(s) \in Nat /\ DOMAIN s = 1..Len(s) /\ Len(s) # 0 /\ DOMAIN Tail(s) = 1..(Len(s) - 1)
  BY <1>1, <1>2, ListingIs
<1>4. Once(Tail(s))
  <2>1. SUFFICES ASSUME NEW j \in DOMAIN Tail(s), NEW k \in DOMAIN Tail(s), Tail(s)[j] = Tail(s)[k] PROVE j = k
    BY <1>2 DEF Once
  <2>2. s[j + 1] = s[k + 1] /\ j + 1 \in DOMAIN s /\ k + 1 \in DOMAIN s
    BY <2>1, <1>2, <1>3
  <2>3. j + 1 = k + 1
    BY <2>2 DEF Once
  <2> QED  BY <2>3, <1>3
<1>5. Head(s) \notin Range(Tail(s))
  <2>1. SUFFICES ASSUME Head(s) \in Range(Tail(s)) PROVE FALSE
    OBVIOUS
  <2>2. PICK k \in DOMAIN Tail(s) : Head(s) = Tail(s)[k]
    BY <2>1, <1>2, ListOf
  <2>3. s[k + 1] = s[1] /\ k + 1 \in DOMAIN s /\ 1 \in DOMAIN s
    BY <2>2, <1>2, <1>3
  <2>4. k + 1 = 1
    BY <2>3 DEF Once
  <2> QED  BY <2>4, <2>2, <1>3
<1> QED  BY <1>2, <1>4, <1>5

LEMMA PathTail ==
  ASSUME NEW s, OncePath(s), s # <<>>
  PROVE  /\ OncePath(Tail(s)) /\ Range(s) = {Head(s)} \cup Range(Tail(s)) /\ Head(s).path \notin Paths(Tail(s))
         /\ Paths(s) = {Head(s).path} \cup Paths(Tail(s))
<1>1. Listing(s)
  BY DEF OncePath
<1>2. /\ Listing(Tail(s)) /\ Range(s) = {Head(s)} \cup Range(Tail(s))
      /\ Len(Tail(s)) = Len(s) - 1 /\ Head(s) = s[1] /\ \A k \in 1..(Len(s) - 1) : Tail(s)[k] = s[k + 1]
  BY <1>1, TailIs
<1>3. Len(s) \in Nat /\ DOMAIN s = 1..Len(s) /\ Len(s) # 0 /\ DOMAIN Tail(s) = 1..(Len(s) - 1)
  BY <1>1, <1>2, ListingIs
<1>4. OncePath(Tail(s))
  <2>1. SUFFICES ASSUME NEW j \in DOMAIN Tail(s), NEW k \in DOMAIN Tail(s), Tail(s)[j].path = Tail(s)[k].path PROVE j = k
    BY <1>2 DEF OncePath
  <2>2. s[j + 1].path = s[k + 1].path /\ j + 1 \in DOMAIN s /\ k + 1 \in DOMAIN s
    BY <2>1, <1>2, <1>3
  <2>3. j + 1 = k + 1
    BY <2>2 DEF OncePath
  <2> QED  BY <2>3, <1>3
<1>5. Head(s).path \notin Paths(Tail(s))
  <2>1. SUFFICES ASSUME Head(s).path \in Paths(Tail(s)) PROVE FALSE
    OBVIOUS
  <2>2. PICK x \in Range(Tail(s)) : Head(s).path = x.path
    BY <2>1 DEF Paths
  <2>3. PICK k \in DOMAIN Tail(s) : x = Tail(s)[k]
    BY <1>2, ListOf
  <2>4. s[k + 1].path = s[1].path /\ k + 1 \in DOMAIN s /\ 1 \in DOMAIN s
    BY <2>2, <2>3, <1>2, <1>3
  <2>5. k + 1 = 1
    BY <2>4 DEF OncePath
  <2> QED  BY <2>5, <2>3, <1>3
<1>6. Paths(s) = {Head(s).path} \cup Paths(Tail(s))
  BY <1>2 DEF Paths
<1> QED  BY <1>2, <1>4, <1>5, <1>6

LEMMA PathAppend ==
  ASSUME NEW s, OncePath(s), NEW x, x.path \notin Paths(s)
  PROVE  /\ OncePath(Append(s, x)) /\ Range(Append(s, x)) = Range(s) \cup {x}
         /\ Paths(Append(s, x)) = Paths(s) \cup {x.path} /\ Append(s, x) # <<>>
<1> DEFINE t == Append(s, x)
<1>1. Listing(s)
  BY DEF OncePath
<1>2. /\ Listing(t) /\ Range(t) = Range(s) \cup {x} /\ t # <<>> /\ Len(t) = Len(s) + 1 /\ t[Len(s) + 1] = x
      /\ \A k \in 1..Len(s) : t[k] = s[k]
  BY <1>1, AppendIs
<1> HIDE DEF t
<1>3. Len(s) \in Nat /\ DOMAIN s = 1..Len(s) /\ DOMAIN t = 1..(Len(s) + 1)
  BY <1>1, <1>2, ListingIs
<1>4. Paths(t) = Paths(s) \cup {x.path}
  BY <1>2 DEF Paths
<1>5. \A k \in DOMAIN s : s[k].path # x.path
  <2>1. \A k \in DOMAIN s : s[k] \in Range(s)
    BY <1>1, <1>3, ListingIs
  <2> QED  BY <2>1 DEF Paths
<1>6. OncePath(t)
  <2>1. SUFFICES ASSUME NEW j \in DOMAIN t, NEW k \in DOMAIN t, t[j].path = t[k].path PROVE j = k
    BY <1>2 DEF OncePath
  <2>2. CASE j \in 1..Len(s) /\ k \in 1..Len(s)
    <3>1. t[j] = s[j] /\ t[k] = s[k] /\ j \in DOMAIN s /\ k \in DOMAIN s
      BY <2>2, <1>2, <1>3
    <3>2. s[j].path = s[k].path
      BY <3>1, <2>1
    <3> QED  BY <3>1, <3>2 DEF OncePath
  <2>3. CASE j = Len(s) + 1 /\ k \in 1..Len(s)
    <3>1. s[k].path = x.path
      BY <2>3, <2>1, <1>2
    <3> QED  BY <3>1, <2>3, <1>5, <1>3
  <2>4. CASE k = Len(s) + 1 /\ j \in 1..Len(s)
    <3>1. s[j].path = x.path
      BY <2>4, <2>1, <1>2
    <3> QED  BY <3>1, <2>4, <1>5, <1>3
  <2> QED  BY <2>1, <2>2, <2>3, <2>4, <1>3
<1> QED  BY <1>2, <1>4, <1>6 DEF t

LEMMA PathRemove ==
  ASSUME NEW s, OncePath(s), NEW k \in DOMAIN s
  PROVE  /\ OncePath(RemoveAt(s, k)) /\ Range(s) = Range(RemoveAt(s, k)) \cup {s[k]}
         /\ s[k].path \notin Paths(RemoveAt(s, k)) /\ Paths(s) = Paths(RemoveAt(s, k)) \cup {s[k].path}
<1> DEFINE t == RemoveAt(s, k)
<1>1. Listing(s)
  BY DEF OncePath
<1>2. /\ Listing(t) /\ Range(s) = Range(t) \cup {s[k]} /\ Len(t) = Len(s) - 1
      /\ \A j \in 1..(Len(s) - 1) : t[j] = s[IF j < k THEN j ELSE j + 1]
  BY <1>1, RemoveIs
<1> HIDE DEF t
<1>3. Len(s) \in Nat /\ DOMAIN s = 1..Len(s) /\ DOMAIN t = 1..(Len(s) - 1) /\ k \in 1..Len(s)
  BY <1>1, <1>2, ListingIs
<1> DEFINE at(j) == IF j < k THEN j ELSE j + 1
<1>4. \A j \in DOMAIN t : at(j) \in DOMAIN s /\ at(j) # k /\ t[j] = s[at(j)]
  BY <1>2, <1>3
<1>5. \A j, l \in DOMAIN t : at(j) = at(l) => j = l
  BY <1>3
<1> HIDE DEF at
<1>6. OncePath(t)
  <2>1. SUFFICES ASSUME NEW j \in DOMAIN t, NEW l \in DOMAIN t, t[j].path = t[l].path PROVE j = l
    BY <1>2 DEF OncePath
  <2>2. s[at(j)].path = s[at(l)].path
    BY <2>1, <1>4
  <2>3. at(j) = at(l)
    BY <2>2, <1>4 DEF OncePath
  <2> QED  BY <2>3, <1>5
<1>7. s[k].path \notin Paths(t)
  <2>1. SUFFICES ASSUME s[k].path \in Paths(t) PROVE FALSE
    OBVIOUS
  <2>2. PICK x \in Range(t) : s[k].path = x.path
    BY <2>1 DEF Paths
  <2>3. PICK j \in DOMAIN t : x = t[j]
    BY <1>2, ListOf
  <2>4. s[at(j)].path = s[k].path
    BY <2>2, <2>3, <1>4
  <2> QED  BY <2>4, <1>4 DEF OncePath
<1>8. Paths(s) = Paths(t) \cup {s[k].path}
  BY <1>2 DEF Paths
<1> QED  BY <1>2, <1>6, <1>7, <1>8 DEF t

LEMMA PathOne ==
  ASSUME NEW s, OncePath(s), NEW i \in Range(s), NEW j \in Range(s), i.path = j.path
  PROVE  i = j
<1>1. Listing(s)
  BY DEF OncePath
<1>2. PICK k \in DOMAIN s : i = s[k]
  BY <1>1, ListOf
<1>3. PICK l \in DOMAIN s : j = s[l]
  BY <1>1, ListOf
<1> QED  BY <1>2, <1>3 DEF OncePath

(* A finite set as a list.                                                  *)
LEMMA SetListIs ==
  ASSUME NEW S, IsFiniteSet(S)
  PROVE  Listing(SetToSeq(S)) /\ Range(SetToSeq(S)) = S
<1>1. PICK n \in Nat : ExistsBijection(1..n, S)
  BY FS_NatBijection
<1>2. Cardinality(S) = n
  BY <1>1, FS_CountingElements
<1>3. PICK f : f \in [1..n -> S] /\ IsInjective(f)
  BY <1>1 DEF ExistsBijection, Bijection, Injection
<1>4. SetToSeq(S) = CHOOSE g \in [1..n -> S] : IsInjective(g)
  BY <1>2 DEF SetToSeq
<1>5. SetToSeq(S) \in [1..n -> S] /\ IsInjective(SetToSeq(S))
  BY <1>3, <1>4
<1>6. IsFiniteSet(1..n) /\ Cardinality(1..n) = n
  BY FS_Interval
<1>7. SetToSeq(S) \in Injection(1..n, S)
  BY <1>5 DEF Injection
<1>8. SetToSeq(S) \in Surjection(1..n, S)
  BY <1>7, <1>6, <1>2, FS_Injection
<1>9. Range(SetToSeq(S)) = S
  BY <1>5, <1>8 DEF Range, Surjection
<1>10. SetToSeq(S) \in Seq(S)
  BY <1>5, SeqDef
<1> QED  BY <1>9, <1>10, SequenceLists

-----------------------------------------------------------------------------
(* Readings of a file                                                       *)

LEMMA PrefixIs ==
  ASSUME NEW c, Listing(c), NEW n \in Nat
  PROVE  /\ Prefix(c, Len(c)) = c
         /\ Prefix(c, Len(Prefix(c, n))) = Prefix(c, n)
         /\ c # <<>> /\ n # 0 => Prefix(c, n) # <<>>
<1> DEFINE m == IF n < Len(c) THEN n ELSE Len(c)
<1>1. Len(c) \in Nat /\ c \in Seq(Range(c)) /\ (c = <<>>) = (Len(c) = 0)
  BY ListingIs DEF Listing
<1>2. m \in 0..Len(c) /\ (Len(c) # 0 /\ n # 0 => m # 0)
  BY <1>1
<1>3. Prefix(c, n) = SubSeq(c, 1, m)
  BY DEF Prefix
<1> HIDE DEF m
<1>4. SubSeq(c, 1, m) \in Seq(Range(c)) /\ Len(SubSeq(c, 1, m)) = m
  BY <1>1, <1>2, SubSeqProperties
<1>5. Prefix(c, m) = SubSeq(c, 1, m)
  BY <1>1, <1>2 DEF Prefix
<1>6. Prefix(c, Len(c)) = c
  <2>1. SubSeq(c, 1, Len(c)) = c
    BY <1>1
  <2> QED  BY <2>1, <1>1 DEF Prefix
<1> QED  BY <1>1, <1>2, <1>3, <1>4, <1>5, <1>6

(* The versions of a file, and what is in hand of one.                      *)
LEMMA ContentsIs ==
  ASSUME NEW versions, Versions(versions)
  PROVE  /\ Len(versions) \in Nat /\ DOMAIN versions = 1..Len(versions)
         /\ \A k \in 1..Len(versions) : /\ versions[k] \in Range(versions) /\ versions[k] # <<>> /\ Listing(versions[k])
                                        /\ Len(versions[k]) \in Nat \ {0}
BY ListingIs DEF Versions

LEMMA LookedIs ==
  ASSUME NEW i, NEW versions, Versions(versions), NEW d \in Nat, d <= Len(versions), NEW s \in Nat, NEW row,
         LookedAt(i, versions, d, s, row)
  PROVE  /\ Since(i, s) \in 1..d /\ Since(i, s) \in Nat /\ i.path \in Files /\ i.size \in Nat \ {0} /\ d # 0
         /\ i.mtime \in Nat /\ (d = s => Since(i, s) = d)
         /\ HasReadAt(i, versions, d, s) =>
              /\ i.sha # <<>>
              /\ Since(i, s) = d => i.sha = versions[d]
              /\ NeverReturns(versions) /\ RecursIn(i.sha, versions, d) => i.sha = versions[d]
<1> DEFINE v == Since(i, s)
<1>1. v \in 1..d /\ s <= v /\ i.path \in Files /\ i.size = Len(versions[v]) /\ (i.mtime = 0 \/ i.mtime = v)
  BY DEF LookedAt
<1>2. v \in 1..Len(versions) /\ v \in Nat /\ d # 0 /\ d \in 1..Len(versions)
  BY <1>1, ContentsIs
<1>3. Len(versions[v]) \in Nat \ {0}
  BY <1>2, ContentsIs
<1>4. ASSUME HasReadAt(i, versions, d, s)
      PROVE  /\ i.sha # <<>>
             /\ v = d => i.sha = versions[d]
             /\ NeverReturns(versions) /\ RecursIn(i.sha, versions, d) => i.sha = versions[d]
  <2>1. PICK r \in v..d : i.sha = Prefix(versions[r], i.size)
    BY <1>4 DEF HasReadAt
  <2>2. r \in 1..Len(versions)
    BY <2>1, <1>1, <1>2, ContentsIs
  <2>3. versions[r] # <<>> /\ Listing(versions[r])
    BY <2>2, ContentsIs
  <2>4. i.sha # <<>> /\ Prefix(versions[r], Len(i.sha)) = i.sha /\ Prefix(versions[r], Len(versions[r])) = versions[r]
    BY <2>1, <2>3, <1>1, <1>3, PrefixIs
  <2>5. ASSUME v = d PROVE i.sha = versions[d]
    <3>1. r = d
      BY <2>5, <2>1, <1>2
    <3>2. i.sha = Prefix(versions[r], Len(versions[r]))
      BY <3>1, <2>1, <2>5, <1>1
    <3> QED  BY <3>1, <3>2, <2>4
  <2>6. ASSUME NeverReturns(versions), RecursIn(i.sha, versions, d) PROVE i.sha = versions[d]
    <3>1. PICK k \in d..Len(versions) : i.sha = versions[k]
      BY <2>6 DEF RecursIn
    <3>2. CASE r < k
      <4>1. k \in DOMAIN versions /\ r \in DOMAIN versions
        BY <3>1, <2>2, <1>2, ContentsIs
      <4>2. Prefix(versions[r], Len(versions[k])) # versions[k]
        BY <4>1, <3>2, <2>6 DEF NeverReturns
      <4> QED  BY <4>2, <3>1, <2>4
    <3>3. CASE ~(r < k)
      <4>1. k = d
        BY <3>1, <3>3, <2>1, <1>2, ContentsIs
      <4> QED  BY <4>1, <3>1
    <3> QED  BY <3>2, <3>3
  <2> QED  BY <2>4, <2>5, <2>6
<1> HIDE DEF v
<1>5. d = s => v = d
  BY <1>1, <1>2
<1> QED  BY <1>1, <1>2, <1>3, <1>4, <1>5 DEF v

(* A file has its row: what the hub has is what the row says.               *)
LEMMA RowHolds ==
  ASSUME NEW i, NEW versions, Versions(versions), NEW d \in Nat, d <= Len(versions), NEW s \in Nat, NEW row,
         LookedAt(i, versions, d, s, row), HasReadAt(i, versions, d, s), NEW held, NEW purged, NEW unsure,
         ~purged => held # <<>> /\ (RecursIn(i.sha, versions, d) => held = i.sha)
  PROVE  RowTrueAt(i.path, versions, d, RowOf(i, i.sha, "ok"), held, purged, unsure)
<1>0. /\ Since(i, s) \in 1..d /\ Since(i, s) \in Nat /\ i.path \in Files /\ i.size \in Nat \ {0} /\ d # 0
      /\ i.mtime \in Nat /\ (d = s => Since(i, s) = d)
      /\ HasReadAt(i, versions, d, s) =>
           /\ i.sha # <<>>
           /\ Since(i, s) = d => i.sha = versions[d]
           /\ NeverReturns(versions) /\ RecursIn(i.sha, versions, d) => i.sha = versions[d]
  BY LookedIs
<1>1. /\ Since(i, s) \in 1..d /\ d # 0
      /\ Since(i, s) = d => i.sha = versions[d]
      /\ NeverReturns(versions) /\ RecursIn(i.sha, versions, d) => i.sha = versions[d]
  BY <1>0
<1>2. i.path \notin Databases \cup Images => i.mtime = Since(i, s)
  BY DEF LookedAt
<1>3. i.path \notin Databases \cup Images => i.mtime <= d /\ (i.mtime = d => i.sha = versions[d])
  BY <1>1, <1>2
<1> DEFINE new == RowOf(i, i.sha, "ok")
<1>4. new.mtime = i.mtime /\ new.sha = i.sha /\ new.status = "ok"
  BY DEF RowOf
<1> HIDE DEF new
<1>5. d > 0
  BY <1>1
<1>6. RowTrueAt(i.path, versions, d, new, held, purged, unsure)
  BY <1>1, <1>3, <1>4, <1>5 DEF RowTrueAt
<1> QED  BY <1>6 DEF new

(* What is sent agrees with a row that still lets the file pass.            *)
LEMMA SentHolds ==
  ASSUME NEW i, NEW versions, Versions(versions), NEW d \in Nat, d <= Len(versions), NEW s \in Nat, NEW row,
         LookedAt(i, versions, d, s, row), HasReadAt(i, versions, d, s), NEW held, NEW purged,
         RowTrueAt(i.path, versions, d, row, held, purged, TRUE)
  PROVE  RowTrueAt(i.path, versions, d, row, i.sha, purged, TRUE)
<1>1. i.sha # <<>> /\ (Since(i, s) = d => i.sha = versions[d])
  BY LookedIs
<1>2. row.status = "ok" /\ NeverReturns(versions) /\ RecursIn(row.sha, versions, d) => Since(i, s) = d
  BY DEF LookedAt
<1> QED  BY <1>1, <1>2 DEF RowTrueAt

(* A file moved on: nothing that was true of its row is lost.               *)
LEMMA ChangedRow ==
  ASSUME NEW p, NEW versions, Versions(versions), NEW d \in Nat, d < Len(versions), NEW row, RowTyped(row),
         NEW held, NEW purged, NEW unsure, RowTrueAt(p, versions, d, row, held, purged, unsure)
  PROVE  /\ RowTrueAt(p, versions, d + 1, row, held, purged, unsure)
         /\ ~(row.status = "ok" /\ NeverReturns(versions) /\ RecursIn(row.sha, versions, d + 1))
<1>1. RecursIn(row.sha, versions, d + 1) => RecursIn(row.sha, versions, d)
  <2>1. Len(versions) \in Nat
    BY ContentsIs
  <2> QED  BY <2>1 DEF RecursIn
<1>2. ASSUME row.status = "ok", NeverReturns(versions), RecursIn(row.sha, versions, d + 1) PROVE FALSE
  <2>1. d > 0 /\ row.sha = versions[d]
    BY <1>1, <1>2 DEF RowTrueAt
  <2>2. PICK k \in (d + 1)..Len(versions) : row.sha = versions[k]
    BY <1>2 DEF RecursIn
  <2>3. d \in DOMAIN versions /\ k \in DOMAIN versions /\ d < k /\ d \in 1..Len(versions)
    BY <2>1, <2>2, ContentsIs
  <2>4. Prefix(versions[d], Len(versions[k])) # versions[k]
    BY <2>3, <1>2 DEF NeverReturns
  <2>5. Listing(versions[d])
    BY <2>3, ContentsIs
  <2>6. Prefix(versions[d], Len(versions[d])) = versions[d]
    <3>1. Len(versions[d]) \in Nat
      BY <2>5, ListingIs
    <3> QED  BY <2>5, <3>1, PrefixIs
  <2> QED  BY <2>4, <2>6, <2>1, <2>2
<1>3. row.mtime \in Int
  BY DEF RowTyped
<1>4. row.status = "ok" /\ p \notin Databases \cup Images => row.mtime <= d
  BY DEF RowTrueAt
<1>5. row.status = "ok" => d > 0
  BY DEF RowTrueAt
<1>6. row.status = "ok" /\ p \notin Databases \cup Images => row.mtime <= d + 1 /\ row.mtime # d + 1
  BY <1>3, <1>4
<1>7. RowTrueAt(p, versions, d + 1, row, held, purged, unsure)
  BY <1>1, <1>2, <1>5, <1>6 DEF RowTrueAt
<1> QED  BY <1>2, <1>7

LEMMA ChangedItem ==
  ASSUME NEW i, NEW versions, Versions(versions), NEW d \in Nat, d < Len(versions), NEW s \in Nat, NEW row,
         ~(row.status = "ok" /\ NeverReturns(versions) /\ RecursIn(row.sha, versions, d + 1)),
         LookedAt(i, versions, d, s, row)
  PROVE  /\ LookedAt(i, versions, d + 1, s, row)
         /\ HasReadAt(i, versions, d, s) => HasReadAt(i, versions, d + 1, s)
<1>1. Since(i, s) \in 1..d /\ Since(i, s) \in 1..(d + 1)
  BY DEF LookedAt
<1>2. LookedAt(i, versions, d + 1, s, row)
  BY <1>1 DEF LookedAt
<1>3. \A r \in Since(i, s)..d : r \in Since(i, s)..(d + 1)
  BY <1>1
<1> QED  BY <1>2, <1>3 DEF HasReadAt

(* Another row, and another status of what the row says.                    *)
LEMMA RowLost ==
  ASSUME NEW row, row.status # "ok"
  PROVE  /\ \A p, versions, d, held, purged, unsure : RowTrueAt(p, versions, d, row, held, purged, unsure)
         /\ \A i, versions, d, s, old : LookedAt(i, versions, d, s, old) => LookedAt(i, versions, d, s, row)
BY DEF RowTrueAt, LookedAt

-----------------------------------------------------------------------------
(* What a step leaves as it was                                             *)

Steady == tour'.versions = tour.versions /\ tour'.purge = tour.purge /\ TourTrue'

LEMMA TourSteady ==
  ASSUME TourTrue, UNCHANGED tour \/ (\E f \in TourFaults : Fault(f))
  PROVE  Steady
<1>1. CASE UNCHANGED tour
  BY <1>1 DEF Steady, TourTrue
<1>2. ASSUME NEW f \in TourFaults, Fault(f) PROVE Steady
  <2>1. tour' = [tour EXCEPT !.faults = tour.faults \ {f}]
    BY <1>2 DEF Fault
  <2>2. /\ DOMAIN tour' = DOMAIN tour /\ tour'.faults = tour.faults \ {f} /\ tour'.versions = tour.versions
        /\ tour'.purge = tour.purge /\ tour'.modes = tour.modes /\ tour'.hubs = tour.hubs
    BY <2>1 DEF TourTrue
  <2> HIDE DEF Files
  <2>3. TourTrue'
    BY <2>2 DEF TourTrue
  <2> QED  BY <2>2, <2>3 DEF Steady
<1> QED  BY <1>1, <1>2

LEMMA LookedStays ==
  ASSUME NEW i, Steady, disk'[i.path] = disk[i.path], pass'.seen[i.path] = pass.seen[i.path], rows'[i.path] = rows[i.path]
  PROVE  Looked(i)' = Looked(i) /\ HasRead(i)' = HasRead(i)
<1>1. tour'.versions[i.path] = tour.versions[i.path]
  BY DEF Steady
<1> QED  BY <1>1 DEF Looked, HasRead

(* Items move between the lists.                                            *)
LEMMA HandMoves ==
  ASSUME HandTrue, Steady, pass.pc # "idle", UNCHANGED disk, pass'.seen = pass.seen,
         Items' \subseteq Items, ReadItems' \subseteq ReadItems, \A i \in Items' : rows'[i.path] = rows[i.path]
  PROVE  HandTrue'
<1>1. \A i \in Items' : Looked(i)' = Looked(i) /\ HasRead(i)' = HasRead(i)
  BY LookedStays
<1>2. \A i \in ReadItems' : i \in Items'
  BY DEF Items
<1> QED  BY <1>1, <1>2 DEF HandTrue

LEMMA RowStays ==
  ASSUME NEW p, RowTrue(p), Steady, disk'[p] = disk[p], rows'[p] = rows[p], holds'[known'][p] = holds[known][p],
         p \in Unsure => p \in Unsure'
  PROVE  RowTrue(p)'
<1>1. tour'.versions[p] = tour.versions[p] /\ (p \in tour'.purge) = (p \in tour.purge)
  BY DEF Steady
<1> QED  BY <1>1 DEF RowTrue, RowTrueAt

LEMMA RowsStay ==
  ASSUME RowsTrue, Steady, UNCHANGED <<disk, rows, holds, known>>, Unsure \subseteq Unsure'
  PROVE  RowsTrue'
<1> SUFFICES ASSUME NEW p \in Files PROVE RowTrue(p)'
  BY DEF RowsTrue
<1> QED  BY RowStays DEF RowsTrue

LEMMA FollowStays ==
  ASSUME AssetsFollow, Steady, UNCHANGED holds
  PROVE  AssetsFollow'
BY DEF AssetsFollow, Steady

(* What a hub has of a file it has not lost.                                *)
LEMMA OfferedStays ==
  ASSUME Steady, UNCHANGED known, \A q \in Range(Owners) : holds[known][q] # <<>> => holds'[known][q] # <<>>, NEW p
  PROVE  (Offered(p) => Offered(p)') /\ \A a : Mentions(p, a)' = Mentions(p, a)
BY DEF Offered, Mentions, Steady

LEMMA OwnersStay ==
  ASSUME OwnersTrue, Steady, UNCHANGED <<known, disk>>,
         \A q \in Range(Owners) : holds[known][q] # <<>> => holds'[known][q] # <<>>,
         pass'.mode = pass.mode, Range(pass'.parents) \subseteq Range(pass.parents),
         pass'.owner = pass.owner \/ pass'.owner = NoItem,
         pass'.owner = pass.owner => Range(pass'.assets) \subseteq Range(pass.assets),
         pass'.owner = NoItem => Range(pass'.assets) = {},
         pass'.pc \in Handling /\ pass'.owner # NoItem => pass.pc \in Handling /\ pass'.item.path = pass.item.path
  PROVE  OwnersTrue'
<1>1. \A p : (Offered(p) => Offered(p)') /\ \A a : Mentions(p, a)' = Mentions(p, a)
  BY OfferedStays
<1> HIDE DEF NoItem
<1> QED  BY <1>1 DEF OwnersTrue

LEMMA SimpleStores ==
  ASSUME StoresTrue, UNCHANGED <<rows, known, holds>>
  PROVE  StoresTrue'
BY DEF StoresTrue

LEMMA SimpleDisk ==
  ASSUME DiskTrue, Steady, UNCHANGED disk
  PROVE  DiskTrue'
BY DEF DiskTrue, Steady

(* What a backfill has done stays done, or is still to do.                  *)
LEMMA BackfillStep ==
  ASSUME BackfillTrue, Steady, UNCHANGED <<disk, known>>, pass.pc # "idle", pass'.mode = pass.mode,
         pass'.mode = "backfill" /\ ~pass'.bad =>
           /\ ~pass.bad
           /\ pass'.owner # NoItem => \/ pass'.owner = pass.owner /\ pass'.changed = pass.changed
                                      \/ ~pass'.owner.snapshot /\ pass'.changed
           /\ \A q \in Range(Owners) : Same(q)' => Same(q) \/ q \in InHand'
           /\ \A a \in Images : Same(a)' => Same(a)
           /\ \A q \in Files : Same(q)' /\ holds[known][q] = Content(q) => holds'[known][q] = Content(q)
           /\ \A q \in Range(Owners) : Same(q)' /\ q \in InHand => FileSent(q)' /\ (q \notin Databases => AssetsSent(q)')
           /\ \A q \in Range(Owners) :
                Same(q)' /\ (q \in Paths(pass.parents) \/ (pass.pc = "assets" /\ pass.owner.path = q)) => AssetsSent(q)'
           /\ \A q \in Range(Owners) : \A a \in Images :
                Same(a)' /\ AssetOwed(q, a) => AssetOwed(q, a)' \/ holds'[known][a] = Content(a)
  PROVE  BackfillTrue'
<1> SUFFICES ASSUME pass'.mode = "backfill", ~pass'.bad
             PROVE  /\ pass'.owner # NoItem => ~pass'.owner.snapshot /\ pass'.changed
                    /\ \A p \in Range(Owners) : Same(p)' => FileSent(p)' /\ (p \notin Databases => AssetsSent(p)')
  BY DEF BackfillTrue
<1>1. ~pass.bad /\ pass.mode = "backfill"
  OBVIOUS
<1>2. /\ pass.owner # NoItem => ~pass.owner.snapshot /\ pass.changed
      /\ \A p \in Range(Owners) : Same(p) => FileSent(p) /\ (p \notin Databases => AssetsSent(p))
  BY <1>1 DEF BackfillTrue
<1>3. pass'.owner # NoItem => ~pass'.owner.snapshot /\ pass'.changed
  BY <1>2
<1>4. tour'.versions = tour.versions
  BY DEF Steady
<1>5. \A p : Content(p)' = Content(p) /\ References(p)' = References(p)
  BY <1>4 DEF Content, References
<1>6. ASSUME NEW p \in Range(Owners), Same(p)' PROVE FileSent(p)' /\ (p \notin Databases => AssetsSent(p)')
  <2>1. CASE p \in InHand'
    BY <2>1 DEF FileSent, AssetsSent
  <2>2. CASE p \in InHand
    BY <2>2, <1>6
  <2>3. CASE p \notin InHand /\ p \notin InHand'
    <3>1. Same(p)
      BY <2>3, <1>6
    <3>2. holds[known][p] = Content(p) /\ (p \notin Databases => AssetsSent(p))
      BY <3>1, <2>3, <1>2 DEF FileSent
    <3>3. FileSent(p)'
      BY <3>2, <1>5, <1>6 DEF FileSent, Files
    <3>4. ASSUME p \notin Databases PROVE AssetsSent(p)'
      <4>1. CASE p \in Paths(pass.parents) \/ (pass.pc = "assets" /\ pass.owner.path = p)
        BY <4>1, <1>6
      <4>2. CASE \A a \in References(p) : Same(a) => AssetOwed(p, a) \/ holds[known][a] = Content(a)
        <5>1. ASSUME NEW a \in References(p), Same(a)' PROVE AssetOwed(p, a)' \/ holds'[known][a] = Content(a)
          <6>1. a \in Images /\ a \in Files
            BY DEF References, Files
          <6>2. Same(a) /\ (AssetOwed(p, a) \/ holds[known][a] = Content(a))
            BY <4>2, <5>1, <6>1
          <6> QED  BY <5>1, <6>1, <6>2
        <5> QED  BY <5>1, <1>5 DEF AssetsSent
      <4> QED  BY <4>1, <4>2, <3>2, <3>4, <2>3 DEF AssetsSent
    <3> QED  BY <3>3, <3>4
  <2> QED  BY <2>1, <2>2, <2>3
<1> QED  BY <1>3, <1>6

(* A step that sends nothing.                                               *)
LEMMA BackfillStays ==
  ASSUME BackfillTrue, Steady, UNCHANGED <<disk, known, holds>>, pass'.seen = pass.seen, pass'.mode = pass.mode,
         pass.pc # "idle",
         pass'.mode = "backfill" /\ ~pass'.bad => /\ ~pass.bad /\ pass.pc # "assets"
                     /\ InHand \subseteq InHand' /\ Paths(pass.parents) \subseteq Paths(pass'.parents)
                     /\ (pass'.owner # NoItem => pass'.owner = pass.owner /\ pass'.changed = pass.changed)
                     /\ \A p, a : AssetOwed(p, a) => AssetOwed(p, a)'
  PROVE  BackfillTrue'
<1>1. \A p : Same(p)' = Same(p)
  BY DEF Same
<1>2. \A p \in InHand' : FileSent(p)' /\ AssetsSent(p)'
  BY DEF FileSent, AssetsSent
<1>3. \A p \in Paths(pass'.parents) : AssetsSent(p)'
  BY DEF AssetsSent
<1>4. pass'.mode = "backfill" /\ ~pass'.bad =>
           /\ ~pass.bad
           /\ pass'.owner # NoItem => \/ pass'.owner = pass.owner /\ pass'.changed = pass.changed
                                      \/ ~pass'.owner.snapshot /\ pass'.changed
           /\ \A q \in Range(Owners) : Same(q)' => Same(q) \/ q \in InHand'
           /\ \A a \in Images : Same(a)' => Same(a)
           /\ \A q \in Files : Same(q)' /\ holds[known][q] = Content(q) => holds'[known][q] = Content(q)
           /\ \A q \in Range(Owners) : Same(q)' /\ q \in InHand => FileSent(q)' /\ (q \notin Databases => AssetsSent(q)')
           /\ \A q \in Range(Owners) :
                Same(q)' /\ (q \in Paths(pass.parents) \/ (pass.pc = "assets" /\ pass.owner.path = q)) => AssetsSent(q)'
           /\ \A q \in Range(Owners) : \A a \in Images :
                Same(a)' /\ AssetOwed(q, a) => AssetOwed(q, a)' \/ holds'[known][a] = Content(a)
  BY <1>1, <1>2, <1>3
<1> QED  BY <1>4, BackfillStep

(* Nothing is owed where no asset is in hand.                               *)
LEMMA NothingOwed ==
  ASSUME pass.pc \notin Handling \cup {"snapshot"}
  PROVE  \A p, a : ~AssetOwed(p, a)
BY DEF AssetOwed, AtWork, Handling

LEMMA FinishKeeps ==
  ASSUME CInv, Finish
  PROVE  CInv'
<1>1. pass.pc = "scan" /\ pass.todo = <<>> /\ pass.chunk = <<>> /\ pass' = [pass EXCEPT !.pc = "done"]
  BY DEF Finish
<1>2. UNCHANGED <<tour, disk, rows, scans, known, holds>>
  BY DEF Finish
<1>3. Steady
  BY <1>2, TourSteady DEF CInv
<1>4. DOMAIN pass = PassFields
  BY DEF CInv, PhasesTrue
<1>5. /\ DOMAIN pass' = PassFields /\ pass'.pc = "done"
      /\ pass'.mode = pass.mode /\ pass'.todo = pass.todo /\ pass'.bad = pass.bad /\ pass'.seen = pass.seen
      /\ pass'.chunk = pass.chunk /\ pass'.hashed = pass.hashed /\ pass'.there = pass.there
      /\ pass'.missing = pass.missing /\ pass'.bodies = pass.bodies /\ pass'.unsent = pass.unsent
      /\ pass'.landing = pass.landing /\ pass'.parents = pass.parents /\ pass'.item = pass.item
      /\ pass'.answered = pass.answered /\ pass'.owner = pass.owner /\ pass'.assets = pass.assets
      /\ pass'.found = pass.found /\ pass'.changed = pass.changed /\ pass'.whole = pass.whole
      /\ pass'.failed = pass.failed
  BY <1>1, <1>4 DEF PassFields
<1>6. PhasesTrue'
  BY <1>1, <1>5 DEF CInv, PhasesTrue, PassPcs, Sending
<1>7. ListsTrue'
  BY <1>1, <1>5 DEF CInv, ListsTrue, Sending, Handling
<1>8. Items' = Items /\ ReadItems' = ReadItems /\ Unsure' = Unsure /\ InHand' = InHand
  BY <1>1, <1>5 DEF Items, ReadItems, Unsure, InHand, Sending, Handling
<1>9. HandTrue'
  BY <1>1, <1>2, <1>3, <1>5, <1>8, HandMoves DEF CInv
<1>10. AnswersTrue'
  BY <1>1, <1>2, <1>5 DEF CInv, AnswersTrue, Acked
<1>11. RowsTrue'
  BY <1>2, <1>3, <1>8, RowsStay DEF CInv
<1>12. OwnersTrue'
  <2>1. pass.owner = NoItem /\ pass.assets = <<>> /\ Range(pass'.assets) = {}
    BY <1>1, <1>5, NothingIs DEF CInv, PhasesTrue
  <2>2. \A q : holds[known][q] # <<>> => holds'[known][q] # <<>>
    BY <1>2
  <2> HIDE DEF NoItem
  <2> QED  BY <1>2, <1>3, <1>5, <2>1, <2>2, OwnersStay DEF CInv
<1>13. BackfillTrue'
  <2>1. \A p, a : ~AssetOwed(p, a)
    BY <1>1, NothingOwed DEF Handling
  <2> QED  BY <1>1, <1>2, <1>3, <1>5, <1>8, <2>1, BackfillStays DEF CInv
<1>14. StoresTrue' /\ DiskTrue' /\ AssetsFollow' /\ TourTrue'
  BY <1>2, <1>3, SimpleStores, SimpleDisk, FollowStays DEF CInv, Steady
<1> QED  BY <1>6, <1>7, <1>9, <1>10, <1>11, <1>12, <1>13, <1>14 DEF CInv

(* No process: nothing is in hand.                                          *)
LEMMA IdleIs ==
  ASSUME pass = Idle
  PROVE  /\ ListsTrue /\ PhasesTrue /\ HandTrue /\ AnswersTrue /\ OwnersTrue /\ BackfillTrue
         /\ Unsure = {}
<1>1. /\ DOMAIN pass = PassFields /\ pass.pc = "idle" /\ pass.mode = "run" /\ pass.todo = <<>> /\ pass.bad = FALSE
      /\ pass.chunk = <<>> /\ pass.hashed = <<>> /\ pass.there = {} /\ pass.missing = <<>> /\ pass.bodies = <<>>
      /\ pass.unsent = {} /\ pass.landing = FALSE /\ pass.parents = <<>> /\ pass.answered = FALSE
      /\ pass.owner = NoItem /\ pass.assets = <<>> /\ pass.changed = FALSE /\ pass.whole = FALSE /\ pass.failed = FALSE
  BY DEF Idle, PassFields
<1>2. ListsTrue
  BY <1>1, NothingIs DEF ListsTrue, Sending, Handling
<1>3. PhasesTrue
  BY <1>1 DEF PhasesTrue, PassPcs, Modes, Sending
<1>4. ReadItems = {} /\ Items = {} /\ Unsure = {}
  BY <1>1, NothingIs DEF ReadItems, Items, Unsure, Sending, Handling
<1>5. HandTrue /\ AnswersTrue /\ OwnersTrue /\ BackfillTrue
  BY <1>1, <1>4, NothingIs DEF HandTrue, AnswersTrue, Acked, OwnersTrue, Handling, BackfillTrue
<1> QED  BY <1>2, <1>3, <1>4, <1>5

LEMMA IdleNext ==
  ASSUME pass' = Idle
  PROVE  /\ ListsTrue' /\ PhasesTrue' /\ HandTrue' /\ AnswersTrue' /\ OwnersTrue' /\ BackfillTrue'
         /\ Unsure' = {}
<1>1. /\ DOMAIN pass' = PassFields /\ pass'.pc = "idle" /\ pass'.mode = "run" /\ pass'.todo = <<>> /\ pass'.bad = FALSE
      /\ pass'.chunk = <<>> /\ pass'.hashed = <<>> /\ pass'.there = {} /\ pass'.missing = <<>> /\ pass'.bodies = <<>>
      /\ pass'.unsent = {} /\ pass'.landing = FALSE /\ pass'.parents = <<>> /\ pass'.answered = FALSE
      /\ pass'.owner = NoItem /\ pass'.assets = <<>> /\ pass'.changed = FALSE /\ pass'.whole = FALSE /\ pass'.failed = FALSE
  BY DEF Idle, PassFields
<1>2. ListsTrue'
  BY <1>1, NothingIs DEF ListsTrue, Sending, Handling
<1>3. PhasesTrue'
  BY <1>1 DEF PhasesTrue, PassPcs, Modes, Sending
<1>4. ReadItems' = {} /\ Items' = {} /\ Unsure' = {}
  BY <1>1, NothingIs DEF ReadItems, Items, Unsure, Sending, Handling
<1>5. HandTrue' /\ AnswersTrue' /\ OwnersTrue' /\ BackfillTrue'
  BY <1>1, <1>4, NothingIs DEF HandTrue, AnswersTrue, Acked, OwnersTrue, Handling, BackfillTrue
<1> QED  BY <1>2, <1>3, <1>4, <1>5

LEMMA InitHolds ==
  ASSUME CollectorInit
  PROVE  CInv
<1>1. /\ tour \in Tours /\ disk = [p \in Files |-> 0] /\ rows = [p \in Files |-> None] /\ known = Head(tour.hubs)
      /\ pass = Idle /\ holds = [h \in Hubs |-> [p \in Files |-> <<>>]]
  BY DEF CollectorInit
<1>2. /\ tour = [versions |-> tour.versions, modes |-> tour.modes, hubs |-> tour.hubs, faults |-> tour.faults,
                 purge |-> tour.purge]
      /\ DOMAIN tour.versions = Files
      /\ \A p \in Files : /\ tour.versions[p] \in Seq(Range(tour.versions[p]))
                          /\ \A c \in Range(tour.versions[p]) : c # <<>> /\ c \in Seq(Range(c))
      /\ tour.modes \in Seq(Modes) /\ tour.hubs \in Seq(Hubs) /\ tour.hubs # <<>>
      /\ tour.purge \subseteq Range(Owners) /\ Range(Owners) \cap Images = {}
      /\ "die" \in tour.faults => \A p \in Files : NeverReturns(tour.versions[p])
  BY <1>1, CollectorAssumption
<1>3. TourTrue
  <2>1. DOMAIN tour = {"versions", "modes", "hubs", "faults", "purge"}
    BY <1>2
  <2>2. \A p \in Files : Versions(tour.versions[p])
    BY <1>2 DEF Versions, Listing
  <2>3. tour.purge \cap Images = {}
    BY <1>2
  <2> QED  BY <1>2, <2>1, <2>2, <2>3 DEF TourTrue
<1>4. DiskTrue
  BY <1>1, <1>3, ContentsIs DEF DiskTrue, TourTrue
<1>5. StoresTrue
  <2>1. known \in Hubs
    BY <1>1, <1>2
  <2> QED  BY <1>1, <2>1 DEF StoresTrue, RowTyped, None
<1>6. RowsTrue
  BY <1>1 DEF RowsTrue, RowTrue, RowTrueAt, None
<1>7. AssetsFollow
  BY <1>1 DEF AssetsFollow, Files
<1> QED  BY <1>1, <1>3, <1>4, <1>5, <1>6, <1>7, IdleIs DEF CInv

LEMMA ExitKeeps ==
  ASSUME CInv, Exit
  PROVE  CInv'
<1>1. pass.pc = "done" /\ pass' = Idle /\ UNCHANGED <<tour, disk, rows, scans, known, holds>>
  BY DEF Exit
<1>2. Steady
  BY <1>1, TourSteady DEF CInv
<1>3. Unsure = {}
  <2>1. pass.bodies = <<>>
    BY <1>1 DEF CInv, PhasesTrue, Sending
  <2> QED  BY <1>1, <2>1, NothingIs DEF Unsure, Sending
<1>4. RowsTrue'
  BY <1>1, <1>2, <1>3, RowsStay DEF CInv
<1>5. StoresTrue' /\ DiskTrue' /\ AssetsFollow' /\ TourTrue'
  BY <1>1, <1>2, SimpleStores, SimpleDisk, FollowStays DEF CInv, Steady
<1> QED  BY <1>1, <1>4, <1>5, IdleNext DEF CInv

(* What is lost with the process is no lost knowledge: the file never again *)
(* has the bytes of its row.                                                *)
LEMMA KillKeeps ==
  ASSUME CInv, Kill
  PROVE  CInv'
<1>1. Fault("die") /\ pass' = Idle /\ UNCHANGED <<disk, rows, scans, known, holds>>
  BY DEF Kill
<1>2. Steady
  BY <1>1, TourSteady DEF CInv, TourFaults
<1>3. \A p \in Files : NeverReturns(tour.versions[p])
  BY <1>1 DEF Fault, CInv, TourTrue
<1>4. RowsTrue'
  <2> SUFFICES ASSUME NEW p \in Files PROVE RowTrue(p)'
    BY DEF RowsTrue
  <2>1. RowTrue(p) /\ NeverReturns(tour.versions[p])
    BY <1>3 DEF CInv, RowsTrue
  <2>2. RowTrueAt(p, tour.versions[p], disk[p], rows[p], holds[known][p], p \in tour.purge, FALSE)
    BY <2>1 DEF RowTrue, RowTrueAt
  <2>3. p \notin Unsure'
    BY <1>1, IdleNext
  <2>4. RowTrueAt(p, tour.versions[p], disk[p], rows[p], holds[known][p], p \in tour.purge, p \in Unsure')
    BY <2>2, <2>3 DEF RowTrueAt
  <2> QED  BY <2>4, <1>1, <1>2 DEF RowTrue, Steady
<1>5. StoresTrue' /\ DiskTrue' /\ AssetsFollow' /\ TourTrue'
  BY <1>1, <1>2, SimpleStores, SimpleDisk, FollowStays DEF CInv, Steady
<1> QED  BY <1>1, <1>4, <1>5, IdleNext DEF CInv

(* An idle pass stays so when something else moves.                         *)
LEMMA StaysIdle ==
  ASSUME pass.pc = "idle", pass' = pass, PhasesTrue, ListsTrue
  PROVE  /\ ListsTrue' /\ PhasesTrue' /\ HandTrue' /\ AnswersTrue' /\ OwnersTrue' /\ BackfillTrue'
         /\ Unsure' = Unsure
<1>1. /\ pass.chunk = <<>> /\ pass.hashed = <<>> /\ pass.missing = <<>> /\ pass.bodies = <<>> /\ pass.parents = <<>>
      /\ pass.owner = NoItem /\ pass.assets = <<>>
  BY DEF PhasesTrue, Sending
<1>2. ListsTrue' /\ PhasesTrue'
  BY DEF ListsTrue, PhasesTrue
<1>3. ReadItems' = {} /\ Items' = {} /\ Unsure' = Unsure
  BY <1>1, NothingIs DEF ReadItems, Items, Unsure, Sending, Handling
<1>4. HandTrue' /\ AnswersTrue' /\ OwnersTrue' /\ BackfillTrue'
  BY <1>1, <1>3, NothingIs DEF HandTrue, AnswersTrue, Acked, OwnersTrue, Handling, BackfillTrue
<1> QED  BY <1>2, <1>3, <1>4

LEMMA RepointKeeps ==
  ASSUME CInv, Repoint
  PROVE  CInv'
<1>1. /\ pass.pc = "idle" /\ Len(tour.hubs) > 1 /\ tour' = [tour EXCEPT !.hubs = Tail(@)]
      /\ UNCHANGED <<disk, rows, scans, known, pass, holds>>
  BY DEF Repoint
<1>2. TourTrue /\ tour.hubs \in Seq(Hubs) /\ tour.hubs # <<>> /\ Tail(tour.hubs) \in Seq(Hubs) /\ Tail(tour.hubs) # <<>>
  <2>1. TourTrue /\ tour.hubs \in Seq(Hubs) /\ tour.hubs # <<>>
    BY DEF CInv, TourTrue
  <2>2. Tail(tour.hubs) \in Seq(Hubs) /\ Len(Tail(tour.hubs)) = Len(tour.hubs) - 1 /\ Len(tour.hubs) \in Nat
    BY <2>1
  <2>3. Tail(tour.hubs) # <<>>
    <3>1. Listing(Tail(tour.hubs))
      BY <2>2, SequenceLists
    <3> QED  BY <3>1, <2>2, <1>1, ListingIs
  <2> QED  BY <2>1, <2>2, <2>3
<1>3. /\ DOMAIN tour' = DOMAIN tour /\ tour'.hubs = Tail(tour.hubs) /\ tour'.versions = tour.versions
      /\ tour'.purge = tour.purge /\ tour'.modes = tour.modes /\ tour'.faults = tour.faults
  BY <1>1, <1>2 DEF TourTrue
<1>4. Steady
  BY <1>2, <1>3 DEF TourTrue, Steady
<1>5. StoresTrue' /\ DiskTrue' /\ AssetsFollow' /\ TourTrue'
  BY <1>1, <1>4, SimpleStores, SimpleDisk, FollowStays DEF CInv, Steady
<1>6. RowsTrue'
  BY <1>1, <1>4, StaysIdle, RowsStay DEF CInv
<1> QED  BY <1>1, <1>5, <1>6, StaysIdle DEF CInv

LEMMA LoseKeeps ==
  ASSUME CInv, NEW p \in Files, Lose(p)
  PROVE  CInv'
<1>1. /\ pass.pc = "idle" /\ p \in tour.purge /\ UNCHANGED <<tour, disk, rows, scans, known, pass>>
      /\ holds' = [holds EXCEPT ![known][p] = <<>>]
  BY DEF Lose
<1>2. Steady
  BY <1>1, TourSteady DEF CInv
<1>3. known \in Hubs /\ DOMAIN holds = Hubs /\ \A h \in Hubs : DOMAIN holds[h] = Files
  BY DEF CInv, StoresTrue
<1>4. /\ DOMAIN holds' = Hubs /\ \A h \in Hubs : DOMAIN holds'[h] = Files
      /\ \A h \in Hubs : \A q \in Files : h # known \/ q # p => holds'[h][q] = holds[h][q]
  BY <1>1, <1>3
<1>5. StoresTrue' /\ DiskTrue' /\ TourTrue'
  BY <1>1, <1>2, <1>4, SimpleDisk DEF CInv, StoresTrue, Steady
<1>6. RowsTrue'
  <2> SUFFICES ASSUME NEW q \in Files PROVE RowTrue(q)'
    BY DEF RowsTrue
  <2>1. RowTrue(q) /\ Unsure' = Unsure
    BY <1>1, StaysIdle DEF CInv, RowsTrue
  <2>2. CASE q = p
    <3>1. RowTrueAt(q, tour.versions[q], disk[q], rows[q], holds'[known][q], TRUE, q \in Unsure)
      BY <2>1, <2>2, <1>1 DEF RowTrue, RowTrueAt
    <3>2. q \in tour.purge
      BY <2>2, <1>1
    <3> QED  BY <3>1, <3>2, <2>1, <1>1 DEF RowTrue, RowTrueAt
  <2>3. CASE q # p
    <3>1. holds'[known'][q] = holds[known][q]
      BY <2>3, <1>1, <1>3, <1>4
    <3> QED  BY <3>1, <2>1, <1>1, <1>2, RowStays
  <2> QED  BY <2>2, <2>3
<1>7. AssetsFollow'
  <2> SUFFICES ASSUME NEW h \in Hubs, NEW a \in Images, holds'[h][a] # <<>>
               PROVE  \E q \in Range(Owners) : /\ \E v \in Range(tour.versions[q]) : a \in Range(v)
                                               /\ (holds'[h][q] # <<>> \/ q \in tour.purge)
    BY <1>1 DEF AssetsFollow
  <2>1. a \in Files /\ a # p
    BY <1>1 DEF Files, CInv, TourTrue
  <2>2. holds[h][a] # <<>>
    BY <2>1, <1>3, <1>4
  <2>3. PICK q \in Range(Owners) : /\ \E v \in Range(tour.versions[q]) : a \in Range(v)
                                   /\ (holds[h][q] # <<>> \/ q \in tour.purge)
    BY <2>2 DEF CInv, AssetsFollow
  <2>4. q \in Files /\ (q = p => q \in tour.purge)
    BY <1>1 DEF Files
  <2> QED  BY <2>3, <2>4, <1>4
<1> QED  BY <1>1, <1>5, <1>6, <1>7, StaysIdle DEF CInv

LEMMA StartKeeps ==
  ASSUME CInv, Start
  PROVE  CInv'
<1>1. PICK mode : mode = (IF tour.modes = <<>> THEN "run" ELSE Head(tour.modes))
  OBVIOUS
<1>2. /\ pass.pc = "idle"
      /\ pass' = [Idle EXCEPT !.pc = "scan", !.mode = mode, !.todo = Owners, !.seen = [p \in Files |-> disk[p]]]
      /\ tour' = [tour EXCEPT !.modes = IF tour.modes = <<>> THEN tour.modes ELSE Tail(tour.modes)]
      /\ known' = Head(tour.hubs) /\ UNCHANGED <<disk, holds>>
  BY <1>1 DEF Start
<1>3. /\ tour.modes \in Seq(Modes) /\ tour.hubs \in Seq(Hubs) /\ tour.hubs # <<>> /\ TourTrue
  BY DEF CInv, TourTrue
<1>4. mode \in Modes /\ Head(tour.hubs) \in Hubs
  BY <1>1, <1>3 DEF Modes
<1>5. (IF tour.modes = <<>> THEN tour.modes ELSE Tail(tour.modes)) \in Seq(Modes)
  BY <1>3
<1>6. /\ DOMAIN tour' = DOMAIN tour /\ tour'.hubs = tour.hubs /\ tour'.versions = tour.versions
      /\ tour'.purge = tour.purge /\ tour'.modes \in Seq(Modes) /\ tour'.faults = tour.faults
  BY <1>2, <1>3, <1>5 DEF TourTrue
<1>7. Steady
  BY <1>3, <1>6 DEF TourTrue, Steady
<1>8. /\ DOMAIN pass' = PassFields /\ pass'.pc = "scan" /\ pass'.mode = mode /\ pass'.todo = Owners /\ pass'.bad = FALSE
      /\ pass'.seen = [p \in Files |-> disk[p]]
      /\ pass'.chunk = <<>> /\ pass'.hashed = <<>> /\ pass'.there = {} /\ pass'.missing = <<>> /\ pass'.bodies = <<>>
      /\ pass'.unsent = {} /\ pass'.landing = FALSE /\ pass'.parents = <<>> /\ pass'.answered = FALSE
      /\ pass'.owner = NoItem /\ pass'.assets = <<>> /\ pass'.changed = FALSE /\ pass'.whole = FALSE /\ pass'.failed = FALSE
  BY <1>2 DEF Idle, PassFields
<1>9. ListsTrue'
  <2>1. Once(Owners)
    BY CollectorAssumption DEF Once, Listing
  <2> QED  BY <1>8, <2>1, NothingIs DEF ListsTrue, Sending, Handling
<1>10. PhasesTrue'
  BY <1>8, <1>4 DEF PhasesTrue, PassPcs, Sending
<1>11. ReadItems' = {} /\ Items' = {} /\ Unsure' = {}
  BY <1>8, NothingIs DEF ReadItems, Items, Unsure, Sending, Handling
<1>12. HandTrue'
  <2>1. disk \in [Files -> Nat]
    BY DEF CInv, DiskTrue
  <2> QED  BY <1>2, <1>8, <1>11, <2>1 DEF HandTrue
<1>13. AnswersTrue' /\ OwnersTrue'
  BY <1>8, NothingIs DEF AnswersTrue, Acked, OwnersTrue, Handling
<1>14. BackfillTrue'
  <2>1. \A p \in Range(Owners) : p \in InHand'
    BY <1>8 DEF InHand
  <2>2. \A p \in Range(Owners) : FileSent(p)' /\ AssetsSent(p)'
    BY <2>1 DEF FileSent, AssetsSent
  <2> QED  BY <2>2, <1>8 DEF BackfillTrue
<1>15. \/ known = Head(tour.hubs) /\ UNCHANGED <<rows, scans>>
       \/ rows' = [p \in Files |-> IF rows[p] = None THEN None ELSE [rows[p] EXCEPT !.status = "pending"]]
  BY DEF Start
<1>16. StoresTrue' /\ RowsTrue'
  <2>0. StoresTrue /\ RowsTrue
    BY DEF CInv
  <2>1. CASE known = Head(tour.hubs) /\ UNCHANGED <<rows, scans>>
    <3>1. Unsure = {}
      <4>1. pass.bodies = <<>>
        BY <1>2 DEF CInv, PhasesTrue, Sending
      <4> QED  BY <1>2, <4>1, NothingIs DEF Unsure, Sending
    <3> QED  BY <2>0, <2>1, <3>1, <1>2, <1>7, RowsStay, SimpleStores
  <2>2. CASE rows' = [p \in Files |-> IF rows[p] = None THEN None ELSE [rows[p] EXCEPT !.status = "pending"]]
    <3>1. ASSUME NEW p \in Files PROVE RowTyped(rows'[p]) /\ rows'[p].status # "ok"
      <4>1. RowTyped(rows[p])
        BY <2>0 DEF StoresTrue
      <4>2. CASE rows[p] = None
        <5>1. rows'[p] = None
          BY <2>2, <4>2
        <5> QED  BY <5>1 DEF RowTyped, None
      <4>3. CASE rows[p] # None
        <5>1. rows'[p] = [rows[p] EXCEPT !.status = "pending"]
          BY <2>2, <4>3
        <5>2. /\ DOMAIN rows'[p] = DOMAIN rows[p] /\ rows'[p].status = "pending" /\ rows'[p].size = rows[p].size
              /\ rows'[p].mtime = rows[p].mtime
          BY <5>1, <4>1 DEF RowTyped
        <5> QED  BY <5>2, <4>1 DEF RowTyped
      <4> QED  BY <4>2, <4>3
    <3>2. DOMAIN rows' = Files /\ known' \in Hubs
      BY <2>2, <1>2, <1>4
    <3> QED  BY <2>0, <3>1, <3>2, <1>2 DEF StoresTrue, RowsTrue, RowTrue, RowTrueAt
  <2> QED  BY <1>15, <2>1, <2>2
<1>17. DiskTrue' /\ AssetsFollow' /\ TourTrue'
  BY <1>2, <1>7, SimpleDisk, FollowStays DEF CInv, Steady
<1> QED  BY <1>9, <1>10, <1>12, <1>13, <1>14, <1>16, <1>17 DEF CInv

(* A file moves on under a pass.                                            *)
LEMMA ChangeKeeps ==
  ASSUME CInv, NEW p \in Files, Change(p)
  PROVE  CInv'
<1>1. /\ disk[p] < Len(tour.versions[p]) /\ disk' = [disk EXCEPT ![p] = disk[p] + 1]
      /\ UNCHANGED <<tour, rows, scans, known, pass, holds>>
  BY DEF Change
<1>2. /\ TourTrue /\ disk \in [Files -> Nat] /\ (\A q \in Files : disk[q] <= Len(tour.versions[q])) /\ StoresTrue
      /\ ListsTrue /\ PhasesTrue /\ AnswersTrue /\ RowsTrue /\ HandTrue /\ OwnersTrue /\ AssetsFollow
  BY DEF CInv, DiskTrue
<1>3. Steady
  BY <1>1, <1>2, TourSteady
<1>4. disk' \in [Files -> Nat] /\ disk'[p] = disk[p] + 1 /\ \A q \in Files : q # p => disk'[q] = disk[q]
  BY <1>1, <1>2
<1>5. Versions(tour.versions[p])
  BY <1>2 DEF TourTrue
<1>6. DiskTrue'
  <2>1. Len(tour.versions[p]) \in Nat
    BY <1>5, ContentsIs
  <2>2. \A q \in Files : disk'[q] <= Len(tour.versions[q])
    BY <2>1, <1>1, <1>2, <1>4
  <2> QED  BY <2>2, <1>1, <1>4 DEF DiskTrue
<1>7. /\ RowTrueAt(p, tour.versions[p], disk[p] + 1, rows[p], holds[known][p], p \in tour.purge, p \in Unsure)
      /\ ~(rows[p].status = "ok" /\ NeverReturns(tour.versions[p]) /\ RecursIn(rows[p].sha, tour.versions[p], disk[p] + 1))
  <2>1. RowTyped(rows[p]) /\ RowTrueAt(p, tour.versions[p], disk[p], rows[p], holds[known][p], p \in tour.purge, p \in Unsure)
    BY <1>2 DEF StoresTrue, RowsTrue, RowTrue
  <2>2. disk[p] \in Nat
    BY <1>2
  <2> QED  BY <2>1, <2>2, <1>1, <1>5, ChangedRow
<1>8. /\ Items' = Items /\ ReadItems' = ReadItems /\ Unsure' = Unsure /\ InHand' = InHand
  BY <1>1 DEF Items, ReadItems, Unsure, InHand
<1>9. RowsTrue'
  <2> SUFFICES ASSUME NEW q \in Files PROVE RowTrue(q)'
    BY DEF RowsTrue
  <2>1. CASE q = p
    BY <2>1, <1>7, <1>8, <1>1, <1>4 DEF RowTrue
  <2>2. CASE q # p
    <3>1. RowTrue(q)
      BY <1>2 DEF RowsTrue
    <3> QED  BY <3>1, <2>2, <1>1, <1>3, <1>4, <1>8, RowStays
  <2> QED  BY <2>1, <2>2
<1>10. ReadItems \subseteq Items
  BY DEF Items
<1>11. ASSUME NEW i \in Items PROVE Looked(i)' /\ (HasRead(i) => HasRead(i)')
  <2>1. Looked(i) /\ i.path \in Files
    BY <1>2 DEF HandTrue, Looked, LookedAt
  <2>2. CASE i.path = p
    <3>1. pass.pc # "idle"
      <4>1. SUFFICES ASSUME pass.pc = "idle" PROVE FALSE
        OBVIOUS
      <4>2. pass.chunk = <<>> /\ pass.hashed = <<>> /\ pass.missing = <<>> /\ pass.bodies = <<>>
        BY <4>1, <1>2 DEF PhasesTrue, Sending
      <4> QED  BY <4>1, <4>2, NothingIs DEF Items, ReadItems, Sending, Handling
    <3>2. pass.seen[p] \in Nat /\ disk[p] \in Nat
      BY <3>1, <1>2 DEF HandTrue
    <3>3. LookedAt(i, tour.versions[p], disk[p], pass.seen[p], rows[p])
      BY <2>1, <2>2 DEF Looked
    <3>4. /\ LookedAt(i, tour.versions[p], disk[p] + 1, pass.seen[p], rows[p])
          /\ (HasReadAt(i, tour.versions[p], disk[p], pass.seen[p]) => HasReadAt(i, tour.versions[p], disk[p] + 1, pass.seen[p]))
      BY <3>2, <3>3, <1>1, <1>5, <1>7, ChangedItem
    <3> QED  BY <3>4, <2>2, <1>1, <1>4 DEF Looked, HasRead
  <2>3. CASE i.path # p
    <3>1. disk'[i.path] = disk[i.path]
      BY <2>1, <2>3, <1>4
    <3> QED  BY <3>1, <2>1, <1>1, <1>3, LookedStays
  <2> QED  BY <2>2, <2>3
<1>12. HandTrue'
  <2>1. pass.pc # "idle" => pass.seen \in [Files -> Nat] /\ \A q \in Files : pass.seen[q] <= disk'[q]
    <3>1. SUFFICES ASSUME pass.pc # "idle", NEW q \in Files PROVE pass.seen \in [Files -> Nat] /\ pass.seen[q] <= disk'[q]
      BY <1>2 DEF HandTrue
    <3>2. pass.seen \in [Files -> Nat] /\ pass.seen[q] <= disk[q] /\ disk[q] \in Nat /\ pass.seen[q] \in Nat
      BY <3>1, <1>2 DEF HandTrue
    <3>3. disk'[q] = disk[q] \/ disk'[q] = disk[q] + 1
      BY <1>4
    <3> QED  BY <3>2, <3>3
  <2> QED  BY <2>1, <1>1, <1>2, <1>8, <1>10, <1>11 DEF HandTrue
<1>13. AnswersTrue' /\ ListsTrue' /\ PhasesTrue' /\ StoresTrue' /\ AssetsFollow' /\ TourTrue'
  BY <1>1, <1>2, <1>3, SimpleStores, FollowStays DEF AnswersTrue, Acked, ListsTrue, PhasesTrue, Steady
<1>14. OwnersTrue'
  BY <1>1, <1>2 DEF OwnersTrue, Offered, Mentions
<1>15. BackfillTrue'
  <2> SUFFICES ASSUME pass.mode = "backfill", ~pass.bad, pass.pc # "idle"
               PROVE  /\ pass.owner # NoItem => ~pass.owner.snapshot /\ pass.changed
                      /\ \A q \in Range(Owners) : Same(q)' => FileSent(q)' /\ (q \notin Databases => AssetsSent(q)')
    BY <1>1 DEF BackfillTrue
  <2>1. /\ pass.owner # NoItem => ~pass.owner.snapshot /\ pass.changed
        /\ \A q \in Range(Owners) : Same(q) => FileSent(q) /\ (q \notin Databases => AssetsSent(q))
    BY DEF CInv, BackfillTrue
  <2>2. ~Same(p)'
    <3>1. pass.seen[p] <= disk[p] /\ pass.seen[p] \in Nat /\ disk[p] \in Nat
      BY <1>2 DEF HandTrue
    <3> QED  BY <3>1, <1>1, <1>4 DEF Same
  <2>3. \A q \in Files : q # p => Same(q)' = Same(q) /\ Content(q)' = Content(q)
    BY <1>1, <1>4 DEF Same, Content
  <2>4. ASSUME NEW q \in Range(Owners), Same(q)' PROVE FileSent(q)' /\ (q \notin Databases => AssetsSent(q)')
    <3>1. q \in Files /\ q # p
      BY <2>2, <2>4 DEF Files
    <3>2. FileSent(q) /\ (q \notin Databases => AssetsSent(q)) /\ Content(q)' = Content(q) /\ References(q)' = References(q)
      BY <2>1, <2>3, <2>4, <3>1 DEF References
    <3>3. FileSent(q)'
      BY <3>2, <1>1, <1>8 DEF FileSent
    <3>4. \A a \in References(q) : a \in Files
      BY DEF References, Files
    <3>5. \A a \in References(q) : Same(a)' => Same(a) /\ Content(a)' = Content(a)
      BY <3>4, <2>2, <2>3
    <3>6. \A a \in References(q) : Same(a)' => (AssetOwed(q, a) => AssetOwed(q, a)')
      BY <3>5, <1>1 DEF AssetOwed, AtWork
    <3>7. q \notin Databases => AssetsSent(q)'
      BY <3>2, <3>5, <3>6, <1>1, <1>8 DEF AssetsSent
    <3> QED  BY <3>3, <3>7
  <2> QED  BY <2>1, <2>4
<1> QED  BY <1>6, <1>9, <1>12, <1>13, <1>14, <1>15 DEF CInv

(* What a file is when it is looked at.                                     *)
LEMMA ItemLooked ==
  ASSUME CInv, NEW p \in Range(Owners), disk[p] # 0
  PROVE  LookedAt(ItemOf(p), tour.versions[p], disk[p], disk[p], rows[p]) /\ ItemOf(p).path = p
<1>1. p \in Files /\ p \notin Images
  BY CollectorAssumption DEF Files
<1>2. disk[p] \in Nat /\ disk[p] \in 1..disk[p]
  BY <1>1 DEF CInv, DiskTrue
<1> DEFINE i == ItemOf(p)
<1>3. /\ DOMAIN i = ItemFields /\ i.path = p /\ i.size = Size(p) /\ i.mtime = Mtime(p) /\ i.snapshot = (p \in Databases)
      /\ p \in Databases => i.sha = Content(p)
  BY DEF ItemOf, ItemFields
<1> HIDE DEF i
<1>4. Since(i, disk[p]) = disk[p]
  BY <1>1, <1>3 DEF Since
<1>5. Content(p) = tour.versions[p][disk[p]] /\ Size(p) = Len(Content(p)) /\ Mtime(p) = IF p \in Databases THEN 0 ELSE disk[p]
  BY DEF Content, Size, Mtime
<1>6. LookedAt(i, tour.versions[p], disk[p], disk[p], rows[p])
  <2>1. i.snapshot = (i.path \in Databases \cup Images)
    <3>1. (i.path \in Databases \cup Images) = (p \in Databases)
      BY <1>1, <1>3
    <3> QED  BY <3>1, <1>3
  <2>2. /\ i.size = Len(tour.versions[p][disk[p]]) /\ i.mtime = (IF i.path \in Databases THEN 0 ELSE disk[p])
        /\ (p \in Databases => i.sha = tour.versions[p][disk[p]])
    BY <1>3, <1>5
  <2>3. i.snapshot => i.sha = tour.versions[p][disk[p]]
    BY <2>2, <1>3
  <2>4. disk[p] <= disk[p]
    BY <1>2
  <2> QED  BY <2>1, <2>2, <2>3, <2>4, <1>1, <1>2, <1>3, <1>4 DEF LookedAt
<1> QED  BY <1>3, <1>6 DEF i

LEMMA StatKeeps ==
  ASSUME CInv, Stat
  PROVE  CInv'
<1>1. pass.pc = "scan" /\ pass.todo # <<>> /\ UNCHANGED <<disk, rows, scans, known, holds>>
  BY DEF Stat
<1>2. PICK p : p = Head(pass.todo)
  OBVIOUS
<1>3. Steady
  <2>1. UNCHANGED tour \/ Fault("locked")
    BY DEF Stat
  <2> QED  BY <2>1, TourSteady DEF CInv, TourFaults
<1>4. /\ ListsTrue /\ PhasesTrue /\ HandTrue /\ StoresTrue /\ RowsTrue /\ DOMAIN pass = PassFields
      /\ disk \in [Files -> Nat] /\ pass.seen \in [Files -> Nat] /\ (\A q \in Files : pass.seen[q] <= disk[q])
  BY <1>1 DEF CInv, DiskTrue, HandTrue, PhasesTrue
<1>5. /\ pass.hashed = <<>> /\ pass.missing = <<>> /\ pass.bodies = <<>> /\ pass.parents = <<>> /\ pass.owner = NoItem
      /\ pass.assets = <<>> /\ (pass.mode = "run" => pass.chunk = <<>>)
  BY <1>1, <1>4 DEF PhasesTrue, Sending
<1>6. /\ Once(Tail(pass.todo)) /\ Range(pass.todo) = {p} \cup Range(Tail(pass.todo)) /\ p \notin Range(Tail(pass.todo))
  BY <1>1, <1>2, <1>4, OnceTail DEF ListsTrue
<1>7. p \in Range(Owners) /\ p \in Files /\ p \notin Images /\ p \notin Paths(pass.chunk)
  BY <1>4, <1>6, CollectorAssumption DEF ListsTrue, Files
<1> DEFINE on == [pass EXCEPT !.todo = Tail(pass.todo), !.seen[p] = disk[p]]
<1>8. \/ disk[p] = 0 /\ pass' = on
      \/ disk[p] # 0 /\ pass.mode = "run" /\ pass' = [on EXCEPT !.pc = "look", !.item = ItemOf(p)]
      \/ disk[p] # 0 /\ pass.mode # "run" /\ pass' = [on EXCEPT !.chunk = Append(pass.chunk, ItemOf(p))]
      \/ disk[p] # 0 /\ pass' = [on EXCEPT !.bad = TRUE]
  BY <1>2 DEF Stat
<1>9. /\ DOMAIN pass' = PassFields /\ pass'.todo = Tail(pass.todo) /\ pass'.seen = [pass.seen EXCEPT ![p] = disk[p]]
      /\ pass'.mode = pass.mode /\ pass'.hashed = pass.hashed /\ pass'.there = pass.there /\ pass'.missing = pass.missing
      /\ pass'.bodies = pass.bodies /\ pass'.unsent = pass.unsent /\ pass'.landing = pass.landing
      /\ pass'.parents = pass.parents /\ pass'.answered = pass.answered /\ pass'.owner = pass.owner
      /\ pass'.assets = pass.assets /\ pass'.found = pass.found /\ pass'.changed = pass.changed
      /\ pass'.whole = pass.whole /\ pass'.failed = pass.failed
  BY <1>4, <1>8 DEF PassFields
<1>10. \/ disk[p] = 0 /\ pass'.pc = pass.pc /\ pass'.item = pass.item /\ pass'.chunk = pass.chunk /\ pass'.bad = pass.bad
       \/ /\ disk[p] # 0 /\ pass.mode = "run" /\ pass'.pc = "look" /\ pass'.item = ItemOf(p)
          /\ pass'.chunk = pass.chunk /\ pass'.bad = pass.bad
       \/ /\ disk[p] # 0 /\ pass.mode # "run" /\ pass'.pc = pass.pc /\ pass'.item = pass.item
          /\ pass'.chunk = Append(pass.chunk, ItemOf(p)) /\ pass'.bad = pass.bad
       \/ disk[p] # 0 /\ pass'.pc = pass.pc /\ pass'.item = pass.item /\ pass'.chunk = pass.chunk /\ pass'.bad = TRUE
  BY <1>4, <1>8 DEF PassFields
<1> HIDE DEF on
<1>11. disk[p] # 0 => LookedAt(ItemOf(p), tour.versions[p], disk[p], disk[p], rows[p])
  BY <1>7, ItemLooked
<1>12. ItemOf(p).path = p
  BY DEF ItemOf
<1>13. \/ pass'.chunk = pass.chunk
       \/ /\ OncePath(pass'.chunk) /\ Range(pass'.chunk) = Range(pass.chunk) \cup {ItemOf(p)}
          /\ Paths(pass'.chunk) = Paths(pass.chunk) \cup {p} /\ disk[p] # 0 /\ pass.mode # "run"
  <2>1. OncePath(pass.chunk) /\ ItemOf(p).path \notin Paths(pass.chunk)
    BY <1>4, <1>7, <1>12 DEF ListsTrue
  <2>2. /\ OncePath(Append(pass.chunk, ItemOf(p))) /\ Range(Append(pass.chunk, ItemOf(p))) = Range(pass.chunk) \cup {ItemOf(p)}
        /\ Paths(Append(pass.chunk, ItemOf(p))) = Paths(pass.chunk) \cup {ItemOf(p).path}
    BY <2>1, PathAppend
  <2> QED  BY <2>2, <1>10, <1>12
<1>14. ListsTrue'
  <2>1. OncePath(pass'.chunk) /\ Paths(pass'.chunk) \subseteq Paths(pass.chunk) \cup {p}
    BY <1>13, <1>4 DEF ListsTrue
  <2>2. Paths(pass.hashed) = {} /\ Paths(pass.missing) = {} /\ Paths(pass.bodies) = {}
    BY <1>5, NothingIs
  <2>3. Range(pass'.todo) \cap Paths(pass'.chunk) = {}
    BY <2>1, <1>4, <1>6, <1>9 DEF ListsTrue
  <2>4. pass'.pc \in Handling => pass'.pc = "look" /\ pass'.item.path = p
    BY <1>1, <1>10, <1>12 DEF Handling
  <2>5. /\ Once(pass'.todo) /\ Range(pass'.todo) \subseteq Range(Owners)
    BY <1>4, <1>6, <1>9 DEF ListsTrue
  <2>6. Paths(pass'.chunk) \subseteq Range(Owners)
    BY <2>1, <1>4, <1>7 DEF ListsTrue
  <2> QED  BY <2>1, <2>2, <2>3, <2>4, <2>5, <2>6, <1>4, <1>5, <1>7, <1>9 DEF ListsTrue, Sending, Handling
<1>15. PhasesTrue'
  <2>1. pass'.pc \in {"scan", "look"} /\ (pass'.pc = "look" => pass.mode = "run") /\ (pass'.chunk # <<>> => pass'.pc = "scan" /\ pass.mode # "run")
    BY <1>1, <1>5, <1>10
  <2>2. pass'.bad \in BOOLEAN
    BY <1>4, <1>10 DEF PhasesTrue
  <2> QED  BY <2>1, <2>2, <1>1, <1>4, <1>5, <1>9 DEF PhasesTrue, PassPcs, Sending
<1>16. /\ ReadItems' = {} /\ Unsure' = {} /\ Unsure = {}
       /\ \A i \in Items' : i \in Range(pass.chunk) \/ (i = ItemOf(p) /\ disk[p] # 0)
  <2>1. pass'.pc \notin Sending /\ (pass'.pc \in Handling => pass'.item = ItemOf(p) /\ disk[p] # 0) /\ pass.pc \notin Sending
    BY <1>1, <1>10 DEF Sending, Handling
  <2>2. Range(pass'.chunk) = Range(pass.chunk) \/ (Range(pass'.chunk) = Range(pass.chunk) \cup {ItemOf(p)} /\ disk[p] # 0)
    BY <1>13
  <2> QED  BY <2>1, <2>2, <1>5, <1>9, NothingIs DEF ReadItems, Items, Unsure
<1>17. pass'.seen \in [Files -> Nat] /\ pass'.seen[p] = disk[p] /\ \A q : q # p => pass'.seen[q] = pass.seen[q]
  BY <1>4, <1>7, <1>9
<1>18. HandTrue'
  <2>1. \A q \in Files : pass'.seen[q] <= disk'[q]
    BY <1>1, <1>4, <1>17
  <2>2. ASSUME NEW i \in Items' PROVE Looked(i)'
    <3>1. CASE i \in Range(pass.chunk)
      <4>1. Looked(i) /\ i.path # p
        BY <3>1, <1>4, <1>7 DEF HandTrue, Items, Paths
      <4> QED  BY <4>1, <1>1, <1>3, <1>17, LookedStays
    <3>2. CASE i = ItemOf(p) /\ disk[p] # 0
      <4>1. tour'.versions = tour.versions
        BY <1>3 DEF Steady
      <4> QED  BY <4>1, <3>2, <1>1, <1>11, <1>12, <1>17 DEF Looked
    <3> QED  BY <3>1, <3>2, <1>16
  <2> QED  BY <2>1, <2>2, <1>16, <1>17 DEF HandTrue
<1>19. AnswersTrue'
  <2>1. pass'.pc # "record" /\ Acked' = {}
    BY <1>1, <1>5, <1>9, <1>10, NothingIs DEF Acked
  <2> QED  BY <2>1 DEF AnswersTrue
<1>20. RowsTrue'
  BY <1>1, <1>3, <1>4, <1>16, RowsStay
<1>21. OwnersTrue'
  BY <1>5, <1>9, NothingIs DEF OwnersTrue
<1>22. BackfillTrue'
  <2>0. \A q, a : ~AssetOwed(q, a)
    BY <1>1, NothingOwed DEF Handling
  <2>1. SUFFICES ASSUME pass'.mode = "backfill", ~pass'.bad
                 PROVE  /\ ~pass.bad
                        /\ \A q \in Range(Owners) : Same(q)' => Same(q) \/ q \in InHand'
                        /\ \A a \in Images : Same(a)' => Same(a)
                        /\ \A q \in Range(Owners) : Same(q)' /\ q \in InHand => q \in InHand'
    <3>1. pass'.owner = NoItem /\ pass.pc # "assets" /\ pass.pc # "idle" /\ Paths(pass.parents) = {}
      BY <1>1, <1>5, <1>9, NothingIs
    <3>2. \A q \in InHand' : FileSent(q)' /\ AssetsSent(q)'
      BY DEF FileSent, AssetsSent
    <3>3. BackfillTrue /\ pass'.mode = pass.mode
      BY <1>9 DEF CInv
    <3> QED  BY <2>0, <2>1, <3>1, <3>2, <3>3, <1>1, <1>3, BackfillStep
  <2>2. ~pass.bad /\ (disk[p] # 0 => p \in Paths(pass'.chunk))
    <3>1. pass.mode # "run" /\ pass'.chunk # pass.chunk => p \in Paths(pass'.chunk)
      BY <1>13
    <3>2. \A s : OncePath(s) /\ ItemOf(p).path \notin Paths(s) => ItemOf(p).path \in Paths(Append(s, ItemOf(p)))
      BY PathAppend
    <3>3. pass'.chunk = Append(pass.chunk, ItemOf(p)) => p \in Paths(pass'.chunk)
      BY <3>2, <1>4, <1>7, <1>12 DEF ListsTrue
    <3> QED  BY <2>1, <3>3, <1>9, <1>10
  <2>3. \A q : q # p => Same(q)' = Same(q)
    BY <1>1, <1>17 DEF Same
  <2>4. Same(p)' => p \in Paths(pass'.chunk)
    BY <2>2, <1>1 DEF Same
  <2>5. Paths(pass'.chunk) \subseteq InHand' /\ \A q \in InHand : q # p => q \in InHand'
    BY <1>6, <1>9, <1>13, <1>16 DEF InHand
  <2> QED  BY <2>2, <2>3, <2>4, <2>5, <1>7
<1>23. StoresTrue' /\ DiskTrue' /\ AssetsFollow' /\ TourTrue'
  BY <1>1, <1>3, SimpleStores, SimpleDisk, FollowStays DEF CInv, Steady
<1> QED  BY <1>14, <1>15, <1>18, <1>19, <1>20, <1>21, <1>22, <1>23 DEF CInv

(* A reading of what is in hand.                                            *)
LEMMA ReadsGives ==
  ASSUME CInv, pass.pc # "idle", NEW i, Looked(i), NEW j, j = [i EXCEPT !.sha = Reads(i)]
  PROVE  /\ Looked(j) /\ HasRead(j) /\ j.path = i.path /\ j.size = i.size /\ j.mtime = i.mtime
         /\ j.snapshot = i.snapshot /\ j.sha = Reads(i)
<1>1. PICK p : p = i.path
  OBVIOUS
<1>2. PICK versions : versions = tour.versions[p]
  OBVIOUS
<1>3. PICK d : d = disk[p]
  OBVIOUS
<1>4. PICK s : s = pass.seen[p]
  OBVIOUS
<1>5. LookedAt(i, versions, d, s, rows[p])
  BY <1>1, <1>2, <1>3, <1>4 DEF Looked
<1>6. DOMAIN i = ItemFields /\ p \in Files
  BY <1>1, <1>5 DEF LookedAt
<1>7. Versions(versions) /\ d \in Nat /\ d <= Len(versions) /\ s \in Nat
  BY <1>2, <1>3, <1>4, <1>6 DEF CInv, TourTrue, DiskTrue, HandTrue
<1>8. /\ Since(i, s) \in 1..d /\ d # 0 /\ i.size \in Nat \ {0} /\ i.size = Len(versions[Since(i, s)])
      /\ (i.snapshot => i.sha = versions[Since(i, s)])
  BY <1>5, <1>7, LookedIs DEF LookedAt
<1>9. /\ DOMAIN j = ItemFields /\ j.path = i.path /\ j.size = i.size /\ j.mtime = i.mtime
      /\ j.snapshot = i.snapshot /\ j.sha = Reads(i)
  BY <1>6 DEF ItemFields
<1>10. Since(j, s) = Since(i, s)
  BY <1>9 DEF Since
<1>11. Reads(i) = IF i.snapshot THEN i.sha ELSE Prefix(versions[d], i.size)
  BY <1>1, <1>2, <1>3, <1>8 DEF Reads, Content
<1>12. j.snapshot => j.sha = versions[Since(i, s)]
  BY <1>8, <1>9, <1>11
<1>13. LookedAt(j, versions, d, s, rows[p])
  BY <1>5, <1>9, <1>10, <1>12 DEF LookedAt
<1>14. HasReadAt(j, versions, d, s)
  <2>1. CASE i.snapshot
    <3>1. Since(i, s) \in 1..Len(versions)
      BY <1>7, <1>8, ContentsIs
    <3>2. Listing(versions[Since(i, s)]) /\ Len(versions[Since(i, s)]) \in Nat
      BY <3>1, <1>7, ContentsIs
    <3>3. Prefix(versions[Since(i, s)], i.size) = versions[Since(i, s)]
      BY <3>2, <1>8, PrefixIs
    <3>4. Since(i, s) \in Since(i, s)..d
      BY <1>8
    <3> QED  BY <3>3, <3>4, <2>1, <1>9, <1>10, <1>12 DEF HasReadAt
  <2>2. CASE ~i.snapshot
    <3>0. d \in Since(i, s)..d
      BY <1>7, <1>8
    <3>1. j.sha = Prefix(versions[d], i.size)
      BY <2>2, <1>9, <1>11
    <3> QED  BY <3>0, <3>1, <1>9, <1>10 DEF HasReadAt
  <2> QED  BY <2>1, <2>2
<1> QED  BY <1>1, <1>2, <1>3, <1>4, <1>9, <1>13, <1>14 DEF Looked, HasRead

(* What was looked at and read, by the lemmas on one file.                  *)
LEMMA ReadIs ==
  ASSUME CInv, pass.pc # "idle", NEW i, Looked(i)
  PROVE  /\ i.path \in Files /\ DOMAIN i = ItemFields /\ i.size \in Nat \ {0} /\ i.mtime \in Nat /\ disk[i.path] # 0
         /\ i.snapshot = (i.path \in Databases \cup Images)
         /\ HasRead(i) => /\ i.sha # <<>>
                          /\ Same(i.path) => i.sha = Content(i.path)
<1>1. LookedAt(i, tour.versions[i.path], disk[i.path], pass.seen[i.path], rows[i.path])
  BY DEF Looked
<1>2. i.path \in Files /\ DOMAIN i = ItemFields /\ i.snapshot = (i.path \in Databases \cup Images)
  BY <1>1 DEF LookedAt
<1>3. /\ Versions(tour.versions[i.path]) /\ disk[i.path] \in Nat /\ disk[i.path] <= Len(tour.versions[i.path])
      /\ pass.seen[i.path] \in Nat
  BY <1>2 DEF CInv, TourTrue, DiskTrue, HandTrue
<1>4. /\ i.size \in Nat \ {0} /\ i.mtime \in Nat /\ disk[i.path] # 0
      /\ disk[i.path] = pass.seen[i.path] => Since(i, pass.seen[i.path]) = disk[i.path]
      /\ HasReadAt(i, tour.versions[i.path], disk[i.path], pass.seen[i.path]) =>
           i.sha # <<>> /\ (Since(i, pass.seen[i.path]) = disk[i.path] => i.sha = tour.versions[i.path][disk[i.path]])
  BY <1>1, <1>3, LookedIs
<1> QED  BY <1>2, <1>4 DEF HasRead, Same, Content

(* A file, or an asset of one, is done with: its answer is known.           *)
LEMMA HandledKeeps ==
  ASSUME CInv, pass.pc \in {"look", "record"}, pass.mode = "run" \/ pass.owner # NoItem,
         Steady, UNCHANGED <<disk, known, holds>>, NEW ok \in BOOLEAN, NEW changed \in BOOLEAN, pass' = Handled(ok, changed),
         ok /\ pass.owner = NoItem => Offered(pass.item.path),
         ok /\ pass.mode = "backfill" /\ ~pass.bad /\ Same(pass.item.path) => holds[known][pass.item.path] = Content(pass.item.path)
  PROVE  /\ ListsTrue' /\ PhasesTrue' /\ HandTrue' /\ AnswersTrue' /\ OwnersTrue' /\ BackfillTrue'
         /\ Unsure' = {}
<1>1. /\ ListsTrue /\ PhasesTrue /\ HandTrue /\ OwnersTrue /\ BackfillTrue /\ DOMAIN pass = PassFields
      /\ pass.mode \in Modes /\ {pass.bad, pass.failed} \subseteq BOOLEAN
  BY DEF CInv, PhasesTrue
<1>2. /\ pass.chunk = <<>> /\ pass.hashed = <<>> /\ pass.missing = <<>> /\ pass.bodies = <<>>
      /\ (pass.owner = NoItem => pass.parents = <<>> /\ pass.mode = "run" /\ ~pass.landing)
  BY <1>1 DEF PhasesTrue, Sending
<1>3. /\ Looked(pass.item) /\ pass.item.path \in Files /\ pass.item.size # 0
      /\ (pass.owner = NoItem => pass.item.path \in Range(Owners)) /\ (pass.owner # NoItem => pass.item.path \in Images)
  <2>1. pass.pc \in Handling
    BY DEF Handling
  <2>2. Looked(pass.item)
    BY <2>1, <1>1 DEF HandTrue, Items
  <2>3. pass.item.path \in Files /\ pass.item.size \in Nat \ {0}
    BY <2>2, ReadIs
  <2> QED  BY <2>1, <2>2, <2>3, <1>1 DEF ListsTrue
<1>4. pass.item # NoItem
  BY <1>3 DEF NoItem
<1>5. /\ DOMAIN pass' = PassFields /\ pass'.item = NoItem
      /\ pass'.mode = pass.mode /\ pass'.todo = pass.todo /\ pass'.seen = pass.seen /\ pass'.chunk = pass.chunk
      /\ pass'.hashed = pass.hashed /\ pass'.there = pass.there /\ pass'.missing = pass.missing
      /\ pass'.bodies = pass.bodies /\ pass'.unsent = pass.unsent /\ pass'.landing = pass.landing
      /\ pass'.parents = pass.parents /\ pass'.answered = pass.answered /\ pass'.assets = pass.assets
      /\ pass'.found = pass.found /\ pass'.whole = pass.whole
  BY <1>1 DEF Handled, PassFields
<1>6. \/ /\ pass.owner = NoItem /\ ok /\ pass'.pc = "assets" /\ pass'.owner = pass.item
         /\ pass'.changed = changed /\ pass'.failed = pass.failed /\ pass'.bad = pass.bad
      \/ /\ pass.owner = NoItem /\ ~ok /\ pass'.pc = "scan" /\ pass'.owner = NoItem
         /\ pass'.changed = changed /\ pass'.failed = pass.failed /\ pass'.bad = TRUE
      \/ /\ pass.owner # NoItem /\ pass'.pc = "snapshot" /\ pass'.owner = pass.owner
         /\ pass'.changed = pass.changed /\ pass'.failed = (pass.failed \/ ~ok) /\ pass'.bad = (pass.bad \/ ~ok)
  <2>1. CASE pass.owner = NoItem /\ ok
    BY <2>1, <1>1 DEF Handled, PassFields
  <2>2. CASE pass.owner = NoItem /\ ~ok
    BY <2>2, <1>1 DEF Handled, PassFields
  <2>3. CASE pass.owner # NoItem
    BY <2>3, <1>1 DEF Handled, PassFields
  <2> QED  BY <2>1, <2>2, <2>3
<1>7. ListsTrue'
  <2>1. pass'.pc \notin Handling
    BY <1>6 DEF Handling
  <2>2. pass'.pc \notin Sending
    BY <1>6 DEF Sending
  <2> QED  BY <2>1, <2>2, <1>1, <1>5 DEF ListsTrue
<1>8. PhasesTrue'
  <2>1. {pass'.bad, pass'.changed, pass'.failed, pass'.landing, pass'.answered, pass'.whole} \subseteq BOOLEAN
    <3>1. {pass.bad, pass.landing, pass.answered, pass.changed, pass.whole, pass.failed} \subseteq BOOLEAN
      BY <1>1 DEF PhasesTrue
    <3>2. pass'.bad \in BOOLEAN /\ pass'.failed \in BOOLEAN /\ pass'.changed \in BOOLEAN
      <4>1. (pass.bad \/ ~ok) \in BOOLEAN /\ (pass.failed \/ ~ok) \in BOOLEAN
        OBVIOUS
      <4> QED  BY <4>1, <3>1, <1>6
    <3> QED  BY <3>1, <3>2, <1>5
  <2>2. CASE pass.owner = NoItem
    <3>1. pass.there = {}
      BY <2>2, <1>1, <1>2, NothingIs DEF PhasesTrue
    <3> QED  BY <2>1, <2>2, <3>1, <1>1, <1>2, <1>4, <1>5, <1>6 DEF PhasesTrue, PassPcs, Sending
  <2>3. CASE pass.owner # NoItem
    BY <2>1, <2>3, <1>1, <1>2, <1>5, <1>6 DEF PhasesTrue, PassPcs, Sending
  <2> QED  BY <2>2, <2>3
<1>9. ReadItems' = {} /\ Items' = {} /\ Unsure' = {} /\ Unsure \subseteq {pass.item.path}
  BY <1>2, <1>5, <1>6, NothingIs DEF ReadItems, Items, Unsure, Handling, Sending
<1>10. HandTrue'
  BY <1>1, <1>5, <1>9 DEF HandTrue
<1>11. AnswersTrue'
  <2>1. pass'.pc # "record" /\ Acked' = {}
    BY <1>2, <1>5, <1>6, NothingIs DEF Acked
  <2> QED  BY <2>1 DEF AnswersTrue
<1>12. \A p : (Offered(p) => Offered(p)') /\ \A a : Mentions(p, a)' = Mentions(p, a)
  BY OfferedStays
<1>13. OwnersTrue'
  <2>1. CASE pass.owner = NoItem
    <3>1. pass'.parents = <<>> /\ pass'.assets = <<>>
      BY <2>1, <1>1, <1>2, <1>5 DEF PhasesTrue
    <3> QED  BY <3>1, <2>1, <1>6, <1>12, NothingIs DEF OwnersTrue, Handling
  <2>2. CASE pass.owner # NoItem
    BY <2>2, <1>1, <1>5, <1>6, <1>12 DEF OwnersTrue, Handling
  <2> QED  BY <2>1, <2>2
<1>14. BackfillTrue'
  <2>1. SUFFICES ASSUME pass'.mode = "backfill", ~pass'.bad
                 PROVE  /\ ~pass.bad /\ pass'.owner = pass.owner /\ pass'.changed = pass.changed
                        /\ \A q \in Range(Owners) : q \in InHand => q \in InHand'
                        /\ \A q \in Range(Owners) : q \in Paths(pass.parents) => q \in Paths(pass'.parents)
                        /\ \A q \in Range(Owners) : \A a \in Images :
                             Same(a)' /\ AssetOwed(q, a) => AssetOwed(q, a)' \/ holds'[known][a] = Content(a)
    <3>1. pass.pc # "idle" /\ pass.pc # "assets" /\ pass'.mode = pass.mode
      BY <1>5
    <3>2. \A q \in InHand' : FileSent(q)' /\ AssetsSent(q)'
      BY DEF FileSent, AssetsSent
    <3>3. \A q \in Paths(pass'.parents) : AssetsSent(q)'
      BY DEF AssetsSent
    <3>4. \A q : Same(q)' = Same(q)
      BY <1>5 DEF Same
    <3> QED  BY <2>1, <3>1, <3>2, <3>3, <3>4, <1>1, BackfillStep
  <2>2. /\ pass.owner # NoItem /\ ok /\ ~pass.bad /\ pass'.pc = "snapshot" /\ pass.mode = "backfill"
        /\ pass'.owner = pass.owner /\ pass'.changed = pass.changed
    BY <2>1, <1>2, <1>5, <1>6
  <2>3. \A q \in Range(Owners) : q \in InHand => q \in InHand'
    <3>1. pass.item.path \notin Range(Owners)
      BY <2>2, <1>3, CollectorAssumption
    <3> QED  BY <3>1, <1>2, <1>5, <1>9 DEF InHand
  <2>4. ASSUME NEW q \in Range(Owners), NEW a \in Images, Same(a)', AssetOwed(q, a)
        PROVE  AssetOwed(q, a)' \/ holds'[known][a] = Content(a)
    <3>1. tour'.versions = tour.versions /\ Content(a)' = Content(a)
      BY DEF Steady, Content
    <3>2. CASE pass.owner.path = q /\ a \in Range(pass.assets) /\ pass.found[a] = Content(a)
      BY <3>1, <3>2, <2>2, <1>5 DEF AssetOwed, AtWork, Handling
    <3>3. CASE pass.item.path = a
      <4>1. Same(a)
        BY <2>4, <1>5 DEF Same
      <4> QED  BY <4>1, <3>3, <2>2
    <3> QED  BY <3>2, <3>3, <2>4 DEF AssetOwed
  <2> QED  BY <2>2, <2>3, <2>4, <1>5
<1> QED  BY <1>7, <1>8, <1>9, <1>10, <1>11, <1>13, <1>14

(* One row is written.                                                      *)
LEMMA RowsPut ==
  ASSUME CInv, Steady, UNCHANGED <<disk, holds, known>>, NEW p \in Files, NEW r, RowTyped(r), rows' = [rows EXCEPT ![p] = r],
         RowTrueAt(p, tour.versions[p], disk[p], r, holds[known][p], p \in tour.purge, p \in Unsure'),
         \A q \in Files : q # p /\ q \in Unsure => q \in Unsure'
  PROVE  StoresTrue' /\ RowsTrue'
<1>1. StoresTrue /\ RowsTrue /\ DOMAIN rows = Files
  BY DEF CInv, StoresTrue
<1>2. DOMAIN rows' = Files /\ rows'[p] = r /\ \A q \in Files : q # p => rows'[q] = rows[q]
  BY <1>1
<1>3. StoresTrue'
  BY <1>1, <1>2 DEF StoresTrue
<1>4. RowsTrue'
  <2> SUFFICES ASSUME NEW q \in Files PROVE RowTrue(q)'
    BY DEF RowsTrue
  <2>1. CASE q = p
    <3>1. tour'.versions = tour.versions /\ tour'.purge = tour.purge
      BY DEF Steady
    <3> QED  BY <3>1, <2>1, <1>2 DEF RowTrue
  <2>2. CASE q # p
    <3>1. RowTrue(q)
      BY <1>1 DEF RowsTrue
    <3> QED  BY <3>1, <2>2, <1>2, RowStays
  <2> QED  BY <2>1, <2>2
<1> QED  BY <1>3, <1>4

LEMMA RowOfIs ==
  ASSUME NEW i, i.size \in Nat, i.mtime \in Nat, NEW sha, NEW status \in {"ok", "error"}
  PROVE  RowTyped(RowOf(i, sha, status)) /\ RowOf(i, sha, status).status = status
BY DEF RowTyped, RowOf

LEMMA LookAtKeeps ==
  ASSUME CInv, LookAt
  PROVE  CInv'
<1>1. pass.pc = "look" /\ UNCHANGED <<disk, scans, known, holds>>
  BY DEF LookAt
<1>2. PICK item : item = pass.item
  OBVIOUS
<1>3. PICK sha : sha = Reads(item)
  OBVIOUS
<1>4. PICK p : p = item.path
  OBVIOUS
<1>5. \/ Unchanged(item) /\ pass' = Handled(TRUE, FALSE) /\ UNCHANGED <<tour, rows>>
      \/ /\ rows' = [rows EXCEPT ![p] = RowOf(item, rows[p].sha, "error")]
         /\ pass' = Handled(FALSE, TRUE) /\ UNCHANGED tour
      \/ /\ Fault("read") /\ rows' = [rows EXCEPT ![p] = IF rows[p] = None THEN rows[p] ELSE [rows[p] EXCEPT !.status = "error"]]
         /\ pass' = Handled(FALSE, FALSE)
      \/ /\ SameBytes(item, sha) /\ rows' = [rows EXCEPT ![p] = RowOf(item, sha, "ok")]
         /\ pass' = Handled(TRUE, TRUE) /\ UNCHANGED tour
      \/ /\ pass' = [pass EXCEPT !.pc = "send", !.item.sha = sha] /\ UNCHANGED <<tour, rows>>
  BY <1>2, <1>3, <1>4 DEF LookAt
<1>6. Steady
  <2>1. UNCHANGED tour \/ Fault("read")
    BY <1>5
  <2> QED  BY <2>1, TourSteady DEF CInv, TourFaults
<1>7. /\ ListsTrue /\ PhasesTrue /\ HandTrue /\ OwnersTrue /\ BackfillTrue /\ StoresTrue /\ RowsTrue
      /\ DOMAIN pass = PassFields /\ pass.mode \in Modes
  BY DEF CInv, PhasesTrue
<1>8. /\ Looked(item) /\ (pass.owner = NoItem => p \in Range(Owners)) /\ (pass.owner # NoItem => p \in Images)
      /\ (pass.mode = "run" \/ pass.owner # NoItem)
  BY <1>1, <1>2, <1>4, <1>7 DEF HandTrue, Items, Handling, ListsTrue, PhasesTrue
<1>9. /\ p \in Files /\ item.size \in Nat \ {0} /\ item.mtime \in Nat /\ disk[p] # 0 /\ DOMAIN item = ItemFields
      /\ item.snapshot = (p \in Databases \cup Images)
  BY <1>1, <1>4, <1>8, ReadIs
<1>10. RowTyped(rows[p]) /\ RowTrue(p)
  BY <1>7, <1>9 DEF StoresTrue, RowsTrue
<1>11. /\ pass.chunk = <<>> /\ pass.hashed = <<>> /\ pass.missing = <<>> /\ pass.bodies = <<>> /\ Unsure = {}
  <2>1. pass.chunk = <<>> /\ pass.hashed = <<>> /\ pass.missing = <<>> /\ pass.bodies = <<>>
    BY <1>1, <1>7 DEF PhasesTrue, Sending
  <2> QED  BY <2>1, <1>1, NothingIs DEF Unsure, Sending
<1>12. DiskTrue' /\ AssetsFollow' /\ TourTrue'
  BY <1>1, <1>6, SimpleDisk, FollowStays DEF CInv, Steady
<1>13. PICK j : j = [item EXCEPT !.sha = sha]
  OBVIOUS
<1>14. /\ Looked(j) /\ HasRead(j) /\ j.path = p /\ j.size = item.size /\ j.mtime = item.mtime
       /\ j.snapshot = item.snapshot /\ j.sha = sha
  BY <1>1, <1>3, <1>4, <1>8, <1>13, ReadsGives
<1>15. rows[p].status = "ok" => Offered(p) \/ p \notin Range(Owners)
  BY <1>10 DEF RowTrue, RowTrueAt, Offered
<1>16. CASE Unchanged(item) /\ pass' = Handled(TRUE, FALSE) /\ UNCHANGED <<tour, rows>>
  <2>1. ~item.snapshot /\ rows[p].status = "ok"
    BY <1>16, <1>4 DEF Unchanged
  <2>2. pass.owner = NoItem /\ pass.mode = "run" /\ Offered(p)
    BY <2>1, <1>8, <1>9, <1>15
  <2>3. /\ ListsTrue' /\ PhasesTrue' /\ HandTrue' /\ AnswersTrue' /\ OwnersTrue' /\ BackfillTrue'
    BY <2>2, <1>1, <1>2, <1>4, <1>6, <1>16, HandledKeeps
  <2>4. StoresTrue' /\ RowsTrue'
    BY <1>1, <1>6, <1>7, <1>11, <1>16, RowsStay, SimpleStores
  <2> QED  BY <2>3, <2>4, <1>12 DEF CInv
<1>17. CASE /\ rows' = [rows EXCEPT ![p] = RowOf(item, rows[p].sha, "error")]
            /\ pass' = Handled(FALSE, TRUE)
  <2>1. /\ ListsTrue' /\ PhasesTrue' /\ HandTrue' /\ AnswersTrue' /\ OwnersTrue' /\ BackfillTrue' /\ Unsure' = {}
    BY <1>1, <1>6, <1>8, <1>17, HandledKeeps
  <2>2. PICK r : r = RowOf(item, rows[p].sha, "error")
    OBVIOUS
  <2>3. RowTyped(r) /\ r.status = "error"
    BY <2>2, <1>9, RowOfIs
  <2>4. StoresTrue' /\ RowsTrue'
    BY <2>1, <2>2, <2>3, <1>1, <1>6, <1>9, <1>11, <1>17, RowsPut, RowLost
  <2> QED  BY <2>1, <2>4, <1>12 DEF CInv
<1>18. CASE /\ rows' = [rows EXCEPT ![p] = IF rows[p] = None THEN rows[p] ELSE [rows[p] EXCEPT !.status = "error"]]
            /\ pass' = Handled(FALSE, FALSE)
  <2>1. /\ ListsTrue' /\ PhasesTrue' /\ HandTrue' /\ AnswersTrue' /\ OwnersTrue' /\ BackfillTrue' /\ Unsure' = {}
    BY <1>1, <1>6, <1>8, <1>18, HandledKeeps
  <2>2. PICK r : r = IF rows[p] = None THEN rows[p] ELSE [rows[p] EXCEPT !.status = "error"]
    OBVIOUS
  <2>3. RowTyped(r) /\ r.status # "ok"
    <3>1. CASE rows[p] = None
      BY <3>1, <2>2, <1>10 DEF None
    <3>2. CASE rows[p] # None
      <4>1. /\ DOMAIN r = DOMAIN rows[p] /\ r.status = "error" /\ r.size = rows[p].size /\ r.mtime = rows[p].mtime
        BY <3>2, <2>2, <1>10 DEF RowTyped
      <4> QED  BY <4>1, <1>10 DEF RowTyped
    <3> QED  BY <3>1, <3>2
  <2>4. StoresTrue' /\ RowsTrue'
    BY <2>1, <2>2, <2>3, <1>1, <1>6, <1>9, <1>11, <1>18, RowsPut, RowLost
  <2> QED  BY <2>1, <2>4, <1>12 DEF CInv
<1>19. CASE /\ SameBytes(item, sha) /\ rows' = [rows EXCEPT ![p] = RowOf(item, sha, "ok")]
            /\ pass' = Handled(TRUE, TRUE)
  <2>1. rows[p].status = "ok" /\ rows[p].sha = sha
    BY <1>19, <1>4 DEF SameBytes
  <2>2. p \notin tour.purge => /\ holds[known][p] # <<>>
                               /\ (RecursIn(sha, tour.versions[p], disk[p]) => holds[known][p] = sha)
    BY <2>1, <1>10, <1>11 DEF RowTrue, RowTrueAt
  <2>3. Same(p) /\ p \in Images => holds[known][p] = Content(p)
    <3>1. SUFFICES ASSUME Same(p), p \in Images PROVE holds[known][p] = Content(p)
      OBVIOUS
    <3>2. sha = Content(p) /\ Content(p) = tour.versions[p][disk[p]]
      BY <3>1, <1>1, <1>9, <1>14, ReadIs DEF Content
    <3>3. p \notin tour.purge
      BY <3>1 DEF CInv, TourTrue
    <3>4. disk[p] \in disk[p]..Len(tour.versions[p])
      <4>1. Versions(tour.versions[p]) /\ disk[p] \in Nat /\ disk[p] <= Len(tour.versions[p])
        BY <1>9 DEF CInv, TourTrue, DiskTrue
      <4>2. Len(tour.versions[p]) \in Nat
        BY <4>1, ContentsIs
      <4> QED  BY <4>1, <4>2
    <3> QED  BY <3>2, <3>3, <3>4, <2>2 DEF RecursIn
  <2>4. /\ ListsTrue' /\ PhasesTrue' /\ HandTrue' /\ AnswersTrue' /\ OwnersTrue' /\ BackfillTrue' /\ Unsure' = {}
    <3>1. pass.owner = NoItem => Offered(pass.item.path)
      BY <2>1, <1>2, <1>4, <1>8, <1>15
    <3>2. pass.mode = "backfill" /\ Same(pass.item.path) => holds[known][pass.item.path] = Content(pass.item.path)
      BY <2>3, <1>2, <1>4, <1>8
    <3> QED  BY <3>1, <3>2, <1>1, <1>6, <1>8, <1>19, HandledKeeps
  <2>5. PICK r : r = RowOf(item, sha, "ok")
    OBVIOUS
  <2>6. RowTyped(r) /\ r = RowOf(j, j.sha, "ok")
    <3>1. RowTyped(r)
      BY <2>5, <1>9, RowOfIs
    <3> QED  BY <3>1, <2>5, <1>14 DEF RowOf
  <2>7. RowTrueAt(p, tour.versions[p], disk[p], r, holds[known][p], p \in tour.purge, p \in Unsure')
    <3>1. Versions(tour.versions[p]) /\ disk[p] \in Nat /\ disk[p] <= Len(tour.versions[p]) /\ pass.seen[p] \in Nat
      BY <1>1, <1>9 DEF CInv, TourTrue, DiskTrue, HandTrue
    <3>2. LookedAt(j, tour.versions[p], disk[p], pass.seen[p], rows[p]) /\ HasReadAt(j, tour.versions[p], disk[p], pass.seen[p])
      BY <1>14 DEF Looked, HasRead
    <3>3. RowTrueAt(j.path, tour.versions[p], disk[p], RowOf(j, j.sha, "ok"), holds[known][p], p \in tour.purge, p \in Unsure')
      BY <3>1, <3>2, <2>2, <1>14, RowHolds
    <3> QED  BY <3>3, <2>6, <1>14
  <2>8. StoresTrue' /\ RowsTrue'
    BY <2>5, <2>6, <2>7, <1>1, <1>6, <1>9, <1>11, <1>19, RowsPut
  <2> QED  BY <2>4, <2>8, <1>12 DEF CInv
<1>20. CASE pass' = [pass EXCEPT !.pc = "send", !.item.sha = sha] /\ UNCHANGED <<tour, rows>>
  <2>1. /\ DOMAIN pass' = PassFields /\ pass'.pc = "send" /\ pass'.item = j
        /\ pass'.mode = pass.mode /\ pass'.todo = pass.todo /\ pass'.bad = pass.bad /\ pass'.seen = pass.seen
        /\ pass'.chunk = pass.chunk /\ pass'.hashed = pass.hashed /\ pass'.there = pass.there
        /\ pass'.missing = pass.missing /\ pass'.bodies = pass.bodies /\ pass'.unsent = pass.unsent
        /\ pass'.landing = pass.landing /\ pass'.parents = pass.parents /\ pass'.answered = pass.answered
        /\ pass'.owner = pass.owner /\ pass'.assets = pass.assets /\ pass'.found = pass.found
        /\ pass'.changed = pass.changed /\ pass'.whole = pass.whole /\ pass'.failed = pass.failed
    BY <1>2, <1>7, <1>13, <1>20 DEF PassFields
  <2>2. ListsTrue'
    BY <2>1, <1>7, <1>8, <1>11, <1>14, NothingIs DEF ListsTrue
  <2>3. PhasesTrue'
    BY <2>1, <1>1, <1>7, <1>8, <1>11 DEF PhasesTrue, PassPcs, Sending
  <2>4. Items' = {j} /\ ReadItems' = {j} /\ Unsure' = {p}
    BY <2>1, <1>11, <1>14, NothingIs DEF Items, ReadItems, Unsure, Handling, Sending
  <2>5. HandTrue'
    <3>1. Looked(j)' /\ HasRead(j)'
      BY <2>1, <1>1, <1>6, <1>14, <1>20, LookedStays
    <3> QED  BY <3>1, <2>1, <2>4, <1>1, <1>7 DEF HandTrue
  <2>6. AnswersTrue'
    BY <2>1, <1>11, NothingIs DEF AnswersTrue, Acked
  <2>7. StoresTrue' /\ RowsTrue'
    BY <1>1, <1>6, <1>7, <1>11, <1>20, RowsStay, SimpleStores
  <2>8. OwnersTrue'
    <3>1. \A q \in Files : (Offered(q) => Offered(q)')
      BY <1>1, <1>6, OfferedStays
    <3>2. \A q : holds[known][q] # <<>> => holds'[known][q] # <<>>
      BY <1>1
    <3>3. pass'.owner = NoItem => Range(pass'.assets) = {}
      BY <2>1, <1>7, NothingIs DEF PhasesTrue
    <3>4. pass.pc \in Handling /\ pass'.item.path = pass.item.path
      BY <2>1, <1>1, <1>2, <1>4, <1>14 DEF Handling
    <3> QED  BY <3>2, <3>3, <3>4, <2>1, <1>1, <1>6, <1>7, OwnersStay
  <2>9. BackfillTrue'
    <3>1. InHand \subseteq InHand'
      BY <2>1, <2>4, <1>11 DEF InHand
    <3>2. \A q, a : AssetOwed(q, a) => AssetOwed(q, a)'
      <4>1. \A a : Content(a)' = Content(a)
        BY <1>1, <1>20 DEF Content
      <4>2. pass'.item.path = pass.item.path /\ pass.pc \in Handling /\ pass'.pc \in Handling /\ AtWork'
        BY <2>1, <1>1, <1>2, <1>4, <1>14 DEF Handling, AtWork
      <4> QED  BY <4>1, <4>2, <2>1 DEF AssetOwed
    <3> QED  BY <3>1, <3>2, <2>1, <1>1, <1>6, <1>7, BackfillStays
  <2> QED  BY <2>2, <2>3, <2>5, <2>6, <2>7, <2>8, <2>9, <1>12 DEF CInv
<1> QED  BY <1>5, <1>16, <1>17, <1>18, <1>19, <1>20

(* What is sent is what was read, of a file that is on its way.             *)
LEMMA HoldsPut ==
  ASSUME CInv, Steady, UNCHANGED <<disk, rows, known>>, pass.pc # "idle", NEW i \in ReadItems, i.path \in Unsure,
         Unsure' = Unsure, holds' = [holds EXCEPT ![known][i.path] = i.sha],
         i.path \in Images => Mentions(pass.owner.path, i.path) /\ Offered(pass.owner.path)
  PROVE  /\ StoresTrue' /\ RowsTrue' /\ AssetsFollow'
         /\ \A q \in Files : holds[known][q] # <<>> => holds'[known][q] # <<>>
         /\ holds'[known][i.path] = i.sha /\ \A q \in Files : q # i.path => holds'[known][q] = holds[known][q]
         /\ \A q \in Files : Same(q) /\ holds[known][q] = Content(q) => holds'[known][q] = Content(q)
<1>1. PICK p : p = i.path
  OBVIOUS
<1>2. Looked(i) /\ HasRead(i)
  BY DEF CInv, HandTrue, Items
<1>3. p \in Files /\ i.sha # <<>> /\ (Same(p) => i.sha = Content(p))
  BY <1>1, <1>2, ReadIs
<1>4. known \in Hubs /\ DOMAIN holds = Hubs /\ (\A h \in Hubs : DOMAIN holds[h] = Files) /\ RowsTrue /\ StoresTrue
  BY DEF CInv, StoresTrue
<1>5. /\ DOMAIN holds' = Hubs /\ \A h \in Hubs : DOMAIN holds'[h] = Files
      /\ holds'[known][p] = i.sha
      /\ \A h \in Hubs : \A q \in Files : h # known \/ q # p => holds'[h][q] = holds[h][q]
  BY <1>1, <1>3, <1>4
<1>6. StoresTrue'
  BY <1>4, <1>5 DEF StoresTrue
<1>7. RowsTrue'
  <2> SUFFICES ASSUME NEW q \in Files PROVE RowTrue(q)'
    BY DEF RowsTrue
  <2>0. RowTrue(q)
    BY <1>4 DEF RowsTrue
  <2>1. CASE q = p
    <3>1. /\ Versions(tour.versions[p]) /\ disk[p] \in Nat /\ disk[p] <= Len(tour.versions[p]) /\ pass.seen[p] \in Nat
      BY <1>3 DEF CInv, TourTrue, DiskTrue, HandTrue
    <3>2. LookedAt(i, tour.versions[p], disk[p], pass.seen[p], rows[p]) /\ HasReadAt(i, tour.versions[p], disk[p], pass.seen[p])
      BY <1>1, <1>2 DEF Looked, HasRead
    <3>3. RowTrueAt(i.path, tour.versions[p], disk[p], rows[p], holds[known][p], p \in tour.purge, TRUE)
      BY <2>0, <2>1, <1>1 DEF RowTrue, RowTrueAt
    <3>4. RowTrueAt(i.path, tour.versions[p], disk[p], rows[p], i.sha, p \in tour.purge, TRUE)
      BY <3>1, <3>2, <3>3, SentHolds
    <3>5. tour'.versions = tour.versions /\ tour'.purge = tour.purge /\ p \in Unsure'
      BY <1>1 DEF Steady
    <3>6. (p \in Unsure') = TRUE
      BY <3>5
    <3> QED  BY <3>4, <3>5, <3>6, <2>1, <1>1, <1>5 DEF RowTrue, RowTrueAt
  <2>2. CASE q # p
    <3>1. holds'[known'][q] = holds[known][q]
      BY <2>2, <1>4, <1>5
    <3> QED  BY <3>1, <2>0, RowStays
  <2> QED  BY <2>1, <2>2
<1>8. \A h \in Hubs : \A q \in Files : holds[h][q] # <<>> => holds'[h][q] # <<>>
  BY <1>3, <1>5
<1>9. AssetsFollow'
  <2>0. tour'.versions = tour.versions /\ tour'.purge = tour.purge
    BY DEF Steady
  <2> SUFFICES ASSUME NEW h \in Hubs, NEW a \in Images, holds'[h][a] # <<>>
               PROVE  \E q \in Range(Owners) : /\ \E v \in Range(tour.versions[q]) : a \in Range(v)
                                               /\ (holds'[h][q] # <<>> \/ q \in tour.purge)
    BY <2>0 DEF AssetsFollow
  <2>1. a \in Files /\ \A q \in Range(Owners) : q \in Files
    BY DEF Files
  <2>2. CASE holds[h][a] # <<>>
    <3>1. PICK q \in Range(Owners) : /\ \E v \in Range(tour.versions[q]) : a \in Range(v)
                                     /\ (holds[h][q] # <<>> \/ q \in tour.purge)
      BY <2>2 DEF CInv, AssetsFollow
    <3> QED  BY <3>1, <2>1, <1>8
  <2>3. CASE holds[h][a] = <<>>
    <3>1. h = known /\ a = p
      BY <2>1, <2>3, <1>5
    <3>2. Mentions(pass.owner.path, p) /\ Offered(pass.owner.path)
      BY <3>1, <1>1
    <3>3. pass.owner.path \in Range(Owners) /\ (pass.owner.path \in tour.purge \/ holds[known][pass.owner.path] # <<>>)
      BY <3>2 DEF Offered
    <3>4. pass.owner.path \in tour.purge \/ holds'[h][pass.owner.path] # <<>>
      BY <3>1, <3>3, <2>1, <1>8
    <3> QED  BY <3>1, <3>2, <3>3, <3>4 DEF Mentions
  <2> QED  BY <2>2, <2>3
<1> QED  BY <1>1, <1>3, <1>4, <1>5, <1>6, <1>7, <1>8, <1>9

LEMMA SendItemKeeps ==
  ASSUME CInv, SendItem
  PROVE  CInv'
<1>1. pass.pc = "send" /\ UNCHANGED <<disk, rows, scans, known>>
  BY DEF SendItem
<1>2. PICK item : item = pass.item
  OBVIOUS
<1>3. PICK ok \in BOOLEAN : /\ pass' = [pass EXCEPT !.pc = "record", !.answered = ok]
                            /\ \/ holds' = [holds EXCEPT ![known][item.path] = item.sha]
                               \/ UNCHANGED holds /\ ok = FALSE
  BY <1>2 DEF SendItem
<1>4. Steady
  <2>1. UNCHANGED tour \/ Fault("lost") \/ Fault("refuse")
    BY DEF SendItem
  <2> QED  BY <2>1, TourSteady DEF CInv, TourFaults
<1>5. /\ ListsTrue /\ PhasesTrue /\ HandTrue /\ OwnersTrue /\ BackfillTrue /\ StoresTrue /\ RowsTrue /\ AnswersTrue
      /\ AssetsFollow /\ DOMAIN pass = PassFields
  BY DEF CInv, PhasesTrue
<1>6. /\ DOMAIN pass' = PassFields /\ pass'.pc = "record" /\ pass'.answered = ok
      /\ pass'.mode = pass.mode /\ pass'.todo = pass.todo /\ pass'.bad = pass.bad /\ pass'.seen = pass.seen
      /\ pass'.chunk = pass.chunk /\ pass'.hashed = pass.hashed /\ pass'.there = pass.there
      /\ pass'.missing = pass.missing /\ pass'.bodies = pass.bodies /\ pass'.unsent = pass.unsent
      /\ pass'.landing = pass.landing /\ pass'.parents = pass.parents /\ pass'.item = pass.item
      /\ pass'.owner = pass.owner /\ pass'.assets = pass.assets /\ pass'.found = pass.found
      /\ pass'.changed = pass.changed /\ pass'.whole = pass.whole /\ pass'.failed = pass.failed
  BY <1>3, <1>5 DEF PassFields
<1>7. ListsTrue'
  BY <1>1, <1>5, <1>6 DEF ListsTrue, Sending, Handling
<1>8. PhasesTrue'
  BY <1>1, <1>3, <1>5, <1>6 DEF PhasesTrue, PassPcs, Sending
<1>9. /\ Items' = Items /\ ReadItems' = ReadItems /\ Unsure' = Unsure /\ InHand' = InHand
      /\ item \in ReadItems /\ item.path \in Unsure
  BY <1>1, <1>2, <1>6 DEF Items, ReadItems, Unsure, InHand, Handling, Sending
<1>10. HandTrue'
  BY <1>1, <1>4, <1>5, <1>6, <1>9, HandMoves
<1>11. item.path \in Images => Mentions(pass.owner.path, item.path) /\ Offered(pass.owner.path)
  BY <1>1, <1>2, <1>5, CollectorAssumption DEF ListsTrue, OwnersTrue, Handling
<1>12. /\ StoresTrue' /\ RowsTrue' /\ AssetsFollow'
       /\ \A q \in Files : holds[known][q] # <<>> => holds'[known][q] # <<>>
       /\ (ok => holds'[known][item.path] = item.sha) /\ \A q \in Files : q # item.path => holds'[known][q] = holds[known][q]
       /\ \A q \in Files : Same(q) /\ holds[known][q] = Content(q) => holds'[known][q] = Content(q)
  <2>1. CASE holds' = [holds EXCEPT ![known][item.path] = item.sha]
    <3>1. pass.pc # "idle"
      BY <1>1
    <3> QED  BY <3>1, <2>1, <1>1, <1>4, <1>9, <1>11, HoldsPut
  <2>2. CASE UNCHANGED holds /\ ok = FALSE
    BY <2>2, <1>1, <1>4, <1>5, <1>9, SimpleStores, RowsStay, FollowStays
  <2> QED  BY <2>1, <2>2, <1>3
<1>13. AnswersTrue'
  <2>1. Acked' = Range(pass.bodies) /\ Acked = Range(pass.bodies)
    BY <1>1, <1>6 DEF Acked
  <2>2. \A i \in Range(pass.bodies) : i.path \in Files /\ i.path # item.path
    BY <1>1, <1>2, <1>5 DEF ListsTrue, Sending, Paths, Files
  <2> QED  BY <2>1, <2>2, <1>1, <1>2, <1>5, <1>6, <1>12 DEF AnswersTrue
<1>14. OwnersTrue'
  <2>1. \A q \in Range(Owners) : holds[known][q] # <<>> => holds'[known][q] # <<>>
    BY <1>12 DEF Files
  <2>2. pass'.owner = NoItem => Range(pass'.assets) = {}
    BY <1>5, <1>6, NothingIs DEF PhasesTrue
  <2>3. pass.pc \in Handling
    BY <1>1 DEF Handling
  <2> QED  BY <2>1, <2>2, <2>3, <1>1, <1>4, <1>5, <1>6, OwnersStay
<1>15. BackfillTrue'
  <2>1. \A q : Same(q)' = Same(q) /\ Content(q)' = Content(q)
    BY <1>1, <1>4, <1>6 DEF Same, Content, Steady
  <2>2. \A q \in InHand' : FileSent(q)' /\ AssetsSent(q)'
    BY DEF FileSent, AssetsSent
  <2>3. \A q \in Paths(pass'.parents) : AssetsSent(q)'
    BY DEF AssetsSent
  <2>4. \A q, a : AssetOwed(q, a) => AssetOwed(q, a)'
    <3>1. pass.pc \in Handling /\ pass'.pc \in Handling /\ AtWork'
      BY <1>1, <1>6 DEF Handling, AtWork
    <3> QED  BY <3>1, <2>1, <1>6 DEF AssetOwed
  <2>5. pass.pc # "idle" /\ pass.pc # "assets"
    BY <1>1
  <2> QED  BY <2>1, <2>2, <2>3, <2>4, <2>5, <1>1, <1>4, <1>5, <1>6, <1>9, <1>12, BackfillStep
<1>16. DiskTrue' /\ TourTrue'
  BY <1>1, <1>4, SimpleDisk DEF CInv, Steady
<1> QED  BY <1>7, <1>8, <1>10, <1>12, <1>13, <1>14, <1>15, <1>16 DEF CInv

LEMMA SendBatchKeeps ==
  ASSUME CInv, SendBatch
  PROVE  CInv'
<1>1. pass.pc = "large" /\ pass.missing = <<>> /\ UNCHANGED <<disk, rows, scans, known>>
  BY DEF SendBatch
<1>2. PICK item \in Range(pass.bodies), ok \in BOOLEAN :
        /\ Took(item.path, ok)
        /\ \/ holds' = [holds EXCEPT ![known][item.path] = item.sha]
           \/ UNCHANGED holds /\ ok = FALSE
  BY DEF SendBatch
<1>3. pass' = [pass EXCEPT !.unsent = pass.unsent \ {item.path}, !.there = IF ok THEN pass.there \cup {item.path} ELSE pass.there]
  BY <1>2 DEF Took
<1>4. Steady
  <2>1. UNCHANGED tour \/ Fault("lost") \/ Fault("refuse")
    BY DEF SendBatch
  <2> QED  BY <2>1, TourSteady DEF CInv, TourFaults
<1>5. /\ ListsTrue /\ PhasesTrue /\ HandTrue /\ OwnersTrue /\ BackfillTrue /\ StoresTrue /\ RowsTrue /\ AnswersTrue
      /\ AssetsFollow /\ DOMAIN pass = PassFields /\ OncePath(pass.bodies) /\ Paths(pass.bodies) \subseteq Range(Owners)
  BY DEF CInv, PhasesTrue, ListsTrue
<1>6. /\ DOMAIN pass' = PassFields /\ pass'.unsent = pass.unsent \ {item.path}
      /\ pass'.there = (IF ok THEN pass.there \cup {item.path} ELSE pass.there)
      /\ pass'.pc = pass.pc /\ pass'.mode = pass.mode /\ pass'.todo = pass.todo /\ pass'.bad = pass.bad
      /\ pass'.seen = pass.seen /\ pass'.chunk = pass.chunk /\ pass'.hashed = pass.hashed
      /\ pass'.missing = pass.missing /\ pass'.bodies = pass.bodies /\ pass'.landing = pass.landing
      /\ pass'.parents = pass.parents /\ pass'.item = pass.item /\ pass'.answered = pass.answered
      /\ pass'.owner = pass.owner /\ pass'.assets = pass.assets /\ pass'.found = pass.found
      /\ pass'.changed = pass.changed /\ pass'.whole = pass.whole /\ pass'.failed = pass.failed
  BY <1>3, <1>5 DEF PassFields
<1>7. item.path \in Paths(pass.bodies) /\ item.path \in Files /\ item.path \notin Images
  BY <1>2, <1>5, CollectorAssumption DEF Paths, Files
<1>8. ListsTrue'
  BY <1>1, <1>5, <1>6 DEF ListsTrue, Sending, Handling
<1>9. PhasesTrue'
  <2>1. pass'.there \subseteq pass.there \cup Paths(pass.bodies) /\ (pass'.unsent # {} => pass.unsent # {})
    BY <1>6, <1>7
  <2> QED  BY <2>1, <1>1, <1>5, <1>6 DEF PhasesTrue, PassPcs, Sending
<1>10. /\ Items' = Items /\ ReadItems' = ReadItems /\ Unsure' = Unsure /\ InHand' = InHand
       /\ item \in ReadItems /\ item.path \in Unsure
  BY <1>1, <1>2, <1>6, <1>7 DEF Items, ReadItems, Unsure, InHand, Handling, Sending
<1>11. HandTrue'
  BY <1>1, <1>4, <1>5, <1>6, <1>10, HandMoves
<1>12. /\ StoresTrue' /\ RowsTrue' /\ AssetsFollow'
       /\ \A q \in Files : holds[known][q] # <<>> => holds'[known][q] # <<>>
       /\ (ok => holds'[known][item.path] = item.sha)
       /\ \A q \in Files : q # item.path => holds'[known][q] = holds[known][q]
       /\ holds'[known][item.path] \in {holds[known][item.path], item.sha}
       /\ \A q \in Files : Same(q) /\ holds[known][q] = Content(q) => holds'[known][q] = Content(q)
  <2>1. CASE holds' = [holds EXCEPT ![known][item.path] = item.sha]
    <3>1. pass.pc # "idle"
      BY <1>1
    <3> QED  BY <3>1, <2>1, <1>1, <1>4, <1>7, <1>10, HoldsPut
  <2>2. CASE UNCHANGED holds /\ ok = FALSE
    BY <2>2, <1>1, <1>4, <1>5, <1>10, SimpleStores, RowsStay, FollowStays
  <2> QED  BY <2>1, <2>2, <1>2
<1>13. AnswersTrue'
  <2>1. Acked' = Range(pass.bodies) /\ Acked = Range(pass.bodies) /\ pass'.pc # "record"
    BY <1>1, <1>6 DEF Acked
  <2>2. ASSUME NEW i \in Range(pass.bodies), i.path \in pass'.there PROVE holds'[known][i.path] = i.sha
    <3>1. CASE i.path = item.path
      <4>1. i = item
        BY <3>1, <1>2, <1>5, PathOne
      <4>2. ok \/ i.path \in pass.there
        BY <2>2, <1>6
      <4>3. i.path \in pass.there => holds[known][i.path] = i.sha
        BY <2>1, <1>5 DEF AnswersTrue
      <4> QED  BY <4>1, <4>2, <4>3, <1>12
    <3>2. CASE i.path # item.path
      <4>1. i.path \in pass.there /\ i.path \in Files
        BY <3>2, <2>2, <1>5, <1>6 DEF Paths, Files
      <4>2. holds[known][i.path] = i.sha
        BY <4>1, <2>1, <1>5 DEF AnswersTrue
      <4> QED  BY <4>1, <4>2, <3>2, <1>12
    <3> QED  BY <3>1, <3>2
  <2> QED  BY <2>1, <2>2, <1>1 DEF AnswersTrue
<1>14. OwnersTrue'
  <2>1. \A q \in Range(Owners) : holds[known][q] # <<>> => holds'[known][q] # <<>>
    BY <1>12 DEF Files
  <2>2. pass'.owner = NoItem => Range(pass'.assets) = {}
    BY <1>5, <1>6, NothingIs DEF PhasesTrue
  <2>3. pass'.pc \notin Handling
    BY <1>1, <1>6 DEF Handling
  <2> QED  BY <2>1, <2>2, <2>3, <1>1, <1>4, <1>5, <1>6, OwnersStay
<1>15. BackfillTrue'
  <2>1. \A q : Same(q)' = Same(q)
    BY <1>1, <1>6 DEF Same
  <2>2. \A q \in InHand' : FileSent(q)' /\ AssetsSent(q)'
    BY DEF FileSent, AssetsSent
  <2>3. \A q \in Paths(pass'.parents) : AssetsSent(q)'
    BY DEF AssetsSent
  <2>4. \A q, a : ~AssetOwed(q, a)
    BY <1>1, NothingOwed DEF Handling
  <2>5. pass.pc # "idle" /\ pass.pc # "assets"
    BY <1>1
  <2> QED  BY <2>1, <2>2, <2>3, <2>4, <2>5, <1>1, <1>4, <1>5, <1>6, <1>10, <1>12, BackfillStep
<1>16. DiskTrue' /\ TourTrue'
  BY <1>1, <1>4, SimpleDisk DEF CInv, Steady
<1> QED  BY <1>8, <1>9, <1>11, <1>12, <1>13, <1>14, <1>15, <1>16 DEF CInv

LEMMA RecordKeeps ==
  ASSUME CInv, Record
  PROVE  CInv'
<1>1. pass.pc = "record" /\ UNCHANGED <<tour, disk, scans, known, holds>>
  BY DEF Record
<1>2. PICK item : item = pass.item
  OBVIOUS
<1>3. PICK p : p = item.path
  OBVIOUS
<1>4. PICK ok : ok = pass.answered
  OBVIOUS
<1>5. PICK r : r = RowOf(item, item.sha, IF ok THEN "ok" ELSE "error")
  OBVIOUS
<1>6. /\ rows' = [rows EXCEPT ![p] = r]
      /\ pass' = IF pass.mode = "run" \/ pass.owner # NoItem THEN Handled(ok, TRUE)
                 ELSE [pass EXCEPT !.pc = IF pass.landing THEN "land" ELSE "large", !.bad = pass.bad \/ ~ok, !.item = NoItem,
                                   !.parents = IF ok /\ ~item.snapshot THEN Append(pass.parents, item) ELSE pass.parents]
  BY <1>2, <1>3, <1>4, <1>5 DEF Record, Recorded
<1>7. Steady
  BY <1>1, TourSteady DEF CInv
<1>8. /\ ListsTrue /\ PhasesTrue /\ HandTrue /\ OwnersTrue /\ BackfillTrue /\ StoresTrue /\ RowsTrue /\ AnswersTrue
      /\ AssetsFollow /\ DOMAIN pass = PassFields /\ ok \in BOOLEAN
  BY <1>4 DEF CInv, PhasesTrue
<1>9. /\ Looked(item) /\ HasRead(item) /\ (pass.owner = NoItem => p \in Range(Owners))
      /\ (pass.owner # NoItem => p \in Images) /\ p \notin Paths(pass.missing) \cup Paths(pass.bodies)
  BY <1>1, <1>2, <1>3, <1>8 DEF HandTrue, Items, ReadItems, Handling, Sending, ListsTrue
<1>10. /\ p \in Files /\ item.size \in Nat \ {0} /\ item.mtime \in Nat /\ disk[p] # 0 /\ DOMAIN item = ItemFields
       /\ item.snapshot = (p \in Databases \cup Images) /\ item.sha # <<>> /\ (Same(p) => item.sha = Content(p))
  BY <1>1, <1>3, <1>9, ReadIs
<1>11. ok => holds[known][p] = item.sha
  BY <1>1, <1>2, <1>3, <1>4, <1>8 DEF AnswersTrue
<1>12. ok /\ pass.owner = NoItem => Offered(p)
  BY <1>9, <1>10, <1>11 DEF Offered
<1>13. RowTyped(r) /\ \A unsure : RowTrueAt(p, tour.versions[p], disk[p], r, holds[known][p], p \in tour.purge, unsure)
  <2>1. CASE ok
    <3>1. r = RowOf(item, item.sha, "ok")
      BY <2>1, <1>5
    <3>2. RowTyped(r)
      BY <3>1, <1>10, RowOfIs
    <3>3. Versions(tour.versions[p]) /\ disk[p] \in Nat /\ disk[p] <= Len(tour.versions[p]) /\ pass.seen[p] \in Nat
      BY <1>1, <1>10 DEF CInv, TourTrue, DiskTrue, HandTrue
    <3>4. LookedAt(item, tour.versions[p], disk[p], pass.seen[p], rows[p]) /\ HasReadAt(item, tour.versions[p], disk[p], pass.seen[p])
      BY <1>3, <1>9 DEF Looked, HasRead
    <3>5. holds[known][p] # <<>> /\ holds[known][p] = item.sha
      BY <2>1, <1>10, <1>11
    <3>6. \A unsure : RowTrueAt(item.path, tour.versions[p], disk[p], RowOf(item, item.sha, "ok"), holds[known][p], p \in tour.purge, unsure)
      BY <3>3, <3>4, <3>5, RowHolds
    <3> QED  BY <3>1, <3>2, <3>6, <1>3
  <2>2. CASE ~ok
    <3>1. r = RowOf(item, item.sha, "error")
      BY <2>2, <1>5
    <3>2. RowTyped(r) /\ r.status = "error"
      BY <3>1, <1>10, RowOfIs
    <3> QED  BY <3>2, RowLost
  <2> QED  BY <2>1, <2>2, <1>8
<1>14. DiskTrue' /\ AssetsFollow' /\ TourTrue'
  BY <1>1, <1>7, <1>8, SimpleDisk, FollowStays DEF CInv, Steady
<1>15. CASE pass.mode = "run" \/ pass.owner # NoItem
  <2>1. pass' = Handled(ok, TRUE)
    BY <1>6, <1>15
  <2>2. ok /\ pass.owner = NoItem => Offered(pass.item.path)
    BY <1>2, <1>3, <1>12
  <2>3. ok /\ Same(pass.item.path) => holds[known][pass.item.path] = Content(pass.item.path)
    BY <1>2, <1>3, <1>10, <1>11
  <2>4. /\ ListsTrue' /\ PhasesTrue' /\ HandTrue' /\ AnswersTrue' /\ OwnersTrue' /\ BackfillTrue' /\ Unsure' = {}
    BY <2>1, <2>2, <2>3, <1>1, <1>7, <1>8, <1>15, HandledKeeps
  <2>5. pass.bodies = <<>> /\ Unsure = {p}
    <3>1. pass.bodies = <<>>
      BY <1>1, <1>8, <1>15 DEF PhasesTrue
    <3> QED  BY <3>1, <1>1, <1>2, <1>3, NothingIs DEF Unsure, Sending
  <2>6. StoresTrue' /\ RowsTrue'
    BY <2>4, <2>5, <1>1, <1>6, <1>7, <1>10, <1>13, RowsPut
  <2> QED  BY <2>4, <2>6, <1>14 DEF CInv
<1>16. CASE pass.mode # "run" /\ pass.owner = NoItem
  <2>1. /\ DOMAIN pass' = PassFields /\ pass'.pc = (IF pass.landing THEN "land" ELSE "large") /\ pass'.item = NoItem
        /\ pass'.bad = (pass.bad \/ ~ok)
        /\ pass'.parents = (IF ok /\ ~item.snapshot THEN Append(pass.parents, item) ELSE pass.parents)
        /\ pass'.mode = pass.mode /\ pass'.todo = pass.todo /\ pass'.seen = pass.seen /\ pass'.chunk = pass.chunk
        /\ pass'.hashed = pass.hashed /\ pass'.there = pass.there /\ pass'.missing = pass.missing
        /\ pass'.bodies = pass.bodies /\ pass'.unsent = pass.unsent /\ pass'.landing = pass.landing
        /\ pass'.answered = pass.answered /\ pass'.owner = pass.owner /\ pass'.assets = pass.assets
        /\ pass'.found = pass.found /\ pass'.changed = pass.changed /\ pass'.whole = pass.whole
        /\ pass'.failed = pass.failed
    BY <1>6, <1>8, <1>16 DEF PassFields
  <2>2. pass'.pc \in {"land", "large"} /\ pass'.pc \notin Handling /\ pass'.pc \notin Sending /\ pass.landing \in BOOLEAN
    BY <2>1, <1>8 DEF Handling, Sending, PhasesTrue
  <2>3. /\ Listing(pass'.parents) /\ Range(pass'.parents) \subseteq Range(pass.parents) \cup {item}
        /\ (ok /\ ~item.snapshot => p \in Paths(pass'.parents)) /\ Paths(pass.parents) \subseteq Paths(pass'.parents)
        /\ \A i \in Range(pass'.parents) : i \in Range(pass.parents) \/ (i = item /\ ok /\ ~item.snapshot)
    <3>1. Listing(pass.parents)
      BY <1>8 DEF ListsTrue
    <3>2. CASE ok /\ ~item.snapshot
      <4>1. pass'.parents = Append(pass.parents, item)
        BY <3>2, <2>1
      <4>2. Listing(pass'.parents) /\ Range(pass'.parents) = Range(pass.parents) \cup {item}
        BY <4>1, <3>1, AppendIs
      <4> QED  BY <3>2, <4>2, <1>3 DEF Paths
    <3>3. CASE ~(ok /\ ~item.snapshot)
      <4>1. pass'.parents = pass.parents
        BY <3>3, <2>1
      <4> QED  BY <3>1, <3>3, <4>1
    <3> QED  BY <3>2, <3>3
  <2>4. ListsTrue'
    BY <2>1, <2>2, <2>3, <1>8 DEF ListsTrue
  <2>5. PhasesTrue'
    <3>1. pass.mode # "dry" /\ pass.mode # "run" /\ pass.chunk = <<>> /\ pass.hashed = <<>>
      BY <1>1, <1>8, <1>16 DEF PhasesTrue, Sending
    <3>2. pass'.bad \in BOOLEAN
      BY <2>1, <1>8 DEF PhasesTrue
    <3>3. CASE pass.landing
      BY <3>1, <3>2, <3>3, <2>1, <1>1, <1>8, <1>16 DEF PhasesTrue, PassPcs, Sending
    <3>4. CASE ~pass.landing
      BY <3>1, <3>2, <3>4, <2>1, <1>1, <1>8, <1>16 DEF PhasesTrue, PassPcs, Sending
    <3> QED  BY <3>3, <3>4
  <2>6. /\ Items' \subseteq Items /\ ReadItems' \subseteq ReadItems /\ Unsure' = Paths(pass.bodies)
        /\ Unsure = {p} \cup Paths(pass.bodies) /\ Items' = Range(pass.missing) \cup Range(pass.bodies)
    <3>1. pass.chunk = <<>> /\ pass.hashed = <<>>
      BY <1>1, <1>8 DEF PhasesTrue, Sending
    <3> QED  BY <3>1, <2>1, <2>2, <1>1, <1>2, <1>3, NothingIs DEF Items, ReadItems, Unsure, Handling, Sending
  <2>7. HandTrue'
    <3>1. \A i \in Items' : i.path # p /\ i.path \in Files
      BY <2>6, <1>8, <1>9 DEF Paths, ListsTrue, Files
    <3>2. \A i \in Items' : rows'[i.path] = rows[i.path]
      BY <3>1, <1>6, <1>8 DEF StoresTrue
    <3> QED  BY <3>2, <2>1, <2>6, <1>1, <1>7, <1>8, HandMoves
  <2>8. AnswersTrue'
    <3>1. Acked' = Range(pass.bodies) /\ Acked = Range(pass.bodies) /\ pass'.pc # "record"
      BY <1>1, <2>1 DEF Acked
    <3> QED  BY <3>1, <2>1, <1>1, <1>8 DEF AnswersTrue
  <2>9. StoresTrue' /\ RowsTrue'
    BY <2>6, <1>1, <1>6, <1>7, <1>10, <1>13, RowsPut
  <2>10. \A q : (Offered(q) => Offered(q)') /\ \A a : Mentions(q, a)' = Mentions(q, a)
    BY <1>1, <1>7, OfferedStays
  <2>11. OwnersTrue'
    <3>1. \A i \in Range(pass'.parents) : i.size # 0 /\ i.snapshot = FALSE /\ (pass'.mode # "dry" => Offered(i.path)')
      <4>1. SUFFICES ASSUME NEW i \in Range(pass'.parents) PROVE i.size # 0 /\ i.snapshot = FALSE /\ (pass'.mode # "dry" => Offered(i.path)')
        OBVIOUS
      <4>2. CASE i \in Range(pass.parents)
        BY <4>2, <2>1, <2>10, <1>8 DEF OwnersTrue
      <4>3. CASE i = item /\ ok /\ ~item.snapshot
        <5>1. item.snapshot \in BOOLEAN
          BY <1>10
        <5> QED  BY <5>1, <4>3, <2>10, <1>3, <1>10, <1>12, <1>16
      <4> QED  BY <4>1, <4>2, <4>3, <2>3
    <3>2. pass'.owner = NoItem /\ pass'.assets = <<>>
      BY <2>1, <1>8, <1>16 DEF PhasesTrue
    <3> QED  BY <3>1, <3>2, <2>2, NothingIs DEF OwnersTrue
  <2>12. BackfillTrue'
    <3>1. \A q : Same(q)' = Same(q) /\ Content(q)' = Content(q)
      BY <1>1, <2>1 DEF Same, Content
    <3>2. \A q \in InHand' : FileSent(q)' /\ AssetsSent(q)'
      BY DEF FileSent, AssetsSent
    <3>3. \A q \in Paths(pass'.parents) : AssetsSent(q)'
      BY DEF AssetsSent
    <3>5. InHand \subseteq InHand' \cup {p}
      BY <2>1, <2>6 DEF InHand
    <3>6. SUFFICES ASSUME pass'.mode = "backfill", ~pass'.bad
                   PROVE  /\ ~pass.bad
                          /\ Same(p) => FileSent(p)' /\ (p \notin Databases => AssetsSent(p)')
                          /\ \A q \in Range(Owners) : \A a \in Images : ~AssetOwed(q, a)
      <4>1. pass.pc # "idle" /\ pass.pc # "assets" /\ pass'.mode = pass.mode /\ pass'.owner = NoItem
        BY <1>1, <2>1, <1>16
      <4> QED  BY <3>1, <3>2, <3>3, <3>5, <3>6, <4>1, <2>3, <1>1, <1>7, <1>8, BackfillStep
    <3>7. ~pass.bad /\ ok
      BY <3>6, <2>1, <1>8 DEF PhasesTrue
    <3>8. ASSUME Same(p) PROVE FileSent(p)' /\ (p \notin Databases => AssetsSent(p)')
      <4>1. holds'[known'][p] = Content(p)'
        BY <3>1, <3>7, <3>8, <1>1, <1>10, <1>11
      <4>2. p \notin Databases => p \in Paths(pass'.parents)
        <5>1. p \notin Images
          BY <1>9, <1>16, CollectorAssumption
        <5> QED  BY <5>1, <3>7, <2>3, <1>10
      <4> QED  BY <4>1, <4>2, <3>3 DEF FileSent
    <3>9. ASSUME NEW q \in Range(Owners), NEW a \in Images PROVE ~AssetOwed(q, a)
      <4>1. pass.assets = <<>> /\ p \notin Images
        BY <1>8, <1>9, <1>16, CollectorAssumption DEF PhasesTrue
      <4> QED  BY <4>1, <1>2, <1>3, NothingIs DEF AssetOwed
    <3> QED  BY <3>7, <3>8, <3>9
  <2> QED  BY <2>4, <2>5, <2>7, <2>8, <2>9, <2>11, <2>12, <1>14 DEF CInv
<1> QED  BY <1>15, <1>16

(* On to the next file.                                                     *)
LEMMA NextOwnerKeeps ==
  ASSUME CInv, pass.pc \in {"assets", "snapshot"}, Steady, UNCHANGED <<disk, rows, holds, known>>, pass' = NextOwner,
         pass.mode = "backfill" /\ ~pass.bad => pass.pc = "snapshot" /\ pass.assets = <<>>
  PROVE  CInv'
<1>1. /\ ListsTrue /\ PhasesTrue /\ HandTrue /\ OwnersTrue /\ BackfillTrue /\ StoresTrue /\ RowsTrue /\ AnswersTrue
      /\ AssetsFollow /\ DOMAIN pass = PassFields /\ pass.mode \in Modes
  BY DEF CInv, PhasesTrue
<1>2. /\ pass.chunk = <<>> /\ pass.hashed = <<>> /\ pass.missing = <<>> /\ pass.bodies = <<>> /\ pass.mode # "dry"
      /\ (pass.mode = "run" => pass.parents = <<>> /\ ~pass.landing) /\ pass.there = {}
  BY <1>1 DEF PhasesTrue, Sending
<1>3. /\ DOMAIN pass' = PassFields /\ pass'.pc = (IF pass.mode = "run" THEN "scan" ELSE "parents") /\ pass'.owner = NoItem
      /\ pass'.assets = <<>> /\ pass'.found = <<>> /\ pass'.failed = FALSE /\ pass'.whole = FALSE
      /\ pass'.mode = pass.mode /\ pass'.todo = pass.todo /\ pass'.bad = pass.bad /\ pass'.seen = pass.seen
      /\ pass'.chunk = pass.chunk /\ pass'.hashed = pass.hashed /\ pass'.there = pass.there
      /\ pass'.missing = pass.missing /\ pass'.bodies = pass.bodies /\ pass'.unsent = pass.unsent
      /\ pass'.landing = pass.landing /\ pass'.parents = pass.parents /\ pass'.item = pass.item
      /\ pass'.answered = pass.answered /\ pass'.changed = pass.changed
  BY <1>1 DEF NextOwner, PassFields
<1>4. pass'.pc \in {"scan", "parents"} /\ pass'.pc \notin Handling /\ pass'.pc \notin Sending /\ pass.pc \notin Sending
  BY <1>3 DEF Handling, Sending
<1>5. ListsTrue'
  BY <1>1, <1>3, <1>4, NothingIs DEF ListsTrue
<1>6. PhasesTrue'
  <2>1. {pass'.bad, pass'.landing, pass'.answered, pass'.changed, pass'.whole, pass'.failed} \subseteq BOOLEAN
    BY <1>1, <1>3 DEF PhasesTrue
  <2>2. CASE pass.mode = "run"
    BY <2>1, <2>2, <1>1, <1>2, <1>3 DEF PhasesTrue, PassPcs, Sending
  <2>3. CASE pass.mode # "run"
    BY <2>1, <2>3, <1>1, <1>2, <1>3 DEF PhasesTrue, PassPcs, Sending
  <2> QED  BY <2>2, <2>3
<1>7. ReadItems' = {} /\ Items' = {} /\ Unsure' = {} /\ Unsure = {} /\ InHand' = InHand
  BY <1>2, <1>3, <1>4, NothingIs DEF ReadItems, Items, Unsure, InHand, Handling, Sending
<1>8. HandTrue'
  BY <1>1, <1>3, <1>7 DEF HandTrue
<1>9. AnswersTrue'
  BY <1>2, <1>3, <1>4, NothingIs DEF AnswersTrue, Acked
<1>10. StoresTrue' /\ RowsTrue' /\ DiskTrue' /\ AssetsFollow' /\ TourTrue'
  BY <1>1, <1>7, RowsStay, SimpleStores, SimpleDisk, FollowStays DEF CInv, Steady
<1>11. OwnersTrue'
  <2>1. Range(pass'.assets) = {} /\ Range(pass'.parents) = Range(pass.parents)
    BY <1>3, NothingIs
  <2> QED  BY <2>1, <1>1, <1>3, <1>4, OwnersStay
<1>12. BackfillTrue'
  <2>1. pass'.mode = "backfill" /\ ~pass'.bad => \A q, a : ~AssetOwed(q, a)
    <3>1. SUFFICES ASSUME pass'.mode = "backfill", ~pass'.bad PROVE \A q, a : ~AssetOwed(q, a)
      OBVIOUS
    <3>2. pass.pc = "snapshot" /\ pass.assets = <<>>
      BY <3>1, <1>3
    <3> QED  BY <3>2, NothingIs DEF AssetOwed, Handling
  <2>2. pass'.mode = "backfill" /\ ~pass'.bad => ~pass.bad /\ pass.pc # "assets"
    BY <1>3
  <2>3. Paths(pass.parents) \subseteq Paths(pass'.parents) /\ pass.pc # "idle"
    BY <1>3
  <2> QED  BY <2>1, <2>2, <2>3, <1>1, <1>3, <1>7, BackfillStays
<1> QED  BY <1>5, <1>6, <1>8, <1>9, <1>10, <1>11, <1>12 DEF CInv

LEMMA DiscoverKeeps ==
  ASSUME CInv, Discover
  PROVE  CInv'
<1>1. pass.pc = "assets" /\ UNCHANGED <<tour, disk, rows, scans, known, holds>>
  BY DEF Discover
<1>2. PICK p : p = pass.owner.path
  OBVIOUS
<1>3. PICK found : found = Found(p)
  OBVIOUS
<1>4. \/ ((~pass.changed /\ Scanned(pass.owner)) \/ pass.owner.snapshot) /\ pass' = NextOwner
      \/ pass' = [pass EXCEPT !.pc = "snapshot", !.assets = SetToSeq(found), !.whole = (found = References(p)),
                              !.found = [a \in found |-> Content(a)]]
  BY <1>2, <1>3 DEF Discover
<1>5. Steady
  BY <1>1, TourSteady DEF CInv
<1>6. /\ ListsTrue /\ PhasesTrue /\ HandTrue /\ OwnersTrue /\ BackfillTrue /\ StoresTrue /\ RowsTrue /\ AnswersTrue
      /\ AssetsFollow /\ DOMAIN pass = PassFields /\ pass.mode \in Modes /\ pass.owner # NoItem
  BY <1>1 DEF CInv, PhasesTrue
<1>7. CASE ((~pass.changed /\ Scanned(pass.owner)) \/ pass.owner.snapshot) /\ pass' = NextOwner
  <2>1. ~(pass.mode = "backfill" /\ ~pass.bad)
    BY <1>1, <1>6, <1>7 DEF BackfillTrue
  <2> QED  BY <2>1, <1>1, <1>5, <1>7, NextOwnerKeeps
<1>8. CASE pass' = [pass EXCEPT !.pc = "snapshot", !.assets = SetToSeq(found), !.whole = (found = References(p)),
                                !.found = [a \in found |-> Content(a)]]
  <2>1. Listing(SetToSeq(found)) /\ Range(SetToSeq(found)) = found
    <3>1. IsFiniteSet(found)
      <4>1. found \subseteq Images
        BY <1>3 DEF Found, References
      <4> QED  BY <4>1, CollectorAssumption, FS_Subset
    <3> QED  BY <3>1, SetListIs
  <2>2. PICK list : list = SetToSeq(found)
    OBVIOUS
  <2>3. PICK copies : copies = [a \in found |-> Content(a)]
    OBVIOUS
  <2>4. PICK whole \in BOOLEAN : whole = (found = References(p))
    OBVIOUS
  <2>5. /\ DOMAIN pass' = PassFields /\ pass'.pc = "snapshot" /\ pass'.assets = list /\ pass'.whole = whole
        /\ pass'.found = copies
        /\ pass'.mode = pass.mode /\ pass'.todo = pass.todo /\ pass'.bad = pass.bad /\ pass'.seen = pass.seen
        /\ pass'.chunk = pass.chunk /\ pass'.hashed = pass.hashed /\ pass'.there = pass.there
        /\ pass'.missing = pass.missing /\ pass'.bodies = pass.bodies /\ pass'.unsent = pass.unsent
        /\ pass'.landing = pass.landing /\ pass'.parents = pass.parents /\ pass'.item = pass.item
        /\ pass'.answered = pass.answered /\ pass'.owner = pass.owner /\ pass'.changed = pass.changed
        /\ pass'.failed = pass.failed
    BY <2>2, <2>3, <2>4, <1>6, <1>8 DEF PassFields
  <2>6. pass'.pc \notin Handling /\ pass'.pc \notin Sending
    BY <2>5 DEF Handling, Sending
  <2>7. ListsTrue'
    BY <2>1, <2>2, <2>5, <2>6, <1>6 DEF ListsTrue
  <2>8. PhasesTrue'
    BY <2>5, <1>1, <1>6 DEF PhasesTrue, PassPcs, Sending
  <2>9. Items' = Items /\ ReadItems' = ReadItems /\ Unsure' = Unsure /\ InHand' = InHand
    BY <2>5, <1>1 DEF Items, ReadItems, Unsure, InHand, Sending, Handling
  <2>10. HandTrue'
    BY <2>5, <2>9, <1>1, <1>5, <1>6, HandMoves
  <2>11. AnswersTrue'
    BY <2>5, <1>1, <1>6 DEF AnswersTrue, Acked
  <2>12. StoresTrue' /\ RowsTrue' /\ DiskTrue' /\ AssetsFollow' /\ TourTrue'
    BY <2>9, <1>1, <1>5, <1>6, RowsStay, SimpleStores, SimpleDisk, FollowStays DEF CInv, Steady
  <2>13. Offered(p) /\ p \in Range(Owners)
    BY <1>2, <1>6 DEF OwnersTrue, Offered
  <2>14. \A a \in found : a \in Images /\ disk[a] # 0 /\ Mentions(p, a)
    <3>1. SUFFICES ASSUME NEW a \in found PROVE a \in Images /\ disk[a] # 0 /\ Mentions(p, a)
      OBVIOUS
    <3>2. a \in Images /\ disk[a] # 0 /\ a \in Range(Content(p))
      BY <3>1, <1>3 DEF Found, References
    <3>3. disk[p] # 0
      BY <3>2, NothingIs DEF Content
    <3>4. p \in Files /\ Versions(tour.versions[p]) /\ disk[p] \in Nat /\ disk[p] <= Len(tour.versions[p])
      BY <2>13 DEF Files, CInv, TourTrue, DiskTrue
    <3>5. tour.versions[p][disk[p]] \in Range(tour.versions[p])
      BY <3>3, <3>4, ContentsIs
    <3> QED  BY <3>2, <3>3, <3>5 DEF Mentions, Content
  <2>15. OwnersTrue'
    <3>1. \A q : (Offered(q) => Offered(q)') /\ \A a : Mentions(q, a)' = Mentions(q, a)
      BY <1>1, <1>5, OfferedStays
    <3>2. Range(pass'.assets) = found
      BY <2>1, <2>2, <2>5
    <3> QED  BY <3>1, <3>2, <2>5, <2>6, <2>14, <1>1, <1>2, <1>6 DEF OwnersTrue
  <2>16. BackfillTrue'
    <3>1. \A q : Same(q)' = Same(q) /\ Content(q)' = Content(q) /\ References(q)' = References(q)
      BY <2>5, <1>1 DEF Same, Content, References
    <3>2. \A q \in InHand' : FileSent(q)' /\ AssetsSent(q)'
      BY DEF FileSent, AssetsSent
    <3>3. \A q \in Paths(pass'.parents) : AssetsSent(q)'
      BY DEF AssetsSent
    <3>4. AssetsSent(p)'
      <4>1. ASSUME NEW a \in References(p), Same(a) PROVE AssetOwed(p, a)'
        <5>1. a \in found
          BY <4>1, <1>3 DEF Found, Same
        <5>2. copies[a] = Content(a) /\ a \in Range(pass'.assets)
          BY <5>1, <2>1, <2>2, <2>3, <2>5
        <5> QED  BY <5>2, <3>1, <2>5, <1>2 DEF AssetOwed, AtWork
      <4> QED  BY <4>1, <3>1 DEF AssetsSent
    <3>5. \A q, a : ~AssetOwed(q, a)
      BY <1>1, NothingOwed DEF Handling
    <3>6. pass.pc # "idle"
      BY <1>1
    <3> QED  BY <3>1, <3>2, <3>3, <3>4, <3>5, <3>6, <2>5, <2>9, <1>1, <1>2, <1>5, <1>6, BackfillStep
  <2> QED  BY <2>7, <2>8, <2>10, <2>11, <2>12, <2>15, <2>16 DEF CInv
<1> QED  BY <1>4, <1>7, <1>8

LEMMA MarkScanKeeps ==
  ASSUME CInv, MarkScan
  PROVE  CInv'
<1>1. pass.pc = "snapshot" /\ pass.assets = <<>> /\ pass' = NextOwner /\ UNCHANGED <<tour, disk, rows, known, holds>>
  BY DEF MarkScan
<1>2. Steady
  BY <1>1, TourSteady DEF CInv
<1> QED  BY <1>1, <1>2, NextOwnerKeeps

LEMMA SnapshotKeeps ==
  ASSUME CInv, Snapshot
  PROVE  CInv'
<1>1. pass.pc = "snapshot" /\ pass.assets # <<>> /\ UNCHANGED <<disk, rows, scans, known, holds>>
  BY DEF Snapshot
<1>2. PICK a : a = Head(pass.assets)
  OBVIOUS
<1>3. PICK item : item = [path |-> a, size |-> Size(a), mtime |-> disk[a], sha |-> Content(a), snapshot |-> TRUE]
  OBVIOUS
<1> DEFINE on == [pass EXCEPT !.assets = Tail(pass.assets)]
<1>4. \/ Content(a) = pass.found[a] /\ pass' = [on EXCEPT !.pc = "look", !.item = item]
      \/ pass' = [on EXCEPT !.failed = TRUE, !.bad = TRUE]
  BY <1>2, <1>3 DEF Snapshot
<1>5. Steady
  <2>1. UNCHANGED tour \/ Fault("read")
    BY DEF Snapshot
  <2> QED  BY <2>1, TourSteady DEF CInv, TourFaults
<1>6. /\ ListsTrue /\ PhasesTrue /\ HandTrue /\ OwnersTrue /\ BackfillTrue /\ StoresTrue /\ RowsTrue /\ AnswersTrue
      /\ AssetsFollow /\ DOMAIN pass = PassFields /\ pass.mode \in Modes /\ pass.owner # NoItem
  BY <1>1 DEF CInv, PhasesTrue
<1>7. /\ DOMAIN pass' = PassFields /\ pass'.assets = Tail(pass.assets)
      /\ pass'.mode = pass.mode /\ pass'.todo = pass.todo /\ pass'.seen = pass.seen /\ pass'.chunk = pass.chunk
      /\ pass'.hashed = pass.hashed /\ pass'.there = pass.there /\ pass'.missing = pass.missing
      /\ pass'.bodies = pass.bodies /\ pass'.unsent = pass.unsent /\ pass'.landing = pass.landing
      /\ pass'.parents = pass.parents /\ pass'.answered = pass.answered /\ pass'.owner = pass.owner
      /\ pass'.found = pass.found /\ pass'.changed = pass.changed /\ pass'.whole = pass.whole
  BY <1>4, <1>6 DEF PassFields
<1>8. \/ pass'.pc = "look" /\ pass'.item = item /\ pass'.failed = pass.failed /\ pass'.bad = pass.bad
      \/ pass'.pc = "snapshot" /\ pass'.item = pass.item /\ pass'.failed = TRUE /\ pass'.bad = TRUE
  BY <1>1, <1>4, <1>6 DEF PassFields
<1> HIDE DEF on
<1>9. Listing(pass'.assets) /\ Range(pass.assets) = {a} \cup Range(pass'.assets)
  BY <1>1, <1>2, <1>6, <1>7, TailIs DEF ListsTrue
<1>10. a \in Images /\ disk[a] # 0 /\ Mentions(pass.owner.path, a) /\ a \in Files /\ a \notin Databases
  BY <1>6, <1>9, CollectorAssumption DEF OwnersTrue, Files
<1>11. item.path = a
  BY <1>3
<1>12. /\ pass.chunk = <<>> /\ pass.hashed = <<>> /\ pass.missing = <<>> /\ pass.bodies = <<>>
  BY <1>1, <1>6 DEF PhasesTrue, Sending
<1>13. ListsTrue'
  <2>1. pass'.pc \notin Sending /\ (pass'.pc \in Handling => pass'.item.path = a)
    BY <1>8, <1>11 DEF Sending, Handling
  <2> QED  BY <2>1, <1>6, <1>7, <1>9, <1>10 DEF ListsTrue
<1>14. PhasesTrue'
  <2>1. pass'.bad \in BOOLEAN /\ pass'.failed \in BOOLEAN /\ pass'.pc \in {"look", "snapshot"}
    BY <1>6, <1>8 DEF PhasesTrue
  <2> QED  BY <2>1, <1>1, <1>6, <1>7 DEF PhasesTrue, PassPcs, Sending
<1>15. /\ ReadItems' = {} /\ Unsure' = {} /\ Unsure = {} /\ InHand' = InHand
       /\ \A i \in Items' : i = item
  BY <1>1, <1>7, <1>8, <1>12, NothingIs DEF ReadItems, Unsure, Items, InHand, Sending, Handling
<1>16. LookedAt(item, tour.versions[a], disk[a], pass.seen[a], rows[a])
  <2>1. disk[a] \in Nat /\ pass.seen[a] \in Nat /\ pass.seen[a] <= disk[a] /\ disk[a] \in 1..disk[a]
    BY <1>1, <1>6, <1>10 DEF CInv, DiskTrue, HandTrue
  <2>2. /\ DOMAIN item = ItemFields /\ item.size = Len(tour.versions[a][disk[a]]) /\ item.mtime = disk[a]
        /\ item.sha = tour.versions[a][disk[a]] /\ item.snapshot = TRUE
    BY <1>3, <1>10 DEF ItemFields, Size, Content
  <2>3. Since(item, pass.seen[a]) = disk[a]
    BY <2>2, <1>10, <1>11 DEF Since
  <2>4. item.snapshot = (item.path \in Databases \cup Images)
    BY <2>2, <1>10, <1>11
  <2> QED  BY <2>1, <2>2, <2>3, <2>4, <1>10, <1>11 DEF LookedAt
<1>17. HandTrue'
  <2>1. Looked(item)'
    BY <1>1, <1>5, <1>7, <1>11, <1>16 DEF Looked, Steady
  <2> QED  BY <2>1, <1>1, <1>6, <1>7, <1>15 DEF HandTrue
<1>18. AnswersTrue'
  BY <1>1, <1>7, <1>8, <1>12, NothingIs DEF AnswersTrue, Acked
<1>19. StoresTrue' /\ RowsTrue' /\ DiskTrue' /\ AssetsFollow' /\ TourTrue'
  BY <1>1, <1>5, <1>6, <1>15, RowsStay, SimpleStores, SimpleDisk, FollowStays DEF CInv, Steady
<1>20. OwnersTrue'
  <2>1. \A q : (Offered(q) => Offered(q)') /\ \A b : Mentions(q, b)' = Mentions(q, b)
    BY <1>1, <1>5, OfferedStays
  <2>2. pass'.pc \in Handling => pass'.item.path = a
    BY <1>8, <1>11 DEF Handling
  <2> QED  BY <2>1, <2>2, <1>1, <1>6, <1>7, <1>9, <1>10 DEF OwnersTrue
<1>21. BackfillTrue'
  <2>1. pass'.mode = "backfill" /\ ~pass'.bad => ~pass.bad /\ \A q, b : AssetOwed(q, b) => AssetOwed(q, b)'
    <3>1. SUFFICES ASSUME ~pass'.bad PROVE ~pass.bad /\ \A q, b : AssetOwed(q, b) => AssetOwed(q, b)'
      OBVIOUS
    <3>2. pass'.pc = "look" /\ pass'.item = item /\ ~pass.bad
      BY <3>1, <1>8
    <3>3. \A b : Content(b)' = Content(b)
      BY <1>1, <1>5 DEF Content, Steady
    <3>4. ASSUME NEW q, NEW b, AssetOwed(q, b) PROVE AssetOwed(q, b)'
      <4>1. pass.owner.path = q /\ b \in Range(pass.assets) /\ pass.found[b] = Content(b)
        BY <3>4, <1>1 DEF AssetOwed, Handling
      <4>2. b = a \/ b \in Range(pass'.assets)
        BY <4>1, <1>9
      <4>3. pass'.pc \in Handling /\ AtWork'
        BY <3>2 DEF Handling, AtWork
      <4> QED  BY <4>1, <4>2, <4>3, <3>2, <3>3, <1>7, <1>11 DEF AssetOwed
    <3> QED  BY <3>2, <3>4
  <2>2. pass.pc # "idle" /\ pass.pc # "assets"
    BY <1>1
  <2> QED  BY <2>1, <2>2, <1>1, <1>5, <1>6, <1>7, <1>15, BackfillStays
<1> QED  BY <1>13, <1>14, <1>17, <1>18, <1>19, <1>20, <1>21 DEF CInv

LEMMA HashNextKeeps ==
  ASSUME CInv, HashNext
  PROVE  CInv'
<1>1. /\ pass.pc \in {"scan", "hash"} /\ pass.chunk # <<>> /\ UNCHANGED <<disk, scans, known, holds>>
  BY DEF HashNext, Gathered
<1>2. PICK item : item = Head(pass.chunk)
  OBVIOUS
<1>3. PICK p : p = item.path
  OBVIOUS
<1>4. PICK j : j = [item EXCEPT !.sha = Reads(item)]
  OBVIOUS
<1> DEFINE on == [pass EXCEPT !.pc = "hash", !.chunk = Tail(pass.chunk)]
<1>5. \/ rows' = [rows EXCEPT ![p] = RowOf(item, <<>>, "error")] /\ pass' = [on EXCEPT !.bad = TRUE]
      \/ UNCHANGED rows /\ pass' = [on EXCEPT !.bad = TRUE]
      \/ UNCHANGED rows /\ pass' = [on EXCEPT !.hashed = Append(pass.hashed, j)]
  BY <1>2, <1>3, <1>4 DEF HashNext
<1>6. Steady
  <2>1. UNCHANGED tour \/ Fault("read")
    BY DEF HashNext
  <2> QED  BY <2>1, TourSteady DEF CInv, TourFaults
<1>7. /\ ListsTrue /\ PhasesTrue /\ HandTrue /\ OwnersTrue /\ BackfillTrue /\ StoresTrue /\ RowsTrue /\ AnswersTrue
      /\ AssetsFollow /\ DOMAIN pass = PassFields /\ pass.mode \in Modes /\ OncePath(pass.chunk) /\ OncePath(pass.hashed)
      /\ pass.pc # "idle"
  BY <1>1 DEF CInv, PhasesTrue, ListsTrue
<1>8. /\ pass.missing = <<>> /\ pass.bodies = <<>> /\ pass.parents = <<>> /\ pass.owner = NoItem /\ pass.mode # "run"
      /\ pass.assets = <<>> /\ ~pass.landing
  BY <1>1, <1>7 DEF PhasesTrue, Sending
<1>9. /\ DOMAIN pass' = PassFields /\ pass'.pc = "hash" /\ pass'.chunk = Tail(pass.chunk)
      /\ pass'.mode = pass.mode /\ pass'.todo = pass.todo /\ pass'.seen = pass.seen /\ pass'.there = pass.there
      /\ pass'.missing = pass.missing /\ pass'.bodies = pass.bodies /\ pass'.unsent = pass.unsent
      /\ pass'.landing = pass.landing /\ pass'.parents = pass.parents /\ pass'.item = pass.item
      /\ pass'.answered = pass.answered /\ pass'.owner = pass.owner /\ pass'.assets = pass.assets
      /\ pass'.found = pass.found /\ pass'.changed = pass.changed /\ pass'.whole = pass.whole
      /\ pass'.failed = pass.failed
  BY <1>5, <1>7 DEF PassFields
<1>10. \/ pass'.hashed = pass.hashed /\ pass'.bad = TRUE /\ rows' = [rows EXCEPT ![p] = RowOf(item, <<>>, "error")]
       \/ pass'.hashed = pass.hashed /\ pass'.bad = TRUE /\ UNCHANGED rows
       \/ pass'.hashed = Append(pass.hashed, j) /\ pass'.bad = pass.bad /\ UNCHANGED rows
  BY <1>5, <1>7 DEF PassFields
<1> HIDE DEF on
<1>11. /\ OncePath(Tail(pass.chunk)) /\ Range(pass.chunk) = {item} \cup Range(Tail(pass.chunk)) /\ p \notin Paths(Tail(pass.chunk))
       /\ Paths(pass.chunk) = {p} \cup Paths(Tail(pass.chunk))
  BY <1>1, <1>2, <1>3, <1>7, PathTail
<1>12. p \in Range(Owners) /\ p \in Files /\ p \notin Paths(pass.hashed) /\ p \notin Range(pass.todo)
  BY <1>7, <1>11 DEF ListsTrue, Files
<1>13. Looked(item)
  BY <1>7, <1>11 DEF HandTrue, Items
<1>14. item.size \in Nat \ {0} /\ item.mtime \in Nat
  BY <1>7, <1>13, ReadIs
<1>15. Looked(j) /\ HasRead(j) /\ j.path = p
  BY <1>3, <1>4, <1>7, <1>13, ReadsGives
<1>16. \/ pass'.hashed = pass.hashed /\ pass'.bad = TRUE
       \/ /\ OncePath(pass'.hashed) /\ Range(pass'.hashed) = Range(pass.hashed) \cup {j}
          /\ Paths(pass'.hashed) = Paths(pass.hashed) \cup {p} /\ UNCHANGED rows /\ pass'.bad = pass.bad
  <2>1. j.path \notin Paths(pass.hashed)
    BY <1>12, <1>15
  <2>2. /\ OncePath(Append(pass.hashed, j)) /\ Range(Append(pass.hashed, j)) = Range(pass.hashed) \cup {j}
        /\ Paths(Append(pass.hashed, j)) = Paths(pass.hashed) \cup {j.path}
    BY <2>1, <1>7, PathAppend
  <2> QED  BY <2>2, <1>10, <1>15
<1>17. ListsTrue'
  <2>1. pass'.pc \notin Handling /\ pass'.pc \notin Sending
    BY <1>9 DEF Handling, Sending
  <2>2. Paths(pass.missing) = {}
    BY <1>8, NothingIs
  <2>3. OncePath(pass'.hashed) /\ Paths(pass'.hashed) \subseteq Paths(pass.hashed) \cup {p}
    BY <1>7, <1>16
  <2>4. Paths(pass'.chunk) \cap Paths(pass'.hashed) = {}
    BY <2>3, <1>7, <1>9, <1>11 DEF ListsTrue
  <2>5. Paths(pass'.chunk) \subseteq Paths(pass.chunk) /\ OncePath(pass'.chunk)
    BY <1>9, <1>11
  <2>6. Range(pass.todo) \cap Paths(pass'.chunk) = {}
    BY <2>5, <1>7 DEF ListsTrue
  <2>7. Paths(pass'.chunk) \cup Paths(pass'.hashed) \cup Paths(pass.missing) \cup Paths(pass.bodies) \subseteq Range(Owners)
    BY <2>3, <2>5, <1>7, <1>12 DEF ListsTrue
  <2>8. Paths(pass'.hashed) \cap Paths(pass.missing) = {}
    BY <2>2
  <2> QED  BY <2>1, <2>3, <2>4, <2>5, <2>6, <2>7, <2>8, <1>7, <1>9 DEF ListsTrue
<1>18. PhasesTrue'
  <2>1. pass'.bad \in BOOLEAN
    BY <1>7, <1>10 DEF PhasesTrue
  <2> QED  BY <2>1, <1>1, <1>7, <1>8, <1>9 DEF PhasesTrue, PassPcs, Sending
<1>19. /\ Unsure' = {} /\ Unsure = {} /\ ReadItems' = Range(pass'.hashed) /\ Items' = Range(pass'.hashed) \cup Range(pass'.chunk)
       /\ Range(pass.hashed) \subseteq ReadItems /\ Range(pass.hashed) \cup Range(pass.chunk) \subseteq Items
  BY <1>1, <1>8, <1>9, NothingIs DEF ReadItems, Unsure, Items, Sending, Handling
<1>20. StoresTrue' /\ RowsTrue'
  <2>1. CASE UNCHANGED rows
    BY <2>1, <1>1, <1>6, <1>7, <1>19, RowsStay, SimpleStores
  <2>2. CASE rows' = [rows EXCEPT ![p] = RowOf(item, <<>>, "error")]
    <3>1. PICK r : r = RowOf(item, <<>>, "error")
      OBVIOUS
    <3>2. RowTyped(r) /\ r.status = "error"
      BY <3>1, <1>14, RowOfIs
    <3>3. RowTrueAt(p, tour.versions[p], disk[p], r, holds[known][p], p \in tour.purge, p \in Unsure')
      BY <3>2, RowLost
    <3> QED  BY <3>1, <3>2, <3>3, <2>2, <1>1, <1>6, <1>12, <1>19, RowsPut
  <2> QED  BY <2>1, <2>2, <1>10
<1>21. HandTrue'
  <2>1. ASSUME NEW i \in Items, i.path # p PROVE Looked(i)' /\ (i \in ReadItems => HasRead(i)')
    <3>1. Looked(i) /\ (i \in ReadItems => HasRead(i)) /\ i.path \in Files
      BY <2>1, <1>7, ReadIs DEF HandTrue
    <3>2. rows'[i.path] = rows[i.path]
      BY <3>1, <2>1, <1>7, <1>10 DEF StoresTrue
    <3> QED  BY <3>1, <3>2, <1>1, <1>6, <1>9, LookedStays
  <2>2. \A i \in Range(pass.hashed) : i.path # p /\ i \in Items /\ i \in ReadItems
    BY <1>12, <1>19 DEF Paths
  <2>3. \A i \in Range(pass'.chunk) : i.path # p /\ i \in Items
    BY <1>9, <1>11, <1>19 DEF Paths
  <2>4. UNCHANGED rows => Looked(j)' /\ HasRead(j)'
    BY <1>1, <1>6, <1>9, <1>15, LookedStays
  <2>5. \A i \in Range(pass'.hashed) : Looked(i)' /\ HasRead(i)'
    BY <2>1, <2>2, <2>4, <1>16
  <2> QED  BY <2>1, <2>3, <2>5, <1>1, <1>7, <1>9, <1>19 DEF HandTrue
<1>22. AnswersTrue'
  BY <1>8, <1>9, NothingIs DEF AnswersTrue, Acked
<1>23. OwnersTrue'
  BY <1>8, <1>9, NothingIs DEF OwnersTrue
<1>24. BackfillTrue'
  <2>1. \A q, a : ~AssetOwed(q, a)
    BY <1>1, NothingOwed DEF Handling
  <2>2. pass'.mode = "backfill" /\ ~pass'.bad => ~pass.bad /\ InHand \subseteq InHand'
    <3>1. SUFFICES ASSUME ~pass'.bad PROVE ~pass.bad /\ InHand \subseteq InHand'
      OBVIOUS
    <3>2. Paths(pass'.hashed) = Paths(pass.hashed) \cup {p} /\ ~pass.bad
      BY <3>1, <1>16
    <3> QED  BY <3>2, <1>9, <1>11, <1>19 DEF InHand
  <2>3. pass.pc # "assets" /\ pass'.owner = NoItem /\ Paths(pass.parents) \subseteq Paths(pass'.parents)
    BY <1>1, <1>8, <1>9
  <2> QED  BY <2>1, <2>2, <2>3, <1>1, <1>6, <1>7, <1>9, BackfillStays
<1>25. DiskTrue' /\ AssetsFollow' /\ TourTrue'
  BY <1>1, <1>6, <1>7, SimpleDisk, FollowStays DEF CInv, Steady
<1> QED  BY <1>17, <1>18, <1>20, <1>21, <1>22, <1>23, <1>24, <1>25 DEF CInv

LEMMA CheckFilesKeeps ==
  ASSUME CInv, CheckFiles
  PROVE  CInv'
<1>1. pass.pc = "hash" /\ pass.chunk = <<>> /\ UNCHANGED <<disk, rows, scans, known, holds>>
  BY DEF CheckFiles
<1>2. PICK has : has = {i.path : i \in {i \in Range(pass.hashed) : holds[known][i.path] = i.sha}}
  OBVIOUS
<1>3. \/ pass' = [pass EXCEPT !.pc = "present", !.there = has]
      \/ pass' = [pass EXCEPT !.pc = "present", !.bad = TRUE]
  BY <1>2 DEF CheckFiles
<1>4. Steady
  <2>1. UNCHANGED tour \/ Fault("refuse")
    BY DEF CheckFiles
  <2> QED  BY <2>1, TourSteady DEF CInv, TourFaults
<1>5. /\ ListsTrue /\ PhasesTrue /\ HandTrue /\ OwnersTrue /\ BackfillTrue /\ StoresTrue /\ RowsTrue /\ AnswersTrue
      /\ AssetsFollow /\ DOMAIN pass = PassFields /\ OncePath(pass.hashed)
  BY DEF CInv, PhasesTrue, ListsTrue
<1>6. /\ pass.missing = <<>> /\ pass.bodies = <<>> /\ pass.parents = <<>> /\ pass.owner = NoItem
      /\ pass.assets = <<>> /\ ~pass.landing /\ pass.there = {}
  <2>1. /\ pass.missing = <<>> /\ pass.bodies = <<>> /\ pass.parents = <<>> /\ pass.owner = NoItem
        /\ pass.assets = <<>> /\ ~pass.landing
    BY <1>1, <1>5 DEF PhasesTrue, Sending
  <2> QED  BY <2>1, <1>1, <1>5, NothingIs DEF PhasesTrue
<1>7. /\ DOMAIN pass' = PassFields /\ pass'.pc = "present"
      /\ pass'.mode = pass.mode /\ pass'.todo = pass.todo /\ pass'.seen = pass.seen /\ pass'.chunk = pass.chunk
      /\ pass'.hashed = pass.hashed /\ pass'.missing = pass.missing /\ pass'.bodies = pass.bodies
      /\ pass'.unsent = pass.unsent /\ pass'.landing = pass.landing /\ pass'.parents = pass.parents
      /\ pass'.item = pass.item /\ pass'.answered = pass.answered /\ pass'.owner = pass.owner
      /\ pass'.assets = pass.assets /\ pass'.found = pass.found /\ pass'.changed = pass.changed
      /\ pass'.whole = pass.whole /\ pass'.failed = pass.failed
  BY <1>3, <1>5 DEF PassFields
<1>8. (pass'.there = has /\ pass'.bad = pass.bad) \/ (pass'.there = {} /\ pass'.bad = TRUE)
  BY <1>3, <1>5, <1>6 DEF PassFields
<1>9. ListsTrue'
  BY <1>1, <1>5, <1>7 DEF ListsTrue, Sending, Handling
<1>10. PhasesTrue'
  <2>1. pass'.bad \in BOOLEAN
    BY <1>5, <1>8 DEF PhasesTrue
  <2> QED  BY <2>1, <1>1, <1>5, <1>6, <1>7 DEF PhasesTrue, PassPcs, Sending
<1>11. Items' = Items /\ ReadItems' = ReadItems /\ Unsure' = Unsure /\ InHand' = InHand
  BY <1>1, <1>7 DEF Items, ReadItems, Unsure, InHand, Sending, Handling
<1>12. HandTrue'
  BY <1>1, <1>4, <1>5, <1>7, <1>11, HandMoves
<1>13. AnswersTrue'
  <2>1. ASSUME NEW i \in Range(pass.hashed), i.path \in has PROVE holds[known][i.path] = i.sha
    <3>1. PICK k \in Range(pass.hashed) : k.path = i.path /\ holds[known][k.path] = k.sha
      BY <2>1, <1>2
    <3>2. k = i
      BY <3>1, <1>5, PathOne
    <3> QED  BY <3>1, <3>2
  <2> QED  BY <2>1, <1>1, <1>7, <1>8 DEF AnswersTrue, Acked
<1>14. StoresTrue' /\ RowsTrue' /\ DiskTrue' /\ AssetsFollow' /\ TourTrue'
  BY <1>1, <1>4, <1>5, <1>11, RowsStay, SimpleStores, SimpleDisk, FollowStays DEF CInv, Steady
<1>15. OwnersTrue'
  BY <1>6, <1>7, NothingIs DEF OwnersTrue
<1>16. BackfillTrue'
  <2>1. \A q, a : ~AssetOwed(q, a)
    BY <1>1, NothingOwed DEF Handling
  <2>2. pass.pc # "assets" /\ pass.pc # "idle" /\ pass'.owner = NoItem /\ (~pass'.bad => ~pass.bad)
    BY <1>1, <1>6, <1>7, <1>8
  <2> QED  BY <2>1, <2>2, <1>1, <1>4, <1>5, <1>7, <1>11, BackfillStays
<1> QED  BY <1>9, <1>10, <1>12, <1>13, <1>14, <1>15, <1>16 DEF CInv

LEMMA RecordPresentKeeps ==
  ASSUME CInv, RecordPresent
  PROVE  CInv'
<1>1. pass.pc = "present" /\ pass.hashed # <<>> /\ UNCHANGED <<tour, disk, scans, known, holds>>
  BY DEF RecordPresent
<1>2. PICK item : item = Head(pass.hashed)
  OBVIOUS
<1>3. PICK p : p = item.path
  OBVIOUS
<1>4. PICK there \in BOOLEAN : there = (p \in pass.there)
  <2>1. (p \in pass.there) \in BOOLEAN
    OBVIOUS
  <2> QED  BY <2>1, Zenon
<1>5. PICK dry \in BOOLEAN : dry = (pass.mode = "dry")
  <2>1. (pass.mode = "dry") \in BOOLEAN
    OBVIOUS
  <2> QED  BY <2>1, Zenon
<1>6. /\ rows' = IF there THEN [rows EXCEPT ![p] = RowOf(item, item.sha, "ok")] ELSE rows
      /\ pass' = [pass EXCEPT !.hashed = Tail(pass.hashed),
                              !.missing = IF there \/ dry THEN pass.missing ELSE Append(pass.missing, item),
                              !.parents = IF (there \/ dry) /\ ~item.snapshot THEN Append(pass.parents, item) ELSE pass.parents]
  BY <1>2, <1>3, <1>4, <1>5 DEF RecordPresent
<1>7. Steady
  BY <1>1, TourSteady DEF CInv
<1>8. /\ ListsTrue /\ PhasesTrue /\ HandTrue /\ OwnersTrue /\ BackfillTrue /\ StoresTrue /\ RowsTrue /\ AnswersTrue
      /\ AssetsFollow /\ DOMAIN pass = PassFields /\ pass.mode \in Modes /\ OncePath(pass.hashed) /\ OncePath(pass.missing)
      /\ pass.pc # "idle" /\ Listing(pass.parents)
  BY <1>1 DEF CInv, PhasesTrue, ListsTrue
<1>9. /\ pass.chunk = <<>> /\ pass.bodies = <<>> /\ pass.owner = NoItem /\ pass.mode # "run"
      /\ pass.assets = <<>> /\ ~pass.landing
  BY <1>1, <1>8 DEF PhasesTrue, Sending
<1>10. /\ DOMAIN pass' = PassFields /\ pass'.hashed = Tail(pass.hashed)
       /\ pass'.missing = (IF there \/ dry THEN pass.missing ELSE Append(pass.missing, item))
       /\ pass'.parents = (IF (there \/ dry) /\ ~item.snapshot THEN Append(pass.parents, item) ELSE pass.parents)
       /\ pass'.pc = pass.pc /\ pass'.mode = pass.mode /\ pass'.todo = pass.todo /\ pass'.bad = pass.bad
       /\ pass'.seen = pass.seen /\ pass'.chunk = pass.chunk /\ pass'.there = pass.there /\ pass'.bodies = pass.bodies
       /\ pass'.unsent = pass.unsent /\ pass'.landing = pass.landing /\ pass'.item = pass.item
       /\ pass'.answered = pass.answered /\ pass'.owner = pass.owner /\ pass'.assets = pass.assets
       /\ pass'.found = pass.found /\ pass'.changed = pass.changed /\ pass'.whole = pass.whole
       /\ pass'.failed = pass.failed
  BY <1>6, <1>8 DEF PassFields
<1>11. /\ OncePath(Tail(pass.hashed)) /\ Range(pass.hashed) = {item} \cup Range(Tail(pass.hashed))
       /\ p \notin Paths(Tail(pass.hashed)) /\ Paths(pass.hashed) = {p} \cup Paths(Tail(pass.hashed))
  BY <1>1, <1>2, <1>3, <1>8, PathTail
<1>12. p \in Range(Owners) /\ p \in Files /\ p \notin Paths(pass.missing)
  BY <1>8, <1>11 DEF ListsTrue, Files
<1>13. Looked(item) /\ HasRead(item)
  BY <1>8, <1>11 DEF HandTrue, Items, ReadItems
<1>14. /\ item.size \in Nat \ {0} /\ item.mtime \in Nat /\ item.sha # <<>> /\ (Same(p) => item.sha = Content(p))
       /\ item.snapshot = (p \in Databases \cup Images) /\ p \notin Images
  BY <1>3, <1>8, <1>12, <1>13, ReadIs, CollectorAssumption
<1>15. there => holds[known][p] = item.sha
  BY <1>1, <1>3, <1>4, <1>8, <1>11 DEF AnswersTrue, Acked
<1>16. \/ pass'.missing = pass.missing /\ (there \/ dry)
       \/ /\ OncePath(pass'.missing) /\ Range(pass'.missing) = Range(pass.missing) \cup {item}
          /\ Paths(pass'.missing) = Paths(pass.missing) \cup {p} /\ ~there
  <2>1. /\ OncePath(Append(pass.missing, item)) /\ Range(Append(pass.missing, item)) = Range(pass.missing) \cup {item}
        /\ Paths(Append(pass.missing, item)) = Paths(pass.missing) \cup {p}
    BY <1>3, <1>8, <1>12, PathAppend
  <2> QED  BY <2>1, <1>10
<1>17. /\ Listing(pass'.parents) /\ Paths(pass.parents) \subseteq Paths(pass'.parents)
       /\ ((there \/ dry) /\ ~item.snapshot => p \in Paths(pass'.parents))
       /\ \A i \in Range(pass'.parents) : i \in Range(pass.parents) \/ (i = item /\ (there \/ dry) /\ ~item.snapshot)
  <2>1. CASE (there \/ dry) /\ ~item.snapshot
    <3>1. pass'.parents = Append(pass.parents, item)
      BY <2>1, <1>10
    <3>2. Listing(pass'.parents) /\ Range(pass'.parents) = Range(pass.parents) \cup {item}
      BY <3>1, <1>8, AppendIs
    <3> QED  BY <2>1, <3>2, <1>3 DEF Paths
  <2>2. CASE ~((there \/ dry) /\ ~item.snapshot)
    <3>1. pass'.parents = pass.parents
      BY <2>2, <1>10
    <3> QED  BY <2>2, <3>1, <1>8
  <2> QED  BY <2>1, <2>2
<1>18. ListsTrue'
  <2>1. pass.pc \notin Handling /\ pass.pc \notin Sending
    BY <1>1 DEF Handling, Sending
  <2>2. Paths(pass.chunk) = {} /\ Paths(pass.bodies) = {}
    BY <1>9, NothingIs
  <2>3. OncePath(pass'.missing) /\ Paths(pass'.missing) \subseteq Paths(pass.missing) \cup {p}
    BY <1>8, <1>16
  <2>4. OncePath(pass'.hashed) /\ Paths(pass'.hashed) \subseteq Paths(pass.hashed) /\ p \notin Paths(pass'.hashed)
    BY <1>10, <1>11
  <2>5. Paths(pass'.hashed) \cap Paths(pass'.missing) = {}
    BY <2>3, <2>4, <1>8 DEF ListsTrue
  <2>6. Paths(pass.chunk) \cup Paths(pass'.hashed) \cup Paths(pass'.missing) \cup Paths(pass.bodies) \subseteq Range(Owners)
    BY <2>3, <2>4, <1>8, <1>12 DEF ListsTrue
  <2> QED  BY <2>1, <2>2, <2>3, <2>4, <2>5, <2>6, <1>8, <1>10, <1>17 DEF ListsTrue
<1>19. PhasesTrue'
  <2>1. pass.mode = "dry" => pass'.missing = <<>>
    BY <1>5, <1>8, <1>10 DEF PhasesTrue
  <2>2. /\ DOMAIN pass' = PassFields
        /\ pass'.pc = pass.pc /\ pass'.mode = pass.mode /\ pass'.todo = pass.todo /\ pass'.bad = pass.bad
        /\ pass'.seen = pass.seen /\ pass'.chunk = pass.chunk /\ pass'.there = pass.there
        /\ pass'.bodies = pass.bodies /\ pass'.unsent = pass.unsent /\ pass'.landing = pass.landing
        /\ pass'.item = pass.item /\ pass'.answered = pass.answered /\ pass'.owner = pass.owner
        /\ pass'.assets = pass.assets /\ pass'.found = pass.found /\ pass'.changed = pass.changed
        /\ pass'.whole = pass.whole /\ pass'.failed = pass.failed
    BY <1>10
  <2> QED  BY <2>1, <2>2, <1>1, <1>8, <1>9 DEF PhasesTrue, PassPcs, Sending
<1>20. /\ Unsure' = {} /\ Unsure = {} /\ ReadItems' = Range(pass'.hashed) \cup Range(pass'.missing)
       /\ ReadItems = Range(pass.hashed) \cup Range(pass.missing) /\ Items' = ReadItems' /\ Items = ReadItems
  BY <1>1, <1>9, <1>10, NothingIs DEF ReadItems, Unsure, Items, Sending, Handling
<1>21. ReadItems' \subseteq ReadItems /\ \A i \in ReadItems' : there => i.path # p
  <2>1. Range(pass'.missing) \subseteq Range(pass.missing) \cup Range(pass.hashed)
    BY <1>11, <1>16
  <2>2. Range(pass'.hashed) \subseteq Range(pass.hashed)
    BY <1>10, <1>11
  <2>3. \A i \in Range(pass'.hashed) : i.path # p
    BY <1>10, <1>11 DEF Paths
  <2>4. there => \A i \in Range(pass'.missing) : i.path # p
    BY <1>12, <1>16 DEF Paths
  <2> QED  BY <2>1, <2>2, <2>3, <2>4, <1>20
<1>22. StoresTrue' /\ RowsTrue'
  <2>1. CASE ~there
    <3>1. UNCHANGED rows
      BY <2>1, <1>6
    <3> QED  BY <3>1, <1>1, <1>7, <1>8, <1>20, RowsStay, SimpleStores
  <2>2. CASE there
    <3>1. PICK r : r = RowOf(item, item.sha, "ok")
      OBVIOUS
    <3>2. RowTyped(r)
      BY <3>1, <1>14, RowOfIs
    <3>3. Versions(tour.versions[p]) /\ disk[p] \in Nat /\ disk[p] <= Len(tour.versions[p]) /\ pass.seen[p] \in Nat
      BY <1>8, <1>12 DEF CInv, TourTrue, DiskTrue, HandTrue
    <3>4. LookedAt(item, tour.versions[p], disk[p], pass.seen[p], rows[p]) /\ HasReadAt(item, tour.versions[p], disk[p], pass.seen[p])
      BY <1>3, <1>13 DEF Looked, HasRead
    <3>5. holds[known][p] # <<>> /\ holds[known][p] = item.sha
      BY <2>2, <1>14, <1>15
    <3>6. \A unsure : RowTrueAt(item.path, tour.versions[p], disk[p], RowOf(item, item.sha, "ok"), holds[known][p], p \in tour.purge, unsure)
      BY <3>3, <3>4, <3>5, RowHolds
    <3>7. RowTrueAt(p, tour.versions[p], disk[p], r, holds[known][p], p \in tour.purge, p \in Unsure')
      BY <3>1, <3>6, <1>3
    <3>8. rows' = [rows EXCEPT ![p] = r]
      BY <2>2, <3>1, <1>6
    <3> QED  BY <3>2, <3>7, <3>8, <1>1, <1>7, <1>12, <1>20, RowsPut
  <2> QED  BY <2>1, <2>2
<1>23. HandTrue'
  <2>1. ASSUME NEW i \in Items' PROVE rows'[i.path] = rows[i.path]
    <3>1. Looked(i)
      BY <2>1, <1>8, <1>20, <1>21 DEF HandTrue
    <3>2. i.path \in Files /\ (there => i.path # p)
      BY <2>1, <3>1, <1>8, <1>20, <1>21, ReadIs
    <3> QED  BY <3>2, <1>6, <1>8 DEF StoresTrue
  <2> QED  BY <2>1, <1>1, <1>7, <1>8, <1>10, <1>20, <1>21, HandMoves
<1>24. AnswersTrue'
  <2>1. Acked' = Range(pass'.hashed) /\ Acked = Range(pass.hashed) /\ Range(pass'.hashed) \subseteq Range(pass.hashed)
    BY <1>1, <1>10, <1>11 DEF Acked
  <2> QED  BY <2>1, <1>1, <1>8, <1>10 DEF AnswersTrue
<1>25. OwnersTrue'
  <2>1. \A q : (Offered(q) => Offered(q)') /\ \A a : Mentions(q, a)' = Mentions(q, a)
    BY <1>1, <1>7, OfferedStays
  <2>2. there => Offered(p)
    BY <1>12, <1>14, <1>15 DEF Offered
  <2>3. ASSUME NEW i \in Range(pass'.parents) PROVE i.size # 0 /\ i.snapshot = FALSE /\ (pass'.mode # "dry" => Offered(i.path)')
    <3>1. CASE i \in Range(pass.parents)
      BY <3>1, <2>1, <1>8, <1>10 DEF OwnersTrue
    <3>2. CASE i = item /\ (there \/ dry) /\ ~item.snapshot
      <4>1. item.snapshot \in BOOLEAN
        BY <1>14
      <4> QED  BY <4>1, <3>2, <2>1, <2>2, <1>3, <1>5, <1>10, <1>14
    <3> QED  BY <3>1, <3>2, <2>3, <1>17
  <2> QED  BY <2>3, <1>9, <1>10, NothingIs DEF OwnersTrue
<1>26. BackfillTrue'
  <2>1. \A q, a : ~AssetOwed(q, a)
    BY <1>1, NothingOwed DEF Handling
  <2>2. \A q : Same(q)' = Same(q) /\ Content(q)' = Content(q)
    BY <1>1, <1>10 DEF Same, Content
  <2>3. \A q \in InHand' : FileSent(q)' /\ AssetsSent(q)'
    BY DEF FileSent, AssetsSent
  <2>4. \A q \in Paths(pass'.parents) : AssetsSent(q)'
    BY DEF AssetsSent
  <2>5. Paths(pass.missing) \subseteq Paths(pass'.missing)
    BY <1>16
  <2>6. InHand \subseteq InHand' \cup {p}
    BY <2>5, <1>10, <1>11, <1>20 DEF InHand
  <2>7. SUFFICES ASSUME pass'.mode = "backfill", Same(p) PROVE FileSent(p)' /\ (p \notin Databases => AssetsSent(p)')
    <3>1. pass.pc # "assets" /\ pass'.mode = pass.mode /\ pass'.bad = pass.bad /\ pass'.owner = NoItem
      BY <1>1, <1>9, <1>10
    <3> QED  BY <3>1, <2>1, <2>2, <2>3, <2>4, <2>6, <2>7, <1>1, <1>7, <1>8, <1>17, BackfillStep
  <2>8. ~dry
    BY <2>7, <1>5, <1>10
  <2>9. CASE there
    <3>1. holds'[known'][p] = Content(p)'
      BY <2>2, <2>7, <2>9, <1>1, <1>14, <1>15
    <3>2. p \notin Databases => p \in Paths(pass'.parents)
      BY <2>9, <1>14, <1>17
    <3> QED  BY <3>1, <3>2, <2>4 DEF FileSent
  <2>10. CASE ~there
    <3>1. pass'.missing = Append(pass.missing, item)
      BY <2>8, <2>10, <1>10
    <3>2. p \in Paths(pass'.missing)
      <4>1. Range(Append(pass.missing, item)) = Range(pass.missing) \cup {item}
        BY <1>3, <1>8, <1>12, PathAppend
      <4> QED  BY <4>1, <3>1, <1>3 DEF Paths
    <3>3. p \in InHand'
      BY <3>2 DEF InHand
    <3> QED  BY <3>3, <2>3
  <2> QED  BY <2>9, <2>10
<1>27. DiskTrue' /\ AssetsFollow' /\ TourTrue'
  BY <1>1, <1>7, <1>8, SimpleDisk, FollowStays DEF CInv, Steady
<1> QED  BY <1>18, <1>19, <1>22, <1>23, <1>24, <1>25, <1>26, <1>27 DEF CInv

LEMMA CheckedKeeps ==
  ASSUME CInv, Checked
  PROVE  CInv'
<1>1. pass.pc = "present" /\ pass.hashed = <<>> /\ UNCHANGED <<tour, disk, rows, scans, known, holds>>
  BY DEF Checked
<1>2. pass' = [pass EXCEPT !.pc = IF pass.mode = "dry" THEN "count" ELSE "large", !.there = {}]
  BY DEF Checked
<1>3. Steady
  BY <1>1, TourSteady DEF CInv
<1>4. /\ ListsTrue /\ PhasesTrue /\ HandTrue /\ OwnersTrue /\ BackfillTrue /\ StoresTrue /\ RowsTrue /\ AnswersTrue
      /\ AssetsFollow /\ DOMAIN pass = PassFields /\ pass.mode \in Modes
  BY DEF CInv, PhasesTrue
<1>5. /\ pass.chunk = <<>> /\ pass.bodies = <<>> /\ pass.owner = NoItem /\ pass.mode # "run"
      /\ pass.assets = <<>> /\ ~pass.landing /\ (pass.mode = "dry" => pass.missing = <<>>)
  BY <1>1, <1>4 DEF PhasesTrue, Sending
<1>6. /\ DOMAIN pass' = PassFields /\ pass'.pc = (IF pass.mode = "dry" THEN "count" ELSE "large") /\ pass'.there = {}
      /\ pass'.mode = pass.mode /\ pass'.todo = pass.todo /\ pass'.bad = pass.bad /\ pass'.seen = pass.seen
      /\ pass'.chunk = pass.chunk /\ pass'.hashed = pass.hashed /\ pass'.missing = pass.missing
      /\ pass'.bodies = pass.bodies /\ pass'.unsent = pass.unsent /\ pass'.landing = pass.landing
      /\ pass'.parents = pass.parents /\ pass'.item = pass.item /\ pass'.answered = pass.answered
      /\ pass'.owner = pass.owner /\ pass'.assets = pass.assets /\ pass'.found = pass.found
      /\ pass'.changed = pass.changed /\ pass'.whole = pass.whole /\ pass'.failed = pass.failed
  BY <1>2, <1>4 DEF PassFields
<1>7. pass'.pc \in {"count", "large"} /\ pass'.pc \notin Handling /\ pass'.pc \notin Sending
  BY <1>6 DEF Handling, Sending
<1>8. ListsTrue'
  BY <1>4, <1>6, <1>7 DEF ListsTrue
<1>9. PhasesTrue'
  BY <1>1, <1>4, <1>5, <1>6 DEF PhasesTrue, PassPcs, Sending
<1>10. Items' = Items /\ ReadItems' = ReadItems /\ Unsure' = Unsure /\ InHand' = InHand
  BY <1>1, <1>6, <1>7 DEF Items, ReadItems, Unsure, InHand, Sending, Handling
<1>11. HandTrue'
  BY <1>1, <1>3, <1>4, <1>6, <1>10, HandMoves
<1>12. AnswersTrue'
  BY <1>6, <1>7, <1>5, NothingIs DEF AnswersTrue
<1>13. StoresTrue' /\ RowsTrue' /\ DiskTrue' /\ AssetsFollow' /\ TourTrue'
  BY <1>1, <1>3, <1>4, <1>10, RowsStay, SimpleStores, SimpleDisk, FollowStays DEF CInv, Steady
<1>14. OwnersTrue'
  <2>1. Range(pass'.assets) = {}
    BY <1>5, <1>6, NothingIs
  <2>2. \A q \in Range(Owners) : holds[known][q] # <<>> => holds'[known][q] # <<>>
    BY <1>1
  <2> QED  BY <2>1, <2>2, <1>1, <1>3, <1>4, <1>6, <1>7, OwnersStay
<1>15. BackfillTrue'
  <2>1. \A q, a : ~AssetOwed(q, a)
    BY <1>1, NothingOwed DEF Handling
  <2>2. pass.pc # "assets" /\ pass.pc # "idle" /\ pass'.owner = NoItem
    BY <1>1, <1>5, <1>6
  <2> QED  BY <2>1, <2>2, <1>1, <1>3, <1>4, <1>6, <1>10, BackfillStays
<1> QED  BY <1>8, <1>9, <1>11, <1>12, <1>13, <1>14, <1>15 DEF CInv

LEMMA CountAssetsKeeps ==
  ASSUME CInv, CountAssets
  PROVE  CInv'
<1>1. pass.pc = "count" /\ UNCHANGED <<disk, rows, scans, known, holds>>
  BY DEF CountAssets
<1>2. \/ pass' = [pass EXCEPT !.pc = "scan", !.parents = <<>>]
      \/ pass' = [[pass EXCEPT !.pc = "scan", !.parents = <<>>] EXCEPT !.bad = TRUE]
  BY DEF CountAssets
<1>3. Steady
  <2>1. UNCHANGED tour \/ Fault("refuse")
    BY DEF CountAssets
  <2> QED  BY <2>1, TourSteady DEF CInv, TourFaults
<1>4. /\ ListsTrue /\ PhasesTrue /\ HandTrue /\ OwnersTrue /\ BackfillTrue /\ StoresTrue /\ RowsTrue /\ AnswersTrue
      /\ AssetsFollow /\ DOMAIN pass = PassFields /\ pass.mode = "dry"
  BY <1>1 DEF CInv, PhasesTrue
<1>5. /\ pass.chunk = <<>> /\ pass.hashed = <<>> /\ pass.missing = <<>> /\ pass.bodies = <<>> /\ pass.owner = NoItem
      /\ pass.assets = <<>> /\ ~pass.landing
  BY <1>1, <1>4 DEF PhasesTrue, Sending
<1>6. /\ DOMAIN pass' = PassFields /\ pass'.pc = "scan" /\ pass'.parents = <<>> /\ pass'.bad \in {pass.bad, TRUE}
      /\ pass'.mode = pass.mode /\ pass'.todo = pass.todo /\ pass'.seen = pass.seen /\ pass'.chunk = pass.chunk
      /\ pass'.hashed = pass.hashed /\ pass'.there = pass.there /\ pass'.missing = pass.missing
      /\ pass'.bodies = pass.bodies /\ pass'.unsent = pass.unsent /\ pass'.landing = pass.landing
      /\ pass'.item = pass.item /\ pass'.answered = pass.answered /\ pass'.owner = pass.owner
      /\ pass'.assets = pass.assets /\ pass'.found = pass.found /\ pass'.changed = pass.changed
      /\ pass'.whole = pass.whole /\ pass'.failed = pass.failed
  BY <1>2, <1>4 DEF PassFields
<1>7. pass'.pc \notin Handling /\ pass'.pc \notin Sending
  BY <1>6 DEF Handling, Sending
<1>8. ListsTrue'
  BY <1>4, <1>6, <1>7, NothingIs DEF ListsTrue
<1>9. PhasesTrue'
  <2>1. pass'.bad \in BOOLEAN
    BY <1>4, <1>6 DEF PhasesTrue
  <2> QED  BY <2>1, <1>1, <1>4, <1>5, <1>6 DEF PhasesTrue, PassPcs, Sending
<1>10. Items' = Items /\ ReadItems' = ReadItems /\ Unsure' = Unsure
  BY <1>1, <1>6, <1>7 DEF Items, ReadItems, Unsure, Sending, Handling
<1>11. HandTrue'
  BY <1>1, <1>3, <1>4, <1>6, <1>10, HandMoves
<1>12. AnswersTrue'
  BY <1>5, <1>6, NothingIs DEF AnswersTrue, Acked
<1>13. StoresTrue' /\ RowsTrue' /\ DiskTrue' /\ AssetsFollow' /\ TourTrue'
  BY <1>1, <1>3, <1>4, <1>10, RowsStay, SimpleStores, SimpleDisk, FollowStays DEF CInv, Steady
<1>14. OwnersTrue'
  BY <1>5, <1>6, NothingIs DEF OwnersTrue
<1>15. BackfillTrue'
  BY <1>4, <1>6 DEF BackfillTrue
<1> QED  BY <1>8, <1>9, <1>11, <1>12, <1>13, <1>14, <1>15 DEF CInv

LEMMA SendLargeKeeps ==
  ASSUME CInv, SendLarge
  PROVE  CInv'
<1>1. pass.pc = "large" /\ UNCHANGED <<tour, disk, rows, scans, known, holds>>
  BY DEF SendLarge
<1>2. PICK k \in DOMAIN pass.missing :
        pass' = [pass EXCEPT !.pc = "send", !.item = pass.missing[k], !.missing = RemoveAt(pass.missing, k)]
  BY DEF SendLarge
<1>3. PICK item : item = pass.missing[k]
  OBVIOUS
<1>4. PICK rest : rest = RemoveAt(pass.missing, k)
  OBVIOUS
<1>5. Steady
  BY <1>1, TourSteady DEF CInv
<1>6. /\ ListsTrue /\ PhasesTrue /\ HandTrue /\ OwnersTrue /\ BackfillTrue /\ StoresTrue /\ RowsTrue /\ AnswersTrue
      /\ AssetsFollow /\ DOMAIN pass = PassFields /\ pass.mode \in Modes /\ OncePath(pass.missing)
  BY DEF CInv, PhasesTrue, ListsTrue
<1>7. /\ pass.chunk = <<>> /\ pass.hashed = <<>> /\ pass.owner = NoItem /\ pass.mode = "backfill" /\ ~pass.landing
      /\ pass.assets = <<>>
  BY <1>1, <1>6 DEF PhasesTrue, Modes, Sending
<1>8. /\ DOMAIN pass' = PassFields /\ pass'.pc = "send" /\ pass'.item = item /\ pass'.missing = rest
      /\ pass'.mode = pass.mode /\ pass'.todo = pass.todo /\ pass'.bad = pass.bad /\ pass'.seen = pass.seen
      /\ pass'.chunk = pass.chunk /\ pass'.hashed = pass.hashed /\ pass'.there = pass.there
      /\ pass'.bodies = pass.bodies /\ pass'.unsent = pass.unsent /\ pass'.landing = pass.landing
      /\ pass'.parents = pass.parents /\ pass'.answered = pass.answered /\ pass'.owner = pass.owner
      /\ pass'.assets = pass.assets /\ pass'.found = pass.found /\ pass'.changed = pass.changed
      /\ pass'.whole = pass.whole /\ pass'.failed = pass.failed
  BY <1>2, <1>3, <1>4, <1>6 DEF PassFields
<1>9. /\ OncePath(rest) /\ Range(pass.missing) = Range(rest) \cup {item} /\ item.path \notin Paths(rest)
      /\ Paths(pass.missing) = Paths(rest) \cup {item.path}
  BY <1>3, <1>4, <1>6, PathRemove
<1>10. item.path \in Range(Owners) /\ item.path \notin Paths(pass.bodies)
  BY <1>6, <1>9 DEF ListsTrue
<1>11. ListsTrue'
  BY <1>6, <1>7, <1>8, <1>9, <1>10 DEF ListsTrue
<1>12. PhasesTrue'
  <2>1. pass.missing # <<>>
    BY <1>2
  <2> QED  BY <2>1, <1>1, <1>6, <1>7, <1>8 DEF PhasesTrue, PassPcs, Sending
<1>13. /\ Items' = Items /\ ReadItems' = ReadItems /\ Unsure \subseteq Unsure' /\ InHand' = InHand
  BY <1>1, <1>8, <1>9 DEF Items, ReadItems, Unsure, InHand, Handling, Sending
<1>14. HandTrue'
  BY <1>1, <1>5, <1>6, <1>8, <1>13, HandMoves
<1>15. AnswersTrue'
  BY <1>1, <1>6, <1>8 DEF AnswersTrue, Acked
<1>16. StoresTrue' /\ RowsTrue' /\ DiskTrue' /\ AssetsFollow' /\ TourTrue'
  BY <1>1, <1>5, <1>6, <1>13, RowsStay, SimpleStores, SimpleDisk, FollowStays DEF CInv, Steady
<1>17. OwnersTrue'
  <2>1. Range(pass'.assets) = {} /\ pass'.owner = NoItem
    BY <1>7, <1>8, NothingIs
  <2> QED  BY <2>1, <1>1, <1>5, <1>6, <1>8, OwnersStay
<1>18. BackfillTrue'
  <2>1. \A q, a : ~AssetOwed(q, a)
    BY <1>1, NothingOwed DEF Handling
  <2>2. pass.pc # "assets" /\ pass.pc # "idle" /\ pass'.owner = NoItem
    BY <1>1, <1>7, <1>8
  <2> QED  BY <2>1, <2>2, <1>1, <1>5, <1>6, <1>8, <1>13, BackfillStays
<1> QED  BY <1>11, <1>12, <1>14, <1>15, <1>16, <1>17, <1>18 DEF CInv

LEMMA ReadSmallKeeps ==
  ASSUME CInv, ReadSmall
  PROVE  CInv'
<1>1. pass.pc = "large" /\ pass.missing # <<>> /\ UNCHANGED <<disk, rows, scans, known, holds>>
  BY DEF ReadSmall
<1>2. PICK item : item = Head(pass.missing)
  OBVIOUS
<1>3. PICK j : j = ReadAgain(item)
  OBVIOUS
<1>4. \/ pass' = [[pass EXCEPT !.missing = Tail(pass.missing)]
                    EXCEPT !.bodies = Append(pass.bodies, j), !.unsent = pass.unsent \cup {item.path}]
      \/ pass' = [[pass EXCEPT !.missing = Tail(pass.missing)] EXCEPT !.bad = TRUE]
  BY <1>2, <1>3 DEF ReadSmall
<1>5. Steady
  <2>1. UNCHANGED tour \/ Fault("read")
    BY DEF ReadSmall
  <2> QED  BY <2>1, TourSteady DEF CInv, TourFaults
<1>6. /\ ListsTrue /\ PhasesTrue /\ HandTrue /\ OwnersTrue /\ BackfillTrue /\ StoresTrue /\ RowsTrue /\ AnswersTrue
      /\ AssetsFollow /\ DOMAIN pass = PassFields /\ pass.mode \in Modes /\ OncePath(pass.missing) /\ OncePath(pass.bodies)
  BY DEF CInv, PhasesTrue, ListsTrue
<1>7. /\ pass.chunk = <<>> /\ pass.hashed = <<>> /\ pass.owner = NoItem /\ pass.mode = "backfill" /\ ~pass.landing
      /\ pass.assets = <<>> /\ pass.there \subseteq Paths(pass.bodies)
  BY <1>1, <1>6 DEF PhasesTrue, Modes, Sending
<1>8. PICK rest : rest = Tail(pass.missing)
  OBVIOUS
<1>9. /\ OncePath(rest) /\ Range(pass.missing) = {item} \cup Range(rest) /\ item.path \notin Paths(rest)
      /\ Paths(pass.missing) = {item.path} \cup Paths(rest)
  BY <1>1, <1>2, <1>6, <1>8, PathTail
<1>10. item.path \in Range(Owners) /\ item.path \notin Paths(pass.bodies)
  BY <1>6, <1>9 DEF ListsTrue
<1>11. Looked(item)
  BY <1>6, <1>9 DEF HandTrue, Items, ReadItems
<1>12. Looked(j) /\ HasRead(j) /\ j.path = item.path
  <2>1. j = [item EXCEPT !.sha = Reads(item)] /\ pass.pc # "idle"
    BY <1>1, <1>3 DEF ReadAgain
  <2> QED  BY <2>1, <1>11, ReadsGives
<1>13. StoresTrue' /\ DiskTrue' /\ AssetsFollow' /\ TourTrue'
  BY <1>1, <1>5, <1>6, SimpleStores, SimpleDisk, FollowStays DEF CInv, Steady
<1>14. \A q, a : ~AssetOwed(q, a)
  BY <1>1, NothingOwed DEF Handling
<1>15. CASE pass' = [[pass EXCEPT !.missing = Tail(pass.missing)]
                       EXCEPT !.bodies = Append(pass.bodies, j), !.unsent = pass.unsent \cup {item.path}]
  <2>1. PICK more : more = Append(pass.bodies, j)
    OBVIOUS
  <2>2. /\ DOMAIN pass' = PassFields /\ pass'.missing = rest /\ pass'.bodies = more /\ pass'.unsent = pass.unsent \cup {item.path}
        /\ pass'.pc = pass.pc /\ pass'.mode = pass.mode /\ pass'.todo = pass.todo /\ pass'.bad = pass.bad
        /\ pass'.seen = pass.seen /\ pass'.chunk = pass.chunk /\ pass'.hashed = pass.hashed
        /\ pass'.there = pass.there /\ pass'.landing = pass.landing /\ pass'.parents = pass.parents
        /\ pass'.item = pass.item /\ pass'.answered = pass.answered /\ pass'.owner = pass.owner
        /\ pass'.assets = pass.assets /\ pass'.found = pass.found /\ pass'.changed = pass.changed
        /\ pass'.whole = pass.whole /\ pass'.failed = pass.failed
    BY <2>1, <1>6, <1>8, <1>15 DEF PassFields
  <2>3. OncePath(more) /\ Range(more) = Range(pass.bodies) \cup {j} /\ Paths(more) = Paths(pass.bodies) \cup {item.path}
    BY <2>1, <1>6, <1>10, <1>12, PathAppend
  <2>4. pass'.pc = "large" /\ pass'.pc \notin Handling /\ pass'.pc \notin Sending /\ pass.pc \notin Handling /\ pass.pc \notin Sending
    BY <2>2, <1>1 DEF Handling, Sending
  <2>5. ListsTrue'
    <3>1. /\ Paths(pass.missing) \cap Paths(pass.bodies) = {} /\ Paths(pass.missing) \subseteq Range(Owners)
          /\ Paths(pass.bodies) \subseteq Range(Owners) /\ pass.unsent \subseteq Paths(pass.bodies)
      BY <1>6 DEF ListsTrue
    <3>2. Paths(rest) \cap Paths(more) = {} /\ Paths(rest) \cup Paths(more) \subseteq Range(Owners) /\ pass'.unsent \subseteq Paths(more)
      BY <3>1, <2>2, <2>3, <1>9
    <3>3. Paths(pass.hashed) = {} /\ Paths(pass.chunk) = {}
      BY <1>7, NothingIs
    <3> QED  BY <3>2, <3>3, <2>2, <2>3, <2>4, <1>6, <1>9 DEF ListsTrue
  <2>6. PhasesTrue'
    <3>1. pass.there \subseteq Paths(more)
      BY <2>3, <1>7
    <3> QED  BY <3>1, <2>2, <1>1, <1>6, <1>7 DEF PhasesTrue, PassPcs, Sending
  <2>7. /\ Unsure \subseteq Unsure' /\ InHand \subseteq InHand'
    BY <2>2, <2>3, <2>4, <1>9 DEF Unsure, InHand
  <2>8. /\ Items' = Range(rest) \cup Range(more) /\ ReadItems' = Range(rest) \cup Range(more)
        /\ Items = Range(pass.missing) \cup Range(pass.bodies) /\ ReadItems = Items
    BY <2>2, <2>4, <1>7, NothingIs DEF Items, ReadItems
  <2>9. HandTrue'
    <3>1. \A i : Looked(i)' = Looked(i) /\ HasRead(i)' = HasRead(i)
      BY <2>2, <1>1, <1>5, LookedStays
    <3>2. \A i \in Items' : Looked(i) /\ HasRead(i)
      BY <2>3, <2>8, <1>6, <1>9, <1>12 DEF HandTrue
    <3>3. pass.seen \in [Files -> Nat] /\ \A p \in Files : pass.seen[p] <= disk[p]
      BY <1>1, <1>6 DEF HandTrue
    <3> QED  BY <3>1, <3>2, <3>3, <2>2, <2>8, <1>1 DEF HandTrue
  <2>10. AnswersTrue'
    <3>1. Acked' = Range(pass.bodies) \cup {j} /\ Acked = Range(pass.bodies) /\ pass'.pc # "record"
      BY <2>2, <2>3, <1>1 DEF Acked
    <3>2. j.path \notin pass.there
      BY <1>7, <1>10, <1>12
    <3> QED  BY <3>1, <3>2, <2>2, <1>1, <1>6 DEF AnswersTrue
  <2>11. RowsTrue'
    BY <2>7, <1>1, <1>5, <1>6, RowsStay
  <2>12. OwnersTrue'
    <3>1. Range(pass'.assets) = {} /\ pass'.owner = NoItem
      BY <2>2, <1>7, NothingIs
    <3> QED  BY <3>1, <2>2, <1>1, <1>5, <1>6, OwnersStay
  <2>13. BackfillTrue'
    <3>1. pass.pc # "assets" /\ pass.pc # "idle" /\ pass'.owner = NoItem
      BY <2>2, <1>1, <1>7
    <3> QED  BY <3>1, <2>2, <2>7, <1>1, <1>5, <1>6, <1>14, BackfillStays
  <2> QED  BY <2>5, <2>6, <2>9, <2>10, <2>11, <2>12, <2>13, <1>13 DEF CInv
<1>16. CASE pass' = [[pass EXCEPT !.missing = Tail(pass.missing)] EXCEPT !.bad = TRUE]
  <2>1. /\ DOMAIN pass' = PassFields /\ pass'.missing = rest /\ pass'.bad = TRUE
        /\ pass'.pc = pass.pc /\ pass'.mode = pass.mode /\ pass'.todo = pass.todo /\ pass'.seen = pass.seen
        /\ pass'.chunk = pass.chunk /\ pass'.hashed = pass.hashed /\ pass'.there = pass.there
        /\ pass'.bodies = pass.bodies /\ pass'.unsent = pass.unsent /\ pass'.landing = pass.landing
        /\ pass'.parents = pass.parents /\ pass'.item = pass.item /\ pass'.answered = pass.answered
        /\ pass'.owner = pass.owner /\ pass'.assets = pass.assets /\ pass'.found = pass.found
        /\ pass'.changed = pass.changed /\ pass'.whole = pass.whole /\ pass'.failed = pass.failed
    BY <1>6, <1>8, <1>16 DEF PassFields
  <2>2. ListsTrue'
    <3>1. Paths(pass.hashed) = {}
      BY <1>7, NothingIs
    <3> QED  BY <3>1, <2>1, <1>1, <1>6, <1>9 DEF ListsTrue, Handling, Sending
  <2>3. PhasesTrue'
    BY <2>1, <1>1, <1>6, <1>7 DEF PhasesTrue, PassPcs, Sending
  <2>4. Items' \subseteq Items /\ ReadItems' \subseteq ReadItems /\ Unsure' = Unsure
    BY <2>1, <1>1, <1>9 DEF Items, ReadItems, Unsure, Handling, Sending
  <2>5. HandTrue'
    BY <2>1, <2>4, <1>1, <1>5, <1>6, HandMoves
  <2>6. AnswersTrue'
    BY <2>1, <1>1, <1>6 DEF AnswersTrue, Acked
  <2>7. RowsTrue'
    BY <2>4, <1>1, <1>5, <1>6, RowsStay
  <2>8. OwnersTrue'
    <3>1. Range(pass'.assets) = {} /\ pass'.owner = NoItem
      BY <2>1, <1>7, NothingIs
    <3> QED  BY <3>1, <2>1, <1>1, <1>5, <1>6, OwnersStay
  <2>9. BackfillTrue'
    BY <2>1 DEF BackfillTrue
  <2> QED  BY <2>2, <2>3, <2>5, <2>6, <2>7, <2>8, <2>9, <1>13 DEF CInv
<1> QED  BY <1>4, <1>15, <1>16

LEMMA LandKeeps ==
  ASSUME CInv, Land
  PROVE  CInv'
<1>1. /\ pass.pc \in {"large", "land"} /\ (pass.pc = "large" => pass.missing = <<>> /\ pass.unsent = {})
      /\ UNCHANGED <<tour, disk, rows, scans, known, holds>>
  BY DEF Land
<1>2. Steady
  BY <1>1, TourSteady DEF CInv
<1>3. /\ ListsTrue /\ PhasesTrue /\ HandTrue /\ OwnersTrue /\ BackfillTrue /\ StoresTrue /\ RowsTrue /\ AnswersTrue
      /\ AssetsFollow /\ DOMAIN pass = PassFields /\ pass.mode \in Modes /\ OncePath(pass.bodies)
  BY DEF CInv, PhasesTrue, ListsTrue
<1>4. /\ pass.chunk = <<>> /\ pass.hashed = <<>> /\ pass.missing = <<>> /\ pass.unsent = {} /\ pass.owner = NoItem
      /\ pass.mode = "backfill" /\ pass.assets = <<>> /\ pass.landing \in BOOLEAN
  BY <1>1, <1>3 DEF PhasesTrue, Modes, Sending
<1>5. \A q, a : ~AssetOwed(q, a)
  BY <1>1, NothingOwed DEF Handling
<1>6. pass.pc \notin Handling /\ pass.pc \notin Sending /\ pass.pc # "assets" /\ pass.pc # "idle" /\ pass.pc # "present"
  BY <1>1 DEF Handling, Sending
<1>7. StoresTrue' /\ DiskTrue' /\ AssetsFollow' /\ TourTrue'
  BY <1>1, <1>2, <1>3, SimpleStores, SimpleDisk, FollowStays DEF CInv, Steady
<1>8. CASE pass.bodies = <<>>
  <2>1. /\ DOMAIN pass' = PassFields /\ pass'.pc = "parents" /\ pass'.there = {}
        /\ pass'.mode = pass.mode /\ pass'.todo = pass.todo /\ pass'.bad = pass.bad /\ pass'.seen = pass.seen
        /\ pass'.chunk = pass.chunk /\ pass'.hashed = pass.hashed /\ pass'.missing = pass.missing
        /\ pass'.bodies = pass.bodies /\ pass'.unsent = pass.unsent /\ pass'.landing = pass.landing
        /\ pass'.parents = pass.parents /\ pass'.item = pass.item /\ pass'.answered = pass.answered
        /\ pass'.owner = pass.owner /\ pass'.assets = pass.assets /\ pass'.found = pass.found
        /\ pass'.changed = pass.changed /\ pass'.whole = pass.whole /\ pass'.failed = pass.failed
    BY <1>3, <1>8 DEF Land, PassFields
  <2>2. pass'.pc \notin Handling /\ pass'.pc \notin Sending
    BY <2>1 DEF Handling, Sending
  <2>3. ListsTrue'
    BY <2>1, <2>2, <1>3 DEF ListsTrue
  <2>4. PhasesTrue'
    BY <2>1, <1>1, <1>3, <1>4, <1>8 DEF PhasesTrue, PassPcs, Sending
  <2>5. Items' = Items /\ ReadItems' = ReadItems /\ Unsure' = Unsure /\ InHand' = InHand
    BY <2>1, <2>2, <1>6 DEF Items, ReadItems, Unsure, InHand
  <2>6. HandTrue'
    BY <2>1, <2>5, <1>1, <1>2, <1>3, <1>6, HandMoves
  <2>7. AnswersTrue'
    BY <2>1 DEF AnswersTrue
  <2>8. RowsTrue'
    BY <2>5, <1>1, <1>2, <1>3, RowsStay
  <2>9. OwnersTrue'
    <3>1. Range(pass'.assets) = {} /\ pass'.owner = NoItem
      BY <2>1, <1>4, NothingIs
    <3> QED  BY <3>1, <2>1, <1>1, <1>2, <1>3, OwnersStay
  <2>10. BackfillTrue'
    <3>1. pass'.owner = NoItem
      BY <2>1, <1>4
    <3> QED  BY <3>1, <2>1, <2>5, <1>1, <1>2, <1>3, <1>5, <1>6, BackfillStays
  <2> QED  BY <2>3, <2>4, <2>6, <2>7, <2>8, <2>9, <2>10, <1>7 DEF CInv
<1>9. CASE pass.bodies # <<>>
  <2>1. PICK item : item = Head(pass.bodies)
    OBVIOUS
  <2>2. PICK took \in BOOLEAN : took = (item.path \in pass.there)
    <3>1. (item.path \in pass.there) \in BOOLEAN
      OBVIOUS
    <3> QED  BY <3>1, Zenon
  <2>3. PICK rest : rest = Tail(pass.bodies)
    OBVIOUS
  <2>4. pass' = [pass EXCEPT !.pc = IF took THEN "record" ELSE "send", !.item = item, !.answered = took,
                             !.bodies = rest, !.landing = TRUE]
    BY <2>1, <2>2, <2>3, <1>9 DEF Land
  <2>5. /\ DOMAIN pass' = PassFields /\ pass'.pc = (IF took THEN "record" ELSE "send") /\ pass'.item = item
        /\ pass'.answered = took /\ pass'.bodies = rest /\ pass'.landing = TRUE
        /\ pass'.mode = pass.mode /\ pass'.todo = pass.todo /\ pass'.bad = pass.bad /\ pass'.seen = pass.seen
        /\ pass'.chunk = pass.chunk /\ pass'.hashed = pass.hashed /\ pass'.there = pass.there
        /\ pass'.missing = pass.missing /\ pass'.unsent = pass.unsent /\ pass'.parents = pass.parents
        /\ pass'.owner = pass.owner /\ pass'.assets = pass.assets /\ pass'.found = pass.found
        /\ pass'.changed = pass.changed /\ pass'.whole = pass.whole /\ pass'.failed = pass.failed
    BY <2>4, <1>3 DEF PassFields
  <2>6. pass'.pc \in Handling /\ pass'.pc \in Sending /\ pass'.pc # "present" /\ (pass'.pc = "record" => took)
    BY <2>5 DEF Handling, Sending
  <2>7. /\ OncePath(rest) /\ Range(pass.bodies) = {item} \cup Range(rest) /\ item.path \notin Paths(rest)
        /\ Paths(pass.bodies) = {item.path} \cup Paths(rest)
    BY <2>1, <2>3, <1>3, <1>9, PathTail
  <2>8. item.path \in Range(Owners)
    BY <2>7, <1>3 DEF ListsTrue
  <2>9. ListsTrue'
    <3>1. Paths(pass.missing) = {}
      BY <1>4, NothingIs
    <3> QED  BY <3>1, <2>5, <2>7, <2>8, <1>3, <1>4 DEF ListsTrue
  <2>10. PhasesTrue'
    <3>1. pass'.pc \in {"record", "send"}
      BY <2>5
    <3> QED  BY <3>1, <2>5, <1>1, <1>3, <1>4 DEF PhasesTrue, PassPcs, Sending
  <2>11. Items' = Items /\ ReadItems' = ReadItems /\ Unsure' = Unsure /\ InHand' = InHand
    BY <2>5, <2>6, <2>7, <1>6 DEF Items, ReadItems, Unsure, InHand
  <2>12. HandTrue'
    BY <2>5, <2>11, <1>1, <1>2, <1>3, <1>6, HandMoves
  <2>13. AnswersTrue'
    <3>1. Acked' = Range(rest) /\ Acked = Range(pass.bodies)
      BY <2>5, <2>6, <1>6 DEF Acked
    <3>2. \A i \in Range(pass.bodies) : i.path \in pass.there => holds[known][i.path] = i.sha
      BY <3>1, <1>3 DEF AnswersTrue
    <3>3. took => holds[known][item.path] = item.sha
      BY <3>2, <2>2, <2>7
    <3> QED  BY <3>1, <3>2, <3>3, <2>5, <2>6, <2>7, <1>1 DEF AnswersTrue
  <2>14. RowsTrue'
    BY <2>11, <1>1, <1>2, <1>3, RowsStay
  <2>15. OwnersTrue'
    <3>1. Range(pass'.assets) = {} /\ pass'.owner = NoItem
      BY <2>5, <1>4, NothingIs
    <3> QED  BY <3>1, <2>5, <1>1, <1>2, <1>3, OwnersStay
  <2>16. BackfillTrue'
    <3>1. pass'.owner = NoItem
      BY <2>5, <1>4
    <3> QED  BY <3>1, <2>5, <2>11, <1>1, <1>2, <1>3, <1>5, <1>6, BackfillStays
  <2> QED  BY <2>9, <2>10, <2>12, <2>13, <2>14, <2>15, <2>16, <1>7 DEF CInv
<1> QED  BY <1>8, <1>9

LEMMA NextParentKeeps ==
  ASSUME CInv, NextParent
  PROVE  CInv'
<1>1. pass.pc = "parents" /\ UNCHANGED <<tour, disk, rows, scans, known, holds>>
  BY DEF NextParent
<1>2. Steady
  BY <1>1, TourSteady DEF CInv
<1>3. /\ ListsTrue /\ PhasesTrue /\ HandTrue /\ OwnersTrue /\ BackfillTrue /\ StoresTrue /\ RowsTrue /\ AnswersTrue
      /\ AssetsFollow /\ DOMAIN pass = PassFields /\ pass.mode \in Modes /\ Listing(pass.parents)
  BY DEF CInv, PhasesTrue, ListsTrue
<1>4. /\ pass.chunk = <<>> /\ pass.hashed = <<>> /\ pass.missing = <<>> /\ pass.bodies = <<>> /\ pass.owner = NoItem
      /\ pass.mode = "backfill" /\ pass.assets = <<>> /\ pass.landing \in BOOLEAN /\ pass.there = {}
  BY <1>1, <1>3 DEF PhasesTrue, Modes, Sending
<1>5. pass.unsent = {}
  BY <1>3, <1>4, NothingIs DEF ListsTrue
<1>6. \A q, a : ~AssetOwed(q, a)
  BY <1>1, NothingOwed DEF Handling
<1>7. pass.pc \notin Handling /\ pass.pc \notin Sending /\ pass.pc # "assets" /\ pass.pc # "idle" /\ pass.pc # "present"
  BY <1>1 DEF Handling, Sending
<1>8. \/ pass.parents = <<>> /\ pass' = [pass EXCEPT !.pc = "scan", !.landing = FALSE]
      \/ /\ pass.parents # <<>>
         /\ pass' = [pass EXCEPT !.pc = "assets", !.owner = Head(pass.parents), !.parents = Tail(pass.parents), !.changed = TRUE]
  BY DEF NextParent
<1>9. CASE pass.parents = <<>> /\ pass' = [pass EXCEPT !.pc = "scan", !.landing = FALSE]
  <2>1. /\ DOMAIN pass' = PassFields /\ pass'.pc = "scan" /\ pass'.landing = FALSE
        /\ pass'.mode = pass.mode /\ pass'.todo = pass.todo /\ pass'.bad = pass.bad /\ pass'.seen = pass.seen
        /\ pass'.chunk = pass.chunk /\ pass'.hashed = pass.hashed /\ pass'.there = pass.there
        /\ pass'.missing = pass.missing /\ pass'.bodies = pass.bodies /\ pass'.unsent = pass.unsent
        /\ pass'.parents = pass.parents /\ pass'.item = pass.item /\ pass'.answered = pass.answered
        /\ pass'.owner = pass.owner /\ pass'.assets = pass.assets /\ pass'.found = pass.found
        /\ pass'.changed = pass.changed /\ pass'.whole = pass.whole /\ pass'.failed = pass.failed
    BY <1>3, <1>9 DEF PassFields
  <2>2. pass'.pc \notin Handling /\ pass'.pc \notin Sending
    BY <2>1 DEF Handling, Sending
  <2>3. ListsTrue'
    BY <2>1, <2>2, <1>3 DEF ListsTrue
  <2>4. PhasesTrue'
    BY <2>1, <1>1, <1>3, <1>4, <1>5, <1>9 DEF PhasesTrue, PassPcs, Sending
  <2>5. Items' = Items /\ ReadItems' = ReadItems /\ Unsure' = Unsure /\ InHand' = InHand
    BY <2>1, <2>2, <1>7 DEF Items, ReadItems, Unsure, InHand
  <2>6. HandTrue'
    BY <2>1, <2>5, <1>1, <1>2, <1>3, <1>7, HandMoves
  <2>7. AnswersTrue'
    BY <2>1, <1>4 DEF AnswersTrue
  <2>8. StoresTrue' /\ RowsTrue' /\ DiskTrue' /\ AssetsFollow' /\ TourTrue'
    BY <2>5, <1>1, <1>2, <1>3, RowsStay, SimpleStores, SimpleDisk, FollowStays DEF CInv, Steady
  <2>9. OwnersTrue'
    <3>1. Range(pass'.assets) = {} /\ pass'.owner = NoItem
      BY <2>1, <1>4, NothingIs
    <3> QED  BY <3>1, <2>1, <2>2, <1>1, <1>2, <1>3, OwnersStay
  <2>10. BackfillTrue'
    <3>1. pass'.owner = NoItem
      BY <2>1, <1>4
    <3> QED  BY <3>1, <2>1, <2>5, <1>1, <1>2, <1>3, <1>6, <1>7, BackfillStays
  <2> QED  BY <2>3, <2>4, <2>6, <2>7, <2>8, <2>9, <2>10 DEF CInv
<1>10. CASE /\ pass.parents # <<>>
            /\ pass' = [pass EXCEPT !.pc = "assets", !.owner = Head(pass.parents), !.parents = Tail(pass.parents), !.changed = TRUE]
  <2>1. PICK owner : owner = Head(pass.parents)
    OBVIOUS
  <2>2. PICK rest : rest = Tail(pass.parents)
    OBVIOUS
  <2>3. /\ DOMAIN pass' = PassFields /\ pass'.pc = "assets" /\ pass'.owner = owner /\ pass'.parents = rest /\ pass'.changed = TRUE
        /\ pass'.mode = pass.mode /\ pass'.todo = pass.todo /\ pass'.bad = pass.bad /\ pass'.seen = pass.seen
        /\ pass'.chunk = pass.chunk /\ pass'.hashed = pass.hashed /\ pass'.there = pass.there
        /\ pass'.missing = pass.missing /\ pass'.bodies = pass.bodies /\ pass'.unsent = pass.unsent
        /\ pass'.landing = pass.landing /\ pass'.item = pass.item /\ pass'.answered = pass.answered
        /\ pass'.assets = pass.assets /\ pass'.found = pass.found /\ pass'.whole = pass.whole
        /\ pass'.failed = pass.failed
    BY <2>1, <2>2, <1>3, <1>10 DEF PassFields
  <2>4. Listing(rest) /\ Range(pass.parents) = {owner} \cup Range(rest)
    BY <2>1, <2>2, <1>3, <1>10, TailIs
  <2>5. owner.size # 0 /\ owner.snapshot = FALSE /\ Offered(owner.path)
    BY <2>4, <1>3, <1>4 DEF OwnersTrue
  <2>6. owner # NoItem
    BY <2>5 DEF NoItem
  <2>7. pass'.pc \notin Handling /\ pass'.pc \notin Sending
    BY <2>3 DEF Handling, Sending
  <2>8. ListsTrue'
    BY <2>3, <2>4, <2>7, <1>3 DEF ListsTrue
  <2>9. PhasesTrue'
    BY <2>3, <2>6, <1>1, <1>3, <1>4, <1>5 DEF PhasesTrue, PassPcs, Sending
  <2>10. Items' = Items /\ ReadItems' = ReadItems /\ Unsure' = Unsure /\ InHand' = InHand
    BY <2>3, <2>7, <1>7 DEF Items, ReadItems, Unsure, InHand
  <2>11. HandTrue'
    BY <2>3, <2>10, <1>1, <1>2, <1>3, <1>7, HandMoves
  <2>12. AnswersTrue'
    BY <2>3, <1>4 DEF AnswersTrue
  <2>13. StoresTrue' /\ RowsTrue' /\ DiskTrue' /\ AssetsFollow' /\ TourTrue'
    BY <2>10, <1>1, <1>2, <1>3, RowsStay, SimpleStores, SimpleDisk, FollowStays DEF CInv, Steady
  <2>14. OwnersTrue'
    <3>1. \A p : (Offered(p) => Offered(p)')
      BY <1>1, <1>2, OfferedStays
    <3>2. Range(pass'.assets) = {}
      BY <2>3, <1>4, NothingIs
    <3>3. \A i \in Range(rest) : i.size # 0 /\ i.snapshot = FALSE /\ Offered(i.path)
      BY <2>4, <1>3, <1>4 DEF OwnersTrue
    <3> QED  BY <3>1, <3>2, <3>3, <2>3, <2>5, <2>7 DEF OwnersTrue
  <2>15. BackfillTrue'
    <3>1. \A q : Same(q)' = Same(q)
      BY <2>3, <1>1 DEF Same
    <3>2. \A q \in InHand' : FileSent(q)' /\ AssetsSent(q)'
      BY DEF FileSent, AssetsSent
    <3>3. \A q \in Paths(pass.parents) : AssetsSent(q)'
      <4>1. Paths(pass.parents) = {owner.path} \cup Paths(pass'.parents)
        BY <2>3, <2>4 DEF Paths
      <4>2. \A q \in Paths(pass'.parents) : AssetsSent(q)'
        BY DEF AssetsSent
      <4>3. AssetsSent(owner.path)'
        BY <2>3 DEF AssetsSent
      <4> QED  BY <4>1, <4>2, <4>3
    <3>4. ~pass'.owner.snapshot /\ pass'.changed
      BY <2>3, <2>5
    <3> QED  BY <3>1, <3>2, <3>3, <3>4, <2>3, <2>10, <1>1, <1>2, <1>3, <1>6, <1>7, BackfillStep
  <2> QED  BY <2>8, <2>9, <2>11, <2>12, <2>13, <2>14, <2>15 DEF CInv
<1> QED  BY <1>8, <1>9, <1>10

-----------------------------------------------------------------------------
LEMMA NextKeeps ==
  ASSUME CInv, [CollectorNext]_collectorVars
  PROVE  CInv'
<1>1. ASSUME UNCHANGED collectorVars PROVE CInv'
  <2>1. UNCHANGED <<tour, disk, rows, known, pass, holds>>
    BY <1>1 DEF collectorVars
  <2>2. /\ \A i : Looked(i)' = Looked(i) /\ HasRead(i)' = HasRead(i)
        /\ \A p : RowTrue(p)' = RowTrue(p) /\ Same(p)' = Same(p) /\ FileSent(p)' = FileSent(p) /\ AssetsSent(p)' = AssetsSent(p)
                  /\ Offered(p)' = Offered(p) /\ \A a : Mentions(p, a)' = Mentions(p, a)
        /\ Items' = Items /\ ReadItems' = ReadItems /\ Acked' = Acked
    <3>1. Unsure' = Unsure /\ InHand' = InHand /\ \A p : Content(p)' = Content(p)
      BY <2>1 DEF Unsure, InHand, Content
    <3>2. \A p, a : AssetOwed(p, a)' = AssetOwed(p, a)
      BY <2>1, <3>1 DEF AssetOwed, AtWork
    <3> QED  BY <2>1, <3>1, <3>2 DEF Looked, HasRead, RowTrue, Same, FileSent, AssetsSent, References, Offered, Mentions, Items, ReadItems, Acked
  <2>3. TourTrue' /\ DiskTrue' /\ StoresTrue' /\ ListsTrue' /\ PhasesTrue' /\ AssetsFollow'
    BY <2>1 DEF CInv, TourTrue, DiskTrue, StoresTrue, ListsTrue, PhasesTrue, AssetsFollow
  <2>4. HandTrue' /\ AnswersTrue' /\ RowsTrue' /\ OwnersTrue' /\ BackfillTrue'
    BY <2>1, <2>2 DEF CInv, HandTrue, AnswersTrue, RowsTrue, OwnersTrue, BackfillTrue
  <2> QED  BY <2>3, <2>4 DEF CInv
<1>2. ASSUME PassStep PROVE CInv'
  <2>1. CASE Start \/ Stat \/ LookAt \/ SendItem \/ Record
    BY <2>1, StartKeeps, StatKeeps, LookAtKeeps, SendItemKeeps, RecordKeeps
  <2>2. CASE Discover \/ Snapshot \/ MarkScan \/ HashNext \/ CheckFiles
    BY <2>2, DiscoverKeeps, SnapshotKeeps, MarkScanKeeps, HashNextKeeps, CheckFilesKeeps
  <2>3. CASE RecordPresent \/ Checked \/ CountAssets \/ SendLarge \/ ReadSmall
    BY <2>3, RecordPresentKeeps, CheckedKeeps, CountAssetsKeeps, SendLargeKeeps, ReadSmallKeeps
  <2>4. CASE SendBatch \/ Land \/ NextParent \/ Finish \/ Exit
    BY <2>4, SendBatchKeeps, LandKeeps, NextParentKeeps, FinishKeeps, ExitKeeps
  <2> QED  BY <1>2, <2>1, <2>2, <2>3, <2>4 DEF PassStep
<1>3. ASSUME Repoint \/ Kill PROVE CInv'
  BY <1>3, RepointKeeps, KillKeeps
<1>4. ASSUME NEW p \in Files, Change(p) \/ Lose(p) PROVE CInv'
  BY <1>4, ChangeKeeps, LoseKeeps
<1> QED  BY <1>1, <1>2, <1>3, <1>4 DEF CollectorNext

(* What the invariant says of the state, for a reader of the model.         *)
LEMMA TypesFollow ==
  ASSUME CInv
  PROVE  CollectorTypeOK
<1>1. /\ ListsTrue /\ PhasesTrue /\ \A p \in Files : RowTyped(rows[p])
  BY DEF CInv, StoresTrue
<1>2. ASSUME NEW p \in Files
      PROVE  rows[p].status \in {"none", "ok", "error", "pending"} /\ (rows[p] = None <=> rows[p].status = "none")
  <2>1. None.status = "none"
    BY DEF None
  <2> QED  BY <2>1, <1>1 DEF RowTyped
<1>3. ASSUME NEW k \in DOMAIN pass.chunk PROVE pass.chunk[k].path \in Range(Owners)
  <2>1. pass.chunk[k] \in Range(pass.chunk)
    BY DEF Range
  <2>2. pass.chunk[k].path \in Paths(pass.chunk)
    BY <2>1 DEF Paths
  <2> QED  BY <2>2, <1>1 DEF ListsTrue
<1>4. pass.unsent \subseteq {i.path : i \in Range(pass.bodies)}
  BY <1>1 DEF ListsTrue, Paths
<1>5. /\ pass.mode = "run" => pass.chunk = <<>> /\ pass.hashed = <<>> /\ pass.missing = <<>> /\ pass.parents = <<>>
      /\ pass.pc = "snapshot" => pass.owner # NoItem
  BY <1>1 DEF PhasesTrue
<1> QED  BY <1>2, <1>3, <1>4, <1>5 DEF CollectorTypeOK

LEMMA SkippedFollows ==
  ASSUME CInv
  PROVE  SkippedIsHeld
<1> SUFFICES ASSUME NEW p \in Files \ (tour.purge \cup InFlight), disk[p] # 0, rows[p].status = "ok",
                    \/ p \notin Databases \cup Images /\ rows[p].mtime = Mtime(p)
                    \/ rows[p].sha = Content(p)
             PROVE  holds[known][p] = Content(p)
  BY DEF SkippedIsHeld
<1>1. RowTrueAt(p, tour.versions[p], disk[p], rows[p], holds[known][p], FALSE, FALSE)
  <2>1. p \notin Unsure /\ p \notin tour.purge
    BY DEF Unsure, InFlight, Paths
  <2>2. (p \in Unsure) = FALSE /\ (p \in tour.purge) = FALSE
    BY <2>1
  <2> QED  BY <2>2 DEF CInv, RowsTrue, RowTrue
<1>2. Content(p) = tour.versions[p][disk[p]] /\ disk[p] \in Nat /\ disk[p] <= Len(tour.versions[p]) /\ Len(tour.versions[p]) \in Nat
  BY ContentsIs DEF Content, CInv, DiskTrue, TourTrue
<1>3. rows[p].sha = Content(p)
  BY <1>1, <1>2 DEF RowTrueAt, Mtime
<1>4. RecursIn(rows[p].sha, tour.versions[p], disk[p])
  <2>1. disk[p] \in disk[p]..Len(tour.versions[p])
    BY <1>2
  <2> QED  BY <2>1, <1>2, <1>3 DEF RecursIn
<1> QED  BY <1>1, <1>3, <1>4 DEF RowTrueAt

LEMMA BackfillFollows ==
  ASSUME CInv
  PROVE  BackfillIsHonest
<1> SUFFICES ASSUME pass.pc = "done", pass.mode = "backfill", ~pass.bad, NEW p \in Range(Owners), Same(p)
             PROVE  /\ holds[known][p] = Content(p)
                    /\ p \notin Databases => \A a \in References(p) : Same(a) => holds[known][a] = Content(a)
  BY DEF BackfillIsHonest, Same
<1>1. ListsTrue /\ PhasesTrue /\ BackfillTrue
  BY DEF CInv
<1>2. /\ pass.todo = <<>> /\ pass.chunk = <<>> /\ pass.hashed = <<>> /\ pass.missing = <<>> /\ pass.bodies = <<>>
      /\ pass.parents = <<>>
  BY <1>1 DEF PhasesTrue, Sending
<1>3. InHand = {} /\ Paths(pass.parents) = {}
  BY <1>2, NothingIs DEF InHand, Unsure, Sending
<1>4. FileSent(p) /\ (p \notin Databases => AssetsSent(p))
  BY <1>1 DEF BackfillTrue
<1>5. \A q, a : ~AssetOwed(q, a)
  BY NothingOwed DEF Handling
<1>6. holds[known][p] = Content(p)
  BY <1>3, <1>4 DEF FileSent
<1>7. p \notin Databases => \A a \in References(p) : Same(a) => holds[known][a] = Content(a)
  BY <1>3, <1>4, <1>5 DEF AssetsSent
<1> QED  BY <1>6, <1>7

(* A row of state.db that lets a file pass, and an exit code of zero of a   *)
(* backfill, are never wrong, and no asset is ahead of a transcript: for    *)
(* any walk, contents, sequence of passes and hubs, sizes of a chunk and of *)
(* a put, and any faults, with a death where no file returns to a content   *)
(* that it may have been read as (collector/run.py).                        *)
THEOREM PassesAreHonest == CollectorSpec => []CollectorIsHonest
<1>1. CollectorInit => CInv
  BY InitHolds
<1>2. CInv /\ [CollectorNext]_collectorVars => CInv'
  BY NextKeeps
<1>3. CInv => CollectorIsHonest
  BY TypesFollow, SkippedFollows, BackfillFollows DEF CollectorIsHonest, CInv
<1> QED  BY <1>1, <1>2, <1>3, PTL DEF CollectorSpec

-----------------------------------------------------------------------------
(* Multipart: a path, its requests and its records.                         *)
PathRevisions == Contents \cup {Nothing}

PathParts == UNION {Range(c) : c \in Contents}

PathBodies == Seq(PathParts)

(* Before the write of the raw object, and after it.                        *)
BeforePut == {"look", "assemble", "get", "extends", "preserve", "put"}

AfterPut == {"upsert", "row", "head", "again", "flip", "observe", "compare", "realign", "reflip", "resend", "send"}

RequestPcs == BeforePut \cup AfterPut \cup {"idle", "done", "drop"}

UploadPcs == {"idle", "look", "head", "mark", "send", "open", "part", "wait", "abort"}

PathRequests ==
  [pc : RequestPcs, rev : PathRevisions, old : PathRevisions, body : PathBodies, found : PathRevisions,
   landed : BOOLEAN, late : BOOLEAN]

UploadTyped(u) == u \in [pc : UploadPcs, rev : PathRevisions, n : Requests, read : PathBodies, attempt : Nat]

RecordsTyped ==
  /\ mplan \in MultipartPlans /\ mfaults \subseteq mplan.faults
  /\ version \in 1..Len(mplan.versions) /\ sent \in PathRevisions
  /\ staging \in [Nonces -> [state : {"none", "open", "object"}, bytes : PathBodies]]
  /\ canonical \in PathRevisions /\ displaced \subseteq PathRevisions
  /\ fileRow \in [hash : PathRevisions, state : {"absent", "pending", "parsed", "skipped"}]
  /\ derived \in [state : {"absent", "parsing", "ready"}, rev : PathRevisions, bytes : PathRevisions]
  /\ parses \subseteq PathRevisions /\ parse \in [hash : PathRevisions, bytes : PathRevisions]
  /\ stored \subseteq PathRevisions

PathTyped == RecordsTyped /\ UploadTyped(upload) /\ finish \in [Requests -> PathRequests]

(* A request as a step leaves it.                                           *)
Result(pc, rev, old, body, found, landed, late) ==
  [pc |-> pc, rev |-> rev, old |-> old, body |-> body, found |-> found, landed |-> landed, late |-> late]

Left(n, pc) ==
  Result(pc, finish[n].rev, finish[n].old, finish[n].body, finish[n].found, finish[n].landed, finish[n].late)

Becomes(n, r) == finish' = [finish EXCEPT ![n] = r]

Keeps(n, r) == /\ finish'[n] = r
               /\ \A m \in Requests : m # n => finish'[m] = finish[m]

-----------------------------------------------------------------------------
LEMMA PathContents ==
  /\ \A c \in Contents : c \in PathBodies /\ c # Nothing
  /\ Nothing \in PathBodies /\ PathRevisions \subseteq PathBodies
  /\ Carried \notin Nonces /\ Nothing \in PathRevisions
<1>1. \A c \in Contents : c \in PathBodies
  <2> TAKE c \in Contents
  <2>1. c \in Seq(Range(c))
    BY MultipartAssumption
  <2>2. Range(c) \subseteq PathParts
    BY DEF PathParts
  <2> QED
    BY <2>1, <2>2 DEF PathBodies
<1>2. Nothing \in PathBodies
  BY DEF Nothing, PathBodies
<1> QED
  BY <1>1, <1>2, MultipartAssumption DEF PathRevisions, Nothing, Carried

LEMMA PlanTyped ==
  ASSUME mplan \in MultipartPlans
  PROVE  /\ mplan.versions \in Seq(Contents) /\ mplan.versions # <<>> /\ Len(mplan.versions) \in Nat \ {0}
         /\ \A i \in 1..Len(mplan.versions) : mplan.versions[i] \in Contents
         /\ mplan.carried \in PathRevisions /\ mplan.other \in BOOLEAN
<1>1. mplan.versions \in Seq(Contents) /\ mplan.versions # <<>> /\ mplan.carried \in Contents \cup {<<>>}
      /\ mplan.other \in BOOLEAN
  BY MultipartAssumption
<1>2. Len(mplan.versions) \in Nat \ {0} /\ \A i \in 1..Len(mplan.versions) : mplan.versions[i] \in Contents
  BY <1>1
<1> QED
  BY <1>1, <1>2 DEF PathRevisions, Nothing

LEMMA SourceTyped ==
  ASSUME PathTyped
  PROVE  Source \in Contents /\ Source \in PathRevisions
BY PlanTyped DEF PathTyped, RecordsTyped, Source, PathRevisions

LEMMA ResultTyped ==
  ASSUME NEW pc \in RequestPcs, NEW rev \in PathRevisions, NEW old \in PathRevisions, NEW body \in PathBodies,
         NEW found \in PathRevisions, NEW landed \in BOOLEAN, NEW late \in BOOLEAN
  PROVE  Result(pc, rev, old, body, found, landed, late) \in PathRequests
BY DEF Result, PathRequests

LEMMA FieldsTyped ==
  ASSUME PathTyped, NEW n \in Requests
  PROVE  /\ finish[n] \in PathRequests
         /\ finish[n].pc \in RequestPcs /\ finish[n].rev \in PathRevisions /\ finish[n].old \in PathRevisions
         /\ finish[n].body \in PathBodies /\ finish[n].found \in PathRevisions
         /\ finish[n].landed \in BOOLEAN /\ finish[n].late \in BOOLEAN
         /\ finish[n] = Left(n, finish[n].pc)
BY DEF PathTyped, PathRequests, Left, Result

LEMMA LeftTyped ==
  ASSUME PathTyped, NEW n \in Requests, NEW pc \in RequestPcs
  PROVE  Left(n, pc) \in PathRequests
BY FieldsTyped, ResultTyped DEF Left

LEMMA BecomesTyped ==
  ASSUME PathTyped, NEW n \in Requests, NEW r \in PathRequests, Becomes(n, r)
  PROVE  finish' \in [Requests -> PathRequests] /\ Keeps(n, r)
BY DEF PathTyped, Becomes, Keeps

LEMMA FinishedTyped == Finished \in PathRequests /\ Finished = Result("idle", Nothing, Nothing, Nothing, Nothing, FALSE, FALSE)
<1>1. Finished = Result("idle", Nothing, Nothing, Nothing, Nothing, FALSE, FALSE)
  BY DEF Finished, Result
<1>2. "idle" \in RequestPcs
  BY DEF RequestPcs
<1> QED
  BY <1>1, <1>2, PathContents, ResultTyped

LEMMA SameFields ==
  ASSUME NEW f \in PathRequests
  PROVE  f = Result(f.pc, f.rev, f.old, f.body, f.found, f.landed, f.late)
BY DEF PathRequests, Result

LEMMA ExceptPc ==
  ASSUME NEW f \in PathRequests, NEW pc
  PROVE  [f EXCEPT !.pc = pc] = Result(pc, f.rev, f.old, f.body, f.found, f.landed, f.late)
<1>1. f = [pc |-> f.pc, rev |-> f.rev, old |-> f.old, body |-> f.body, found |-> f.found, landed |-> f.landed, late |-> f.late]
  BY DEF PathRequests
<1> QED
  BY <1>1 DEF Result

LEMMA GotoLeft ==
  ASSUME PathTyped, NEW n \in Requests, NEW pc \in RequestPcs, Goto(n, pc)
  PROVE  Becomes(n, Left(n, pc)) /\ sent' = sent /\ upload' = upload
<1>1. [finish[n] EXCEPT !.pc = pc] = Left(n, pc)
  BY FieldsTyped, ExceptPc DEF Left
<1>2. [finish EXCEPT ![n].pc = pc] = [finish EXCEPT ![n] = [finish[n] EXCEPT !.pc = pc]]
  OBVIOUS
<1> QED
  BY <1>1, <1>2 DEF Goto, Becomes

(* What a request that has ended leaves.                                    *)
Ended(n) ==
  IF n = Carried THEN Result("done", Nothing, Nothing, Nothing, Nothing, FALSE, finish[n].late) ELSE Finished

LEMMA ClosedEnded ==
  ASSUME PathTyped, NEW n \in Requests
  PROVE  Closed(n) = Ended(n) /\ Ended(n) \in PathRequests
<1>1. CASE n = Carried
  <2>1. Closed(n) = Result("done", Nothing, Nothing, Nothing, Nothing, FALSE, finish[n].late)
    BY <1>1 DEF Closed, Finished, Result
  <2>2. "done" \in RequestPcs
    BY DEF RequestPcs
  <2> QED
    BY <1>1, <2>1, <2>2, ResultTyped, FieldsTyped, PathContents DEF Ended
<1>2. CASE n # Carried
  BY <1>2, FinishedTyped DEF Closed, Ended
<1> QED
  BY <1>1, <1>2

LEMMA IdlingTyped == UploadTyped(Idling) /\ Idling.pc = "idle"
BY PathContents DEF UploadTyped, Idling, UploadPcs, Requests, Nothing

LEMMA FailedTyped ==
  ASSUME PathTyped
  PROVE  /\ UploadTyped(Failed)
         /\ Failed.pc \in {"idle", "look"} /\ (Failed.pc = "look" => Failed.rev = upload.rev)
<1>1. CASE upload.attempt < MaxAttempts
  <2>1. Failed = [upload EXCEPT !.pc = "look", !.attempt = upload.attempt + 1, !.read = <<>>]
    BY <1>1 DEF Failed
  <2>2. <<>> \in PathBodies
    BY PathContents DEF Nothing
  <2>3. UploadTyped(upload) /\ upload.attempt + 1 \in Nat
    BY DEF PathTyped, UploadTyped
  <2>4. ASSUME NEW w, UploadTyped(w), NEW k \in Nat, NEW b \in PathBodies
        PROVE  LET v == [w EXCEPT !.pc = "look", !.attempt = k, !.read = b]
               IN  UploadTyped(v) /\ v.pc = "look" /\ v.rev = w.rev
    BY <2>4 DEF UploadTyped, UploadPcs
  <2> QED
    BY <2>1, <2>2, <2>3, <2>4
<1>2. CASE ~(upload.attempt < MaxAttempts)
  BY <1>2, IdlingTyped DEF Failed
<1> QED
  BY <1>1, <1>2

LEMMA ContinueTyped ==
  ASSUME PathTyped, NEW pc \in UploadPcs, Continue(pc)
  PROVE  UploadTyped(upload') /\ upload'.pc = pc /\ upload'.rev = upload.rev /\ upload'.n = upload.n
BY DEF PathTyped, Continue, UploadTyped, UploadPcs

(* A request that ends with an error, or with 201.                          *)
LEMMA RefuseEnds ==
  ASSUME PathTyped, NEW n \in Requests, Refuse(n)
  PROVE  /\ Becomes(n, Ended(n)) /\ sent' = sent /\ UploadTyped(upload')
         /\ Awaited(n) => upload'.pc = "abort" /\ upload'.rev = upload.rev /\ upload'.n = upload.n
         /\ ~Awaited(n) => upload' = upload
<1>1. Becomes(n, Ended(n)) /\ sent' = sent
  BY ClosedEnded DEF Refuse, Becomes
<1>2. CASE Awaited(n)
  <2>1. upload' = [upload EXCEPT !.pc = "abort"]
    BY <1>2 DEF Refuse
  <2> QED
    BY <1>1, <1>2, <2>1 DEF PathTyped, UploadTyped, UploadPcs
<1>3. CASE ~Awaited(n)
  <2>1. upload' = upload
    BY <1>3 DEF Refuse
  <2> QED
    BY <1>1, <1>3, <2>1 DEF PathTyped, UploadTyped
<1> QED
  BY <1>2, <1>3

LEMMA RespondEnds ==
  ASSUME PathTyped, NEW n \in Requests, Respond(n)
  PROVE  /\ Becomes(n, Ended(n)) /\ stored' = stored \cup {finish[n].rev} /\ UploadTyped(upload')
         /\ Awaited(n) => upload'.pc = "idle" /\ sent' = upload.rev
         /\ ~Awaited(n) => upload' = upload /\ sent' = sent
<1>1. Becomes(n, Ended(n)) /\ stored' = stored \cup {finish[n].rev}
  BY ClosedEnded DEF Respond, Becomes
<1>2. CASE Awaited(n)
  BY <1>1, <1>2, IdlingTyped DEF Respond, Succeed
<1>3. CASE ~Awaited(n)
  BY <1>1, <1>3 DEF Respond, PathTyped, UploadTyped
<1> QED
  BY <1>2, <1>3
-----------------------------------------------------------------------------
(* What each step of a request leaves.                                      *)
(* A field and the place of a request.                                      *)
LEMMA SetOld ==
  ASSUME NEW f \in PathRequests, NEW p \in RequestPcs, NEW h \in PathRevisions
  PROVE  [f EXCEPT !.old = h, !.pc = p] = Result(p, f.rev, h, f.body, f.found, f.landed, f.late)
<1> DEFINE g == [f EXCEPT !.old = h, !.pc = p]
<1>1. g \in PathRequests
  BY DEF PathRequests
<1>2. g.pc = p /\ g.rev = f.rev /\ g.old = h /\ g.body = f.body /\ g.found = f.found /\ g.landed = f.landed /\ g.late = f.late
  BY DEF PathRequests
<1> HIDE DEF g
<1>3. g = Result(g.pc, g.rev, g.old, g.body, g.found, g.landed, g.late)
  BY <1>1, SameFields
<1>4. g = Result(p, f.rev, h, f.body, f.found, f.landed, f.late)
  BY <1>2, <1>3
<1> QED
  BY <1>4 DEF g

LEMMA SetBody ==
  ASSUME NEW f \in PathRequests, NEW p \in RequestPcs, NEW h \in PathBodies
  PROVE  [f EXCEPT !.body = h, !.pc = p] = Result(p, f.rev, f.old, h, f.found, f.landed, f.late)
<1> DEFINE g == [f EXCEPT !.body = h, !.pc = p]
<1>1. g \in PathRequests
  BY DEF PathRequests
<1>2. g.pc = p /\ g.rev = f.rev /\ g.old = f.old /\ g.body = h /\ g.found = f.found /\ g.landed = f.landed /\ g.late = f.late
  BY DEF PathRequests
<1> HIDE DEF g
<1>3. g = Result(g.pc, g.rev, g.old, g.body, g.found, g.landed, g.late)
  BY <1>1, SameFields
<1>4. g = Result(p, f.rev, f.old, h, f.found, f.landed, f.late)
  BY <1>2, <1>3
<1> QED
  BY <1>4 DEF g

LEMMA SetLanded ==
  ASSUME NEW f \in PathRequests, NEW p \in RequestPcs, NEW h \in BOOLEAN
  PROVE  [f EXCEPT !.landed = h, !.pc = p] = Result(p, f.rev, f.old, f.body, f.found, h, f.late)
<1> DEFINE g == [f EXCEPT !.landed = h, !.pc = p]
<1>1. g \in PathRequests
  BY DEF PathRequests
<1>2. g.pc = p /\ g.rev = f.rev /\ g.old = f.old /\ g.body = f.body /\ g.found = f.found /\ g.landed = h /\ g.late = f.late
  BY DEF PathRequests
<1> HIDE DEF g
<1>3. g = Result(g.pc, g.rev, g.old, g.body, g.found, g.landed, g.late)
  BY <1>1, SameFields
<1>4. g = Result(p, f.rev, f.old, f.body, f.found, h, f.late)
  BY <1>2, <1>3
<1> QED
  BY <1>4 DEF g

LEMMA SetLate ==
  ASSUME NEW f \in PathRequests, NEW p \in RequestPcs, NEW h \in BOOLEAN
  PROVE  [f EXCEPT !.late = h, !.pc = p] = Result(p, f.rev, f.old, f.body, f.found, f.landed, h)
<1> DEFINE g == [f EXCEPT !.late = h, !.pc = p]
<1>1. g \in PathRequests
  BY DEF PathRequests
<1>2. g.pc = p /\ g.rev = f.rev /\ g.old = f.old /\ g.body = f.body /\ g.found = f.found /\ g.landed = f.landed /\ g.late = h
  BY DEF PathRequests
<1> HIDE DEF g
<1>3. g = Result(g.pc, g.rev, g.old, g.body, g.found, g.landed, g.late)
  BY <1>1, SameFields
<1>4. g = Result(p, f.rev, f.old, f.body, f.found, f.landed, h)
  BY <1>2, <1>3
<1> QED
  BY <1>4 DEF g

LEMMA SetFound ==
  ASSUME NEW f \in PathRequests, NEW p \in RequestPcs, NEW h \in PathRevisions
  PROVE  [f EXCEPT !.found = h, !.pc = p] = Result(p, f.rev, f.old, f.body, h, f.landed, f.late)
<1> DEFINE g == [f EXCEPT !.found = h, !.pc = p]
<1>1. g \in PathRequests
  BY DEF PathRequests
<1>2. g.pc = p /\ g.rev = f.rev /\ g.old = f.old /\ g.body = f.body /\ g.found = h /\ g.landed = f.landed /\ g.late = f.late
  BY DEF PathRequests
<1> HIDE DEF g
<1>3. g = Result(g.pc, g.rev, g.old, g.body, g.found, g.landed, g.late)
  BY <1>1, SameFields
<1>4. g = Result(p, f.rev, f.old, f.body, h, f.landed, f.late)
  BY <1>2, <1>3
<1> QED
  BY <1>4 DEF g

LEMMA SetRev ==
  ASSUME NEW f \in PathRequests, NEW p \in RequestPcs, NEW h \in PathRevisions
  PROVE  [f EXCEPT !.pc = p, !.rev = h] = Result(p, h, f.old, f.body, f.found, f.landed, f.late)
<1> DEFINE g == [f EXCEPT !.pc = p, !.rev = h]
<1>1. g \in PathRequests
  BY DEF PathRequests
<1>2. g.pc = p /\ g.rev = h /\ g.old = f.old /\ g.body = f.body /\ g.found = f.found /\ g.landed = f.landed /\ g.late = f.late
  BY DEF PathRequests
<1> HIDE DEF g
<1>3. g = Result(g.pc, g.rev, g.old, g.body, g.found, g.landed, g.late)
  BY <1>1, SameFields
<1>4. g = Result(p, h, f.old, f.body, f.found, f.landed, f.late)
  BY <1>2, <1>3
<1> QED
  BY <1>4 DEF g

LEMMA SetCarried ==
  ASSUME NEW f \in PathRequests, NEW p \in RequestPcs, NEW h \in PathRevisions, NEW b \in PathBodies
  PROVE  [f EXCEPT !.pc = p, !.rev = h, !.body = b] = Result(p, h, f.old, b, f.found, f.landed, f.late)
<1> DEFINE g == [f EXCEPT !.pc = p, !.rev = h, !.body = b]
<1>1. g \in PathRequests
  BY DEF PathRequests
<1>2. g.pc = p /\ g.rev = h /\ g.old = f.old /\ g.body = b /\ g.found = f.found /\ g.landed = f.landed /\ g.late = f.late
  BY DEF PathRequests
<1> HIDE DEF g
<1>3. g = Result(g.pc, g.rev, g.old, g.body, g.found, g.landed, g.late)
  BY <1>1, SameFields
<1>4. g = Result(p, h, f.old, b, f.found, f.landed, f.late)
  BY <1>2, <1>3
<1> QED
  BY <1>4 DEF g

LEMMA LookDoes ==
  ASSUME PathTyped, NEW n \in Requests, Look(n)
  PROVE  LET f == finish[n]  pc == IF n = Carried THEN "extends" ELSE "assemble"
             r == Result(pc, f.rev, fileRow.hash, f.body, f.found, f.landed, f.late)
         IN  f.pc = "look" /\ Becomes(n, r) /\ r \in PathRequests
<1> DEFINE pc == IF n = Carried THEN "extends" ELSE "assemble"
           g == [finish[n] EXCEPT !.old = fileRow.hash, !.pc = pc]
<1>1. finish' = [finish EXCEPT ![n] = g] /\ finish[n].pc = "look"
  BY DEF Look, At
<1>2. pc \in RequestPcs /\ fileRow.hash \in PathRevisions
  BY DEF RequestPcs, BeforePut, PathTyped, RecordsTyped, UploadTyped
<1> QED
  BY <1>1, <1>2, SetOld, FieldsTyped, ResultTyped DEF Becomes

LEMMA GetStagedDoes ==
  ASSUME PathTyped, NEW n \in Nonces, GetStaged(n)
  PROVE  LET f == finish[n]  r == Result("extends", f.rev, f.old, staging[n].bytes, f.found, f.landed, f.late)
         IN  /\ f.pc = "get"
             /\ \/ staging[n].state = "object" /\ Becomes(n, r) /\ r \in PathRequests /\ UNCHANGED <<sent, upload>>
                \/ Refuse(n)
<1>1. finish[n].pc = "get" /\ n \in Requests
  BY DEF GetStaged, At, Requests
<1>2. CASE staging[n].state = "object"
  <2>1. finish' = [finish EXCEPT ![n] = [finish[n] EXCEPT !.body = staging[n].bytes, !.pc = "extends"]]
        /\ UNCHANGED <<sent, upload>>
    BY <1>2 DEF GetStaged
  <2>2. "extends" \in RequestPcs /\ staging[n].bytes \in PathBodies
    BY DEF RequestPcs, BeforePut, PathTyped, RecordsTyped, UploadTyped
  <2> QED
    BY <1>1, <1>2, <2>1, <2>2, SetBody, FieldsTyped, ResultTyped DEF Becomes
<1>3. CASE staging[n].state # "object"
  BY <1>1, <1>3 DEF GetStaged
<1> QED
  BY <1>2, <1>3

LEMMA PutCanonicalDoes ==
  ASSUME PathTyped, NEW n \in Requests, PutCanonical(n)
  PROVE  \E landed \in BOOLEAN :
           LET f == finish[n]  pc == IF n = Carried THEN "upsert" ELSE "drop"
               r == Result(pc, f.rev, f.old, f.body, f.found, landed, f.late)
           IN  /\ f.pc = "put" /\ Becomes(n, r) /\ r \in PathRequests
               /\ landed => f.body = f.rev /\ canonical' = f.rev
               /\ ~landed => f.body # f.rev /\ canonical' = canonical
<1> DEFINE pc == IF n = Carried THEN "upsert" ELSE "drop"
<1>0. Verifies(n) \in BOOLEAN
  BY DEF Verifies
<1> PICK landed \in BOOLEAN : landed = Verifies(n)
  BY <1>0, Zenon
<1>1. finish' = [finish EXCEPT ![n] = [finish[n] EXCEPT !.landed = landed, !.pc = pc]] /\ finish[n].pc = "put"
  BY DEF PutCanonical, At
<1>2. pc \in RequestPcs
  BY DEF RequestPcs, AfterPut
<1>4. canonical' = IF landed THEN finish[n].body ELSE canonical
  BY DEF PutCanonical
<1>5. landed <=> finish[n].body = finish[n].rev
  BY DEF Verifies
<1>6. Becomes(n, Result(pc, finish[n].rev, finish[n].old, finish[n].body, finish[n].found, landed, finish[n].late))
  <2>1. finish[n] \in PathRequests
    BY FieldsTyped
  <2> HIDE DEF pc
  <2>2. [finish[n] EXCEPT !.landed = landed, !.pc = pc]
          = Result(pc, finish[n].rev, finish[n].old, finish[n].body, finish[n].found, landed, finish[n].late)
    BY <1>2, <2>1, SetLanded
  <2> QED
    BY <1>1, <2>2 DEF Becomes
<1>7. Result(pc, finish[n].rev, finish[n].old, finish[n].body, finish[n].found, landed, finish[n].late) \in PathRequests
  BY <1>2, FieldsTyped, ResultTyped
<1> WITNESS landed \in BOOLEAN
<1> QED
  BY <1>1, <1>4, <1>5, <1>6, <1>7

LEMMA PutAgainDoes ==
  ASSUME PathTyped, NEW n \in Requests, PutAgain(n)
  PROVE  \E late \in BOOLEAN :
           LET f == finish[n]  pc == IF mplan.other THEN "send" ELSE "flip"
               r == Result(pc, f.rev, f.old, f.body, f.found, f.landed, late)
           IN  /\ f.pc = "again" /\ Becomes(n, r) /\ r \in PathRequests /\ canonical' = f.body
               /\ late \/ fileRow.hash = f.rev
<1> DEFINE pc == IF mplan.other THEN "send" ELSE "flip"
<1>0. (fileRow.hash # finish[n].rev) \in BOOLEAN
  OBVIOUS
<1> PICK late \in BOOLEAN : late = (fileRow.hash # finish[n].rev)
  BY <1>0, Zenon
<1>1. finish' = [finish EXCEPT ![n] = [finish[n] EXCEPT !.late = late, !.pc = pc]] /\ finish[n].pc = "again"
      /\ canonical' = finish[n].body
  BY DEF PutAgain, At
<1>2. pc \in RequestPcs
  BY DEF RequestPcs, AfterPut
<1>5. late \/ fileRow.hash = finish[n].rev
  OBVIOUS
<1>6. Becomes(n, Result(pc, finish[n].rev, finish[n].old, finish[n].body, finish[n].found, finish[n].landed, late))
  BY <1>1, <1>2, SetLate, FieldsTyped DEF Becomes
<1>7. Result(pc, finish[n].rev, finish[n].old, finish[n].body, finish[n].found, finish[n].landed, late) \in PathRequests
  BY <1>2, FieldsTyped, ResultTyped
<1> WITNESS late \in BOOLEAN
<1> QED
  BY <1>1, <1>5, <1>6, <1>7

LEMMA CompareDoes ==
  ASSUME PathTyped, NEW n \in Requests, Compare(n)
  PROVE  LET f == finish[n]  pc == IF canonical \in {Nothing, f.rev} THEN "send" ELSE "realign"
             r == Result(pc, f.rev, f.old, f.body, canonical, f.landed, f.late)
         IN  f.pc = "compare" /\ Becomes(n, r) /\ r \in PathRequests
<1> DEFINE pc == IF canonical \in {Nothing, finish[n].rev} THEN "send" ELSE "realign"
<1>1. finish' = [finish EXCEPT ![n] = [finish[n] EXCEPT !.found = canonical, !.pc = pc]] /\ finish[n].pc = "compare"
  BY DEF Compare, At
<1>2. pc \in RequestPcs /\ canonical \in PathRevisions
  BY DEF RequestPcs, AfterPut, PathTyped, RecordsTyped, UploadTyped
<1> QED
  BY <1>1, <1>2, SetFound, FieldsTyped, ResultTyped DEF Becomes

LEMMA CompleteDoes ==
  ASSUME PathTyped, Complete
  PROVE  LET r == Result("look", upload.rev, Nothing, Nothing, Nothing, FALSE, FALSE)
         IN  Becomes(upload.n, r) /\ r \in PathRequests
<1>1. "look" \in RequestPcs /\ upload.rev \in PathRevisions
  BY DEF RequestPcs, BeforePut, PathTyped, RecordsTyped, UploadTyped
<1>2. [Finished EXCEPT !.pc = "look", !.rev = upload.rev]
        = Result("look", upload.rev, Finished.old, Finished.body, Finished.found, Finished.landed, Finished.late)
  BY <1>1, FinishedTyped, SetRev
<1>3. [Finished EXCEPT !.pc = "look", !.rev = upload.rev] = Result("look", upload.rev, Nothing, Nothing, Nothing, FALSE, FALSE)
  BY <1>2 DEF Finished
<1> QED
  BY <1>1, <1>3, PathContents, ResultTyped DEF Complete, Becomes

LEMMA CarryDoes ==
  ASSUME PathTyped, Carry
  PROVE  LET r == Result("look", mplan.carried, Nothing, mplan.carried, Nothing, FALSE, FALSE)
         IN  Becomes(Carried, r) /\ r \in PathRequests /\ mplan.carried # Nothing /\ finish[Carried].pc = "idle"
<1>1. "look" \in RequestPcs /\ mplan.carried \in PathRevisions /\ mplan.carried \in PathBodies
  BY PlanTyped, PathContents DEF RequestPcs, BeforePut, PathTyped, RecordsTyped, UploadTyped
<1>2. [Finished EXCEPT !.pc = "look", !.rev = mplan.carried, !.body = mplan.carried]
        = Result("look", mplan.carried, Finished.old, mplan.carried, Finished.found, Finished.landed, Finished.late)
  <2>1. Finished \in PathRequests
    BY FinishedTyped
  <2>2. \A f \in PathRequests, p \in RequestPcs, h \in PathRevisions, b \in PathBodies :
          [f EXCEPT !.pc = p, !.rev = h, !.body = b] = Result(p, h, f.old, b, f.found, f.landed, f.late)
    BY SetCarried
  <2> QED
    BY <1>1, <2>1, <2>2, Zenon
<1>3. [Finished EXCEPT !.pc = "look", !.rev = mplan.carried, !.body = mplan.carried]
        = Result("look", mplan.carried, Nothing, mplan.carried, Nothing, FALSE, FALSE)
  BY <1>2 DEF Finished
<1> QED
  BY <1>1, <1>3, PathContents, ResultTyped DEF Carry, Becomes, At
-----------------------------------------------------------------------------
(* Where a complete may be, and a PUT.                                      *)
CompletePcs ==
  BeforePut \cup {"idle", "drop", "upsert", "flip", "observe", "compare", "realign", "reflip", "resend", "send"}

PutPcs == {"idle", "done", "look", "extends", "preserve", "put", "upsert", "row", "head", "again", "flip", "send"}

PlacesTrue ==
  /\ \A n \in Nonces : finish[n].pc \in CompletePcs
  /\ finish[Carried].pc \in PutPcs
  /\ upload.pc \in {"part", "wait", "abort"} => upload.n \in Nonces

Seen == {mplan.versions[i] : i \in 1..version}

PathRevs == Seen \cup {mplan.carried, Nothing}

Serving(n) == finish[n].pc \notin {"idle", "done"}

(* A request has a whole revision, and has written it by the time it comes  *)
(* to the row; a complete that finds another object may realign with it.    *)
RequestTrue(n) ==
  LET f == finish[n]
  IN  /\ f.landed => f.body = f.rev /\ canonical # Nothing /\ Serving(n)
      /\ f.pc \in BeforePut => ~f.landed
      /\ f.pc \in AfterPut => f.landed
      /\ f.pc = "realign" => f.found \notin {f.rev, Nothing}
      /\ f.pc \in {"reflip", "resend"} => f.found # Nothing
      /\ n \in Nonces => ~f.late /\ (Serving(n) => f.rev \in Seen)
      /\ n = Carried => /\ f.pc = "idle" => ~f.late
                        /\ f.pc # "idle" => mplan.carried # Nothing
                        /\ Serving(n) => f.rev = mplan.carried /\ f.body = mplan.carried

RequestsTrue == \A n \in Requests : RequestTrue(n)

RecordsTrue ==
  /\ canonical \in PathRevs
  /\ displaced \subseteq Contents /\ parses \subseteq Contents /\ stored \subseteq Contents
  /\ parse # NotParsing => parse.hash \in Contents
  /\ upload.pc # "idle" => upload.rev \in Seen
  /\ upload.pc = "part" => ~Serving(upload.n)

-----------------------------------------------------------------------------
(* The order of completes: those that nobody waits for are behind the one   *)
(* that is awaited.                                                         *)
PlaceIn(versions, c) == CHOOSE i \in 1..Len(versions) : versions[i] = c

Place(c) == PlaceIn(mplan.versions, c)

(* The version that the collector has come to.                              *)
Reached == IF upload.pc = "idle" THEN version ELSE Place(upload.rev)

Completing == {n \in Nonces : Serving(n)}

AwaitTrue ==
  /\ "timeout" \notin mfaults => \A n \in Completing : Awaited(n)
  /\ \A n, m \in Completing : ~Awaited(n) /\ ~Awaited(m) => n = m
  /\ \A n \in Completing : Awaited(n) => finish[n].rev = upload.rev

Straight == mplan.carried = Nothing /\ NeverBack

OrderTrue ==
  Straight =>
    /\ \A n \in Completing : Place(finish[n].rev) <= Reached
    /\ canonical # Nothing => Place(canonical) <= Reached
    /\ \A n \in Completing : ~Awaited(n) /\ finish[n].landed =>
         canonical = finish[n].rev \/ Place(canonical) > Place(finish[n].rev)
    /\ \A n \in Completing : ~Awaited(n) /\ finish[n].pc = "realign" => Place(finish[n].rev) < Reached

(* Two that have written: the object is of one of them.                     *)
PairsTrue ==
  Straight => \A n, m \in Completing :
    n # m =>
      /\ finish[n].landed /\ finish[m].landed => canonical \in {finish[n].rev, finish[m].rev}
      /\ finish[n].pc = "realign" /\ finish[m].landed => canonical = finish[m].rev /\ canonical # finish[n].rev
      /\ Awaited(n) /\ finish[n].landed /\ ~finish[m].landed => canonical = finish[n].rev /\ finish[n].pc # "realign"

(* Nobody but the carried file comes between.                               *)
AloneTrue ==
  "timeout" \notin mfaults => \A n \in Completing :
    /\ finish[n].landed => canonical \in {finish[n].rev, mplan.carried}
    /\ finish[n].pc = "realign" => finish[n].found = canonical /\ canonical = mplan.carried

-----------------------------------------------------------------------------
(* The row is the object's, or somebody is on the way to mend it.           *)
Calm == "crash" \notin mfaults /\ ~finish[Carried].late /\ ("timeout" \in mfaults => Straight)

Lands(n) == finish[n].pc \in {"drop", "upsert"} /\ finish[n].landed

Landing(rev) == \E n \in Requests : Lands(n) /\ finish[n].rev = rev

Mends(n) ==
  /\ finish[n].rev = fileRow.hash
  /\ \/ n # Carried /\ finish[n].pc \in {"flip", "observe", "compare"}
     \/ finish[n].pc \in {"row", "head", "again"}
     \/ finish[n].pc = "realign" /\ finish[n].found = canonical

Agreed == fileRow.hash = canonical \/ Landing(canonical) \/ \E n \in Requests : Mends(n)

RealignsWell(n) ==
  finish[n].pc = "realign" /\ fileRow.hash = finish[n].rev => finish[n].found = canonical \/ Landing(canonical)

AgreeTrue == Calm => Agreed /\ \A n \in Nonces : RealignsWell(n)

(* Somebody will send the row's revision to the parser, or it is parsed.    *)
Sends(n) ==
  \/ finish[n].rev = fileRow.hash
       /\ finish[n].pc \in {"row", "head", "again", "flip", "observe", "compare", "realign", "send"}
  \/ finish[n].found = fileRow.hash /\ finish[n].pc \in {"reflip", "resend"}
  \/ Lands(n)

Due == fileRow.hash \in parses \/ \E n \in Requests : Sends(n)

ParsedOrDue ==
  /\ fileRow.hash # Nothing =>
       \/ Due
       \/ parse = [hash |-> fileRow.hash, bytes |-> fileRow.hash]
       \/ derived = [state |-> "ready", rev |-> fileRow.hash, bytes |-> fileRow.hash]
  /\ parse # NotParsing /\ parse.hash = fileRow.hash /\ parse.bytes # fileRow.hash => Due

OweTrue == Calm /\ ~mplan.other => ParsedOrDue

(* A revision that was said to be stored is the object, grows in it, or is  *)
(* preserved, and a complete decides on the row of the object it replaces.  *)
Quiet == mfaults \cap {"timeout", "crash"} = {} /\ mplan.carried = Nothing

IsKept(rev) == \E kept \in displaced \cup {canonical} : IsPrefix(rev, kept)

Decides(n) ==
  /\ finish[n].pc \in BeforePut \ {"look"} => finish[n].old = canonical
  /\ finish[n].pc = "put" =>
       finish[n].old \in displaced \cup {Nothing, finish[n].rev} \/ Grown(finish[n].body, finish[n].old)

KeepsStored ==
  /\ \A rev \in stored : IsKept(rev)
  /\ upload.pc \in {"mark", "send"} => canonical = upload.rev
  /\ \A n \in Nonces : Decides(n)

KeepTrue == Quiet => KeepsStored

PathBase == PathTyped /\ PlacesTrue /\ RequestsTrue /\ RecordsTrue

PathInv == PathBase /\ AwaitTrue /\ OrderTrue /\ PairsTrue /\ AloneTrue /\ AgreeTrue /\ OweTrue /\ KeepTrue
-----------------------------------------------------------------------------
(* Types.                                                                   *)
LEMMA SameRecords ==
  ASSUME RecordsTyped,
         UNCHANGED <<version, sent, staging, canonical, displaced, fileRow, derived, parses, parse, stored, mplan>>,
         mfaults' \subseteq mplan.faults
  PROVE  RecordsTyped'
BY DEF RecordsTyped

LEMMA StrikesTyped ==
  ASSUME RecordsTyped, NEW kind, Strikes(kind)
  PROVE  mfaults' \subseteq mplan.faults /\ kind \in mfaults' /\ mfaults \subseteq mfaults'
BY DEF RecordsTyped, Strikes

LEMMA FaultsTyped ==
  ASSUME RecordsTyped, UNCHANGED mfaults \/ (\E kind \in MultipartFaults : Strikes(kind))
  PROVE  mfaults' \subseteq mplan.faults
BY StrikesTyped DEF RecordsTyped

(* A step of the collector that leaves the requests alone.                  *)
LEMMA BesideTyped ==
  ASSUME PathTyped, PlacesTrue, RecordsTyped', UploadTyped(upload'), finish' = finish,
         upload'.pc \in {"part", "wait", "abort"} => upload'.n \in Nonces
  PROVE  PathTyped' /\ PlacesTrue'
<1>1. PathTyped'
  BY DEF PathTyped, UploadTyped
<1> QED
  BY <1>1 DEF PlacesTrue

(* A step of a request.                                                     *)
LEMMA ServeTyped ==
  ASSUME PathTyped, PlacesTrue, RecordsTyped', UploadTyped(upload'),
         upload'.pc \in {"part", "wait", "abort"} => upload'.n \in Nonces,
         NEW n \in Requests, NEW r \in PathRequests, Becomes(n, r),
         n \in Nonces => r.pc \in CompletePcs, n = Carried => r.pc \in PutPcs
  PROVE  PathTyped' /\ PlacesTrue'
<1>1. finish' \in [Requests -> PathRequests] /\ Keeps(n, r)
  BY BecomesTyped
<1>2. PathTyped'
  BY <1>1 DEF PathTyped, UploadTyped
<1> QED
  BY <1>1, <1>2, PathContents DEF PlacesTrue, Keeps, Requests

LEMMA LeftPc ==
  ASSUME NEW n, NEW pc
  PROVE  Left(n, pc).pc = pc
BY DEF Left, Result

LEMMA UploadStays ==
  ASSUME PathTyped, PlacesTrue, UNCHANGED upload
  PROVE  UploadTyped(upload') /\ (upload'.pc \in {"part", "wait", "abort"} => upload'.n \in Nonces)
BY DEF PathTyped, PlacesTrue, UploadTyped

LEMMA EndedPc ==
  ASSUME NEW n \in Requests
  PROVE  Ended(n).pc = (IF n = Carried THEN "done" ELSE "idle") /\ ~Ended(n).landed
BY DEF Ended, Result, Finished

LEMMA GotoTyped ==
  ASSUME PathTyped, PlacesTrue, RecordsTyped', NEW n \in Requests, NEW pc, Goto(n, pc),
         n \in Nonces => pc \in CompletePcs, n = Carried => pc \in PutPcs
  PROVE  PathTyped' /\ PlacesTrue'
<1>1. pc \in RequestPcs
  BY DEF Requests, CompletePcs, PutPcs, RequestPcs, BeforePut, AfterPut
<1>2. Becomes(n, Left(n, pc)) /\ Left(n, pc) \in PathRequests /\ upload' = upload /\ Left(n, pc).pc = pc
  BY <1>1, GotoLeft, LeftTyped, LeftPc
<1> QED
  BY <1>2, UploadStays, ServeTyped

LEMMA RefuseTyped ==
  ASSUME PathTyped, PlacesTrue, RecordsTyped', NEW n \in Requests, Refuse(n)
  PROVE  PathTyped' /\ PlacesTrue'
<1>1. /\ Becomes(n, Ended(n)) /\ UploadTyped(upload') /\ Ended(n) \in PathRequests
      /\ Awaited(n) => upload'.pc = "abort" /\ upload'.n = upload.n
      /\ ~Awaited(n) => upload' = upload
  BY RefuseEnds, ClosedEnded
<1>2. upload'.pc \in {"part", "wait", "abort"} => upload'.n \in Nonces
  BY <1>1 DEF PlacesTrue, Awaited
<1> QED
  BY <1>1, <1>2, EndedPc, PathContents, ServeTyped DEF CompletePcs, PutPcs

LEMMA RespondTyped ==
  ASSUME PathTyped, PlacesTrue, RecordsTyped', NEW n \in Requests, Respond(n)
  PROVE  PathTyped' /\ PlacesTrue'
<1>1. /\ Becomes(n, Ended(n)) /\ UploadTyped(upload') /\ Ended(n) \in PathRequests
      /\ Awaited(n) => upload'.pc = "idle"
      /\ ~Awaited(n) => upload' = upload
  BY RespondEnds, ClosedEnded
<1>2. upload'.pc \in {"part", "wait", "abort"} => upload'.n \in Nonces
  BY <1>1 DEF PlacesTrue, Awaited
<1> QED
  BY <1>1, <1>2, EndedPc, PathContents, ServeTyped DEF CompletePcs, PutPcs

LEMMA RespondSent ==
  ASSUME PathTyped, NEW n \in Requests, Respond(n)
  PROVE  sent' \in PathRevisions /\ stored' \subseteq PathRevisions
<1>1. stored' = stored \cup {finish[n].rev} /\ (Awaited(n) => sent' = upload.rev) /\ (~Awaited(n) => sent' = sent)
  BY RespondEnds
<1> QED
  BY <1>1, FieldsTyped DEF PathTyped, RecordsTyped, UploadTyped

LEMMA FreshTyped ==
  ASSUME PathTyped, NEW rev \in PathRevisions
  PROVE  Fresh(rev) \in [hash : PathRevisions, state : {"absent", "pending", "parsed", "skipped"}] /\ Fresh(rev).hash = rev
BY DEF Fresh

LEMMA FlippedTyped ==
  ASSUME PathTyped, NEW rev
  PROVE  Flipped(rev) \in [state : {"absent", "parsing", "ready"}, rev : PathRevisions, bytes : PathRevisions]
BY DEF PathTyped, RecordsTyped, Flipped

LEMMA StagingTyped ==
  ASSUME PathTyped, NEW n \in Nonces, staging' = [staging EXCEPT ![n] = NoStaging]
  PROVE  staging' \in [Nonces -> [state : {"none", "open", "object"}, bytes : PathBodies]]
<1>1. NoStaging \in [state : {"none", "open", "object"}, bytes : PathBodies]
  BY PathContents DEF NoStaging
<1> QED
  BY <1>1 DEF PathTyped, RecordsTyped

LEMMA CollectorTypes ==
  ASSUME PathTyped, PlacesTrue, UploadStep \/ GiveUp \/ Rewrite \/ Carry
  PROVE  PathTyped' /\ PlacesTrue'
<1> USE DEF hubState
<1>0. RecordsTyped /\ UploadTyped(upload)
  BY DEF PathTyped
<1>1. CASE Rewrite
  <2>1. RecordsTyped'
    BY <1>0, <1>1, PlanTyped DEF RecordsTyped, Rewrite
  <2> QED
    BY <1>1, <2>1, UploadStays, BesideTyped DEF Rewrite
<1>2. CASE Hash
  <2>1. upload' = [Idling EXCEPT !.pc = "look", !.rev = Source]
    BY <1>2 DEF Hash
  <2>2. UploadTyped(upload') /\ upload'.pc = "look"
    BY <2>1, IdlingTyped, SourceTyped DEF UploadTyped, UploadPcs
  <2>3. RecordsTyped'
    BY <1>0, <1>2, SameRecords, FaultsTyped DEF Hash
  <2> QED
    BY <1>2, <2>2, <2>3, BesideTyped DEF Hash
<1>3. CASE CreateLook
  <2>1. PICK pc \in {"head", "open"} : Continue(pc)
    BY <1>3 DEF CreateLook
  <2>2. UploadTyped(upload') /\ upload'.pc = pc
    BY <2>1, ContinueTyped DEF UploadPcs
  <2>3. RecordsTyped'
    BY <1>0, <1>3, SameRecords, FaultsTyped DEF CreateLook
  <2> QED
    BY <1>3, <2>2, <2>3, BesideTyped DEF CreateLook
<1>4. CASE CreateHead
  <2>1. finish' = finish /\ UNCHANGED <<version, staging, canonical, displaced, fileRow, derived, parses, parse, mplan, mfaults>>
    BY <1>4 DEF CreateHead
  <2>2. CASE \E pc \in {"open", "mark"} : Continue(pc) /\ UNCHANGED <<sent, stored>>
    <3>1. PICK pc \in {"open", "mark"} : Continue(pc) /\ UNCHANGED <<sent, stored>>
      BY <2>2
    <3>2. UploadTyped(upload') /\ upload'.pc = pc
      BY <3>1, ContinueTyped DEF UploadPcs
    <3>3. RecordsTyped'
      BY <1>0, <2>1, <3>1, SameRecords, FaultsTyped
    <3> QED
      BY <2>1, <3>2, <3>3, BesideTyped
  <2>3. CASE Succeed /\ stored' = stored \cup {upload.rev}
    <3>1. upload' = Idling /\ sent' = upload.rev /\ upload.rev \in PathRevisions
      BY <2>3, <1>0 DEF Succeed, UploadTyped
    <3>2. RecordsTyped'
      BY <1>0, <2>1, <2>3, <3>1 DEF RecordsTyped
    <3> QED
      BY <2>1, <3>1, <3>2, IdlingTyped, BesideTyped
  <2> QED
    BY <1>4, <2>2, <2>3 DEF CreateHead
<1>5. CASE CreateMark
  <2>1. Continue("send")
    BY <1>5 DEF CreateMark
  <2>2. UploadTyped(upload') /\ upload'.pc = "send"
    BY <2>1, ContinueTyped DEF UploadPcs
  <2>3. RecordsTyped'
    BY <1>0, <1>5 DEF CreateMark, RecordsTyped
  <2> QED
    BY <1>5, <2>2, <2>3, BesideTyped DEF CreateMark
<1>6. CASE CreateSend
  <2>1. upload' = Idling /\ sent' = upload.rev /\ upload.rev \in PathRevisions
    BY <1>6, <1>0 DEF CreateSend, Succeed, UploadTyped
  <2>2. RecordsTyped'
    BY <1>0, <1>6, <2>1 DEF CreateSend, RecordsTyped
  <2> QED
    BY <1>6, <2>1, <2>2, IdlingTyped, BesideTyped DEF CreateSend
<1>7. CASE \E n \in Nonces : CreateOpen(n)
  <2>1. PICK n \in Nonces : CreateOpen(n)
    BY <1>7
  <2>2. mfaults' \subseteq mplan.faults
    BY <1>0, <2>1, FaultsTyped DEF CreateOpen, MultipartFaults
  <2>3. staging' = [staging EXCEPT ![n] = [state |-> "open", bytes |-> <<>>]]
    BY <2>1 DEF CreateOpen
  <2>4. [state |-> "open", bytes |-> <<>>] \in [state : {"none", "open", "object"}, bytes : PathBodies]
    BY PathContents DEF Nothing
  <2>5. RecordsTyped'
    BY <1>0, <2>1, <2>2, <2>3, <2>4 DEF RecordsTyped, CreateOpen
  <2>6. CASE upload' = [upload EXCEPT !.pc = "part", !.n = n]
    <3>1. UploadTyped(upload') /\ upload'.n = n
      BY <1>0, <2>6 DEF UploadTyped, UploadPcs, Requests
    <3> QED
      BY <2>1, <2>5, <3>1, BesideTyped DEF CreateOpen
  <2>7. CASE upload' = Failed
    BY <2>1, <2>5, <2>7, FailedTyped, BesideTyped DEF CreateOpen
  <2> QED
    BY <2>1, <2>6, <2>7 DEF CreateOpen
<1>8. CASE SendPart
  <2> DEFINE i == Len(upload.read) + 1
  <2>1. finish' = finish /\ UNCHANGED <<version, sent, canonical, displaced, fileRow, derived, parses, parse, stored, mplan>>
        /\ upload.pc = "part" /\ upload.n \in Nonces
    BY <1>8 DEF SendPart, PlacesTrue
  <2>2. CASE Continue("abort") /\ UNCHANGED staging /\ mfaults' \subseteq mplan.faults
    <3>1. UploadTyped(upload') /\ upload'.n = upload.n
      BY <2>2, ContinueTyped DEF UploadPcs
    <3>2. RecordsTyped'
      BY <1>0, <2>1, <2>2, SameRecords
    <3> QED
      BY <2>1, <3>1, <3>2, BesideTyped
  <2>3. CASE /\ upload' = [upload EXCEPT !.read = Append(@, Source[i])] /\ i <= Len(Source)
             /\ staging' = [staging EXCEPT ![upload.n].bytes = Append(@, Source[i])]
             /\ UNCHANGED mfaults
    <3>1. upload.read \in Seq(PathParts) /\ i \in 1..Len(Source)
      BY <1>0, <2>3 DEF UploadTyped, PathBodies
    <3>2. Source \in Seq(PathParts)
      BY SourceTyped, PathContents DEF PathBodies
    <3>3. Source[i] \in PathParts
      BY <3>1, <3>2
    <3>4. \A b \in PathBodies : Append(b, Source[i]) \in PathBodies
      BY <3>3 DEF PathBodies
    <3> DEFINE x == Source[i]
    <3> HIDE DEF x
    <3>5. UploadTyped(upload') /\ upload'.n = upload.n
      <4>1. Append(upload.read, Source[i]) \in PathBodies
        BY <3>4, <1>0 DEF UploadTyped
      <4>2. PICK b \in PathBodies : b = Append(upload.read, Source[i])
        BY <4>1
      <4>3. upload' = [upload EXCEPT !.read = b]
        BY <2>3, <4>2
      <4> QED
        BY <1>0, <4>3 DEF UploadTyped
    <3>6. staging' \in [Nonces -> [state : {"none", "open", "object"}, bytes : PathBodies]]
      <4>1. staging[upload.n] \in [state : {"none", "open", "object"}, bytes : PathBodies]
        BY <1>0, <2>1 DEF RecordsTyped
      <4>2. PICK b \in PathBodies : b = Append(staging[upload.n].bytes, Source[i])
        BY <3>4, <4>1
      <4>3. staging' = [staging EXCEPT ![upload.n] = [staging[upload.n] EXCEPT !.bytes = b]]
        BY <2>3, <4>2
      <4>4. [staging[upload.n] EXCEPT !.bytes = b] \in [state : {"none", "open", "object"}, bytes : PathBodies]
        BY <4>1
      <4> QED
        BY <1>0, <4>3, <4>4 DEF RecordsTyped
    <3>7. RecordsTyped'
      BY <1>0, <2>1, <2>3, <3>6 DEF RecordsTyped
    <3> QED
      BY <2>1, <3>5, <3>7, BesideTyped
  <2>4. CASE Strikes("refuse") /\ Continue("abort") /\ UNCHANGED staging
    <3>1. mfaults' \subseteq mplan.faults
      BY <1>0, <2>4, StrikesTyped
    <3> QED
      BY <2>2, <2>4, <3>1
  <2>5. CASE Continue("abort") /\ UNCHANGED <<staging, mfaults>>
    BY <1>0, <2>2, <2>5 DEF RecordsTyped
  <2> QED
    BY <1>8, <2>3, <2>4, <2>5 DEF SendPart
<1>9. CASE Complete
  <2> DEFINE n == upload.n  r == Result("look", upload.rev, Nothing, Nothing, Nothing, FALSE, FALSE)
  <2>1. n \in Nonces /\ Becomes(n, r) /\ r \in PathRequests /\ Continue("wait")
    BY <1>9, CompleteDoes DEF Complete, PlacesTrue
  <2>2. UploadTyped(upload') /\ upload'.n = n /\ r.pc = "look" /\ n \in Requests /\ n # Carried
    BY <2>1, ContinueTyped, PathContents DEF UploadPcs, Result, Requests
  <2>3. RecordsTyped'
    BY <1>0, <1>9, SameRecords, FaultsTyped DEF Complete
  <2> HIDE DEF r, n
  <2> QED
    BY <2>1, <2>2, <2>3, ServeTyped DEF CompletePcs, BeforePut
<1>10. CASE Abort
  <2>1. finish' = finish /\ upload' = Failed /\ upload.n \in Nonces
        /\ UNCHANGED <<version, sent, canonical, displaced, fileRow, derived, parses, parse, stored, mplan>>
    BY <1>10 DEF Abort, PlacesTrue
  <2>2. mfaults' \subseteq mplan.faults
    BY <1>0, <1>10, FaultsTyped DEF Abort, MultipartFaults
  <2>3. staging' \in [Nonces -> [state : {"none", "open", "object"}, bytes : PathBodies]]
    BY <1>0, <1>10, <2>1, StagingTyped DEF Abort, RecordsTyped
  <2>4. RecordsTyped'
    BY <1>0, <2>1, <2>2, <2>3 DEF RecordsTyped
  <2> QED
    BY <2>1, <2>4, FailedTyped, BesideTyped
<1>11. CASE GiveUp
  <2>1. Continue("abort") /\ upload.n \in Nonces
    BY <1>11 DEF GiveUp, PlacesTrue
  <2>2. UploadTyped(upload') /\ upload'.n = upload.n
    BY <2>1, ContinueTyped DEF UploadPcs
  <2>3. RecordsTyped'
    BY <1>0, <1>11, SameRecords, FaultsTyped DEF GiveUp, MultipartFaults
  <2> QED
    BY <1>11, <2>1, <2>2, <2>3, BesideTyped DEF GiveUp
<1>12. CASE Carry
  <2> DEFINE r == Result("look", mplan.carried, Nothing, mplan.carried, Nothing, FALSE, FALSE)
  <2>1. Becomes(Carried, r) /\ r \in PathRequests /\ UNCHANGED upload
    BY <1>12, CarryDoes DEF Carry
  <2>2. r.pc = "look" /\ Carried \in Requests /\ Carried \notin Nonces
    BY PathContents DEF Result, Requests
  <2>3. RecordsTyped'
    BY <1>0, <1>12, SameRecords, FaultsTyped DEF Carry
  <2> HIDE DEF r
  <2> QED
    BY <2>1, <2>2, <2>3, UploadStays, ServeTyped DEF PutPcs
<1> QED
  BY <1>1, <1>2, <1>3, <1>4, <1>5, <1>6, <1>7, <1>8, <1>9, <1>10, <1>11, <1>12 DEF UploadStep
LEMMA ServeTypes ==
  ASSUME PathTyped, PlacesTrue, RequestsTrue, NEW n \in Requests, ServeUpload(n) \/ Die(n)
  PROVE  PathTyped' /\ PlacesTrue'
<1> USE DEF hubState, indexState
<1>0. RecordsTyped /\ UploadTyped(upload) /\ finish[n] \in PathRequests
  BY FieldsTyped DEF PathTyped
<1>a. n \in Nonces => finish[n].pc \in CompletePcs
  BY DEF PlacesTrue
<1>b. n = Carried => finish[n].pc \in PutPcs
  BY DEF PlacesTrue
<1>c. n \in Nonces \/ n = Carried
  BY DEF Requests
<1>1. CASE Look(n)
  <2> DEFINE f == finish[n]  pc == IF n = Carried THEN "extends" ELSE "assemble"
             r == Result(pc, f.rev, fileRow.hash, f.body, f.found, f.landed, f.late)
  <2>1. Becomes(n, r) /\ r \in PathRequests /\ UNCHANGED upload
    BY <1>1, LookDoes DEF Look
  <2>2. r.pc = pc
    BY DEF Result
  <2>3. RecordsTyped'
    BY <1>0, <1>1, SameRecords, FaultsTyped DEF Look
  <2> HIDE DEF r
  <2> QED
    BY <2>1, <2>2, <2>3, UploadStays, ServeTyped, PathContents DEF CompletePcs, BeforePut, PutPcs
<1>2. CASE Assemble(n)
  <2>1. finish[n].pc = "assemble" /\ n \in Nonces /\ n # Carried
    BY <1>2, <1>b, <1>c, PathContents DEF Assemble, At, PutPcs
  <2>2. UNCHANGED <<version, hubState, mplan>>
    BY <1>2 DEF Assemble
  <2>3. CASE Goto(n, "get") /\ staging' = [staging EXCEPT ![n].state = "object"] /\ UNCHANGED mfaults
    <3>1. staging' \in [Nonces -> [state : {"none", "open", "object"}, bytes : PathBodies]]
      <4>1. staging' = [staging EXCEPT ![n] = [staging[n] EXCEPT !.state = "object"]]
        BY <2>3
      <4>2. [staging[n] EXCEPT !.state = "object"] \in [state : {"none", "open", "object"}, bytes : PathBodies]
        BY <1>0, <2>1 DEF RecordsTyped
      <4> QED
        BY <1>0, <2>1, <4>1, <4>2 DEF RecordsTyped
    <3>2. RecordsTyped'
      BY <1>0, <2>2, <2>3, <3>1 DEF RecordsTyped, Goto
    <3> QED
      BY <2>1, <2>3, <3>2, GotoTyped DEF CompletePcs, BeforePut
  <2>4. CASE Refuse(n) /\ UNCHANGED staging /\ (UNCHANGED mfaults \/ Strikes("refuse"))
    <3>1. mfaults' \subseteq mplan.faults
      BY <1>0, <2>4, FaultsTyped DEF MultipartFaults
    <3>2. RecordsTyped'
      BY <1>0, <2>2, <2>4, <3>1 DEF RecordsTyped, Refuse
    <3> QED
      BY <2>4, <3>2, RefuseTyped
  <2> QED
    BY <1>2, <2>3, <2>4 DEF Assemble
<1>3. CASE GetStaged(n)
  <2>1. finish[n].pc = "get" /\ n \in Nonces /\ n # Carried
    BY <1>3, <1>b, <1>c, PathContents DEF GetStaged, At, PutPcs
  <2>2. UNCHANGED <<version, staging, hubState, mplan, mfaults>>
    BY <1>3 DEF GetStaged
  <2> DEFINE r == Result("extends", finish[n].rev, finish[n].old, staging[n].bytes, finish[n].found, finish[n].landed, finish[n].late)
  <2>3. CASE Becomes(n, r) /\ r \in PathRequests /\ UNCHANGED <<sent, upload>>
    <3>1. r.pc = "extends"
      BY DEF Result
    <3>2. RecordsTyped'
      BY <1>0, <2>2, <2>3 DEF RecordsTyped
    <3> HIDE DEF r
    <3> QED
      BY <2>1, <2>3, <3>1, <3>2, UploadStays, ServeTyped DEF CompletePcs, BeforePut
  <2>4. CASE Refuse(n)
    <3>2. RecordsTyped'
      BY <1>0, <2>2, <2>4 DEF RecordsTyped, Refuse
    <3> QED
      BY <2>4, <3>2, RefuseTyped
  <2> QED
    BY <1>3, <2>1, <2>3, <2>4, GetStagedDoes
<1>4. CASE CheckExtends(n)
  <2>1. PICK pc \in {"preserve", "put"} : Goto(n, pc)
    BY <1>4 DEF CheckExtends
  <2>2. RecordsTyped'
    BY <1>0, <1>4, <2>1 DEF RecordsTyped, CheckExtends, Goto
  <2> QED
    BY <2>1, <2>2, GotoTyped DEF CompletePcs, BeforePut, PutPcs
<1>5. CASE Preserve(n)
  <2>1. UNCHANGED <<version, canonical, fileRow, indexState, stored, mplan>>
    BY <1>5 DEF Preserve
  <2>2. CASE displaced' = displaced \cup ({Predecessor(n)} \ {Nothing}) /\ Goto(n, "put") /\ UNCHANGED <<staging, mfaults>>
    <3>1. Predecessor(n) \in PathRevisions
      BY <1>0, PathContents DEF Predecessor, RecordsTyped
    <3>2. RecordsTyped'
      BY <1>0, <2>1, <2>2, <3>1 DEF RecordsTyped, Goto
    <3> QED
      BY <2>2, <3>2, GotoTyped DEF CompletePcs, BeforePut, PutPcs
  <2>3. CASE /\ Strikes("refuse") /\ Refuse(n) /\ UNCHANGED displaced
             /\ staging' = IF n = Carried THEN staging ELSE [staging EXCEPT ![n] = NoStaging]
    <3>1. mfaults' \subseteq mplan.faults
      BY <1>0, <2>3, StrikesTyped
    <3>2. staging' \in [Nonces -> [state : {"none", "open", "object"}, bytes : PathBodies]]
      BY <1>0, <1>c, <2>3, StagingTyped DEF RecordsTyped
    <3>3. RecordsTyped'
      BY <1>0, <2>1, <2>3, <3>1, <3>2 DEF RecordsTyped, Refuse
    <3> QED
      BY <2>3, <3>3, RefuseTyped
  <2> QED
    BY <1>5, <2>2, <2>3 DEF Preserve
<1>6. CASE PutCanonical(n)
  <2> DEFINE pc == IF n = Carried THEN "upsert" ELSE "drop"
             R(landed) == Result(pc, finish[n].rev, finish[n].old, finish[n].body, finish[n].found, landed, finish[n].late)
  <2>1. PICK landed \in BOOLEAN : Becomes(n, R(landed)) /\ R(landed) \in PathRequests
                                  /\ (canonical' = finish[n].rev \/ canonical' = canonical)
    BY <1>6, PutCanonicalDoes
  <2>2. R(landed).pc = pc
    BY DEF Result
  <2>3. RecordsTyped'
    BY <1>0, <1>6, <2>1, FieldsTyped DEF RecordsTyped, PutCanonical
  <2>4. UNCHANGED upload
    BY <1>6 DEF PutCanonical
  <2> HIDE DEF R
  <2> QED
    BY <2>1, <2>2, <2>3, <2>4, UploadStays, ServeTyped, PathContents DEF CompletePcs, BeforePut, PutPcs
<1>7. CASE DropStaging(n)
  <2>1. finish[n].pc = "drop" /\ n \in Nonces /\ n # Carried
    BY <1>7, <1>b, <1>c, PathContents DEF DropStaging, At, PutPcs
  <2>2. UNCHANGED <<version, hubState, mplan>>
    BY <1>7 DEF DropStaging
  <2>3. mfaults' \subseteq mplan.faults
    BY <1>0, <1>7, FaultsTyped DEF DropStaging, MultipartFaults
  <2>4. staging' \in [Nonces -> [state : {"none", "open", "object"}, bytes : PathBodies]]
    BY <1>0, <1>7, <2>1, StagingTyped DEF DropStaging, RecordsTyped
  <2>5. CASE finish[n].landed
    <3>1. Goto(n, "upsert")
      BY <1>7, <2>5 DEF DropStaging
    <3>2. RecordsTyped'
      BY <1>0, <2>2, <2>3, <2>4, <3>1 DEF RecordsTyped, Goto
    <3> QED
      BY <2>1, <3>1, <3>2, GotoTyped DEF CompletePcs
  <2>6. CASE ~finish[n].landed
    <3>1. Refuse(n)
      BY <1>7, <2>6 DEF DropStaging
    <3>2. RecordsTyped'
      BY <1>0, <2>2, <2>3, <2>4, <3>1 DEF RecordsTyped, Refuse
    <3> QED
      BY <3>1, <3>2, RefuseTyped
  <2> QED
    BY <2>5, <2>6
<1>8. CASE Upsert(n)
  <2>1. PICK pc \in {"row", "observe", "flip"} :
          Goto(n, pc) /\ (n = Carried => pc = "row") /\ (n # Carried => pc \in {"observe", "flip"})
    BY <1>8 DEF Upsert
  <2>2. RecordsTyped'
    BY <1>0, <1>8, <2>1, FreshTyped, FieldsTyped DEF RecordsTyped, Upsert, Goto
  <2> QED
    BY <2>1, <2>2, GotoTyped, PathContents DEF CompletePcs, PutPcs
<1>9. CASE Flip(n)
  <2>1. PICK pc \in {"send", "observe"} : Goto(n, pc) /\ (n = Carried => pc = "send")
    BY <1>9 DEF Flip
  <2>2. RecordsTyped'
    BY <1>0, <1>9, <2>1, FlippedTyped DEF RecordsTyped, Flip, Goto
  <2> QED
    BY <2>1, <2>2, GotoTyped, PathContents DEF CompletePcs, PutPcs
<1>10. CASE PutRow(n) \/ PutHead(n)
  <2>1. n = Carried /\ n \notin Nonces
    BY <1>10, <1>a, <1>c, PathContents DEF PutRow, PutHead, At, CompletePcs, BeforePut
  <2>2. PICK pc \in {"head", "again", "send", "flip"} : Goto(n, pc)
    BY <1>10 DEF PutRow, PutHead
  <2>3. RecordsTyped'
    BY <1>0, <1>10, <2>2 DEF RecordsTyped, PutRow, PutHead, Goto
  <2> QED
    BY <2>1, <2>2, <2>3, GotoTyped DEF PutPcs
<1>11. CASE PutAgain(n)
  <2> DEFINE pc == IF mplan.other THEN "send" ELSE "flip"
             R(late) == Result(pc, finish[n].rev, finish[n].old, finish[n].body, finish[n].found, finish[n].landed, late)
  <2>1. n = Carried /\ n \notin Nonces
    BY <1>11, <1>a, <1>c, PathContents DEF PutAgain, At, CompletePcs, BeforePut
  <2>2. PICK late \in BOOLEAN : Becomes(n, R(late)) /\ R(late) \in PathRequests /\ canonical' = finish[n].body
    BY <1>11, PutAgainDoes
  <2>3. R(late).pc = pc
    BY DEF Result
  <2>4. UNCHANGED <<upload, version, sent, staging, displaced, fileRow, indexState, stored, mplan, mfaults>>
    BY <1>11 DEF PutAgain
  <2>5. finish[n].body \in PathRevisions
    <3>1. finish[n].pc = "again"
      BY <1>11 DEF PutAgain, At
    <3>2. finish[n].body = mplan.carried
      BY <2>1, <3>1 DEF RequestsTrue, RequestTrue, Serving
    <3> QED
      BY <1>0, <3>2, PlanTyped DEF RecordsTyped
  <2>6. RecordsTyped'
    BY <1>0, <2>2, <2>4, <2>5 DEF RecordsTyped
  <2> HIDE DEF R
  <2> QED
    BY <2>1, <2>2, <2>3, <2>4, <2>6, UploadStays, ServeTyped DEF PutPcs
<1>12. CASE Observe(n)
  <2>1. PICK pc \in {"compare", "send"} : Goto(n, pc)
    BY <1>12 DEF Observe
  <2>2. finish[n].pc = "observe"
    BY <1>12 DEF Observe, At
  <2>3. RecordsTyped'
    BY <1>0, <1>12, <2>1 DEF RecordsTyped, Observe, Goto
  <2> QED
    BY <1>b, <2>1, <2>2, <2>3, GotoTyped DEF CompletePcs, PutPcs
<1>13. CASE Compare(n)
  <2> DEFINE pc == IF canonical \in {Nothing, finish[n].rev} THEN "send" ELSE "realign"
             r == Result(pc, finish[n].rev, finish[n].old, finish[n].body, canonical, finish[n].landed, finish[n].late)
  <2>1. Becomes(n, r) /\ r \in PathRequests /\ finish[n].pc = "compare"
    BY <1>13, CompareDoes
  <2>2. r.pc = pc
    BY DEF Result
  <2>3. n # Carried
    BY <1>b, <2>1 DEF PutPcs
  <2>4. RecordsTyped' /\ UNCHANGED upload
    BY <1>0, <1>13, SameRecords, FaultsTyped DEF Compare
  <2> HIDE DEF r
  <2> QED
    BY <2>1, <2>2, <2>3, <2>4, UploadStays, ServeTyped DEF CompletePcs
<1>14. CASE Realign(n)
  <2>1. finish[n].pc = "realign" /\ n # Carried
    BY <1>14, <1>b DEF Realign, At, PutPcs
  <2>2. UNCHANGED <<version, staging, canonical, displaced, indexState, mplan, mfaults>>
    BY <1>14 DEF Realign
  <2>3. CASE Respond(n) /\ fileRow' = Fresh(finish[n].found)
    <3>1. RecordsTyped'
      BY <1>0, <2>2, <2>3, FreshTyped, FieldsTyped, RespondSent DEF RecordsTyped
    <3> QED
      BY <2>3, <3>1, RespondTyped
  <2>4. CASE \E pc \in {"reflip", "send"} : Goto(n, pc) /\ UNCHANGED stored /\ fileRow' \in {fileRow, Fresh(finish[n].found)}
    <3>1. RecordsTyped'
      BY <1>0, <2>2, <2>4, FreshTyped, FieldsTyped DEF RecordsTyped, Goto
    <3> QED
      BY <2>1, <2>4, <3>1, GotoTyped DEF CompletePcs
  <2> QED
    BY <1>14, <2>3, <2>4 DEF Realign
<1>15. CASE Reflip(n)
  <2>1. finish[n].pc = "reflip" /\ n # Carried /\ Goto(n, "resend")
    BY <1>15, <1>b DEF Reflip, At, PutPcs
  <2>2. RecordsTyped'
    BY <1>0, <1>15, <2>1, FlippedTyped DEF RecordsTyped, Reflip, Goto
  <2> QED
    BY <2>1, <2>2, GotoTyped DEF CompletePcs
<1>16. CASE Resend(n)
  <2>1. RecordsTyped'
    BY <1>0, <1>16, FieldsTyped, RespondSent DEF RecordsTyped, Resend
  <2> QED
    BY <1>16, <2>1, RespondTyped DEF Resend
<1>17. CASE Send(n)
  <2>1. RecordsTyped'
    BY <1>0, <1>17, FieldsTyped, RespondSent DEF RecordsTyped, Send
  <2> QED
    BY <1>17, <2>1, RespondTyped DEF Send
<1>18. CASE Die(n)
  <2>1. mfaults' \subseteq mplan.faults
    BY <1>0, <1>18, StrikesTyped DEF Die
  <2>2. RecordsTyped'
    BY <1>0, <1>18, <2>1 DEF RecordsTyped, Die, Refuse
  <2> QED
    BY <1>18, <2>2, RefuseTyped DEF Die
<1> QED
  BY <1>1, <1>2, <1>3, <1>4, <1>5, <1>6, <1>7, <1>8, <1>9, <1>10, <1>11, <1>12, <1>13, <1>14, <1>15, <1>16, <1>17, <1>18
     DEF ServeUpload

LEMMA ParseTypes ==
  ASSUME PathTyped, PlacesTrue,
         ParseStep \/ \E n \in Nonces : Expire(n) \/ Prune(n)
  PROVE  PathTyped' /\ PlacesTrue'
<1> USE DEF hubState
<1>0. RecordsTyped /\ UploadTyped(upload)
  BY DEF PathTyped
<1>1. CASE \E m \in parses : TakeParse(m)
  <2>1. PICK m \in parses : TakeParse(m)
    BY <1>1
  <2>2. m \in PathRevisions /\ canonical \in PathRevisions
    BY <1>0 DEF RecordsTyped
  <2>3. RecordsTyped'
    BY <1>0, <2>1, <2>2 DEF RecordsTyped, TakeParse
  <2> QED
    BY <2>1, <2>3, UploadStays, BesideTyped DEF TakeParse
<1>2. CASE Publish
  <2>1. RecordsTyped'
    BY <1>0, <1>2, PathContents DEF RecordsTyped, Publish, NotParsing
  <2> QED
    BY <1>2, <2>1, UploadStays, BesideTyped DEF Publish
<1>3. CASE \E n \in Nonces : Expire(n) \/ Prune(n)
  <2>1. PICK n \in Nonces : Expire(n) \/ Prune(n)
    BY <1>3
  <2>2. staging' \in [Nonces -> [state : {"none", "open", "object"}, bytes : PathBodies]]
    BY <2>1, StagingTyped DEF Expire, Prune
  <2>3. RecordsTyped'
    BY <1>0, <2>1, <2>2 DEF RecordsTyped, Expire, Prune
  <2> QED
    BY <2>1, <2>3, UploadStays, BesideTyped DEF Expire, Prune
<1> QED
  BY <1>1, <1>2, <1>3 DEF ParseStep
-----------------------------------------------------------------------------
(* What a step of a request leaves, field by field.                         *)
OthersStay(n) == \A m \in Requests : m # n => finish'[m] = finish[m]

Moves(n, pc, old, body, found, landed, late) ==
  /\ OthersStay(n)
  /\ finish'[n].pc = pc /\ finish'[n].rev = finish[n].rev /\ finish'[n].old = old /\ finish'[n].body = body
  /\ finish'[n].found = found /\ finish'[n].landed = landed /\ finish'[n].late = late

MovesTo(n, pc) ==
  Moves(n, pc, finish[n].old, finish[n].body, finish[n].found, finish[n].landed, finish[n].late)

Ends(n) ==
  /\ OthersStay(n)
  /\ finish'[n].pc = (IF n = Carried THEN "done" ELSE "idle") /\ finish'[n].landed = FALSE
  /\ finish'[n].late = (IF n = Carried THEN finish[n].late ELSE FALSE)

(* What a request does to the collector's upload.                           *)
UploadFollows(n) ==
  \/ upload' = upload /\ ~Awaited(n)
  \/ Awaited(n) /\ upload'.pc = "idle"
  \/ Awaited(n) /\ upload'.pc = "abort" /\ upload'.rev = upload.rev

LEMMA KeepsMoves ==
  ASSUME PathTyped, NEW n \in Requests, NEW pc, NEW old, NEW body, NEW found, NEW landed, NEW late,
         Becomes(n, Result(pc, finish[n].rev, old, body, found, landed, late)),
         Result(pc, finish[n].rev, old, body, found, landed, late) \in PathRequests
  PROVE  Moves(n, pc, old, body, found, landed, late)
<1> DEFINE r == Result(pc, finish[n].rev, old, body, found, landed, late)
<1>1. r.pc = pc /\ r.rev = finish[n].rev /\ r.old = old /\ r.body = body /\ r.found = found
      /\ r.landed = landed /\ r.late = late
  BY DEF Result
<1> HIDE DEF r
<1>2. Keeps(n, r)
  BY BecomesTyped DEF r
<1> QED
  BY <1>1, <1>2 DEF Keeps, Moves, OthersStay

LEMMA GotoMoves ==
  ASSUME PathTyped, NEW n \in Requests, NEW pc \in RequestPcs, Goto(n, pc)
  PROVE  MovesTo(n, pc) /\ upload' = upload /\ sent' = sent
<1>1. Becomes(n, Left(n, pc)) /\ Left(n, pc) \in PathRequests /\ upload' = upload /\ sent' = sent
  BY GotoLeft, LeftTyped
<1> QED
  BY <1>1, KeepsMoves DEF Left, MovesTo

LEMMA EndedEnds ==
  ASSUME PathTyped, NEW n \in Requests, Becomes(n, Ended(n))
  PROVE  Ends(n)
<1>1. Keeps(n, Ended(n))
  BY ClosedEnded, BecomesTyped
<1>2. Ended(n).late = (IF n = Carried THEN finish[n].late ELSE FALSE) /\ Ended(n).landed = FALSE
      /\ Ended(n).pc = (IF n = Carried THEN "done" ELSE "idle")
  BY DEF Ended, Result, Finished
<1> QED
  BY <1>1, <1>2 DEF Keeps, Ends, OthersStay

LEMMA RefuseFollows ==
  ASSUME PathTyped, NEW n \in Requests, Refuse(n)
  PROVE  Ends(n) /\ UploadFollows(n)
BY RefuseEnds, EndedEnds DEF UploadFollows

LEMMA RespondFollows ==
  ASSUME PathTyped, NEW n \in Requests, Respond(n)
  PROVE  Ends(n) /\ UploadFollows(n) /\ stored' = stored \cup {finish[n].rev}
BY RespondEnds, EndedEnds DEF UploadFollows

LEMMA SeenTyped ==
  ASSUME PathTyped
  PROVE  Seen \subseteq Contents /\ PathRevs \subseteq PathRevisions
BY PlanTyped DEF PathTyped, RecordsTyped, Seen, PathRevs, PathRevisions

LEMMA SeenStays ==
  ASSUME UNCHANGED <<version, mplan>>
  PROVE  Seen' = Seen /\ PathRevs' = PathRevs
BY DEF Seen, PathRevs

LEMMA ServingRev ==
  ASSUME PathBase, NEW n \in Requests, Serving(n)
  PROVE  finish[n].rev \in Contents /\ finish[n].rev \in PathRevs
<1>1. CASE n \in Nonces
  <2>1. finish[n].rev \in Seen
    BY <1>1 DEF PathBase, RequestsTrue, RequestTrue
  <2> QED
    BY <2>1, SeenTyped DEF PathBase, PathRevs
<1>2. CASE n = Carried
  <2>1. finish[n].rev = mplan.carried /\ mplan.carried # Nothing
    BY <1>2 DEF PathBase, RequestsTrue, RequestTrue, Serving
  <2>2. mplan.carried \in PathRevisions
    BY PlanTyped DEF PathBase, PathTyped, RecordsTyped
  <2> QED
    BY <2>1, <2>2 DEF PathRevs, PathRevisions
<1> QED
  BY <1>1, <1>2 DEF Requests

LEMMA RequestStays ==
  ASSUME NEW n, RequestTrue(n), finish'[n] = finish[n], Seen \subseteq Seen', mplan' = mplan,
         canonical # Nothing => canonical' # Nothing
  PROVE  RequestTrue(n)'
BY DEF RequestTrue, Serving

LEMMA RequestsMove ==
  ASSUME RequestsTrue, NEW n \in Requests, OthersStay(n), UNCHANGED <<version, mplan>>,
         canonical # Nothing => canonical' # Nothing, RequestTrue(n)'
  PROVE  RequestsTrue'
BY SeenStays, RequestStays DEF RequestsTrue, OthersStay, Requests

LEMMA RequestsStay ==
  ASSUME RequestsTrue, UNCHANGED <<finish, mplan, canonical>>, Seen \subseteq Seen'
  PROVE  RequestsTrue'
BY RequestStays DEF RequestsTrue, Requests

LEMMA EndsTrue ==
  ASSUME PathBase, NEW n \in Requests, Ends(n), finish[n].pc # "idle" \/ n # Carried, mplan' = mplan
  PROVE  RequestTrue(n)'
<1>1. CASE n = Carried
  <2>1. mplan.carried # Nothing
    BY <1>1 DEF PathBase, RequestsTrue, RequestTrue
  <2> QED
    BY <1>1, <2>1, PathContents DEF Ends, RequestTrue, Serving, BeforePut, AfterPut
<1>2. CASE n # Carried
  BY <1>2 DEF Ends, RequestTrue, Serving, BeforePut, AfterPut
<1> QED
  BY <1>1, <1>2

LEMMA RecordsFollow ==
  ASSUME PathBase, NEW n \in Requests, Serving(n), OthersStay(n), UNCHANGED <<version, mplan, parse>>,
         upload' = upload \/ UploadFollows(n), canonical' \in PathRevs,
         displaced' \subseteq Contents, parses' \subseteq Contents, stored' \subseteq Contents
  PROVE  RecordsTrue'
<1>1. Seen' = Seen /\ PathRevs' = PathRevs
  BY SeenStays
<1>2. upload'.pc # "idle" => upload'.rev \in Seen
  BY DEF PathBase, RecordsTrue, UploadFollows, Awaited
<1>3. ASSUME upload'.pc = "part"
      PROVE  ~Serving(upload.n)' 
  <2>1. upload' = upload /\ upload.pc = "part"
    BY <1>3 DEF UploadFollows
  <2>2. ~Serving(upload.n) /\ upload.n \in Requests
    BY <2>1 DEF PathBase, RecordsTrue, PathTyped, UploadTyped
  <2> QED
    BY <2>1, <2>2 DEF OthersStay, Serving
<1> QED
  BY <1>1, <1>2, <1>3 DEF RecordsTrue, PathBase
-----------------------------------------------------------------------------
(* The steps of a request, by what they leave.                              *)
HubStays == UNCHANGED <<canonical, fileRow, derived, parses, parse, stored>>

(* Before the write of the raw object.                                      *)
LEMMA LookMoves ==
  ASSUME PathTyped, NEW n \in Requests, Look(n)
  PROVE  /\ finish[n].pc = "look"
         /\ Moves(n, IF n = Carried THEN "extends" ELSE "assemble", fileRow.hash, finish[n].body, finish[n].found,
                  finish[n].landed, finish[n].late)
         /\ HubStays /\ UNCHANGED <<version, mplan, mfaults, upload, displaced, staging>>
<1>1. HubStays /\ UNCHANGED <<version, mplan, mfaults, upload, displaced, staging>>
  BY DEF Look, hubState, HubStays
<1> QED
  BY <1>1, LookDoes, KeepsMoves

LEMMA AssembleMoves ==
  ASSUME PathTyped, NEW n \in Requests, Assemble(n)
  PROVE  /\ finish[n].pc = "assemble" /\ HubStays /\ UNCHANGED <<version, mplan, displaced>>
         /\ \/ MovesTo(n, "get") /\ UNCHANGED <<upload, mfaults>>
            \/ Ends(n) /\ UploadFollows(n) /\ (UNCHANGED mfaults \/ Strikes("refuse"))
<1>1. finish[n].pc = "assemble" /\ HubStays /\ UNCHANGED <<version, mplan, displaced>>
  BY DEF Assemble, At, hubState, HubStays
<1>2. "get" \in RequestPcs
  BY DEF RequestPcs, BeforePut
<1> QED
  BY <1>1, <1>2, GotoMoves, RefuseFollows DEF Assemble

LEMMA GetStagedMoves ==
  ASSUME PathTyped, NEW n \in Nonces, GetStaged(n)
  PROVE  /\ finish[n].pc = "get" /\ HubStays /\ UNCHANGED <<version, mplan, mfaults, displaced>>
         /\ \/ \E body \in PathBodies : Moves(n, "extends", finish[n].old, body, finish[n].found, finish[n].landed, finish[n].late)
                                        /\ UNCHANGED upload
            \/ Ends(n) /\ UploadFollows(n)
<1>1. finish[n].pc = "get" /\ HubStays /\ UNCHANGED <<version, mplan, mfaults, displaced>> /\ n \in Requests
  BY DEF GetStaged, At, hubState, HubStays, Requests
<1>2. staging[n].bytes \in PathBodies
  BY DEF PathTyped, RecordsTyped
<1> QED
  BY <1>1, <1>2, GetStagedDoes, KeepsMoves, RefuseFollows

LEMMA CheckExtendsMoves ==
  ASSUME PathTyped, NEW n \in Requests, CheckExtends(n)
  PROVE  /\ finish[n].pc = "extends" /\ HubStays /\ UNCHANGED <<version, mplan, mfaults, upload, displaced>>
         /\ \/ MovesTo(n, "preserve")
            \/ MovesTo(n, "put") /\ ~Displaces(n)
<1>1. finish[n].pc = "extends" /\ HubStays /\ UNCHANGED <<version, mplan, mfaults, displaced>>
  BY DEF CheckExtends, At, hubState, HubStays
<1>2. {"preserve", "put"} \subseteq RequestPcs
  BY DEF RequestPcs, BeforePut
<1> QED
  BY <1>1, <1>2, GotoMoves DEF CheckExtends

LEMMA PreserveMoves ==
  ASSUME PathTyped, NEW n \in Requests, Preserve(n)
  PROVE  /\ finish[n].pc = "preserve" /\ HubStays /\ UNCHANGED <<version, mplan>>
         /\ \/ /\ displaced' = displaced \cup ({Predecessor(n)} \ {Nothing})
               /\ MovesTo(n, "put") /\ UNCHANGED <<upload, mfaults>>
            \/ Ends(n) /\ UploadFollows(n) /\ Strikes("refuse") /\ UNCHANGED displaced
<1>1. finish[n].pc = "preserve" /\ HubStays /\ UNCHANGED <<version, mplan>>
  BY DEF Preserve, At, indexState, HubStays
<1>2. "put" \in RequestPcs
  BY DEF RequestPcs, BeforePut
<1> QED
  BY <1>1, <1>2, GotoMoves, RefuseFollows DEF Preserve

LEMMA PutMoves ==
  ASSUME PathTyped, NEW n \in Requests, PutCanonical(n)
  PROVE  /\ finish[n].pc = "put"
         /\ UNCHANGED <<version, mplan, mfaults, upload, displaced, fileRow, derived, parses, parse, stored>>
         /\ \E landed \in BOOLEAN :
              /\ Moves(n, IF n = Carried THEN "upsert" ELSE "drop", finish[n].old, finish[n].body, finish[n].found, landed,
                       finish[n].late)
              /\ landed => finish[n].body = finish[n].rev /\ canonical' = finish[n].rev
              /\ ~landed => finish[n].body # finish[n].rev /\ canonical' = canonical
<1>1. UNCHANGED <<version, mplan, mfaults, upload, displaced, fileRow, derived, parses, parse, stored>>
  BY DEF PutCanonical, indexState
<1> QED
  BY <1>1, PutCanonicalDoes, KeepsMoves

LEMMA DropMoves ==
  ASSUME PathTyped, NEW n \in Requests, DropStaging(n)
  PROVE  /\ finish[n].pc = "drop" /\ HubStays /\ UNCHANGED <<version, mplan, displaced>>
         /\ UNCHANGED mfaults \/ Strikes("refuse")
         /\ \/ finish[n].landed /\ MovesTo(n, "upsert") /\ UNCHANGED upload
            \/ ~finish[n].landed /\ Ends(n) /\ UploadFollows(n)
<1>1. finish[n].pc = "drop" /\ HubStays /\ UNCHANGED <<version, mplan, displaced>> /\ (UNCHANGED mfaults \/ Strikes("refuse"))
  BY DEF DropStaging, At, hubState, HubStays
<1>2. "upsert" \in RequestPcs
  BY DEF RequestPcs, AfterPut
<1>3. CASE finish[n].landed
  <2>1. Goto(n, "upsert")
    BY <1>3 DEF DropStaging
  <2> QED
    BY <1>1, <1>2, <1>3, <2>1, GotoMoves
<1>4. CASE ~finish[n].landed
  <2>1. Refuse(n)
    BY <1>4 DEF DropStaging
  <2> QED
    BY <1>1, <1>4, <2>1, RefuseFollows
<1> QED
  BY <1>3, <1>4

(* After it.                                                                *)
LEMMA UpsertMoves ==
  ASSUME PathTyped, NEW n \in Requests, Upsert(n)
  PROVE  /\ finish[n].pc = "upsert"
         /\ UNCHANGED <<version, mplan, mfaults, upload, canonical, displaced, derived, parses, parse, stored>>
         /\ fileRow'.hash = finish[n].rev
         /\ \/ n = Carried /\ MovesTo(n, "row")
            \/ n # Carried /\ MovesTo(n, "flip")
            \/ n # Carried /\ MovesTo(n, "observe") /\ mplan.other
<1>1. /\ finish[n].pc = "upsert"
      /\ UNCHANGED <<version, mplan, mfaults, canonical, displaced, derived, parses, parse, stored>>
      /\ fileRow' = Fresh(finish[n].rev)
  BY DEF Upsert, At, indexState
<1>2. {"row", "flip", "observe"} \subseteq RequestPcs
  BY DEF RequestPcs, AfterPut
<1>3. fileRow'.hash = finish[n].rev
  BY <1>1 DEF Fresh
<1>4. CASE n = Carried
  BY <1>1, <1>2, <1>3, <1>4, GotoMoves DEF Upsert
<1>5. CASE n # Carried /\ mplan.other
  BY <1>1, <1>2, <1>3, <1>5, GotoMoves DEF Upsert
<1>6. CASE n # Carried /\ ~mplan.other
  BY <1>1, <1>2, <1>3, <1>6, GotoMoves DEF Upsert
<1> QED
  BY <1>4, <1>5, <1>6

LEMMA FlipMoves ==
  ASSUME PathTyped, NEW n \in Requests, Flip(n)
  PROVE  /\ finish[n].pc = "flip"
         /\ UNCHANGED <<version, mplan, mfaults, upload, canonical, displaced, fileRow, parses, parse, stored>>
         /\ derived' = Flipped(finish[n].rev)
         /\ \/ n = Carried /\ MovesTo(n, "send")
            \/ n # Carried /\ MovesTo(n, "observe")
<1>1. {"send", "observe"} \subseteq RequestPcs
  BY DEF RequestPcs, AfterPut
<1> QED
  BY <1>1, GotoMoves DEF Flip, At

LEMMA PutRowMoves ==
  ASSUME PathTyped, NEW n \in Requests, PutRow(n)
  PROVE  /\ finish[n].pc = "row" /\ HubStays
         /\ UNCHANGED <<version, mplan, mfaults, upload, displaced>>
         /\ \/ fileRow.hash = finish[n].rev /\ MovesTo(n, "head")
            \/ fileRow.hash # finish[n].rev /\ (MovesTo(n, "send") \/ MovesTo(n, "flip"))
<1>1. {"head", "send", "flip"} \subseteq RequestPcs
  BY DEF RequestPcs, AfterPut
<1> QED
  BY <1>1, GotoMoves DEF PutRow, At, hubState, HubStays

LEMMA PutHeadMoves ==
  ASSUME PathTyped, NEW n \in Requests, PutHead(n)
  PROVE  /\ finish[n].pc = "head" /\ HubStays
         /\ UNCHANGED <<version, mplan, mfaults, upload, displaced>>
         /\ \/ canonical # finish[n].rev /\ MovesTo(n, "again")
            \/ canonical = finish[n].rev /\ (MovesTo(n, "send") \/ MovesTo(n, "flip"))
<1>1. {"again", "send", "flip"} \subseteq RequestPcs
  BY DEF RequestPcs, AfterPut
<1> QED
  BY <1>1, GotoMoves DEF PutHead, At, hubState, HubStays

LEMMA PutAgainMoves ==
  ASSUME PathTyped, NEW n \in Requests, PutAgain(n)
  PROVE  /\ finish[n].pc = "again" /\ canonical' = finish[n].body
         /\ UNCHANGED <<version, mplan, mfaults, upload, displaced, fileRow, derived, parses, parse, stored>>
         /\ \E late \in BOOLEAN :
              /\ late \/ fileRow.hash = finish[n].rev
              /\ \/ Moves(n, "send", finish[n].old, finish[n].body, finish[n].found, finish[n].landed, late)
                 \/ Moves(n, "flip", finish[n].old, finish[n].body, finish[n].found, finish[n].landed, late)
<1>1. UNCHANGED <<version, mplan, mfaults, upload, displaced, fileRow, derived, parses, parse, stored>>
  BY DEF PutAgain, indexState
<1> QED
  BY <1>1, PutAgainDoes, KeepsMoves

LEMMA ObserveMoves ==
  ASSUME PathTyped, NEW n \in Requests, Observe(n)
  PROVE  /\ finish[n].pc = "observe" /\ HubStays
         /\ UNCHANGED <<version, mplan, mfaults, upload, displaced>>
         /\ \/ fileRow.hash = finish[n].rev /\ MovesTo(n, "compare")
            \/ fileRow.hash # finish[n].rev /\ MovesTo(n, "send")
<1>1. {"compare", "send"} \subseteq RequestPcs
  BY DEF RequestPcs, AfterPut
<1> QED
  BY <1>1, GotoMoves DEF Observe, At, hubState, HubStays

LEMMA CompareMoves ==
  ASSUME PathTyped, NEW n \in Requests, Compare(n)
  PROVE  /\ finish[n].pc = "compare" /\ HubStays
         /\ UNCHANGED <<version, mplan, mfaults, upload, displaced>>
         /\ \/ /\ canonical \in {Nothing, finish[n].rev}
               /\ Moves(n, "send", finish[n].old, finish[n].body, canonical, finish[n].landed, finish[n].late)
            \/ /\ canonical \notin {Nothing, finish[n].rev}
               /\ Moves(n, "realign", finish[n].old, finish[n].body, canonical, finish[n].landed, finish[n].late)
<1>1. HubStays /\ UNCHANGED <<version, mplan, mfaults, upload, displaced>>
  BY DEF Compare, hubState, HubStays
<1> QED
  BY <1>1, CompareDoes, KeepsMoves

LEMMA RealignMoves ==
  ASSUME PathTyped, NEW n \in Requests, Realign(n)
  PROVE  /\ finish[n].pc = "realign"
         /\ UNCHANGED <<version, mplan, mfaults, canonical, displaced, derived, parses, parse>>
         /\ \/ /\ fileRow.hash = finish[n].rev /\ fileRow'.hash = finish[n].found /\ mplan.other
               /\ Ends(n) /\ UploadFollows(n) /\ stored' = stored \cup {finish[n].rev}
            \/ /\ fileRow.hash = finish[n].rev /\ fileRow'.hash = finish[n].found
               /\ MovesTo(n, "reflip") /\ UNCHANGED <<upload, stored>>
            \/ fileRow.hash # finish[n].rev /\ UNCHANGED fileRow /\ MovesTo(n, "send") /\ UNCHANGED <<upload, stored>>
<1>1. /\ finish[n].pc = "realign"
      /\ UNCHANGED <<version, mplan, mfaults, canonical, displaced, derived, parses, parse>>
  BY DEF Realign, At, indexState
<1>2. {"reflip", "send"} \subseteq RequestPcs
  BY DEF RequestPcs, AfterPut
<1>3. CASE fileRow.hash = finish[n].rev
  <2>1. fileRow' = Fresh(finish[n].found) /\ (IF mplan.other THEN Respond(n) ELSE Goto(n, "reflip") /\ UNCHANGED stored)
    BY <1>3 DEF Realign, Realignable
  <2>2. fileRow'.hash = finish[n].found
    BY <2>1 DEF Fresh
  <2>3. CASE mplan.other
    BY <1>1, <1>3, <2>1, <2>2, <2>3, RespondFollows
  <2>4. CASE ~mplan.other
    BY <1>1, <1>2, <1>3, <2>1, <2>2, <2>4, GotoMoves
  <2> QED
    BY <2>3, <2>4
<1>4. CASE fileRow.hash # finish[n].rev
  <2>1. Goto(n, "send") /\ UNCHANGED <<fileRow, stored>>
    BY <1>4 DEF Realign, Realignable
  <2> QED
    BY <1>1, <1>2, <1>4, <2>1, GotoMoves
<1> QED
  BY <1>3, <1>4

LEMMA ReflipMoves ==
  ASSUME PathTyped, NEW n \in Requests, Reflip(n)
  PROVE  /\ finish[n].pc = "reflip" /\ MovesTo(n, "resend") /\ derived' = Flipped(finish[n].found)
         /\ UNCHANGED <<version, mplan, mfaults, upload, canonical, displaced, fileRow, parses, parse, stored>>
<1>1. "resend" \in RequestPcs
  BY DEF RequestPcs, AfterPut
<1> QED
  BY <1>1, GotoMoves DEF Reflip, At

LEMMA ResendMoves ==
  ASSUME PathTyped, NEW n \in Requests, Resend(n)
  PROVE  /\ finish[n].pc = "resend" /\ Ends(n) /\ UploadFollows(n) /\ stored' = stored \cup {finish[n].rev}
         /\ parses' = parses \cup {finish[n].found}
         /\ UNCHANGED <<version, mplan, mfaults, canonical, displaced, fileRow, derived, parse>>
BY RespondFollows DEF Resend, At

LEMMA SendMoves ==
  ASSUME PathTyped, NEW n \in Requests, Send(n)
  PROVE  /\ finish[n].pc = "send" /\ Ends(n) /\ UploadFollows(n) /\ stored' = stored \cup {finish[n].rev}
         /\ parses' = parses \/ parses' = parses \cup {finish[n].rev}
         /\ ~mplan.other => parses' = parses \cup {finish[n].rev}
         /\ UNCHANGED <<version, mplan, mfaults, canonical, displaced, fileRow, derived, parse>>
BY RespondFollows DEF Send, At

LEMMA DieMoves ==
  ASSUME PathTyped, NEW n \in Requests, Die(n)
  PROVE  /\ Serving(n) /\ Ends(n) /\ UploadFollows(n) /\ HubStays /\ Strikes("crash")
         /\ UNCHANGED <<version, mplan, displaced>>
BY RefuseFollows DEF Die, Serving, hubState, HubStays
-----------------------------------------------------------------------------
(* Requests and records stay true.                                          *)
LEMMA StagedIsComplete ==
  ASSUME PlacesTrue, NEW n \in Requests, finish[n].pc \in {"assemble", "get", "drop", "observe", "compare", "realign", "reflip", "resend"}
  PROVE  n \in Nonces /\ n # Carried
BY PathContents DEF PlacesTrue, PutPcs, Requests

LEMMA CarriedOnly ==
  ASSUME PlacesTrue, NEW n \in Requests, finish[n].pc \in {"row", "head", "again"}
  PROVE  n = Carried /\ n \notin Nonces
BY PathContents DEF PlacesTrue, CompletePcs, BeforePut, Requests

(* A request that goes from one call to the next.                           *)
SoundMove(n, pc, body, found, late) ==
  /\ Serving(n) /\ pc \notin {"idle", "done"} /\ late \in BOOLEAN
  /\ finish[n].landed \/ n = Carried => body = finish[n].body
  /\ pc \in BeforePut => finish[n].pc \in BeforePut
  /\ pc \in AfterPut => finish[n].landed
  /\ pc = "realign" => found \notin {finish[n].rev, Nothing}
  /\ pc \in {"reflip", "resend"} => found # Nothing
  /\ n \in Nonces => late = finish[n].late

LEMMA MovesTrue ==
  ASSUME PathBase, NEW n \in Requests, NEW pc, NEW old, NEW body, NEW found, NEW late,
         Moves(n, pc, old, body, found, finish[n].landed, late), SoundMove(n, pc, body, found, late),
         UNCHANGED <<version, mplan>>, canonical # Nothing => canonical' # Nothing
  PROVE  RequestsTrue'
<1>1. RequestTrue(n) /\ RequestsTrue
  BY DEF PathBase, RequestsTrue
<1>2. Seen' = Seen
  BY SeenStays
<1>3. RequestTrue(n)'
  BY <1>1, <1>2 DEF RequestTrue, Moves, SoundMove, Serving, BeforePut, AfterPut
<1> QED
  BY <1>1, <1>3, RequestsMove DEF Moves

LEMMA ServeBase ==
  ASSUME PathBase, NEW n \in Requests, ServeUpload(n) \/ Die(n)
  PROVE  RequestsTrue' /\ RecordsTrue' /\ UNCHANGED <<version, mplan>>
<1>0. PathTyped /\ PlacesTrue /\ RequestsTrue /\ RecordsTrue /\ RequestTrue(n) /\ finish[n].late \in BOOLEAN
  BY FieldsTyped DEF PathBase, RequestsTrue
<1>1. CASE Look(n) \/ Assemble(n) \/ GetStaged(n) \/ CheckExtends(n) \/ Preserve(n)
  <2>1. CASE /\ finish[n].pc \in BeforePut /\ HubStays /\ UNCHANGED <<version, mplan>>
             /\ Ends(n) /\ UploadFollows(n) /\ displaced' \subseteq Contents
    <3>1. RequestsTrue'
      BY <1>0, <2>1, EndsTrue, RequestsMove DEF Ends, HubStays, BeforePut
    <3> QED
      BY <1>0, <2>1, <3>1, RecordsFollow DEF Ends, HubStays, RecordsTrue, BeforePut, Serving
  <2>2. ASSUME finish[n].pc \in BeforePut, HubStays, UNCHANGED <<version, mplan, upload>>, displaced' \subseteq Contents,
               NEW pc \in BeforePut, NEW old, NEW body,
               Moves(n, pc, old, body, finish[n].found, finish[n].landed, finish[n].late), n = Carried => body = finish[n].body
        PROVE  RequestsTrue' /\ RecordsTrue'
    <3>1. SoundMove(n, pc, body, finish[n].found, finish[n].late)
      BY <1>0, <2>2 DEF SoundMove, Serving, RequestTrue, BeforePut, AfterPut
    <3>2. UNCHANGED <<version, mplan, canonical, parses, parse, stored, upload>> /\ OthersStay(n) /\ Serving(n)
      BY <2>2 DEF HubStays, Moves, BeforePut, Serving
    <3>3. RequestsTrue'
      BY <2>2, <3>1, <3>2, MovesTrue
    <3> QED
      BY <1>0, <2>2, <3>2, <3>3, RecordsFollow DEF RecordsTrue
  <2>3. Predecessor(n) \in Contents \cup {Nothing}
    BY <1>0 DEF Predecessor, PathTyped, RecordsTyped, PathRevisions
  <2>4. displaced' \subseteq Contents /\ HubStays /\ UNCHANGED <<version, mplan>> /\ finish[n].pc \in BeforePut
    BY <1>0, <1>1, <2>3, LookMoves, AssembleMoves, GetStagedMoves, CheckExtendsMoves, PreserveMoves, StagedIsComplete
       DEF RecordsTrue, GetStaged, At, BeforePut
  <2>5. CASE Look(n)
    <3>1. PICK pc \in BeforePut : Moves(n, pc, fileRow.hash, finish[n].body, finish[n].found, finish[n].landed, finish[n].late)
      BY <1>0, <2>5, LookMoves DEF BeforePut
    <3>2. UNCHANGED upload
      BY <1>0, <2>5, LookMoves
    <3> QED
      BY <2>2, <2>4, <3>1, <3>2
  <2>6. ASSUME NEW pc \in BeforePut, MovesTo(n, pc), UNCHANGED upload
        PROVE  RequestsTrue' /\ RecordsTrue'
    BY <2>2, <2>4, <2>6 DEF MovesTo
  <2>7. {"get", "extends", "preserve", "put"} \subseteq BeforePut
    BY DEF BeforePut
  <2>8. CASE Assemble(n)
    BY <1>0, <2>1, <2>4, <2>6, <2>7, <2>8, AssembleMoves
  <2>9. CASE GetStaged(n)
    <3>1. n \in Nonces /\ n # Carried
      BY <1>0, <2>9, StagedIsComplete DEF GetStaged, At
    <3>2. CASE Ends(n) /\ UploadFollows(n)
      BY <2>1, <2>4, <3>2
    <3>3. CASE \E body \in PathBodies :
                 Moves(n, "extends", finish[n].old, body, finish[n].found, finish[n].landed, finish[n].late) /\ UNCHANGED upload
      <4>1. PICK body \in PathBodies :
                 Moves(n, "extends", finish[n].old, body, finish[n].found, finish[n].landed, finish[n].late) /\ UNCHANGED upload
        BY <3>3
      <4> QED
        BY <2>2, <2>4, <2>7, <3>1, <4>1
    <3> QED
      BY <1>0, <2>9, <3>1, <3>2, <3>3, GetStagedMoves
  <2>10. CASE CheckExtends(n)
    BY <1>0, <2>4, <2>6, <2>7, <2>10, CheckExtendsMoves
  <2>11. CASE Preserve(n)
    BY <1>0, <2>1, <2>4, <2>6, <2>7, <2>11, PreserveMoves
  <2> QED
    BY <1>1, <2>4, <2>5, <2>8, <2>9, <2>10, <2>11
<1>2. CASE PutCanonical(n)
  <2>1. /\ finish[n].pc = "put" /\ Serving(n)
        /\ UNCHANGED <<version, mplan, mfaults, upload, displaced, fileRow, derived, parses, parse, stored>>
    BY <1>0, <1>2, PutMoves DEF Serving
  <2>2. PICK landed \in BOOLEAN :
          /\ Moves(n, IF n = Carried THEN "upsert" ELSE "drop", finish[n].old, finish[n].body, finish[n].found, landed,
                   finish[n].late)
          /\ landed => finish[n].body = finish[n].rev /\ canonical' = finish[n].rev
          /\ ~landed => finish[n].body # finish[n].rev /\ canonical' = canonical
    BY <1>0, <1>2, PutMoves
  <2>3. finish[n].rev \in Contents /\ finish[n].rev \in PathRevs /\ finish[n].rev # Nothing
    BY <2>1, ServingRev, PathContents
  <2>4. canonical' \in PathRevs /\ (canonical # Nothing => canonical' # Nothing) /\ (landed => canonical' # Nothing)
    BY <1>0, <2>2, <2>3 DEF RecordsTrue
  <2>5. Seen' = Seen
    BY <2>1, SeenStays
  <2>6. n = Carried => landed
    BY <1>0, <2>1, <2>2 DEF RequestTrue
  <2>7. RequestTrue(n)'
    <3>1. CASE n = Carried
      BY <1>0, <2>1, <2>2, <2>4, <2>5, <2>6, <3>1, PathContents DEF RequestTrue, Moves, Serving, BeforePut, AfterPut
    <3>2. CASE n # Carried
      BY <1>0, <2>1, <2>2, <2>4, <2>5, <3>2 DEF RequestTrue, Moves, Serving, BeforePut, AfterPut
    <3> QED
      BY <3>1, <3>2
  <2>8. RequestsTrue'
    BY <1>0, <2>1, <2>2, <2>4, <2>7, RequestsMove DEF Moves
  <2> QED
    BY <1>0, <2>1, <2>2, <2>4, <2>8, RecordsFollow DEF Moves, RecordsTrue
<1>3. CASE DropStaging(n)
  <2>1. finish[n].pc = "drop" /\ Serving(n) /\ HubStays /\ UNCHANGED <<version, mplan, displaced>>
    BY <1>0, <1>3, DropMoves DEF Serving
  <2>2. RequestsTrue' /\ OthersStay(n) /\ (upload' = upload \/ UploadFollows(n))
    <3>1. CASE finish[n].landed /\ MovesTo(n, "upsert") /\ UNCHANGED upload
      <4>1. SoundMove(n, "upsert", finish[n].body, finish[n].found, finish[n].late)
        BY <1>0, <2>1, <3>1 DEF SoundMove, BeforePut, AfterPut
      <4> QED
        BY <2>1, <3>1, <4>1, MovesTrue DEF MovesTo, Moves, HubStays
    <3>2. CASE Ends(n) /\ UploadFollows(n)
      BY <1>0, <2>1, <3>2, EndsTrue, RequestsMove DEF Ends, HubStays
    <3> QED
      BY <1>0, <1>3, <3>1, <3>2, DropMoves
  <2> QED
    BY <1>0, <2>1, <2>2, RecordsFollow DEF HubStays, RecordsTrue
<1>4. CASE Upsert(n) \/ Flip(n) \/ PutRow(n) \/ PutHead(n) \/ Observe(n) \/ Reflip(n)
  <2>1. /\ Serving(n) /\ finish[n].pc \in AfterPut /\ (finish[n].pc = "reflip" => Reflip(n)) /\ (Reflip(n) => finish[n].pc = "reflip")
        /\ UNCHANGED <<version, mplan, mfaults, upload, canonical, displaced, parses, parse, stored>>
    BY <1>0, <1>4, UpsertMoves, FlipMoves, PutRowMoves, PutHeadMoves, ObserveMoves, ReflipMoves DEF Serving, AfterPut, HubStays
  <2>2. PICK pc \in AfterPut \ {"realign", "reflip"} : MovesTo(n, pc) /\ (pc = "resend" => Reflip(n))
    BY <1>0, <1>4, UpsertMoves, FlipMoves, PutRowMoves, PutHeadMoves, ObserveMoves, ReflipMoves DEF AfterPut
  <2>3. finish[n].landed /\ (pc = "resend" => finish[n].found # Nothing)
    BY <1>0, <2>1, <2>2 DEF RequestTrue
  <2>4. SoundMove(n, pc, finish[n].body, finish[n].found, finish[n].late)
    BY <1>0, <2>1, <2>2, <2>3 DEF SoundMove, BeforePut, AfterPut
  <2>5. RequestsTrue'
    BY <2>1, <2>2, <2>4, MovesTrue DEF MovesTo
  <2> QED
    BY <1>0, <2>1, <2>2, <2>5, RecordsFollow DEF MovesTo, Moves, RecordsTrue
<1>5. CASE PutAgain(n)
  <2>1. /\ finish[n].pc = "again" /\ canonical' = finish[n].body /\ Serving(n)
        /\ UNCHANGED <<version, mplan, mfaults, upload, displaced, fileRow, derived, parses, parse, stored>>
    BY <1>0, <1>5, PutAgainMoves DEF Serving
  <2>2. n = Carried /\ n \notin Nonces
    BY <1>0, <2>1, CarriedOnly
  <2>3. finish[n].landed /\ finish[n].body = mplan.carried /\ mplan.carried # Nothing
    BY <1>0, <2>1, <2>2 DEF RequestTrue, AfterPut
  <2>4. PICK late \in BOOLEAN, pc \in {"send", "flip"} :
          Moves(n, pc, finish[n].old, finish[n].body, finish[n].found, finish[n].landed, late)
    BY <1>0, <1>5, PutAgainMoves
  <2>6. SoundMove(n, pc, finish[n].body, finish[n].found, late)
    BY <2>1, <2>2, <2>3, <2>4 DEF SoundMove, BeforePut, AfterPut
  <2>5. RequestsTrue'
    BY <2>1, <2>3, <2>4, <2>6, MovesTrue
  <2> QED
    BY <1>0, <2>1, <2>3, <2>4, <2>5, RecordsFollow DEF Moves, RecordsTrue, PathRevs
<1>6. CASE Compare(n)
  <2>1. finish[n].pc = "compare" /\ HubStays /\ UNCHANGED <<version, mplan, mfaults, upload, displaced>> /\ Serving(n)
    BY <1>0, <1>6, CompareMoves DEF Serving
  <2>2. finish[n].landed
    BY <1>0, <2>1 DEF RequestTrue, AfterPut
  <2>3. PICK pc \in {"send", "realign"} :
          /\ Moves(n, pc, finish[n].old, finish[n].body, canonical, finish[n].landed, finish[n].late)
          /\ pc = "realign" => canonical \notin {Nothing, finish[n].rev}
    BY <1>0, <1>6, CompareMoves
  <2>5. SoundMove(n, pc, finish[n].body, canonical, finish[n].late)
    BY <1>0, <2>1, <2>2, <2>3 DEF SoundMove, BeforePut, AfterPut
  <2>4. RequestsTrue'
    BY <2>1, <2>3, <2>5, MovesTrue DEF HubStays
  <2> QED
    BY <1>0, <2>1, <2>3, <2>4, RecordsFollow DEF Moves, RecordsTrue, HubStays
<1>7. CASE Realign(n)
  <2>1. finish[n].pc = "realign" /\ Serving(n) /\ UNCHANGED <<version, mplan, mfaults, canonical, displaced, derived, parses, parse>>
    BY <1>0, <1>7, RealignMoves DEF Serving
  <2>2. finish[n].landed /\ finish[n].found # Nothing /\ finish[n].rev \in Contents
    BY <1>0, <2>1, ServingRev DEF RequestTrue, AfterPut
  <2>3. CASE Ends(n) /\ UploadFollows(n) /\ stored' = stored \cup {finish[n].rev}
    <3>1. RequestsTrue'
      BY <1>0, <2>1, <2>3, EndsTrue, RequestsMove DEF Ends
    <3> QED
      BY <1>0, <2>1, <2>2, <2>3, <3>1, RecordsFollow DEF Ends, RecordsTrue
  <2>4. CASE \E pc \in {"reflip", "send"} : MovesTo(n, pc) /\ UNCHANGED <<upload, stored>>
    <3>1. PICK pc \in {"reflip", "send"} : MovesTo(n, pc) /\ UNCHANGED <<upload, stored>>
      BY <2>4
    <3>3. SoundMove(n, pc, finish[n].body, finish[n].found, finish[n].late)
      BY <1>0, <2>1, <2>2, <3>1 DEF SoundMove, BeforePut, AfterPut
    <3>2. RequestsTrue'
      BY <2>1, <3>1, <3>3, MovesTrue DEF MovesTo
    <3> QED
      BY <1>0, <2>1, <3>1, <3>2, RecordsFollow DEF MovesTo, Moves, RecordsTrue
  <2> QED
    BY <1>0, <1>7, <2>1, <2>3, <2>4, RealignMoves
<1>8. CASE Resend(n) \/ Send(n) \/ Die(n)
  <2>1. Serving(n) /\ Ends(n) /\ UploadFollows(n) /\ UNCHANGED <<version, mplan, canonical, displaced, parse>>
    BY <1>0, <1>8, ResendMoves, SendMoves, DieMoves DEF Serving, HubStays
  <2>2. finish[n].rev \in Contents
    BY <2>1, ServingRev
  <2>3. finish[n].pc = "resend" => finish[n].found \in Contents
    BY <1>0, FieldsTyped DEF RequestTrue, PathRevisions
  <2>4. parses' \subseteq Contents /\ stored' \subseteq Contents
    BY <1>0, <1>8, <2>2, <2>3, ResendMoves, SendMoves, DieMoves DEF RecordsTrue, HubStays
  <2>5. RequestsTrue'
    BY <1>0, <2>1, EndsTrue, RequestsMove DEF Ends, Serving
  <2> QED
    BY <1>0, <2>1, <2>4, <2>5, RecordsFollow DEF Ends, RecordsTrue
<1> QED
  BY <1>1, <1>2, <1>3, <1>4, <1>5, <1>6, <1>7, <1>8, <1>0, PutMoves, DropMoves, UpsertMoves, FlipMoves, PutRowMoves, PutHeadMoves,
     ObserveMoves, ReflipMoves, PutAgainMoves, CompareMoves, RealignMoves, ResendMoves, SendMoves, DieMoves DEF ServeUpload
-----------------------------------------------------------------------------
(* The steps of the collector and of the parser, by what they leave.        *)
BesideStays == UNCHANGED <<finish, canonical, displaced, mplan>>

(* How far the collector's upload may go, beside the requests.              *)
UploadGoes ==
  \/ upload' = upload
  \/ upload'.pc = "idle"
  \/ upload.pc = "idle" /\ upload'.pc = "look" /\ upload'.rev = Source
  \/ upload.pc # "idle" /\ upload'.pc # "idle" /\ upload'.rev = upload.rev

LEMMA RewriteMoves ==
  ASSUME PathTyped, Rewrite
  PROVE  BesideStays /\ HubStays /\ UNCHANGED <<upload, mfaults>> /\ version' = version + 1
BY DEF Rewrite, BesideStays, HubStays, hubState

LEMMA HashMoves ==
  ASSUME PathTyped, Hash
  PROVE  /\ BesideStays /\ HubStays /\ UNCHANGED <<version, mfaults>>
         /\ upload.pc = "idle" /\ upload'.pc = "look" /\ upload'.rev = Source
<1>1. upload' = [Idling EXCEPT !.pc = "look", !.rev = Source] /\ upload.pc = "idle"
  BY DEF Hash
<1>2. upload'.pc = "look" /\ upload'.rev = Source
  BY <1>1 DEF Idling
<1> QED
  BY <1>1, <1>2 DEF Hash, BesideStays, HubStays, hubState

LEMMA CreateLookMoves ==
  ASSUME PathTyped, CreateLook
  PROVE  /\ BesideStays /\ HubStays /\ UNCHANGED <<version, mfaults>>
         /\ upload.pc = "look" /\ upload'.pc \in {"head", "open"} /\ upload'.rev = upload.rev
<1>1. PICK pc \in {"head", "open"} : Continue(pc)
  BY DEF CreateLook
<1>2. upload'.pc = pc /\ upload'.rev = upload.rev
  BY <1>1, ContinueTyped DEF UploadPcs
<1> QED
  BY <1>1, <1>2 DEF CreateLook, BesideStays, HubStays, hubState

LEMMA CreateHeadMoves ==
  ASSUME PathTyped, CreateHead
  PROVE  /\ BesideStays /\ UNCHANGED <<version, mfaults, fileRow, derived, parses, parse>> /\ upload.pc = "head"
         /\ \/ upload'.pc = "open" /\ upload'.rev = upload.rev /\ UNCHANGED stored
            \/ upload'.pc = "mark" /\ upload'.rev = upload.rev /\ UNCHANGED stored /\ canonical = upload.rev
            \/ upload'.pc = "idle" /\ canonical = upload.rev /\ stored' = stored \cup {upload.rev}
<1>1. BesideStays /\ UNCHANGED <<version, mfaults, fileRow, derived, parses, parse>> /\ upload.pc = "head"
  BY DEF CreateHead, BesideStays
<1>2. CASE Continue("open") /\ UNCHANGED stored
  BY <1>1, <1>2, ContinueTyped DEF UploadPcs
<1>3. CASE Held /\ Continue("mark") /\ UNCHANGED stored
  BY <1>1, <1>3, ContinueTyped DEF UploadPcs, Held
<1>4. CASE Held /\ Succeed /\ stored' = stored \cup {upload.rev}
  BY <1>1, <1>4, IdlingTyped DEF Succeed, Held
<1> QED
  BY <1>2, <1>3, <1>4 DEF CreateHead

LEMMA CreateMarkMoves ==
  ASSUME PathTyped, CreateMark
  PROVE  /\ BesideStays /\ UNCHANGED <<version, mfaults, derived, parses, parse, stored>>
         /\ upload.pc = "mark" /\ upload'.pc = "send" /\ upload'.rev = upload.rev /\ fileRow'.hash = fileRow.hash
<1>1. upload'.pc = "send" /\ upload'.rev = upload.rev
  BY ContinueTyped DEF CreateMark, UploadPcs
<1>2. fileRow' = [fileRow EXCEPT !.state = "pending"]
  BY DEF CreateMark
<1>3. fileRow'.hash = fileRow.hash
  BY <1>2 DEF PathTyped, RecordsTyped
<1> QED
  BY <1>1, <1>3 DEF CreateMark, BesideStays

LEMMA CreateSendMoves ==
  ASSUME PathTyped, CreateSend
  PROVE  /\ BesideStays /\ UNCHANGED <<version, mfaults, fileRow, derived, parse>>
         /\ upload.pc = "send" /\ upload'.pc = "idle"
         /\ parses' = parses \cup {upload.rev} /\ stored' = stored \cup {upload.rev}
BY IdlingTyped DEF CreateSend, Succeed, BesideStays

LEMMA CreateOpenMoves ==
  ASSUME PathTyped, NEW n \in Nonces, CreateOpen(n)
  PROVE  /\ BesideStays /\ HubStays /\ UNCHANGED version /\ upload.pc = "open" /\ ~Serving(n)
         /\ UNCHANGED mfaults \/ Strikes("timeout")
         /\ \/ upload'.pc = "part" /\ upload'.n = n /\ upload'.rev = upload.rev
            \/ upload'.pc \in {"idle", "look"} /\ (upload'.pc = "look" => upload'.rev = upload.rev)
<1>1. /\ BesideStays /\ HubStays /\ UNCHANGED version /\ upload.pc = "open" /\ ~Serving(n)
      /\ UNCHANGED mfaults \/ Strikes("timeout")
  BY DEF CreateOpen, BesideStays, HubStays, hubState, Serving, Finished
<1>2. CASE upload' = [upload EXCEPT !.pc = "part", !.n = n]
  BY <1>1, <1>2 DEF PathTyped, UploadTyped
<1>3. CASE upload' = Failed
  BY <1>1, <1>3, FailedTyped
<1> QED
  BY <1>2, <1>3 DEF CreateOpen

LEMMA SendPartMoves ==
  ASSUME PathTyped, SendPart
  PROVE  /\ BesideStays /\ HubStays /\ UNCHANGED version /\ upload.pc = "part"
         /\ UNCHANGED mfaults \/ Strikes("refuse")
         /\ upload'.pc \in {"part", "abort"} /\ upload'.rev = upload.rev /\ upload'.n = upload.n
<1>1. BesideStays /\ HubStays /\ UNCHANGED version /\ upload.pc = "part" /\ (UNCHANGED mfaults \/ Strikes("refuse"))
  BY DEF SendPart, BesideStays, HubStays, hubState
<1>2. CASE Continue("abort")
  BY <1>1, <1>2, ContinueTyped DEF UploadPcs
<1>3. CASE \E b : upload' = [upload EXCEPT !.read = b]
  BY <1>1, <1>3 DEF PathTyped, UploadTyped
<1> QED
  BY <1>2, <1>3 DEF SendPart

LEMMA AbortMoves ==
  ASSUME PathTyped, Abort
  PROVE  /\ BesideStays /\ HubStays /\ UNCHANGED version /\ upload.pc = "abort"
         /\ UNCHANGED mfaults \/ Strikes("refuse")
         /\ upload'.pc \in {"idle", "look"} /\ (upload'.pc = "look" => upload'.rev = upload.rev)
BY FailedTyped DEF Abort, BesideStays, HubStays, hubState

LEMMA GiveUpMoves ==
  ASSUME PathTyped, GiveUp
  PROVE  /\ BesideStays /\ HubStays /\ UNCHANGED version /\ upload.pc = "wait" /\ Strikes("timeout")
         /\ upload'.pc = "abort" /\ upload'.rev = upload.rev /\ upload'.n = upload.n
BY ContinueTyped DEF GiveUp, UploadPcs, BesideStays, HubStays, hubState

LEMMA CompleteMoves ==
  ASSUME PathTyped, Complete
  PROVE  /\ OthersStay(upload.n) /\ HubStays /\ UNCHANGED <<version, mplan, mfaults, displaced>>
         /\ finish'[upload.n].pc = "look" /\ finish'[upload.n].rev = upload.rev
         /\ finish'[upload.n].landed = FALSE /\ finish'[upload.n].late = FALSE
         /\ upload.pc = "part" /\ upload'.pc = "wait" /\ upload'.rev = upload.rev /\ upload'.n = upload.n
<1> DEFINE n == upload.n  r == Result("look", upload.rev, Nothing, Nothing, Nothing, FALSE, FALSE)
<1>1. Becomes(n, r) /\ r \in PathRequests /\ n \in Requests
  BY CompleteDoes DEF PathTyped, UploadTyped
<1>2. r.pc = "look" /\ r.rev = upload.rev /\ r.landed = FALSE /\ r.late = FALSE
  BY DEF Result
<1> HIDE DEF r
<1>3. Keeps(n, r)
  BY <1>1, BecomesTyped
<1>4. upload'.pc = "wait" /\ upload'.rev = upload.rev /\ upload'.n = upload.n
  BY ContinueTyped DEF Complete, UploadPcs
<1> QED
  BY <1>2, <1>3, <1>4 DEF Complete, Keeps, OthersStay, HubStays, hubState

LEMMA CarryMoves ==
  ASSUME PathTyped, Carry
  PROVE  /\ OthersStay(Carried) /\ HubStays /\ UNCHANGED <<version, mplan, mfaults, displaced, upload>>
         /\ finish[Carried].pc = "idle" /\ mplan.carried # Nothing
         /\ finish'[Carried].pc = "look" /\ finish'[Carried].rev = mplan.carried /\ finish'[Carried].body = mplan.carried
         /\ finish'[Carried].landed = FALSE /\ finish'[Carried].late = FALSE
<1> DEFINE r == Result("look", mplan.carried, Nothing, mplan.carried, Nothing, FALSE, FALSE)
<1>1. Becomes(Carried, r) /\ r \in PathRequests /\ mplan.carried # Nothing /\ finish[Carried].pc = "idle" /\ Carried \in Requests
  BY CarryDoes DEF Requests
<1>2. r.pc = "look" /\ r.rev = mplan.carried /\ r.body = mplan.carried /\ r.landed = FALSE /\ r.late = FALSE
  BY DEF Result
<1> HIDE DEF r
<1>3. Keeps(Carried, r)
  BY <1>1, BecomesTyped
<1> QED
  BY <1>1, <1>2, <1>3 DEF Carry, Keeps, OthersStay, HubStays, hubState

LEMMA TakeParseMoves ==
  ASSUME PathTyped, NEW m \in parses, TakeParse(m)
  PROVE  /\ BesideStays /\ UNCHANGED <<version, mfaults, upload, fileRow, derived, stored>>
         /\ parse = NotParsing /\ parses' = parses \ {m}
         /\ \/ fileRow.hash = m /\ parse' = [hash |-> m, bytes |-> canonical]
            \/ fileRow.hash # m /\ parse' = NotParsing
BY DEF TakeParse, BesideStays

LEMMA PublishMoves ==
  ASSUME PathTyped, Publish
  PROVE  /\ BesideStays /\ UNCHANGED <<version, mfaults, upload, parses, stored>> /\ fileRow'.hash = fileRow.hash
         /\ parse # NotParsing /\ parse' = NotParsing
         /\ \/ fileRow.hash = parse.hash /\ derived' = [state |-> "ready", rev |-> parse.hash, bytes |-> parse.bytes]
            \/ fileRow.hash # parse.hash /\ UNCHANGED derived
<1>1. CASE fileRow.hash = parse.hash
  <2>1. fileRow' = [fileRow EXCEPT !.state = "parsed"]
    BY <1>1 DEF Publish
  <2>2. fileRow'.hash = fileRow.hash
    BY <2>1 DEF PathTyped, RecordsTyped
  <2> QED
    BY <1>1, <2>2 DEF Publish, BesideStays
<1>2. CASE fileRow.hash # parse.hash
  BY <1>2 DEF Publish, BesideStays
<1> QED
  BY <1>1, <1>2

LEMMA SweepMoves ==
  ASSUME PathTyped, NEW n \in Nonces, Expire(n) \/ Prune(n)
  PROVE  BesideStays /\ HubStays /\ UNCHANGED <<version, mfaults, upload>>
BY DEF Expire, Prune, BesideStays, HubStays, hubState

-----------------------------------------------------------------------------
LEMMA SourceSeen ==
  ASSUME PathTyped
  PROVE  Source \in Seen
BY PlanTyped DEF PathTyped, RecordsTyped, Source, Seen

LEMMA SeenGrows ==
  ASSUME PathTyped, mplan' = mplan, version' \in {version, version + 1}
  PROVE  Seen \subseteq Seen' /\ PathRevs \subseteq PathRevs'
<1>1. version \in Nat /\ 1..version \subseteq 1..version'
  BY PlanTyped DEF PathTyped, RecordsTyped
<1> QED
  BY <1>1 DEF Seen, PathRevs

LEMMA BesideBase ==
  ASSUME PathBase, BesideStays, version' \in {version, version + 1}, parses' \subseteq Contents, stored' \subseteq Contents,
         parse' # NotParsing => parse'.hash \in Contents,
         upload'.pc # "idle" => upload'.rev \in Seen, upload'.pc = "part" => ~Serving(upload'.n)
  PROVE  RequestsTrue' /\ RecordsTrue'
<1>1. Seen \subseteq Seen' /\ PathRevs \subseteq PathRevs'
  BY SeenGrows DEF PathBase, BesideStays
<1>2. RequestsTrue'
  BY <1>1, RequestsStay DEF PathBase, BesideStays
<1> QED
  BY <1>1, <1>2 DEF PathBase, RecordsTrue, BesideStays, Serving

LEMMA CollectorBase ==
  ASSUME PathBase, UploadStep \/ GiveUp \/ Rewrite \/ ParseStep \/ Carry \/ (\E n \in Nonces : Expire(n) \/ Prune(n))
  PROVE  RequestsTrue' /\ RecordsTrue'
<1>0. PathTyped /\ PlacesTrue /\ RequestsTrue /\ RecordsTrue /\ Source \in Seen /\ Seen \subseteq Contents
  BY SourceSeen, SeenTyped DEF PathBase
<1>1. CASE Rewrite \/ Hash \/ CreateLook \/ SendPart \/ Abort \/ GiveUp
  <2>1. BesideStays /\ HubStays /\ version' \in {version, version + 1}
    BY <1>0, <1>1, RewriteMoves, HashMoves, CreateLookMoves, SendPartMoves, AbortMoves, GiveUpMoves
  <2>2. upload'.pc # "idle" => upload'.rev \in Seen
    BY <1>0, <1>1, RewriteMoves, HashMoves, CreateLookMoves, SendPartMoves, AbortMoves, GiveUpMoves DEF RecordsTrue
  <2>3. upload'.pc = "part" => ~Serving(upload'.n)
    BY <1>0, <1>1, RewriteMoves, HashMoves, CreateLookMoves, SendPartMoves, AbortMoves, GiveUpMoves DEF RecordsTrue
  <2> QED
    BY <1>0, <2>1, <2>2, <2>3, BesideBase DEF HubStays, RecordsTrue
<1>2. CASE CreateHead \/ CreateMark \/ CreateSend
  <2>1. BesideStays /\ UNCHANGED <<version, parse>> /\ upload.pc # "idle" /\ upload'.pc # "part"
        /\ (upload'.pc # "idle" => upload'.rev = upload.rev)
    BY <1>0, <1>2, CreateHeadMoves, CreateMarkMoves, CreateSendMoves
  <2>2. upload.rev \in Seen /\ upload.rev \in Contents
    BY <1>0, <2>1 DEF RecordsTrue
  <2>3. parses' \subseteq Contents /\ stored' \subseteq Contents
    BY <1>0, <1>2, <2>2, CreateHeadMoves, CreateMarkMoves, CreateSendMoves DEF RecordsTrue
  <2> QED
    BY <1>0, <2>1, <2>2, <2>3, BesideBase DEF RecordsTrue
<1>3. CASE \E n \in Nonces : CreateOpen(n)
  <2>1. PICK n \in Nonces : CreateOpen(n)
    BY <1>3
  <2>2. BesideStays /\ HubStays /\ UNCHANGED version /\ ~Serving(n)
    BY <1>0, <2>1, CreateOpenMoves
  <2>3. (upload'.pc # "idle" => upload'.rev \in Seen) /\ (upload'.pc = "part" => upload'.n = n)
    BY <1>0, <2>1, CreateOpenMoves DEF RecordsTrue
  <2> QED
    BY <1>0, <2>2, <2>3, BesideBase DEF HubStays, RecordsTrue
<1>4. CASE Complete
  <2>0. upload.n \in Nonces /\ upload.pc = "part"
    BY <1>0, <1>4 DEF PlacesTrue, Complete
  <2> PICK n \in Nonces : n = upload.n
    BY <2>0
  <2>1. /\ OthersStay(n) /\ HubStays /\ UNCHANGED <<version, mplan, displaced>>
        /\ finish'[n].pc = "look" /\ finish'[n].rev = upload.rev /\ finish'[n].landed = FALSE /\ finish'[n].late = FALSE
        /\ upload.pc = "part" /\ upload'.pc = "wait" /\ upload'.rev = upload.rev
    BY <1>0, <1>4, CompleteMoves
  <2>2. n \in Nonces /\ n \in Requests /\ n # Carried /\ upload.rev \in Seen
    BY <1>0, <2>1, PathContents DEF PlacesTrue, Requests, RecordsTrue
  <2>3. Seen' = Seen /\ PathRevs' = PathRevs
    BY <2>1, SeenStays
  <2>4. RequestTrue(n)'
    BY <2>1, <2>2, <2>3 DEF RequestTrue, Serving, BeforePut, AfterPut
  <2>5. RequestsTrue'
    BY <1>0, <2>1, <2>2, <2>4, RequestsMove DEF HubStays
  <2> QED
    BY <1>0, <2>1, <2>2, <2>3, <2>5 DEF RecordsTrue, HubStays
<1>5. CASE Carry
  <2>1. /\ OthersStay(Carried) /\ HubStays /\ UNCHANGED <<version, mplan, mfaults, displaced, upload>> /\ mplan.carried # Nothing
        /\ finish'[Carried].pc = "look" /\ finish'[Carried].rev = mplan.carried /\ finish'[Carried].body = mplan.carried
        /\ finish'[Carried].landed = FALSE /\ finish'[Carried].late = FALSE
    BY <1>0, <1>5, CarryMoves
  <2>2. Carried \in Requests /\ Carried \notin Nonces
    BY PathContents DEF Requests
  <2>3. Seen' = Seen /\ PathRevs' = PathRevs
    BY <2>1, SeenStays
  <2>4. RequestTrue(Carried)'
    BY <2>1, <2>2, <2>3 DEF RequestTrue, Serving, BeforePut, AfterPut
  <2>5. RequestsTrue'
    BY <1>0, <2>1, <2>2, <2>4, RequestsMove DEF HubStays
  <2>6. upload'.pc = "part" => finish'[upload'.n].pc \in {"idle", "done"}
    <3> SUFFICES ASSUME upload.pc = "part" PROVE finish'[upload.n].pc \in {"idle", "done"}
      BY <2>1
    <3>1. upload.n \in Nonces /\ ~Serving(upload.n) /\ upload.n # Carried /\ upload.n \in Requests
      BY <1>0, <2>2 DEF PlacesTrue, RecordsTrue, Requests
    <3> QED
      BY <2>1, <3>1 DEF OthersStay, Serving
  <2> QED
    BY <1>0, <2>1, <2>3, <2>5, <2>6 DEF RecordsTrue, HubStays, Serving
<1>6. CASE \E m \in parses : TakeParse(m)
  <2>1. PICK m \in parses : TakeParse(m)
    BY <1>6
  <2>2. BesideStays /\ UNCHANGED <<version, upload, stored>> /\ parses' = parses \ {m}
    BY <1>0, <2>1, TakeParseMoves
  <2>3. parse' # NotParsing => parse'.hash \in Contents
    BY <1>0, <2>1, TakeParseMoves DEF RecordsTrue
  <2> QED
    BY <1>0, <2>2, <2>3, BesideBase DEF RecordsTrue
<1>7. CASE Publish
  <2>1. BesideStays /\ UNCHANGED <<version, upload, stored, parses>> /\ parse' = NotParsing
    BY <1>0, <1>7, PublishMoves
  <2> QED
    BY <1>0, <2>1, BesideBase DEF RecordsTrue
<1>8. CASE \E n \in Nonces : Expire(n) \/ Prune(n)
  <2>1. BesideStays /\ HubStays /\ UNCHANGED <<version, upload>>
    BY <1>0, <1>8, SweepMoves
  <2> QED
    BY <1>0, <2>1, BesideBase DEF RecordsTrue, HubStays
<1> QED
  BY <1>1, <1>2, <1>3, <1>4, <1>5, <1>6, <1>7, <1>8 DEF UploadStep, ParseStep
-----------------------------------------------------------------------------
(* The order of completes.                                                  *)
QueueTrue == AwaitTrue /\ OrderTrue /\ PairsTrue /\ AloneTrue

LEMMA PlaceSeen ==
  ASSUME PathTyped, NEW c \in Seen
  PROVE  /\ Place(c) \in 1..Len(mplan.versions) /\ mplan.versions[Place(c)] = c
         /\ NeverBack => Place(c) \in 1..version
<1>1. PICK i \in 1..version : c = mplan.versions[i]
  BY DEF Seen
<1>2. i \in 1..Len(mplan.versions) /\ version \in Nat /\ DOMAIN mplan.versions = 1..Len(mplan.versions)
  BY PlanTyped DEF PathTyped, RecordsTyped
<1>3. Place(c) \in 1..Len(mplan.versions) /\ mplan.versions[Place(c)] = c
  BY <1>1, <1>2 DEF Place, PlaceIn
<1>4. NeverBack => Place(c) = i
  BY <1>1, <1>2, <1>3 DEF NeverBack
<1> QED
  BY <1>1, <1>3, <1>4

LEMMA PlaceOfSource ==
  ASSUME PathTyped, NeverBack
  PROVE  Place(Source) = version
<1>1. version \in 1..Len(mplan.versions) /\ DOMAIN mplan.versions = 1..Len(mplan.versions)
  BY PlanTyped DEF PathTyped, RecordsTyped
<1>2. Place(Source) \in 1..Len(mplan.versions) /\ mplan.versions[Place(Source)] = Source
  BY SourceSeen, PlaceSeen
<1> QED
  BY <1>1, <1>2 DEF NeverBack, Source

LEMMA ReachedTyped ==
  ASSUME PathBase
  PROVE  Reached \in Nat /\ (NeverBack => Reached <= version) /\ version \in Nat
<1>1. version \in Nat /\ PathTyped
  BY PlanTyped DEF PathBase, PathTyped, RecordsTyped
<1>2. CASE upload.pc = "idle"
  BY <1>1, <1>2 DEF Reached
<1>3. CASE upload.pc # "idle"
  <2>1. upload.rev \in Seen
    BY <1>3 DEF PathBase, RecordsTrue
  <2>2. Place(upload.rev) \in Nat /\ (NeverBack => Place(upload.rev) \in 1..version)
    BY <1>1, <2>1, PlaceSeen
  <2> QED
    BY <1>1, <1>3, <2>2 DEF Reached
<1> QED
  BY <1>2, <1>3

LEMMA ReachedGrows ==
  ASSUME PathBase, NeverBack, mplan' = mplan, version' \in {version, version + 1}, UploadGoes
  PROVE  Reached' \in Nat /\ Reached <= Reached'
<1>1. Reached \in Nat /\ Reached <= version /\ version \in Nat /\ version' >= version /\ version' \in Nat
  BY ReachedTyped
<1>2. CASE upload'.pc = "idle"
  BY <1>1, <1>2 DEF Reached
<1>3. CASE upload'.pc # "idle" /\ upload.pc = "idle"
  <2>1. upload'.rev = Source
    BY <1>3 DEF UploadGoes
  <2>2. Reached' = Place(Source)
    BY <1>3, <2>1 DEF Reached, Place
  <2> QED
    BY <1>1, <1>3, <2>2, PlaceOfSource DEF PathBase, Reached
<1>4. CASE upload'.pc # "idle" /\ upload.pc # "idle"
  BY <1>1, <1>4 DEF UploadGoes, Reached, Place
<1> QED
  BY <1>2, <1>3, <1>4

(* The revisions whose places are compared.                                 *)
LEMMA PlacesTyped ==
  ASSUME PathBase, Straight
  PROVE  /\ \A n \in Completing : finish[n].rev \in Seen /\ Place(finish[n].rev) \in Nat
         /\ canonical # Nothing => canonical \in Seen /\ Place(canonical) \in Nat
<1>1. PathTyped /\ \A c \in Seen : Place(c) \in Nat
  BY PlaceSeen DEF PathBase
<1>2. \A n \in Completing : finish[n].rev \in Seen
  BY DEF PathBase, RequestsTrue, RequestTrue, Completing, Requests
<1>3. canonical # Nothing => canonical \in Seen
  BY DEF PathBase, RecordsTrue, PathRevs, Straight
<1> QED
  BY <1>1, <1>2, <1>3

LEMMA OneAwaited ==
  ASSUME PathBase, AwaitTrue, NEW a \in Completing, NEW b \in Completing, NEW c \in Completing
  PROVE  a = b \/ a = c \/ b = c
BY DEF AwaitTrue, Awaited

LEMMA StraightStays ==
  ASSUME mplan' = mplan
  PROVE  (Straight' <=> Straight) /\ (NeverBack' <=> NeverBack) /\ \A c : Place(c)' = Place(c')
BY DEF Straight, NeverBack, Place

(* What the order is about, from one state to the next.                     *)
SamePlaces == /\ mplan' = mplan
              /\ mfaults \subseteq mfaults'
              /\ canonical' = canonical
              /\ Straight => Reached' \in Nat /\ Reached <= Reached'

LEMMA SameQueue ==
  ASSUME PathBase, QueueTrue, SamePlaces,
         \A n \in Completing' :
           /\ n \in Completing /\ finish'[n].rev = finish[n].rev /\ finish'[n].landed = finish[n].landed
           /\ finish'[n].pc = "realign" => finish[n].pc = "realign" /\ finish'[n].found = finish[n].found
           /\ Awaited(n)' <=> Awaited(n)
           /\ Awaited(n) => upload'.rev = upload.rev
  PROVE  QueueTrue'
<1>0. Completing' \subseteq Nonces /\ Completing \subseteq Nonces
  BY DEF Completing
<1>1. AwaitTrue'
  BY DEF QueueTrue, AwaitTrue, SamePlaces
<1>2. OrderTrue'
  <2> SUFFICES ASSUME Straight PROVE OrderTrue'
    BY StraightStays DEF OrderTrue, SamePlaces
  <2>1. Reached \in Nat /\ Reached' \in Nat /\ Reached <= Reached'
    BY ReachedTyped DEF SamePlaces
  <2>2. /\ \A n \in Completing : Place(finish[n].rev) \in Nat
        /\ canonical # Nothing => Place(canonical) \in Nat
    BY PlacesTyped
  <2>3. \A n \in Completing' : Place(finish[n].rev)' = Place(finish[n].rev)
    BY DEF Place, SamePlaces
  <2>4. Place(canonical)' = Place(canonical)
    BY DEF Place, SamePlaces
  <2> HIDE DEF Place
  <2>5. OrderTrue
    BY DEF QueueTrue
  <2> QED
    BY <2>1, <2>2, <2>3, <2>4, <2>5 DEF OrderTrue, SamePlaces
<1>3. PairsTrue'
  BY StraightStays DEF QueueTrue, PairsTrue, SamePlaces
<1>4. AloneTrue'
  BY DEF QueueTrue, AloneTrue, SamePlaces
<1> QED
  BY <1>1, <1>2, <1>3, <1>4 DEF QueueTrue
(* A request that goes on without writing, or that ends.                    *)
LEMMA MovesQueue ==
  ASSUME PathBase, QueueTrue, NEW n \in Requests, OthersStay(n), Serving(n), UNCHANGED <<version, mplan, upload, canonical>>,
         mfaults \subseteq mfaults',
         finish'[n].rev = finish[n].rev, finish'[n].landed = finish[n].landed,
         finish'[n].pc = "realign" => finish[n].pc = "realign" /\ finish'[n].found = finish[n].found
  PROVE  QueueTrue'
<1>1. SamePlaces
  BY ReachedTyped DEF SamePlaces, Reached, Place
<1>2. \A m \in Completing' : /\ m \in Completing /\ finish'[m].rev = finish[m].rev /\ finish'[m].landed = finish[m].landed
                             /\ finish'[m].pc = "realign" => finish[m].pc = "realign" /\ finish'[m].found = finish[m].found
                             /\ Awaited(m)' <=> Awaited(m)
                             /\ Awaited(m) => upload'.rev = upload.rev
  BY DEF Completing, OthersStay, Serving, Requests, Awaited
<1> QED
  BY <1>1, <1>2, SameQueue

LEMMA EndsQueue ==
  ASSUME PathBase, QueueTrue, NEW n \in Requests, Ends(n), UploadFollows(n), UNCHANGED <<version, mplan, canonical>>,
         mfaults \subseteq mfaults'
  PROVE  QueueTrue'
<1>1. SamePlaces
  <2>1. UploadGoes
    BY DEF UploadFollows, UploadGoes, Awaited
  <2> QED
    BY <2>1, ReachedGrows DEF SamePlaces, Straight
<1>2. \A m \in Completing' : m # n /\ m \in Completing /\ finish'[m] = finish[m]
  BY PathContents DEF Ends, Completing, Serving, OthersStay, Requests
<1>3. \A m \in Completing' : (Awaited(m)' <=> Awaited(m)) /\ (Awaited(m) => upload'.rev = upload.rev)
  BY <1>2 DEF UploadFollows, Awaited
<1> QED
  BY <1>1, <1>2, <1>3, SameQueue

(* The collector beside the requests.                                       *)
LEMMA BesideQueue ==
  ASSUME PathBase, QueueTrue, BesideStays, version' \in {version, version + 1}, UploadGoes, mfaults \subseteq mfaults',
         upload' = upload \/ (upload.pc # "wait" /\ upload'.pc # "wait")
  PROVE  QueueTrue'
<1>1. SamePlaces
  BY ReachedGrows DEF SamePlaces, BesideStays, Straight
<1>2. \A m \in Completing' : m \in Completing /\ finish'[m] = finish[m]
  BY DEF BesideStays, Completing, Serving
<1>3. \A m \in Completing' : (Awaited(m)' <=> Awaited(m)) /\ (Awaited(m) => upload'.rev = upload.rev)
  BY <1>2 DEF Awaited
<1> QED
  BY <1>1, <1>2, <1>3, SameQueue

LEMMA CompleteQueue ==
  ASSUME PathBase, QueueTrue, Complete
  PROVE  QueueTrue'
<1>0. upload.n \in Nonces /\ upload.pc = "part" /\ PathTyped
  BY DEF PathBase, PlacesTrue, Complete
<1> PICK n \in Nonces : n = upload.n
  BY <1>0
<1>1. /\ OthersStay(n) /\ HubStays /\ UNCHANGED <<version, mplan, mfaults, displaced>>
      /\ finish'[n].pc = "look" /\ finish'[n].rev = upload.rev /\ finish'[n].landed = FALSE /\ finish'[n].late = FALSE
      /\ upload'.pc = "wait" /\ upload'.rev = upload.rev /\ upload'.n = n
  BY <1>0, CompleteMoves
<1>2. ~Serving(n) /\ n \in Requests /\ upload.rev \in Seen /\ canonical' = canonical
  BY <1>0, <1>1 DEF PathBase, RecordsTrue, Requests, HubStays
<1>3. Completing' = Completing \cup {n} /\ n \notin Completing /\ \A m \in Completing : finish'[m] = finish[m] /\ ~Awaited(m)
      /\ m # n /\ (Awaited(m)' <=> FALSE)
  BY <1>0, <1>1, <1>2 DEF Completing, Serving, OthersStay, Requests, Awaited
<1>4. Awaited(n)'
  BY <1>1 DEF Awaited
<1>5. AwaitTrue'
  BY <1>1, <1>3, <1>4 DEF QueueTrue, AwaitTrue
<1>6. OrderTrue'
  <2> SUFFICES ASSUME Straight PROVE OrderTrue'
    BY <1>1, StraightStays DEF OrderTrue
  <2>1. Reached' = Reached /\ Reached = Place(upload.rev) /\ Reached \in Nat
    BY <1>0, <1>1, ReachedTyped DEF Reached, Place
  <2>2. \A m \in Completing : Place(finish[m].rev)' = Place(finish[m].rev) /\ finish'[m] = finish[m] /\ (~Awaited(m) /\ ~Awaited(m)')
    BY <1>1, <1>3 DEF Place
  <2>3. Place(canonical)' = Place(canonical) /\ Place(finish[n].rev)' = Reached
    BY <1>1, <1>2, <2>1 DEF Place
  <2> HIDE DEF Place
  <2>4. OrderTrue
    BY DEF QueueTrue
  <2> QED
    BY <1>1, <1>2, <1>3, <1>4, <2>1, <2>2, <2>3, <2>4 DEF OrderTrue
<1>7. PairsTrue'
  <2> SUFFICES ASSUME Straight PROVE PairsTrue'
    BY <1>1, StraightStays DEF PairsTrue
  <2> QED
    BY <1>1, <1>2, <1>3, <1>4 DEF QueueTrue, PairsTrue
<1>8. AloneTrue'
  BY <1>1, <1>2, <1>3 DEF QueueTrue, AloneTrue
<1> QED
  BY <1>5, <1>6, <1>7, <1>8 DEF QueueTrue

LEMMA GiveUpQueue ==
  ASSUME PathBase, QueueTrue, GiveUp
  PROVE  QueueTrue'
<1>0. PathTyped /\ upload.n \in Nonces /\ upload.pc = "wait"
  BY DEF PathBase, PlacesTrue, GiveUp
<1>1. /\ BesideStays /\ HubStays /\ UNCHANGED version /\ "timeout" \notin mfaults /\ mfaults' = mfaults \cup {"timeout"}
      /\ upload'.pc = "abort" /\ upload'.rev = upload.rev
  BY <1>0, GiveUpMoves DEF Strikes
<1>2. Completing' = Completing /\ \A m, k \in Completing : m = upload.n /\ m = k /\ Awaited(m) /\ (Awaited(m)' <=> FALSE)
  BY <1>1 DEF BesideStays, Completing, Serving, QueueTrue, AwaitTrue, Awaited
<1>3. AwaitTrue' /\ AloneTrue'
  BY <1>1, <1>2 DEF AwaitTrue, AloneTrue
<1>4. PairsTrue'
  BY <1>1, <1>2 DEF PairsTrue
<1>5. OrderTrue'
  <2> SUFFICES ASSUME Straight PROVE OrderTrue'
    BY <1>1, StraightStays DEF OrderTrue, BesideStays
  <2>1. Reached' = Reached
    BY <1>0, <1>1 DEF Reached, Place, BesideStays
  <2>2. \A m \in Completing : finish[m].landed => canonical = finish[m].rev /\ finish[m].pc # "realign"
    <3> TAKE m \in Completing
    <3>1. finish[m].landed => canonical # Nothing
      BY DEF Completing, PathBase, RequestsTrue, RequestTrue, Requests
    <3> QED
      BY <1>1, <3>1 DEF QueueTrue, AloneTrue, Straight
  <2>3. \A m \in Completing : finish[m].pc = "realign" => finish[m].landed
    BY DEF Completing, PathBase, RequestsTrue, RequestTrue, Requests, AfterPut
  <2>4. \A c : Place(c)' = Place(c')
    BY <1>1, StraightStays DEF BesideStays
  <2>5. \A m \in Completing : Place(finish[m].rev)' = Place(finish[m].rev)
    BY <1>1 DEF Place, BesideStays
  <2>6. Place(canonical)' = Place(canonical)
    BY <1>1 DEF Place, BesideStays
  <2> HIDE DEF Place
  <2> QED
    BY <1>1, <1>2, <2>1, <2>2, <2>3, <2>5, <2>6 DEF QueueTrue, OrderTrue, BesideStays
<1> QED
  BY <1>3, <1>4, <1>5 DEF QueueTrue

LEMMA CarryQueue ==
  ASSUME PathBase, QueueTrue, Carry
  PROVE  QueueTrue'
<1>0. PathTyped /\ Carried \notin Nonces
  BY PathContents DEF PathBase
<1>1. OthersStay(Carried) /\ HubStays /\ UNCHANGED <<version, mplan, mfaults, displaced, upload>>
  BY <1>0, CarryMoves
<1>2. SamePlaces
  BY <1>1, ReachedTyped DEF SamePlaces, Reached, Place, HubStays
<1>3. \A m \in Completing' : m \in Completing /\ finish'[m] = finish[m] /\ (Awaited(m)' <=> Awaited(m))
  BY <1>0, <1>1 DEF OthersStay, Completing, Serving, Awaited, Requests
<1> QED
  BY <1>1, <1>2, <1>3, SameQueue

(* Only a carried file that is there is served.                             *)
LEMMA CarriedThere ==
  ASSUME PathBase, Serving(Carried)
  PROVE  ~Straight /\ finish[Carried].rev = mplan.carried /\ finish[Carried].body = mplan.carried /\ mplan.carried # Nothing
BY PathContents DEF PathBase, RequestsTrue, RequestTrue, Requests, Straight, Serving

(* The carried file over whatever a complete has written.                   *)
LEMMA CarriedQueue ==
  ASSUME PathBase, QueueTrue, Serving(Carried), OthersStay(Carried), UNCHANGED <<version, mplan, upload, mfaults>>,
         canonical' = mplan.carried
  PROVE  QueueTrue'
<1>1. ~Straight' /\ mplan.carried # Nothing
  BY CarriedThere, StraightStays
<1>2. \A m \in Completing' : m \in Completing /\ finish'[m] = finish[m] /\ (Awaited(m)' <=> Awaited(m))
  BY PathContents DEF OthersStay, Completing, Serving, Awaited, Requests
<1>3. AwaitTrue'
  BY <1>2 DEF QueueTrue, AwaitTrue
<1>4. AloneTrue'
  BY <1>1, <1>2 DEF QueueTrue, AloneTrue
<1> QED
  BY <1>1, <1>3, <1>4 DEF QueueTrue, OrderTrue, PairsTrue

(* A complete writes the raw object.                                        *)
LEMMA LandsQueue ==
  ASSUME PathBase, QueueTrue, NEW n \in Nonces, finish[n].pc = "put", OthersStay(n),
         finish'[n].pc = "drop", finish'[n].rev = finish[n].rev, finish'[n].landed = TRUE, canonical' = finish[n].rev,
         UNCHANGED <<version, mplan, upload, mfaults>>
  PROVE  QueueTrue'
<1>0. n \in Completing /\ n \in Requests /\ Completing' = Completing /\ \A m \in Completing : m # n => finish'[m] = finish[m]
  BY DEF Completing, Serving, Requests, OthersStay
<1>1. \A m \in Completing : (Awaited(m)' <=> Awaited(m)) /\ finish'[m].rev = finish[m].rev
  BY <1>0 DEF Awaited
<1>2. ~finish[n].landed /\ finish[n].rev \in Contents
  BY <1>0, ServingRev DEF PathBase, RequestsTrue, RequestTrue, BeforePut, Completing
<1>3. AwaitTrue'
  BY <1>0, <1>1 DEF QueueTrue, AwaitTrue
<1>4. OrderTrue'
  <2> SUFFICES ASSUME Straight PROVE OrderTrue'
    BY StraightStays DEF OrderTrue
  <2>1. Reached' = Reached /\ Reached \in Nat
    BY ReachedTyped DEF Reached, Place
  <2>2. \A m \in Completing : Place(finish[m].rev)' = Place(finish[m].rev)
    BY <1>1 DEF Place
  <2>3. Place(canonical)' = Place(finish[n].rev)
    BY DEF Place
  <2>4. \A m \in Completing : Place(finish[m].rev) \in Nat /\ finish[m].rev \in Seen
    BY PlacesTyped
  <2>5. \A m \in Completing : m # n /\ ~Awaited(m) =>
          finish[m].rev = finish[n].rev \/ Place(finish[n].rev) > Place(finish[m].rev)
    <3> SUFFICES ASSUME NEW m \in Completing, m # n, ~Awaited(m)
                 PROVE  finish[m].rev = finish[n].rev \/ Place(finish[n].rev) > Place(finish[m].rev)
      OBVIOUS
    <3>1. Awaited(n) /\ finish[n].rev = upload.rev
      BY <1>0 DEF QueueTrue, AwaitTrue
    <3>2. Reached = Place(finish[n].rev)
      BY <3>1 DEF Reached, Awaited
    <3>3. Place(finish[m].rev) <= Reached
      BY DEF QueueTrue, OrderTrue
    <3>4. mplan.versions[Place(finish[m].rev)] = finish[m].rev /\ mplan.versions[Place(finish[n].rev)] = finish[n].rev
      BY <1>0, <2>4, PlaceSeen DEF PathBase
    <3>5. Place(finish[m].rev) \in Nat /\ Place(finish[n].rev) \in Nat
      BY <1>0, <2>4
    <3>6. CASE Place(finish[m].rev) = Place(finish[n].rev)
      BY <3>4, <3>6
    <3>7. CASE Place(finish[m].rev) # Place(finish[n].rev)
      BY <3>2, <3>3, <3>5, <3>7
    <3> QED
      BY <3>6, <3>7
  <2>6. OrderTrue
    BY DEF QueueTrue
  <2> HIDE DEF Place
  <2> QED
    BY <1>0, <1>1, <2>1, <2>2, <2>3, <2>4, <2>5, <2>6 DEF OrderTrue
<1>5. PairsTrue'
  <2> SUFFICES ASSUME Straight, NEW a \in Completing, NEW b \in Completing, a # b
               PROVE  /\ finish'[a].landed /\ finish'[b].landed => finish[n].rev \in {finish[a].rev, finish[b].rev}
                      /\ finish'[a].pc = "realign" /\ finish'[b].landed
                           => finish[n].rev = finish[b].rev /\ finish[n].rev # finish[a].rev
                      /\ Awaited(a) /\ finish'[a].landed /\ ~finish'[b].landed
                           => finish[n].rev = finish[a].rev /\ finish'[a].pc # "realign"
    BY <1>0, <1>1, StraightStays DEF PairsTrue
  <2>1. a = n \/ b = n
    BY <1>0, OneAwaited DEF QueueTrue
  <2>2. CASE a = n
    BY <1>0, <2>2
  <2>3. CASE b = n
    <3>1. finish'[a] = finish[a]
      BY <1>0, <2>3
    <3>2. ASSUME finish[a].pc = "realign"
          PROVE  finish[n].rev # finish[a].rev
      <4>1. finish[a].landed
        BY <3>2 DEF Completing, PathBase, RequestsTrue, RequestTrue, Requests, AfterPut
      <4>2. ~Awaited(a)
        BY <1>2, <2>3, <3>2, <4>1 DEF QueueTrue, PairsTrue
      <4>3. Awaited(n) /\ finish[n].rev = upload.rev
        BY <1>0, <2>3, <4>2 DEF QueueTrue, AwaitTrue
      <4>4. Reached = Place(finish[n].rev)
        BY <4>3 DEF Reached, Awaited
      <4>5. Place(finish[a].rev) < Reached
        BY <3>2, <4>2 DEF QueueTrue, OrderTrue
      <4>6. Reached \in Nat
        BY ReachedTyped
      <4> HIDE DEF Place
      <4> QED
        BY <4>4, <4>5, <4>6
    <3> QED
      BY <1>0, <2>3, <3>1, <3>2
  <2> QED
    BY <2>1, <2>2, <2>3
<1>6. AloneTrue'
  <2> SUFFICES ASSUME "timeout" \notin mfaults, NEW m \in Completing
               PROVE  /\ finish'[m].landed => finish[n].rev \in {finish[m].rev, mplan.carried}
                      /\ finish'[m].pc # "realign"
    BY <1>0, <1>1 DEF AloneTrue
  <2>1. m = n
    BY <1>0 DEF QueueTrue, AwaitTrue, Awaited
  <2> QED
    BY <2>1
<1> QED
  BY <1>3, <1>4, <1>5, <1>6 DEF QueueTrue

(* A complete finds another object than its own.                            *)
LEMMA FindsQueue ==
  ASSUME PathBase, QueueTrue, NEW n \in Nonces, finish[n].pc = "compare", OthersStay(n),
         finish'[n].pc = "realign", finish'[n].rev = finish[n].rev, finish'[n].landed = finish[n].landed,
         finish'[n].found = canonical, canonical \notin {Nothing, finish[n].rev},
         UNCHANGED <<version, mplan, upload, mfaults, canonical>>
  PROVE  QueueTrue'
<1>0. n \in Completing /\ n \in Requests /\ Completing' = Completing /\ \A m \in Completing : m # n => finish'[m] = finish[m]
  BY DEF Completing, Serving, Requests, OthersStay
<1>1. \A m \in Completing : (Awaited(m)' <=> Awaited(m)) /\ finish'[m].rev = finish[m].rev /\ finish'[m].landed = finish[m].landed
  BY <1>0 DEF Awaited
<1>2. finish[n].landed
  BY <1>0 DEF PathBase, RequestsTrue, RequestTrue, AfterPut
<1>3. AwaitTrue'
  BY <1>0, <1>1 DEF QueueTrue, AwaitTrue
<1>4. OrderTrue'
  <2> SUFFICES ASSUME Straight PROVE OrderTrue'
    BY StraightStays DEF OrderTrue
  <2>1. Reached' = Reached /\ Reached \in Nat
    BY ReachedTyped DEF Reached, Place
  <2>2. \A m \in Completing : Place(finish[m].rev)' = Place(finish[m].rev)
    BY <1>1 DEF Place
  <2>3. Place(canonical)' = Place(canonical)
    BY DEF Place
  <2>4. (\A m \in Completing : Place(finish[m].rev) \in Nat) /\ Place(canonical) \in Nat
    BY PlacesTyped
  <2> HIDE DEF Place
  <2>5. OrderTrue
    BY DEF QueueTrue
  <2>6. ~Awaited(n) => Place(finish[n].rev) < Reached
    BY <1>0, <1>2, <2>1, <2>4, <2>5 DEF OrderTrue
  <2> QED
    BY <1>0, <1>1, <2>1, <2>2, <2>3, <2>5, <2>6 DEF OrderTrue
<1>5. PairsTrue'
  <2> SUFFICES ASSUME Straight, NEW a \in Completing, NEW b \in Completing, a # b
               PROVE  /\ finish[a].landed /\ finish[b].landed => canonical \in {finish[a].rev, finish[b].rev}
                      /\ finish'[a].pc = "realign" /\ finish[b].landed
                           => canonical = finish[b].rev /\ canonical # finish[a].rev
                      /\ Awaited(a) /\ finish[a].landed /\ ~finish[b].landed
                           => canonical = finish[a].rev /\ finish'[a].pc # "realign"
    BY <1>0, <1>1, StraightStays DEF PairsTrue
  <2>1. PairsTrue
    BY DEF QueueTrue
  <2>2. CASE a = n
    BY <1>0, <1>2, <2>1, <2>2 DEF PairsTrue
  <2>3. CASE a # n
    BY <1>0, <2>1, <2>3 DEF PairsTrue
  <2> QED
    BY <2>2, <2>3
<1>6. AloneTrue'
  BY <1>0, <1>1, <1>2 DEF QueueTrue, AloneTrue
<1> QED
  BY <1>3, <1>4, <1>5, <1>6 DEF QueueTrue
-----------------------------------------------------------------------------
LEMMA MoveQueue ==
  ASSUME PathBase, QueueTrue, NEW n \in Requests, Serving(n), NEW pc, NEW old, NEW body, NEW found, NEW late,
         Moves(n, pc, old, body, found, finish[n].landed, late), pc # "realign",
         UNCHANGED <<version, mplan, upload, canonical>>, mfaults \subseteq mfaults'
  PROVE  QueueTrue'
BY MovesQueue DEF Moves

LEMMA ServeQueue ==
  ASSUME PathBase, QueueTrue, NEW n \in Requests, ServeUpload(n) \/ Die(n)
  PROVE  QueueTrue'
<1>0. PathTyped /\ PlacesTrue /\ RequestsTrue /\ RequestTrue(n)
  BY DEF PathBase, RequestsTrue
<1>1. ASSUME Serving(n), NEW pc, pc # "realign", MovesTo(n, pc), UNCHANGED <<version, mplan, upload, canonical>>,
             mfaults \subseteq mfaults'
      PROVE  QueueTrue'
  BY <1>1, MoveQueue DEF MovesTo
<1>2. CASE Look(n)
  <2>1. PICK pc \in BeforePut : Moves(n, pc, fileRow.hash, finish[n].body, finish[n].found, finish[n].landed, finish[n].late)
    BY <1>0, <1>2, LookMoves DEF BeforePut
  <2>2. Serving(n) /\ UNCHANGED <<version, mplan, upload, canonical, mfaults>> /\ pc # "realign"
    BY <1>0, <1>2, LookMoves DEF HubStays, Serving, BeforePut
  <2> QED
    BY <2>1, <2>2, MoveQueue
<1>3. CASE Assemble(n) \/ Preserve(n) \/ DropStaging(n)
  <2>1. Serving(n) /\ UNCHANGED <<version, mplan, canonical>> /\ mfaults \subseteq mfaults'
    BY <1>0, <1>3, AssembleMoves, PreserveMoves, DropMoves DEF HubStays, Serving, Strikes
  <2>2. (Ends(n) /\ UploadFollows(n)) \/ (\E pc \in {"get", "put", "upsert"} : MovesTo(n, pc) /\ UNCHANGED upload)
    BY <1>0, <1>3, AssembleMoves, PreserveMoves, DropMoves
  <2>3. CASE Ends(n) /\ UploadFollows(n)
    BY <2>1, <2>3, EndsQueue
  <2>4. ASSUME NEW pc \in {"get", "put", "upsert"}, MovesTo(n, pc), UNCHANGED upload
        PROVE  QueueTrue'
    BY <1>1, <2>1, <2>4
  <2> QED
    BY <2>2, <2>3, <2>4
<1>4. CASE GetStaged(n)
  <2>1. n \in Nonces
    BY <1>0, <1>4, StagedIsComplete DEF GetStaged, At
  <2>2. Serving(n) /\ UNCHANGED <<version, mplan, canonical, mfaults>>
    BY <1>0, <1>4, <2>1, GetStagedMoves DEF HubStays, Serving
  <2>3. ASSUME NEW body,
               Moves(n, "extends", finish[n].old, body, finish[n].found, finish[n].landed, finish[n].late), UNCHANGED upload
        PROVE  QueueTrue'
    BY <2>2, <2>3, MoveQueue
  <2>4. CASE Ends(n) /\ UploadFollows(n)
    BY <2>2, <2>4, EndsQueue
  <2> QED
    BY <1>0, <1>4, <2>1, <2>3, <2>4, GetStagedMoves
<1>5. CASE CheckExtends(n) \/ Upsert(n) \/ Flip(n) \/ PutRow(n) \/ PutHead(n) \/ Observe(n) \/ Reflip(n)
  <2>1. Serving(n) /\ UNCHANGED <<version, mplan, canonical, mfaults, upload>>
    BY <1>0, <1>5, CheckExtendsMoves, UpsertMoves, FlipMoves, PutRowMoves, PutHeadMoves, ObserveMoves, ReflipMoves
       DEF HubStays, Serving
  <2>2. PICK pc \in RequestPcs \ {"realign"} : MovesTo(n, pc)
    BY <1>0, <1>5, CheckExtendsMoves, UpsertMoves, FlipMoves, PutRowMoves, PutHeadMoves, ObserveMoves, ReflipMoves
       DEF RequestPcs, BeforePut, AfterPut
  <2> QED
    BY <1>1, <2>1, <2>2
<1>6. CASE PutCanonical(n)
  <2>1. /\ finish[n].pc = "put" /\ Serving(n)
        /\ UNCHANGED <<version, mplan, mfaults, upload, displaced, fileRow, derived, parses, parse, stored>>
    BY <1>0, <1>6, PutMoves DEF Serving
  <2>2. PICK landed \in BOOLEAN :
          /\ Moves(n, IF n = Carried THEN "upsert" ELSE "drop", finish[n].old, finish[n].body, finish[n].found, landed,
                   finish[n].late)
          /\ landed => finish[n].body = finish[n].rev /\ canonical' = finish[n].rev
          /\ ~landed => finish[n].body # finish[n].rev /\ canonical' = canonical
    BY <1>0, <1>6, PutMoves
  <2>3. CASE ~landed
    <3>1. finish[n].landed = FALSE
      BY <1>0, <2>1, FieldsTyped DEF RequestTrue, BeforePut
    <3>2. OthersStay(n) /\ canonical' = canonical /\ finish'[n].rev = finish[n].rev /\ finish'[n].landed = finish[n].landed
          /\ finish'[n].pc # "realign"
      BY <2>2, <2>3, <3>1 DEF Moves
    <3> QED
      BY <2>1, <3>2, MovesQueue
  <2>4. CASE landed /\ n = Carried
    <3>1. OthersStay(Carried) /\ Serving(Carried) /\ canonical' = mplan.carried
      BY <2>1, <2>2, <2>4, CarriedThere DEF Moves
    <3> QED
      BY <2>1, <3>1, CarriedQueue
  <2>5. CASE landed /\ n # Carried
    <3>1. OthersStay(n) /\ canonical' = finish[n].rev /\ n \in Nonces /\ finish'[n].pc = "drop"
          /\ finish'[n].rev = finish[n].rev /\ finish'[n].landed = TRUE
      BY <2>2, <2>5 DEF Moves, Requests
    <3> QED
      BY <2>1, <3>1, LandsQueue
  <2> QED
    BY <2>3, <2>4, <2>5
<1>7. CASE PutAgain(n)
  <2>1. n = Carried /\ Serving(Carried) /\ canonical' = finish[n].body /\ OthersStay(Carried)
        /\ UNCHANGED <<version, mplan, mfaults, upload>>
    BY <1>0, <1>7, PutAgainMoves, CarriedOnly DEF Serving, Moves
  <2> QED
    BY <2>1, CarriedThere, CarriedQueue
<1>8. CASE Compare(n)
  <2>1. finish[n].pc = "compare" /\ Serving(n) /\ UNCHANGED <<version, mplan, mfaults, upload, canonical>> /\ n \in Nonces
    BY <1>0, <1>8, CompareMoves, StagedIsComplete DEF Serving, HubStays
  <2>2. CASE Moves(n, "send", finish[n].old, finish[n].body, canonical, finish[n].landed, finish[n].late)
    BY <2>1, <2>2, MoveQueue
  <2>3. CASE canonical \notin {Nothing, finish[n].rev}
             /\ Moves(n, "realign", finish[n].old, finish[n].body, canonical, finish[n].landed, finish[n].late)
    BY <2>1, <2>3, FindsQueue DEF Moves
  <2> QED
    BY <1>0, <1>8, <2>2, <2>3, CompareMoves
<1>9. CASE Realign(n)
  <2>1. Serving(n) /\ UNCHANGED <<version, mplan, mfaults, canonical>>
    BY <1>0, <1>9, RealignMoves DEF Serving
  <2>2. (Ends(n) /\ UploadFollows(n)) \/ (\E pc \in {"reflip", "send"} : MovesTo(n, pc) /\ UNCHANGED upload)
    BY <1>0, <1>9, RealignMoves
  <2> QED
    BY <1>1, <2>1, <2>2, EndsQueue
<1>10. CASE Resend(n) \/ Send(n) \/ Die(n)
  <2>1. Ends(n) /\ UploadFollows(n) /\ UNCHANGED <<version, mplan, canonical>> /\ mfaults \subseteq mfaults'
    BY <1>0, <1>10, ResendMoves, SendMoves, DieMoves DEF HubStays, Strikes
  <2> QED
    BY <2>1, EndsQueue
<1> QED
  BY <1>2, <1>3, <1>4, <1>5, <1>6, <1>7, <1>8, <1>9, <1>10 DEF ServeUpload

LEMMA CollectorQueue ==
  ASSUME PathBase, QueueTrue,
         UploadStep \/ GiveUp \/ Rewrite \/ ParseStep \/ Carry \/ (\E n \in Nonces : Expire(n) \/ Prune(n))
  PROVE  QueueTrue'
<1>0. PathTyped
  BY DEF PathBase
<1>1. CASE \/ Rewrite \/ Hash \/ CreateLook \/ CreateHead \/ CreateMark \/ CreateSend \/ SendPart \/ Abort
  <2>1. /\ BesideStays /\ version' \in {version, version + 1} /\ mfaults \subseteq mfaults'
        /\ upload' = upload \/ (upload.pc # "wait" /\ upload'.pc # "wait")
    BY <1>0, <1>1, RewriteMoves, HashMoves, CreateLookMoves, CreateHeadMoves, CreateMarkMoves, CreateSendMoves,
       SendPartMoves, AbortMoves DEF Strikes
  <2>2. UploadGoes
    BY <1>0, <1>1, RewriteMoves, HashMoves, CreateLookMoves, CreateHeadMoves, CreateMarkMoves, CreateSendMoves,
       SendPartMoves, AbortMoves DEF UploadGoes
  <2> QED
    BY <2>1, <2>2, BesideQueue
<1>2. CASE \E n \in Nonces : CreateOpen(n)
  <2>1. /\ BesideStays /\ version' = version /\ mfaults \subseteq mfaults' /\ upload.pc # "wait" /\ upload'.pc # "wait"
        /\ UploadGoes
    BY <1>0, <1>2, CreateOpenMoves DEF Strikes, UploadGoes
  <2> QED
    BY <2>1, BesideQueue
<1>3. CASE ParseStep \/ \E n \in Nonces : Expire(n) \/ Prune(n)
  <2>1. BesideStays /\ UNCHANGED <<version, mfaults, upload>>
    BY <1>0, <1>3, TakeParseMoves, PublishMoves, SweepMoves DEF ParseStep
  <2> QED
    BY <2>1, BesideQueue DEF UploadGoes
<1> QED
  BY <1>1, <1>2, <1>3, CompleteQueue, GiveUpQueue, CarryQueue DEF UploadStep
-----------------------------------------------------------------------------
(* The row and the object.                                                  *)
LEMMA CalmBefore ==
  ASSUME NEW n \in Requests, OthersStay(n), mplan' = mplan, mfaults \subseteq mfaults',
         n = Carried /\ finish[n].late => finish'[n].late, Calm'
  PROVE  Calm
<1>1. Carried \in Requests
  BY DEF Requests
<1>2. finish[Carried].late => finish'[Carried].late
  BY <1>1 DEF OthersStay
<1> QED
  BY <1>2, StraightStays DEF Calm

LEMMA AgreeMoves ==
  ASSUME PathBase, AgreeTrue, NEW n \in Requests, OthersStay(n), UNCHANGED <<mplan, canonical>>, mfaults \subseteq mfaults',
         n = Carried /\ finish[n].late => finish'[n].late, fileRow'.hash = fileRow.hash,
         Lands(n) => Lands(n)' /\ finish'[n].rev = finish[n].rev,
         Mends(n) => Mends(n)' \/ fileRow.hash = canonical,
         RealignsWell(n)'
  PROVE  AgreeTrue'
<1> SUFFICES ASSUME Calm' PROVE Agreed' /\ \A m \in Nonces : RealignsWell(m)'
  BY DEF AgreeTrue
<1>1. Agreed /\ \A m \in Nonces : RealignsWell(m)
  BY CalmBefore DEF AgreeTrue
<1>2. \A m \in Requests : m # n => finish'[m] = finish[m]
  BY DEF OthersStay
<1>3. \A m \in Requests : m # n => (Lands(m) <=> Lands(m)') /\ (Mends(m) <=> Mends(m)')
  BY <1>2 DEF Lands, Mends
<1>4. Landing(canonical) => Landing(canonical)'
  BY <1>2, <1>3 DEF Landing
<1>5. Agreed'
  BY <1>1, <1>3, <1>4 DEF Agreed
<1>6. \A m \in Nonces : RealignsWell(m)'
  <2> TAKE m \in Nonces
  <2>1. CASE m = n
    BY <2>1
  <2>2. CASE m # n
    BY <1>1, <1>2, <1>4, <2>2 DEF RealignsWell, Requests
  <2> QED
    BY <2>1, <2>2
<1> QED
  BY <1>5, <1>6

LEMMA AgreeEnds ==
  ASSUME PathBase, AgreeTrue, NEW n \in Requests, Ends(n), UNCHANGED <<mplan, canonical>>, mfaults \subseteq mfaults',
         fileRow'.hash = fileRow.hash, ~Lands(n), ~Mends(n)
  PROVE  AgreeTrue'
<1>1. RealignsWell(n)' /\ (n = Carried /\ finish[n].late => finish'[n].late)
  BY DEF Ends, RealignsWell
<1> QED
  BY <1>1, AgreeMoves DEF Ends

LEMMA AgreeStays ==
  ASSUME PathBase, AgreeTrue, UNCHANGED <<finish, mplan, canonical>>, mfaults \subseteq mfaults', fileRow'.hash = fileRow.hash
  PROVE  AgreeTrue'
<1>1. Carried \in Requests /\ Carried \notin Nonces /\ OthersStay(Carried)
  BY PathContents DEF Requests, OthersStay
<1>2. (Lands(Carried) => Lands(Carried)') /\ (Mends(Carried) => Mends(Carried)')
  BY DEF Lands, Mends
<1>3. RealignsWell(Carried)'
  BY DEF RealignsWell, PathBase, PlacesTrue, PutPcs
<1> QED
  BY <1>1, <1>2, <1>3, AgreeMoves

(* One who realigns is alone with the row.                                  *)
LEMMA OneRealigns ==
  ASSUME PathBase, QueueTrue, "timeout" \in mfaults => Straight, NEW m \in Nonces, finish[m].pc = "realign",
         NEW n \in Requests, n # m, finish[n].landed
  PROVE  /\ n \in Nonces => /\ "timeout" \in mfaults
                            /\ canonical = finish[n].rev /\ canonical # finish[m].rev
         /\ n \notin Nonces => "timeout" \notin mfaults /\ finish[m].found = canonical /\ canonical = mplan.carried
<1>1. m \in Completing /\ Serving(n)
  BY DEF PathBase, RequestsTrue, RequestTrue, Completing, Serving
<1>2. CASE n \in Nonces
  <2>1. n \in Completing
    BY <1>1, <1>2 DEF Completing
  <2>2. "timeout" \in mfaults
    BY <1>1, <2>1 DEF QueueTrue, AwaitTrue, Awaited
  <2> QED
    BY <1>1, <1>2, <2>1, <2>2 DEF QueueTrue, PairsTrue
<1>3. CASE n \notin Nonces
  <2>1. n = Carried /\ Carried \notin Nonces
    BY <1>3 DEF Requests
  <2>2. ~Straight
    BY <1>1, <2>1, CarriedThere
  <2> QED
    BY <1>1, <1>3, <2>2 DEF QueueTrue, AloneTrue
<1> QED
  BY <1>2, <1>3

LEMMA PutAgree ==
  ASSUME PathBase, NEW n \in Requests, Lands(n)', canonical' = finish'[n].rev
  PROVE  AgreeTrue'
BY DEF AgreeTrue, Agreed, Landing, RealignsWell

LEMMA UpsertAgree ==
  ASSUME PathBase, QueueTrue, NEW n \in Requests, Upsert(n)
  PROVE  AgreeTrue'
<1>0. PathTyped /\ RequestTrue(n)
  BY DEF PathBase, RequestsTrue
<1>1. /\ finish[n].pc = "upsert" /\ UNCHANGED <<version, mplan, mfaults, upload, canonical>>
      /\ fileRow'.hash = finish[n].rev
  BY <1>0, UpsertMoves
<1>2. OthersStay(n) /\ finish'[n].rev = finish[n].rev
      /\ \/ n = Carried /\ finish'[n].pc = "row"
         \/ n # Carried /\ finish'[n].pc \in {"flip", "observe"}
  BY <1>0, UpsertMoves DEF MovesTo, Moves
<1>3. Mends(n)'
  BY <1>1, <1>2 DEF Mends
<1> SUFFICES ASSUME Calm', NEW m \in Nonces, finish'[m].pc = "realign", finish'[m].rev = fileRow'.hash
             PROVE  finish'[m].found = canonical'
  BY <1>3 DEF AgreeTrue, Agreed, RealignsWell
<1>4. m # n /\ finish'[m] = finish[m] /\ m \in Requests
  BY <1>2 DEF OthersStay, Requests
<1>5. "timeout" \in mfaults => Straight
  BY <1>1, StraightStays DEF Calm
<1>6. finish[n].landed
  BY <1>0, <1>1 DEF RequestTrue, AfterPut
<1> QED
  BY <1>1, <1>4, <1>5, <1>6, OneRealigns

LEMMA RealignAgree ==
  ASSUME PathBase, QueueTrue, AgreeTrue, NEW n \in Nonces, finish[n].pc = "realign", OthersStay(n),
         UNCHANGED <<version, mplan, mfaults, canonical>>, fileRow.hash = finish[n].rev, fileRow'.hash = finish[n].found,
         finish'[n].pc # "realign"
  PROVE  AgreeTrue'
<1> SUFFICES ASSUME Calm' PROVE Agreed' /\ \A m \in Nonces : RealignsWell(m)'
  BY DEF AgreeTrue
<1>0. n \in Requests /\ n # Carried
  BY PathContents DEF Requests
<1>1. Calm
  BY <1>0, CalmBefore
<1>2. \A m \in Requests : m # n => finish'[m] = finish[m]
  BY DEF OthersStay
<1>3. finish[n].found = canonical \/ Landing(canonical)
  BY <1>1 DEF AgreeTrue, RealignsWell
<1>4. Landing(canonical) => Landing(canonical)'
  <2> SUFFICES ASSUME NEW k \in Requests, Lands(k), finish[k].rev = canonical PROVE Landing(canonical)'
    BY DEF Landing
  <2>1. k # n
    BY DEF Lands
  <2> QED
    BY <1>2, <2>1 DEF Landing, Lands
<1>5. Agreed'
  BY <1>3, <1>4 DEF Agreed
<1>6. ASSUME NEW m \in Nonces
      PROVE  finish'[m].pc # "realign"
  <2> SUFFICES ASSUME m # n, finish[m].pc = "realign" PROVE FALSE
    BY <1>2 DEF Requests
  <2>1. finish[n].landed /\ finish[m].landed /\ m \in Requests
    BY <1>0 DEF PathBase, RequestsTrue, RequestTrue, AfterPut, Requests
  <2>2. "timeout" \in mfaults => Straight
    BY <1>1 DEF Calm
  <2> QED
    BY <1>0, <2>1, <2>2, OneRealigns
<1> QED
  BY <1>5, <1>6 DEF RealignsWell

LEMMA PutAgainAgree ==
  ASSUME PathBase, QueueTrue, NEW n \in Requests, PutAgain(n)
  PROVE  AgreeTrue'
<1>0. PathTyped /\ PlacesTrue /\ RequestTrue(n)
  BY DEF PathBase, RequestsTrue
<1>1. /\ finish[n].pc = "again" /\ canonical' = finish[n].body /\ Serving(n)
      /\ UNCHANGED <<version, mplan, mfaults, upload, fileRow>>
  BY <1>0, PutAgainMoves DEF Serving
<1>2. n = Carried /\ n \notin Nonces /\ finish[n].rev = mplan.carried /\ canonical' = mplan.carried /\ ~Straight
  BY <1>0, <1>1, CarriedOnly, CarriedThere
<1>3. OthersStay(n) /\ (finish'[n].late \/ fileRow.hash = finish[n].rev)
  BY <1>0, PutAgainMoves DEF Moves
<1> SUFFICES ASSUME Calm' PROVE Agreed' /\ \A m \in Nonces : RealignsWell(m)'
  BY DEF AgreeTrue
<1>4. fileRow'.hash = canonical'
  BY <1>1, <1>2, <1>3 DEF Calm
<1>5. ASSUME NEW m \in Nonces, finish'[m].pc = "realign", fileRow'.hash = finish'[m].rev
      PROVE  FALSE
  <2>1. finish'[m] = finish[m] /\ m # n /\ m \in Requests
    BY <1>2, <1>3, <1>5 DEF OthersStay, Requests
  <2>2. finish[n].landed
    BY <1>0, <1>1 DEF RequestTrue, AfterPut
  <2>3. "timeout" \in mfaults => Straight
    BY <1>1, StraightStays DEF Calm
  <2>4. finish[m].found = mplan.carried
    BY <1>2, <1>5, <2>1, <2>2, <2>3, OneRealigns
  <2>5. finish[m].found # finish[m].rev
    BY <1>5, <2>1 DEF PathBase, RequestsTrue, RequestTrue
  <2> QED
    BY <1>2, <1>4, <1>5, <2>1, <2>4, <2>5
<1> QED
  BY <1>4, <1>5 DEF Agreed, RealignsWell
-----------------------------------------------------------------------------
LEMMA GoesAgree ==
  ASSUME PathBase, AgreeTrue, NEW n \in Requests, NEW pc, MovesTo(n, pc), UNCHANGED <<mplan, canonical>>,
         mfaults \subseteq mfaults', fileRow'.hash = fileRow.hash, pc # "realign",
         Lands(n) => Lands(n)', Mends(n) => Mends(n)' \/ fileRow.hash = canonical
  PROVE  AgreeTrue'
<1>1. RealignsWell(n)' /\ (n = Carried /\ finish[n].late => finish'[n].late) /\ OthersStay(n) /\ finish'[n].rev = finish[n].rev
  BY DEF MovesTo, Moves, RealignsWell
<1> QED
  BY <1>1, AgreeMoves

LEMMA ServeAgree ==
  ASSUME PathBase, QueueTrue, AgreeTrue, NEW n \in Requests, ServeUpload(n) \/ Die(n)
  PROVE  AgreeTrue'
<1>0. PathTyped /\ PlacesTrue /\ RequestsTrue /\ RequestTrue(n)
  BY DEF PathBase, RequestsTrue
<1>1. ASSUME finish[n].pc \in BeforePut PROVE ~Lands(n) /\ ~Mends(n)
  BY <1>1 DEF BeforePut, Lands, Mends
<1>2. CASE Look(n) \/ GetStaged(n)
  <2>1. finish[n].pc \in BeforePut /\ UNCHANGED <<mplan, canonical, fileRow, mfaults>>
    BY <1>0, <1>2, LookMoves, GetStagedMoves, StagedIsComplete DEF HubStays, BeforePut, GetStaged, At
  <2>2. \/ Ends(n)
        \/ OthersStay(n) /\ finish'[n].pc # "realign" /\ finish'[n].late = finish[n].late
    BY <1>0, <1>2, LookMoves, GetStagedMoves, StagedIsComplete DEF Moves, GetStaged, At
  <2>3. CASE Ends(n)
    BY <1>1, <2>1, <2>3, AgreeEnds
  <2>4. CASE OthersStay(n) /\ finish'[n].pc # "realign" /\ finish'[n].late = finish[n].late
    <3>1. RealignsWell(n)'
      BY <2>4 DEF RealignsWell
    <3> QED
      BY <1>1, <2>1, <2>4, <3>1, AgreeMoves
  <2> QED
    BY <2>2, <2>3, <2>4
<1>3. CASE Assemble(n) \/ CheckExtends(n) \/ Preserve(n)
  <2>1. finish[n].pc \in BeforePut /\ UNCHANGED <<mplan, canonical, fileRow>> /\ mfaults \subseteq mfaults'
    BY <1>0, <1>3, AssembleMoves, CheckExtendsMoves, PreserveMoves DEF HubStays, BeforePut, Strikes
  <2>2. ASSUME NEW pc \in BeforePut, MovesTo(n, pc) PROVE AgreeTrue'
    BY <1>1, <2>1, <2>2, GoesAgree DEF BeforePut
  <2>3. CASE Ends(n)
    BY <1>1, <2>1, <2>3, AgreeEnds
  <2>4. Ends(n) \/ \E pc \in BeforePut : MovesTo(n, pc)
    BY <1>0, <1>3, AssembleMoves, CheckExtendsMoves, PreserveMoves DEF BeforePut
  <2> QED
    BY <2>2, <2>3, <2>4
<1>4. CASE PutCanonical(n)
  <2>1. /\ finish[n].pc = "put"
        /\ UNCHANGED <<version, mplan, mfaults, upload, displaced, fileRow, derived, parses, parse, stored>>
    BY <1>0, <1>4, PutMoves
  <2>2. PICK landed \in BOOLEAN :
          /\ Moves(n, IF n = Carried THEN "upsert" ELSE "drop", finish[n].old, finish[n].body, finish[n].found, landed,
                   finish[n].late)
          /\ landed => finish[n].body = finish[n].rev /\ canonical' = finish[n].rev
          /\ ~landed => finish[n].body # finish[n].rev /\ canonical' = canonical
    BY <1>0, <1>4, PutMoves
  <2>3. OthersStay(n) /\ finish'[n].pc \in {"upsert", "drop"} /\ finish'[n].landed = landed /\ finish'[n].rev = finish[n].rev
        /\ finish'[n].late = finish[n].late
    BY <2>2 DEF Moves
  <2>4. CASE landed
    <3>1. Lands(n)' /\ canonical' = finish'[n].rev
      BY <2>2, <2>3, <2>4 DEF Lands
    <3> QED
      BY <3>1, PutAgree
  <2>5. CASE ~landed
    <3>1. RealignsWell(n)' /\ canonical' = canonical
      BY <2>2, <2>3, <2>5 DEF RealignsWell
    <3>2. ~Lands(n) /\ ~Mends(n)
      BY <1>1, <2>1 DEF BeforePut
    <3> QED
      BY <2>1, <2>3, <3>1, <3>2, AgreeMoves
  <2> QED
    BY <2>4, <2>5
<1>5. CASE DropStaging(n)
  <2>1. finish[n].pc = "drop" /\ UNCHANGED <<mplan, canonical, fileRow>> /\ mfaults \subseteq mfaults' /\ ~Mends(n)
    BY <1>0, <1>5, DropMoves DEF HubStays, Strikes, Mends
  <2>2. CASE finish[n].landed /\ MovesTo(n, "upsert")
    <3>1. Lands(n)'
      BY <2>2 DEF Lands, MovesTo, Moves
    <3> QED
      BY <2>1, <2>2, <3>1, GoesAgree
  <2>3. CASE ~finish[n].landed /\ Ends(n)
    <3>1. ~Lands(n)
      BY <2>3 DEF Lands
    <3> QED
      BY <2>1, <2>3, <3>1, AgreeEnds
  <2> QED
    BY <1>0, <1>5, <2>2, <2>3, DropMoves
<1>6. CASE Upsert(n)
  BY <1>6, UpsertAgree
<1>7. CASE Flip(n) \/ PutRow(n) \/ PutHead(n) \/ Observe(n) \/ Reflip(n)
  <2>1. /\ finish[n].pc \in {"flip", "row", "head", "observe", "reflip"} /\ ~Lands(n)
        /\ UNCHANGED <<mplan, canonical, fileRow, mfaults>>
    BY <1>0, <1>7, FlipMoves, PutRowMoves, PutHeadMoves, ObserveMoves, ReflipMoves DEF HubStays, Lands
  <2>2. PICK pc \in {"send", "observe", "head", "flip", "again", "compare", "resend"} :
          /\ MovesTo(n, pc)
          /\ Mends(n) => \/ fileRow.hash = canonical
                         \/ n # Carried /\ pc \in {"observe", "compare"}
                         \/ pc \in {"head", "again"}
    <3>1. CASE Flip(n)
      <4>1. finish[n].pc = "flip" /\ ((n = Carried /\ MovesTo(n, "send")) \/ (n # Carried /\ MovesTo(n, "observe")))
        BY <1>0, <3>1, FlipMoves
      <4> QED
        BY <4>1 DEF Mends
    <3>2. CASE PutRow(n)
      <4>1. \/ fileRow.hash = finish[n].rev /\ MovesTo(n, "head")
            \/ fileRow.hash # finish[n].rev /\ (MovesTo(n, "send") \/ MovesTo(n, "flip"))
        BY <1>0, <3>2, PutRowMoves
      <4> QED
        BY <4>1 DEF Mends
    <3>3. CASE PutHead(n)
      <4>1. \/ canonical # finish[n].rev /\ MovesTo(n, "again")
            \/ canonical = finish[n].rev /\ (MovesTo(n, "send") \/ MovesTo(n, "flip"))
        BY <1>0, <3>3, PutHeadMoves
      <4> QED
        BY <4>1 DEF Mends
    <3>4. CASE Observe(n)
      <4>1. /\ finish[n].pc = "observe"
            /\ \/ fileRow.hash = finish[n].rev /\ MovesTo(n, "compare")
               \/ fileRow.hash # finish[n].rev /\ MovesTo(n, "send")
        BY <1>0, <3>4, ObserveMoves
      <4>2. n # Carried
        BY <1>0, <4>1, StagedIsComplete
      <4> QED
        BY <4>1, <4>2 DEF Mends
    <3>5. CASE Reflip(n)
      <4>1. finish[n].pc = "reflip" /\ MovesTo(n, "resend")
        BY <1>0, <3>5, ReflipMoves
      <4> QED
        BY <4>1 DEF Mends
    <3> QED
      BY <1>7, <3>1, <3>2, <3>3, <3>4, <3>5
  <2>3. Mends(n) => Mends(n)' \/ fileRow.hash = canonical
    BY <2>1, <2>2 DEF Mends, MovesTo, Moves
  <2> QED
    BY <2>1, <2>2, <2>3, GoesAgree
<1>8. CASE PutAgain(n)
  BY <1>8, PutAgainAgree
<1>9. CASE Compare(n)
  <2>1. finish[n].pc = "compare" /\ UNCHANGED <<mplan, canonical, fileRow, mfaults>> /\ ~Lands(n)
    BY <1>0, <1>9, CompareMoves DEF HubStays, Lands
  <2>2. canonical # Nothing
    BY <1>0, <2>1 DEF RequestTrue, AfterPut
  <2>3. /\ OthersStay(n) /\ finish'[n].rev = finish[n].rev /\ finish'[n].found = canonical /\ finish'[n].late = finish[n].late
        /\ finish'[n].pc = "realign" \/ (finish'[n].pc = "send" /\ canonical = finish[n].rev)
    BY <1>0, <1>9, <2>2, CompareMoves DEF Moves
  <2>4. RealignsWell(n)' /\ (Mends(n) => Mends(n)' \/ fileRow.hash = canonical)
    BY <2>1, <2>3 DEF RealignsWell, Mends
  <2> QED
    BY <2>1, <2>3, <2>4, AgreeMoves
<1>10. CASE Realign(n)
  <2>1. finish[n].pc = "realign" /\ UNCHANGED <<version, mplan, mfaults, canonical>> /\ n \in Nonces /\ ~Lands(n)
    BY <1>0, <1>10, RealignMoves, StagedIsComplete DEF Lands
  <2>2. CASE fileRow.hash = finish[n].rev
    <3>1. fileRow'.hash = finish[n].found /\ OthersStay(n) /\ finish'[n].pc # "realign"
      BY <1>0, <1>10, <2>2, RealignMoves DEF Ends, MovesTo, Moves
    <3> QED
      BY <2>1, <2>2, <3>1, RealignAgree
  <2>3. CASE fileRow.hash # finish[n].rev
    <3>1. UNCHANGED fileRow /\ MovesTo(n, "send") /\ ~Mends(n)
      BY <1>0, <1>10, <2>3, RealignMoves DEF Mends
    <3> QED
      BY <2>1, <3>1, GoesAgree
  <2> QED
    BY <2>2, <2>3
<1>11. CASE Resend(n) \/ Send(n)
  <2>1. finish[n].pc \in {"resend", "send"} /\ Ends(n) /\ UNCHANGED <<mplan, mfaults, canonical, fileRow>>
    BY <1>0, <1>11, ResendMoves, SendMoves
  <2>2. ~Lands(n) /\ ~Mends(n)
    BY <2>1 DEF Lands, Mends
  <2> QED
    BY <2>1, <2>2, AgreeEnds
<1>12. CASE Die(n)
  BY <1>0, <1>12, DieMoves DEF Strikes, AgreeTrue, Calm
<1> QED
  BY <1>2, <1>3, <1>4, <1>5, <1>6, <1>7, <1>8, <1>9, <1>10, <1>11, <1>12 DEF ServeUpload

LEMMA CollectorAgree ==
  ASSUME PathBase, AgreeTrue,
         UploadStep \/ GiveUp \/ Rewrite \/ ParseStep \/ Carry \/ (\E n \in Nonces : Expire(n) \/ Prune(n))
  PROVE  AgreeTrue'
<1>0. PathTyped /\ PlacesTrue /\ RequestsTrue /\ RecordsTrue
  BY DEF PathBase
<1>1. CASE \/ Rewrite \/ Hash \/ CreateLook \/ CreateHead \/ CreateMark \/ CreateSend \/ SendPart \/ Abort \/ GiveUp
  <2>1. BesideStays /\ mfaults \subseteq mfaults' /\ fileRow'.hash = fileRow.hash
    BY <1>0, <1>1, RewriteMoves, HashMoves, CreateLookMoves, CreateHeadMoves, CreateMarkMoves, CreateSendMoves,
       SendPartMoves, AbortMoves, GiveUpMoves DEF Strikes, HubStays
  <2> QED
    BY <2>1, AgreeStays DEF BesideStays
<1>2. CASE (\E n \in Nonces : CreateOpen(n)) \/ ParseStep \/ \E n \in Nonces : Expire(n) \/ Prune(n)
  <2>1. BesideStays /\ mfaults \subseteq mfaults' /\ fileRow'.hash = fileRow.hash
    BY <1>0, <1>2, CreateOpenMoves, TakeParseMoves, PublishMoves, SweepMoves DEF Strikes, HubStays, ParseStep
  <2> QED
    BY <2>1, AgreeStays DEF BesideStays
<1>3. ASSUME NEW n \in Requests, OthersStay(n), finish[n].pc = "idle", finish'[n].pc = "look", HubStays,
             UNCHANGED <<mplan, mfaults>>, n = Carried => ~finish[n].late
      PROVE  AgreeTrue'
  <2>1. ~Lands(n) /\ ~Mends(n) /\ RealignsWell(n)' /\ UNCHANGED <<canonical, fileRow>>
    BY <1>3 DEF Lands, Mends, RealignsWell, HubStays
  <2> QED
    BY <1>3, <2>1, AgreeMoves
<1>4. CASE Complete
  <2>0. upload.n \in Nonces /\ upload.pc = "part" /\ ~Serving(upload.n)
    BY <1>0, <1>4 DEF PlacesTrue, RecordsTrue, Complete
  <2> PICK n \in Nonces : n = upload.n
    BY <2>0
  <2>1. OthersStay(n) /\ HubStays /\ UNCHANGED <<mplan, mfaults>> /\ finish'[n].pc = "look"
    BY <1>0, <1>4, CompleteMoves
  <2>2. finish[n].pc = "idle" /\ n # Carried /\ n \in Requests
    BY <1>0, <2>0, PathContents DEF Serving, PlacesTrue, CompletePcs, BeforePut, Requests
  <2> QED
    BY <1>3, <2>1, <2>2
<1>5. CASE Carry
  <2>1. OthersStay(Carried) /\ HubStays /\ UNCHANGED <<mplan, mfaults>> /\ finish[Carried].pc = "idle" /\ finish'[Carried].pc = "look"
    BY <1>0, <1>5, CarryMoves
  <2>2. Carried \in Requests
    BY DEF Requests
  <2>3. ~finish[Carried].late
    BY <1>0, <2>1, <2>2, PathContents DEF RequestsTrue, RequestTrue
  <2> QED
    BY <1>3, <2>1, <2>2, <2>3
<1> QED
  BY <1>1, <1>2, <1>4, <1>5 DEF UploadStep
-----------------------------------------------------------------------------
(* What the parser is owed.                                                 *)
LEMMA OweDue ==
  ASSUME Due' PROVE OweTrue'
BY DEF OweTrue, ParsedOrDue

LEMMA OweMoves ==
  ASSUME OweTrue, NEW n \in Requests, OthersStay(n), mplan' = mplan, mfaults \subseteq mfaults',
         n = Carried /\ finish[n].late => finish'[n].late,
         fileRow'.hash = fileRow.hash, parses \subseteq parses', UNCHANGED <<parse, derived>>,
         Sends(n) => Sends(n)' \/ fileRow.hash \in parses'
  PROVE  OweTrue'
<1> SUFFICES ASSUME Calm', ~mplan.other PROVE ParsedOrDue'
  BY DEF OweTrue
<1>1. ParsedOrDue
  BY CalmBefore DEF OweTrue
<1>2. \A m \in Requests : m # n => (Sends(m) <=> Sends(m)')
  BY DEF OthersStay, Sends, Lands
<1>3. Due => Due'
  BY <1>2 DEF Due
<1> QED
  BY <1>1, <1>3 DEF ParsedOrDue

LEMMA OweStays ==
  ASSUME OweTrue, UNCHANGED <<finish, mplan>>, mfaults \subseteq mfaults', fileRow'.hash = fileRow.hash,
         parses \subseteq parses', UNCHANGED <<parse, derived>>
  PROVE  OweTrue'
<1>1. Carried \in Requests /\ OthersStay(Carried)
  BY DEF Requests, OthersStay
<1>2. Sends(Carried) => Sends(Carried)'
  BY DEF Sends, Lands
<1> QED
  BY <1>1, <1>2, OweMoves

(* A step of a request that leaves the records of the session alone.        *)
LEMMA OweGoes ==
  ASSUME OweTrue, NEW n \in Requests, HubStays, UNCHANGED <<mplan>>, mfaults \subseteq mfaults', ~Sends(n),
         OthersStay(n), n = Carried /\ finish[n].late => finish'[n].late
  PROVE  OweTrue'
BY OweMoves DEF HubStays

LEMMA FlippedElsewhere ==
  ASSUME NEW rev, fileRow.hash # rev
  PROVE  Flipped(rev) = derived
BY DEF Flipped

LEMMA ServeOwe ==
  ASSUME PathBase, OweTrue, NEW n \in Requests, ServeUpload(n) \/ Die(n)
  PROVE  OweTrue'
<1>0. PathTyped /\ PlacesTrue /\ RequestsTrue /\ RequestTrue(n)
  BY DEF PathBase, RequestsTrue
<1>1. CASE Look(n) \/ Assemble(n) \/ GetStaged(n) \/ CheckExtends(n) \/ Preserve(n)
  <2>1. finish[n].pc \in BeforePut /\ HubStays /\ mplan' = mplan /\ mfaults \subseteq mfaults'
    BY <1>0, <1>1, LookMoves, AssembleMoves, GetStagedMoves, CheckExtendsMoves, PreserveMoves, StagedIsComplete
       DEF BeforePut, GetStaged, At, Strikes
  <2>2. OthersStay(n) /\ (n = Carried => finish'[n].late = finish[n].late)
    BY <1>0, <1>1, LookMoves, AssembleMoves, GetStagedMoves, CheckExtendsMoves, PreserveMoves, StagedIsComplete
       DEF GetStaged, At, Moves, MovesTo, Ends
  <2>3. ~Sends(n)
    BY <2>1 DEF Sends, Lands, BeforePut
  <2> QED
    BY <2>1, <2>2, <2>3, OweGoes
<1>2. CASE PutCanonical(n)
  <2>1. /\ finish[n].pc = "put" /\ ~Sends(n)
        /\ UNCHANGED <<version, mplan, mfaults, upload, displaced, fileRow, derived, parses, parse, stored>>
    BY <1>0, <1>2, PutMoves DEF Sends, Lands
  <2>2. OthersStay(n) /\ finish'[n].pc \in {"upsert", "drop"} /\ finish'[n].late = finish[n].late
    BY <1>0, <1>2, PutMoves DEF Moves
  <2> QED
    BY <2>1, <2>2, OweMoves
<1>3. CASE DropStaging(n)
  <2>1. finish[n].pc = "drop" /\ HubStays /\ UNCHANGED mplan /\ mfaults \subseteq mfaults'
    BY <1>0, <1>3, DropMoves DEF Strikes
  <2>2. OthersStay(n) /\ (n = Carried => finish'[n].late = finish[n].late) /\ (Sends(n) => Sends(n)')
    <3>1. CASE finish[n].landed /\ MovesTo(n, "upsert")
      BY <3>1 DEF MovesTo, Moves, Sends, Lands
    <3>2. CASE ~finish[n].landed /\ Ends(n)
      BY <2>1, <3>2 DEF Ends, Sends, Lands
    <3> QED
      BY <1>0, <1>3, <3>1, <3>2, DropMoves
  <2> QED
    BY <2>1, <2>2, OweMoves DEF HubStays
<1>4. CASE Upsert(n)
  <2>1. fileRow'.hash = finish[n].rev /\ finish'[n].rev = finish[n].rev /\ finish'[n].pc \in {"row", "flip", "observe"}
    BY <1>0, <1>4, UpsertMoves DEF MovesTo, Moves
  <2> QED
    BY <2>1, OweDue DEF Due, Sends
<1>5. CASE Flip(n)
  <2>1. finish[n].pc = "flip" /\ UNCHANGED <<mplan, mfaults, fileRow, parses, parse>> /\ derived' = Flipped(finish[n].rev)
    BY <1>0, <1>5, FlipMoves
  <2>2. finish'[n].rev = finish[n].rev /\ finish'[n].pc \in {"send", "observe"} /\ OthersStay(n) /\ finish'[n].late = finish[n].late
    BY <1>0, <1>5, FlipMoves DEF MovesTo, Moves
  <2>3. CASE fileRow.hash = finish[n].rev
    BY <2>1, <2>2, <2>3, OweDue DEF Due, Sends
  <2>4. CASE fileRow.hash # finish[n].rev
    <3>1. ~Sends(n) /\ derived' = derived
      BY <2>1, <2>4, FlippedElsewhere DEF Sends, Lands
    <3> QED
      BY <2>1, <2>2, <3>1, OweMoves
  <2> QED
    BY <2>3, <2>4
<1>6. CASE PutRow(n) \/ PutHead(n) \/ Observe(n) \/ Compare(n)
  <2>1. finish[n].pc \in {"row", "head", "observe", "compare"} /\ HubStays /\ UNCHANGED <<mplan, mfaults>>
    BY <1>0, <1>6, PutRowMoves, PutHeadMoves, ObserveMoves, CompareMoves
  <2>2. /\ OthersStay(n) /\ finish'[n].rev = finish[n].rev /\ finish'[n].late = finish[n].late
        /\ finish'[n].pc \in {"head", "send", "flip", "again", "compare", "realign"}
    BY <1>0, <1>6, PutRowMoves, PutHeadMoves, ObserveMoves, CompareMoves DEF MovesTo, Moves
  <2>3. Sends(n) => Sends(n)'
    BY <2>1, <2>2 DEF Sends, Lands, HubStays
  <2> QED
    BY <2>1, <2>2, <2>3, OweMoves DEF HubStays
<1>7. CASE PutAgain(n)
  <2>1. finish[n].pc = "again" /\ UNCHANGED <<mplan, mfaults, fileRow, parses, parse, derived>> /\ n = Carried
    BY <1>0, <1>7, PutAgainMoves, CarriedOnly
  <2>2. finish'[n].rev = finish[n].rev /\ finish'[n].pc \in {"send", "flip"} /\ (finish'[n].late \/ fileRow.hash = finish[n].rev)
    BY <1>0, <1>7, PutAgainMoves DEF Moves
  <2>3. CASE finish'[n].late
    BY <2>1, <2>3 DEF OweTrue, Calm
  <2>4. CASE fileRow.hash = finish[n].rev
    BY <2>1, <2>2, <2>4, OweDue DEF Due, Sends
  <2> QED
    BY <2>2, <2>3, <2>4
<1>8. CASE Realign(n)
  <2>1. finish[n].pc = "realign" /\ UNCHANGED <<version, mplan, mfaults, canonical, derived, parses, parse>>
    BY <1>0, <1>8, RealignMoves
  <2>2. CASE mplan.other
    BY <2>1, <2>2 DEF OweTrue
  <2>3. CASE fileRow'.hash = finish[n].found /\ MovesTo(n, "reflip")
    BY <2>3, OweDue DEF Due, Sends, MovesTo, Moves
  <2>4. CASE fileRow.hash # finish[n].rev /\ UNCHANGED fileRow /\ MovesTo(n, "send")
    <3>1. ~Sends(n)
      BY <2>1, <2>4 DEF Sends, Lands
    <3> QED
      BY <2>1, <2>4, <3>1, OweMoves DEF MovesTo, Moves
  <2> QED
    BY <1>0, <1>8, <2>2, <2>3, <2>4, RealignMoves
<1>9. CASE Reflip(n)
  <2>1. finish[n].pc = "reflip" /\ UNCHANGED <<mplan, mfaults, fileRow, parses, parse>> /\ derived' = Flipped(finish[n].found)
    BY <1>0, <1>9, ReflipMoves
  <2>2. finish'[n].found = finish[n].found /\ finish'[n].pc = "resend" /\ OthersStay(n) /\ finish'[n].late = finish[n].late
    BY <1>0, <1>9, ReflipMoves DEF MovesTo, Moves
  <2>3. CASE fileRow.hash = finish[n].found
    BY <2>1, <2>2, <2>3, OweDue DEF Due, Sends
  <2>4. CASE fileRow.hash # finish[n].found
    <3>1. ~Sends(n) /\ derived' = derived
      BY <2>1, <2>4, FlippedElsewhere DEF Sends, Lands
    <3> QED
      BY <2>1, <2>2, <3>1, OweMoves
  <2> QED
    BY <2>3, <2>4
<1>10. CASE Resend(n)
  <2>1. finish[n].pc = "resend" /\ Ends(n) /\ parses' = parses \cup {finish[n].found}
        /\ UNCHANGED <<mplan, mfaults, fileRow, derived, parse>>
    BY <1>0, <1>10, ResendMoves
  <2>2. Sends(n) => fileRow.hash \in parses'
    BY <2>1 DEF Sends, Lands
  <2> QED
    BY <2>1, <2>2, OweMoves DEF Ends
<1>11. CASE Send(n)
  <2>1. finish[n].pc = "send" /\ Ends(n) /\ (~mplan.other => parses' = parses \cup {finish[n].rev})
        /\ UNCHANGED <<mplan, mfaults, fileRow, derived, parse>>
    BY <1>0, <1>11, SendMoves
  <2>2. CASE mplan.other
    BY <2>1, <2>2 DEF OweTrue
  <2>3. CASE ~mplan.other
    <3>1. Sends(n) => fileRow.hash \in parses'
      BY <2>1, <2>3 DEF Sends, Lands
    <3> QED
      BY <2>1, <2>3, <3>1, OweMoves DEF Ends
  <2> QED
    BY <2>2, <2>3
<1>12. CASE Die(n)
  BY <1>0, <1>12, DieMoves DEF Strikes, OweTrue, Calm
<1> QED
  BY <1>1, <1>2, <1>3, <1>4, <1>5, <1>6, <1>7, <1>8, <1>9, <1>10, <1>11, <1>12 DEF ServeUpload

(* The parser takes the object that the row has, or somebody sends again.   *)
LEMMA TakeOwe ==
  ASSUME PathBase, AgreeTrue, OweTrue, NEW m \in parses, TakeParse(m)
  PROVE  OweTrue'
<1>0. /\ BesideStays /\ UNCHANGED <<version, mfaults, upload, fileRow, derived, stored>>
      /\ parse = NotParsing /\ parses' = parses \ {m}
      /\ \/ fileRow.hash = m /\ parse' = [hash |-> m, bytes |-> canonical]
         \/ fileRow.hash # m /\ parse' = NotParsing
  BY TakeParseMoves DEF PathBase
<1> SUFFICES ASSUME Calm', ~mplan.other PROVE ParsedOrDue'
  BY <1>0 DEF OweTrue, BesideStays
<1>1. Calm
  BY <1>0, StraightStays DEF Calm, BesideStays
<1>2. ParsedOrDue /\ Agreed
  BY <1>1 DEF OweTrue, AgreeTrue
<1>3. \A n \in Requests : Sends(n) <=> Sends(n)'
  BY <1>0 DEF Sends, Lands, BesideStays
<1>4. CASE fileRow.hash = m
  <2>1. parse' = [hash |-> m, bytes |-> canonical]
    BY <1>0, <1>4
  <2>2. CASE fileRow.hash = canonical
    <3>1. parse' = [hash |-> fileRow.hash, bytes |-> fileRow.hash] /\ parse'.bytes = fileRow.hash
      BY <1>4, <2>1, <2>2
    <3> QED
      BY <1>0, <3>1 DEF ParsedOrDue
  <2>3. CASE Landing(canonical)
    <3>1. PICK n \in Requests : Lands(n)
      BY <2>3 DEF Landing
    <3>2. Sends(n)'
      BY <1>3, <3>1 DEF Sends
    <3> QED
      BY <3>2 DEF ParsedOrDue, Due
  <2>4. CASE \E n \in Requests : Mends(n)
    <3>1. PICK n \in Requests : Mends(n)
      BY <2>4
    <3>2. Sends(n)
      BY <3>1 DEF Sends, Mends
    <3> QED
      BY <1>3, <3>2 DEF ParsedOrDue, Due
  <2> QED
    BY <1>2, <2>2, <2>3, <2>4 DEF Agreed
<1>5. CASE fileRow.hash # m
  <2>1. Due => Due'
    BY <1>0, <1>3, <1>5 DEF Due
  <2> QED
    BY <1>0, <1>2, <1>5, <2>1 DEF ParsedOrDue
<1> QED
  BY <1>4, <1>5

LEMMA PublishOwe ==
  ASSUME PathBase, OweTrue, Publish
  PROVE  OweTrue'
<1>0. /\ BesideStays /\ UNCHANGED <<version, mfaults, upload, parses, stored>> /\ fileRow'.hash = fileRow.hash
      /\ parse # NotParsing /\ parse' = NotParsing
      /\ \/ fileRow.hash = parse.hash /\ derived' = [state |-> "ready", rev |-> parse.hash, bytes |-> parse.bytes]
         \/ fileRow.hash # parse.hash /\ UNCHANGED derived
  BY PublishMoves DEF PathBase
<1> SUFFICES ASSUME Calm', ~mplan.other PROVE ParsedOrDue'
  BY <1>0 DEF OweTrue, BesideStays
<1>1. ParsedOrDue
  BY <1>0, StraightStays DEF OweTrue, Calm, BesideStays
<1>2. \A n \in Requests : Sends(n) <=> Sends(n)'
  BY <1>0 DEF Sends, Lands, BesideStays
<1>3. Due => Due'
  BY <1>0, <1>2 DEF Due
<1>4. CASE fileRow.hash = parse.hash /\ parse.bytes = fileRow.hash
  <2>1. derived' = [state |-> "ready", rev |-> fileRow.hash, bytes |-> fileRow.hash]
    BY <1>0, <1>4
  <2> QED
    BY <1>0, <2>1 DEF ParsedOrDue
<1>5. CASE fileRow.hash = parse.hash /\ parse.bytes # fileRow.hash
  <2>1. Due
    BY <1>0, <1>1, <1>5 DEF ParsedOrDue
  <2> QED
    BY <1>3, <2>1 DEF ParsedOrDue
<1>6. CASE fileRow.hash # parse.hash
  <2>1. parse # [hash |-> fileRow.hash, bytes |-> fileRow.hash] /\ derived' = derived
    BY <1>0, <1>6
  <2> QED
    BY <1>0, <1>1, <1>3, <2>1 DEF ParsedOrDue
<1> QED
  BY <1>4, <1>5, <1>6

LEMMA CollectorOwe ==
  ASSUME PathBase, AgreeTrue, OweTrue,
         UploadStep \/ GiveUp \/ Rewrite \/ ParseStep \/ Carry \/ (\E n \in Nonces : Expire(n) \/ Prune(n))
  PROVE  OweTrue'
<1>0. PathTyped /\ PlacesTrue /\ RequestsTrue /\ RecordsTrue
  BY DEF PathBase
<1>1. CASE \/ Rewrite \/ Hash \/ CreateLook \/ CreateHead \/ CreateMark \/ CreateSend \/ SendPart \/ Abort \/ GiveUp
  <2>1. /\ BesideStays /\ mfaults \subseteq mfaults' /\ fileRow'.hash = fileRow.hash /\ parses \subseteq parses'
        /\ UNCHANGED <<parse, derived>>
    BY <1>0, <1>1, RewriteMoves, HashMoves, CreateLookMoves, CreateHeadMoves, CreateMarkMoves, CreateSendMoves,
       SendPartMoves, AbortMoves, GiveUpMoves DEF Strikes, HubStays
  <2> QED
    BY <2>1, OweStays DEF BesideStays
<1>2. CASE (\E n \in Nonces : CreateOpen(n)) \/ \E n \in Nonces : Expire(n) \/ Prune(n)
  <2>1. BesideStays /\ mfaults \subseteq mfaults' /\ HubStays
    BY <1>0, <1>2, CreateOpenMoves, SweepMoves DEF Strikes
  <2> QED
    BY <2>1, OweStays DEF BesideStays, HubStays
<1>3. CASE Complete
  <2>0. upload.n \in Nonces /\ upload.pc = "part" /\ ~Serving(upload.n)
    BY <1>0, <1>3 DEF PlacesTrue, RecordsTrue, Complete
  <2> PICK n \in Nonces : n = upload.n
    BY <2>0
  <2>1. OthersStay(n) /\ HubStays /\ UNCHANGED <<mplan, mfaults>>
    BY <1>0, <1>3, CompleteMoves
  <2>2. n # Carried /\ n \in Requests /\ ~Sends(n)
    BY <1>0, <2>0, PathContents DEF Serving, Requests, Sends, Lands
  <2> QED
    BY <2>1, <2>2, OweGoes
<1>4. CASE Carry
  <2>1. OthersStay(Carried) /\ HubStays /\ UNCHANGED <<mplan, mfaults>> /\ finish[Carried].pc = "idle"
    BY <1>0, <1>4, CarryMoves
  <2>2. Carried \in Requests /\ ~Sends(Carried)
    BY <2>1 DEF Requests, Sends, Lands
  <2>3. ~finish[Carried].late
    BY <1>0, <2>1, <2>2, PathContents DEF RequestsTrue, RequestTrue
  <2> QED
    BY <2>1, <2>2, <2>3, OweGoes
<1> QED
  BY <1>0, <1>1, <1>2, <1>3, <1>4, TakeOwe, PublishOwe DEF UploadStep, ParseStep
-----------------------------------------------------------------------------
(* What was said to be stored is kept.                                      *)
LEMMA PrefixGrows ==
  ASSUME NEW a \in PathBodies, NEW b \in PathBodies, NEW c \in PathBodies, IsPrefix(a, b), Grown(c, b)
  PROVE  IsPrefix(a, c)
<1>1. Len(a) \in Nat /\ Len(b) \in Nat /\ Len(c) \in Nat /\ Len(a) <= Len(b) /\ Len(b) <= Len(c)
  BY DEF IsPrefix, Grown, PathBodies
<1>2. \A i \in 1..Len(a) : a[i] = b[i]
  BY <1>1 DEF IsPrefix, PathBodies
<1>3. \A i \in 1..Len(b) : b[i] = c[i]
  BY <1>1 DEF Grown, PathBodies
<1>4. \A i \in 1..Len(a) : a[i] = c[i]
  BY <1>1, <1>2, <1>3
<1>5. SubSeq(a, 1, Len(a)) = SubSeq(c, 1, Len(a))
  BY <1>1, <1>4 DEF PathBodies
<1> QED
  BY <1>1, <1>5 DEF IsPrefix

LEMMA PrefixOfItself ==
  ASSUME NEW a \in PathBodies
  PROVE  IsPrefix(a, a)
BY DEF IsPrefix, PathBodies

(* Nobody but the request that the collector awaits is served.              *)
LEMMA QuietAlone ==
  ASSUME PathBase, QueueTrue, Quiet, NEW n \in Requests, Serving(n)
  PROVE  /\ n \in Nonces /\ n \in Completing /\ Awaited(n) /\ Calm /\ "timeout" \notin mfaults
         /\ \A m \in Requests : m # n => ~Serving(m)
         /\ finish[n].landed => canonical = finish[n].rev
<1>1. finish[Carried].pc = "idle" /\ ~finish[Carried].late /\ Carried \in Requests /\ "timeout" \notin mfaults /\ "crash" \notin mfaults
  BY PathContents DEF PathBase, RequestsTrue, RequestTrue, Requests, Quiet
<1>2. Calm
  BY <1>1 DEF Calm
<1>3. ~Serving(Carried)
  BY <1>1 DEF Serving
<1>4. \A m \in Requests : Serving(m) => m \in Completing /\ Awaited(m)
  BY <1>1, <1>3 DEF Requests, Completing, QueueTrue, AwaitTrue
<1>5. n \in Completing /\ n \in Nonces /\ Awaited(n)
  BY <1>4 DEF Completing
<1>6. finish[n].landed => canonical # Nothing
  BY DEF PathBase, RequestsTrue, RequestTrue
<1>7. finish[n].landed => canonical = finish[n].rev
  BY <1>1, <1>5, <1>6 DEF QueueTrue, AloneTrue, Quiet
<1> QED
  BY <1>1, <1>2, <1>4, <1>5, <1>7 DEF Awaited

LEMMA QuietBefore ==
  ASSUME mplan' = mplan, mfaults \subseteq mfaults', Quiet'
  PROVE  Quiet
BY DEF Quiet

LEMMA KeepServe ==
  ASSUME PathBase, QueueTrue, KeepTrue, NEW n \in Requests, Serving(n), OthersStay(n), mplan' = mplan, mfaults \subseteq mfaults',
         upload' = upload \/ UploadFollows(n), canonical' = canonical, displaced \subseteq displaced',
         stored' = stored \/ (stored' = stored \cup {finish[n].rev} /\ finish[n].landed),
         Quiet /\ KeepsStored => Decides(n)'
  PROVE  KeepTrue'
<1> SUFFICES ASSUME Quiet' PROVE KeepsStored'
  BY DEF KeepTrue
<1>1. Quiet /\ KeepsStored
  BY QuietBefore DEF KeepTrue
<1>2. n \in Nonces /\ Awaited(n) /\ (\A m \in Requests : m # n => ~Serving(m)) /\ (finish[n].landed => canonical = finish[n].rev)
  BY <1>1, QuietAlone
<1>3. upload'.pc \notin {"mark", "send"}
  BY <1>2 DEF UploadFollows, Awaited
<1>4. ASSUME NEW m \in Nonces PROVE Decides(m)'
  <2>1. CASE m = n
    BY <1>1, <2>1
  <2>2. CASE m # n
    BY <1>2, <2>2 DEF OthersStay, Requests, Serving, Decides, BeforePut
  <2> QED
    BY <2>1, <2>2
<1>5. finish[n].rev \in PathBodies
  BY PathContents, FieldsTyped DEF PathBase
<1>6. finish[n].landed => IsKept(finish[n].rev)
  BY <1>2, <1>5, PrefixOfItself DEF IsKept
<1>7. \A rev \in stored' : IsKept(rev)
  BY <1>1, <1>6 DEF KeepsStored
<1>8. \A rev : IsKept(rev) => \E kept \in displaced' \cup {canonical'} : IsPrefix(rev, kept)
  BY DEF IsKept
<1> QED
  BY <1>3, <1>4, <1>7, <1>8 DEF KeepsStored, IsKept

(* The write of the raw object.                                             *)
LEMMA KeepPut ==
  ASSUME PathBase, QueueTrue, KeepTrue, NEW n \in Requests, finish[n].pc = "put", OthersStay(n), UNCHANGED <<mplan, mfaults>>,
         UNCHANGED <<upload, displaced, stored>>, finish[n].body = finish[n].rev, canonical' = finish[n].rev,
         finish'[n].pc \in {"drop", "upsert"}
  PROVE  KeepTrue'
<1> SUFFICES ASSUME Quiet' PROVE KeepsStored'
  BY DEF KeepTrue
<1>1. Quiet /\ KeepsStored /\ Serving(n)
  BY QuietBefore DEF KeepTrue, Serving
<1>2. n \in Nonces /\ Awaited(n) /\ (\A m \in Requests : m # n => ~Serving(m))
  BY <1>1, QuietAlone
<1>3. upload'.pc \notin {"mark", "send"}
  BY <1>2 DEF Awaited
<1>4. ASSUME NEW m \in Nonces PROVE Decides(m)'
  <2>1. CASE m = n
    BY <2>1 DEF Decides, BeforePut
  <2>2. CASE m # n
    BY <1>2, <2>2 DEF OthersStay, Requests, Serving, Decides, BeforePut
  <2> QED
    BY <2>1, <2>2
<1>5. ASSUME NEW rev \in stored
      PROVE  \E kept \in displaced' \cup {canonical'} : IsPrefix(rev, kept)
  <2>1. PICK kept \in displaced \cup {canonical} : IsPrefix(rev, kept)
    BY <1>1 DEF KeepsStored, IsKept
  <2>2. CASE kept \in displaced
    BY <2>1, <2>2
  <2>3. CASE kept = canonical
    <3>1. /\ finish[n].old = canonical
          /\ finish[n].old \in displaced \cup {Nothing, finish[n].rev} \/ Grown(finish[n].body, finish[n].old)
      BY <1>1, <1>2 DEF KeepsStored, Decides, BeforePut
    <3>2. rev \in PathBodies /\ canonical \in PathBodies /\ finish[n].body \in PathBodies /\ rev # Nothing
      BY PathContents, FieldsTyped DEF PathBase, RecordsTrue, PathTyped, RecordsTyped
    <3>3. canonical # Nothing
      <4>1. Len(rev) \in Nat /\ Len(rev) # 0
        BY <3>2 DEF PathBodies, Nothing
      <4>2. Len(rev) <= Len(canonical)
        BY <2>1, <2>3 DEF IsPrefix
      <4> QED
        BY <4>1, <4>2 DEF Nothing
    <3>4. CASE Grown(finish[n].body, finish[n].old)
      BY <2>1, <2>3, <3>1, <3>2, <3>4, PrefixGrows
    <3> QED
      BY <2>1, <2>3, <3>1, <3>3, <3>4
  <2> QED
    BY <2>2, <2>3
<1> QED
  BY <1>3, <1>4, <1>5 DEF KeepsStored, IsKept

(* The collector beside it.                                                 *)
LEMMA KeepBeside ==
  ASSUME PathBase, KeepTrue, BesideStays, mfaults \subseteq mfaults',
         stored' = stored \/ (stored' = stored \cup {upload.rev} /\ (Quiet /\ KeepsStored => canonical = upload.rev)),
         Quiet /\ KeepsStored /\ upload'.pc \in {"mark", "send"} => canonical = upload'.rev
  PROVE  KeepTrue'
<1> SUFFICES ASSUME Quiet' PROVE KeepsStored'
  BY DEF KeepTrue
<1>1. Quiet /\ KeepsStored
  BY QuietBefore DEF KeepTrue, BesideStays
<1>2. \A m \in Nonces : Decides(m)'
  BY <1>1 DEF KeepsStored, Decides, BesideStays
<1>3. upload.rev \in PathBodies
  BY PathContents DEF PathBase, PathTyped, UploadTyped
<1>4. canonical = upload.rev => IsKept(upload.rev)
  BY <1>3, PrefixOfItself DEF IsKept
<1>5. \A rev \in stored' : IsKept(rev)
  BY <1>1, <1>4 DEF KeepsStored
<1> QED
  BY <1>1, <1>2, <1>5 DEF KeepsStored, IsKept, BesideStays

LEMMA CollectorKeep ==
  ASSUME PathBase, QueueTrue, KeepTrue,
         UploadStep \/ GiveUp \/ Rewrite \/ ParseStep \/ Carry \/ (\E n \in Nonces : Expire(n) \/ Prune(n))
  PROVE  KeepTrue'
<1>0. PathTyped /\ PlacesTrue /\ RequestsTrue /\ RecordsTrue
  BY DEF PathBase
<1>1. CASE Rewrite \/ Hash \/ CreateLook \/ SendPart \/ Abort \/ GiveUp
  <2>1. BesideStays /\ HubStays /\ mfaults \subseteq mfaults' /\ (upload' = upload \/ upload'.pc \notin {"mark", "send"})
    BY <1>0, <1>1, RewriteMoves, HashMoves, CreateLookMoves, SendPartMoves, AbortMoves, GiveUpMoves DEF Strikes
  <2> QED
    BY <2>1, KeepBeside DEF HubStays, KeepsStored
<1>2. CASE CreateHead
  BY <1>0, <1>2, CreateHeadMoves, KeepBeside
<1>3. CASE CreateMark
  BY <1>0, <1>3, CreateMarkMoves, KeepBeside DEF KeepsStored
<1>4. CASE CreateSend
  BY <1>0, <1>4, CreateSendMoves, KeepBeside DEF KeepsStored
<1>5. CASE (\E n \in Nonces : CreateOpen(n)) \/ (\E n \in Nonces : Expire(n) \/ Prune(n)) \/ ParseStep
  <2>1. BesideStays /\ UNCHANGED stored /\ mfaults \subseteq mfaults' /\ (upload' = upload \/ upload'.pc \notin {"mark", "send"})
    BY <1>0, <1>5, CreateOpenMoves, SweepMoves, TakeParseMoves, PublishMoves DEF Strikes, HubStays, ParseStep
  <2> QED
    BY <2>1, KeepBeside DEF KeepsStored
<1>6. CASE Complete
  <2>0. upload.n \in Nonces
    BY <1>0, <1>6 DEF PlacesTrue, Complete
  <2> PICK n \in Nonces : n = upload.n
    BY <2>0
  <2>1. /\ OthersStay(n) /\ HubStays /\ UNCHANGED <<mplan, mfaults, displaced>> /\ finish'[n].pc = "look" /\ upload'.pc = "wait"
    BY <1>0, <1>6, CompleteMoves
  <2> SUFFICES ASSUME Quiet' PROVE KeepsStored'
    BY DEF KeepTrue
  <2>2. KeepsStored
    BY <2>1, QuietBefore DEF KeepTrue
  <2>3. ASSUME NEW m \in Nonces PROVE Decides(m)'
    <3>1. CASE m = n
      BY <2>1, <3>1 DEF Decides
    <3>2. CASE m # n
      BY <2>1, <2>2, <3>2 DEF OthersStay, Requests, Decides, KeepsStored, HubStays
    <3> QED
      BY <3>1, <3>2
  <2> QED
    BY <2>1, <2>2, <2>3 DEF KeepsStored, IsKept, HubStays
<1>7. CASE Carry
  BY <1>0, <1>7, CarryMoves DEF KeepTrue, Quiet
<1> QED
  BY <1>1, <1>2, <1>3, <1>4, <1>5, <1>6, <1>7 DEF UploadStep
-----------------------------------------------------------------------------
LEMMA ServeKeep ==
  ASSUME PathBase, QueueTrue, AgreeTrue, KeepTrue, NEW n \in Requests, ServeUpload(n) \/ Die(n)
  PROVE  KeepTrue'
<1>0. PathTyped /\ PlacesTrue /\ RequestsTrue /\ RequestTrue(n)
  BY DEF PathBase, RequestsTrue
<1>1. CASE Look(n)
  <2>1. /\ finish[n].pc = "look" /\ Serving(n) /\ HubStays /\ UNCHANGED <<mplan, mfaults, upload, displaced>>
        /\ OthersStay(n) /\ finish'[n].old = fileRow.hash /\ finish'[n].pc \in {"extends", "assemble"}
    BY <1>0, <1>1, LookMoves DEF Moves, Serving
  <2>2. ASSUME Quiet PROVE Decides(n)'
    <3>1. Calm /\ \A m \in Requests : m # n => ~Serving(m)
      BY <2>1, <2>2, QuietAlone
    <3>2. \A m \in Requests : ~Lands(m) /\ ~Mends(m)
      BY <2>1, <3>1 DEF Lands, Mends, Serving
    <3>3. fileRow.hash = canonical
      BY <3>1, <3>2 DEF AgreeTrue, Agreed, Landing
    <3> QED
      BY <2>1, <3>3 DEF Decides, HubStays
  <2> QED
    BY <2>1, <2>2, KeepServe DEF HubStays
<1>2. CASE Assemble(n) \/ GetStaged(n)
  <2>1. finish[n].pc \in {"assemble", "get"} /\ Serving(n) /\ HubStays /\ UNCHANGED <<mplan, displaced>> /\ mfaults \subseteq mfaults'
        /\ n \in Nonces
    BY <1>0, <1>2, AssembleMoves, GetStagedMoves, StagedIsComplete DEF Serving, Strikes, GetStaged, Assemble, At
  <2>2. OthersStay(n) /\ (upload' = upload \/ UploadFollows(n))
        /\ \/ finish'[n].pc \in {"idle", "done"}
           \/ finish'[n].pc \in {"get", "extends"} /\ finish'[n].old = finish[n].old
    BY <1>0, <1>2, <2>1, AssembleMoves, GetStagedMoves DEF MovesTo, Moves, Ends
  <2>3. ASSUME KeepsStored PROVE Decides(n)'
    BY <2>1, <2>2, <2>3 DEF KeepsStored, Decides, BeforePut, HubStays
  <2> QED
    BY <2>1, <2>2, <2>3, KeepServe DEF HubStays
<1>3. CASE CheckExtends(n)
  <2>1. finish[n].pc = "extends" /\ Serving(n) /\ HubStays /\ UNCHANGED <<mplan, displaced, mfaults, upload>>
    BY <1>0, <1>3, CheckExtendsMoves DEF Serving
  <2>2. /\ OthersStay(n) /\ finish'[n].rev = finish[n].rev /\ finish'[n].old = finish[n].old /\ finish'[n].body = finish[n].body
        /\ finish'[n].pc \in {"preserve", "put"} /\ (finish'[n].pc = "put" => ~Displaces(n))
    BY <1>0, <1>3, CheckExtendsMoves DEF MovesTo, Moves
  <2>3. ASSUME Quiet, KeepsStored PROVE Decides(n)'
    <3>1. n \in Nonces
      BY <2>1, <2>3, QuietAlone
    <3> QED
      BY <2>1, <2>2, <2>3, <3>1 DEF KeepsStored, Decides, BeforePut, HubStays, Displaces, Extending
  <2> QED
    BY <2>1, <2>2, <2>3, KeepServe DEF HubStays
<1>4. CASE Preserve(n)
  <2>1. finish[n].pc = "preserve" /\ Serving(n) /\ HubStays /\ UNCHANGED mplan /\ mfaults \subseteq mfaults'
    BY <1>0, <1>4, PreserveMoves DEF Serving, Strikes
  <2>2. \/ Ends(n) /\ UploadFollows(n) /\ displaced' = displaced
        \/ MovesTo(n, "put") /\ upload' = upload /\ displaced' = displaced \cup ({Predecessor(n)} \ {Nothing})
    BY <1>0, <1>4, PreserveMoves
  <2>3. OthersStay(n) /\ (upload' = upload \/ UploadFollows(n)) /\ displaced \subseteq displaced'
    BY <2>2 DEF Ends, MovesTo, Moves
  <2>4. ASSUME Quiet, KeepsStored PROVE Decides(n)'
    <3>1. n \in Nonces
      BY <2>1, <2>4, QuietAlone
    <3>2. finish[n].old = canonical
      BY <2>1, <2>4, <3>1 DEF KeepsStored, Decides, BeforePut
    <3>3. CASE Ends(n)
      BY <3>3 DEF Ends, Decides, BeforePut
    <3>4. CASE MovesTo(n, "put") /\ displaced' = displaced \cup ({Predecessor(n)} \ {Nothing})
      <4>1. Predecessor(n) = finish[n].old
        BY <3>2 DEF Predecessor
      <4> QED
        BY <2>1, <3>2, <3>4, <4>1 DEF MovesTo, Moves, Decides, HubStays
    <3> QED
      BY <2>2, <3>3, <3>4
  <2> QED
    BY <2>1, <2>3, <2>4, KeepServe DEF HubStays
<1>5. CASE PutCanonical(n)
  <2>1. /\ finish[n].pc = "put" /\ Serving(n)
        /\ UNCHANGED <<version, mplan, mfaults, upload, displaced, fileRow, derived, parses, parse, stored>>
    BY <1>0, <1>5, PutMoves DEF Serving
  <2>2. /\ OthersStay(n) /\ finish'[n].pc \in {"drop", "upsert"}
        /\ canonical' = canonical \/ (finish[n].body = finish[n].rev /\ canonical' = finish[n].rev)
    BY <1>0, <1>5, PutMoves DEF Moves
  <2>3. Decides(n)'
    BY <2>2 DEF Decides, BeforePut
  <2> QED
    BY <2>1, <2>2, <2>3, KeepPut, KeepServe
<1>6. CASE DropStaging(n) \/ Upsert(n) \/ Flip(n) \/ Observe(n) \/ Compare(n) \/ Reflip(n)
  <2>1. finish[n].pc \in AfterPut \cup {"drop"} /\ Serving(n) /\ UNCHANGED <<mplan, canonical, stored, displaced>>
        /\ mfaults \subseteq mfaults'
    BY <1>0, <1>6, DropMoves, UpsertMoves, FlipMoves, ObserveMoves, CompareMoves, ReflipMoves
       DEF Serving, AfterPut, HubStays, Strikes
  <2>2. OthersStay(n) /\ (upload' = upload \/ UploadFollows(n)) /\ finish'[n].pc \in AfterPut \cup {"idle", "done"}
    BY <1>0, <1>6, DropMoves, UpsertMoves, FlipMoves, ObserveMoves, CompareMoves, ReflipMoves
       DEF AfterPut, MovesTo, Moves, Ends
  <2>3. Decides(n)'
    BY <2>2 DEF Decides, BeforePut, AfterPut
  <2> QED
    BY <2>1, <2>2, <2>3, KeepServe
<1>7. CASE PutRow(n) \/ PutHead(n) \/ PutAgain(n)
  <2>1. Serving(n) /\ n \notin Nonces /\ UNCHANGED <<mplan, mfaults>>
    BY <1>0, <1>7, PutRowMoves, PutHeadMoves, PutAgainMoves, CarriedOnly DEF Serving
  <2>2. ~Quiet
    BY <2>1, QuietAlone
  <2> QED
    BY <2>1, <2>2 DEF KeepTrue, Quiet
<1>8. CASE Realign(n) \/ Resend(n) \/ Send(n)
  <2>1. finish[n].pc \in {"realign", "resend", "send"} /\ Serving(n) /\ finish[n].landed
        /\ UNCHANGED <<mplan, canonical, displaced, mfaults>>
    BY <1>0, <1>8, RealignMoves, ResendMoves, SendMoves DEF Serving, RequestTrue, AfterPut
  <2>2. /\ OthersStay(n) /\ (upload' = upload \/ UploadFollows(n)) /\ finish'[n].pc \in {"reflip", "send", "idle", "done"}
        /\ stored' = stored \/ stored' = stored \cup {finish[n].rev}
    BY <1>0, <1>8, RealignMoves, ResendMoves, SendMoves DEF MovesTo, Moves, Ends
  <2>3. Decides(n)'
    BY <2>2 DEF Decides, BeforePut
  <2> QED
    BY <2>1, <2>2, <2>3, KeepServe
<1>9. CASE Die(n)
  BY <1>0, <1>9, DieMoves DEF Strikes, KeepTrue, Quiet
<1> QED
  BY <1>1, <1>2, <1>3, <1>4, <1>5, <1>6, <1>7, <1>8, <1>9 DEF ServeUpload

-----------------------------------------------------------------------------
(* The invariant is there at the start, every step keeps it, and it says    *)
(* what the run checks.                                                     *)
LEMMA PathInvInit ==
  ASSUME MultipartInit
  PROVE  PathInv
<1>1. mplan \in MultipartPlans /\ Carried \notin Nonces
  BY PathContents DEF MultipartInit
<1>2. version = 1 /\ sent = Nothing /\ upload = Idling /\ mfaults = {} /\ canonical = Nothing /\ displaced = {} /\ parses = {}
      /\ parse = NotParsing /\ stored = {}
  BY DEF MultipartInit
<1>3. /\ staging = [n \in Nonces |-> NoStaging] /\ finish = [n \in Requests |-> Finished]
      /\ fileRow = [hash |-> Nothing, state |-> "absent"]
      /\ derived = [state |-> "absent", rev |-> Nothing, bytes |-> Nothing]
  BY DEF MultipartInit, Requests
<1>4. \A n \in Requests : finish[n] = Finished
  BY <1>3
<1>5. /\ Finished.pc = "idle" /\ Finished.rev = Nothing /\ ~Finished.landed /\ ~Finished.late
      /\ Idling.pc = "idle" /\ fileRow.hash = Nothing
  BY <1>3 DEF Finished, Idling
<1>6. \A n \in Requests : ~Serving(n)
  BY <1>4, <1>5 DEF Serving
<1>7. PathTyped
  <2>1. UploadTyped(upload)
    BY <1>2, IdlingTyped
  <2>2. finish \in [Requests -> PathRequests]
    BY <1>3, FinishedTyped
  <2>3. version \in 1..Len(mplan.versions)
    BY <1>1, <1>2, PlanTyped
  <2>4. staging \in [Nonces -> [state : {"none", "open", "object"}, bytes : PathBodies]]
    BY <1>3, PathContents DEF NoStaging
  <2>5. Nothing \in PathRevisions
    BY PathContents
  <2>6. /\ fileRow \in [hash : PathRevisions, state : {"absent", "pending", "parsed", "skipped"}]
        /\ derived \in [state : {"absent", "parsing", "ready"}, rev : PathRevisions, bytes : PathRevisions]
        /\ parse \in [hash : PathRevisions, bytes : PathRevisions]
    BY <1>2, <1>3, <2>5 DEF NotParsing
  <2> QED
    BY <1>1, <1>2, <2>1, <2>2, <2>3, <2>4, <2>5, <2>6 DEF PathTyped, RecordsTyped
<1>8. PlacesTrue
  BY <1>2, <1>4, <1>5 DEF PlacesTrue, CompletePcs, PutPcs, Requests
<1>9. RequestsTrue
  BY <1>4, <1>5, <1>6 DEF RequestsTrue, RequestTrue, BeforePut, AfterPut
<1>10. RecordsTrue
  BY <1>2, <1>5 DEF RecordsTrue, PathRevs
<1>11. Completing = {}
  BY <1>6 DEF Completing, Requests
<1>12. AwaitTrue /\ OrderTrue /\ PairsTrue /\ AloneTrue
  BY <1>2, <1>11 DEF AwaitTrue, OrderTrue, PairsTrue, AloneTrue
<1>13. AgreeTrue
  BY <1>2, <1>4, <1>5 DEF AgreeTrue, Agreed, RealignsWell, Requests
<1>14. OweTrue
  BY <1>2, <1>5 DEF OweTrue, ParsedOrDue
<1>15. KeepTrue
  BY <1>2, <1>4, <1>5 DEF KeepTrue, KeepsStored, Decides, BeforePut, Requests
<1> QED
  BY <1>7, <1>8, <1>9, <1>10, <1>12, <1>13, <1>14, <1>15 DEF PathInv, PathBase

LEMMA PathInvStep ==
  ASSUME PathInv, MultipartNext
  PROVE  PathInv'
<1>0. PathBase /\ QueueTrue /\ AgreeTrue /\ OweTrue /\ KeepTrue
  BY DEF PathInv, QueueTrue
<1>1. PathTyped /\ PlacesTrue /\ RequestsTrue
  BY <1>0 DEF PathBase
<1>2. ASSUME NEW n \in Requests, ServeUpload(n) \/ Die(n)
      PROVE  PathInv'
  <2>1. PathBase'
    BY <1>0, <1>1, <1>2, ServeTypes, ServeBase DEF PathBase
  <2>2. QueueTrue' /\ AgreeTrue'
    BY <1>0, <1>2, ServeQueue, ServeAgree
  <2>3. OweTrue' /\ KeepTrue'
    BY <1>0, <1>2, ServeOwe, ServeKeep
  <2> QED
    BY <2>1, <2>2, <2>3 DEF PathInv, QueueTrue
<1>3. CASE UploadStep \/ GiveUp \/ Rewrite \/ ParseStep \/ Carry \/ (\E n \in Nonces : Expire(n) \/ Prune(n))
  <2>1. PathBase'
    BY <1>0, <1>1, <1>3, CollectorTypes, ParseTypes, CollectorBase DEF PathBase
  <2>2. QueueTrue' /\ AgreeTrue'
    BY <1>0, <1>3, CollectorQueue, CollectorAgree
  <2>3. OweTrue' /\ KeepTrue'
    BY <1>0, <1>3, CollectorOwe, CollectorKeep
  <2> QED
    BY <2>1, <2>2, <2>3 DEF PathInv, QueueTrue
<1> QED
  BY <1>2, <1>3 DEF MultipartNext

LEMMA PathInvStutter ==
  ASSUME PathInv, UNCHANGED multipartVars
  PROVE  PathInv'
<1>1. /\ UNCHANGED <<version, sent, upload, staging, finish, canonical, displaced, fileRow, derived>>
      /\ UNCHANGED <<parses, parse, stored, mplan, mfaults>>
  BY DEF multipartVars
<1>2. PathTyped' /\ PlacesTrue'
  BY <1>1 DEF PathInv, PathBase, PathTyped, RecordsTyped, UploadTyped, PlacesTrue
<1>3. BesideStays /\ HubStays /\ UploadGoes /\ PathBase /\ QueueTrue
  BY <1>1 DEF BesideStays, HubStays, UploadGoes, PathInv, QueueTrue
<1>4. RequestsTrue' /\ RecordsTrue'
  BY <1>1, <1>3, BesideBase DEF PathBase, RecordsTrue
<1>5. QueueTrue'
  BY <1>1, <1>3, BesideQueue
<1>6. AgreeTrue' /\ OweTrue'
  BY <1>1, <1>3, AgreeStays, OweStays DEF PathInv
<1>7. KeepTrue'
  BY <1>1, <1>3, KeepBeside DEF PathInv, KeepsStored
<1> QED
  BY <1>2, <1>4, <1>5, <1>6, <1>7 DEF PathInv, PathBase, QueueTrue

LEMMA PathInvSays ==
  ASSUME PathInv
  PROVE  UploadIsWhole
<1>0. PathTyped /\ RecordsTrue /\ PathRevisions = Contents \cup {Nothing}
  BY DEF PathInv, PathBase, PathRevisions
<1>1. MultipartTypeOK
  BY <1>0 DEF MultipartTypeOK, PathTyped, RecordsTyped, RecordsTrue
<1>2. CanonicalIsWhole
  BY <1>0 DEF CanonicalIsWhole, RecordsTrue, PathRevs, Seen
<1>3. RowFindsObject
  <2> SUFFICES ASSUME Resting, "crash" \notin mfaults, ~PutTooLate, ~MisledByHash PROVE Agreeing
    BY DEF RowFindsObject
  <2>1. Calm
    BY DEF Calm, PutTooLate, MisledByHash, Straight
  <2>2. \A n \in Requests : ~Lands(n) /\ ~Mends(n) /\ ~Sends(n)
    BY DEF Resting, Lands, Mends, Sends
  <2>3. fileRow.hash = canonical
    BY <2>1, <2>2 DEF PathInv, AgreeTrue, Agreed, Landing
  <2>4. ASSUME ~mplan.other, canonical # Nothing
        PROVE  derived = [state |-> "ready", rev |-> canonical, bytes |-> canonical]
    <3>1. ParsedOrDue
      BY <2>1, <2>4 DEF PathInv, OweTrue
    <3>2. ~Due
      BY <2>2 DEF Due, Resting
    <3>3. parse # [hash |-> fileRow.hash, bytes |-> fileRow.hash]
      <4>1. parse.hash = Nothing
        BY DEF Resting, NotParsing
      <4> QED
        BY <2>3, <2>4, <4>1
    <3> QED
      BY <2>3, <2>4, <3>1, <3>2, <3>3 DEF ParsedOrDue
  <2> QED
    BY <2>3, <2>4 DEF Agreeing
<1>4. StoredIsRecoverable
  BY DEF StoredIsRecoverable, PathInv, KeepTrue, Quiet, KeepsStored, IsKept
<1> QED
  BY <1>1, <1>2, <1>3, <1>4 DEF UploadIsWhole

(* Whatever the file does while its parts are read, whatever is refused,    *)
(* lost or dies on the way, and whoever comes between: the raw object is    *)
(* one version of the file, a path at rest agrees with its row and its      *)
(* session, and what was said to be stored is there (multipart.ts,          *)
(* upload.ts).                                                              *)
THEOREM UploadsStayWhole == MultipartSpec => []UploadIsWhole
<1>1. MultipartInit => PathInv
  BY PathInvInit
<1>2. PathInv /\ [MultipartNext]_multipartVars => PathInv'
  BY PathInvStep, PathInvStutter
<1>3. PathInv => UploadIsWhole
  BY PathInvSays
<1> QED
  BY <1>1, <1>2, <1>3, PTL DEF MultipartSpec
=============================================================================
