----------------------------- MODULE UsageCosts -----------------------------
(***************************************************************************)
(* What a usage row costs: hub/src/pricing.ts and hub/src/usage-agg.ts.    *)
(*                                                                         *)
(* The pricing pass prices rows one by one, the usage report prices groups *)
(* of rows as one call.  Both use these operators; the report is right     *)
(* when the groups cost what their rows cost.                              *)
(*                                                                         *)
(* Rates and token counts are integers, so that sums are exact; the        *)
(* overflow of a double is left out.                                       *)
(***************************************************************************)
EXTENDS Integers, Sequences, FiniteSets, FiniteSetsExt

CONSTANTS Models,    \* the models that bill
          Synthetic, \* <synthetic>: never a call
          NoModel    \* NULL

Classes == {"input", "output", "read", "w5", "w1h"}

NoRate == -1
NoTime == -1  \* a timestamp that is absent, or not canonical UTC
NoPrice == [from |-> NoTime]

Pos(n) == IF n > 0 THEN n ELSE 0
Least(m, n) == IF m < n THEN m ELSE n

-----------------------------------------------------------------------------
(* The rate epoch of a row: the newest boundary of the catalog that is not  *)
(* after it, 0 when there is none.                                          *)
Boundaries(prices) == UNION {{prices[m][i].from : i \in DOMAIN prices[m]} : m \in DOMAIN prices}

Epoch(row, prices) ==
  IF row.ts = NoTime THEN NoTime
  ELSE Max({0} \cup {b \in Boundaries(prices) : b <= row.ts})

(* A group of rows: its tokens, and the two clamps of subset accounting     *)
(* taken row by row.                                                        *)
Sums(rows) ==
  LET sum(F(_)) == FoldSet(LAMBDA i, n : n + F(rows[i]), 0, DOMAIN rows)
  IN  [basis |-> rows[1].basis, calls |-> Len(rows),
       tokens |-> [c \in Classes |-> sum(LAMBDA r : Pos(r.tokens[c]))],
       fresh |-> sum(LAMBDA r : Pos(Pos(r.tokens["input"]) - Pos(r.tokens["read"]))),
       cached |-> sum(LAMBDA r : Least(Pos(r.tokens["read"]), Pos(r.tokens["input"])))]

(* Which classes are present, for no row may take a rate from another.      *)
Shape(row) ==
  <<row.basis, {c \in Classes : row.tokens[c] > 0}, Pos(row.tokens["input"]) > Pos(row.tokens["read"])>>

-----------------------------------------------------------------------------
(* costOfUsage                                                              *)

Billable(g) ==
  IF g.basis = "subset" THEN [g.tokens EXCEPT !["input"] = g.fresh, !["read"] = g.cached] ELSE g.tokens

(* A batch rate only where one is published; a cache read without a rate of *)
(* its own is standard input.                                               *)
BatchRated(price, batch, c) == batch /\ c \in {"input", "output"} /\ price.batch[c] # NoRate

RateOf(price, batch, c) ==
  IF BatchRated(price, batch, c) THEN price.batch[c]
  ELSE IF c = "read" /\ price.rates["read"] = NoRate THEN price.rates["input"] ELSE price.rates[c]

Unpriced == [priced |-> FALSE, usd |-> 0, set |-> "none", signature |-> {}]
FreeOfCharge == [Unpriced EXCEPT !.priced = TRUE]

Known(basis) == basis \in {"disjoint", "subset"}

CostOfUsage(g, price, batch) ==
  LET b == Billable(g)
      present == {c \in Classes : b[c] > 0}
      batched == {c \in present : BatchRated(price, batch, c)}
      set == IF batched = {} THEN "standard" ELSE IF batched = present THEN "batch" ELSE "mixed"
  IN  IF ~Known(g.basis) THEN Unpriced
      ELSE IF present = {} THEN FreeOfCharge
      ELSE IF price = NoPrice \/ \E c \in present : RateOf(price, batch, c) = NoRate THEN Unpriced
      ELSE [priced |-> TRUE, set |-> set,
            usd |-> FoldSet(LAMBDA c, n : n + b[c] * RateOf(price, batch, c), 0, present),
            signature |-> {<<c, RateOf(price, batch, c)>> : c \in present} \cup {<<g.basis, set>>}]

(* A model's history is newest first.                                       *)
PriceAt(history, epoch) ==
  IF history = <<>> THEN NoPrice
  ELSE LET past == {i \in DOMAIN history : history[i].from <= epoch}
       IN  IF past = {} THEN history[Len(history)] ELSE history[Min(past)]

(* Without a time, a price only if every snapshot would be the same one.    *)
PriceForGroup(history, epoch, g, batch) ==
  IF epoch # NoTime THEN PriceAt(history, epoch)
  ELSE IF history = <<>> THEN NoPrice
  ELSE IF \A i \in DOMAIN history :
            CostOfUsage(g, history[i], batch).signature = CostOfUsage(g, history[1], batch).signature
         THEN history[1] ELSE NoPrice

History(prices, model) == IF model \in DOMAIN prices THEN prices[model] ELSE <<>>

GroupCost(g, model, epoch, prices, batch) ==
  CostOfUsage(g, IF model \in Models THEN PriceForGroup(History(prices, model), epoch, g, batch) ELSE NoPrice, batch)

(* priceOf: what the pass stores.                                           *)
RowCost(row, prices) ==
  IF ~Known(row.basis) \/ row.model = NoModel THEN Unpriced
  ELSE IF row.model = Synthetic THEN FreeOfCharge
  ELSE GroupCost(Sums(<<row>>), row.model, Epoch(row, prices), prices, FALSE)

-----------------------------------------------------------------------------
(* GET /api/v1/usage: rows grouped, groups priced.                          *)

GroupKey(row, prices) == <<row.model, Epoch(row, prices), Shape(row)>>

Groups(rows, prices) == {GroupKey(rows[i], prices) : i \in DOMAIN rows}

(* A sentinel of a known basis is no call that lacks a price.               *)
Missing(cost, model, basis, calls) ==
  IF ~cost.priced /\ (model # Synthetic \/ ~Known(basis)) THEN calls ELSE 0

(* What the dollars are; a batch tier asked for is not always there.        *)
CostBasis(batch, sets) ==
  LET any == sets \cap {"batch", "mixed"} # {}  standard == sets \cap {"standard", "mixed"} # {}
  IN  IF ~batch \/ ~any THEN "list" ELSE IF standard THEN "batch_partial" ELSE "batch"

Priced(rows, prices, batch) ==
  LET cost(key) == LET members == SelectSeq(rows, LAMBDA r : GroupKey(r, prices) = key)
                   IN  [c |-> GroupCost(Sums(members), key[1], key[2], prices, batch), n |-> Len(members)]
      keys == Groups(rows, prices)
  IN  [usd |-> FoldSet(LAMBDA key, n : n + cost(key).c.usd, 0, keys),
       unpriced |-> FoldSet(LAMBDA key, n : n + Missing(cost(key).c, key[1], key[3][1], cost(key).n), 0, keys),
       sets |-> {cost(key).c.set : key \in keys} \ {"none"},
       basis |-> CostBasis(batch, {cost(key).c.set : key \in keys})]

-----------------------------------------------------------------------------
(* A session with those below it: stored costs, folded two ways.            *)

NullCost == -1

AddCost(m, n) == IF m = NullCost THEN n ELSE IF n = NullCost THEN m ELSE m + n

SumCosts(f) == FoldSet(LAMBDA x, n : AddCost(n, f[x]), NullCost, DOMAIN f)

(* The walk down the parent links, which may form a loop.                   *)
Members(root, parent) ==
  LET level[n \in 0..Cardinality(DOMAIN parent)] ==
        IF n = 0 THEN {root} ELSE level[n - 1] \cup {s \in DOMAIN parent : parent[s] \in level[n - 1]}
  IN  level[Cardinality(DOMAIN parent)]

(* Rows are stored by session: the list adds the sessions' subtotals.       *)
OwnTotal(s, rows) ==
  LET own == {i \in DOMAIN rows : rows[i].session = s}
  IN  [usd |-> SumCosts([i \in own |-> rows[i].usd]), calls |-> Cardinality(own),
       priced |-> Cardinality({i \in own : rows[i].usd # NullCost})]

SubtreeCost(root, parent, rows) ==
  LET nodes == Members(root, parent)
      sum(F(_)) == FoldSet(LAMBDA s, n : n + F(s), 0, nodes)
  IN  [usd |-> SumCosts([s \in nodes |-> OwnTotal(s, rows).usd]), calls |-> sum(LAMBDA s : OwnTotal(s, rows).calls),
       priced |-> sum(LAMBDA s : OwnTotal(s, rows).priced), subagents |-> Cardinality(nodes) - 1]

(* The cached share under the convention of the group; unknown in neither.  *)
CacheShare(g) ==
  IF g.basis = "subset" THEN [cached |-> g.cached, prompt |-> g.tokens["input"]]
  ELSE IF g.basis = "disjoint" THEN
    [cached |-> g.tokens["read"],
     prompt |-> g.tokens["input"] + g.tokens["read"] + g.tokens["w5"] + g.tokens["w1h"]]
  ELSE [cached |-> 0, prompt |-> 0]

Resolved(bases) == IF Cardinality(bases) = 1 THEN CHOOSE b \in bases : TRUE ELSE "mixed"

(* The page splits them by model: groups of one model, one scope and one    *)
(* basis, folded into the model.                                            *)
ModelCosts(root, parent, rows) ==
  LET kept == SelectSeq(rows, LAMBDA r : r.session \in Members(root, parent))
      models == {kept[i].model : i \in DOMAIN kept}
      key(r) == <<r.session = root, r.basis>>
      of(m, k) == SelectSeq(kept, LAMBDA r : r.model = m /\ key(r) = k)
      keys(m) == {key(kept[i]) : i \in {j \in DOMAIN kept : kept[j].model = m}}
      fold(m, F(_)) == FoldSet(LAMBDA k, n : n + F(of(m, k)), 0, keys(m))
  IN  [m \in models |->
        [calls |-> fold(m, Len),
         priced |-> fold(m, LAMBDA rs : Len(SelectSeq(rs, LAMBDA r : r.usd # NullCost))),
         usd |-> SumCosts([k \in keys(m) |-> SumCosts([i \in DOMAIN of(m, k) |-> of(m, k)[i].usd])]),
         own |-> Len(SelectSeq(kept, LAMBDA r : r.model = m /\ r.session = root)),
         cached |-> fold(m, LAMBDA rs : CacheShare(Sums(rs)).cached),
         prompt |-> fold(m, LAMBDA rs : CacheShare(Sums(rs)).prompt),
         basis |-> Resolved({k[2] : k \in keys(m)})]]
=============================================================================
