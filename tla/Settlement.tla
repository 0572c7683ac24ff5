------------------------------- MODULE Settlement -------------------------------
(***************************************************************************)
(* What a call costs: settle() and resolve_sku() of crates/core/src/       *)
(* pricing.rs over the table that merge_pricing() (crates/shared/src/      *)
(* pricing_bundle.rs) makes of a catalogue and an organisation's rates,    *)
(* with the money arithmetic of crates/shared/src/cost.rs.                 *)
(*                                                                         *)
(* A pattern is the set of models it covers and the number of its literal  *)
(* characters (their matching is Glob's).  Integers are 64 bits wide in    *)
(* the code, MaxInt is the greatest; products are taken in 128 bits, which *)
(* hold every one of them.                                                 *)
(***************************************************************************)
EXTENDS Integers, Sequences, FiniteSets

CONSTANTS Vendors, Models, Patterns, Covers, Literals,
          TokensPerUnit,  \* TOKENS_PER_PRICE_UNIT
          MaxInt,         \* i64::MAX
          Catalogues,     \* pairs of a catalogue and overlays (input)
          Usages,         \* what a call used (input)
          None

Sku == [provider : Vendors, model_match : Patterns, effective_from : Nat,
        input : Nat, output : Nat, cache_read : Nat \cup {None}, cache_write : Nat \cup {None}]

Usage == [provider : Vendors, model : Models,
          input : Int, output : Int, cache_read : Int, cache_creation : Int]

\* "Prices are >= 0 in any well-formed bundle" (cost.rs).
SettlementAssumption ==
    /\ Covers \in [Patterns -> SUBSET Models] /\ Literals \in [Patterns -> Nat]
    /\ TokensPerUnit \in Nat \ {0} /\ MaxInt \in Nat
    /\ Catalogues \subseteq Seq(Sku) \X Seq(Sku) /\ Usages \subseteq Usage
    /\ None \notin Sku \cup Usage

VARIABLES catalogue, overlays,
          table,    \* the active bundle's skus, or None
          settled,  \* the usage that was settled last, or None
          result

settleVars == <<catalogue, overlays, table, settled, result>>

-------------------------------------------------------------------------------
(* cost.rs *)

Cost(micros) == [micros |-> IF micros > MaxInt THEN MaxInt ELSE micros,
                 overflow |-> micros > MaxInt]

\* Mutant of line_item: truncated, not rounded.
line_item_floor(tokens, price) == Cost((tokens * price) \div TokensPerUnit)

line_item(tokens, price) ==
    Cost((tokens * price + TokensPerUnit \div 2) \div TokensPerUnit)

\* Mutant of saturating_add: the flags of its operands are dropped.
saturating_add_forgets(c, d) == Cost(c.micros + d.micros)

saturating_add(c, d) ==
    [Cost(c.micros + d.micros) EXCEPT !.overflow = @ \/ c.overflow \/ d.overflow]

-------------------------------------------------------------------------------
(* merge_pricing(), resolve_sku(), settle() *)

Key(sku) == <<sku.provider, sku.model_match>>

\* Mutant of merge_pricing: the catalogue's rows of the same key stay.
merge_pricing_keeps(base, rates) == rates \o base

\* The n-th of a set of places.
Nth(places, n) == CHOOSE i \in places : Cardinality({j \in places : j <= i}) = n

\* The rows of the catalogue for which there is no rate, in their order, then the rates.
merge_pricing(base, rates) ==
    LET kept == {i \in DOMAIN base : \A j \in DOMAIN rates : Key(rates[j]) # Key(base[i])}
    IN [n \in 1..Cardinality(kept) |-> base[Nth(kept, n)]] \o rates

Applies(sku, usage) ==
    sku.provider = usage.provider /\ usage.model \in Covers[sku.model_match]

\* The order of max_by_key on literals and effective_from.
Below(s, t) ==
    \/ Literals[s.model_match] < Literals[t.model_match]
    \/ /\ Literals[s.model_match] = Literals[t.model_match]
       /\ s.effective_from < t.effective_from

\* Mutant of resolve_sku: the first row that applies.
resolve_sku_first(usage) ==
    LET fit == {i \in DOMAIN table : Applies(table[i], usage)}
    IN IF fit = {} THEN None ELSE table[CHOOSE i \in fit : \A j \in fit : i <= j]

\* Of the rows that no other is above, the last.
resolve_sku(usage) ==
    LET fit == {i \in DOMAIN table : Applies(table[i], usage)}
        best == {i \in fit : \A j \in fit : ~Below(table[i], table[j])}
    IN IF fit = {} THEN None ELSE table[CHOOSE i \in best : \A j \in best : j <= i]

AtLeast0(n) == IF n > 0 THEN n ELSE 0
Or(price, other) == IF price = None THEN other ELSE price

\* Mutant of Fresh: cached tokens are billed as fresh ones, too.
FreshAll(usage) == AtLeast0(usage.input)

\* Cached tokens are among the input's, unless the counts are inconsistent.
Fresh(usage) ==
    AtLeast0(AtLeast0(usage.input) - AtLeast0(usage.cache_read) - AtLeast0(usage.cache_creation))

Priced(sku, usage) ==
    saturating_add(
        saturating_add(
            saturating_add(
                line_item(Fresh(usage), sku.input),
                line_item(AtLeast0(usage.cache_read), Or(sku.cache_read, sku.input))),
            line_item(AtLeast0(usage.cache_creation), Or(sku.cache_write, sku.input))),
        line_item(AtLeast0(usage.output), sku.output))

settle(usage) ==
    IF table = None THEN [status |-> "disabled", cost |-> Cost(0), sku |-> None]
    ELSE LET sku == resolve_sku(usage)
         IN IF sku = None THEN [status |-> "unpriced_model", cost |-> Cost(0), sku |-> None]
            ELSE [status |-> "priced", cost |-> Priced(sku, usage), sku |-> sku]

-------------------------------------------------------------------------------
SettleInit ==
    /\ \E pair \in Catalogues : catalogue = pair[1] /\ overlays = pair[2]
    /\ table = None /\ settled = None /\ result = None

\* The control plane merges once; the bundle becomes active.
Activate ==
    /\ table = None
    /\ table' = merge_pricing(catalogue, overlays)
    /\ settled' = None /\ result' = None
    /\ UNCHANGED <<catalogue, overlays>>

Settle(usage) ==
    /\ settled' = usage /\ result' = settle(usage)
    /\ UNCHANGED <<catalogue, overlays, table>>

SettleNext == Activate \/ \E usage \in Usages : Settle(usage)

-------------------------------------------------------------------------------
\* Every variable has its type (SettleResult).
SettleTypeOK ==
    /\ table = None \/ DOMAIN table \subseteq 1..(Len(catalogue) + Len(overlays))
    /\ settled \in Usages \cup {None}
    /\ settled # None =>
          /\ result.status \in {"disabled", "unpriced_model", "priced"}
          /\ result.cost.micros \in 0..MaxInt /\ result.cost.overflow \in BOOLEAN

HasPrice == settled # None /\ result.status = "priced"

\* The reference: a token of the input is billed once, as cached or as fresh, in
\* millionths of a unit and unrounded.
ExactCost ==
    LET sku == result.sku
        cached == AtLeast0(settled.cache_read) + AtLeast0(settled.cache_creation)
    IN sku.input * (IF cached < settled.input THEN settled.input - cached ELSE 0)
         + Or(sku.cache_read, sku.input) * AtLeast0(settled.cache_read)
         + Or(sku.cache_write, sku.input) * AtLeast0(settled.cache_creation)
         + sku.output * AtLeast0(settled.output)

\* A cost is exact up to the rounding of four line items, half a unit each, unless
\* it says that it is not; and it says so only when the exact one is out of range
\* but for that rounding (line_item, saturating_add, settle).
CostExact ==
    HasPrice =>
        LET cost == result.cost.micros * TokensPerUnit
        IN IF result.cost.overflow
           THEN result.cost.micros = MaxInt /\ ExactCost + 2 * TokensPerUnit > cost
           ELSE ExactCost - 2 * TokensPerUnit <= cost /\ cost <= ExactCost + 2 * TokensPerUnit

Offers(rows) == {rows[i] : i \in {j \in DOMAIN rows : Applies(rows[j], settled)}}
OverlayKeys == {Key(overlays[i]) : i \in DOMAIN overlays}

\* A call is billed by the catalogue only where the organisation has no rate for that
\* row, by a row that none is more specific or newer than, and not at all only if no
\* row fits (merge_pricing, resolve_sku).
RowRight ==
    /\ HasPrice =>
          /\ result.sku \in Offers(overlays) \cup {s \in Offers(catalogue) : Key(s) \notin OverlayKeys}
          /\ \A s \in Offers(overlays) \cup {t \in Offers(catalogue) : Key(t) \notin OverlayKeys} :
                ~Below(result.sku, s)
    /\ settled # None => (result.status = "unpriced_model" =>
          Offers(overlays) = {} /\ Offers(catalogue) = {})

\* Using more never costs less, however the counts and the sums saturate
\* (line_item, saturating_add, settle).
MoreCostsMore ==
    [][ (HasPrice /\ settled' # None /\ settled'.model = settled.model
         /\ settled'.provider = settled.provider
         /\ settled'.cache_read = settled.cache_read
         /\ settled'.cache_creation = settled.cache_creation
         /\ settled'.input >= settled.input /\ settled'.output >= settled.output)
        => result'.cost.micros >= result.cost.micros ]_settleVars
===============================================================================
