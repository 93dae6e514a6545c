------------------------------- MODULE Catalog -------------------------------
(***************************************************************************)
(* A show's listings and the writes the five listing actions make to them, *)
(* on the local rows (domain/repo.ts, actions/executor.ts `applyLocal`)    *)
(* and on the marketplace's own copy (actions/marketplace/mock.ts).        *)
(*                                                                         *)
(* A catalog is a function from listing ids to rows.  Only the columns an  *)
(* action reads or writes are kept; money and stock are small naturals.    *)
(***************************************************************************)
EXTENDS Integers

CONSTANTS
  Listings,         \* listing ids of the show
  Intents,          \* what may be proposed: [kind, listing, param]
  Floor, Cost,      \* seller's floor price and cost basis of each listing
  MaxDiscountPct    \* policy().maxDiscountPct

Kinds == {"markdown_price", "adjust_stock", "swap_pinned", "push_listing", "end_listing"}

States == {"draft", "queued", "live", "ended"}

Row == [priceCents : Int, qty : Int, state : States, pinned : BOOLEAN, version : Nat]

ASSUME CatalogAssumption ==
  /\ Intents \subseteq [kind : Kinds, listing : Listings, param : Int]
  /\ Floor \in [Listings -> Nat] /\ Cost \in [Listings -> Nat]
  /\ MaxDiscountPct \in 0 .. 100

-----------------------------------------------------------------------------
(* The field change each kind stands for; `param` is newPriceCents or newQty. *)
mutationFor(i, row) ==
  CASE i.kind = "markdown_price" -> [row EXCEPT !.priceCents = i.param]
    [] i.kind = "adjust_stock"   -> [row EXCEPT !.qty = i.param]
    [] i.kind = "swap_pinned"    -> [row EXCEPT !.pinned = TRUE, !.state = "live"]
    [] i.kind = "push_listing"   -> [row EXCEPT !.state = "live"]
    [] i.kind = "end_listing"    -> [row EXCEPT !.state = "ended", !.pinned = FALSE]

Bump(row) == [row EXCEPT !.version = @ + 1]

(* Repo.setPinned: one UPDATE over the row to pin and every pinned row. *)
setPinned(cat, id) ==
  [l \in Listings |->
     IF cat[l].pinned \/ l = id THEN Bump([cat[l] EXCEPT !.pinned = (l = id)]) ELSE cat[l]]

(* Repo.mutateListing: the patched fields and version + 1 in one UPDATE. *)
mutateListing(cat, id, row) == [cat EXCEPT ![id] = Bump(row)]

(* ActionExecutor.applyLocal: a swap is setPinned and then a mutateListing. *)
applyLocal(cat, i) ==
  IF i.kind = "swap_pinned"
  THEN LET c == setPinned(cat, i.listing)
       IN  mutateListing(c, i.listing, [c[i.listing] EXCEPT !.state = "live"])
  ELSE mutateListing(cat, i.listing, mutationFor(i, cat[i.listing]))

(* MockMarketplace.apply: a swap also unpins what was pinned remotely. *)
applyRemote(cat, i) ==
  [l \in Listings |->
     IF l = i.listing THEN Bump(mutationFor(i, cat[l]))
     ELSE IF i.kind = "swap_pinned" /\ cat[l].pinned
          THEN Bump([cat[l] EXCEPT !.pinned = FALSE])
          ELSE cat[l]]

(* The four snapshot fields over the current row, version moving forward:   *)
(* MockMarketplace.compensate, and the local half of rollback.              *)
restore(cat, id, before) ==
  [cat EXCEPT ![id] = [before EXCEPT !.version = cat[id].version + 1]]

(* What a seller would compare on the two sides. *)
Fields(row) == <<row.priceCents, row.qty, row.state, row.pinned>>

Agree(c1, c2) == \A l \in Listings : Fields(c1[l]) = Fields(c2[l])

-----------------------------------------------------------------------------
(* preflight(): the checks of one kind against the listing's current row.   *)
jump(a, b) == IF a < b THEN b - a ELSE a - b

perKindChecks(i, row) ==
  CASE i.kind = "markdown_price" ->
         /\ i.param > 0 /\ i.param < row.priceCents
         /\ i.param >= Floor[i.listing]
         /\ (row.priceCents - i.param) * 100 <= MaxDiscountPct * row.priceCents
         /\ i.param > Cost[i.listing]
         /\ row.state # "ended"
    [] i.kind = "adjust_stock" ->
         i.param >= 0 /\ i.param # row.qty /\ jump(i.param, row.qty) <= 10
    [] i.kind = "swap_pinned" ->
         ~row.pinned /\ row.state # "ended" /\ row.qty > 0
    [] i.kind = "push_listing" ->
         /\ row.state \in {"queued", "draft"} /\ row.qty > 0
         /\ row.priceCents >= Floor[i.listing]
    [] i.kind = "end_listing" ->
         row.state # "ended" /\ ~row.pinned
=============================================================================
