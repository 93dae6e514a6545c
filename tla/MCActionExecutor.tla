-------------------------- MODULE MCActionExecutor --------------------------
(* Two lots: one pinned and live, one queued behind it.                      *)
EXTENDS ActionExecutor, TLC

CONSTANTS l1, l2, q1, q2

(* Requests are interchangeable; no run with symmetry checks liveness.       *)
Symmetry == Permutations(Requests)

MCListings == {l1, l2}

Lot(p, s, pin) ==
  [priceCents |-> p, qty |-> 1, state |-> s, pinned |-> pin, version |-> 1]

MCInitialCatalog == [l \in MCListings |->
  IF l = l1 THEN Lot(4, "live", TRUE) ELSE Lot(4, "queued", FALSE)]

MCFloor == [l \in MCListings |-> 2]
MCCost  == [l \in MCListings |-> 1]

Markdown(l, p) == [kind |-> "markdown_price", listing |-> l, param |-> p]
Bare(kind, l)  == [kind |-> kind, listing |-> l, param |-> 0]

(* Every kind that writes one listing, and a markdown the policy refuses.    *)
OneLotIntents ==
  {Markdown(l2, 3), Markdown(l2, 1), [kind |-> "adjust_stock", listing |-> l2, param |-> 0],
   Bare("push_listing", l2), Bare("end_listing", l2)}

(* A swap and a write to the lot it unpins: they contend for l1.             *)
ContendingIntents == {Markdown(l1, 3), Bare("swap_pinned", l2)}

OneMarkdown == {Markdown(l1, 3)}
=============================================================================
