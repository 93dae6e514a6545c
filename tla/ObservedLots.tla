---------------------------- MODULE ObservedLots ----------------------------
(***************************************************************************)
(* The lots of a stream we do not own (ShowRuntime.openSurface, onItem;    *)
(* Repo.upsertObservedLot).  What the page shows is compared with the row  *)
(* of the lot and written in up to five statements, none of them in a      *)
(* transaction, by a handler that nobody waits for: the next observation   *)
(* may start while one is still writing.                                   *)
(*                                                                         *)
(* A lot is its title, a live one has one in stock, and an ended one none. *)
(***************************************************************************)
EXTENDS Integers, FiniteSets

CONSTANTS
  Lots,
  AskedPrices,      \* lot -> the prices it is seen at
  MaxObservations,  \* bound: observations
  MaxAtOnce,        \* bound: observations being written
  Overlaps,         \* whether two observations of one lot are written at once
  MaxFaults         \* bound: statements that fail, and crashes

VARIABLES
  shown,     \* EbayLiveWatcher.lastLotKey: what was last emitted, if anything
  handlers,  \* the observations being written, by number
  count,     \* how many observations there have been
  rows,      \* listings
  sales,     \* how many rows of sales each lot has
  faults,
  latest,    \* history: what was last observed of each lot,
  closings,  \*   how often its row went from live to ended,
  hurt       \*   and whether the writing of one was cut short

(* The bounds are numbers. *)
LotsAssumption == MaxObservations \in Nat /\ MaxFaults \in Nat

vars == <<shown, handlers, count, rows, sales, faults, latest, closings, hurt>>
history == <<latest, closings, hurt>>

None == [lot |-> "none"]
NoRow == [there |-> FALSE, price |-> 0, floor |-> 0, live |-> FALSE, pinned |-> FALSE]

Init ==
  /\ shown = None /\ handlers = {} /\ count = 0
  /\ rows = [l \in Lots |-> NoRow] /\ sales = [l \in Lots |-> 0]
  /\ faults = 0
  /\ latest = [l \in Lots |-> None] /\ closings = [l \in Lots |-> 0]
  /\ hurt = [l \in Lots |-> FALSE]

Writing(l) == \E h \in handlers : h.seen.lot = l
To(h, pc) == handlers' = (handlers \ {h}) \cup {[h EXCEPT !.pc = pc]}
Gone(h) == handlers' = handlers \ {h}

-------------------------- (* what the page shows *) ------------------------
(* emitLot: only what differs from what was emitted last. *)
Observe == \E lot \in Lots, live \in BOOLEAN : \E price \in AskedPrices[lot] :
  LET seen == [lot |-> lot, price |-> price, live |-> live] IN
  /\ seen # shown
  /\ Overlaps \/ ~Writing(lot)
  /\ count < MaxObservations /\ Cardinality(handlers) < MaxAtOnce
  /\ shown' = seen /\ count' = count + 1
  /\ handlers' = handlers \cup {[n |-> count, seen |-> seen, was |-> NoRow, pc |-> "find"]}
  /\ latest' = [latest EXCEPT ![lot] = seen]
  /\ UNCHANGED <<rows, sales, faults, closings, hurt>>

-------------------------- (* upsertObservedLot *) --------------------------
Differs(was, seen) ==
  \/ was.price # seen.price \/ was.live # seen.live
  \/ seen.live /\ ~was.pinned

(* An observation that changes nothing only stamps the row. *)
Find(h) ==
  /\ h.pc = "find"
  /\ LET was == rows[h.seen.lot] IN
     IF was.there /\ ~Differs(was, h.seen) THEN Gone(h)
     ELSE handlers' = (handlers \ {h}) \cup {[h EXCEPT !.was = was, !.pc = IF was.there THEN "floor" ELSE "insert"]}
  /\ UNCHANGED <<shown, count, rows, sales, faults, history>>

(* The key of the row is taken if another observation inserted it. *)
Insert(h) ==
  /\ h.pc = "insert"
  /\ IF rows[h.seen.lot].there THEN Gone(h) /\ UNCHANGED rows
     ELSE /\ rows' = [rows EXCEPT ![h.seen.lot] =
                        [there |-> TRUE, price |-> h.seen.price, floor |-> h.seen.price, live |-> h.seen.live, pinned |-> TRUE]]
          /\ To(h, "pin")
  /\ UNCHANGED <<shown, count, sales, faults, history>>

(* A lot that was live and is not has just been sold; it is booked before    *)
(* its row says so, and the row is what is asked the next time.             *)
Floor_mutatesFirst(h) ==  \* mutant: the row is written before the sale
  /\ h.pc = "floor"
  /\ rows' = [rows EXCEPT ![h.seen.lot] =
                [@ EXCEPT !.price = h.seen.price, !.floor = h.seen.price, !.live = h.seen.live]]
  /\ closings' = [closings EXCEPT ![h.seen.lot] = IF rows[h.seen.lot].live /\ ~h.seen.live THEN @ + 1 ELSE @]
  /\ To(h, IF h.was.live /\ ~h.seen.live THEN "sale" ELSE "mutate")
  /\ UNCHANGED <<shown, count, sales, faults, latest, hurt>>

Floor(h) ==
  /\ h.pc = "floor"
  /\ rows' = [rows EXCEPT ![h.seen.lot].floor = h.seen.price]
  /\ To(h, IF h.was.live /\ ~h.seen.live THEN "sale" ELSE "mutate")
  /\ UNCHANGED <<shown, count, sales, faults, history>>

(* Keyed by the time it is booked, so nothing is ever already there. *)
RecordSale(h) ==
  /\ h.pc = "sale" /\ sales' = [sales EXCEPT ![h.seen.lot] = @ + 1] /\ To(h, "mutate")
  /\ UNCHANGED <<shown, count, rows, faults, history>>

Mutate(h) ==
  /\ h.pc = "mutate"
  /\ rows' = [rows EXCEPT ![h.seen.lot] = [@ EXCEPT !.price = h.seen.price, !.live = h.seen.live]]
  /\ closings' = [closings EXCEPT ![h.seen.lot] = IF rows[h.seen.lot].live /\ ~h.seen.live THEN @ + 1 ELSE @]
  /\ To(h, IF h.seen.live /\ ~h.was.pinned THEN "pin" ELSE "index")
  /\ UNCHANGED <<shown, count, sales, faults, latest, hurt>>

SetPinned(h) ==
  /\ h.pc = "pin"
  /\ rows' = [l \in Lots |-> IF rows[l].pinned \/ l = h.seen.lot
                             THEN [rows[l] EXCEPT !.pinned = (l = h.seen.lot)] ELSE rows[l]]
  /\ To(h, "index")
  /\ UNCHANGED <<shown, count, sales, faults, history>>

(* Back in onItem: the index, the pin of the show and the name of a new lot *)
(* are RetrievalIndex, ShowRow and HostContext.                             *)
Index(h) ==
  /\ h.pc = "index" /\ Gone(h)
  /\ UNCHANGED <<shown, count, rows, sales, faults, history>>

(* A statement fails; nobody hears of it, and nothing is taken back. *)
StatementFails(h) ==
  /\ faults < MaxFaults /\ faults' = faults + 1 /\ Gone(h)
  /\ hurt' = [hurt EXCEPT ![h.seen.lot] = TRUE]
  /\ UNCHANGED <<shown, count, rows, sales, latest, closings>>

(* The process dies, and the show is taken up by a watcher that has not     *)
(* emitted anything.                                                        *)
Restart ==
  /\ faults < MaxFaults /\ faults' = faults + 1
  /\ hurt' = [l \in Lots |-> hurt[l] \/ \E h \in handlers : h.seen.lot = l]
  /\ handlers' = {} /\ shown' = None
  /\ UNCHANGED <<count, rows, sales, latest, closings>>

-----------------------------------------------------------------------------
Next ==
  \/ Observe \/ Restart
  \/ \E h \in handlers :
       \/ Find(h) \/ Insert(h) \/ Floor(h) \/ RecordSale(h) \/ Mutate(h)
       \/ SetPinned(h) \/ Index(h) \/ StatementFails(h)

Spec == Init /\ [][Next]_vars

-----------------------------------------------------------------------------
TypeOK ==
  /\ count \in 0..MaxObservations /\ faults \in 0..MaxFaults
  /\ \A l \in Lots : /\ rows[l].price \in AskedPrices[l] \cup {0}
  /\ \A h \in handlers : h.pc \in {"find", "insert", "floor", "sale", "mutate", "pin", "index"}

(* A lot that was on sale and is not is booked (repo.ts, lines 276 to 282), *)
(* whatever fails and whenever the process dies, and it is booked once      *)
(* (lines 296 to 300) if nothing does; for as long as no two observations   *)
(* of it are written at once.                                               *)
SalesAreBooked == \A l \in Lots :
  /\ sales[l] >= closings[l]
  /\ ~hurt[l] /\ ~Writing(l) => sales[l] = closings[l]

(* And what its row says is what was last seen of it, floor and all         *)
(* (repo.ts, lines 264 to 275).                                             *)
NewestIsKept == \A l \in Lots :
  hurt[l] \/ Writing(l) \/ latest[l] = None \/
    (rows[l].price = latest[l].price /\ rows[l].live = latest[l].live /\ rows[l].floor = latest[l].price)

=============================================================================
