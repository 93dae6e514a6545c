----------------------------- MODULE EbayAdapter -----------------------------
(***************************************************************************)
(* Writes that go to eBay (actions/marketplace/ebay.ts) and the switch     *)
(* that sends them there (ShowRuntime.setWriteTarget).  The protocol is    *)
(* the one of ActionExecutor; what differs is the other side.  An offer    *)
(* has no version: it is read when the write is reserved and again when it *)
(* is applied, and must not have moved.  The seller, or a buyer, changes   *)
(* it on eBay at any time.  An undo is up to three calls, any of which may *)
(* fail.  And the adapter may be another one, with nothing reserved, from  *)
(* one phase to the next.                                                  *)
(*                                                                         *)
(* One lot and its offer; actions are approved as soon as they are planned.*)
(***************************************************************************)
EXTENDS Integers, FiniteSets

CONSTANTS
  Actions,
  Kind,         \* action -> markdown_price, adjust_stock, end_listing or push_listing
  NewPrice, NewQty,
  MaxEdits,     \* bound: changes made on eBay
  MaxFaults,    \* bound: calls and transactions that fail
  MaxSwitches   \* bound: changes of the write target

(* What is done to a lot is one of four kinds.                              *)
AdapterAssumption ==
  /\ NewQty \in 0..2 /\ MaxEdits \in Nat
  /\ Kind \in [Actions -> {"markdown_price", "adjust_stock", "end_listing", "push_listing"}]

VARIABLES
  row,       \* the listing here: price, qty, live
  offer,     \* the offer there
  target,    \* ShowRuntime.adapter: "mock" or "ebay"
  seen,      \* EbayMarketplace.seen: action -> the offer as it was reserved
  held,      \* MockMarketplace.reservations
  act,       \* action -> where it is, the row as planned, the offer as last read
  edits, faults, switches,
  moved      \* history: actions whose offer was changed by another since they last read it

vars == <<row, offer, target, seen, held, act, edits, faults, switches, moved>>
bounds == <<edits, faults, switches>>

Listing == [price |-> 10, qty |-> 2, live |-> TRUE]
Unread == [price |-> 0, qty |-> 0, live |-> FALSE]

Init ==
  /\ row = Listing /\ offer = Listing /\ target = "mock"
  /\ seen = [a \in Actions |-> Unread] /\ held = {}
  /\ act = [a \in Actions |-> [pc |-> "new", before |-> Unread, now |-> Unread, undoing |-> FALSE]]
  /\ edits = 0 /\ faults = 0 /\ switches = 0 /\ moved = {}

At(a, pc) == act[a].pc = pc
Goto(a, pc) == act' = [act EXCEPT ![a].pc = pc]
Fault == faults < MaxFaults /\ faults' = faults + 1 /\ UNCHANGED <<edits, switches>>
Touch(a) == moved' = moved \cup (Actions \ {a})

---------------------------- (* the environment *) --------------------------
Edit == \E o \in [price : {NewPrice, Listing.price}, qty : {1, 2}, live : BOOLEAN] :
  /\ edits < MaxEdits /\ edits' = edits + 1 /\ o # offer /\ offer' = o
  /\ moved' = Actions
  /\ UNCHANGED <<row, target, seen, held, act, faults, switches>>

(* Every arming is a new adapter, which has reserved nothing; the mock is   *)
(* one and the same.                                                        *)
SetWriteTarget(t) ==
  /\ switches < MaxSwitches /\ switches' = switches + 1
  /\ target' = t /\ seen' = IF t = "ebay" THEN [a \in Actions |-> Unread] ELSE seen
  /\ UNCHANGED <<row, offer, held, act, edits, faults, moved>>

------------------------------- (* a commit *) ------------------------------
Plan(a) ==
  /\ At(a, "new") /\ row.live
  /\ act' = [act EXCEPT ![a] = [@ EXCEPT !.pc = "approved", !.before = row]]
  /\ UNCHANGED <<row, offer, target, seen, held, bounds, moved>>

(* The offer must be what the row says; the mock asks whether the row is    *)
(* still the one that was planned.                                          *)
Reserve(a) ==
  /\ At(a, "approved")
  /\ LET ours == IF target = "ebay" THEN [offer EXCEPT !.live = row.live] ELSE act[a].before IN
     IF ours # row THEN Goto(a, "failed") /\ UNCHANGED <<seen, held>>
     ELSE /\ Goto(a, "reserved")
          /\ seen' = IF target = "ebay" THEN [seen EXCEPT ![a] = offer] ELSE seen
          /\ held' = IF target = "mock" THEN held \cup {a} ELSE held
  /\ UNCHANGED <<row, offer, target, bounds, moved>>

(* apply: price and quantity must be as they were reserved - if this        *)
(* adapter has reserved anything.                                           *)
Moved(a) == seen[a] # Unread /\ (seen[a].price # offer.price \/ seen[a].qty # offer.qty)

Read_once(a) ==  \* mutant: what was read when it was reserved is not compared
  /\ At(a, "reserved") /\ target = "ebay"
  /\ act' = [act EXCEPT ![a] = [@ EXCEPT !.pc = "read", !.now = offer]]
  /\ moved' = moved \ {a}
  /\ UNCHANGED <<row, offer, target, seen, held, bounds>>

Read(a) ==
  /\ At(a, "reserved") /\ target = "ebay"
  /\ IF Moved(a) THEN Goto(a, "failed") /\ seen' = [seen EXCEPT ![a] = Unread]
     ELSE act' = [act EXCEPT ![a] = [@ EXCEPT !.pc = "read", !.now = offer]] /\ UNCHANGED seen
  /\ moved' = moved \ {a}
  /\ UNCHANGED <<row, offer, target, held, bounds>>

ApplyToMock(a) ==
  /\ At(a, "reserved") /\ target = "mock"
  /\ Goto(a, IF a \in held THEN "applied" ELSE "failed")
  /\ UNCHANGED <<row, offer, target, seen, held, bounds, moved>>

(* The price and the quantity are looked for under names nobody gives them: *)
(* what was read is written back.  What is on screen has no counterpart.    *)
Write(a) ==
  /\ At(a, "read") /\ Goto(a, "applied")
  /\ offer' = CASE Kind[a] = "markdown_price" -> [offer EXCEPT !.price = act[a].now.price]
                [] Kind[a] = "adjust_stock" -> [offer EXCEPT !.qty = act[a].now.qty]
                [] Kind[a] = "end_listing" -> [offer EXCEPT !.live = FALSE]
                [] Kind[a] = "push_listing" -> offer
  /\ IF offer' # offer THEN Touch(a) ELSE UNCHANGED moved
  /\ UNCHANGED <<row, target, seen, held, bounds>>

WriteFails(a) ==
  /\ (At(a, "read") \/ At(a, "reserved")) /\ Fault
  /\ Goto(a, "failed") /\ seen' = [seen EXCEPT ![a] = Unread] /\ held' = held \ {a}
  /\ UNCHANGED <<row, offer, target, moved>>

(* applyLocal and the ledger, in one transaction; then confirm. *)
Commit(a) ==
  /\ At(a, "applied") /\ Goto(a, "committed")
  /\ row' = CASE Kind[a] = "markdown_price" -> [row EXCEPT !.price = NewPrice]
              [] Kind[a] = "adjust_stock" -> [row EXCEPT !.qty = NewQty]
              [] Kind[a] = "end_listing" -> [row EXCEPT !.live = FALSE]
              [] Kind[a] = "push_listing" -> [row EXCEPT !.live = TRUE]
  /\ seen' = IF target = "ebay" THEN [seen EXCEPT ![a] = Unread] ELSE seen
  /\ held' = IF target = "mock" THEN held \ {a} ELSE held
  /\ UNCHANGED <<offer, target, bounds, moved>>

CommitFails(a) ==
  /\ At(a, "applied") /\ Fault /\ Goto(a, "priceBack")
  /\ moved' = moved \ {a}
  /\ UNCHANGED <<row, offer, target, seen, held>>

-------------------------------- (* the undo *) -----------------------------
Rollback(a) ==
  /\ At(a, "committed")
  /\ act' = [act EXCEPT ![a] = [@ EXCEPT !.pc = "priceBack", !.undoing = TRUE]]
  /\ moved' = moved \ {a}
  /\ UNCHANGED <<row, offer, target, seen, held, bounds>>

Restored(a) == IF act[a].undoing THEN "restored" ELSE "failed"

(* compensate, of whichever adapter there is by now: the price, the         *)
(* quantity, and the offer itself if it was live, one call each.            *)
CompensateMock(a) ==
  /\ At(a, "priceBack") /\ target = "mock" /\ Goto(a, Restored(a))
  /\ UNCHANGED <<row, offer, target, seen, held, bounds, moved>>

PriceBack(a) ==
  /\ At(a, "priceBack") /\ target = "ebay" /\ Goto(a, "qtyBack")
  /\ offer' = [offer EXCEPT !.price = act[a].before.price] /\ Touch(a)
  /\ UNCHANGED <<row, target, seen, held, bounds>>

QtyBack(a) ==
  /\ At(a, "qtyBack")
  /\ Goto(a, IF act[a].before.live THEN "publish" ELSE Restored(a))
  /\ offer' = [offer EXCEPT !.qty = act[a].before.qty] /\ Touch(a)
  /\ UNCHANGED <<row, target, seen, held, bounds>>

Publish_not(a) ==  \* mutant: a withdrawn offer stays withdrawn
  /\ At(a, "publish") /\ Goto(a, Restored(a)) /\ Touch(a)
  /\ UNCHANGED <<row, offer, target, seen, held, bounds>>

Publish(a) ==
  /\ At(a, "publish") /\ Goto(a, Restored(a))
  /\ offer' = [offer EXCEPT !.live = TRUE] /\ Touch(a)
  /\ UNCHANGED <<row, target, seen, held, bounds>>

CompensateFails(a) ==
  /\ act[a].pc \in {"priceBack", "qtyBack", "publish"} /\ Fault /\ Goto(a, "failed")
  /\ UNCHANGED <<row, offer, target, seen, held, moved>>

UndoLocal(a) ==
  /\ At(a, "restored") /\ Goto(a, "rolledBack") /\ row' = act[a].before
  /\ UNCHANGED <<offer, target, seen, held, bounds, moved>>

-----------------------------------------------------------------------------
Next ==
  \/ Edit \/ \E t \in {"mock", "ebay"} : SetWriteTarget(t)
  \/ \E a \in Actions :
       \/ Plan(a) \/ Reserve(a) \/ Read(a) \/ ApplyToMock(a) \/ Write(a) \/ WriteFails(a)
       \/ Commit(a) \/ CommitFails(a) \/ Rollback(a) \/ CompensateMock(a) \/ PriceBack(a)
       \/ QtyBack(a) \/ Publish(a) \/ CompensateFails(a) \/ UndoLocal(a)

Spec == Init /\ [][Next]_vars

-----------------------------------------------------------------------------
Settled == {"new", "committed", "failed", "rolledBack"}

TypeOK ==
  /\ \A l \in {row, offer} : l.price \in {Listing.price, NewPrice} /\ l.qty \in 0..2 /\ l.live \in BOOLEAN
  /\ target \in {"mock", "ebay"} /\ held \subseteq Actions /\ moved \subseteq Actions
  /\ \A a \in Actions : act[a].pc \in Settled \cup {"approved", "reserved", "read", "applied", "priceBack",
                                                    "qtyBack", "publish", "restored"}

(* An offer that moved between the two readings is not written to           *)
(* (ebay.ts, lines 10 to 19): what a write replaces is what was reserved,   *)
(* but for what moves while the write is on its way.                        *)
LandsAsReserved == [][\A a \in Actions :
  At(a, "read") /\ act'[a].pc = "applied" /\ seen[a] # Unread /\ a \notin moved =>
    offer.price = seen[a].price /\ offer.qty = seen[a].qty]_vars

(* What reads rolled back, and was undone on eBay, was put back there as it *)
(* was planned against (lines 254 to 258), the withdrawn offer published    *)
(* again, if nobody else changed it meanwhile.                              *)
UndoneIsRestored == [][\A a \in Actions :
  act[a].pc \in {"qtyBack", "publish"} /\ act'[a].pc = "restored" /\ a \notin moved => offer' = act[a].before]_vars

(* A committed write happened where it is said to go: where every action    *)
(* was written to eBay, nothing failed and nobody else wrote, the lot is    *)
(* offered there as the console has it.  Else it is "the same action        *)
(* reported as done with a different thing actually happening" (runtime.ts, *)
(* lines 431 to 433).                                                       *)
CommittedIsWritten ==
  edits = 0 /\ faults = 0 /\ (\A a \in Actions : At(a, "committed") /\ act[a].now # Unread) => offer = row
=============================================================================
