---------------------------- MODULE ActionProposer ----------------------------
(***************************************************************************)
(* What the copilot proposes to do to the lots of a show                   *)
(* (actions/proposer.ts), and does when it may (pipeline.ts,               *)
(* evaluateActions).  Every message is counted, by lot and by buyer, for a *)
(* window of time; after each one the four rules read the catalog and the  *)
(* count, and what they come to is proposed, once for a version of a lot.  *)
(* On the top rung a markdown that passes its preflight approves itself.   *)
(*                                                                         *)
(* A preflight, a row and a commit are one step each here; their own steps *)
(* are ActionExecutor's.  Limits on the number of writes are left out, and *)
(* lots are taken to cost less than their floor and to be listed above it. *)
(***************************************************************************)
EXTENDS Integers, Sequences, FiniteSets, FiniteSetsExt

CONSTANTS
  Lots, Buyers,
  Questions,          \* what buyers ask: [intent, lot]
  Queue,              \* show.lotQueue
  Opening,            \* lot -> the price it is listed at
  Floor, Median,      \* lot -> floorPriceCents, the median of its comps (0: none)
  Cap,                \* policy().maxDiscountPct
  Step,               \* what prices are rounded up to
  Window,             \* windowMs
  Discounts, Swaps,   \* discountThreshold, swapThreshold
  Evaluations,
  MaxHeard, MaxTime, MaxMoves, MaxRows, MaxFaults, MaxRestarts  \* bounds

Intents == {"discount", "availability", "other"}   \* of real questions
Rules == <<"markdown", "end", "swap", "push">>
First == Queue[1]

(* Prices are whole cents, a discount is a share of one, and there is a step. *)
ProposerAssumption ==
  /\ Questions \subseteq [intent : Intents, lot : Lots]
  /\ Opening \in [Lots -> Nat] /\ Floor \in [Lots -> Nat] /\ Median \in [Lots -> Nat]
  /\ Cap \in 0..100 /\ Step \in Nat \ {0}
  /\ MaxTime \in Nat /\ MaxMoves \in Nat /\ MaxFaults \in Nat

VARIABLES
  now,
  signals,    \* ActionProposer.signals
  lots,       \* lot -> its row
  rung,       \* whether the show is on L4
  seen,       \* seenActionKeys
  eval,       \* evaluation -> where it is
  rows,       \* the actions on record
  heard, moves, faults, restarts

vars == <<now, signals, lots, rung, seen, eval, rows, heard, moves, faults, restarts>>

Idle == [pc |-> "idle", top |-> FALSE, recent |-> {}, rules |-> Rules, found |-> {}]

TypeOK ==
  /\ now \in 0..MaxTime /\ rung \in BOOLEAN /\ moves \in 0..MaxMoves /\ faults \in 0..MaxFaults
  /\ \A s \in signals : s.at \in 0..now /\ s.intent \in Intents /\ s.lot \in Lots /\ s.by \in Buyers
  /\ \A l \in Lots : lots[l].price \in Nat /\ lots[l].qty \in Nat /\ lots[l].state \in {"live", "queued", "ended"}
  /\ \A e \in Evaluations : eval[e].pc \in {"idle", "begun", "rules", "proposing"}
  /\ \A r \in rows : r.status \in {"proposed", "refused", "committed", "failed", "rejected"}

Init ==
  /\ now = 0 /\ signals = {} /\ rung = FALSE /\ seen = {} /\ rows = {} /\ heard = 0
  /\ lots = [l \in Lots |-> [price |-> Opening[l], qty |-> 1, pinned |-> l # First, version |-> 0,
                             state |-> IF l = First THEN "queued" ELSE "live"]]
  /\ eval = [e \in Evaluations |-> Idle] /\ moves = 0 /\ faults = 0 /\ restarts = 0

Tick ==
  /\ now < MaxTime /\ now' = now + 1
  /\ UNCHANGED <<signals, lots, rung, seen, eval, rows, moves, faults, restarts, heard>>

------------------------------- (* the room *) ------------------------------
(* Ingest: the signal is recorded, old ones fall out, and an evaluation     *)
(* begins with a read of the rung.                                          *)
Record(s) == signals' = {x \in signals \cup {s} : x.at >= now - Window}

Hear(e, b, q) ==
  /\ heard < MaxHeard /\ heard' = heard + 1
  /\ Record([at |-> now, intent |-> q.intent, lot |-> q.lot, by |-> b])
  /\ eval[e].pc = "idle" /\ eval' = [eval EXCEPT ![e].pc = "begun", ![e].top = rung]
  /\ UNCHANGED <<now, lots, rung, seen, rows, moves, faults, restarts>>

SetRung ==
  /\ moves < MaxMoves /\ moves' = moves + 1 /\ rung' = ~rung
  /\ UNCHANGED <<now, signals, lots, seen, eval, rows, faults, restarts, heard>>

(* A lot sells out, or is put back, or its seller names a new price. *)
Move(l, p, q) ==
  /\ moves < MaxMoves /\ moves' = moves + 1 /\ p >= Floor[l] /\ <<p, q>> # <<lots[l].price, lots[l].qty>>
  /\ lots' = [lots EXCEPT ![l].price = p, ![l].qty = q, ![l].version = @ + 1]
  /\ UNCHANGED <<now, signals, rung, seen, eval, rows, faults, restarts, heard>>

------------------------------- (* the rules *) -----------------------------
(* The window is taken once; each rule then reads the catalog for itself.   *)
(* They run together, but none depends on what another read: one after the  *)
(* other is enough.                                                         *)
Evaluate(e) ==
  /\ eval[e].pc = "begun"
  /\ eval' = [eval EXCEPT ![e].pc = "rules", ![e].recent = {s \in signals : s.at >= now - Window}]
  /\ UNCHANGED <<now, signals, lots, rung, seen, rows, moves, faults, restarts, heard>>

(* groupDistinctAuthors: asking again does not make two of one buyer. *)
Askers_each(S, l) == {s \in S : s.lot = l}  \* mutant: every question counts
Askers(S, l) == {s.by : s \in {x \in S : x.lot = l}}

RoundUp(c) == ((c + Step - 1) \div Step) * Step
CapFloor(c) == (c * (100 - Cap) + 99) \div 100

(* No further than the cap below what it is listed at, nor below the floor  *)
(* or what it goes for elsewhere.                                           *)
Target_uncapped(l) == Min({lots[l].price, RoundUp(Max({Floor[l], Median[l]}))})  \* mutant: the cap is left to the preflight
Target(l) == Min({lots[l].price, RoundUp(Max({Floor[l], CapFloor(lots[l].price), Median[l]}))})

Pinned == {l \in Lots : lots[l].pinned}
Saleable(l) == lots[l].state # "ended" /\ lots[l].qty > 0

Asked(e, is, l) == Askers({s \in eval[e].recent : s.intent \in is}, l)

Wanted(e, rule) ==
  CASE rule = "markdown" -> {l \in Lots : /\ Cardinality(Asked(e, {"discount"}, l)) >= Discounts
                                          /\ Saleable(l) /\ Target(l) < lots[l].price}
    [] rule = "end" -> {l \in Lots : /\ Cardinality(Asked(e, {"availability"}, l)) >= 2
                                     /\ lots[l].qty = 0 /\ lots[l].state # "ended"}
    [] rule = "swap" -> {l \in Lots \ Pinned : Cardinality(Asked(e, Intents, l)) >= Swaps /\ Saleable(l)}
    [] rule = "push" -> {l \in Lots : /\ ~ \E p \in Pinned : Saleable(p)
                                      /\ lots[l].state = "queued" /\ lots[l].qty > 0
                                      /\ \E i \in DOMAIN Queue : /\ Queue[i] = l
                                           /\ \A j \in 1..(i - 1) : lots[Queue[j]].state # "queued" \/ lots[Queue[j]].qty = 0}

Apply(e) ==
  /\ eval[e].pc = "rules"
  /\ LET rule == Head(eval[e].rules)
         found == {[kind |-> rule, lot |-> l, version |-> lots[l].version, price |-> IF rule = "markdown" THEN Target(l) ELSE 0] :
                     l \in Wanted(e, rule)}
         left == Tail(eval[e].rules)
     IN  eval' = [eval EXCEPT ![e].found = @ \cup found, ![e].rules = left, ![e].pc = IF left = <<>> THEN "proposing" ELSE @]
  /\ UNCHANGED <<now, signals, lots, rung, seen, rows, moves, faults, restarts, heard>>

--------------------------- (* what comes of them *) ------------------------
(* Preflight, on the lot as it is when the proposal is made.                *)
Passes(k, l, p) ==
  LET x == lots[l] IN
  CASE k = "markdown" -> p < x.price /\ p >= Floor[l] /\ (x.price - p) * 100 <= Cap * x.price /\ x.state # "ended"
    [] k = "end" -> x.state # "ended" /\ ~x.pinned
    [] k = "swap" -> ~x.pinned /\ Saleable(l)
    [] k = "push" -> x.state = "queued" /\ x.qty > 0

Done(e, p) == [eval EXCEPT ![e].found = @ \ {p}]
Turn(e, p) == eval[e].pc = "proposing" /\ p \in eval[e].found
              /\ \A q \in eval[e].found, i, j \in DOMAIN Rules : (Rules[i] = p.kind /\ Rules[j] = q.kind) => i <= j

Key(p) == <<p.kind, p.lot, p.version>>

(* A commit is refused when the lot has moved since the row was made.       *)
Committed(r) == [r EXCEPT !.status = IF r.version = lots[r.lot].version THEN "committed" ELSE "failed"]

Effect(r) ==
  IF r.version # lots[r.lot].version THEN lots
  ELSE [l \in Lots |->
         LET x == lots[l] IN
         IF l = r.lot
         THEN [x EXCEPT !.version = @ + 1, !.price = IF r.kind = "markdown" THEN r.price ELSE @,
                        !.pinned = @ \/ r.kind = "swap",
                        !.state = CASE r.kind = "end" -> "ended" [] r.kind = "push" -> "live" [] OTHER -> @]
         ELSE IF r.kind = "swap" /\ x.pinned THEN [x EXCEPT !.pinned = FALSE, !.version = @ + 1] ELSE x]

(* One key is proposed once by a process, and the same intent for the same  *)
(* version has one row for ever.  What is new or still open is approved by  *)
(* the copilot itself, on the rung the evaluation began with, if it is a    *)
(* markdown that passed.                                                    *)
Propose_anew(e, p) ==  \* mutant: a row is not looked for
  /\ Turn(e, p) /\ Key(p) \notin seen /\ seen' = seen \cup {Key(p)} /\ Cardinality(rows) < MaxRows
  /\ rows' = rows \cup {[kind |-> p.kind, lot |-> p.lot, version |-> lots[p.lot].version, price |-> p.price,
                          read |-> p.version, recent |-> eval[e].recent,
                          status |-> IF Passes(p.kind, p.lot, p.price) THEN "proposed" ELSE "refused"]}
  /\ eval' = Done(e, p)
  /\ UNCHANGED <<now, signals, lots, rung, moves, faults, restarts, heard>>

Propose(e, p) ==
  LET prior == {r \in rows : r.kind = p.kind /\ r.lot = p.lot /\ r.version = lots[p.lot].version /\ r.price = p.price}
      fresh == [kind |-> p.kind, lot |-> p.lot, version |-> lots[p.lot].version, price |-> p.price,
                read |-> p.version, recent |-> eval[e].recent,
                status |-> IF Passes(p.kind, p.lot, p.price) THEN "proposed" ELSE "refused"]
      r == IF prior = {} THEN fresh ELSE CHOOSE x \in prior : TRUE
      auto == eval[e].top /\ p.kind = "markdown" /\ r.status = "proposed"
  IN
  /\ Turn(e, p) /\ Key(p) \notin seen /\ seen' = seen \cup {Key(p)}
  /\ prior = {} => Cardinality(rows) < MaxRows
  /\ rows' = (rows \ prior) \cup {IF auto THEN Committed(r) ELSE r}
  /\ lots' = IF auto THEN Effect(r) ELSE lots
  /\ eval' = Done(e, p)
  /\ UNCHANGED <<now, signals, rung, moves, faults, restarts, heard>>

PassOver(e, p) ==
  /\ Turn(e, p) /\ Key(p) \in seen /\ eval' = Done(e, p)
  /\ UNCHANGED <<now, signals, lots, rung, seen, rows, moves, faults, restarts, heard>>

(* A row that cannot be written ends the evaluation; the key was taken.     *)
ProposeFails(e, p) ==
  /\ Turn(e, p) /\ Key(p) \notin seen /\ seen' = seen \cup {Key(p)}
  /\ faults < MaxFaults /\ faults' = faults + 1 /\ eval' = [eval EXCEPT ![e] = Idle]
  /\ UNCHANGED <<now, signals, lots, rung, rows, moves, restarts, heard>>

Evaluated(e) ==
  /\ eval[e].pc = "proposing" /\ eval[e].found = {} /\ eval' = [eval EXCEPT ![e] = Idle]
  /\ UNCHANGED <<now, signals, lots, rung, seen, rows, moves, faults, restarts, heard>>

(* The operator's answer. *)
Answer(r) ==
  /\ r \in rows /\ r.status = "proposed" /\ moves < MaxMoves /\ moves' = moves + 1
  /\ \/ rows' = (rows \ {r}) \cup {[r EXCEPT !.status = "rejected"]} /\ UNCHANGED lots
     \/ rows' = (rows \ {r}) \cup {Committed(r)} /\ lots' = Effect(r)
  /\ UNCHANGED <<now, signals, rung, seen, eval, faults, restarts, heard>>

(* The rows survive a restart, what was heard and what was seen do not. *)
Restart ==
  /\ restarts < MaxRestarts /\ restarts' = restarts + 1
  /\ signals' = {} /\ seen' = {} /\ eval' = [e \in Evaluations |-> Idle]
  /\ UNCHANGED <<now, lots, rung, rows, moves, faults, heard>>

Next ==
  \/ Tick \/ SetRung \/ Restart
  \/ \E e \in Evaluations, b \in Buyers, q \in Questions : Hear(e, b, q)
  \/ \E l \in Lots, q \in {0, 1} : Move(l, lots[l].price, q) \/ Move(l, Opening[l], q)
  \/ \E e \in Evaluations : Evaluate(e) \/ Apply(e) \/ Evaluated(e)
  \/ \E e \in Evaluations : \E p \in eval[e].found : Propose(e, p) \/ PassOver(e, p) \/ ProposeFails(e, p)
  \/ \E r \in rows : Answer(r)

Spec == Init /\ [][Next]_vars

-----------------------------------------------------------------------------
(* What is proposed rests on as many different buyers as its rule asks for, *)
(* each of whom did ask, of that lot, within the window.                    *)
RestsOnBuyers ==
  \A r \in rows :
    LET by(is) == {b \in Buyers : \E s \in r.recent : s.by = b /\ s.lot = r.lot /\ s.intent \in is}
    IN /\ r.kind = "markdown" => Cardinality(by({"discount"})) >= Discounts
       /\ r.kind = "end" => Cardinality(by({"availability"})) >= 2
       /\ r.kind = "swap" => Cardinality(by(Intents)) >= Swaps

(* A rule does not ask for what the preflight refuses, as long as the lot   *)
(* is still what the rule read.  One case is left: the end of a lot that is *)
(* sold out while it is on screen, which is proposed and cannot pass.       *)
RulesAgreeWithPreflight ==
  \A r \in rows : (r.status = "refused" /\ r.version = r.read) => r.kind = "end"

(* An intent is on record once for a version of a lot, whatever overlaps or *)
(* restarts: what the operator turned down is not put before them again as  *)
(* the lot is, nor is what was committed.                                   *)
OneRowAnIntent ==
  \A r, s \in rows : (r.kind = s.kind /\ r.lot = s.lot /\ r.version = s.version /\ r.price = s.price) => r = s

(* "On-air discounts cap at N% off the listed price and never cross the     *)
(* item's floor price", as agentSpec.ts has the agent say: what is proposed *)
(* and committed leaves a lot within N% of what its seller listed it at.    *)
DiscountsStayWithinCap ==
  \A l \in Lots : lots[l].price * 100 >= Opening[l] * (100 - Cap)
=============================================================================
