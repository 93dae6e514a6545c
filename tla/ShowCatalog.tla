----------------------------- MODULE ShowCatalog -----------------------------
(***************************************************************************)
(* Where a show's lineup comes from (shows/catalogs.ts, catalogImport.ts,  *)
(* ingest/ebay/import.ts): a catalog is a file, read through a cache; it   *)
(* is imported from the seller's eBay inventory page by page, answered     *)
(* into, given an agent by another process (npm run seed:agent), and       *)
(* applied to a show row by row - when the show is attached, when its      *)
(* catalog is swapped, and again when the process comes back.              *)
(*                                                                         *)
(* `terms` is a lot's price and quantity together, 0 where there is no     *)
(* such lot; an answer is the number of its last wording.                  *)
(***************************************************************************)
EXTENDS Integers, Sequences, FiniteSets

CONSTANTS
  Catalogs, Skus,
  Sellers,      \* requests about a catalog: an import, an answer
  Shows,        \* requests about the show: a catalog is applied to it
  Items,        \* what the catalogs hold at first
  Inventory,    \* the seller's listings on eBay, in its order
  Mine,         \* the catalog that an import writes
  Page,         \* offers, and items, a page of eBay's holds
  Limit,        \* how many listings an import asks for
  MaxTerms,     \* bound: the terms a lot may have
  MaxAnswers,   \* bound: answers given
  MaxTasks,     \* bound: imports, and times a catalog is applied
  MaxFaults     \* bound: calls that fail, listings that end, restarts

VARIABLES
  file,       \* the catalogs directory
  cache,      \* catalogs.ts `cache`: what the directory held when it was read, if it was
  inventory,  \* eBay's, in its order; every item of it has an offer
  lots,       \* the listings of the show: terms and version
  answers,    \* its qa row
  show,       \* shows.catalog_id, the runtime's catalogId and its agent
  req,        \* request -> where it is, and what it holds
  given, tasks, faults,
  writers     \* history: requests that had their show, or its catalog, to themselves

bounds == <<given, tasks, faults>>
vars == <<file, cache, inventory, lots, answers, show, req, given, tasks, faults, writers>>

None == "none"

(* A page has room for something, an import brings in lots at terms that a  *)
(* lot may have, and the other bounds are numbers.                          *)
LineupAssumption ==
  /\ Items \in [Catalogs -> [Skus -> 0..MaxTerms]] /\ Inventory \in Seq(Skus)
  /\ Mine \in Catalogs /\ None \notin Catalogs
  /\ Page \in Nat \ {0} /\ Limit \in Nat /\ MaxTerms \in Nat /\ MaxTerms >= 3
  /\ MaxAnswers \in Nat /\ MaxTasks \in Nat /\ MaxFaults \in Nat

Requests == Sellers \cup Shows
Empty == [k \in Skus |-> 0]
Blank == [items |-> Empty, qa |-> 0, agent |-> None]
Idle == [pc |-> "idle", kind |-> None, id |-> None, cat |-> Blank, had |-> Empty, todo |-> {},
         n |-> 0, items |-> <<>>, offers |-> {}, offset |-> 0, skipped |-> {}]

Init ==
  /\ file = [c \in Catalogs |-> [Blank EXCEPT !.items = Items[c]]]
  /\ cache = <<>> /\ inventory = Inventory
  /\ lots = [k \in Skus |-> [terms |-> 0, version |-> 0]] /\ answers = 0
  /\ show = [row |-> None, catalog |-> None, agent |-> None]
  /\ req = [r \in Requests |-> Idle] /\ given = 0 /\ tasks = 0 /\ faults = 0 /\ writers = {}

At(r, pc) == req[r].pc = pc
Task == tasks < MaxTasks /\ tasks' = tasks + 1 /\ UNCHANGED <<given, faults>>
Fault == faults < MaxFaults /\ faults' = faults + 1 /\ UNCHANGED <<given, tasks>>

(* Every other request has met this one's writes. *)
Alone(r) == writers' = IF \A o \in Requests \ {r} : At(o, "idle") THEN {r} ELSE {}
Met(r) == writers' = writers \cap {r}

------------------------------ (* the directory *) --------------------------
load == IF cache = <<>> THEN file ELSE cache[1]
getCatalog(c) == load[c]

reloadCatalogs == cache' = <<>> /\ UNCHANGED <<file, inventory, lots, answers, show, req, bounds, writers>>

(* A write reads the file, not the cache, and the next reader reads it. *)
addCatalogQa_cached(c) ==  \* mutant: it writes back what is in memory
  file' = [file EXCEPT ![c] = [getCatalog(c) EXCEPT !.qa = given + 1]] /\ cache' = <<>>

addCatalogQa(c) ==
  file' = [file EXCEPT ![c].qa = given + 1] /\ cache' = <<>>

(* setCatalogAgent, in the process of the seeding script. *)
SeedAgent(c) ==
  /\ file[c].agent = None /\ file' = [file EXCEPT ![c].agent = "shared"]
  /\ UNCHANGED <<cache, inventory, lots, answers, show, req, bounds, writers>>

(* POST /api/catalogs/:id/qa: the file, and then the show that is running. *)
Answer(r, c) ==
  /\ At(r, "idle") /\ given < MaxAnswers /\ given' = given + 1
  /\ addCatalogQa(c)
  /\ req' = [req EXCEPT ![r] = [Idle EXCEPT !.pc = IF show.catalog = None THEN "idle" ELSE "answer", !.n = given + 1]]
  /\ Met(r) /\ UNCHANGED <<inventory, lots, answers, show, tasks, faults>>

AnswerLive(r) ==
  /\ At(r, "answer") /\ req' = [req EXCEPT ![r] = Idle]
  /\ answers' = req[r].n
  /\ Met(r) /\ UNCHANGED <<file, cache, inventory, lots, show, bounds>>

------------------------------- (* the import *) ----------------------------
Goto(r, pc) == req' = [req EXCEPT ![r] = [req[r] EXCEPT !.pc = pc, !.offset = 0]]

ImportStart(r) ==
  /\ At(r, "idle") /\ Task
  /\ req' = [req EXCEPT ![r] = [Idle EXCEPT !.pc = "items", !.kind = "import", !.id = Mine]]
  /\ Alone(r) /\ UNCHANGED <<file, cache, inventory, lots, answers, show>>

Upto(n) == IF n < Len(inventory) THEN n ELSE Len(inventory)
PageAt(offset) == SubSeq(inventory, offset + 1, Upto(offset + Page))

(* Items, and then offers, a page at a time, until one is short or there    *)
(* are items enough.                                                        *)
ImportItems_once(r) ==  \* mutant: the first page is the inventory
  /\ At(r, "items")
  /\ req' = [req EXCEPT ![r].items = PageAt(0), ![r].pc = "offers", ![r].offset = 0]
  /\ UNCHANGED <<file, cache, inventory, lots, answers, show, bounds, writers>>

ImportItems(r) ==
  /\ At(r, "items")
  /\ LET batch == PageAt(req[r].offset) IN
     LET enough == Len(batch) < Page \/ Len(req[r].items) + Len(batch) >= Limit IN
     req' = [req EXCEPT ![r] = [req[r] EXCEPT !.items = @ \o batch,
                                              !.pc = IF enough THEN "offers" ELSE "items",
                                              !.offset = IF enough THEN 0 ELSE @ + Page]]
  /\ UNCHANGED <<file, cache, inventory, lots, answers, show, bounds, writers>>

ImportOffers(r) ==
  /\ At(r, "offers")
  /\ LET batch == PageAt(req[r].offset) IN
     req' = [req EXCEPT ![r] = [req[r] EXCEPT !.offers = @ \cup {batch[i] : i \in DOMAIN batch},
                                              !.pc = IF Len(batch) < Page THEN "file" ELSE "offers",
                                              !.offset = @ + Page]]
  /\ UNCHANGED <<file, cache, inventory, lots, answers, show, bounds, writers>>

(* A page of offers that fails is an empty page, and the last; a page of    *)
(* items that fails is the end of the import.                               *)
OffersFail(r) ==
  /\ At(r, "offers") /\ Fault /\ Goto(r, "file") /\ writers' = writers \ {r}
  /\ UNCHANGED <<file, cache, inventory, lots, answers, show>>

ItemsFail(r) ==
  /\ At(r, "items") /\ Fault /\ req' = [req EXCEPT ![r] = Idle] /\ writers' = writers \ {r}
  /\ UNCHANGED <<file, cache, inventory, lots, answers, show>>

Brought(r) == {req[r].items[i] : i \in {j \in DOMAIN req[r].items : j <= Limit}}

(* The file is replaced whole: its answers, its clauses and its agent go.   *)
ImportWrite(r) ==
  /\ At(r, "file")
  /\ file' = [file EXCEPT ![Mine] = [Blank EXCEPT !.items =
                [k \in Skus |-> IF k \in Brought(r) \cap req[r].offers THEN 3 ELSE 0]]]
  /\ cache' = <<>>
  /\ req' = [req EXCEPT ![r] = [req[r] EXCEPT !.pc = "imported", !.skipped = Brought(r) \ req[r].offers]]
  /\ UNCHANGED <<inventory, lots, answers, show, bounds, writers>>

Reported(r) ==
  /\ (At(r, "imported") \/ At(r, "applied")) /\ req' = [req EXCEPT ![r] = Idle] /\ writers' = writers \ {r}
  /\ UNCHANGED <<file, cache, inventory, lots, answers, show, bounds>>

(* A listing is ended on eBay, and the ones after it move up. *)
Delist ==
  /\ inventory # <<>> /\ Fault /\ inventory' = Tail(inventory) /\ writers' = {}
  /\ UNCHANGED <<file, cache, lots, answers, show, req>>

------------------------- (* a catalog onto the show *) ---------------------
(* It is attached on an agent of its own; a show may be swapped to another  *)
(* catalog; and one that was live is taken up again after a restart, on     *)
(* the catalog of its row.  The rows are read once, before the first item.  *)
ApplyStart(r, kind, c) ==
  /\ At(r, "idle") /\ Task
  /\ CASE kind = "attach" -> show.agent = None /\ show.row = None /\ \A o \in Requests : req[o].kind # "attach"
       [] kind = "swap" -> show.catalog # None
       [] kind = "resume" -> show.agent = None /\ show.row = c
  /\ req' = [req EXCEPT ![r] = [Idle EXCEPT !.pc = "apply", !.kind = kind, !.id = c, !.cat = getCatalog(c), !.had = [k \in Skus |-> lots[k].terms],
                                            !.todo = {k \in Skus : getCatalog(c).items[k] # 0}]]
  /\ cache' = <<load>>
  /\ show' = IF kind = "swap" THEN show ELSE [show EXCEPT !.agent = "own"]
  /\ Alone(r) /\ UNCHANGED <<file, inventory, lots, answers>>

(* A lot that was listed on other terms is changed, and one that was not    *)
(* listed is inserted - or changed, if it is listed by now - and its        *)
(* version moves.                                                           *)
ApplyItem(r, k) ==
  /\ At(r, "apply") /\ k \in req[r].todo
  /\ req' = [req EXCEPT ![r].todo = @ \ {k}]
  /\ LET terms == req[r].cat.items[k] IN
     lots' = IF req[r].had[k] = terms THEN lots
             ELSE [lots EXCEPT ![k] = [terms |-> terms, version |-> @.version + 1]]
  /\ Met(r) /\ UNCHANGED <<file, cache, inventory, answers, show, bounds>>

(* The answers after the items; the runtime is told which catalog it is on, *)
(* and takes up the catalog's agent if that has one - but for an attach,    *)
(* which alone writes the catalog to the show's row.                        *)
ApplyAnswers(r) ==
  /\ At(r, "apply") /\ req[r].todo = {}
  /\ answers' = IF req[r].cat.qa # 0 THEN req[r].cat.qa ELSE answers
  /\ req' = [req EXCEPT ![r].pc = "applied"]
  /\ show' = [row |-> IF req[r].kind = "attach" THEN req[r].id ELSE show.row,
              catalog |-> req[r].id,
              agent |-> IF req[r].kind # "attach" /\ req[r].cat.agent # None THEN req[r].cat.agent ELSE show.agent]
  /\ Met(r) /\ UNCHANGED <<file, cache, inventory, lots, bounds>>

(* A clause, a comparable or an answer that is refused ends it there. *)
ApplyFails(r) ==
  /\ At(r, "apply") /\ req[r].todo = {} /\ Fault
  /\ req' = [req EXCEPT ![r] = Idle] /\ writers' = writers \ {r}
  /\ UNCHANGED <<file, cache, inventory, lots, answers, show>>

(* A lot is sold, or marked down. *)
Sell(k) ==
  /\ lots[k].terms \in 1..(MaxTerms - 1)
  /\ lots' = [lots EXCEPT ![k] = [terms |-> MaxTerms, version |-> @.version + 1]]
  /\ writers' = {} /\ UNCHANGED <<file, cache, inventory, answers, show, req, bounds>>

Restart ==
  /\ Fault /\ cache' = <<>> /\ req' = [r \in Requests |-> Idle] /\ writers' = {}
  /\ show' = [row |-> show.row, catalog |-> None, agent |-> None]
  /\ UNCHANGED <<file, inventory, lots, answers>>

-----------------------------------------------------------------------------
Next ==
  \/ reloadCatalogs /\ cache # <<>>
  \/ Delist \/ Restart \/ \E c \in Catalogs : SeedAgent(c)
  \/ \E k \in Skus : Sell(k)
  \/ \E r \in Requests : Reported(r)
  \/ \E r \in Sellers :
       \/ ImportStart(r) \/ ImportItems(r) \/ ImportOffers(r) \/ OffersFail(r) \/ ItemsFail(r)
       \/ ImportWrite(r) \/ AnswerLive(r) \/ \E c \in Catalogs : Answer(r, c)
  \/ \E r \in Shows :
       \/ ApplyAnswers(r) \/ ApplyFails(r) \/ \E k \in Skus : ApplyItem(r, k)
       \/ \E c \in Catalogs, kind \in {"attach", "swap", "resume"} : ApplyStart(r, kind, c)

Spec == Init /\ [][Next]_vars

-----------------------------------------------------------------------------
TypeOK ==
  /\ \A c \in Catalogs : file[c].qa \in 0..MaxAnswers /\ file[c].agent \in {None, "shared"}
                         /\ file[c].items \in [Skus -> 0..MaxTerms]
  /\ Len(cache) \in 0..1
  /\ \A k \in Skus : lots[k].terms \in 0..MaxTerms /\ lots[k].version \in Nat
  /\ show.row \in Catalogs \cup {None} /\ show.agent \in {None, "own", "shared"}
  /\ answers \in 0..MaxAnswers /\ writers \subseteq Requests

(* What is kept in a catalog's file - the answers a seller has given        *)
(* (catalogs.ts, lines 86 to 97), the agent another process has seeded -    *)
(* goes only with an import, which replaces the file.                       *)
FilesKeep == [][\A c \in Catalogs :
  (c # Mine \/ \A r \in Requests : req'[r].pc # "imported" \/ At(r, "imported")) =>
    /\ file'[c].qa >= file[c].qa
    /\ file[c].agent # None => file'[c].agent = file[c].agent]_vars

(* What is served of a catalog is what was last written of it here: only    *)
(* the seeding script's agent may be missing from it.                       *)
ServedIsWritten ==
  cache # <<>> => \A c \in Catalogs : cache[1][c].items = file[c].items /\ cache[1][c].qa = file[c].qa

(* A lot whose terms move moves its version, imported or sold, or nothing   *)
(* that was said of it before would be seen to be stale (catalogImport.ts,  *)
(* lines 55 to 57).                                                         *)
TermsMoveWithVersion == [][\A k \in Skus :
  lots'[k].terms # lots[k].terms => lots'[k].version > lots[k].version]_vars

(* Every listing eBay has is in the catalog, or is reported to be missing   *)
(* from it (import.ts, lines 37 to 40), if the inventory stood still and    *)
(* was within the limit.                                                    *)
ImportIsWhole == \A r \in writers : At(r, "imported") =>
  \A i \in DOMAIN inventory : i <= Limit => file[Mine].items[inventory[i]] # 0 \/ inventory[i] \in req[r].skipped

(* A catalog that was applied is what the show lists, if nothing else wrote *)
(* to the show meanwhile.                                                   *)
ListedAsApplied == \A r \in writers : At(r, "applied") =>
  \A k \in Skus : req[r].cat.items[k] # 0 => lots[k].terms = req[r].cat.items[k]
=============================================================================
