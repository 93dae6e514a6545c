----------------------------- MODULE GuardChain -----------------------------
(***************************************************************************)
(* One reply through the guards (guardrails/guards.ts, chain.ts) and the   *)
(* rung that decides what becomes of it (autonomy/ladder.ts): it is        *)
(* grounded in facts of the catalog as it was indexed, written, checked    *)
(* against the catalog as it is by then, repaired once if that is asked    *)
(* for, and sent, offered or held; and the operator may put their own      *)
(* words in its place, which are checked again.                            *)
(*                                                                         *)
(* Of the words of a reply only what a guard looks for is kept: an amount  *)
(* of money and the kind of clause it stands in, what is claimed of stock, *)
(* which topics are touched, what is cited, and what is wrong with the     *)
(* wording.  Amounts and quantities are small numbers.                     *)
(***************************************************************************)
EXTENDS Integers, FiniteSets, FiniteSetTheorems, TLAPS

CONSTANTS
  Lots,
  Texts,       \* what a model may write
  Rewrites,    \* what it may write when told what is wrong, or an operator may
  Retrieved,   \* the sets of facts, by id, that retrieval may come up with
  Rooms,       \* the rooms, rungs and questions
  Prices,      \* what a lot may be priced at
  Flat,        \* an amount that a policy clause states
  Heard,       \* an amount the host said
  Median,      \* the median of comparable sales
  Floor,       \* floorPriceCents
  Cap,         \* maxDiscountPct
  MaxMoves     \* bound: changes of the catalog

VARIABLES
  catalog,   \* listings: lot -> price, quantity, version, certified
  indexed,   \* the catalog as the index has it
  pc,        \* where the reply is
  facts,     \* r.facts, as they were indexed
  room,      \* the surface, the rung, the intent, what the buyer offered and named
  text,      \* the draft
  checked,   \* the catalog as the guards read it
  verdicts,  \* chain.guards
  grounding, \* ReplyPipeline.grounding: whether it has an entry for the reply
  repaired, moves

vars == <<catalog, indexed, pc, facts, room, text, checked, verdicts, grounding, repaired, moves>>

(* A reply that says nothing, and the question nobody asked. *)
NoText == [cents |-> 0, clause |-> "plain", stock |-> "unsaid", last |-> FALSE, count |-> -1, topic |-> "none",
           never |-> "none", cites |-> {}, weak |-> FALSE, checkable |-> FALSE, tone |-> "fine",
           pii |-> FALSE, breaks |-> FALSE, sponsored |-> FALSE]
NoRoom == [surface |-> "none", level |-> 0, intent |-> "none", api |-> FALSE, offer |-> 0, named |-> "none", quality |-> 0]

Guards == {"price", "availability", "policy", "claim_grounding", "tone", "pii", "community_rule", "sponsor"}

(* Guards whose subject is the model, not the reply. *)
MODEL_ONLY_GUARDS == {"claim_grounding"}

AUTO_REPLY_INTENTS == {"shipping", "availability"}  \* and three more
AUTO_CONFIDENCE_FLOOR == 80

Init ==
  /\ catalog = [l \in Lots |-> [price |-> CHOOSE p \in Prices : \A o \in Prices : o <= p, qty |-> 1, version |-> 1, certified |-> FALSE]]
  /\ indexed = catalog /\ checked = catalog /\ pc = "asked" /\ facts = {} /\ room = NoRoom /\ text = NoText
  /\ verdicts = [g \in Guards |-> "n/a"] /\ grounding = FALSE /\ repaired = FALSE /\ moves = 0

--------------------------- (* what it is grounded in *) --------------------
(* buildFacts: of a lot its price and its stock, each at the version of its *)
(* row; the whole lineup, with its prices and at no version; the clauses,   *)
(* what was said, comparable sales, and what the sponsor approved.          *)
Fact(id, source) == [id |-> id, source |-> source, lot |-> "none", version |-> 0, cents |-> 0, states |-> {}]

listingFacts(l) ==
  {[Fact("price", "listing") EXCEPT !.lot = l, !.version = catalog[l].version,
                                    !.cents = catalog[l].price, !.states = {catalog[l].price}],
   [Fact("stock", "listing") EXCEPT !.lot = l, !.version = catalog[l].version]}

NoFact == Fact("none", "none")

showFacts ==
  {[Fact("lineup", "catalog") EXCEPT !.states = {catalog[l].price : l \in {x \in Lots : catalog[x].qty > 0}}],
   [Fact("shipping", "policy") EXCEPT !.states = {Flat}],
   [Fact("speech", "host") EXCEPT !.states = {Heard}],
   [Fact("comps", "market") EXCEPT !.cents = Median, !.states = {Median}],
   Fact("sponsor", "sponsor")}

buildFacts == (UNION {listingFacts(l) : l \in Lots}) \cup showFacts

WRITTEN_SOURCES == {"listing", "catalog", "policy", "qa"}

(* Of the facts retrieval may choose, those that the question needs; how    *)
(* good the best of them is, in hundredths.                                 *)
Retrieve == \E ids \in Retrieved, r \in Rooms :
  /\ pc = "asked" /\ pc' = "drafting"
  /\ (ids = {}) = (r.quality = 0)
  /\ facts' = {f \in buildFacts : f.id \in ids /\ (f.lot = "none" \/ r.named = "none" \/ f.lot = r.named)}
  /\ room' = r /\ indexed' = catalog
  /\ UNCHANGED <<catalog, text, checked, verdicts, grounding, repaired, moves>>

(* The seller marks a lot down, sells one of it, or has it certified. *)
Move(l) == \E p \in Prices, q \in 0..2, c \in BOOLEAN :
  /\ moves < MaxMoves /\ moves' = moves + 1
  /\ pc \in {"drafting", "repairing", "offered", "held"}
  /\ LET was == catalog[l]
        next == [price |-> p, qty |-> q, certified |-> c, version |-> was.version + 1] IN
     /\ Cardinality({x \in {"price", "qty", "certified"} : next[x] # was[x]}) = 1
     /\ catalog' = [catalog EXCEPT ![l] = next]
  /\ UNCHANGED <<indexed, pc, facts, room, text, checked, verdicts, grounding, repaired>>

------------------------------- (* the guards *) ----------------------------
(* Each is given the room, the reply, what that was given, and the catalog  *)
(* as it is read now.  Where several facts, or lots, would do, the code takes the    *)
(* first in the order of retrieval: here any of them.                       *)
hasCorpus(r, kind) == CASE kind \in {"listing", "policy"} -> r.surface = "ebay" [] OTHER -> r.surface = "twitch"

groundedListings(r, given) ==
  IF r.named # "none" THEN {r.named} ELSE {f.lot : f \in given} \ {"none"}

OneOf(S, none) == IF S = {} THEN {none} ELSE S

firstResolvedListing(r, given) == OneOf(groundedListings(r, given), "none")

isTopicGiven(topic, given) == \E f \in given : f.id = topic

(* The floor and the cap of what is a discount on the lot. *)
Commits(cents, lot) ==
  IF cents < Floor \/ (lot.price - cents) * 100 > Cap * lot.price THEN "block" ELSE "allow"

(* An amount is, in this order, a fact's exact value, whose lot must be at  *)
(* the version of the fact; the buyer's own, declined; stated by something  *)
(* written down; what the host said, if it is so or is said to be theirs;   *)
(* or a commitment.  `typed` is the fact of that value, `l` the lot.        *)
priceGuard(r, t, given, cat, typed, l) ==
  LET price == IF l = "none" THEN 0 ELSE cat[l].price IN
  IF ~hasCorpus(r, "listing") \/ t.cents = 0 THEN "n/a"
  ELSE IF typed # NoFact
       THEN (IF typed.lot # "none" /\ cat[typed.lot].version # typed.version THEN "block" ELSE "allow")
  ELSE IF t.cents = r.offer /\ t.clause = "declining" THEN "allow"
  ELSE IF \E f \in given : f.source \in WRITTEN_SOURCES /\ t.cents \in f.states THEN "allow"
  ELSE IF \E f \in given : f.source = "host" /\ t.cents \in f.states
       THEN (IF t.clause = "attributed" \/ t.cents = price THEN "allow" ELSE "block")
  ELSE IF t.cents # r.offer /\ t.cents >= price THEN "block"
  ELSE IF l = "none" THEN "allow" ELSE Commits(t.cents, cat[l])

availabilityGuard(r, t, given, cat) ==
  LET about == groundedListings(r, given)
      Every(P(_)) == \A l \in about : P(cat[l].qty) IN
  IF ~hasCorpus(r, "listing") \/ about = {} THEN "n/a"
  ELSE IF t.stock = "available" /\ Every(LAMBDA q : q = 0) THEN "block"
  ELSE IF t.stock = "gone" /\ Every(LAMBDA q : q > 0) THEN "revise"
  ELSE IF t.last /\ Every(LAMBDA q : q # 1) THEN "block"
  ELSE IF t.count >= 0 /\ Every(LAMBDA q : q # t.count) THEN "block"
  ELSE "allow"

policyGuard(r, t, given, cat, l) ==
  IF t.never = "always" \/ (t.never = "unlessCertified" /\ (l = "none" \/ ~cat[l].certified)) THEN "block"
  ELSE IF hasCorpus(r, "policy") /\ t.topic # "none" /\ ~isTopicGiven(t.topic, given) THEN "revise"
  ELSE "allow"

claimGroundingGuard(t, given) ==
  IF ~(t.cites \subseteq {f.id : f \in given}) THEN "block"
  ELSE IF t.cites = {} THEN (IF t.checkable THEN "revise" ELSE "allow")
  ELSE IF t.weak THEN "revise" ELSE "allow"

toneGuard(t) == CASE t.tone = "profane" -> "block" [] t.tone = "loud" -> "revise" [] OTHER -> "allow"

piiGuard(t) == IF t.pii THEN "block" ELSE "allow"

communityRuleGuard(r, t) == IF ~hasCorpus(r, "community") THEN "n/a" ELSE IF t.breaks THEN "block" ELSE "allow"

sponsorGuard(t, given) ==
  IF ~isTopicGiven("sponsor", given) THEN "n/a"
  ELSE IF t.sponsored /\ "sponsor" \notin t.cites THEN "block" ELSE "allow"

run(r, t, given, cat, typed, l) ==
  [price |-> priceGuard(r, t, given, cat, typed, l), availability |-> availabilityGuard(r, t, given, cat),
   policy |-> policyGuard(r, t, given, cat, l), claim_grounding |-> claimGroundingGuard(t, given),
   tone |-> toneGuard(t), pii |-> piiGuard(t), community_rule |-> communityRuleGuard(r, t),
   sponsor |-> sponsorGuard(t, given)]

------------------------------- (* the chain *) -----------------------------
(* Every guard runs, whatever the others said. *)
runChain(r, t, given, cat) ==
  {run(r, t, given, cat, f, l) : f \in OneOf({x \in given : x.cents = t.cents}, NoFact), l \in firstResolvedListing(r, given)}

(* The operator's own words: what was cited is not asked for.  Of a reply   *)
(* whose grounding was lost nothing is known to be given or named; what     *)
(* asks for its first lot throws, and a guard that throws blocks.           *)
ofHuman(t) ==
  {[v EXCEPT !.claim_grounding = "n/a",
             !.availability = IF grounding THEN @ ELSE "n/a",
             !.price = IF ~grounding /\ @ # "n/a" THEN "block" ELSE @,
             !.policy = IF ~grounding /\ t.never = "unlessCertified" THEN "block" ELSE @] :
     v \in runChain(room, t, IF grounding THEN facts ELSE {}, catalog)}

verdictOf(results) ==
  IF \E g \in Guards : results[g] = "block" THEN "block"
  ELSE IF \E g \in Guards : results[g] = "revise" THEN "revise" ELSE "allow"

Least(a, b) == IF a < b THEN a ELSE b

(* In hundredths: half of what the evidence is worth, no more than 35 if    *)
(* nothing of it is cited, less for each guard that failed.                 *)
confidenceOf_ignoresClaims(r, results, t) ==  \* mutant: what retrieval found counts, used or not
  LET penalty == 60 * Cardinality({g \in Guards : results[g] = "block"})
               + 22 * Cardinality({g \in Guards : results[g] = "revise"})
      score == 45 + r.quality \div 2 - penalty IN
  IF r.quality = 0 THEN 10 ELSE IF score < 3 THEN 3 ELSE Least(score, 98)

confidenceOf(r, results, t) ==
  LET found == 45 + r.quality \div 2
      used == IF t.cites = {} THEN Least(found, 35) ELSE found
      penalty == 60 * Cardinality({g \in Guards : results[g] = "block"})
               + 22 * Cardinality({g \in Guards : results[g] = "revise"}) IN
  IF r.quality = 0 THEN 10
  ELSE IF used - penalty < 3 THEN 3 ELSE Least(used - penalty, 98)

(* What is written is a sentence, and may cite what the model was not given. *)
Draft == \E t \in Texts :
  /\ pc = "drafting" /\ pc' = "guarding" /\ text' = t
  /\ UNCHANGED <<catalog, indexed, facts, room, checked, verdicts, grounding, repaired, moves>>

(* The guards read the catalog as it is now; a reply that is to be revised  *)
(* goes back once.                                                          *)
Guard_asIndexed == \E v \in runChain(room, text, facts, indexed) :  \* mutant: checked against what it was written from
  /\ pc = "guarding" /\ checked' = catalog /\ grounding' = TRUE
  /\ verdicts' = v
  /\ pc' = IF verdictOf(v) = "revise" /\ ~repaired THEN "repairing" ELSE "deciding"
  /\ UNCHANGED <<catalog, indexed, facts, room, text, repaired, moves>>

Guard_forever == \E v \in runChain(room, text, facts, catalog) :  \* mutant: repaired until nothing is to be revised
  /\ pc = "guarding" /\ checked' = catalog /\ grounding' = TRUE
  /\ verdicts' = v
  /\ pc' = IF verdictOf(v) = "revise" THEN "repairing" ELSE "deciding"
  /\ UNCHANGED <<catalog, indexed, facts, room, text, repaired, moves>>

Guard == \E v \in runChain(room, text, facts, catalog) :
  /\ pc = "guarding" /\ checked' = catalog /\ grounding' = TRUE
  /\ verdicts' = v
  /\ pc' = IF verdictOf(v) = "revise" /\ ~repaired THEN "repairing" ELSE "deciding"
  /\ UNCHANGED <<catalog, indexed, facts, room, text, repaired, moves>>

Repair == \E t \in Rewrites :
  /\ pc = "repairing" /\ pc' = "guarding" /\ repaired' = TRUE /\ text' = t
  /\ UNCHANGED <<catalog, indexed, facts, room, checked, verdicts, grounding, moves>>

(* The same question was answered before, from facts that read the same:    *)
(* what passed then is not checked again, and nothing is kept of what it    *)
(* was grounded in.                                                         *)
FromCache == \E t \in Texts : \E v \in runChain(room, t, facts, indexed) :
  /\ pc = "drafting" /\ verdictOf(v) = "allow"
  /\ pc' = "deciding" /\ text' = t /\ verdicts' = v /\ checked' = indexed
  /\ UNCHANGED <<catalog, indexed, facts, room, grounding, repaired, moves>>

------------------------------ (* the ladder *) -----------------------------
decideReply(r, verdict, confidence) ==
  CASE r.level = 0 -> "dropped"
    [] verdict = "block" -> "held"
    [] r.quality = 0 \/ verdict = "revise" -> "offered"
    [] r.level < 3 \/ ~r.api -> "offered"
    [] r.intent \notin AUTO_REPLY_INTENTS \/ confidence < AUTO_CONFIDENCE_FLOOR -> "offered"
    [] OTHER -> "autoSent"

Decide ==
  /\ pc = "deciding" /\ pc' = decideReply(room, verdictOf(verdicts), confidenceOf(room, verdicts, text))
  /\ UNCHANGED <<catalog, indexed, facts, room, text, checked, verdicts, grounding, repaired, moves>>

(* The operator's own words, and only a block keeps them back; a reply that *)
(* is sent as it was written is not checked again.                          *)
Edit == \E t \in Rewrites : \E v \in ofHuman(t) :
  /\ pc \in {"offered", "held"} /\ t.cites = {} /\ verdictOf(v) # "block"
  /\ pc' = "edited" /\ text' = t /\ verdicts' = v /\ checked' = catalog
  /\ UNCHANGED <<catalog, indexed, facts, room, grounding, repaired, moves>>

SendAsIs ==
  /\ pc = "offered" /\ pc' = "sent"
  /\ UNCHANGED <<catalog, indexed, facts, room, text, checked, verdicts, grounding, repaired, moves>>

(* The process is started again: the proposal is in the database, what it   *)
(* was grounded in is not.                                                  *)
Restart ==
  /\ pc \in {"offered", "held"} /\ grounding /\ grounding' = FALSE
  /\ UNCHANGED <<catalog, indexed, pc, facts, room, text, checked, verdicts, repaired, moves>>

-----------------------------------------------------------------------------
Next ==
  \/ Retrieve \/ Draft \/ Guard \/ Repair \/ FromCache \/ Decide \/ Edit \/ SendAsIs \/ Restart
  \/ \E l \in Lots : Move(l)

Spec == Init /\ [][Next]_vars

-----------------------------------------------------------------------------
TypeOK ==
  /\ \A l \in Lots : catalog[l].price \in Prices /\ catalog[l].qty \in 0..2
  /\ pc \in {"asked", "drafting", "guarding", "repairing", "deciding", "dropped", "offered", "held",
            "autoSent", "sent", "edited"}
  /\ text \in Texts \cup Rewrites \cup {NoText} /\ verdicts \in [Guards -> {"n/a", "allow", "revise", "block"}]
  /\ pc = "repairing" => ~repaired
  /\ grounding \in BOOLEAN /\ repaired \in BOOLEAN /\ moves \in 0..MaxMoves

Passed == pc \in {"autoSent", "edited"} \/ (pc \in {"offered", "sent"} /\ verdictOf(verdicts) = "allow")

AtDiscount(cents) ==
  \E l \in Lots : (cents <= checked[l].price \/ cents = room.offer) /\ Commits(cents, checked[l]) = "allow"

PriceIsGood ==
  \/ \E l \in Lots : checked[l].price = text.cents
  \/ AtDiscount(text.cents)
  \/ text.clause = "declining" /\ text.cents = room.offer
  \/ text.clause = "attributed" /\ text.cents = Heard
  \/ text.cents = Flat

(* An amount that passed the guards is a price that holds, a discount that  *)
(* is allowed, what the host is said to have said, the buyer's own number,  *)
(* or written down; what comparable sales fetched is none of these          *)
(* (docs/GUARDRAILS.md, lines 153 to 173; guards.ts, lines 24 to 31).       *)
OnlyWrittenAmounts == Passed /\ room.surface = "ebay" /\ text.cents # 0 =>
  \/ PriceIsGood \/ text.cents = room.offer
  \/ \E f \in facts : f.source \in WRITTEN_SOURCES /\ text.cents \in f.states

(* It is never a price of before, but for what the two facts at no version  *)
(* (the lineup, and the median of comparable sales) state, and for an offer *)
(* about no lot in particular, which meets no floor; and what is said of stock, if the      *)
(* reply is known to be about lots, is so of one of them (guards.ts, lines  *)
(* 46 to 228).  An edit that says a lot is gone, and the last, is only told *)
(* that it is not gone: what comes first is returned (lines 194 to 198).    *)
Unversioned(cents) == \E f \in facts : f.id \in {"lineup", "comps"} /\ cents \in f.states

PassedHolds == Passed /\ room.surface = "ebay" =>
  /\ text.cents # 0 =>
       \/ PriceIsGood \/ Unversioned(text.cents)
       \/ groundedListings(room, facts) = {} /\ text.cents = room.offer
  /\ (pc = "edited" => grounding) =>
       LET about == groundedListings(room, facts) IN
       about # {} => /\ text.stock = "available" => \E l \in about : checked[l].qty > 0
                     /\ text.last /\ (pc = "edited" => text.stock # "gone") => \E l \in about : checked[l].qty = 1

(* What sent itself rests on what it was given: it cites some of it and     *)
(* nothing else, no guard had a word against it, and it is of a kind that   *)
(* may go out with nobody reading it (chain.ts, confidenceOf; ladder.ts,    *)
(* decideReply).                                                            *)
AutoSentIsGrounded == pc = "autoSent" =>
  /\ text.cites # {} /\ text.cites \subseteq {f.id : f \in facts}
  /\ \A g \in Guards : verdicts[g] \in {"allow", "n/a"}
  /\ room.api /\ room.level >= 3 /\ room.intent \in AUTO_REPLY_INTENTS
----------------------------- (* its proofs *) ------------------------------
LotRow == [price : Prices, qty : 0..2, version : Nat, certified : BOOLEAN]
Words == [cents : Nat, clause : STRING, stock : STRING, last : BOOLEAN, count : Int, topic : STRING, never : STRING,
          cites : SUBSET STRING, weak : BOOLEAN, checkable : BOOLEAN, tone : STRING, pii : BOOLEAN,
          breaks : BOOLEAN, sponsored : BOOLEAN]
Setting == [surface : STRING, level : Nat, intent : STRING, api : BOOLEAN, offer : Nat,
            named : Lots \cup {"none"}, quality : Nat]

(* Amounts are whole cents, a lot has a name that is not the word for none, *)
(* there is a highest price to start from, a room names a lot or none.      *)
ChainAssumption ==
  /\ Prices \subseteq Nat /\ \E p \in Prices : \A o \in Prices : o <= p
  /\ Floor \in Nat /\ Cap \in Nat /\ Flat \in Nat /\ Heard \in Nat /\ Median \in Nat /\ MaxMoves \in Nat
  /\ "none" \notin Lots
  /\ Texts \subseteq Words /\ Rewrites \subseteq Words /\ Rooms \subseteq Setting

Types ==
  /\ catalog \in [Lots -> LotRow] /\ indexed \in [Lots -> LotRow] /\ checked \in [Lots -> LotRow]
  /\ pc \in {"asked", "drafting", "guarding", "repairing", "deciding", "dropped", "offered", "held",
             "autoSent", "sent", "edited"}
  /\ room \in Setting \cup {NoRoom} /\ text \in Texts \cup Rewrites \cup {NoText}
  /\ verdicts \in [Guards -> {"n/a", "allow", "revise", "block"}]
  /\ grounding \in BOOLEAN /\ repaired \in BOOLEAN /\ moves \in 0..MaxMoves
  /\ pc = "repairing" => ~repaired

(* What can be said of a fact: of an amount in it, and of what it states.   *)
IsFact(f) ==
  /\ f.id # "none" /\ f.lot \in Lots \cup {"none"} /\ f.version \in Int
  /\ f.cents # 0 /\ f.lot = "none" => f.id = "comps" /\ f.cents \in f.states
  /\ f.source \in WRITTEN_SOURCES => f.id = "lineup" \/ f.states \subseteq {Flat, f.cents}
  /\ f.source = "host" => f.states \subseteq {Heard}

(* The version of a lot in a fact is not one that is still to come, and as  *)
(* long as it is the lot's, the lot's price is the one in the fact.         *)
Dated(f, cat) == f.lot # "none" /\ f.cents # 0 =>
  /\ f.version <= cat[f.lot].version
  /\ f.version = cat[f.lot].version => f.cents = cat[f.lot].price

Grounded == \A f \in facts : IsFact(f) /\ Dated(f, catalog) /\ Dated(f, indexed) /\ Dated(f, checked)

(* The verdicts are those of the guards on the text as it is, against the   *)
(* catalog they are said to have read.                                      *)
Judged ==
  /\ pc = "asked" => checked = catalog
  /\ pc \in {"deciding", "dropped", "offered", "held", "autoSent", "sent"} => verdicts \in runChain(room, text, facts, checked)
  /\ pc = "autoSent" => decideReply(room, verdictOf(verdicts), confidenceOf(room, verdicts, text)) = "autoSent"
  /\ pc = "edited" => checked = catalog /\ verdicts \in ofHuman(text) /\ verdictOf(verdicts) # "block"

Inv == Types /\ Grounded /\ Judged

-----------------------------------------------------------------------------
(* A guard says one of four things. *)
LEMMA VerdictTypes ==
  ASSUME NEW r, NEW t, NEW given, NEW cat, NEW v \in runChain(r, t, given, cat)
  PROVE  v \in [Guards -> {"n/a", "allow", "revise", "block"}]
<1> PICK typed \in OneOf({x \in given : x.cents = t.cents}, NoFact), l \in firstResolvedListing(r, given) :
      v = run(r, t, given, cat, typed, l)
  BY SMT DEF runChain
<1>1. priceGuard(r, t, given, cat, typed, l) \in {"n/a", "allow", "revise", "block"}
  BY DEF priceGuard, Commits
<1>2. availabilityGuard(r, t, given, cat) \in {"n/a", "allow", "revise", "block"}
  BY DEF availabilityGuard
<1>3. policyGuard(r, t, given, cat, l) \in {"n/a", "allow", "revise", "block"}
  BY DEF policyGuard
<1>4. claimGroundingGuard(t, given) \in {"n/a", "allow", "revise", "block"}
  BY DEF claimGroundingGuard
<1>5. toneGuard(t) \in {"n/a", "allow", "revise", "block"} /\ piiGuard(t) \in {"n/a", "allow", "revise", "block"}
  BY DEF toneGuard, piiGuard
<1>6. communityRuleGuard(r, t) \in {"n/a", "allow", "revise", "block"}
  BY DEF communityRuleGuard
<1>7. sponsorGuard(t, given) \in {"n/a", "allow", "revise", "block"}
  BY DEF sponsorGuard
<1> QED BY <1>1, <1>2, <1>3, <1>4, <1>5, <1>6, <1>7 DEF run, Guards

(* What buildFacts makes of a catalog is a set of facts, dated by it. *)
LEMMA FactsAreFacts ==
  ASSUME ChainAssumption, catalog \in [Lots -> LotRow], NEW f \in buildFacts
  PROVE  IsFact(f) /\ Dated(f, catalog)
<1>1. ASSUME NEW l \in Lots, f \in listingFacts(l) PROVE IsFact(f) /\ Dated(f, catalog)
  <2>1. CASE f = [Fact("price", "listing") EXCEPT !.lot = l, !.version = catalog[l].version,
                                                  !.cents = catalog[l].price, !.states = {catalog[l].price}]
    BY <2>1 DEF Fact, IsFact, Dated, ChainAssumption, LotRow
  <2>2. CASE f = [Fact("stock", "listing") EXCEPT !.lot = l, !.version = catalog[l].version]
    BY <2>2 DEF Fact, IsFact, Dated, ChainAssumption, LotRow
  <2>3. \/ f = [Fact("price", "listing") EXCEPT !.lot = l, !.version = catalog[l].version,
                                                !.cents = catalog[l].price, !.states = {catalog[l].price}]
        \/ f = [Fact("stock", "listing") EXCEPT !.lot = l, !.version = catalog[l].version]
    BY <1>1, Zenon DEF listingFacts
  <2> QED BY <2>1, <2>2, <2>3
<1>2. CASE f.id = "lineup" /\ f.source = "catalog" /\ f.cents = 0 /\ f.lot = "none" /\ f.version = 0
  BY <1>2 DEF IsFact, Dated
<1>3. CASE f = [Fact("shipping", "policy") EXCEPT !.states = {Flat}]
  BY <1>3 DEF Fact, IsFact, Dated
<1>4. CASE f = [Fact("speech", "host") EXCEPT !.states = {Heard}]
  BY <1>4 DEF Fact, IsFact, Dated, WRITTEN_SOURCES
<1>5. CASE f = [Fact("comps", "market") EXCEPT !.cents = Median, !.states = {Median}]
  BY <1>5 DEF Fact, IsFact, Dated, WRITTEN_SOURCES
<1>6. CASE f = Fact("sponsor", "sponsor")
  BY <1>6 DEF Fact, IsFact, Dated, WRITTEN_SOURCES
<1>7. \/ \E l \in Lots : f \in listingFacts(l)
      \/ f.id = "lineup" /\ f.source = "catalog" /\ f.cents = 0 /\ f.lot = "none" /\ f.version = 0
      \/ f = [Fact("shipping", "policy") EXCEPT !.states = {Flat}]
      \/ f = [Fact("speech", "host") EXCEPT !.states = {Heard}]
      \/ f = [Fact("comps", "market") EXCEPT !.cents = Median, !.states = {Median}]
      \/ f = Fact("sponsor", "sponsor")
  <2>1. f \in (UNION {listingFacts(l) : l \in Lots}) \/ f \in showFacts
    BY DEF buildFacts
  <2>2. f \in (UNION {listingFacts(l) : l \in Lots}) => \E l \in Lots : f \in listingFacts(l)
    BY Zenon
  <2> QED BY <2>1, <2>2 DEF showFacts, Fact
<1> QED BY <1>1, <1>2, <1>3, <1>4, <1>5, <1>6, <1>7

(* The lots a reply is about are lots.  *)
LEMMA AboutLots ==
  ASSUME ChainAssumption, Types, Grounded
  PROVE  groundedListings(room, facts) \subseteq Lots
<1>1. \A f \in facts : f.lot \in Lots \cup {"none"}
  BY DEF Grounded, IsFact
<1>2. room.named \in Lots \cup {"none"}
  <2>1. room \in Setting \/ room = NoRoom
    BY DEF Types
  <2> QED BY <2>1 DEF Setting, NoRoom
<1> QED BY <1>1, <1>2 DEF groundedListings

(* An amount the price guard does not block is one of those it may be.      *)
LEMMA PriceJudged ==
  ASSUME ChainAssumption, Types, Grounded, room.surface = "ebay", text.cents # 0,
         NEW typed \in OneOf({x \in facts : x.cents = text.cents}, NoFact),
         NEW l \in firstResolvedListing(room, facts),
         priceGuard(room, text, facts, checked, typed, l) # "block"
  PROVE  \/ PriceIsGood \/ Unversioned(text.cents)
         \/ groundedListings(room, facts) = {} /\ text.cents = room.offer
<1> DEFINE price == IF l = "none" THEN 0 ELSE checked[l].price
<1>t. text.cents \in Nat /\ room.offer \in Nat
  <2>1. text \in Words \/ text = NoText
    BY DEF Types, ChainAssumption
  <2>2. text.cents \in Nat
    BY <2>1 DEF Words, NoText
  <2>3. room \in Setting \/ room = NoRoom
    BY DEF Types
  <2>4. room.offer \in Nat
    BY <2>3 DEF Setting, NoRoom
  <2> QED BY <2>2, <2>4
<1>l. /\ l = "none" => groundedListings(room, facts) = {}
      /\ l # "none" => l \in Lots /\ checked[l].price \in Nat
  BY AboutLots DEF firstResolvedListing, OneOf, ChainAssumption, Types, LotRow
<1>c. hasCorpus(room, "listing")
  BY DEF hasCorpus
<1>1. CASE typed # NoFact
  <2>1. typed \in facts /\ typed.cents = text.cents
    BY <1>1 DEF OneOf
  <2>2. IsFact(typed) /\ Dated(typed, checked)
    BY <2>1 DEF Grounded
  <2>3. CASE typed.lot = "none"
    BY <2>1, <2>2, <2>3 DEF IsFact, Unversioned
  <2>4. CASE typed.lot # "none"
    <3>1. checked[typed.lot].version = typed.version
      BY <1>1, <1>c, <2>4 DEF priceGuard
    <3>2. typed.lot \in Lots /\ checked[typed.lot].price = text.cents
      BY <2>1, <2>2, <2>4, <3>1 DEF IsFact, Dated
    <3> QED BY <3>2 DEF PriceIsGood
  <2> QED BY <2>3, <2>4
<1>2. CASE typed = NoFact
  <2>1. \A f \in facts : f.cents # text.cents
    BY <1>2 DEF OneOf, Grounded, IsFact, NoFact, Fact
  <2>2. CASE text.cents = room.offer /\ text.clause = "declining"
    BY <2>2 DEF PriceIsGood
  <2>3. CASE \E f \in facts : f.source \in WRITTEN_SOURCES /\ text.cents \in f.states
    BY <2>1, <2>3 DEF Grounded, IsFact, Unversioned, PriceIsGood
  <2>4. CASE /\ ~(text.cents = room.offer /\ text.clause = "declining")
             /\ ~\E f \in facts : f.source \in WRITTEN_SOURCES /\ text.cents \in f.states
             /\ \E f \in facts : f.source = "host" /\ text.cents \in f.states
    <3>1. text.cents = Heard
      BY <2>4 DEF Grounded, IsFact
    <3>2. text.clause = "attributed" \/ text.cents = price
      BY <1>2, <1>c, <2>4 DEF priceGuard
    <3> QED BY <3>1, <3>2, <1>l DEF PriceIsGood
  <2>5. CASE /\ ~(text.cents = room.offer /\ text.clause = "declining")
             /\ ~\E f \in facts : f.source \in WRITTEN_SOURCES /\ text.cents \in f.states
             /\ ~\E f \in facts : f.source = "host" /\ text.cents \in f.states
    <3>1. /\ ~(text.cents # room.offer /\ text.cents >= price)
          /\ l # "none" => Commits(text.cents, checked[l]) # "block"
      BY <1>2, <1>c, <2>5 DEF priceGuard
    <3>2. CASE l = "none"
      BY <3>1, <3>2, <1>l, <1>t
    <3>3. CASE l # "none"
      <4>1. Commits(text.cents, checked[l]) = "allow"
        BY <3>1, <3>3 DEF Commits
      <4>2. text.cents <= checked[l].price \/ text.cents = room.offer
        BY <3>1, <3>3, <1>l, <1>t
      <4> QED BY <4>1, <4>2, <3>3, <1>l DEF PriceIsGood, AtDiscount
    <3> QED BY <3>2, <3>3
  <2> QED BY <2>2, <2>3, <2>4, <2>5
<1> QED BY <1>1, <1>2

(* What the availability guard lets pass about stock is so of a lot. *)
LEMMA StockJudged ==
  ASSUME ChainAssumption, Types, Grounded, room.surface = "ebay",
         groundedListings(room, facts) # {}, availabilityGuard(room, text, facts, checked) # "block"
  PROVE  /\ text.stock = "available" => \E l \in groundedListings(room, facts) : checked[l].qty > 0
         /\ text.last /\ (text.stock # "gone" \/ availabilityGuard(room, text, facts, checked) # "revise") =>
              \E l \in groundedListings(room, facts) : checked[l].qty = 1
<1>1. \A l \in groundedListings(room, facts) : checked[l].qty \in 0..2
  BY AboutLots DEF Types, LotRow
<1>2. hasCorpus(room, "listing")
  BY DEF hasCorpus
<1>3. text.stock = "available" => ~\A l \in groundedListings(room, facts) : checked[l].qty = 0
  BY <1>2 DEF availabilityGuard
<1>4. text.last /\ (text.stock # "gone" \/ availabilityGuard(room, text, facts, checked) # "revise") =>
        ~\A l \in groundedListings(room, facts) : checked[l].qty # 1
  BY <1>2 DEF availabilityGuard
<1> QED BY <1>1, <1>3, <1>4

(* What passed is what the property says of it: the verdicts were passed on *)
(* this text, these facts and this catalog.                                 *)
LEMMA PassedIsJudged ==
  ASSUME ChainAssumption, Inv, Passed, room.surface = "ebay",
         NEW typed \in OneOf({x \in facts : x.cents = text.cents}, NoFact), NEW l \in firstResolvedListing(room, facts),
         priceGuard(room, text, facts, checked, typed, l) # "block",
         availabilityGuard(room, text, facts, checked) # "block",
         text.last /\ (pc = "edited" => text.stock # "gone") =>
           text.stock # "gone" \/ availabilityGuard(room, text, facts, checked) # "revise"
  PROVE  PassedHolds
<1>1. text.cents # 0 =>
        \/ PriceIsGood \/ Unversioned(text.cents)
        \/ groundedListings(room, facts) = {} /\ text.cents = room.offer
  BY PriceJudged DEF Inv
<1>2. groundedListings(room, facts) # {} =>
        /\ text.stock = "available" => \E x \in groundedListings(room, facts) : checked[x].qty > 0
        /\ text.last /\ (text.stock # "gone" \/ availabilityGuard(room, text, facts, checked) # "revise") =>
             \E x \in groundedListings(room, facts) : checked[x].qty = 1
  BY StockJudged DEF Inv
<1> QED BY <1>1, <1>2 DEF PassedHolds

(* Of one run of the guards: what each of them said. *)
LEMMA RunSays ==
  ASSUME NEW r, NEW t, NEW given, NEW cat, NEW typed, NEW l
  PROVE  LET v == run(r, t, given, cat, typed, l) IN
         /\ v.price = priceGuard(r, t, given, cat, typed, l) /\ v["price"] = v.price
         /\ v.availability = availabilityGuard(r, t, given, cat) /\ v["availability"] = v.availability
         /\ v.claim_grounding = claimGroundingGuard(t, given) /\ v["claim_grounding"] = v.claim_grounding
         /\ v.policy = policyGuard(r, t, given, cat, l)
  BY DEF run

LEMMA InvPassed == ChainAssumption /\ Inv => PassedHolds
<1> SUFFICES ASSUME ChainAssumption, Inv, Passed, room.surface = "ebay" PROVE PassedHolds
  BY DEF PassedHolds
<1>1. CASE pc \in {"autoSent", "offered", "sent"}
  <2>1. verdicts \in runChain(room, text, facts, checked)
    BY <1>1 DEF Inv, Judged
  <2> PICK typed \in OneOf({x \in facts : x.cents = text.cents}, NoFact), l \in firstResolvedListing(room, facts) :
        verdicts = run(room, text, facts, checked, typed, l)
    BY <2>1, SMT DEF runChain
  <2>2. verdictOf(verdicts) = "allow"
    <3>1. pc = "autoSent" => verdictOf(verdicts) = "allow"
      BY DEF Inv, Judged, decideReply, verdictOf
    <3> QED BY <3>1, <1>1 DEF Passed
  <2>3. /\ verdicts["price"] \notin {"block", "revise"}
        /\ verdicts["availability"] \notin {"block", "revise"}
    BY <2>2 DEF verdictOf, Guards
  <2>4. /\ priceGuard(room, text, facts, checked, typed, l) # "block"
        /\ availabilityGuard(room, text, facts, checked) \notin {"block", "revise"}
    BY <2>3, RunSays
  <2> QED BY <2>4, PassedIsJudged
<1>2. CASE pc = "edited" /\ grounding
  <2>1. verdicts \in ofHuman(text) /\ checked = catalog /\ verdictOf(verdicts) # "block"
    BY <1>2 DEF Inv, Judged
  <2> PICK v \in runChain(room, text, facts, catalog) :
        verdicts = [v EXCEPT !.claim_grounding = "n/a", !.availability = @, !.price = @, !.policy = @]
    BY <2>1, <1>2 DEF ofHuman
  <2> PICK typed \in OneOf({x \in facts : x.cents = text.cents}, NoFact), l \in firstResolvedListing(room, facts) :
        v = run(room, text, facts, checked, typed, l)
    BY <2>1, SMT DEF runChain
  <2>2. v \in [Guards -> {"n/a", "allow", "revise", "block"}]
    BY VerdictTypes
  <2>3. verdicts["price"] = v["price"] /\ verdicts["availability"] = v["availability"]
    BY <2>2 DEF Guards
  <2>4. v["price"] # "block" /\ v["availability"] # "block"
    BY <2>1, <2>3 DEF verdictOf, Guards
  <2> QED BY <2>4, <1>2, RunSays, PassedIsJudged
<1>3. CASE pc = "edited" /\ ~grounding
  <2>1. verdicts \in ofHuman(text) /\ verdictOf(verdicts) # "block"
    BY <1>3 DEF Inv, Judged
  <2> PICK v \in runChain(room, text, {}, catalog) :
        verdicts = [v EXCEPT !.claim_grounding = "n/a", !.availability = "n/a",
                             !.price = IF v.price # "n/a" THEN "block" ELSE v.price,
                             !.policy = IF text.never = "unlessCertified" THEN "block" ELSE v.policy]
    BY <2>1, <1>3 DEF ofHuman
  <2> PICK typed \in OneOf({x \in {} : x.cents = text.cents}, NoFact), l \in firstResolvedListing(room, {}) :
        v = run(room, text, {}, catalog, typed, l)
    BY SMT DEF runChain
  <2>2. v \in [Guards -> {"n/a", "allow", "revise", "block"}]
    BY VerdictTypes
  <2>3. v["price"] = "n/a"
    BY <2>1, <2>2 DEF verdictOf, Guards
  <2>4. priceGuard(room, text, {}, catalog, typed, l) = "n/a" /\ hasCorpus(room, "listing")
    BY <2>3, RunSays DEF hasCorpus
  <2>5. text.cents = 0
    BY <2>4 DEF priceGuard, Commits
  <2> QED BY <2>5, <1>3 DEF PassedHolds
<1> QED BY <1>1, <1>2, <1>3 DEF Passed

(* A count of guards is a number. *)
LEMMA GuardsAreCounted == ASSUME NEW S \in SUBSET Guards PROVE Cardinality(S) \in Nat
<1>1. /\ IsFiniteSet({"price"}) /\ IsFiniteSet({"availability"}) /\ IsFiniteSet({"policy"})
      /\ IsFiniteSet({"claim_grounding"}) /\ IsFiniteSet({"tone"}) /\ IsFiniteSet({"pii"})
      /\ IsFiniteSet({"community_rule"}) /\ IsFiniteSet({"sponsor"})
  BY FS_Singleton
<1> DEFINE A == {"price"} \cup {"availability"}
           B == {"policy"} \cup {"claim_grounding"}
           C == {"tone"} \cup {"pii"}
           D == {"community_rule"} \cup {"sponsor"}
<1>3. IsFiniteSet(A) /\ IsFiniteSet(B) /\ IsFiniteSet(C) /\ IsFiniteSet(D)
  BY <1>1, FS_Union
<1>4. Guards = (A \cup B) \cup (C \cup D)
  BY DEF Guards
<1> HIDE DEF A, B, C, D
<1>5. IsFiniteSet(A \cup B) /\ IsFiniteSet(C \cup D)
  BY <1>3, FS_Union
<1>2. IsFiniteSet(Guards)
  BY <1>4, <1>5, FS_Union
<1> QED BY <1>2, FS_Subset, FS_CardinalityType

(* A reply that cites nothing is never trusted enough to go out unread. *)
LEMMA UncitedIsNotTrusted ==
  ASSUME NEW r, r.quality \in Nat, NEW results, NEW t, t.cites = {}
  PROVE  confidenceOf(r, results, t) < AUTO_CONFIDENCE_FLOOR
<1> DEFINE blocked == Cardinality({g \in Guards : results[g] = "block"})
           revised == Cardinality({g \in Guards : results[g] = "revise"})
           found == 45 + r.quality \div 2
           penalty == 60 * blocked + 22 * revised
<1>1. blocked \in Nat /\ revised \in Nat
  BY GuardsAreCounted
<1>2. found \in Int
  OBVIOUS
<1>3. penalty \in Nat
  BY <1>1
<1>4. confidenceOf(r, results, t) = IF r.quality = 0 THEN 10 ELSE IF Least(found, 35) - penalty < 3 THEN 3
                                    ELSE Least(Least(found, 35) - penalty, 98)
  BY DEF confidenceOf
<1> HIDE DEF found, penalty
<1> QED BY <1>2, <1>3, <1>4 DEF Least, AUTO_CONFIDENCE_FLOOR

LEMMA InvAutoSent == ChainAssumption /\ Inv => AutoSentIsGrounded
<1> SUFFICES ASSUME ChainAssumption, Inv, pc = "autoSent"
             PROVE  /\ text.cites # {} /\ text.cites \subseteq {f.id : f \in facts}
                    /\ \A g \in Guards : verdicts[g] \in {"allow", "n/a"}
                    /\ room.api /\ room.level >= 3 /\ room.intent \in AUTO_REPLY_INTENTS
  BY DEF AutoSentIsGrounded
<1>1. /\ verdicts \in runChain(room, text, facts, checked)
      /\ decideReply(room, verdictOf(verdicts), confidenceOf(room, verdicts, text)) = "autoSent"
  BY DEF Inv, Judged
<1>2. room.level \in Nat /\ room.quality \in Nat
  <2>1. room \in Setting \/ room = NoRoom
    BY DEF Inv, Types
  <2> QED BY <2>1 DEF Setting, NoRoom
<1>3. /\ verdictOf(verdicts) \notin {"block", "revise"} /\ room.api /\ ~(room.level < 3)
      /\ room.intent \in AUTO_REPLY_INTENTS
      /\ ~(confidenceOf(room, verdicts, text) < AUTO_CONFIDENCE_FLOOR)
  BY <1>1 DEF decideReply
<1>4. \A g \in Guards : verdicts[g] \in {"allow", "n/a"}
  BY <1>3 DEF verdictOf, Inv, Types
<1>5. text.cites # {}
  BY <1>2, <1>3, UncitedIsNotTrusted
<1>6. text.cites \subseteq {f.id : f \in facts}
  <2>1. verdicts \in runChain(room, text, facts, checked)
    BY <1>1
  <2> PICK typed \in OneOf({x \in facts : x.cents = text.cents}, NoFact), l \in firstResolvedListing(room, facts) :
        verdicts = run(room, text, facts, checked, typed, l)
    BY <2>1, SMT DEF runChain
  <2>2. "claim_grounding" \in Guards
    BY DEF Guards
  <2>3. verdicts["claim_grounding"] # "block"
    BY <1>4, <2>2, Zenon
  <2>4. claimGroundingGuard(text, facts) # "block"
    BY <2>3, RunSays
  <2> QED BY <2>4 DEF claimGroundingGuard
<1> QED BY <1>2, <1>3, <1>4, <1>5, <1>6

LEMMA InvInit == ChainAssumption /\ Init => Inv
<1> SUFFICES ASSUME ChainAssumption, Init PROVE Inv
  OBVIOUS
<1> DEFINE highest == CHOOSE p \in Prices : \A o \in Prices : o <= p
           row == [price |-> highest, qty |-> 1, version |-> 1, certified |-> FALSE]
<1>h. highest \in Prices
  BY DEF ChainAssumption
<1>r. row \in LotRow
  BY <1>h DEF LotRow
<1>c. catalog = [l \in Lots |-> row]
  BY DEF Init
<1> HIDE DEF row
<1>1. catalog \in [Lots -> LotRow]
  BY <1>r, <1>c
<1>v. verdicts \in [Guards -> {"n/a", "allow", "revise", "block"}]
  BY DEF Init
<1>m. moves \in 0..MaxMoves
  BY DEF Init, ChainAssumption
<1>2. Types
  BY <1>1, <1>v, <1>m DEF Init, Types
<1>3. Grounded /\ Judged
  BY DEF Init, Grounded, Judged
<1> QED BY <1>2, <1>3 DEF Inv

(* What the chain decides a reply becomes. *)
LEMMA Decided == ASSUME NEW r, NEW verdict, NEW confidence
                 PROVE  decideReply(r, verdict, confidence) \in {"dropped", "held", "offered", "autoSent"}
  BY DEF decideReply

(* Every step leaves the facts dated by every catalog the guards may read:  *)
(* what moves in the catalog moves its version too.                         *)
LEMMA GroundedKept == ASSUME ChainAssumption, Inv, [Next]_vars PROVE Grounded'
<1> USE DEF Inv
<1>1. CASE Retrieve
  <2>1. catalog' = catalog /\ indexed' = catalog /\ checked' = catalog
    BY <1>1 DEF Retrieve, Judged
  <2>2. \A f \in facts' : f \in buildFacts
    BY <1>1 DEF Retrieve
  <2> QED BY <2>1, <2>2, FactsAreFacts DEF Grounded, Types, Dated
<1>2. CASE Draft \/ Repair \/ Decide \/ SendAsIs \/ Restart \/ UNCHANGED vars
  <2>1. facts' = facts /\ catalog' = catalog /\ indexed' = indexed /\ checked' = checked
    BY <1>2 DEF Draft, Repair, Decide, SendAsIs, Restart, vars
  <2> QED BY <2>1 DEF Grounded, Dated
<1>3. CASE Guard \/ Edit \/ FromCache
  <2>1. facts' = facts /\ catalog' = catalog /\ indexed' = indexed /\ checked' \in {catalog, indexed}
    BY <1>3 DEF Guard, Edit, FromCache
  <2> QED BY <2>1 DEF Grounded, Dated
<1>4. ASSUME NEW l \in Lots, Move(l) PROVE Grounded'
  <2>1. /\ facts' = facts /\ indexed' = indexed /\ checked' = checked
        /\ \A x \in Lots \ {l} : catalog'[x] = catalog[x]
        /\ catalog'[l].version = catalog[l].version + 1
    <3> PICK next : next.version = catalog[l].version + 1 /\ catalog' = [catalog EXCEPT ![l] = next]
      BY <1>4 DEF Move
    <3> QED BY <1>4 DEF Move, Types
  <2>2. \A x \in Lots : catalog[x].version \in Nat
    BY DEF Types, LotRow
  <2>3. ASSUME NEW f \in facts PROVE Dated(f, catalog)'
    <3>1. IsFact(f) /\ Dated(f, catalog)
      BY DEF Grounded
    <3>2. CASE f.lot = l /\ f.cents # 0
      <4>1. f.version < catalog[l].version + 1 /\ f.version \in Int
        <5>1. f.version <= catalog[l].version
          BY <3>1, <3>2, <1>4 DEF Dated, ChainAssumption
        <5>2. f.version \in Int
          BY <3>1 DEF IsFact
        <5> QED BY <5>1, <5>2, <2>2
      <4> QED BY <4>1, <3>2, <2>1, <2>2, <1>4 DEF Dated
    <3> QED BY <3>1, <3>2, <2>1 DEF Dated, IsFact
  <2> QED BY <2>1, <2>3 DEF Grounded, Dated
<1> QED BY <1>1, <1>2, <1>3, <1>4 DEF Next

LEMMA TypesKept == ASSUME ChainAssumption, Inv, [Next]_vars PROVE Types'
<1> USE DEF Inv, Types
<1>1. CASE Retrieve
  BY <1>1 DEF Retrieve, ChainAssumption
<1>2. CASE Draft \/ Repair
  BY <1>2 DEF Draft, Repair
<1>3. CASE Guard
  BY <1>3, VerdictTypes DEF Guard
<1>4. CASE FromCache
  BY <1>4, VerdictTypes DEF FromCache
<1>5. CASE Decide
  BY <1>5, Decided DEF Decide
<1>6. CASE Edit
  <2> PICK t \in Rewrites : \E v \in ofHuman(t) : text' = t /\ verdicts' = v
    BY <1>6 DEF Edit
  <2> PICK v \in ofHuman(t) : text' = t /\ verdicts' = v
    OBVIOUS
  <2> PICK u \in runChain(room, t, IF grounding THEN facts ELSE {}, catalog) :
        v = [u EXCEPT !.claim_grounding = "n/a",
                      !.availability = IF grounding THEN @ ELSE "n/a",
                      !.price = IF ~grounding /\ @ # "n/a" THEN "block" ELSE @,
                      !.policy = IF ~grounding /\ t.never = "unlessCertified" THEN "block" ELSE @]
    BY DEF ofHuman
  <2>1. u \in [Guards -> {"n/a", "allow", "revise", "block"}]
    BY VerdictTypes
  <2>2. v \in [Guards -> {"n/a", "allow", "revise", "block"}]
    BY <2>1 DEF Guards
  <2>3. /\ pc' = "edited" /\ checked' = catalog /\ UNCHANGED <<catalog, indexed, room, grounding, repaired, moves>>
    BY <1>6 DEF Edit
  <2> QED BY <2>2, <2>3
<1>7. CASE SendAsIs
  BY <1>7 DEF SendAsIs
<1>9. CASE Restart
  BY <1>9 DEF Restart
<1>10. CASE UNCHANGED vars
  BY <1>10 DEF vars
<1>8. ASSUME NEW l \in Lots, Move(l) PROVE Types'
  <2> PICK p \in Prices, q \in 0..2, c \in BOOLEAN :
        catalog' = [catalog EXCEPT ![l] = [price |-> p, qty |-> q, certified |-> c, version |-> catalog[l].version + 1]]
    BY <1>8 DEF Move
  <2>1. catalog[l].version + 1 \in Nat
    BY <1>8 DEF LotRow
  <2> DEFINE next == [price |-> p, qty |-> q, certified |-> c, version |-> catalog[l].version + 1]
  <2>4. next \in LotRow
    BY <2>1 DEF LotRow
  <2>5. catalog' = [catalog EXCEPT ![l] = next]
    OBVIOUS
  <2> HIDE DEF next
  <2>2. catalog' \in [Lots -> LotRow]
    BY <2>4, <2>5, <1>8
  <2>3. moves' \in 0..MaxMoves
    BY <1>8 DEF Move, ChainAssumption
  <2> QED BY <1>8, <2>2, <2>3 DEF Move
<1> QED BY <1>1, <1>2, <1>3, <1>4, <1>5, <1>6, <1>7, <1>8, <1>9, <1>10 DEF Next

LEMMA JudgedKept == ASSUME ChainAssumption, Inv, [Next]_vars PROVE Judged'
<1> USE DEF Inv
<1>1. CASE Retrieve
  BY <1>1 DEF Retrieve, Judged
<1>2. CASE Draft \/ Repair
  BY <1>2 DEF Draft, Repair, Judged
<1>3. CASE Guard
  <2> PICK v \in runChain(room, text, facts, catalog) : verdicts' = v /\ checked' = catalog
    BY <1>3 DEF Guard
  <2>1. room' = room /\ text' = text /\ facts' = facts /\ pc' \in {"repairing", "deciding"}
    BY <1>3 DEF Guard
  <2> QED BY <2>1 DEF Judged
<1>4. CASE FromCache
  <2> PICK t \in Texts : \E v \in runChain(room, t, facts, indexed) : text' = t /\ verdicts' = v /\ checked' = indexed
    BY <1>4 DEF FromCache
  <2> PICK v \in runChain(room, t, facts, indexed) : text' = t /\ verdicts' = v /\ checked' = indexed
    OBVIOUS
  <2>1. room' = room /\ facts' = facts /\ pc' = "deciding"
    BY <1>4 DEF FromCache
  <2> QED BY <2>1 DEF Judged
<1>5. CASE Decide
  <2>1. /\ pc = "deciding" /\ pc' = decideReply(room, verdictOf(verdicts), confidenceOf(room, verdicts, text))
        /\ UNCHANGED <<catalog, facts, room, text, checked, verdicts>>
    BY <1>5 DEF Decide
  <2>2. pc' \in {"dropped", "held", "offered", "autoSent"}
    BY <2>1, Decided
  <2> QED BY <2>1, <2>2 DEF Judged
<1>6. CASE Edit
  <2> PICK t \in Rewrites : \E v \in ofHuman(t) : text' = t /\ verdicts' = v /\ verdictOf(v) # "block"
    BY <1>6 DEF Edit
  <2> PICK v \in ofHuman(t) : text' = t /\ verdicts' = v /\ verdictOf(v) # "block"
    OBVIOUS
  <2>1. /\ pc' = "edited" /\ checked' = catalog
        /\ UNCHANGED <<catalog, facts, room, grounding>>
    BY <1>6 DEF Edit
  <2>2. ofHuman(text)' = ofHuman(t)
    BY <2>1 DEF ofHuman
  <2> QED BY <2>1, <2>2 DEF Judged
<1>7. CASE SendAsIs
  BY <1>7 DEF SendAsIs, Judged
<1>8. CASE Restart
  BY <1>8 DEF Restart, Judged
<1>9. ASSUME NEW l \in Lots, Move(l) PROVE Judged'
  BY <1>9 DEF Move, Judged
<1>10. CASE UNCHANGED vars
  <2>1. ofHuman(text)' = ofHuman(text)
    BY <1>10 DEF ofHuman, vars
  <2> QED BY <1>10, <2>1 DEF vars, Judged
<1> QED BY <1>1, <1>2, <1>3, <1>4, <1>5, <1>6, <1>7, <1>8, <1>9, <1>10 DEF Next

(* Of every reply that the guards let pass, at every time: the amount in it *)
(* is a price that holds, a discount that is allowed, or one of the others  *)
(* that PassedHolds names, and what it says of stock is so.                 *)
(* (guards.ts, priceGuard and availabilityGuard; chain.ts, runChain.)       *)
THEOREM PassedRepliesHold == ChainAssumption => (Spec => []PassedHolds)
<1> SUFFICES ASSUME ChainAssumption PROVE Spec => []PassedHolds OBVIOUS
<1>1. Init => Inv BY InvInit
<1>2. Inv /\ [Next]_vars => Inv' BY TypesKept, GroundedKept, JudgedKept DEF Inv
<1>3. Inv => PassedHolds BY InvPassed
<1> QED BY <1>1, <1>2, <1>3, PTL DEF Spec

(* What sent itself cites what it was given and nothing else, and no guard  *)
(* had a word against it (chain.ts, confidenceOf; ladder.ts, decideReply).  *)
THEOREM NothingUngroundedSendsItself == ChainAssumption => (Spec => []AutoSentIsGrounded)
<1> SUFFICES ASSUME ChainAssumption PROVE Spec => []AutoSentIsGrounded OBVIOUS
<1>1. Init => Inv BY InvInit
<1>2. Inv /\ [Next]_vars => Inv' BY TypesKept, GroundedKept, JudgedKept DEF Inv
<1>3. Inv => AutoSentIsGrounded BY InvAutoSent
<1> QED BY <1>1, <1>2, <1>3, PTL DEF Spec
=============================================================================
