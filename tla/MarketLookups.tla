---------------------------- MODULE MarketLookups ----------------------------
(***************************************************************************)
(* What a lot goes for on eBay, looked up behind the answers: the market   *)
(* of a catalog's page (shows/catalogMarket.ts), the research a reply is   *)
(* given (research/research.ts), and the application token they share      *)
(* (ingest/ebay/client.ts).  Both ask for sold prices first and asking     *)
(* prices when nothing was sold, one lookup per lot at a time, and answer  *)
(* from what they already know; neither waits for eBay.                    *)
(*                                                                         *)
(* Whether the application may see sold prices, or anything, is eBay's to  *)
(* say and to change.  A token carries the scopes it was asked with.       *)
(***************************************************************************)
EXTENDS Integers, FiniteSets

CONSTANTS
  Skus,
  Regrants,    \* what eBay may come to allow: a subset of {"sold", "browse"}
  Granted,     \* what it allows at first
  TTL,         \* how long an answer is kept
  OffTicks,    \* how long research means to stay off
  MaxTime,     \* bound
  MaxFaults    \* bound: calls that fail and might not have

Services == {"catalog", "research"}
Scopes == {"sold", "browse"}
Never == -1

VARIABLES
  now,
  granted,   \* what eBay allows of this application
  scopes,    \* EbayClient.scopes: what a token is asked for
  token,     \* the scopes of the token it has, until when
  minting,   \* EbayClient.inFlight
  cache,     \* service -> lot -> when it was answered, and with which prices
  look,      \* service -> lot -> where its lookup is
  off,       \* MarketIndex.off, ResearchService.marketOff
  until,     \* ResearchService.marketOffUntil
  soldOff,   \* MarketIndex.soldOff
  faults,
  refused    \* history: what eBay has refused for good, but for sold prices

vars == <<now, granted, scopes, token, minting, cache, look, off, until, soldOff, faults, refused>>

Unknown == [at |-> Never, basis |-> "unknown"]

Init ==
  /\ now = 0 /\ granted = Granted /\ scopes = Scopes /\ token = [scopes |-> {}, until |-> 0] /\ minting = FALSE
  /\ cache = [s \in Services |-> [k \in Skus |-> Unknown]]
  /\ look = [s \in Services |-> [k \in Skus |-> "idle"]]
  /\ off = [s \in Services |-> FALSE] /\ until = 0 /\ soldOff = FALSE /\ faults = 0 /\ refused = FALSE

At(s, k, pc) == look[s][k] = pc
Fault == faults < MaxFaults /\ faults' = faults + 1
Fresh(s, k) == cache[s][k].at # Never /\ now < cache[s][k].at + TTL
HasToken == now < token.until

Tick ==
  /\ now < MaxTime /\ now' = now + 1
  /\ UNCHANGED <<granted, scopes, token, minting, cache, look, off, until, soldOff, faults, refused>>

Grant(g) ==
  /\ g \in Regrants \ granted /\ granted' = granted \cup {g}
  /\ UNCHANGED <<now, scopes, token, minting, cache, look, off, until, soldOff, faults, refused>>

-------------------------------- (* the token *) ----------------------------
(* Minted when a call finds none; the calls that come meanwhile wait for    *)
(* the same one.  An application without the sold scope is refused the      *)
(* whole token, and asks again, once and from then on, without it.          *)
Awaiting == {x \in Services \X Skus : look[x[1]][x[2]] \in {"sold", "asking"}}

MintStart ==
  /\ Awaiting # {} /\ ~HasToken /\ ~minting /\ minting' = TRUE
  /\ UNCHANGED <<now, granted, scopes, token, cache, look, off, until, soldOff, faults, refused>>

Mint_stubborn ==  \* mutant: it goes on asking for what it was refused
  /\ minting /\ minting' = FALSE /\ scopes \subseteq granted
  /\ token' = [scopes |-> scopes, until |-> now + TTL] /\ UNCHANGED scopes
  /\ UNCHANGED <<now, granted, cache, look, off, until, soldOff, faults, refused>>

Mint ==
  /\ minting /\ minting' = FALSE /\ "browse" \in granted
  /\ scopes' = IF scopes \subseteq granted THEN scopes ELSE {"browse"}
  /\ token' = [scopes |-> scopes', until |-> now + TTL]
  /\ UNCHANGED <<now, granted, cache, look, off, until, soldOff, faults, refused>>

----------------------------- (* what is found out *) -----------------------
Ended(s, k) == look' = [look EXCEPT ![s][k] = "idle"]

Keep(s, k, basis) == cache' = [cache EXCEPT ![s][k] = [at |-> now, basis |-> basis]]

(* A refusal that will not change: the catalog's page is off for the life   *)
(* of the process; research means to be off for a while.                    *)
TurnOff(S) ==
  /\ off' = [s \in Services |-> off[s] \/ s \in S]
  /\ until' = IF "research" \in S THEN now + OffTicks ELSE until

(* read, warm, liveComps: a lot that is not known afresh is looked up.      *)
Ask(s, k) ==
  /\ At(s, k, "idle") /\ ~Fresh(s, k) /\ ~off[s]
  /\ look' = [look EXCEPT ![s][k] = IF s = "catalog" /\ soldOff THEN "asking" ELSE "sold"]
  /\ UNCHANGED <<now, granted, scopes, token, minting, cache, off, until, soldOff, faults, refused>>

Send(s, k) ==
  /\ HasToken /\ look[s][k] \in {"sold", "asking"}
  /\ look' = [look EXCEPT ![s][k] = IF @ = "sold" THEN "sold sent" ELSE "asking sent"]
  /\ UNCHANGED <<now, granted, scopes, token, minting, cache, off, until, soldOff, faults, refused>>

Answered(s, k) ==
  /\ \/ /\ At(s, k, "sold sent") /\ {"sold", "browse"} \subseteq granted \cap token.scopes
        /\ \/ Keep(s, k, "sold") /\ Ended(s, k)
           \/ look' = [look EXCEPT ![s][k] = "asking"] /\ UNCHANGED cache
     \/ /\ At(s, k, "asking sent") /\ "browse" \in granted
        /\ \E basis \in {"asking", "none"} : Keep(s, k, basis)
        /\ Ended(s, k)
  /\ UNCHANGED <<now, granted, scopes, token, minting, off, until, soldOff, faults, refused>>

(* Sold prices refused: the page goes on with asking prices, research goes  *)
(* off.                                                                     *)
SoldRefused_off(s, k) ==  \* mutant: the page goes off as well
  /\ At(s, k, "sold sent") /\ ~({"sold", "browse"} \subseteq granted \cap token.scopes)
  /\ Ended(s, k) /\ TurnOff({s})
  /\ UNCHANGED <<now, granted, scopes, token, minting, cache, soldOff, faults, refused>>

SoldRefused(s, k) ==
  /\ At(s, k, "sold sent") /\ ~({"sold", "browse"} \subseteq granted \cap token.scopes)
  /\ IF s = "catalog"
     THEN /\ soldOff' = TRUE /\ look' = [look EXCEPT ![s][k] = "asking"] /\ UNCHANGED <<off, until>>
     ELSE /\ Ended(s, k) /\ TurnOff({s}) /\ UNCHANGED soldOff
  /\ UNCHANGED <<now, granted, scopes, token, minting, cache, faults, refused>>

AskingRefused(s, k) ==
  /\ At(s, k, "asking sent") /\ "browse" \notin granted
  /\ Ended(s, k) /\ TurnOff({s}) /\ refused' = TRUE
  /\ UNCHANGED <<now, granted, scopes, token, minting, cache, soldOff, faults>>

(* A token refused for good (the wrong environment's key) refuses every     *)
(* call that waits for it; the page takes a first refusal to be about sold  *)
(* prices, and is refused again.                                            *)
MintRefused ==
  /\ minting /\ minting' = FALSE /\ "browse" \notin granted /\ refused' = TRUE
  /\ look' = [s \in Services |-> [k \in Skus |->
                IF s = "catalog" /\ At(s, k, "sold") THEN "asking" ELSE IF <<s, k>> \in Awaiting THEN "idle" ELSE look[s][k]]]
  /\ soldOff' = (soldOff \/ \E k \in Skus : At("catalog", k, "sold"))
  /\ TurnOff({x[1] : x \in {y \in Awaiting : y[1] = "research" \/ look[y[1]][y[2]] = "asking"}})
  /\ UNCHANGED <<now, granted, scopes, token, cache, faults>>

(* A call that fails otherwise ends the lookup, and is no answer. *)
MintFails ==
  /\ minting /\ Fault /\ minting' = FALSE
  /\ look' = [s \in Services |-> [k \in Skus |-> IF <<s, k>> \in Awaiting THEN "idle" ELSE look[s][k]]]
  /\ UNCHANGED <<now, granted, scopes, token, cache, off, until, soldOff, refused>>

CallFails(s, k) ==
  /\ look[s][k] \in {"sold sent", "asking sent"} /\ Fault /\ Ended(s, k)
  /\ UNCHANGED <<now, granted, scopes, token, minting, cache, off, until, soldOff, refused>>

-----------------------------------------------------------------------------
Calls ==
  \/ MintStart \/ Mint \/ MintRefused
  \/ \E s \in Services, k \in Skus : Send(s, k) \/ Answered(s, k) \/ SoldRefused(s, k) \/ AskingRefused(s, k)

Next ==
  \/ Tick \/ \E g \in Scopes : Grant(g)
  \/ Calls \/ MintFails
  \/ \E s \in Services, k \in Skus : Ask(s, k) \/ CallFails(s, k)

Spec == Init /\ [][Next]_vars

(* A call ends (ebayFetch carries a deadline); the page polls while a lot   *)
(* is being checked, and buyers ask; time passes.                           *)
Fairness ==
  /\ WF_vars(Tick) /\ WF_vars(MintStart) /\ WF_vars(Mint \/ MintRefused)
  /\ \A s \in Services, k \in Skus :
       /\ WF_vars(Ask(s, k)) /\ WF_vars(Send(s, k))
       /\ WF_vars(Answered(s, k) \/ SoldRefused(s, k) \/ AskingRefused(s, k))

-----------------------------------------------------------------------------
TypeOK ==
  /\ now \in 0..MaxTime /\ granted \subseteq Scopes /\ scopes \subseteq Scopes /\ token.scopes \subseteq Scopes
  /\ minting \in BOOLEAN /\ soldOff \in BOOLEAN /\ off \in [Services -> BOOLEAN] /\ until \in 0..MaxTime + OffTicks
  /\ \A s \in Services, k \in Skus :
       /\ cache[s][k].basis \in {"unknown", "sold", "asking", "none"}
       /\ look[s][k] \in {"idle", "sold", "sold sent", "asking", "asking sent"}

(* An application that may not see sold prices has its whole lineup matched *)
(* on asking prices (catalogMarket.ts, lines 67 to 71): every lot of a page *)
(* that is polled is answered, unless eBay refuses more than that.          *)
LineupIsMatched == <>refused \/ \A k \in Skus : <>(cache["catalog"][k] # Unknown)

(* What was refused to research is asked for again when the while is over:  *)
(* "Off for a while, not forever: a keyset can be granted a scope, and a    *)
(* 403 at 9pm should not still be the answer at 9am" (research.ts, lines    *)
(* 252 and 253).                                                            *)
ResearchComesBack ==
  (off["research"] /\ now >= until) ~> (\E k \in Skus : ~At("research", k, "idle"))

FairSpec == Spec /\ Fairness
=============================================================================
