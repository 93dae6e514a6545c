----------------------------- MODULE PolicyArming -----------------------------
(***************************************************************************)
(* The policy a reply is checked against: a seller's settings and persona  *)
(* (settings/store.ts, persona/store.ts), each cached for a minute, put    *)
(* together for every request and every draft (guardrails/policy.ts), and  *)
(* pushed onto the seller's agents when the settings are saved             *)
(* (api/routes.ts, PUT /api/settings and /api/persona).                    *)
(*                                                                         *)
(* One seller.  A version is the number of the save it came with, and 0    *)
(* what is shipped.  Time is counted in ticks, and a statement or a call   *)
(* ends within the tick it began in.                                       *)
(***************************************************************************)
EXTENDS Integers, FiniteSets

CONSTANTS
  Requests,  \* requests and drafts at once
  Agents,    \* the agents a save has to reach
  TTL,       \* the minute an entry is served for, in ticks
  MaxSaves,  \* bound: versions written
  MaxTicks   \* bound: of the clock

(* An entry is served for a while.                                          *)
PolicyAssumption == TTL \in Nat \ {0} /\ MaxSaves \in Nat

Stores == {"settings", "persona"}

VARIABLES
  row,     \* store -> the version its row has
  cache,   \* store -> its entry: the version, and when it was made
  reqs,    \* request -> what it is and how far
  agent,   \* agent -> the version its guardrails were projected from
  saves,   \* version -> which store it is of, and when its row was written
  clock

vars == <<row, cache, reqs, agent, saves, clock>>

Versions == 1..MaxSaves
NoEntry == [version |-> -1, at |-> 0]
Unsaved == [store |-> "none", at |-> 0]
Idle == [pc |-> "idle", store |-> "settings", version |-> 0, policy |-> [s \in Stores |-> 0],
         at |-> [s \in Stores |-> 0], shipped |-> FALSE, push |-> {}]

Init ==
  /\ row = [s \in Stores |-> 0]
  /\ cache = [s \in Stores |-> NoEntry]
  /\ reqs = [r \in Requests |-> Idle]
  /\ agent = [a \in Agents |-> 0]
  /\ saves = [v \in Versions |-> Unsaved]
  /\ clock = 0

InFlight == {r \in Requests : reqs[r].pc \notin {"idle", "guarding"}}

Tick ==
  /\ clock < MaxTicks /\ InFlight = {}
  /\ clock' = clock + 1
  /\ UNCHANGED <<row, cache, reqs, agent, saves>>

--------------------------- (* what is enforced *) --------------------------
(* The hook of a request, or a draft of the runtime: settings first, then   *)
(* the persona.                                                             *)
Begin(r) ==
  /\ reqs[r].pc \in {"idle", "guarding"}
  /\ reqs' = [reqs EXCEPT ![r] = [Idle EXCEPT !.pc = "look"]]
  /\ UNCHANGED <<row, cache, agent, saves, clock>>

(* One store has been read: on to the next, or the policy is complete.      *)
Took(q, version) ==
  LET p == [q EXCEPT !.policy[q.store] = version, !.at[q.store] = clock] IN
  IF q.store = "settings" THEN [p EXCEPT !.pc = "look", !.store = "persona", !.version = 0]
  ELSE [p EXCEPT !.pc = "guarding", !.store = "settings", !.version = 0]

Hit_ageless(s) == cache[s] # NoEntry  \* mutant: an entry is served for ever

Hit(s) == cache[s] # NoEntry /\ clock - cache[s].at < TTL

Look(r) ==
  /\ reqs[r].pc = "look"
  /\ reqs' = [reqs EXCEPT ![r] = IF Hit(@.store) THEN Took(@, cache[@.store].version)
                                 ELSE [@ EXCEPT !.pc = "load"]]
  /\ UNCHANGED <<row, cache, agent, saves, clock>>

(* The statement sees the row as it is committed; or it fails, and then the *)
(* work goes on under the policy that is shipped.                           *)
Load(r) ==
  /\ reqs[r].pc = "load"
  /\ \/ reqs' = [reqs EXCEPT ![r].pc = "fill", ![r].version = row[reqs[r].store]]
     \/ reqs' = [reqs EXCEPT ![r] = [Idle EXCEPT !.pc = "guarding", !.shipped = TRUE]]
  /\ UNCHANGED <<row, cache, agent, saves, clock>>

(* What it read goes into the cache, whatever has become of it since. *)
Fill(r) ==
  /\ reqs[r].pc = "fill"
  /\ cache' = [cache EXCEPT ![reqs[r].store] = [version |-> reqs[r].version, at |-> clock]]
  /\ reqs' = [reqs EXCEPT ![r] = Took(@, @.version)]
  /\ UNCHANGED <<row, agent, saves, clock>>

-------------------------------- (* a save *) -------------------------------
Unused == {v \in Versions : saves[v] = Unsaved /\ \A r \in Requests : reqs[r].version # v \/ reqs[r].pc = "idle"}

(* A body that does not pass is refused before this.  persist and upsert    *)
(* drop the entry first, and then write.                                    *)
Save(r, s) == \E v \in Unused :
  /\ reqs[r].pc = "guarding" /\ \A w \in Unused : v <= w
  /\ cache' = [cache EXCEPT ![s] = NoEntry]
  /\ reqs' = [reqs EXCEPT ![r] = [Idle EXCEPT !.pc = "write", !.store = s, !.version = v]]
  /\ UNCHANGED <<row, agent, saves, clock>>

(* The statement fails, and the request with it; or the row is written.     *)
(* Saved settings are pushed, and a saved persona is put together with the  *)
(* settings again.                                                          *)
Write(r) ==
  /\ reqs[r].pc = "write"
  /\ \/ /\ reqs' = [reqs EXCEPT ![r] = Idle]
        /\ UNCHANGED <<row, saves>>
     \/ /\ row' = [row EXCEPT ![reqs[r].store] = reqs[r].version]
        /\ saves' = [saves EXCEPT ![reqs[r].version] =
             [store |-> reqs[r].store, at |-> clock]]
        /\ reqs' = [reqs EXCEPT ![r] = IF @.store = "settings" THEN [@ EXCEPT !.pc = "push", !.push = Agents]
                                       ELSE [@ EXCEPT !.pc = "look", !.store = "settings", !.version = 0]]
  /\ UNCHANGED <<cache, agent, clock>>

(* All agents at once, and each may refuse: reported, and not thrown.       *)
Push(r) == \E a \in reqs[r].push :
  /\ reqs[r].pc = "push"
  /\ \/ agent' = [agent EXCEPT ![a] = reqs[r].version]
     \/ agent' = agent
  /\ reqs' = [reqs EXCEPT ![r].push = @ \ {a}]
  /\ UNCHANGED <<row, cache, saves, clock>>

Saved(r) ==
  /\ reqs[r].pc = "push" /\ reqs[r].push = {}
  /\ reqs' = [reqs EXCEPT ![r] = Idle]
  /\ UNCHANGED <<row, cache, agent, saves, clock>>

-----------------------------------------------------------------------------
Next ==
  \/ Tick
  \/ \E r \in Requests : \/ Begin(r) \/ Look(r) \/ Load(r) \/ Fill(r)
                         \/ \E s \in Stores : Save(r, s)
                         \/ Write(r) \/ Push(r) \/ Saved(r)

Spec == Init /\ [][Next]_vars

-----------------------------------------------------------------------------
TypeOK ==
  /\ row \in [Stores -> 0..MaxSaves] /\ agent \in [Agents -> 0..MaxSaves]
  /\ \A s \in Stores : cache[s].version \in -1..MaxSaves /\ cache[s].at \in 0..clock
  /\ \A r \in Requests : reqs[r].pc \in {"idle", "look", "load", "fill", "guarding", "write", "push"}

(* A later save of the store that a request has a version of.               *)
Overtaken(r, w) == LET s == saves[w].store IN
  s \in Stores /\ row[s] = w /\ reqs[r].policy[s] # w

(* No reply is checked against rules that were replaced a minute ago or     *)
(* more: what was saved since is younger than the life of a cache entry,    *)
(* however reads and saves cross.                                           *)
EnforcedIsRecent == \A r \in Requests : reqs[r].pc = "guarding" /\ ~reqs[r].shipped =>
  \A w \in Versions : Overtaken(r, w) => reqs[r].at[saves[w].store] - saves[w].at < TTL
=============================================================================
