------------------------------- MODULE KbSync -------------------------------
(***************************************************************************)
(* The corpus a show keeps with the agent that answers for it              *)
(* (llm/kbSync.ts): one document with the lineup, written when the show is *)
(* attached or its lineup has changed.  An agent may serve several shows,  *)
(* and its knowledge base outlives them; what a show of before left there  *)
(* is cleared by the first sync of a show that is watched.                 *)
(*                                                                         *)
(* A sync is a chain of requests to the gateway with nothing held between  *)
(* them, so syncs of one show, or of two on one agent, overlap.  A lineup  *)
(* is a number that grows; a signature is that number.  What a document    *)
(* says is left out.                                                       *)
(***************************************************************************)
EXTENDS Integers, FiniteSets

CONSTANTS
  Shows,
  Gone,       \* shows of earlier processes, whose documents are still there
  Agents,
  First,      \* show -> the agent it begins with
  Requests,   \* calls of syncShow
  MaxLineup,  \* bound
  MaxFaults   \* bound: requests to the gateway that fail

None == -1

VARIABLES
  lineup,    \* show -> the lots it lists
  agent,     \* show -> ShowRuntime.agentId
  kb,        \* agent -> the documents the gateway holds
  watching, purged, lastSignature,
  sync,      \* request -> where it is
  made,      \* uploads made, which number the documents
  faults,
  uploaded,  \* history: show -> the lineups that were uploaded for it
  emptied    \* history: whose last document was deleted by a sync of whom

(* A show there is has an agent it begins with. *)
SyncAssumption ==
  /\ Shows # {} /\ Agents # {} /\ First \in [Shows -> Agents]
  /\ MaxLineup \in Nat /\ MaxFaults \in Nat

vars == <<lineup, agent, kb, watching, purged, lastSignature, sync, made, faults, uploaded, emptied>>

Doc(s, n) == [show |-> s, n |-> n]
Idle == [pc |-> "idle", show |-> CHOOSE s \in Shows : TRUE, agent |-> CHOOSE a \in Agents : TRUE,
         signature |-> None, keep |-> {}, todo |-> {}]

TypeOK ==
  /\ lineup \in [Shows -> 0..MaxLineup] /\ agent \in [Shows -> Agents] /\ DOMAIN kb = Agents
  /\ \A a \in Agents : \A d \in kb[a] : d.show \in Shows \cup Gone
  /\ watching \subseteq Shows /\ purged \subseteq Shows
  /\ lastSignature \in [Shows -> 0..MaxLineup \cup {None}]
  /\ \A r \in Requests : sync[r].pc \in {"idle", "listing", "purge", "purging", "deciding", "replace", "replacing",
                                         "uploading", "recording", "done"}
  /\ made \in Nat /\ faults \in 0..MaxFaults /\ emptied \subseteq Shows \X Shows

Init ==
  /\ lineup = [s \in Shows |-> 0] /\ agent = First
  /\ kb = [a \in Agents |-> {Doc(s, 0) : s \in Gone}]
  /\ watching = {} /\ purged = {} /\ lastSignature = [s \in Shows |-> None]
  /\ sync = [r \in Requests |-> Idle] /\ made = 0 /\ faults = 0
  /\ uploaded = [s \in Shows |-> {}] /\ emptied = {}

At(r, pc) == sync[r].pc = pc
Goto(r, pc) == sync' = [sync EXCEPT ![r].pc = pc]
Fault == faults < MaxFaults /\ faults' = faults + 1

---------------------------- (* the show meanwhile *) ------------------------
Grow(s) ==
  /\ lineup[s] < MaxLineup /\ lineup' = [lineup EXCEPT ![s] = @ + 1]
  /\ UNCHANGED <<agent, kb, watching, purged, lastSignature, sync, made, faults, uploaded, emptied>>

(* A catalog put on a live show brings its agent along. *)
UseAgent(s, a) ==
  /\ agent[s] # a /\ agent' = [agent EXCEPT ![s] = a]
  /\ UNCHANGED <<lineup, kb, watching, purged, lastSignature, sync, made, faults, uploaded, emptied>>

(* The show is detached or deleted; a sync under way goes on. *)
Cancel(s) ==
  /\ s \in watching /\ watching' = watching \ {s} /\ purged' = purged \ {s}
  /\ lastSignature' = [lastSignature EXCEPT ![s] = None]
  /\ UNCHANGED <<lineup, agent, kb, sync, made, faults, uploaded, emptied>>

------------------------------- (* syncShow *) -------------------------------
Begin(r, s) ==
  /\ At(r, "idle") /\ watching' = watching \cup {s}
  /\ sync' = [sync EXCEPT ![r] = [Idle EXCEPT !.pc = "listing", !.show = s, !.agent = agent[s]]]
  /\ UNCHANGED <<lineup, agent, kb, purged, lastSignature, made, faults, uploaded, emptied>>

Listed(r) ==
  LET s == sync[r].show IN
  /\ At(r, "listing")
  /\ sync' = [sync EXCEPT ![r].signature = lineup[s], ![r].keep = watching \cup {s},
                          ![r].pc = IF s \in purged THEN "deciding" ELSE "purge"]
  /\ purged' = purged \cup {s}
  /\ UNCHANGED <<lineup, agent, kb, watching, lastSignature, made, faults, uploaded, emptied>>

(* removeShowDocs: the documents there are, then one delete after another.  *)
(* Whatever fails is let be.                                                *)
Fetch(r) ==
  LET x == sync[r] IN
  /\ x.pc \in {"purge", "replace"}
  /\ \/ /\ sync' = [sync EXCEPT ![r].pc = IF @ = "purge" THEN "purging" ELSE "replacing",
                                ![r].todo = {d \in kb[x.agent] : d.show \notin x.keep}]
        /\ UNCHANGED faults
     \/ Fault /\ Goto(r, IF x.pc = "purge" THEN "deciding" ELSE "uploading")
  /\ UNCHANGED <<lineup, agent, kb, watching, purged, lastSignature, made, uploaded, emptied>>

Delete(r, d) ==
  LET x == sync[r]
      left == kb[x.agent] \ {d}
  IN
  /\ x.pc \in {"purging", "replacing"} /\ d \in x.todo
  /\ sync' = [sync EXCEPT ![r].todo = @ \ {d}]
  /\ \/ kb' = [kb EXCEPT ![x.agent] = left] /\ UNCHANGED faults
     \/ Fault /\ UNCHANGED kb
  /\ emptied' = IF d \in kb[x.agent] /\ kb' # kb /\ d.show \in Shows /\ \A e \in left : e.show # d.show
                THEN emptied \cup {<<d.show, x.show>>} ELSE emptied
  /\ UNCHANGED <<lineup, agent, watching, purged, lastSignature, made, uploaded>>

Removed(r) ==
  /\ sync[r].pc \in {"purging", "replacing"} /\ sync[r].todo = {}
  /\ Goto(r, IF At(r, "purging") THEN "deciding" ELSE "uploading")
  /\ UNCHANGED <<lineup, agent, kb, watching, purged, lastSignature, made, faults, uploaded, emptied>>

(* A lineup that has not changed is not written again.  What is replaced    *)
(* keeps the caller's own documents, and only those.                        *)
Decide_own(r) ==  \* mutant: the show's own document goes before the new one is there
  LET x == sync[r] IN
  /\ At(r, "deciding")
  /\ sync' = IF lastSignature[x.show] = x.signature THEN [sync EXCEPT ![r].pc = "done"]
             ELSE [sync EXCEPT ![r].pc = "replace", ![r].keep = Shows \ {x.show}]
  /\ UNCHANGED <<lineup, agent, kb, watching, purged, lastSignature, made, faults, uploaded, emptied>>

Decide(r) ==
  LET x == sync[r] IN
  /\ At(r, "deciding")
  /\ sync' = IF lastSignature[x.show] = x.signature THEN [sync EXCEPT ![r].pc = "done"]
             ELSE [sync EXCEPT ![r].pc = "replace", ![r].keep = {x.show}]
  /\ UNCHANGED <<lineup, agent, kb, watching, purged, lastSignature, made, faults, uploaded, emptied>>

(* The document goes to the agent the show has by now. *)
Upload_forgotten(r) ==  \* mutant: what failed is taken for written
  LET s == sync[r].show IN
  /\ At(r, "uploading")
  /\ \/ /\ kb' = [kb EXCEPT ![agent[s]] = @ \cup {Doc(s, made + 1)}] /\ made' = made + 1
        /\ uploaded' = [uploaded EXCEPT ![s] = @ \cup {sync[r].signature}] /\ UNCHANGED faults
     \/ Fault /\ UNCHANGED <<kb, made, uploaded>>
  /\ Goto(r, "recording")
  /\ UNCHANGED <<lineup, agent, watching, purged, lastSignature, emptied>>

Upload(r) ==
  LET s == sync[r].show IN
  /\ At(r, "uploading")
  /\ \/ /\ kb' = [kb EXCEPT ![agent[s]] = @ \cup {Doc(s, made + 1)}] /\ made' = made + 1
        /\ uploaded' = [uploaded EXCEPT ![s] = @ \cup {sync[r].signature}]
        /\ \/ Goto(r, "recording") /\ UNCHANGED faults
           \/ Fault /\ Goto(r, "done")
     \/ Fault /\ Goto(r, "done") /\ UNCHANGED <<kb, made, uploaded>>
  /\ UNCHANGED <<lineup, agent, watching, purged, lastSignature, emptied>>

Record(r) ==
  /\ At(r, "recording") /\ Goto(r, "done")
  /\ lastSignature' = [lastSignature EXCEPT ![sync[r].show] = sync[r].signature]
  /\ UNCHANGED <<lineup, agent, kb, watching, purged, made, faults, uploaded, emptied>>

Next ==
  \/ \E s \in Shows : Grow(s) \/ Cancel(s) \/ \E a \in Agents : UseAgent(s, a)
  \/ \E r \in Requests : (\E s \in Shows : Begin(r, s)) \/ (\E d \in sync[r].todo : Delete(r, d))
  \/ \E r \in Requests : Listed(r) \/ Fetch(r) \/ Removed(r) \/ Decide(r) \/ Upload(r) \/ Record(r)

Spec == Init /\ [][Next]_vars

-----------------------------------------------------------------------------
(* A show does not take its own corpus away: "a duplicate is recoverable, a *)
(* missing corpus is not" (kbSync.ts, removeShowDocs).  Its old documents   *)
(* stay until another show's sync, or a process that no longer watches it,  *)
(* removes them, so an upload that fails leaves the corpus of before.       *)
NeverMissing == \A s \in Shows : <<s, s>> \notin emptied

(* A lineup is skipped as unchanged only if it was written: a sync whose    *)
(* upload failed is made up for by the next one.                            *)
SkippedIsUploaded == \A s \in Shows : lastSignature[s] \in uploaded[s] \cup {None}

(* "Keep every show this process is CURRENTLY watching, not just this one.  *)
(* Two shows can share a catalog's agent, and a purge that keeps only the   *)
(* caller made them delete each other's corpus": what kbSync.ts says of the *)
(* purge, and what the removal before an upload does not do.                *)
SiblingsKeepTheirs ==
  \A s \in watching : ~ \E t \in watching \ {s} : <<s, t>> \in emptied
=============================================================================
