----------------------------- MODULE StreamAgents -----------------------------
(***************************************************************************)
(* The agents this app makes on the workspace, one per stream, and who     *)
(* makes, names and deletes them: the preparation of an event              *)
(* (shows/prepareEvent.ts), attaching and deleting a session               *)
(* (api/routes.ts), and the collector that runs every six hours and        *)
(* whenever the workspace is full (llm/agentGc.ts).                        *)
(*                                                                         *)
(* One event; its sessions follow one another.  Every call of the gateway  *)
(* and every statement is a step; old enough is a flag that time sets, the *)
(* two age limits of a pass are one.                                       *)
(***************************************************************************)
EXTENDS FiniteSets, Naturals

CONSTANTS
  Agents,      \* bound: agents the gateway mints
  Sessions,    \* sessions of the event
  Cap,         \* how many agents the workspace holds
  MaxRefusals, \* bound: calls the gateway or the database refuses
  MaxRequests  \* bound: preparations, attaches, drops and deletions asked for

Passes == {"timer", "room"}   \* the collector's pass of the timer, and the one that makes room
Droppers == Passes \cup {"request"}

VARIABLES
  agent,    \* agent -> "unborn", "there", or who had it deleted: "gc", "operator"
  prep,     \* the row of prepared_shows: there or not, its agent, and is it stale?
  show,     \* session -> its row
  prepare,  \* the preparation that runs
  attach,   \* the attach request that runs
  drop,     \* dropper -> how far its Preparer.drop is, and the agent it read
  delete,   \* the request that deletes a session
  gc,       \* pass -> how far
  refusals,
  requests

vars == <<agent, prep, show, prepare, attach, drop, delete, gc, refusals, requests>>

None == "none"
NoRow == [there |-> FALSE, agent |-> None, stale |-> FALSE]
Pass(pc, todo) == [pc |-> pc, todo |-> todo, keep |-> {}]

Init ==
  /\ agent = [a \in Agents |-> "unborn"]
  /\ prep = NoRow
  /\ show = [s \in Sessions |-> [status |-> "unborn", agent |-> None, settled |-> FALSE]]
  /\ prepare = [pc |-> "idle", agent |-> None]
  /\ attach = [pc |-> "idle", session |-> None, agent |-> None]
  /\ drop = [d \in Droppers |-> [pc |-> "idle", agent |-> None]]
  /\ delete = [pc |-> "idle", session |-> None, agent |-> None]
  /\ gc = [p \in Passes |-> Pass("idle", {})]
  /\ refusals = 0 /\ requests = 0

Asked == requests < MaxRequests /\ requests' = requests + 1

There == {a \in Agents : agent[a] = "there"}
Live == {s \in Sessions : show[s].status = "live"}

------------------------------ (* the gateway *) ----------------------------
Refused == refusals < MaxRefusals /\ refusals' = refusals + 1

(* deleteStreamAgent: an agent that has gone is gone either way. *)
Deleted(a, by) ==
  /\ agent' = IF a \in There THEN [agent EXCEPT ![a] = by] ELSE agent
  /\ refusals' = refusals

Made(a) == /\ agent[a] = "unborn" /\ Cardinality(There) < Cap
           /\ agent' = [agent EXCEPT ![a] = "there"]

(* A workspace that is full: a pass makes room, and one more try follows.   *)
RoomIsMade == gc' = [gc EXCEPT !["room"] = Pass("start", {})]
Full == Cardinality(There) >= Cap /\ gc["room"].pc = "idle"

---------------------------- (* preparing an event *) -----------------------
(* One preparation of an event at a time (routes, `preparing`).  Its lineup *)
(* takes a minute to read; the agent of an earlier one goes first.          *)
Prepare ==
  /\ prepare.pc = "idle" /\ Asked
  /\ prepare' = [pc |-> IF prep.agent = None THEN "create" ELSE "delete", agent |-> prep.agent]
  /\ UNCHANGED <<agent, prep, show, attach, drop, delete, gc, refusals>>

PrepareDeletes ==
  /\ prepare.pc = "delete"
  /\ Deleted(prepare.agent, "operator") \/ (Refused /\ agent' = agent)
  /\ prepare' = [pc |-> "create", agent |-> None]
  /\ UNCHANGED <<prep, show, attach, drop, delete, gc, requests>>

PrepareCreates == \E a \in Agents :
  /\ prepare.pc \in {"create", "again"} /\ gc["room"].pc = "idle" /\ Made(a)
  /\ prepare' = [pc |-> "save", agent |-> a]
  /\ UNCHANGED <<prep, show, attach, drop, delete, gc, refusals, requests>>

PrepareFull ==
  /\ prepare.pc = "create" /\ Full /\ RoomIsMade
  /\ prepare' = [prepare EXCEPT !.pc = "again"]
  /\ UNCHANGED <<agent, prep, show, attach, drop, delete, refusals, requests>>

(* Creating fails, or fails again: the row is written without an agent.     *)
PrepareFails ==
  /\ \/ prepare.pc = "create" /\ Refused
     \/ prepare.pc = "again" /\ Full /\ refusals' = refusals
     \/ prepare.pc \in {"create", "again"} /\ "unborn" \notin {agent[a] : a \in Agents} /\ refusals' = refusals
  /\ prepare' = [pc |-> "save", agent |-> None]
  /\ UNCHANGED <<agent, prep, show, attach, drop, delete, gc, requests>>

(* Guardrails and knowledge base are on the agent, or are not: the row is   *)
(* written, over one that is there, or the write fails.                     *)
PrepareSaves ==
  /\ prepare.pc = "save"
  /\ \/ prep' = [there |-> TRUE, agent |-> prepare.agent, stale |-> FALSE] /\ refusals' = refusals
     \/ Refused /\ prep' = prep
  /\ prepare' = [pc |-> "idle", agent |-> None]
  /\ UNCHANGED <<agent, show, attach, drop, delete, gc, requests>>

GrowsStale ==
  /\ prep.there /\ ~prep.stale /\ prep' = [prep EXCEPT !.stale = TRUE]
  /\ UNCHANGED <<agent, show, prepare, attach, drop, delete, gc, refusals, requests>>

(* Preparer.drop: the row is read, its agent deleted, the row deleted.      *)
DropRead(d) ==
  /\ drop' = [drop EXCEPT ![d] = IF ~prep.there THEN [pc |-> "idle", agent |-> None]
                                 ELSE [pc |-> "delete", agent |-> prep.agent]]
  /\ UNCHANGED <<agent, prep, show, prepare, attach, delete, gc, refusals>>

DropReads(d) == drop[d].pc = "start" /\ DropRead(d) /\ requests' = requests

Drop == prep.there /\ drop["request"].pc = "idle" /\ DropRead("request") /\ Asked

DropDeletes(d) ==
  /\ drop[d].pc = "delete"
  /\ \/ Deleted(drop[d].agent, IF d \in Passes THEN "gc" ELSE "operator")
     \/ Refused /\ agent' = agent
  /\ drop' = [drop EXCEPT ![d].pc = "row"]
  /\ UNCHANGED <<prep, show, prepare, attach, delete, gc, requests>>

DropEnds(d) ==
  /\ drop[d].pc = "row"
  /\ prep' = NoRow
  /\ drop' = [drop EXCEPT ![d] = [pc |-> "idle", agent |-> None]]
  /\ UNCHANGED <<agent, show, prepare, attach, delete, gc, refusals, requests>>

---------------------------- (* the sessions *) -----------------------------
(* Attaching joins the session that is live, or starts the next one; it     *)
(* takes over the agent of the preparation that it read before.  One whose  *)
(* catalog file is lost is dropped on the way.                              *)
Attach == \E s \in Sessions, lost \in BOOLEAN :
  /\ attach.pc = "idle" /\ drop["request"].pc = "idle" /\ Asked
  /\ s \in Live \/ (Live = {} /\ show[s].status = "unborn")
  /\ show' = [show EXCEPT ![s].status = "live"]
  /\ IF prep.there /\ ~lost /\ prep.agent # None
       THEN attach' = [pc |-> "record", session |-> s, agent |-> prep.agent] /\ drop' = drop
       ELSE /\ attach' = [pc |-> "create", session |-> s, agent |-> None]
            /\ drop' = [drop EXCEPT !["request"].pc = IF prep.there /\ lost THEN "start" ELSE @]
  /\ UNCHANGED <<agent, prep, prepare, delete, gc, refusals>>

AttachCreates == \E a \in Agents :
  /\ attach.pc \in {"create", "again"} /\ drop["request"].pc = "idle" /\ gc["room"].pc = "idle" /\ Made(a)
  /\ attach' = [attach EXCEPT !.pc = "record", !.agent = a]
  /\ UNCHANGED <<prep, show, prepare, drop, delete, gc, refusals, requests>>

AttachFull ==
  /\ attach.pc = "create" /\ drop["request"].pc = "idle" /\ Full /\ RoomIsMade
  /\ attach' = [attach EXCEPT !.pc = "again"]
  /\ UNCHANGED <<agent, prep, show, prepare, drop, delete, refusals, requests>>

(* The session falls back to the agent that all share.                      *)
AttachFails ==
  /\ drop["request"].pc = "idle"
  /\ \/ attach.pc = "create" /\ Refused
     \/ attach.pc = "again" /\ Full /\ refusals' = refusals
     \/ attach.pc \in {"create", "again"} /\ "unborn" \notin {agent[a] : a \in Agents} /\ refusals' = refusals
  /\ attach' = [pc |-> "idle", session |-> None, agent |-> None]
  /\ UNCHANGED <<agent, prep, show, prepare, drop, delete, gc, requests>>

AttachRecords ==
  /\ attach.pc = "record"
  /\ show' = [show EXCEPT ![attach.session].agent = IF show[attach.session].status = "deleted" THEN None ELSE attach.agent]
  /\ attach' = [pc |-> "idle", session |-> None, agent |-> None]
  /\ UNCHANGED <<agent, prep, prepare, drop, delete, gc, refusals, requests>>

Detach(s) ==
  /\ s \in Live /\ show' = [show EXCEPT ![s].status = "ended"]
  /\ UNCHANGED <<agent, prep, prepare, attach, drop, delete, gc, refusals, requests>>

(* The report is a day old. *)
Settle(s) ==
  /\ show[s].status = "ended" /\ ~show[s].settled
  /\ show' = [show EXCEPT ![s].settled = TRUE]
  /\ UNCHANGED <<agent, prep, prepare, attach, drop, delete, gc, refusals, requests>>

(* DELETE /api/shows/:showId: the row is read, the session detached, its    *)
(* agent deleted, and the row, whether or not the gateway agreed.           *)
DeleteReads(s) ==
  /\ delete.pc = "idle" /\ show[s].status \in {"live", "ended"} /\ Asked
  /\ delete' = [pc |-> "delete", session |-> s, agent |-> show[s].agent]
  /\ show' = [show EXCEPT ![s].status = "ended"]
  /\ UNCHANGED <<agent, prep, prepare, attach, drop, gc, refusals>>

DeleteEnds ==
  /\ delete.pc = "delete"
  /\ Deleted(delete.agent, "operator") \/ (Refused /\ agent' = agent)
  /\ show' = [show EXCEPT ![delete.session] = [status |-> "deleted", agent |-> None, settled |-> FALSE]]
  /\ delete' = [pc |-> "idle", session |-> None, agent |-> None]
  /\ UNCHANGED <<prep, prepare, attach, drop, gc, requests>>

----------------------------- (* the collector *) ---------------------------
Goto(p, pc) == gc' = [gc EXCEPT ![p] = Pass(pc, {})]

(* Sessions that ended, and whose report is old enough. *)
Begin(p) ==
  /\ gc[p].pc = "start" \/ (p = "timer" /\ gc[p].pc = "idle")
  /\ gc' = [gc EXCEPT ![p] = Pass("retire", {s \in Sessions : show[s].settled /\ show[s].agent # None})]
  /\ UNCHANGED <<agent, prep, show, prepare, attach, drop, delete, refusals, requests>>

Retire(p) == \E s \in gc[p].todo :
  /\ gc[p].pc = "retire"
  /\ \/ Deleted(show[s].agent, "gc") /\ show' = [show EXCEPT ![s].agent = None]
     \/ Refused /\ UNCHANGED <<agent, show>>
  /\ gc' = [gc EXCEPT ![p].todo = @ \ {s}]
  /\ UNCHANGED <<prep, prepare, attach, drop, delete, requests>>

(* A preparation that nobody attached for two days is dropped: so is one    *)
(* that somebody did attach.                                                *)
DropStale(p) ==
  /\ gc[p].pc = "retire" /\ gc[p].todo = {} /\ drop[p].pc = "idle"
  /\ Goto(p, "dropping")
  /\ drop' = [drop EXCEPT ![p].pc = IF prep.stale THEN "start" ELSE @]
  /\ UNCHANGED <<agent, prep, show, prepare, attach, delete, refusals, requests>>

List_rows(p) ==  \* mutant: the pass goes over our rows, and over nothing else
  /\ gc[p].pc = "dropping" /\ drop[p].pc = "idle"
  /\ Goto(p, "idle")
  /\ UNCHANGED <<agent, prep, show, prepare, attach, drop, delete, refusals, requests>>

(* The orphans: the workspace is listed first, then the rows are read; it   *)
(* may refuse to be listed, and the pass is over.                           *)
List(p) ==
  /\ gc[p].pc = "dropping" /\ drop[p].pc = "idle"
  /\ \/ gc' = [gc EXCEPT ![p] = Pass("shows", There)] /\ refusals' = refusals
     \/ Refused /\ Goto(p, "idle")
  /\ UNCHANGED <<agent, prep, show, prepare, attach, drop, delete, requests>>

ReadShows(p) ==
  /\ gc[p].pc = "shows"
  /\ gc' = [gc EXCEPT ![p].pc = "preps", ![p].keep = {show[s].agent : s \in Sessions}]
  /\ UNCHANGED <<agent, prep, show, prepare, attach, drop, delete, refusals, requests>>

ReadPreparations(p) ==
  /\ gc[p].pc = "preps"
  /\ gc' = [gc EXCEPT ![p] = Pass("reap", (@.todo \ @.keep) \ {prep.agent})]
  /\ UNCHANGED <<agent, prep, show, prepare, attach, drop, delete, refusals, requests>>

Reap(p) == \E a \in gc[p].todo :
  /\ gc[p].pc = "reap"
  /\ Deleted(a, "gc") \/ (Refused /\ agent' = agent)
  /\ gc' = [gc EXCEPT ![p].todo = @ \ {a}]
  /\ UNCHANGED <<prep, show, prepare, attach, drop, delete, requests>>

End(p) ==
  /\ gc[p].pc = "reap" /\ gc[p].todo = {}
  /\ Goto(p, "idle")
  /\ UNCHANGED <<agent, prep, show, prepare, attach, drop, delete, refusals, requests>>

-----------------------------------------------------------------------------
PrepareStep == PrepareDeletes \/ PrepareCreates \/ PrepareFull \/ PrepareFails \/ PrepareSaves
AttachStep == AttachCreates \/ AttachFull \/ AttachFails \/ AttachRecords
DropStep(d) == DropReads(d) \/ DropDeletes(d) \/ DropEnds(d)
PassStep(p) ==
  \/ Begin(p) \/ Retire(p) \/ DropStale(p) \/ List(p) \/ ReadShows(p)
  \/ ReadPreparations(p) \/ Reap(p) \/ End(p)

Next ==
  \/ Prepare \/ PrepareStep \/ GrowsStale
  \/ Drop \/ \E d \in Droppers : DropStep(d)
  \/ Attach \/ AttachStep
  \/ \E s \in Sessions : Detach(s) \/ Settle(s) \/ DeleteReads(s)
  \/ DeleteEnds
  \/ \E p \in Passes : PassStep(p)

Spec == Init /\ [][Next]_vars

(* Calls return (each has a timeout), and the timer fires again.            *)
Fairness ==
  /\ WF_vars(PrepareStep) /\ WF_vars(AttachStep) /\ WF_vars(DeleteEnds)
  /\ \A d \in Droppers : WF_vars(DropStep(d))
  /\ \A p \in Passes : WF_vars(PassStep(p))

-----------------------------------------------------------------------------
TypeOK ==
  /\ agent \in [Agents -> {"unborn", "there", "gc", "operator"}]
  /\ prep \in [there : BOOLEAN, agent : Agents \cup {None}, stale : BOOLEAN]
  /\ show \in [Sessions -> [status : {"unborn", "live", "ended", "deleted"},
                            agent : Agents \cup {None}, settled : BOOLEAN]]
  /\ \A d \in Droppers : drop[d].pc \in {"idle", "start", "delete", "row"}
  /\ \A p \in Passes : gc[p].pc \in {"idle", "start", "retire", "dropping", "shows", "preps", "reap"}
  /\ prepare.pc \in {"idle", "delete", "create", "again", "save"}
  /\ attach.pc \in {"idle", "create", "again", "record"}
  /\ refusals \in 0..MaxRefusals /\ requests \in 0..MaxRequests

Named(a) == prep.agent = a \/ \E s \in Sessions : show[s].agent = a

(* An agent that no row names, and that nobody is about to name, does not   *)
(* stay on the workspace until it is full: a pass finds it, whatever lost   *)
(* it (agentGc.ts, lines 77 to 86): a write that failed, a second attach, a *)
(* drop that crossed a preparation, a gateway that refused to delete it.    *)
OrphansAreReaped == \A a \in Agents :
  (a \in There /\ ~Named(a)) ~> (a \notin There \/ Named(a))
=============================================================================
