----------------------------- MODULE ShowRegistry -----------------------------
(***************************************************************************)
(* The shows one process is watching (shows/registry.ts), the rows that    *)
(* outlive it, and the sweep that reconciles the two at boot               *)
(* (api/context.ts `start`, shows/resume.ts).                              *)
(*                                                                         *)
(* A session is a pair of a room and a number: the n-th time the room's    *)
(* event was attached (`base`, `base-2`, ...).  A runtime is named after   *)
(* the request that built it.  An attach looks for a live runtime, asks    *)
(* the database which session comes next, looks for an attach in flight,   *)
(* counts against the limits and builds; every await between is a step.    *)
(***************************************************************************)
EXTENDS Integers, FiniteSets

CONSTANTS
  Attachers,       \* attach requests
  Sweep,           \* the attacher that is the boot sweep
  Enders,          \* detach requests, and watchers that find their show over
  Owners, Rooms,
  Scraped,         \* the rooms on a surface that needs a browser of its own
  MaxWatchedShows, MaxScrapedRooms,
  MaxSession,      \* bound: sessions of one room
  Faults,          \* subset of {"start", "crash"}
  QuickLookups     \* does one SELECT return before a room that is opening has opened?

ASSUME RegistryAssumption ==
  /\ Sweep \in Attachers /\ Scraped \subseteq Rooms
  /\ MaxWatchedShows \in Nat /\ MaxScrapedRooms \in Nat /\ MaxSession \in Nat \ {0}
  /\ QuickLookups \in BOOLEAN
  /\ Rooms # {} /\ Owners # {} /\ "none" \notin Attachers \cup Owners

VARIABLES
  rows,      \* the shows table
  runtimes,  \* session -> runtime
  attaching, \* session -> the attach in flight
  active,    \* activeShowId: one session, or none
  at,        \* attacher -> where it is
  rt,        \* attacher -> the runtime it built
  en,        \* ender -> where it is, and the runtime it holds
  sweep      \* the boot sweep: the live rows it has still to look at

vars == <<rows, runtimes, attaching, active, at, rt, en, sweep>>

-----------------------------------------------------------------------------
None == "none"

Sessions == Rooms \X (1..MaxSession)

Row == [status : {"absent", "live", "ended"}, owner : Owners \cup {None}]

(* got: the runtime the request was handed. *)
AttachPCs == {"idle", "lookup", "claim", "joined", "select", "write", "owner", "opening",
              "listing", "given", "refused", "lost"}

At == [pc : AttachPCs, room : Rooms, owner : Owners, id : Sessions, got : Attachers \cup {None}]

Runtime == [phase : {"none", "building", "open", "closing", "closed"}, owner : Owners \cup {None}]

Ender == [pc : {"idle", "finish", "remove", "close", "done"}, id : Sessions,
          rt : Attachers \cup {None}]

anySession == CHOOSE s \in Sessions : s[2] = 1

NoAt == [pc |-> "idle", room |-> anySession[1], owner |-> CHOOSE o \in Owners : TRUE,
         id |-> anySession, got |-> None]
NoRuntime == [phase |-> "none", owner |-> None]
NoEnder == [pc |-> "idle", id |-> anySession, rt |-> None]

Init ==
  /\ rows = [s \in Sessions |-> [status |-> "absent", owner |-> None]]
  /\ runtimes = [s \in Sessions |-> None] /\ attaching = [s \in Sessions |-> None]
  /\ active = {}
  /\ at = [c \in Attachers |-> NoAt] /\ rt = [c \in Attachers |-> NoRuntime]
  /\ en = [d \in Enders |-> NoEnder]
  /\ sweep = [pc |-> "never", left |-> {}, cur |-> anySession, recent |-> {}]

Live == {s \in Sessions : rows[s].status = "live"}
Watched == {s \in Sessions : runtimes[s] # None}
Starting == {s \in Sessions : attaching[s] # None}

(* Two sessions of one room are two keys of each map, so the counts are of  *)
(* map entries: a session that has just opened counts twice until its       *)
(* attach has returned.                                                     *)
watching == Cardinality(Watched) + Cardinality(Starting)
scrapedRoomCount ==
  Cardinality({s \in Watched : s[1] \in Scraped}) + Cardinality({s \in Starting : s[1] \in Scraped})

-------------------------------- (* attach *) -------------------------------
(* sessionIdFor: the owner's live row of this room, or else the first       *)
(* number nobody has taken.  (Every room here is on one surface.)           *)
sessionIdFor(r, o) ==
  LET live == {s \in Sessions : s[1] = r /\ rows[s].status = "live" /\ rows[s].owner = o}
      free == {s \in Sessions : s[1] = r /\ rows[s].status = "absent"}
  IN  IF live # {} THEN CHOOSE s \in live : \A t \in live : s[2] >= t[2]
      ELSE CHOOSE s \in free : \A t \in free : s[2] <= t[2]

CanNumber(r, o) == \E s \in Sessions :
  s[1] = r /\ (rows[s].status = "absent" \/ (rows[s].status = "live" /\ rows[s].owner = o))

liveRuntime(r, o) == {s \in Watched : s[1] = r /\ rt[runtimes[s]].owner = o}

Goto(c, pc) == at' = [at EXCEPT ![c].pc = pc]

(* A live runtime of the same room and owner is handed out as it is.        *)
AttachTo(c, r, o) ==
  /\ IF liveRuntime(r, o) = {}
     THEN at' = [at EXCEPT ![c] = [NoAt EXCEPT !.pc = "lookup", !.room = r, !.owner = o]]
     ELSE LET s == CHOOSE s \in liveRuntime(r, o) : TRUE
          IN  at' = [at EXCEPT ![c] =
                [pc |-> "given", room |-> r, owner |-> o, id |-> s, got |-> runtimes[s]]]
  /\ UNCHANGED <<rows, runtimes, attaching, active, rt, en>>

Attach(c) == \E r \in Rooms, o \in Owners :
  /\ c # Sweep /\ at[c].pc = "idle"
  /\ AttachTo(c, r, o)
  /\ UNCHANGED sweep

NextSessionId(c) ==
  /\ at[c].pc = "lookup" /\ CanNumber(at[c].room, at[c].owner)
  /\ at' = [at EXCEPT ![c].pc = "claim", ![c].id = sessionIdFor(at[c].room, at[c].owner)]
  /\ UNCHANGED <<rows, runtimes, attaching, active, rt, en, sweep>>

LimitReached_late(c) ==  \* mutant: an attach is counted when its room has opened
  \/ Cardinality(Watched) >= MaxWatchedShows
  \/ /\ at[c].room \in Scraped
     /\ Cardinality({s \in Watched : s[1] \in Scraped}) >= MaxScrapedRooms

LimitReached(c) ==
  \/ watching >= MaxWatchedShows
  \/ (at[c].room \in Scraped /\ scrapedRoomCount >= MaxScrapedRooms)

Claim_alone(c) ==  \* mutant: an attach in flight is not looked for
  /\ at[c].pc = "claim"
  /\ IF LimitReached(c) THEN /\ Goto(c, "refused") /\ UNCHANGED <<attaching, rt>>
     ELSE /\ Goto(c, "select")
          /\ attaching' = [attaching EXCEPT ![at[c].id] = c]
          /\ rt' = [rt EXCEPT ![c] = [phase |-> "building", owner |-> at[c].owner]]
  /\ UNCHANGED <<rows, runtimes, active, en, sweep>>

(* One synchronous turn: join an attach in flight, or be refused by a       *)
(* limit, or be counted and start building.                                 *)
Claim(c) ==
  /\ at[c].pc = "claim"
  /\ IF attaching[at[c].id] # None THEN /\ Goto(c, "joined") /\ UNCHANGED <<attaching, rt>>
     ELSE IF LimitReached(c) THEN /\ Goto(c, "refused") /\ UNCHANGED <<attaching, rt>>
          ELSE /\ Goto(c, "select")
               /\ attaching' = [attaching EXCEPT ![at[c].id] = c]
               /\ rt' = [rt EXCEPT ![c] = [phase |-> "building", owner |-> at[c].owner]]
  /\ UNCHANGED <<rows, runtimes, active, en, sweep>>

(* ShowRuntime.init: is there a row?  A row that ended goes back on air; a  *)
(* new one is inserted, or found after all and put on air.  Neither writes  *)
(* the owner of a row that exists.                                          *)
InitReads(c) ==
  /\ at[c].pc = "select"
  /\ Goto(c, "write")
  /\ UNCHANGED <<rows, runtimes, attaching, active, rt, en, sweep>>

InitWrites(c) ==
  /\ at[c].pc = "write"
  /\ rows' = [rows EXCEPT ![at[c].id] =
       IF @.status = "absent" THEN [status |-> "live", owner |-> at[c].owner]
                              ELSE [@ EXCEPT !.status = "live"]]
  /\ Goto(c, "owner")
  /\ UNCHANGED <<runtimes, attaching, active, rt, en, sweep>>

(* loadOwner: the row decides whose runtime it is. *)
LoadOwner(c) ==
  /\ at[c].pc = "owner"
  /\ rt' = [rt EXCEPT ![c].owner = IF rows[at[c].id].owner # None THEN rows[at[c].id].owner ELSE @]
  /\ Goto(c, "opening")
  /\ UNCHANGED <<rows, runtimes, attaching, active, en, sweep>>

LookingUp(r) == \E c \in Attachers : at[c].room = r /\ at[c].pc \in {"lookup", "claim"}

(* The room is open, and only now is the runtime in the map. *)
Opened(c) ==
  /\ at[c].pc = "opening"
  /\ QuickLookups => ~LookingUp(at[c].room)
  /\ runtimes' = [runtimes EXCEPT ![at[c].id] = c]
  /\ rt' = [rt EXCEPT ![c].phase = "open"]
  /\ Goto(c, "listing")
  /\ UNCHANGED <<rows, attaching, active, en, sweep>>

(* The promise settles: the attach leaves the map, and every request that   *)
(* joined it goes on with what it got.                                      *)
SettleWith(c, pc, got) ==
  /\ attaching' = [attaching EXCEPT ![at[c].id] = None]
  /\ at' = [x \in Attachers |->
       IF x = c \/ (at[x].pc = "joined" /\ at[x].id = at[c].id)
       THEN [at[x] EXCEPT !.pc = pc, !.got = got] ELSE at[x]]

Given(c) ==
  /\ at[c].pc = "listing"
  /\ SettleWith(c, "given", c)
  /\ UNCHANGED <<rows, runtimes, active, rt, en, sweep>>

StartFails_keeps(c) ==  \* mutant: only an attach that worked leaves the map
  /\ "start" \in Faults
  /\ at[c].pc \in {"select", "write", "owner", "opening"}
  /\ rt' = [rt EXCEPT ![c].phase = "closed"]
  /\ Goto(c, "refused")
  /\ UNCHANGED <<rows, runtimes, attaching, active, en, sweep>>

(* init or start throws: whatever was opened is closed.  The row stays as   *)
(* init left it.                                                            *)
StartFails(c) ==
  /\ "start" \in Faults
  /\ at[c].pc \in {"select", "write", "owner", "opening"}
  /\ rt' = [rt EXCEPT ![c].phase = "closed"]
  /\ SettleWith(c, "refused", None)
  /\ UNCHANGED <<rows, runtimes, active, en, sweep>>

(* The attach route makes the session it was given the active one, if it is *)
(* still watched.                                                           *)
Activate(c) ==
  /\ at[c].pc = "given" /\ \E s \in Watched : runtimes[s] = at[c].got
  /\ active' = {CHOOSE s \in Watched : runtimes[s] = at[c].got}
  /\ UNCHANGED <<rows, runtimes, attaching, at, rt, en, sweep>>

-------------------------------- (* detach *) -------------------------------
Detach_first(d) == \E s \in Sessions :  \* mutant: out of the map before the report
  /\ en[d].pc = "idle" /\ runtimes[s] # None
  /\ en' = [en EXCEPT ![d] = [pc |-> "finish", id |-> s, rt |-> runtimes[s]]]
  /\ runtimes' = [runtimes EXCEPT ![s] = None]
  /\ active' = active \ {s}
  /\ UNCHANGED <<rows, attaching, at, rt, sweep>>

(* finishSession starts: the runtime stays in the map while the report is   *)
(* built (module SessionReport).                                            *)
Detach(d) == \E s \in Sessions :
  /\ en[d].pc = "idle" /\ runtimes[s] # None
  /\ en' = [en EXCEPT ![d] = [pc |-> "finish", id |-> s, rt |-> runtimes[s]]]
  /\ UNCHANGED <<rows, runtimes, attaching, active, at, rt, sweep>>

MarkEnded(d) ==
  /\ en[d].pc = "finish"
  /\ rows' = [rows EXCEPT ![en[d].id].status = "ended"]
  /\ en' = [en EXCEPT ![d].pc = "remove"]
  /\ UNCHANGED <<runtimes, attaching, active, at, rt, sweep>>

Remove_active(d) ==  \* mutant: the active show is not forgotten
  /\ en[d].pc = "remove"
  /\ runtimes' = [runtimes EXCEPT ![en[d].id] = None]
  /\ rt' = [rt EXCEPT ![en[d].rt].phase = IF @ = "open" THEN "closing" ELSE @]
  /\ en' = [en EXCEPT ![d].pc = "close"]
  /\ UNCHANGED <<rows, attaching, active, at, sweep>>

(* Out of the map, then closed: close drains the drafts and stops the       *)
(* watcher after that.                                                      *)
Remove(d) ==
  /\ en[d].pc = "remove"
  /\ runtimes' = [runtimes EXCEPT ![en[d].id] = None]
  /\ active' = active \ {en[d].id}
  /\ rt' = [rt EXCEPT ![en[d].rt].phase = IF @ = "open" THEN "closing" ELSE @]
  /\ en' = [en EXCEPT ![d].pc = "close"]
  /\ UNCHANGED <<rows, attaching, at, sweep>>

Closed(d) ==
  /\ en[d].pc = "close"
  /\ rt' = [rt EXCEPT ![en[d].rt].phase = "closed"]
  /\ en' = [en EXCEPT ![d].pc = "done"]
  /\ UNCHANGED <<rows, runtimes, attaching, active, at, sweep>>

---------------------------- (* crash and boot *) ---------------------------
(* The process is gone and comes back: the rows that are live are listed,   *)
(* and requests are served while the sweep works through them.  Some of the *)
(* rows were written a moment ago.                                          *)
Crash == \E recent \in SUBSET Live :
  /\ "crash" \in Faults /\ sweep.pc = "never" /\ Live # {}
  /\ runtimes' = [s \in Sessions |-> None] /\ attaching' = [s \in Sessions |-> None]
  /\ active' = {}
  /\ at' = [c \in Attachers |-> IF at[c].pc = "idle" THEN at[c] ELSE [NoAt EXCEPT !.pc = "lost"]]
  /\ rt' = [c \in Attachers |-> IF rt[c].phase = "none" THEN rt[c] ELSE [rt[c] EXCEPT !.phase = "closed"]]
  /\ en' = [d \in Enders |-> IF en[d].pc = "idle" THEN en[d] ELSE [NoEnder EXCEPT !.pc = "done"]]
  /\ sweep' = [pc |-> "next", left |-> Live, cur |-> anySession, recent |-> recent]
  /\ UNCHANGED rows

SweepAt(pc) == sweep' = [sweep EXCEPT !.pc = pc]

SweepPlans_ebay == \E s \in sweep.left, plan \in {"skip", "resume", "finish", "leave"} :
  \* mutant: rooms of the other surfaces are not looked at
  /\ sweep.pc = "next"
  /\ plan = "skip" <=> (s \in Watched \/ s[1] \notin Scraped)
  /\ plan = "leave" => s \in sweep.recent
  /\ plan = "finish" => s \notin sweep.recent
  /\ plan = "resume" => at[Sweep].pc = "idle"
  /\ sweep' = [sweep EXCEPT !.left = @ \ {s}, !.cur = s,
                            !.pc = IF plan \in {"resume", "finish"} THEN plan ELSE "next"]
  /\ UNCHANGED <<rows, runtimes, attaching, active, at, rt, en>>

(* A row this process watches already is skipped; planResume reopens it,   *)
(* finishes it, or leaves a row that was written a moment ago.              *)
SweepPlans == \E s \in sweep.left, plan \in {"skip", "resume", "finish", "leave"} :
  /\ sweep.pc = "next"
  /\ plan = "skip" <=> s \in Watched
  /\ plan = "leave" => s \in sweep.recent
  /\ plan = "finish" => s \notin sweep.recent
  /\ plan = "resume" => at[Sweep].pc = "idle"
  /\ sweep' = [sweep EXCEPT !.left = @ \ {s}, !.cur = s,
                            !.pc = IF plan \in {"resume", "finish"} THEN plan ELSE "next"]
  /\ UNCHANGED <<rows, runtimes, attaching, active, at, rt, en>>

SweepAttaches ==
  /\ sweep.pc = "resume" /\ at[Sweep].pc = "idle"
  /\ AttachTo(Sweep, sweep.cur[1], rows[sweep.cur].owner)
  /\ UNCHANGED sweep

(* Resumed, or refused.  What follows the attach (the catalog, the index)   *)
(* may throw as well, and then the session it has just reopened is finished.*)
SweepAttached ==
  /\ sweep.pc = "resume" /\ at[Sweep].pc \in {"given", "refused"}
  /\ \/ at[Sweep].pc = "given" /\ SweepAt("next")
     \/ (at[Sweep].pc = "refused" \/ "start" \in Faults) /\ SweepAt("finish")
  /\ UNCHANGED <<rows, runtimes, attaching, active, at, rt, en>>

(* finishStranded: a report over a replay of the session, and the row ends. *)
SweepFinishes ==
  /\ sweep.pc = "finish"
  /\ rows' = [rows EXCEPT ![sweep.cur].status = "ended"]
  /\ SweepAt("next")
  /\ UNCHANGED <<runtimes, attaching, active, at, rt, en>>

SweepEnds ==
  /\ sweep.pc = "next" /\ sweep.left = {}
  /\ SweepAt("done")
  /\ UNCHANGED <<rows, runtimes, attaching, active, at, rt, en>>

-----------------------------------------------------------------------------
AttachStep(c) ==
  NextSessionId(c) \/ Claim(c) \/ InitReads(c) \/ InitWrites(c) \/ LoadOwner(c) \/ Opened(c) \/ Given(c)

DetachStep(d) == MarkEnded(d) \/ Remove(d) \/ Closed(d)

SweepStep == SweepPlans \/ SweepAttaches \/ SweepAttached \/ SweepFinishes \/ SweepEnds

Next ==
  \/ \E c \in Attachers : Attach(c) \/ AttachStep(c) \/ StartFails(c) \/ Activate(c)
  \/ \E d \in Enders : Detach(d) \/ DetachStep(d)
  \/ Crash \/ SweepStep

Spec == Init /\ [][Next]_vars

(* A request that was taken in goes on: its statements return, its room     *)
(* opens or throws (every open has a timeout).  Nobody need ask.            *)
FairSpec ==
  /\ Spec
  /\ \A c \in Attachers : WF_vars(AttachStep(c))
  /\ \A d \in Enders : WF_vars(DetachStep(d))
  /\ WF_vars(SweepStep)

-----------------------------------------------------------------------------
TypeOK ==
  /\ rows \in [Sessions -> Row]
  /\ runtimes \in [Sessions -> Attachers \cup {None}] /\ attaching \in [Sessions -> Attachers \cup {None}]
  /\ active \subseteq Watched /\ Cardinality(active) <= 1
  /\ at \in [Attachers -> At] /\ rt \in [Attachers -> Runtime] /\ en \in [Enders -> Ender]
  /\ sweep \in [pc : {"never", "next", "resume", "finish", "done"}, left : SUBSET Sessions,
                cur : Sessions, recent : SUBSET Sessions]

Running(c) == rt[c].phase \in {"building", "open"}

(* The limits hold of the rooms that are open or opening, not just of the   *)
(* map: N attaches that arrive together do not all pass (registry.ts, lines *)
(* 227 to 254).                                                             *)
LimitsHold ==
  /\ Cardinality({c \in Attachers : Running(c)}) <= MaxWatchedShows
  /\ Cardinality({c \in Attachers : Running(c) /\ at[c].room \in Scraped}) <= MaxScrapedRooms

(* An open room can be found and ended: its runtime is in the map, and no   *)
(* other runtime watches the same session.                                  *)
EveryRoomIsReachable == \A c \in Attachers :
  Running(c) => /\ runtimes[at[c].id] = c \/ attaching[at[c].id] = c
                /\ \A x \in Attachers : Running(x) /\ at[x].id = at[c].id => x = c

(* A session somebody is watching says so, until its end has begun.  (After *)
(* a crash the sweep may end a session that a request is reopening.)        *)
WatchedIsLive == \A s \in Watched :
  (/\ sweep.pc = "never"
   /\ \A d \in Enders : ~(en[d].pc = "remove" /\ en[d].id = s)) => rows[s].status = "live"

(* No row that a crash left on air stays on air with nobody watching, once  *)
(* the sweep is through: unless it was too recent to touch, or an attach of *)
(* it is about to be counted or has been refused (resume.ts, lines 3 to 17).*)
Asked(s) == \E c \in Attachers : at[c].id = s /\ at[c].pc \in {"claim", "refused"}

StrandedIsReconciled == sweep.pc = "done" => \A s \in Live :
  s \in Watched \cup Starting \cup sweep.recent \/ Asked(s)

(* Every attach that was taken in is given a runtime or refused, the ones   *)
(* that joined another's included, whatever becomes of that one.            *)
AttachEnds == \A c \in Attachers :
  at[c].pc \notin {"idle", "given", "refused", "lost"} ~> at[c].pc \in {"given", "refused", "lost"}
=============================================================================
