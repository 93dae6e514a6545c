------------------------------ MODULE Following ------------------------------
(***************************************************************************)
(* The sellers an account follows, matched against the grid of live shows  *)
(* whenever that answers (sellers/following.ts).  A read of the grid takes *)
(* a browser and the better part of a minute: it is shared, started by the *)
(* poller or by "check now", may be refused, and may answer "signed out".  *)
(* What a check saw is recorded without waiting, in any order.             *)
(***************************************************************************)
EXTENDS Integers, FiniteSets

CONSTANTS
  Handles,
  TTL,       \* GRID_TTL_MS
  MaxTime, MaxChecks, MaxRefusals  \* bounds

(* There is a time to begin at, and the bounds are numbers. *)
FollowingAssumption == MaxTime \in Nat \ {0} /\ MaxChecks \in Nat

VARIABLES
  now,
  onAir,     \* who is on air
  grid, gridAt, lastEmptyReason,
  reading,   \* inFlight: how many checks wait for it, -1 where there is none
  rows,      \* followed_sellers: when each was last looked for, and last seen
  writes,    \* the records of checks that have not landed
  checks, refusals,
  seen       \* history: who was on air in a read that answered, and when

vars == <<now, onAir, grid, gridAt, lastEmptyReason, reading, rows, writes, checks, refusals, seen>>

Never == 0
NotFollowed == [followed |-> FALSE, checked |-> Never, live |-> Never]

Init ==
  /\ now = 1 /\ onAir = {} /\ grid = {} /\ gridAt = Never /\ lastEmptyReason = "none" /\ reading = -1
  /\ rows = [h \in Handles |-> NotFollowed] /\ writes = {} /\ checks = 0 /\ refusals = 0 /\ seen = {}

Tick ==
  /\ now < MaxTime /\ now' = now + 1
  /\ UNCHANGED <<onAir, grid, gridAt, lastEmptyReason, reading, rows, writes, checks, refusals, seen>>

Air(h) ==
  /\ onAir' = IF h \in onAir THEN onAir \ {h} ELSE onAir \cup {h}
  /\ UNCHANGED <<now, grid, gridAt, lastEmptyReason, reading, rows, writes, checks, refusals, seen>>

-------------------------------- (* the grid *) -----------------------------
fresh == gridAt # Never /\ now - gridAt < TTL

(* list: a row's check is written with the time of the grid it was matched  *)
(* against, and with the show it was in, if it was in one.                  *)
Matched(shows, at) == {[handle |-> h, at |-> at, live |-> h \in shows] : h \in {x \in Handles : rows[x].followed}}

Record(n, shows, at) == writes' = IF n > 0 /\ at # Never THEN writes \cup Matched(shows, at) ELSE writes

(* The poller, whether anybody waits or not; "check now" waits for the read *)
(* there is, or starts one.                                                 *)
Poll ==
  /\ reading = -1 /\ reading' = 0
  /\ UNCHANGED <<now, onAir, grid, gridAt, lastEmptyReason, rows, writes, checks, refusals, seen>>

CheckNow ==
  /\ checks < MaxChecks /\ checks' = checks + 1
  /\ reading' = IF reading = -1 THEN 1 ELSE reading + 1
  /\ UNCHANGED <<now, onAir, grid, gridAt, lastEmptyReason, rows, writes, refusals, seen>>

(* A page load matches against the grid there is, if it is fresh. *)
Load ==
  /\ checks < MaxChecks /\ checks' = checks + 1 /\ fresh
  /\ Record(1, grid, gridAt)
  /\ UNCHANGED <<now, onAir, grid, gridAt, lastEmptyReason, reading, rows, refusals, seen>>

ReadAnswers ==
  /\ reading >= 0 /\ reading' = -1
  /\ grid' = onAir /\ gridAt' = now /\ lastEmptyReason' = "none"
  /\ seen' = seen \cup {<<now, onAir>>}
  /\ Record(reading, onAir, now)
  /\ UNCHANGED <<now, onAir, rows, checks, refusals>>

(* A refusal is not a result: those who wait get the last grid, and when it *)
(* was read.                                                                *)
ReadRefused_counts ==  \* mutant: a refusal moves the timestamp
  /\ reading >= 0 /\ reading' = -1 /\ refusals < MaxRefusals /\ refusals' = refusals + 1
  /\ gridAt' = now /\ lastEmptyReason' = "none"
  /\ Record(reading, grid, now)
  /\ UNCHANGED <<now, onAir, grid, rows, checks, seen>>

ReadRefused ==
  /\ reading >= 0 /\ reading' = -1 /\ refusals < MaxRefusals /\ refusals' = refusals + 1
  /\ \E reason \in {"signed-out", "blocked", lastEmptyReason} : lastEmptyReason' = reason
  /\ Record(reading, grid, gridAt)
  /\ UNCHANGED <<now, onAir, grid, gridAt, rows, checks, seen>>

(* rememberGrid: the Discover tab's own read is kept, unless it is empty. *)
Remember ==
  /\ onAir # {} /\ grid' = onAir /\ gridAt' = now /\ lastEmptyReason' = "none"
  /\ seen' = seen \cup {<<now, onAir>>}
  /\ UNCHANGED <<now, onAir, reading, rows, writes, checks, refusals>>

------------------------------- (* the follows *) ---------------------------
Land(w) ==
  /\ w \in writes /\ writes' = writes \ {w}
  /\ rows' = IF ~rows[w.handle].followed THEN rows
             ELSE [rows EXCEPT ![w.handle].checked = w.at, ![w.handle].live = IF w.live THEN w.at ELSE @]
  /\ UNCHANGED <<now, onAir, grid, gridAt, lastEmptyReason, reading, checks, refusals, seen>>

Follow(h) ==
  /\ rows' = [rows EXCEPT ![h] = IF rows[h].followed THEN NotFollowed ELSE [NotFollowed EXCEPT !.followed = TRUE]]
  /\ UNCHANGED <<now, onAir, grid, gridAt, lastEmptyReason, reading, writes, checks, refusals, seen>>

-----------------------------------------------------------------------------
Next ==
  \/ Tick \/ Poll \/ CheckNow \/ Load \/ ReadAnswers \/ ReadRefused \/ Remember
  \/ \E h \in Handles : Air(h) \/ Follow(h)
  \/ \E w \in writes : Land(w)

Spec == Init /\ [][Next]_vars

-----------------------------------------------------------------------------
(* cachedDiscovery, where there is a session: what the tab is told. *)
Told ==
  IF lastEmptyReason = "signed-out" THEN "signed-out"
  ELSE IF gridAt = Never /\ lastEmptyReason = "none" THEN "pending"
  ELSE IF fresh THEN "ok" ELSE IF grid # {} THEN "stale" ELSE "blocked"

TypeOK ==
  /\ now \in 1..MaxTime /\ onAir \subseteq Handles /\ grid \subseteq Handles /\ gridAt \in 0..MaxTime
  /\ lastEmptyReason \in {"none", "signed-out", "blocked"} /\ reading \in -1..MaxChecks
  /\ rows \in [Handles -> [followed : BOOLEAN, checked : 0..MaxTime, live : 0..MaxTime]]

(* "We looked and they were not there" is only said of a look (following.ts,*)
(* lines 6 to 13): a seller's last check is the time of a read that         *)
(* answered, and one that was seen live was on air in it; and the tab is    *)
(* told that the grid is current only if one answered within its time.      *)
ChecksWereMade ==
  /\ \A h \in Handles :
       /\ rows[h].checked # Never => \E S \in SUBSET Handles : <<rows[h].checked, S>> \in seen
       /\ rows[h].live # Never => \E S \in SUBSET Handles : h \in S /\ <<rows[h].live, S>> \in seen
  /\ Told = "ok" => \E t \in 1..now, S \in SUBSET Handles : now - t < TTL /\ <<t, S>> \in seen
=============================================================================
