----------------------------- MODULE SharedBrowser -----------------------------
(***************************************************************************)
(* The one Chromium that every watched eBay Live show has its page on      *)
(* (ingest/ebaylive/watcher.ts): launched by the first that needs it,      *)
(* counted, closed by the last to let go, dropped when it dies; and the    *)
(* slot it takes of the budget of browsers (surfaces/browserBudget.ts).    *)
(*                                                                         *)
(* Chromes are numbered as they are launched.  Every await is a step:      *)
(* between a launch and its return, and between a close and the event that *)
(* says so, the other watchers go on.                                      *)
(***************************************************************************)
EXTENDS Integers, FiniteSets

CONSTANTS
  Watchers,
  MaxBrowsers,   \* the budget
  MaxLaunches,   \* bound: Chromes launched
  LaunchFails,   \* may a launch throw?
  BrowserDies,   \* may a Chrome die?
  PageDies,      \* may the renderer of a page crash?
  OneAtATime     \* does a watcher open, recover or stop only when no other does?

VARIABLES
  chrome,    \* Chrome -> "none", "running", "closing", "gone" or "failed": the launch threw
  shared,    \* the handle that is handed out
  refCount,
  lease,     \* does sharedLease hold a slot?
  slots,     \* browserBudget's count of what is open
  owed,      \* the Chromes being closed that give a slot back when they have been
  at         \* watcher -> where it is, the Chrome it waits for or has its page on, `holding`

vars == <<chrome, shared, refCount, lease, slots, owed, at>>

BrowserAssumption ==
  /\ IsFiniteSet(Watchers) /\ MaxBrowsers \in Nat /\ MaxLaunches \in Nat

Chromes == 1..MaxLaunches
NoChrome == 0

Init ==
  /\ chrome = [b \in Chromes |-> "none"] /\ shared = NoChrome
  /\ refCount = 0 /\ lease = FALSE /\ slots = 0 /\ owed = {}
  /\ at = [x \in Watchers |-> [pc |-> "off", on |-> NoChrome, holding |-> FALSE,
                             crashed |-> FALSE, stopped |-> FALSE]]

Launched == Cardinality({b \in Chromes : chrome[b] # "none"})

Alone(x) == OneAtATime =>
  /\ \A y \in Watchers \ {x} : at[y].pc \in {"off", "watching", "refused"}
  /\ \A b \in Chromes : chrome[b] # "closing"

Goes(x, pc, on, holding) ==
  at' = [at EXCEPT ![x] = [pc |-> pc, on |-> on, holding |-> holding, crashed |-> at[x].crashed, stopped |-> at[x].stopped]]

-------------------------- (* acquire and release *) ------------------------
(* No handle: a slot is taken before the launch, or the attach is refused.  *)
(* Nothing marks that a launch is on its way.                               *)
Acquire(x) ==
  /\ at[x].pc \in {"off", "reopen"} /\ (at[x].pc = "off" => ~at[x].stopped) /\ Alone(x)
  /\ \/ /\ shared # NoChrome
        /\ refCount' = refCount + 1
        /\ Goes(x, "opening", shared, TRUE)
        /\ UNCHANGED <<chrome, lease, slots, owed>>
     \/ /\ shared = NoChrome /\ slots >= MaxBrowsers
        /\ Goes(x, IF at[x].pc = "off" THEN "refused" ELSE "watching", NoChrome, at[x].holding)
        /\ UNCHANGED <<chrome, refCount, lease, slots>>
     \/ /\ shared = NoChrome /\ slots < MaxBrowsers /\ Launched < MaxLaunches
        /\ slots' = slots + 1 /\ lease' = TRUE
        /\ chrome' = [chrome EXCEPT ![Launched + 1] = "running"]
        /\ Goes(x, IF at[x].pc = "off" THEN "launching" ELSE "relaunching", Launched + 1, at[x].holding)
        /\ UNCHANGED refCount
  /\ UNCHANGED <<shared, owed>>

Launching == {"launching", "relaunching"}

LaunchReturns(x) ==
  /\ at[x].pc \in Launching
  /\ shared' = at[x].on /\ refCount' = refCount + 1
  /\ Goes(x, "opening", at[x].on, TRUE)
  /\ UNCHANGED <<chrome, lease, slots, owed>>

(* The slot that was taken for it is not given back.  An attach is refused; *)
(* a recovery is tried again by the next poll.                              *)
LaunchThrows(x) ==
  /\ LaunchFails /\ at[x].pc \in Launching
  /\ chrome' = [chrome EXCEPT ![at[x].on] = "failed"]
  /\ Goes(x, IF at[x].pc = "launching" THEN "refused" ELSE "watching", NoChrome, at[x].holding)
  /\ UNCHANGED <<shared, refCount, lease, slots, owed>>

(* releasePage: once per watcher.  The last one to let go of it closes the  *)
(* Chrome, and its slot is given back when that has been done.              *)
Release(x, pc) ==
  /\ at' = [at EXCEPT ![x] = [pc |-> pc, on |-> NoChrome, holding |-> FALSE, crashed |-> FALSE, stopped |-> at[x].stopped]]
  /\ IF ~at[x].holding THEN UNCHANGED <<chrome, shared, refCount, lease, slots, owed>>
     ELSE /\ refCount' = IF refCount > 0 THEN refCount - 1 ELSE 0
          /\ IF refCount <= 1 /\ shared # NoChrome
               THEN /\ chrome' = [chrome EXCEPT ![shared] = IF @ = "running" THEN "closing" ELSE @]
                    /\ shared' = NoChrome /\ lease' = FALSE
                    /\ owed' = IF lease THEN owed \cup {shared} ELSE owed
               ELSE UNCHANGED <<chrome, shared, lease, owed>>
          /\ UNCHANGED slots

(* "disconnected", of whichever Chrome it is: the handle is dropped, and    *)
(* its slot with it.  A close that was asked for has been done.             *)
Disconnected(b) ==
  /\ chrome[b] = "closing" \/ (BrowserDies /\ chrome[b] = "running" /\ \E x \in Watchers : at[x].on = b /\ at[x].pc \notin Launching)
  /\ chrome' = [chrome EXCEPT ![b] = "gone"]
  /\ shared' = NoChrome /\ refCount' = 0 /\ lease' = FALSE
  /\ slots' = slots - (IF lease THEN 1 ELSE 0) - (IF b \in owed THEN 1 ELSE 0)
  /\ owed' = owed \ {b}
  /\ UNCHANGED at

----------------------------- (* the watchers *) ----------------------------
Opened(x) ==
  /\ at[x].pc = "opening" /\ chrome[at[x].on] = "running"
  /\ at' = [at EXCEPT ![x].pc = "watching"]
  /\ UNCHANGED <<chrome, shared, refCount, lease, slots, owed>>

(* The Chrome died while the page was opening: start tries once more, and a *)
(* recovery leaves it to the next poll.                                     *)
OpenFails(x) ==
  /\ at[x].pc = "opening" /\ chrome[at[x].on] # "running"
  /\ at' = [at EXCEPT ![x].pc = "watching"]
  /\ UNCHANGED <<chrome, shared, refCount, lease, slots, owed>>

PageCrashes(x) ==
  /\ PageDies /\ at[x].pc = "watching" /\ at[x].on # NoChrome /\ ~at[x].crashed
  /\ at' = [at EXCEPT ![x].crashed = TRUE]
  /\ UNCHANGED <<chrome, shared, refCount, lease, slots, owed>>

(* recoverIfDead: the reference on the page that died is given back before  *)
(* a new one is taken.                                                      *)
PageIsDead(x) == at[x].crashed \/ (at[x].on # NoChrome => chrome[at[x].on] # "running")

Recover_keeps(x) ==  \* mutant: the page that died keeps its reference
  /\ at[x].pc = "watching" /\ ~at[x].stopped /\ Alone(x) /\ PageIsDead(x)
  /\ at' = [at EXCEPT ![x].pc = "reopen", ![x].crashed = FALSE]
  /\ UNCHANGED <<chrome, shared, refCount, lease, slots, owed>>

Recover(x) ==
  /\ at[x].pc = "watching" /\ ~at[x].stopped /\ Alone(x) /\ PageIsDead(x)
  /\ Release(x, "reopen")

(* The watchdog of the registry, or a detach. *)
Stop(x) ==
  /\ at[x].pc = "watching" /\ ~at[x].stopped /\ Alone(x)
  /\ at' = [at EXCEPT ![x] = [pc |-> "releasing", on |-> at[x].on, holding |-> at[x].holding,
                             crashed |-> at[x].crashed, stopped |-> TRUE]]
  /\ UNCHANGED <<chrome, shared, refCount, lease, slots, owed>>

Released(x) == at[x].pc = "releasing" /\ Release(x, "off")

-----------------------------------------------------------------------------
Step(x) ==
  \/ (at[x].pc = "reopen" /\ Acquire(x)) \/ LaunchReturns(x) \/ LaunchThrows(x)
  \/ Opened(x) \/ OpenFails(x) \/ Recover(x) \/ Released(x)

Next ==
  \/ \E x \in Watchers : Acquire(x) \/ Step(x) \/ PageCrashes(x) \/ Stop(x)
  \/ \E b \in Chromes : Disconnected(b)

Spec == Init /\ [][Next]_vars

-----------------------------------------------------------------------------
TypeOK ==
  /\ chrome \in [Chromes -> {"none", "running", "closing", "gone", "failed"}]
  /\ shared \in Chromes \cup {NoChrome} /\ refCount \in 0..Cardinality(Watchers)
  /\ lease \in BOOLEAN /\ owed \subseteq Chromes /\ slots \in 0..MaxBrowsers
  /\ at \in [Watchers -> [pc : {"off", "launching", "relaunching", "opening", "watching", "reopen", "releasing", "refused"},
       on : Chromes \cup {NoChrome}, holding : BOOLEAN, crashed : BOOLEAN, stopped : BOOLEAN]]

(* The last show to stop takes the Chrome and its slot with it: however     *)
(* often pages and browsers died and were rebuilt, nothing is left open for *)
(* shows that are over (watcher.ts, lines 222 to 236), and a slot that      *)
(* outlives them is one of a launch that threw.                             *)
LastOutCloses ==
  (\A x \in Watchers : at[x].pc \in {"off", "refused"}) =>
    /\ shared = NoChrome /\ \A b \in Chromes : chrome[b] # "running"
    /\ slots - Cardinality(owed) <= Cardinality({b \in Chromes : chrome[b] = "failed"})
=============================================================================
