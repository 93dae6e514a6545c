--------------------------- MODULE ActionExecutor ---------------------------
(***************************************************************************)
(* Proposing, approving, committing, rejecting and rolling back a listing  *)
(* action (actions/executor.ts), over the mock marketplace                 *)
(* (actions/marketplace/mock.ts) and the show's Postgres rows.             *)
(*                                                                         *)
(* Each HTTP request, or L4 auto-commit, calls straight into the executor: *)
(* there is no lock, so requests interleave at every await.  A request is  *)
(* a process r with a program counter, and one action here is the code     *)
(* between two awaits.  After a listing write a request also leaves a      *)
(* background refresh behind (shows/runtime.ts `refreshIndex`), which      *)
(* re-seeds the marketplace mirror from the local rows it read.            *)
(*                                                                         *)
(* An action row is identified by its idempotency key, which is unique per *)
(* show: the intent and the listing version it was planned against.        *)
(***************************************************************************)
EXTENDS Catalog, FiniteSets

CONSTANTS
  Requests,        \* concurrent requests
  Operations,      \* subset of {"propose", "approve", "reject", "rollback"}
  Faults,          \* subset of {"db", "apply", "tx", "compensate", "audit", "crash"}
  ActionBudget,    \* policy().automation.actionBudget
  RatePerMinute,   \* ACTION_RATE_PER_MIN
  ReadOnlyShow,    \* a monitored show nobody here sells in
  InitialCatalog,
  MaxVersion,      \* bound: no proposal against a later listing version
  MaxRequests      \* bound: requests started in a behaviour

ASSUME ExecutorAssumption ==
  /\ ActionBudget \in Nat /\ RatePerMinute \in Nat
  /\ ReadOnlyShow \in BOOLEAN
  /\ InitialCatalog \in [Listings -> Row]
  /\ MaxVersion \in Nat \ {0} /\ MaxRequests \in Nat
  /\ Intents # {}

VARIABLES
  catalog,       \* the local listings rows
  remote,        \* MockMarketplace.remote
  reservations,  \* MockMarketplace.reservations, by idempotency key
  actions,       \* the actions table
  ledger,        \* action_commits: the committed keys
  undone,        \* action_commits: the keys with a ":rollback" row
  pc, cur,       \* each request's position, and the action it is about
  snap,          \* a proposing request's listing, as it was read
  refresh,       \* each request's background refresh: none, pending, loaded
  loaded,        \* the rows a loaded refresh has read
  audited,       \* the audit entries written, <<kind, key>>
  outOfStep,     \* a remote write is known not to have been undone
  started        \* requests started so far

stores   == <<catalog, remote, reservations>>
rows     == <<actions, ledger, undone>>
requests == <<pc, cur, snap>>
mirror   == <<refresh, loaded>>
vars == <<stores, rows, requests, mirror, audited, outOfStep, started>>

-----------------------------------------------------------------------------
Keys == [intent : Intents, version : 1 .. MaxVersion]

Statuses == {"absent", "proposed", "preflight_failed", "committing",
             "committed", "failed", "rolled_back", "rejected"}

(* undo: undoable_until is null, in the future, or in the past. *)
ActionRow == [status : Statuses, before : Row, undo : {"null", "open", "closed"}, ok : BOOLEAN]

AuditKind ==
  [auditProposed   |-> "action_proposed",  auditRefused    |-> "action_preflight_failed",
   auditCommitted  |-> "action_committed", auditRolledBack |-> "action_rolled_back",
   auditFailed     |-> "action_failed"]

PCs == {"idle", "preflight", "idempotency", "markPrior", "markCommitting", "reserve",
        "apply", "record", "compensate", "confirm", "markCommitted",
        "undoRemote", "undoLocal", "markRolledBack", "fail"} \cup DOMAIN AuditKind

NoKey == CHOOSE k \in Keys : TRUE

(* Positions whose next step is a single statement that can throw to the   *)
(* route handler, the request then being over.                             *)
DbSteps == {"preflight", "idempotency", "markPrior", "markCommitting",
            "markCommitted", "markRolledBack", "fail"}

Init ==
  /\ catalog = InitialCatalog /\ remote = InitialCatalog
  /\ reservations = {}
  /\ actions = [k \in Keys |->
       [status |-> "absent", before |-> InitialCatalog[k.intent.listing],
        undo |-> "null", ok |-> FALSE]]
  /\ ledger = {} /\ undone = {}
  /\ pc = [r \in Requests |-> "idle"]
  /\ cur = [r \in Requests |-> NoKey]
  /\ snap = [r \in Requests |-> InitialCatalog[NoKey.intent.listing]]
  /\ refresh = [r \in Requests |-> "none"]
  /\ loaded = [r \in Requests |-> InitialCatalog]
  /\ audited = {} /\ outOfStep = FALSE /\ started = 0

-----------------------------------------------------------------------------
Goto(r, p) == pc' = [pc EXCEPT ![r] = p]

Patch(k, s) == actions' = [actions EXCEPT ![k].status = s]

(* A request arrives; it takes up action k and goes to p. *)
Start(r, op, k, p) ==
  /\ op \in Operations /\ started < MaxRequests
  /\ pc[r] = "idle" /\ refresh[r] = "none"
  /\ started' = started + 1
  /\ cur' = [cur EXCEPT ![r] = k]
  /\ Goto(r, p)

----------------------------- (* propose *) ---------------------------------
(* propose, first read: the listing, and with it version and snapshot. *)
Propose(r, i) ==
  /\ catalog[i.listing].version \in 1 .. MaxVersion
  /\ Start(r, "propose", [intent |-> i, version |-> catalog[i.listing].version], "preflight")
  /\ snap' = [snap EXCEPT ![r] = catalog[i.listing]]
  /\ UNCHANGED <<stores, rows, mirror, audited, outOfStep>>

committedThisShow ==
  Cardinality({k \in Keys : actions[k].status \in {"committed", "rolled_back"}})

(* preflight() and its counts.  How many of the ledger's rows are younger   *)
(* than a minute is not tracked: any number of them may be.                 *)
preflightOk(i, row, lastMinute) ==
  /\ ~ReadOnlyShow
  /\ committedThisShow < ActionBudget
  /\ lastMinute < RatePerMinute
  /\ perKindChecks(i, row)

(* propose, the rest: a row with this key is returned as it is, otherwise   *)
(* one is inserted with the snapshot that rollback will restore.  (Two      *)
(* inserts of one key that race end alike: the later one fails on the       *)
(* unique index, and the row is the earlier one's.)                         *)
InsertProposal(r) ==
  LET k == cur[r] IN
  /\ pc[r] = "preflight"
  /\ IF actions[k].status # "absent"
     THEN Goto(r, "idle") /\ UNCHANGED actions
     ELSE \E lastMinute \in 0 .. Cardinality(ledger) + Cardinality(undone) :
            LET ok == preflightOk(k.intent, snap[r], lastMinute) IN
            /\ actions' = [actions EXCEPT ![k] =
                 [status |-> IF ok THEN "proposed" ELSE "preflight_failed",
                  before |-> snap[r], undo |-> "null", ok |-> ok]]
            /\ Goto(r, IF ok THEN "auditProposed" ELSE "auditRefused")
  /\ UNCHANGED <<stores, ledger, undone, cur, snap, mirror, audited, outOfStep, started>>

----------------------------- (* approve *) ---------------------------------
Approve(r, k) ==
  /\ actions[k].status # "absent"
  /\ Start(r, "approve", k,
       IF actions[k].status = "committed" THEN "idle"
       ELSE IF ~actions[k].ok THEN "fail" ELSE "idempotency")
  /\ UNCHANGED <<stores, rows, snap, mirror, audited, outOfStep>>

(* 1. Has this exact intent already been committed?  Ask the ledger. *)
Idempotency(r) ==
  /\ pc[r] = "idempotency"
  /\ Goto(r, IF cur[r] \in ledger THEN "markPrior" ELSE "markCommitting")
  /\ UNCHANGED <<stores, rows, cur, snap, mirror, audited, outOfStep, started>>

MarkPrior(r) ==
  /\ pc[r] = "markPrior"
  /\ Patch(cur[r], "committed")
  /\ Goto(r, "idle")
  /\ UNCHANGED <<stores, ledger, undone, cur, snap, mirror, audited, outOfStep, started>>

MarkCommitting_approved(r) ==  \* mutant: a status no reader knows
  /\ pc[r] = "markCommitting"
  /\ Patch(cur[r], "approved")
  /\ Goto(r, "reserve")
  /\ UNCHANGED <<stores, ledger, undone, cur, snap, mirror, audited, outOfStep, started>>

MarkCommitting(r) ==
  /\ pc[r] = "markCommitting"
  /\ Patch(cur[r], "committing")
  /\ Goto(r, "reserve")
  /\ UNCHANGED <<stores, ledger, undone, cur, snap, mirror, audited, outOfStep, started>>

Reserve_anyVersion(r) ==  \* mutant: the lock does not compare versions
  /\ pc[r] = "reserve"
  /\ Goto(r, "apply") /\ reservations' = reservations \cup {cur[r]}
  /\ UNCHANGED <<catalog, remote, rows, cur, snap, mirror, audited, outOfStep, started>>

Reserve_conflictReturns(r) ==  \* mutant: a conflict is returned, not recorded
  LET k == cur[r] IN
  /\ pc[r] = "reserve"
  /\ IF remote[k.intent.listing].version = k.version
     THEN Goto(r, "apply") /\ reservations' = reservations \cup {k}
     ELSE Goto(r, "idle") /\ UNCHANGED reservations
  /\ UNCHANGED <<catalog, remote, rows, cur, snap, mirror, audited, outOfStep, started>>

(* 2. The optimistic lock: the remote version must be the planned one. *)
Reserve(r) ==
  LET k == cur[r] IN
  /\ pc[r] = "reserve"
  /\ IF remote[k.intent.listing].version = k.version
     THEN Goto(r, "apply") /\ reservations' = reservations \cup {k}
     ELSE Goto(r, "fail") /\ UNCHANGED reservations
  /\ UNCHANGED <<catalog, remote, rows, cur, snap, mirror, audited, outOfStep, started>>

ApplyRemote_noCancel(r) ==  \* mutant: a failed apply keeps its reservation
  LET k == cur[r] IN
  /\ pc[r] = "apply"
  /\ \/ /\ k \in reservations
        /\ remote' = applyRemote(remote, k.intent)
        /\ Goto(r, "record")
     \/ /\ k \notin reservations \/ "apply" \in Faults
        /\ Goto(r, "fail")
        /\ UNCHANGED remote
  /\ UNCHANGED <<catalog, reservations, rows, cur, snap, mirror, audited, outOfStep, started>>

(* 3. The remote write.  It throws when the reservation is not held, or     *)
(* when the marketplace says so; the reservation is then cancelled.         *)
ApplyRemote(r) ==
  LET k == cur[r] IN
  /\ pc[r] = "apply"
  /\ \/ /\ k \in reservations
        /\ remote' = applyRemote(remote, k.intent)
        /\ Goto(r, "record")
        /\ UNCHANGED reservations
     \/ /\ k \notin reservations \/ "apply" \in Faults
        /\ reservations' = reservations \ {k}
        /\ Goto(r, "fail")
        /\ UNCHANGED remote
  /\ UNCHANGED <<catalog, rows, cur, snap, mirror, audited, outOfStep, started>>

RecordWith(r, duplicate, onError) ==
  LET k == cur[r] IN
  /\ pc[r] = "record"
  /\ \/ /\ duplicate \/ k \notin ledger
        /\ catalog' = applyLocal(catalog, k.intent)
        /\ ledger' = ledger \cup {k}
        /\ Goto(r, "confirm")
     \/ /\ k \in ledger \/ "tx" \in Faults
        /\ Goto(r, onError)
        /\ UNCHANGED <<catalog, ledger>>
  /\ UNCHANGED <<remote, reservations, actions, undone, cur, snap, mirror, audited, outOfStep, started>>

Record_noKey(r)        == RecordWith(r, TRUE, "compensate")  \* mutant: ON CONFLICT DO NOTHING
Record_swallows(r)     == RecordWith(r, FALSE, "confirm")    \* mutant: the error is swallowed
Record_compensates_not(r) == RecordWith(r, FALSE, "fail")    \* mutant: no compensation

(* 4. One transaction: the local rows and the ledger row, whose key is      *)
(* unique.  A duplicate key, or a lost database, throws and undoes both.    *)
Record(r) ==
  LET k == cur[r] IN
  /\ pc[r] = "record"
  /\ \/ /\ k \notin ledger
        /\ catalog' = applyLocal(catalog, k.intent)
        /\ ledger' = ledger \cup {k}
        /\ Goto(r, "confirm")
     \/ /\ k \in ledger \/ "tx" \in Faults
        /\ Goto(r, "compensate")
        /\ UNCHANGED <<catalog, ledger>>
  /\ UNCHANGED <<remote, reservations, actions, undone, cur, snap, mirror, audited, outOfStep, started>>

(* ... and the remote write is taken back, from the preflight snapshot. *)
Compensate(r) ==
  LET k == cur[r] IN
  /\ pc[r] = "compensate"
  /\ \/ /\ remote' = restore(remote, k.intent.listing, actions[k].before)
        /\ reservations' = reservations \ {k}
        /\ UNCHANGED outOfStep
     \/ /\ "compensate" \in Faults
        /\ outOfStep' = TRUE
        /\ UNCHANGED <<remote, reservations>>
  /\ Goto(r, "fail")
  /\ UNCHANGED <<catalog, rows, cur, snap, mirror, audited, started>>

(* 5. The reservation is released and the refresh set off. *)
Confirm(r) ==
  /\ pc[r] = "confirm"
  /\ reservations' = reservations \ {cur[r]}
  /\ refresh' = [refresh EXCEPT ![r] = "pending"]
  /\ Goto(r, "markCommitted")
  /\ UNCHANGED <<catalog, remote, rows, cur, snap, loaded, audited, outOfStep, started>>

MarkCommitted(r) ==
  /\ pc[r] = "markCommitted"
  /\ actions' = [actions EXCEPT ![cur[r]].status = "committed", ![cur[r]].undo = "open"]
  /\ Goto(r, "auditCommitted")
  /\ UNCHANGED <<stores, ledger, undone, cur, snap, mirror, audited, outOfStep, started>>

----------------------- (* reject and roll back *) --------------------------
(* reject patches whatever row it is given. *)
Reject(r, k) ==
  /\ actions[k].status # "absent"
  /\ Start(r, "reject", k, "auditProposed")
  /\ Patch(k, "rejected")
  /\ UNCHANGED <<stores, ledger, undone, snap, mirror, audited, outOfStep>>

Rollback(r, k) ==
  /\ actions[k].status # "absent"
  /\ Start(r, "rollback", k,
       IF actions[k].status # "committed" \/ actions[k].undo = "closed"
       THEN "fail" ELSE "undoRemote")
  /\ UNCHANGED <<stores, rows, snap, mirror, audited, outOfStep>>

UndoRemote(r) ==
  LET k == cur[r] IN
  /\ pc[r] = "undoRemote"
  /\ \/ /\ remote' = restore(remote, k.intent.listing, actions[k].before)
        /\ Goto(r, "undoLocal")
     \/ /\ "compensate" \in Faults
        /\ Goto(r, "fail")
        /\ UNCHANGED remote
  /\ UNCHANGED <<catalog, reservations, rows, cur, snap, mirror, audited, outOfStep, started>>

UndoLocal_swallows(r) ==  \* mutant: the transaction's error is swallowed
  LET k == cur[r] IN
  /\ pc[r] = "undoLocal"
  /\ \/ /\ catalog' = restore(catalog, k.intent.listing, actions[k].before)
        /\ undone' = undone \cup {k}
     \/ /\ "tx" \in Faults
        /\ UNCHANGED <<catalog, undone>>
  /\ refresh' = [refresh EXCEPT ![r] = "pending"]
  /\ Goto(r, "markRolledBack")
  /\ UNCHANGED <<remote, reservations, actions, ledger, cur, snap, loaded, audited, outOfStep, started>>

(* The restoring transaction; its ledger row is an upsert.  Should it throw, *)
(* so does rollback, the marketplace being restored already.                 *)
UndoLocal(r) ==
  LET k == cur[r] IN
  /\ pc[r] = "undoLocal"
  /\ \/ /\ catalog' = restore(catalog, k.intent.listing, actions[k].before)
        /\ undone' = undone \cup {k}
        /\ refresh' = [refresh EXCEPT ![r] = "pending"]
        /\ Goto(r, "markRolledBack")
        /\ UNCHANGED outOfStep
     \/ /\ "tx" \in Faults
        /\ outOfStep' = TRUE
        /\ Goto(r, "idle")
        /\ UNCHANGED <<catalog, undone, refresh>>
  /\ UNCHANGED <<remote, reservations, actions, ledger, cur, snap, loaded, audited, started>>

MarkRolledBack(r) ==
  /\ pc[r] = "markRolledBack"
  /\ actions' = [actions EXCEPT ![cur[r]].status = "rolled_back", ![cur[r]].undo = "null"]
  /\ Goto(r, "auditRolledBack")
  /\ UNCHANGED <<stores, ledger, undone, cur, snap, mirror, audited, outOfStep, started>>

-------------------------- (* shared endings *) -----------------------------
(* fail(): the row says failed, whatever it said before. *)
MarkFailed(r) ==
  /\ pc[r] = "fail"
  /\ Patch(cur[r], "failed")
  /\ Goto(r, "auditFailed")
  /\ UNCHANGED <<stores, ledger, undone, cur, snap, mirror, audited, outOfStep, started>>

(* The audit entry a request ends with; AuditChain has its inside. *)
Audit(r) ==
  /\ pc[r] \in DOMAIN AuditKind
  /\ \/ audited' = audited \cup {<<AuditKind[pc[r]], cur[r]>>}
     \/ "audit" \in Faults /\ UNCHANGED audited
  /\ Goto(r, "idle")
  /\ UNCHANGED <<stores, rows, cur, snap, mirror, outOfStep, started>>

(* A statement throws to the route: the request is over where it stands. *)
DbError(r) ==
  /\ "db" \in Faults /\ pc[r] \in DbSteps
  /\ Goto(r, "idle")
  /\ UNCHANGED <<stores, rows, cur, snap, mirror, audited, outOfStep, started>>

------------------- (* the refresh, the clock, a crash *) -------------------
(* refreshIndex: read the rows ... *)
LoadRows(r) ==
  /\ refresh[r] = "pending"
  /\ refresh' = [refresh EXCEPT ![r] = "loaded"]
  /\ loaded' = [loaded EXCEPT ![r] = catalog]
  /\ UNCHANGED <<stores, rows, requests, audited, outOfStep, started>>

(* ... and, when the answer arrives, MockMarketplace.reset with it. *)
ResetMirror(r) ==
  /\ refresh[r] = "loaded"
  /\ remote' = loaded[r]
  /\ refresh' = [refresh EXCEPT ![r] = "none"]
  /\ loaded' = [loaded EXCEPT ![r] = InitialCatalog]
  /\ outOfStep' = FALSE
  /\ UNCHANGED <<catalog, reservations, rows, requests, audited, started>>

(* An undo window closes. *)
CloseWindow(k) ==
  /\ actions[k].undo = "open"
  /\ actions' = [actions EXCEPT ![k].undo = "closed"]
  /\ UNCHANGED <<stores, ledger, undone, requests, mirror, audited, outOfStep, started>>

(* The process dies and boots again: Postgres is all that is left, and the *)
(* mirror is seeded from it before the first request.                      *)
Crash ==
  /\ "crash" \in Faults
  /\ \E r \in Requests : pc[r] # "idle" \/ refresh[r] # "none"
  /\ pc' = [r \in Requests |-> "idle"]
  /\ refresh' = [r \in Requests |-> "none"]
  /\ loaded' = [r \in Requests |-> InitialCatalog]
  /\ reservations' = {} /\ remote' = catalog /\ outOfStep' = FALSE
  /\ UNCHANGED <<catalog, rows, cur, snap, audited, started>>

-----------------------------------------------------------------------------
Arrive(r) ==
  \/ \E i \in Intents : Propose(r, i)
  \/ \E k \in Keys : Approve(r, k) \/ Reject(r, k) \/ Rollback(r, k)

Continue(r) ==
  \/ InsertProposal(r)
  \/ Idempotency(r) \/ MarkPrior(r) \/ MarkCommitting(r)
  \/ Reserve(r) \/ ApplyRemote(r) \/ Record(r) \/ Compensate(r)
  \/ Confirm(r) \/ MarkCommitted(r)
  \/ UndoRemote(r) \/ UndoLocal(r) \/ MarkRolledBack(r)
  \/ MarkFailed(r) \/ Audit(r)

Refresh(r) == LoadRows(r) \/ ResetMirror(r)

Next ==
  \/ \E r \in Requests : Arrive(r) \/ Continue(r) \/ DbError(r) \/ Refresh(r)
  \/ \E k \in Keys : CloseWindow(k)
  \/ Crash

Spec == Init /\ [][Next]_vars

(* Node's event loop resumes every continuation whose await has settled.   *)
(* Nothing obliges a seller to click.                                      *)
Fairness == \A r \in Requests : WF_vars(Continue(r)) /\ WF_vars(Refresh(r))

FairSpec == Spec /\ Fairness

-----------------------------------------------------------------------------
TypeOK ==
  /\ catalog \in [Listings -> Row] /\ remote \in [Listings -> Row]
  /\ reservations \subseteq Keys /\ ledger \subseteq Keys /\ undone \subseteq Keys
  /\ actions \in [Keys -> ActionRow]
  /\ pc \in [Requests -> PCs] /\ cur \in [Requests -> Keys]
  /\ snap \in [Requests -> Row]
  /\ refresh \in [Requests -> {"none", "pending", "loaded"}]
  /\ loaded \in [Requests -> [Listings -> Row]]
  /\ outOfStep \in BOOLEAN /\ started \in Nat

(* An action that reads "committed" has its ledger row, and one that reads  *)
(* "rolled_back" has its reversal's: statuses are patched outside the       *)
(* transaction, by requests that race each other, and still never claim a   *)
(* write that did not happen.                                               *)
StatusIsBacked == \A k \in Keys :
  /\ actions[k].status = "committed" => k \in ledger
  /\ actions[k].status = "rolled_back" => k \in undone

(* The audit log does not claim one either.                                 *)
AuditIsBacked == \A k \in Keys :
  /\ <<"action_committed", k>> \in audited => k \in ledger
  /\ <<"action_rolled_back", k>> \in audited => k \in undone

(* A reservation outlives no request: when nothing is in flight the         *)
(* marketplace holds none, unless a compensation failed.                    *)
ReservationsReleased ==
  (\A r \in Requests : pc[r] = "idle") /\ "compensate" \notin Faults => reservations = {}

(* The promise of executor.ts, lines 3 to 22: when everything that was      *)
(* started has ended, the listing the seller sees is the listing the        *)
(* marketplace has, unless an undo of a remote write is known to have       *)
(* failed.                                                                  *)
Settled == \A r \in Requests : pc[r] = "idle" /\ refresh[r] = "none"

SidesAgree == Settled /\ ~outOfStep => Agree(catalog, remote)

(* A write lands on the listing version it was planned, checked and shown   *)
(* to the seller against.                                                   *)
LandsOnPlannedVersion ==
  [][\A k \in Keys : k \in ledger' \ ledger =>
       catalog[k.intent.listing].version = k.version]_<<catalog, ledger>>

(* An approval under way ends one way or the other: no action is left       *)
(* "committing" while the process lives.                                    *)
CommittingEnds == \A k \in Keys :
  actions[k].status = "committing" ~> actions[k].status # "committing"

(* The abstract specification this one implements: requests, statuses, the  *)
(* marketplace and its mirror, and the audit log are hidden from it.        *)
Promise == INSTANCE CommitLedger WITH
  Keys <- Keys, InitialCatalog <- InitialCatalog,
  catalog <- catalog, ledger <- ledger, undone <- undone

ImplementsCommitLedger == Promise!Spec

=============================================================================
