------------------------ MODULE ActionExecutorProofs ------------------------
(***************************************************************************)
(* For every set of listings, intents and requests, every fault set and    *)
(* every bound: the executor's rows are well typed, no status or audit     *)
(* entry claims a write that did not happen, and every change of the       *)
(* catalog is one ledgered commit or one undo of a ledgered commit.        *)
(*                                                                         *)
(* StatusIsBacked is not inductive by itself.  A request that is about to  *)
(* patch a row "committed" must know that its key is in the ledger; the    *)
(* ledger never loses a row, so what a request knew when it read it still  *)
(* holds when it acts on it.  InFlightIsBacked says what each position     *)
(* knows.                                                                  *)
(*                                                                         *)
(* That a write lands on the version it was planned against, and that the  *)
(* two sides agree afterwards, is so for one request at a time only: the   *)
(* second half of the module says why, from versions that never go back.   *)
(*                                                                         *)
(* The last three parts are about the modules around the executor: the two *)
(* adapters whose writes it commits, an eBay account's offers and a Twitch *)
(* channel, and the rules that propose what it is asked to do.             *)
(***************************************************************************)
EXTENDS ActionExecutor, Sequences, TLAPS

LedgeredPCs == {"markPrior", "confirm", "markCommitted", "auditCommitted",
                "undoRemote", "undoLocal", "markRolledBack", "auditRolledBack"}

InFlightIsBacked == \A r \in Requests :
  /\ pc[r] \in LedgeredPCs => cur[r] \in ledger
  /\ pc[r] \in {"markRolledBack", "auditRolledBack"} => cur[r] \in undone

Inv == TypeOK /\ InFlightIsBacked /\ StatusIsBacked /\ AuditIsBacked /\ undone \subseteq ledger

-----------------------------------------------------------------------------
(* The writes of Catalog.tla return rows, and move the version by whole steps. *)
LEMMA MutationType ==
  ASSUME NEW i \in Intents, NEW row \in Row
  PROVE  mutationFor(i, row) \in Row
BY CatalogAssumption DEF mutationFor, Row, States, Kinds

LEMMA BumpType ==
  ASSUME NEW row \in Row
  PROVE  Bump(row) \in Row
BY DEF Bump, Row

LEMMA SetPinnedType ==
  ASSUME NEW cat \in [Listings -> Row], NEW id \in Listings
  PROVE  setPinned(cat, id) \in [Listings -> Row]
<1>1. ASSUME NEW l \in Listings PROVE Bump([cat[l] EXCEPT !.pinned = (l = id)]) \in Row
  <2>1. [cat[l] EXCEPT !.pinned = (l = id)] \in Row
    BY DEF Row
  <2> QED BY <2>1, BumpType
<1> QED BY <1>1 DEF setPinned

LEMMA ApplyLocalType ==
  ASSUME NEW i \in Intents, NEW cat \in [Listings -> Row]
  PROVE  applyLocal(cat, i) \in [Listings -> Row]
<1>0. i.listing \in Listings BY CatalogAssumption
<1>1. CASE i.kind = "swap_pinned"
  <2> DEFINE c == setPinned(cat, i.listing)
  <2>1. c \in [Listings -> Row] BY <1>0, SetPinnedType
  <2> HIDE DEF c
  <2>2. [c[i.listing] EXCEPT !.state = "live"] \in Row
    BY <1>0, <2>1 DEF Row, States
  <2>3. mutateListing(c, i.listing, [c[i.listing] EXCEPT !.state = "live"]) \in [Listings -> Row]
    BY <1>0, <2>1, <2>2, BumpType DEF mutateListing
  <2> QED BY <1>1, <2>3 DEF applyLocal, c
<1>2. CASE i.kind # "swap_pinned"
  <2>1. mutationFor(i, cat[i.listing]) \in Row BY <1>0, MutationType
  <2>2. mutateListing(cat, i.listing, mutationFor(i, cat[i.listing])) \in [Listings -> Row]
    BY <1>0, <2>1, BumpType DEF mutateListing
  <2> QED BY <1>2, <2>2 DEF applyLocal
<1> QED BY <1>1, <1>2

LEMMA ApplyRemoteType ==
  ASSUME NEW i \in Intents, NEW cat \in [Listings -> Row]
  PROVE  applyRemote(cat, i) \in [Listings -> Row]
<1>1. ASSUME NEW l \in Listings
      PROVE  Bump(mutationFor(i, cat[l])) \in Row /\ Bump([cat[l] EXCEPT !.pinned = FALSE]) \in Row
  <2>1. mutationFor(i, cat[l]) \in Row BY MutationType
  <2>2. [cat[l] EXCEPT !.pinned = FALSE] \in Row BY DEF Row
  <2> QED BY <2>1, <2>2, BumpType
<1> QED BY <1>1 DEF applyRemote

LEMMA RestoreType ==
  ASSUME NEW cat \in [Listings -> Row], NEW id \in Listings, NEW before \in Row
  PROVE  /\ restore(cat, id, before) \in [Listings -> Row]
         /\ \A l \in Listings \ {id} : restore(cat, id, before)[l] = cat[l]
         /\ restore(cat, id, before)[id].version = cat[id].version + 1
<1>1. cat[id].version + 1 \in Nat BY DEF Row
<1>2. [before EXCEPT !.version = cat[id].version + 1] \in Row BY <1>1 DEF Row
<1>3. [before EXCEPT !.version = cat[id].version + 1].version = cat[id].version + 1 BY DEF Row
<1> QED BY <1>2, <1>3 DEF restore

-----------------------------------------------------------------------------
LEMMA KeysNonEmpty == NoKey \in Keys
<1>1. PICK i \in Intents : TRUE BY ExecutorAssumption
<1>2. [intent |-> i, version |-> 1] \in Keys BY <1>1, ExecutorAssumption DEF Keys
<1> QED BY <1>2 DEF NoKey

LEMMA KeyParts ==
  ASSUME NEW k \in Keys
  PROVE  k.intent \in Intents /\ k.intent.listing \in Listings /\ k.version \in Nat
BY CatalogAssumption, ExecutorAssumption DEF Keys

(* Patching one action's status leaves a well-typed table whose other rows  *)
(* are what they were.                                                      *)
LEMMA PatchType ==
  ASSUME actions \in [Keys -> ActionRow], NEW k \in Keys, NEW s \in Statuses, Patch(k, s)
  PROVE  /\ actions' \in [Keys -> ActionRow]
         /\ actions'[k].status = s
         /\ \A j \in Keys \ {k} : actions'[j] = actions[j]
BY DEF Patch, ActionRow

LEMMA PatchUndoType ==
  ASSUME actions \in [Keys -> ActionRow], NEW k \in Keys, NEW s \in Statuses,
         NEW u \in {"null", "open", "closed"},
         actions' = [actions EXCEPT ![k].status = s, ![k].undo = u]
  PROVE  /\ actions' \in [Keys -> ActionRow]
         /\ actions'[k].status = s
         /\ \A j \in Keys \ {k} : actions'[j] = actions[j]
BY DEF ActionRow

LEMMA InitInv == Init => Inv
<1> SUFFICES ASSUME Init PROVE Inv OBVIOUS
<1>1. TypeOK
  <2>1. \A k \in Keys : InitialCatalog[k.intent.listing] \in Row
    BY KeyParts, ExecutorAssumption
  <2>2. actions \in [Keys -> ActionRow]
    BY <2>1 DEF Init, ActionRow, Statuses
  <2>3. snap \in [Requests -> Row] BY <2>1, KeysNonEmpty DEF Init
  <2>4. pc \in [Requests -> PCs] BY DEF Init, PCs
  <2> QED BY <2>2, <2>3, <2>4, KeysNonEmpty, ExecutorAssumption DEF Init, TypeOK
<1>2. InFlightIsBacked BY DEF Init, InFlightIsBacked, LedgeredPCs
<1>3. StatusIsBacked BY DEF Init, StatusIsBacked
<1>4. AuditIsBacked /\ undone \subseteq ledger BY DEF Init, AuditIsBacked
<1> QED BY <1>1, <1>2, <1>3, <1>4 DEF Inv

-----------------------------------------------------------------------------
(* One step preserves the invariant: first the typing, action by action. *)
LEMMA NextType == TypeOK /\ [Next]_vars => TypeOK'
<1> SUFFICES ASSUME TypeOK, [Next]_vars PROVE TypeOK' OBVIOUS
<1> USE DEF TypeOK
<1>1. ASSUME NEW r \in Requests, NEW i \in Intents, Propose(r, i) PROVE TypeOK'
  <2>1. [intent |-> i, version |-> catalog[i.listing].version] \in Keys
    BY <1>1 DEF Propose, Keys
  <2>2. catalog[i.listing] \in Row BY CatalogAssumption
  <2> QED BY <1>1, <2>1, <2>2, ExecutorAssumption
    DEF Propose, Start, Goto, PCs, stores, rows, mirror
<1>2. ASSUME NEW r \in Requests, NEW k \in Keys, Approve(r, k) PROVE TypeOK'
  BY <1>2, ExecutorAssumption DEF Approve, Start, Goto, PCs, stores, rows, mirror
<1>3. ASSUME NEW r \in Requests, NEW k \in Keys, Reject(r, k) PROVE TypeOK'
  <2>1. actions' \in [Keys -> ActionRow]
    BY <1>3, PatchType DEF Reject, Statuses
  <2>2. pc' \in [Requests -> PCs] /\ cur' \in [Requests -> Keys] /\ started' \in Nat
    BY <1>3 DEF Reject, Start, Goto, PCs, AuditKind
  <2> QED BY <1>3, <2>1, <2>2 DEF Reject, Start, stores, mirror
<1>4. ASSUME NEW r \in Requests, NEW k \in Keys, Rollback(r, k) PROVE TypeOK'
  BY <1>4, ExecutorAssumption DEF Rollback, Start, Goto, PCs, stores, rows, mirror
<1>5. ASSUME NEW r \in Requests, InsertProposal(r) PROVE TypeOK'
  <2>1. \A ok \in BOOLEAN :
          [status |-> IF ok THEN "proposed" ELSE "preflight_failed",
           before |-> snap[r], undo |-> "null", ok |-> ok] \in ActionRow
    BY DEF ActionRow, Statuses
  <2>2. \A i, row, n : preflightOk(i, row, n) \in BOOLEAN
    BY DEF preflightOk
  <2>3. actions' \in [Keys -> ActionRow]
    BY <1>5, <2>1, <2>2 DEF InsertProposal
  <2>4. pc' \in [Requests -> PCs]
    BY <1>5 DEF InsertProposal, Goto, PCs, AuditKind
  <2> QED BY <1>5, <2>3, <2>4 DEF InsertProposal, stores, mirror
<1>6. ASSUME NEW r \in Requests, Idempotency(r) PROVE TypeOK'
  BY <1>6 DEF Idempotency, Goto, PCs, stores, rows, mirror
<1>7. ASSUME NEW r \in Requests, MarkPrior(r) \/ MarkCommitting(r) \/ MarkFailed(r) PROVE TypeOK'
  <2>1. PICK s \in Statuses : Patch(cur[r], s)
    BY <1>7 DEF MarkPrior, MarkCommitting, MarkFailed, Statuses
  <2>2. actions' \in [Keys -> ActionRow]
    BY <2>1, PatchType
  <2>3. pc' \in [Requests -> PCs]
    BY <1>7 DEF MarkPrior, MarkCommitting, MarkFailed, Goto, PCs, AuditKind
  <2> QED BY <1>7, <2>2, <2>3 DEF MarkPrior, MarkCommitting, MarkFailed, stores, mirror
<1>8. ASSUME NEW r \in Requests, Reserve(r) PROVE TypeOK'
  BY <1>8 DEF Reserve, Goto, PCs, rows, mirror
<1>9. ASSUME NEW r \in Requests, ApplyRemote(r) PROVE TypeOK'
  <2>1. applyRemote(remote, cur[r].intent) \in [Listings -> Row]
    BY KeyParts, ApplyRemoteType
  <2> QED BY <1>9, <2>1 DEF ApplyRemote, Goto, PCs, rows, mirror
<1>10. ASSUME NEW r \in Requests, Record(r) PROVE TypeOK'
  <2>1. applyLocal(catalog, cur[r].intent) \in [Listings -> Row]
    BY KeyParts, ApplyLocalType
  <2> QED BY <1>10, <2>1 DEF Record, Goto, PCs, mirror
<1>11. ASSUME NEW r \in Requests, Compensate(r) \/ UndoRemote(r) PROVE TypeOK'
  <2>1. restore(remote, cur[r].intent.listing, actions[cur[r]].before) \in [Listings -> Row]
    BY KeyParts, RestoreType DEF ActionRow
  <2> QED BY <1>11, <2>1 DEF Compensate, UndoRemote, Goto, PCs, rows, mirror
<1>12. ASSUME NEW r \in Requests, UndoLocal(r) PROVE TypeOK'
  <2>1. restore(catalog, cur[r].intent.listing, actions[cur[r]].before) \in [Listings -> Row]
    BY KeyParts, RestoreType DEF ActionRow
  <2> QED BY <1>12, <2>1 DEF UndoLocal, Goto, PCs
<1>13. ASSUME NEW r \in Requests, Confirm(r) PROVE TypeOK'
  BY <1>13 DEF Confirm, Goto, PCs, rows
<1>14. ASSUME NEW r \in Requests, MarkCommitted(r) \/ MarkRolledBack(r) PROVE TypeOK'
  <2>1. CASE MarkCommitted(r)
    <3>1. actions' = [actions EXCEPT ![cur[r]].status = "committed", ![cur[r]].undo = "open"]
      BY <2>1 DEF MarkCommitted
    <3>2. actions' \in [Keys -> ActionRow]
      BY <3>1, PatchUndoType DEF Statuses
    <3>3. pc' \in [Requests -> PCs]
      BY <2>1 DEF MarkCommitted, Goto, PCs, AuditKind
    <3> QED BY <2>1, <3>2, <3>3 DEF MarkCommitted, stores, mirror
  <2>2. CASE MarkRolledBack(r)
    <3>1. actions' = [actions EXCEPT ![cur[r]].status = "rolled_back", ![cur[r]].undo = "null"]
      BY <2>2 DEF MarkRolledBack
    <3>2. actions' \in [Keys -> ActionRow]
      BY <3>1, PatchUndoType DEF Statuses
    <3>3. pc' \in [Requests -> PCs]
      BY <2>2 DEF MarkRolledBack, Goto, PCs, AuditKind
    <3> QED BY <2>2, <3>2, <3>3 DEF MarkRolledBack, stores, mirror
  <2> QED BY <1>14, <2>1, <2>2
<1>15. ASSUME NEW r \in Requests, Audit(r) \/ DbError(r) PROVE TypeOK'
  BY <1>15 DEF Audit, DbError, Goto, PCs, stores, rows, mirror
<1>16. ASSUME NEW r \in Requests, LoadRows(r) PROVE TypeOK'
  BY <1>16 DEF LoadRows, stores, rows, requests
<1>17. ASSUME NEW r \in Requests, ResetMirror(r) PROVE TypeOK'
  BY <1>17, ExecutorAssumption DEF ResetMirror, rows, requests
<1>18. ASSUME NEW k \in Keys, CloseWindow(k) PROVE TypeOK'
  BY <1>18 DEF CloseWindow, ActionRow, stores, requests, mirror
<1>19. ASSUME Crash PROVE TypeOK'
  BY <1>19, ExecutorAssumption DEF Crash, PCs, rows
<1>20. ASSUME UNCHANGED vars PROVE TypeOK'
  BY <1>20 DEF vars, stores, rows, requests, mirror
<1> QED
  BY <1>1, <1>2, <1>3, <1>4, <1>5, <1>6, <1>7, <1>8, <1>9, <1>10, <1>11, <1>12, <1>13,
     <1>14, <1>15, <1>16, <1>17, <1>18, <1>19, <1>20
  DEF Next, Arrive, Continue, Refresh

(* ... then what the rows and the audit log claim. *)
LEMMA NextBacked ==
  Inv /\ TypeOK' /\ [Next]_vars =>
    InFlightIsBacked' /\ StatusIsBacked' /\ AuditIsBacked' /\ (undone \subseteq ledger)'
<1> SUFFICES ASSUME Inv, TypeOK', [Next]_vars
             PROVE  InFlightIsBacked' /\ StatusIsBacked' /\ AuditIsBacked' /\ (undone \subseteq ledger)'
  OBVIOUS
<1> DEFINE Goal == InFlightIsBacked' /\ StatusIsBacked' /\ AuditIsBacked' /\ (undone \subseteq ledger)'
<1> USE DEF Inv, TypeOK, InFlightIsBacked, LedgeredPCs, StatusIsBacked, AuditIsBacked
<1>1. ASSUME NEW r \in Requests, NEW i \in Intents, Propose(r, i) PROVE Goal
  BY <1>1 DEF Propose, Start, Goto, rows
<1>2. ASSUME NEW r \in Requests, NEW k \in Keys, Approve(r, k) PROVE Goal
  BY <1>2 DEF Approve, Start, Goto, rows
<1>3. ASSUME NEW r \in Requests, NEW k \in Keys, Reject(r, k) PROVE Goal
  BY <1>3 DEF Reject, Start, Goto, Patch, ActionRow
<1>4. ASSUME NEW r \in Requests, NEW k \in Keys, Rollback(r, k) PROVE Goal
  BY <1>4 DEF Rollback, Start, Goto, rows
<1>5. ASSUME NEW r \in Requests, InsertProposal(r) PROVE Goal
  BY <1>5 DEF InsertProposal, Goto
<1>6. ASSUME NEW r \in Requests, Idempotency(r) \/ DbError(r) PROVE Goal
  BY <1>6 DEF Idempotency, DbError, Goto, rows
<1>7. ASSUME NEW r \in Requests, MarkPrior(r) PROVE Goal
  BY <1>7 DEF MarkPrior, Patch, Goto, ActionRow
<1>8. ASSUME NEW r \in Requests, MarkCommitting(r) \/ MarkFailed(r) PROVE Goal
  <2>1. PICK s \in {"committing", "failed"} : Patch(cur[r], s)
    BY <1>8 DEF MarkCommitting, MarkFailed
  <2>2. \A k \in Keys : actions'[k].status = actions[k].status \/ actions'[k].status = s
    BY <2>1, PatchType DEF Statuses
  <2> QED BY <1>8, <2>1, <2>2 DEF MarkCommitting, MarkFailed, Goto
<1>9. ASSUME NEW r \in Requests, Reserve(r) \/ ApplyRemote(r) PROVE Goal
  BY <1>9 DEF Reserve, ApplyRemote, Goto, rows
<1>10. ASSUME NEW r \in Requests, Record(r) PROVE Goal
  BY <1>10 DEF Record, Goto
<1>11. ASSUME NEW r \in Requests, Compensate(r) \/ UndoRemote(r) PROVE Goal
  BY <1>11 DEF Compensate, UndoRemote, Goto, rows
<1>12. ASSUME NEW r \in Requests, UndoLocal(r) PROVE Goal
  BY <1>12 DEF UndoLocal, Goto
<1>13. ASSUME NEW r \in Requests, Confirm(r) PROVE Goal
  BY <1>13 DEF Confirm, Goto, rows
<1>14. ASSUME NEW r \in Requests, MarkCommitted(r) PROVE Goal
  BY <1>14 DEF MarkCommitted, Goto, ActionRow
<1>15. ASSUME NEW r \in Requests, MarkRolledBack(r) PROVE Goal
  BY <1>15 DEF MarkRolledBack, Goto, ActionRow
<1>16. ASSUME NEW r \in Requests, Audit(r) PROVE Goal
  BY <1>16 DEF Audit, AuditKind, Goto, rows
<1>17. ASSUME NEW r \in Requests, Refresh(r) PROVE Goal
  BY <1>17 DEF Refresh, LoadRows, ResetMirror, rows, requests
<1>18. ASSUME NEW k \in Keys, CloseWindow(k) PROVE Goal
  BY <1>18 DEF CloseWindow, requests, ActionRow
<1>19. ASSUME Crash PROVE Goal
  BY <1>19 DEF Crash, rows
<1>20. ASSUME UNCHANGED vars PROVE Goal
  BY <1>20 DEF vars, rows, requests
<1> HIDE DEF Inv, TypeOK, InFlightIsBacked, LedgeredPCs, StatusIsBacked, AuditIsBacked
<1> QED
  BY <1>1, <1>2, <1>3, <1>4, <1>5, <1>6, <1>7, <1>8, <1>9, <1>10, <1>11, <1>12, <1>13,
     <1>14, <1>15, <1>16, <1>17, <1>18, <1>19, <1>20
  DEF Next, Arrive, Continue

LEMMA InvInductive == Spec => []Inv
<1>1. Inv /\ [Next]_vars => Inv'
  BY NextType, NextBacked DEF Inv
<1> QED BY InitInv, <1>1, PTL DEF Spec

(* Whatever the requests do, every variable keeps its type. *)
THEOREM TypeCorrect == Spec => []TypeOK
<1>1. Inv => TypeOK BY DEF Inv
<1> QED BY InvInductive, <1>1, PTL

(* No interleaving, fault or crash lets an action read "committed" or      *)
(* "rolled_back" without the ledger row that says so.                      *)
THEOREM StatusBacked == Spec => []StatusIsBacked
<1>1. Inv => StatusIsBacked BY DEF Inv
<1> QED BY InvInductive, <1>1, PTL

(* ... nor the audit log report a commit or an undo that did not happen.   *)
THEOREM AuditBacked == Spec => []AuditIsBacked
<1>1. Inv => AuditIsBacked BY DEF Inv
<1> QED BY InvInductive, <1>1, PTL

-----------------------------------------------------------------------------
(* Each step of the executor is a step of the abstract ledger, or none: the *)
(* two transactions are its two actions.                                    *)
LEMMA ApplyLocalSame ==
  ASSUME NEW cat, NEW i
  PROVE  Promise!applyLocal(cat, i) = applyLocal(cat, i)
BY DEF applyLocal, setPinned, mutateListing, mutationFor, Bump,
       Promise!applyLocal, Promise!setPinned, Promise!mutateListing, Promise!mutationFor, Promise!Bump

LEMMA RecordCommits ==
  ASSUME Inv, NEW r \in Requests, Record(r)
  PROVE  (\E k \in Keys : Promise!CommitOnce(k)) \/ UNCHANGED <<catalog, ledger, undone>>
BY ApplyLocalSame DEF Record, Inv, TypeOK, Promise!CommitOnce

LEMMA UndoLocalUndoes ==
  ASSUME Inv, NEW r \in Requests, UndoLocal(r)
  PROVE  (\E k \in Keys : Promise!Undo(k)) \/ UNCHANGED <<catalog, ledger, undone>>
<1> DEFINE k == cur[r]
<1>1. k \in Keys /\ k \in ledger
  BY DEF UndoLocal, Inv, TypeOK, InFlightIsBacked, LedgeredPCs
<1>2. /\ actions[k].before \in Row /\ k.intent.listing \in Listings
      /\ catalog \in [Listings -> Row]
  BY <1>1, KeyParts DEF Inv, TypeOK, ActionRow
<1> HIDE DEF k
<1>3. /\ \A l \in Listings \ {k.intent.listing} :
            restore(catalog, k.intent.listing, actions[k].before)[l] = catalog[l]
      /\ restore(catalog, k.intent.listing, actions[k].before)[k.intent.listing].version
           = catalog[k.intent.listing].version + 1
  BY <1>2, RestoreType
<1>4. Promise!Undo(k) \/ UNCHANGED <<catalog, ledger, undone>>
  BY <1>1, <1>3 DEF UndoLocal, Promise!Undo, k
<1> QED BY <1>1, <1>4

LEMMA StepRefines == Inv /\ [Next]_vars => [Promise!Next]_(Promise!ledgerVars)
<1> SUFFICES ASSUME Inv, [Next]_vars PROVE [Promise!Next]_(Promise!ledgerVars)
  OBVIOUS
<1> DEFINE Same == UNCHANGED <<catalog, ledger, undone>>
<1>1. ASSUME NEW r \in Requests, Record(r) PROVE Promise!Next \/ Same
  BY <1>1, RecordCommits DEF Promise!Next
<1>2. ASSUME NEW r \in Requests, UndoLocal(r) PROVE Promise!Next \/ Same
  BY <1>2, UndoLocalUndoes DEF Promise!Next
<1>3. ASSUME NEW r \in Requests, Arrive(r) PROVE Same
  BY <1>3 DEF Arrive, Propose, Approve, Reject, Rollback, stores, rows
<1>4. ASSUME NEW r \in Requests,
             InsertProposal(r) \/ Idempotency(r) \/ MarkPrior(r) \/ MarkCommitting(r)
               \/ Reserve(r) \/ ApplyRemote(r) \/ Compensate(r) \/ Confirm(r)
      PROVE  Same
  BY <1>4 DEF InsertProposal, Idempotency, MarkPrior, MarkCommitting, Reserve, ApplyRemote,
              Compensate, Confirm, stores, rows
<1>5. ASSUME NEW r \in Requests,
             MarkCommitted(r) \/ UndoRemote(r) \/ MarkRolledBack(r) \/ MarkFailed(r)
               \/ Audit(r) \/ DbError(r) \/ Refresh(r)
      PROVE  Same
  BY <1>5 DEF MarkCommitted, UndoRemote, MarkRolledBack, MarkFailed, Audit, DbError,
              Refresh, LoadRows, ResetMirror, stores, rows
<1>6. ASSUME (\E k \in Keys : CloseWindow(k)) \/ Crash \/ UNCHANGED vars PROVE Same
  BY <1>6 DEF CloseWindow, Crash, vars, stores, rows
<1>7. Promise!Next \/ Same
  BY <1>1, <1>2, <1>3, <1>4, <1>5, <1>6 DEF Next, Continue
<1> QED BY <1>7 DEF Promise!ledgerVars

(* The executor, with its unlocked requests, its retries and its crashes,  *)
(* implements the ledger in which a key commits at most once, a listing    *)
(* changes only with its ledger row, and only the committed is undone.     *)
THEOREM Refinement == Spec => ImplementsCommitLedger
<1>1. Init => Promise!Init
  BY DEF Init, Promise!Init
<1> QED BY InvInductive, <1>1, StepRefines, PTL DEF Spec, ImplementsCommitLedger, Promise!Spec

-----------------------------------------------------------------------------
(* A reservation is held by a request that will release it: unless a        *)
(* compensation fails, some request on the way from reserve to confirm is   *)
(* about its key.                                                           *)
HoldingPCs == {"apply", "record", "compensate", "confirm"}

Held == \A k \in reservations : \E r \in Requests : cur[r] = k /\ pc[r] \in HoldingPCs

LEMMA NextHeld ==
  ASSUME TypeOK, Held, [Next]_vars, "compensate" \notin Faults
  PROVE  Held'
<1> USE DEF TypeOK, Held, HoldingPCs
<1>1. ASSUME NEW r \in Requests, NEW k \in Keys, NEW op, NEW p, Start(r, op, k, p), UNCHANGED reservations
      PROVE  Held'
  BY <1>1 DEF Start, Goto
<1>2. ASSUME NEW r \in Requests, Arrive(r) PROVE Held'
  <2>1. ASSUME NEW i \in Intents, Propose(r, i) PROVE Held'
    <3>1. [intent |-> i, version |-> catalog[i.listing].version] \in Keys
      BY <2>1 DEF Propose, Keys
    <3> QED BY <1>1, <2>1, <3>1 DEF Propose, stores
  <2>2. ASSUME NEW k \in Keys, Approve(r, k) \/ Reject(r, k) \/ Rollback(r, k) PROVE Held'
    BY <1>1, <2>2 DEF Approve, Reject, Rollback, stores
  <2> QED BY <1>2, <2>1, <2>2 DEF Arrive
<1>3. ASSUME NEW r \in Requests,
             InsertProposal(r) \/ Idempotency(r) \/ MarkPrior(r) \/ MarkCommitting(r)
               \/ MarkCommitted(r) \/ MarkRolledBack(r) \/ MarkFailed(r)
      PROVE  Held'
  <2>1. pc[r] \notin HoldingPCs /\ reservations' = reservations /\ cur' = cur
    BY <1>3 DEF InsertProposal, Idempotency, MarkPrior, MarkCommitting, MarkCommitted,
                MarkRolledBack, MarkFailed, stores
  <2>2. \A q \in Requests \ {r} : pc'[q] = pc[q]
    BY <1>3 DEF InsertProposal, Idempotency, MarkPrior, MarkCommitting, MarkCommitted,
                MarkRolledBack, MarkFailed, Goto
  <2> QED BY <2>1, <2>2
<1>4. ASSUME NEW r \in Requests, Reserve(r) PROVE Held'
  <2>1. pc[r] \notin HoldingPCs /\ cur' = cur
    BY <1>4 DEF Reserve
  <2>2. \A q \in Requests \ {r} : pc'[q] = pc[q]
    BY <1>4 DEF Reserve, Goto
  <2>3. reservations' = reservations
          \/ (reservations' = reservations \cup {cur[r]} /\ pc'[r] = "apply")
    BY <1>4 DEF Reserve, Goto
  <2> QED BY <2>1, <2>2, <2>3
<1>5. ASSUME NEW r \in Requests, ApplyRemote(r) PROVE Held'
  BY <1>5 DEF ApplyRemote, Goto
<1>6. ASSUME NEW r \in Requests, Record(r) PROVE Held'
  BY <1>6 DEF Record, Goto
<1>7. ASSUME NEW r \in Requests, Compensate(r) \/ Confirm(r) PROVE Held'
  BY <1>7 DEF Compensate, Confirm, Goto
<1>8. ASSUME NEW r \in Requests, UndoRemote(r) \/ UndoLocal(r) PROVE Held'
  BY <1>8 DEF UndoRemote, UndoLocal, Goto
<1>9. ASSUME NEW r \in Requests, Audit(r) \/ DbError(r) PROVE Held'
  BY <1>9 DEF Audit, AuditKind, DbError, DbSteps, Goto, stores
<1>10. ASSUME (\E r \in Requests : Refresh(r)) \/ (\E k \in Keys : CloseWindow(k)) \/ Crash
               \/ UNCHANGED vars
       PROVE  Held'
  BY <1>10 DEF Refresh, LoadRows, ResetMirror, CloseWindow, Crash, vars, stores, requests
<1> QED BY <1>2, <1>3, <1>4, <1>5, <1>6, <1>7, <1>8, <1>9, <1>10 DEF Next, Continue

(* When nothing is in flight the marketplace holds no reservation, however *)
(* many requests raced for one and wherever they failed.                   *)
THEOREM Released == Spec => []ReservationsReleased
<1> DEFINE HeldInv == "compensate" \notin Faults => Held
<1>1. Init => HeldInv BY DEF Init, Held
<1>2. TypeOK /\ HeldInv /\ [Next]_vars => HeldInv' BY NextHeld
<1>3. HeldInv => ReservationsReleased
  BY DEF Held, HoldingPCs, ReservationsReleased
<1> HIDE DEF HeldInv
<1> QED BY TypeCorrect, <1>1, <1>2, <1>3, PTL DEF Spec
-----------------------------------------------------------------------------
(* One request at a time, its refresh over before the next one starts: what *)
(* one seller who waits for the page to answer sees.                        *)
OneAtATime == \E q \in Requests : Requests = {q}

(* A swap writes two remote lots and its compensation restores one, so the  *)
(* sides agree after a failed transaction only when it was no swap's.       *)
SwapsAreRecorded == "tx" \in Faults => \A i \in Intents : i.kind # "swap_pinned"

(* A row read earlier, at version v: the listing has moved on since, or it  *)
(* still reads the same.                                                    *)
ReadAt(before, v, row) ==
  /\ before.version = v /\ v <= row.version
  /\ v = row.version => Fields(before) = Fields(row)

Snapshots ==
  /\ \A k \in Keys : actions[k].status # "absent" =>
       ReadAt(actions[k].before, k.version, catalog[k.intent.listing])
  /\ \A r \in Requests : pc[r] = "preflight" =>
       ReadAt(snap[r], cur[r].version, catalog[cur[r].intent.listing])

(* What a position knows when nobody else is about. *)
Positions == \A r \in Requests :
  /\ pc[r] \notin {"idle", "preflight"} => actions[cur[r]].status # "absent"
  /\ pc[r] \in {"markCommitting", "reserve", "apply", "record"} => cur[r] \notin ledger
  /\ pc[r] \in {"apply", "record", "compensate"} =>
       catalog[cur[r].intent.listing].version = cur[r].version
  /\ pc[r] = "compensate" => "tx" \in Faults
  /\ refresh[r] # "none" =>
       pc[r] \in {"idle", "markCommitted", "auditCommitted", "markRolledBack", "auditRolledBack"}
  /\ refresh[r] = "loaded" => loaded[r] = catalog

(* Between a commit and its refresh the mirror may be behind; at no other   *)
(* time, so a remote version that matches the plan is the local one.        *)
Ahead == \A r \in Requests : refresh[r] = "none" /\ pc[r] # "confirm" =>
  \A l \in Listings : catalog[l].version <= remote[l].version

Sides == \A r \in Requests :
  refresh[r] = "none" /\ ~outOfStep /\ pc[r] \notin {"confirm", "undoLocal"} =>
    \A l \in Listings :
      (pc[r] \in {"record", "compensate"} => cur[r].intent.kind # "swap_pinned" /\ l # cur[r].intent.listing)
        => Fields(catalog[l]) = Fields(remote[l])

SerialInv == TypeOK /\ Snapshots /\ Positions /\ Ahead

(* What the writes do to a row: nothing, or they move its version on.       *)
LEMMA WritesMoveOn ==
  ASSUME NEW i \in Intents, NEW cat \in [Listings -> Row], NEW l \in Listings
  PROVE  /\ applyLocal(cat, i)[l] = cat[l] \/ cat[l].version < applyLocal(cat, i)[l].version
         /\ cat[l].version <= applyRemote(cat, i)[l].version
         /\ i.kind # "swap_pinned" /\ l # i.listing => applyRemote(cat, i)[l] = cat[l]
<1>0. i.listing \in Listings /\ cat[i.listing] \in Row /\ cat[l] \in Row BY CatalogAssumption
<1>1. ASSUME NEW row \in Row
      PROVE  /\ Bump(row).version = row.version + 1
             /\ mutationFor(i, row).version = row.version
             /\ Bump([row EXCEPT !.pinned = FALSE]).version = row.version + 1
             /\ [row EXCEPT !.state = "live"] \in Row
             /\ [row EXCEPT !.state = "live"].version = row.version
  BY CatalogAssumption DEF Bump, mutationFor, Row, States, Kinds
<1>2. \A row \in Row : row.version \in Nat BY DEF Row
<1>3. \/ applyLocal(cat, i)[l] = cat[l]
      \/ cat[l].version < applyLocal(cat, i)[l].version
  <2>1. CASE i.kind = "swap_pinned"
    <3> DEFINE c == setPinned(cat, i.listing)
    <3>1. c \in [Listings -> Row] BY <1>0, SetPinnedType
    <3>0. \A j \in Listings :
            Bump([cat[j] EXCEPT !.pinned = (j = i.listing)]).version = cat[j].version + 1
      BY DEF Bump, Row
    <3>2. c[l] = cat[l] \/ c[l].version = cat[l].version + 1
      BY <3>0 DEF setPinned
    <3>3. c[i.listing].version = cat[i.listing].version + 1
      BY <1>0, <3>0 DEF setPinned
    <3> HIDE DEF c
    <3>4. /\ [c[i.listing] EXCEPT !.state = "live"] \in Row
          /\ [c[i.listing] EXCEPT !.state = "live"].version = c[i.listing].version
      BY <1>0, <1>1, <3>1
    <3>5. applyLocal(cat, i) = [c EXCEPT ![i.listing] = Bump([c[i.listing] EXCEPT !.state = "live"])]
      BY <2>1 DEF applyLocal, mutateListing, c
    <3>6. Bump([c[i.listing] EXCEPT !.state = "live"]).version = c[i.listing].version + 1
      BY <1>1, <3>4
    <3>7. CASE l = i.listing
      <4>1. applyLocal(cat, i)[l].version = c[l].version + 1 BY <3>1, <3>5, <3>6, <3>7
      <4> QED BY <1>0, <1>2, <3>3, <3>7, <4>1
    <3>8. CASE l # i.listing
      <4>1. applyLocal(cat, i)[l] = c[l] BY <3>1, <3>5, <3>8
      <4> QED BY <1>0, <1>2, <3>2, <4>1
    <3> QED BY <3>7, <3>8
  <2>2. CASE i.kind # "swap_pinned"
    <3>1. applyLocal(cat, i) = [cat EXCEPT ![i.listing] = Bump(mutationFor(i, cat[i.listing]))]
      BY <2>2 DEF applyLocal, mutateListing
    <3>2. mutationFor(i, cat[i.listing]) \in Row BY <1>0, MutationType
    <3>3. Bump(mutationFor(i, cat[i.listing])).version = cat[i.listing].version + 1
      BY <1>0, <1>1, <3>2
    <3> QED BY <1>0, <1>2, <3>1, <3>3
  <2> QED BY <2>1, <2>2
<1>4. mutationFor(i, cat[l]) \in Row BY MutationType
<1>5. /\ Bump(mutationFor(i, cat[l])).version = cat[l].version + 1
      /\ Bump([cat[l] EXCEPT !.pinned = FALSE]).version = cat[l].version + 1
  BY <1>0, <1>1, <1>4
<1>6. cat[l].version <= applyRemote(cat, i)[l].version
  BY <1>0, <1>2, <1>5 DEF applyRemote
<1>7. i.kind # "swap_pinned" /\ l # i.listing => applyRemote(cat, i)[l] = cat[l]
  BY DEF applyRemote
<1> QED BY <1>3, <1>6, <1>7

LEMMA RestoreFields ==
  ASSUME NEW cat \in [Listings -> Row], NEW id \in Listings, NEW before \in Row
  PROVE  Fields(restore(cat, id, before)[id]) = Fields(before)
<1>1. restore(cat, id, before)[id] = [before EXCEPT !.version = cat[id].version + 1]
  BY DEF restore
<1> QED BY <1>1 DEF Fields, Row

(* A row that was read keeps standing to its listing as it did when the     *)
(* listing keeps its row or moves on.                                       *)
LEMMA ReadAtStays ==
  ASSUME NEW before, NEW v \in Nat, NEW row \in Row, NEW new \in Row,
         new = row \/ row.version < new.version, ReadAt(before, v, row)
  PROVE  ReadAt(before, v, new)
BY DEF ReadAt, Row

(* ... so only a step that writes actions or takes up a proposal disturbs   *)
(* what was read.                                                           *)
CatalogMovesOn == \A l \in Listings :
  catalog'[l] = catalog[l] \/ catalog[l].version < catalog'[l].version

LEMMA CatalogSteps == TypeOK /\ [Next]_vars => CatalogMovesOn
<1> SUFFICES ASSUME TypeOK, [Next]_vars PROVE CatalogMovesOn OBVIOUS
<1> USE DEF TypeOK, CatalogMovesOn
<1>1. ASSUME NEW r \in Requests, Record(r) PROVE CatalogMovesOn
  <2>1. catalog \in [Listings -> Row] /\ cur[r].intent \in Intents BY KeyParts
  <2>2. \A l \in Listings : LET new == applyLocal(catalog, cur[r].intent)
                           IN  new[l] = catalog[l] \/ catalog[l].version < new[l].version
    BY <2>1, WritesMoveOn
  <2> QED BY <1>1, <2>2 DEF Record
<1>2. ASSUME NEW r \in Requests, UndoLocal(r) PROVE CatalogMovesOn
  <2>1. cur[r] \in Keys /\ cur[r].intent.listing \in Listings BY KeyParts
  <2>2. actions[cur[r]].before \in Row BY <2>1 DEF ActionRow
  <2>3. \A l \in Listings : catalog[l].version \in Nat BY DEF Row
  <2>4. \/ catalog' = restore(catalog, cur[r].intent.listing, actions[cur[r]].before)
        \/ catalog' = catalog
    BY <1>2 DEF UndoLocal
  <2>5. CASE catalog' = catalog BY <2>5
  <2>6. CASE catalog' = restore(catalog, cur[r].intent.listing, actions[cur[r]].before)
    <3> DEFINE id == cur[r].intent.listing
    <3>1. /\ \A l \in Listings \ {id} : catalog'[l] = catalog[l]
          /\ catalog'[id].version = catalog[id].version + 1
      <4> DEFINE before == actions[cur[r]].before
      <4>1. catalog \in [Listings -> Row] /\ id \in Listings /\ before \in Row BY <2>1, <2>2
      <4>2. catalog' = restore(catalog, id, before) BY <2>6
      <4> HIDE DEF TypeOK, id, before
      <4> QED BY <4>1, <4>2, RestoreType
    <3> QED BY <2>1, <2>3, <3>1
  <2> QED BY <2>4, <2>5, <2>6
<1>3. ASSUME UNCHANGED catalog PROVE CatalogMovesOn BY <1>3
<1>4. ASSUME NEW r \in Requests, Arrive(r) PROVE CatalogMovesOn
  BY <1>3, <1>4 DEF Arrive, Propose, Approve, Reject, Rollback, stores
<1>5. ASSUME NEW r \in Requests, Continue(r) PROVE CatalogMovesOn
  BY <1>1, <1>2, <1>3, <1>5
    DEF Continue, InsertProposal, Idempotency, MarkPrior, MarkCommitting, Reserve, ApplyRemote,
        Compensate, Confirm, MarkCommitted, UndoRemote, MarkRolledBack, MarkFailed, Audit, stores
<1>6. ASSUME NEW r \in Requests, DbError(r) \/ Refresh(r) PROVE CatalogMovesOn
  BY <1>3, <1>6 DEF DbError, Refresh, LoadRows, ResetMirror, stores
<1>7. ASSUME (\E k \in Keys : CloseWindow(k)) \/ Crash PROVE CatalogMovesOn
  BY <1>3, <1>7 DEF CloseWindow, Crash, stores
<1>8. ASSUME UNCHANGED vars PROVE CatalogMovesOn BY <1>3, <1>8 DEF vars, stores
<1> QED BY <1>4, <1>5, <1>6, <1>7, <1>8 DEF Next

(* A row of the actions table is written by the proposal that read its      *)
(* listing, and keeps that reading.                                         *)
RowKept(k) == actions'[k].status # "absent" =>
  \/ actions[k].status # "absent" /\ actions'[k].before = actions[k].before
  \/ \E r \in Requests : pc[r] = "preflight" /\ cur[r] = k /\ actions'[k].before = snap[r]

LEMMA RowsKept ==
  ASSUME TypeOK, Positions, [Next]_vars
  PROVE  \A k \in Keys : RowKept(k)
<1> USE DEF TypeOK, Positions, RowKept
<1>1. ASSUME NEW k \in Keys, NEW s, actions[k].status # "absent", Patch(k, s)
      PROVE  \A j \in Keys : RowKept(j)
  BY <1>1 DEF Patch, ActionRow
<1>2. ASSUME UNCHANGED actions PROVE \A j \in Keys : RowKept(j) BY <1>2
<1>3. ASSUME NEW r \in Requests, Arrive(r) PROVE \A j \in Keys : RowKept(j)
  BY <1>1, <1>2, <1>3 DEF Arrive, Propose, Approve, Reject, Rollback, Start, rows
<1>4. ASSUME NEW r \in Requests, InsertProposal(r) PROVE \A j \in Keys : RowKept(j)
  <2>1. pc[r] = "preflight" /\ cur[r] \in Keys BY <1>4 DEF InsertProposal
  <2>2. CASE UNCHANGED actions BY <1>2, <2>2
  <2>3. ASSUME NEW ok, actions' = [actions EXCEPT ![cur[r]] =
                 [status |-> IF ok THEN "proposed" ELSE "preflight_failed",
                  before |-> snap[r], undo |-> "null", ok |-> ok]]
        PROVE  \A j \in Keys : RowKept(j)
    BY <2>1, <2>3
  <2>4. CASE actions[cur[r]].status # "absent" BY <1>4, <2>2, <2>4 DEF InsertProposal
  <2>5. CASE actions[cur[r]].status = "absent" BY <1>4, <2>3, <2>5 DEF InsertProposal
  <2> QED BY <2>4, <2>5
<1>5. ASSUME NEW r \in Requests, MarkPrior(r) \/ MarkCommitting(r) \/ MarkFailed(r)
      PROVE  \A j \in Keys : RowKept(j)
  BY <1>1, <1>5 DEF MarkPrior, MarkCommitting, MarkFailed
<1>6. ASSUME NEW r \in Requests, MarkCommitted(r) \/ MarkRolledBack(r)
      PROVE  \A j \in Keys : RowKept(j)
  <2>1. cur[r] \in Keys /\ actions[cur[r]].status # "absent"
    BY <1>6 DEF MarkCommitted, MarkRolledBack
  <2>2. ASSUME NEW s, NEW u, actions' = [actions EXCEPT ![cur[r]].status = s, ![cur[r]].undo = u]
        PROVE  \A j \in Keys : RowKept(j)
    <3>1. actions'[cur[r]] = [actions[cur[r]] EXCEPT !.status = s, !.undo = u]
      BY <2>1, <2>2
    <3>2. actions'[cur[r]].before = actions[cur[r]].before
      BY <2>1, <3>1 DEF ActionRow
    <3>3. \A j \in Keys \ {cur[r]} : actions'[j] = actions[j]
      BY <2>2
    <3> QED BY <2>1, <3>2, <3>3
  <2>3. CASE MarkCommitted(r)
    <3>1. actions' = [actions EXCEPT ![cur[r]].status = "committed", ![cur[r]].undo = "open"]
      BY <2>3 DEF MarkCommitted
    <3> HIDE DEF RowKept
    <3> QED BY <2>2, <3>1
  <2>4. CASE MarkRolledBack(r)
    <3>1. actions' = [actions EXCEPT ![cur[r]].status = "rolled_back", ![cur[r]].undo = "null"]
      BY <2>4 DEF MarkRolledBack
    <3> HIDE DEF RowKept
    <3> QED BY <2>2, <3>1
  <2> QED BY <1>6, <2>3, <2>4
<1>7. ASSUME NEW r \in Requests, Continue(r) PROVE \A j \in Keys : RowKept(j)
  BY <1>2, <1>4, <1>5, <1>6, <1>7
    DEF Continue, Idempotency, Reserve, ApplyRemote, Record, Compensate, Confirm,
        UndoRemote, UndoLocal, Audit, rows
<1>8. ASSUME NEW r \in Requests, DbError(r) \/ Refresh(r) PROVE \A j \in Keys : RowKept(j)
  BY <1>2, <1>8 DEF DbError, Refresh, LoadRows, ResetMirror, rows
<1>9. ASSUME NEW k \in Keys, CloseWindow(k) PROVE \A j \in Keys : RowKept(j)
  BY <1>9 DEF CloseWindow, ActionRow
<1>10. ASSUME Crash \/ UNCHANGED vars PROVE \A j \in Keys : RowKept(j)
  BY <1>2, <1>10 DEF Crash, rows, vars
<1> QED BY <1>3, <1>7, <1>8, <1>9, <1>10 DEF Next

(* A request that is about to insert a proposal has just read its listing,  *)
(* or still has what it read.                                               *)
SnapKept(r) == pc'[r] = "preflight" =>
  \/ pc[r] = "preflight" /\ cur'[r] = cur[r] /\ snap'[r] = snap[r]
  \/ /\ snap'[r] = catalog[cur'[r].intent.listing] /\ snap'[r].version = cur'[r].version
     /\ catalog' = catalog

LEMMA SnapsKept ==
  ASSUME TypeOK, [Next]_vars
  PROVE  \A r \in Requests : SnapKept(r)
<1> USE DEF TypeOK, SnapKept
<1>1. ASSUME NEW r \in Requests, NEW i \in Intents, Propose(r, i) PROVE \A s \in Requests : SnapKept(s)
  BY <1>1 DEF Propose, Start, Goto, stores
<1>2. ASSUME NEW r \in Requests, NEW k \in Keys, NEW op, NEW p, Start(r, op, k, p),
             p # "preflight", UNCHANGED snap
      PROVE  \A s \in Requests : SnapKept(s)
  BY <1>2 DEF Start, Goto
<1>3. ASSUME NEW r \in Requests, NEW p, Goto(r, p), p # "preflight", UNCHANGED <<cur, snap>>
      PROVE  \A s \in Requests : SnapKept(s)
  BY <1>3 DEF Goto
<1>4. ASSUME UNCHANGED <<pc, cur, snap>> PROVE \A s \in Requests : SnapKept(s) BY <1>4
<1>5. ASSUME NEW r \in Requests, Arrive(r) PROVE \A s \in Requests : SnapKept(s)
  <2>1. ASSUME NEW k \in Keys, Approve(r, k) \/ Reject(r, k) \/ Rollback(r, k)
        PROVE  \A s \in Requests : SnapKept(s)
    BY <1>2, <2>1 DEF Approve, Reject, Rollback
  <2> QED BY <1>1, <1>5, <2>1 DEF Arrive
<1>6. ASSUME NEW r \in Requests, Continue(r) PROVE \A s \in Requests : SnapKept(s)
  BY <1>3, <1>6
    DEF Continue, InsertProposal, Idempotency, MarkPrior, MarkCommitting, Reserve, ApplyRemote,
        Record, Compensate, Confirm, MarkCommitted, UndoRemote, UndoLocal, MarkRolledBack,
        MarkFailed, Audit
<1>7. ASSUME NEW r \in Requests, DbError(r) \/ Refresh(r) PROVE \A s \in Requests : SnapKept(s)
  BY <1>3, <1>4, <1>7 DEF DbError, Refresh, LoadRows, ResetMirror, requests
<1>8. ASSUME Crash PROVE \A s \in Requests : SnapKept(s) BY <1>8 DEF Crash
<1>9. ASSUME (\E k \in Keys : CloseWindow(k)) \/ UNCHANGED vars PROVE \A s \in Requests : SnapKept(s)
  BY <1>4, <1>9 DEF CloseWindow, requests, vars
<1> QED BY <1>5, <1>6, <1>7, <1>8, <1>9 DEF Next

LEMMA SnapshotsStep ==
  ASSUME TypeOK, TypeOK', Snapshots, Positions, [Next]_vars
  PROVE  Snapshots'
<1>1. ASSUME NEW before, NEW v \in Nat, NEW l \in Listings, ReadAt(before, v, catalog[l])
      PROVE  ReadAt(before, v, catalog'[l])
  <2>1. catalog[l] \in Row /\ catalog'[l] \in Row BY DEF TypeOK
  <2>2. catalog'[l] = catalog[l] \/ catalog[l].version < catalog'[l].version
    BY CatalogSteps DEF CatalogMovesOn
  <2> QED BY <1>1, <2>1, <2>2, ReadAtStays
<1>2. ASSUME NEW k \in Keys, actions'[k].status # "absent"
      PROVE  ReadAt(actions'[k].before, k.version, catalog'[k.intent.listing])
  <2>1. ReadAt(actions'[k].before, k.version, catalog[k.intent.listing])
    BY <1>2, RowsKept DEF RowKept, Snapshots
  <2> QED BY <1>1, <2>1, KeyParts
<1>3. ASSUME NEW r \in Requests, pc'[r] = "preflight"
      PROVE  ReadAt(snap'[r], cur'[r].version, catalog'[cur'[r].intent.listing])
  <2>1. cur'[r] \in Keys BY DEF TypeOK
  <2>2. CASE pc[r] = "preflight" /\ cur'[r] = cur[r] /\ snap'[r] = snap[r]
    <3>1. ReadAt(snap'[r], cur'[r].version, catalog[cur'[r].intent.listing])
      BY <2>2 DEF Snapshots
    <3> QED BY <1>1, <2>1, <3>1, KeyParts
  <2>3. CASE /\ snap'[r] = catalog[cur'[r].intent.listing] /\ snap'[r].version = cur'[r].version
             /\ catalog' = catalog
    <3>1. cur'[r].version \in Nat BY <2>1, KeyParts
    <3> QED BY <2>3, <3>1 DEF ReadAt
  <2> QED BY <1>3, <2>2, <2>3, SnapsKept DEF SnapKept
<1> QED BY <1>2, <1>3 DEF Snapshots

(* What the only request knows at its position, action by action. *)
LEMMA PositionsStep ==
  ASSUME NEW q, Requests = {q}, TypeOK, TypeOK', Snapshots, Positions, Ahead, [Next]_vars
  PROVE  Positions'
<1> USE DEF TypeOK
<1>1. q \in Requests /\ \A r \in Requests : r = q OBVIOUS
<1> DEFINE Free(p) == p \notin {"markCommitting", "reserve", "apply", "record", "compensate"}
<1>2. ASSUME NEW k \in Keys, NEW op, NEW p, Start(q, op, k, p), Free(p),
             p = "preflight" \/ p = "idle" \/ actions'[k].status # "absent", UNCHANGED refresh
      PROVE  Positions'
  BY <1>1, <1>2 DEF Start, Goto, Positions
<1>3. ASSUME NEW p, Goto(q, p), Free(p), p \in {"idle", "preflight"} \/ actions'[cur[q]].status # "absent",
             UNCHANGED <<cur, refresh>>, refresh[q] = "none"
      PROVE  Positions'
  BY <1>1, <1>3 DEF Goto, Positions
<1>4. ASSUME NEW i \in Intents, Propose(q, i) PROVE Positions'
  <2>1. [intent |-> i, version |-> catalog[i.listing].version] \in Keys
    BY <1>4 DEF Propose, Keys
  <2> QED BY <1>2, <1>4, <2>1 DEF Propose, mirror
<1>5. ASSUME NEW k \in Keys, Approve(q, k) \/ Rollback(q, k) PROVE Positions'
  BY <1>2, <1>5 DEF Approve, Rollback, rows, mirror
<1>6. ASSUME NEW k \in Keys, Reject(q, k) PROVE Positions'
  <2>1. actions'[k].status # "absent" BY <1>6, PatchType DEF Reject, Statuses
  <2> QED BY <1>2, <1>6, <2>1 DEF Reject, mirror
<1>7. ASSUME InsertProposal(q) PROVE Positions'
  <2>1. refresh[q] = "none" BY <1>1, <1>7 DEF InsertProposal, Positions
  <2>2. actions'[cur[q]].status # "absent" BY <1>1, <1>7 DEF InsertProposal, ActionRow
  <2> QED BY <1>3, <1>7, <2>1, <2>2 DEF InsertProposal, mirror
<1>8. ASSUME Idempotency(q) PROVE Positions'
  BY <1>1, <1>8 DEF Idempotency, Goto, Positions, rows, stores, mirror
<1>9. ASSUME MarkPrior(q) \/ MarkFailed(q) PROVE Positions'
  <2>1. actions'[cur[q]].status # "absent"
    BY <1>1, <1>9, PatchType DEF MarkPrior, MarkFailed, Statuses
  <2> QED BY <1>1, <1>3, <1>9, <2>1 DEF MarkPrior, MarkFailed, Positions, mirror
<1>10. ASSUME MarkCommitting(q) PROVE Positions'
  <2>1. actions'[cur[q]].status # "absent"
    BY <1>1, <1>10, PatchType DEF MarkCommitting, Statuses
  <2> QED BY <1>1, <1>10, <2>1 DEF MarkCommitting, Goto, Positions, mirror, stores
<1>11. ASSUME Reserve(q) PROVE Positions'
  <2> DEFINE k == cur[q]
  <2>1. pc[q] = "reserve" /\ k \in Keys /\ k.intent.listing \in Listings /\ k.version \in Nat
    BY <1>1, <1>11, KeyParts DEF Reserve
  <2>2. refresh[q] = "none" /\ actions[k].status # "absent" /\ k \notin ledger
    BY <1>1, <2>1 DEF Positions
  <2>3. ASSUME remote[k.intent.listing].version = k.version
        PROVE  catalog[k.intent.listing].version = k.version
    <3>1. catalog[k.intent.listing].version <= k.version
      BY <1>1, <2>1, <2>2, <2>3 DEF Ahead
    <3>2. k.version <= catalog[k.intent.listing].version
      BY <2>1, <2>2 DEF Snapshots, ReadAt
    <3>3. catalog[k.intent.listing].version \in Nat BY <2>1 DEF Row
    <3> QED BY <2>1, <3>1, <3>2, <3>3
  <2> QED BY <1>1, <1>11, <2>1, <2>2, <2>3 DEF Reserve, Goto, Positions, rows, mirror
<1>12. ASSUME ApplyRemote(q) PROVE Positions'
  BY <1>1, <1>12 DEF ApplyRemote, Goto, Positions, rows, mirror
<1>13. ASSUME Record(q) PROVE Positions'
  BY <1>1, <1>13 DEF Record, Goto, Positions, mirror
<1>14. ASSUME Compensate(q) PROVE Positions'
  BY <1>1, <1>14 DEF Compensate, Goto, Positions, rows, mirror
<1>15. ASSUME Confirm(q) PROVE Positions'
  BY <1>1, <1>15 DEF Confirm, Goto, Positions, rows
<1>16. ASSUME MarkCommitted(q) \/ MarkRolledBack(q) PROVE Positions'
  <2>1. actions'[cur[q]].status # "absent"
    BY <1>1, <1>16 DEF MarkCommitted, MarkRolledBack, ActionRow
  <2> QED BY <1>1, <1>16, <2>1 DEF MarkCommitted, MarkRolledBack, Goto, Positions, mirror, stores
<1>17. ASSUME UndoRemote(q) PROVE Positions'
  BY <1>1, <1>17 DEF UndoRemote, Goto, Positions, rows, mirror
<1>18. ASSUME UndoLocal(q) PROVE Positions'
  BY <1>1, <1>18 DEF UndoLocal, Goto, Positions, rows
<1>19. ASSUME Audit(q) PROVE Positions'
  BY <1>1, <1>19 DEF Audit, Goto, Positions, rows, mirror, stores, AuditKind
<1>20. ASSUME DbError(q) PROVE Positions'
  BY <1>1, <1>20 DEF DbError, DbSteps, Goto, Positions, rows, mirror, stores
<1>21. ASSUME LoadRows(q) PROVE Positions'
  BY <1>1, <1>21 DEF LoadRows, Positions, rows, requests, stores
<1>22. ASSUME ResetMirror(q) PROVE Positions'
  BY <1>1, <1>22 DEF ResetMirror, Positions, rows, requests
<1>23. ASSUME NEW k \in Keys, CloseWindow(k) PROVE Positions'
  <2>1. \A j \in Keys : actions'[j].status = actions[j].status
    BY <1>23 DEF CloseWindow, ActionRow
  <2> QED BY <1>23, <2>1 DEF CloseWindow, Positions, requests, mirror, stores
<1>24. ASSUME Crash PROVE Positions'
  BY <1>1, <1>24 DEF Crash, Positions
<1>25. ASSUME UNCHANGED vars PROVE Positions'
  BY <1>25 DEF vars, Positions, requests, mirror, stores, rows
<1> QED
  BY <1>1, <1>4, <1>5, <1>6, <1>7, <1>8, <1>9, <1>10, <1>11, <1>12, <1>13, <1>14, <1>15, <1>16,
     <1>17, <1>18, <1>19, <1>20, <1>21, <1>22, <1>23, <1>24, <1>25
     DEF Next, Arrive, Continue, Refresh

(* The steps of the only request that leave both sides as they are, and do  *)
(* not bring it back from a commit or to a remote write.                    *)
SidesRest(q) ==
  /\ UNCHANGED <<catalog, remote, outOfStep>>
  /\ refresh'[q] = "none" => refresh[q] = "none"
  /\ pc'[q] # "confirm" => pc[q] # "confirm" \/ refresh'[q] # "none"
  /\ pc'[q] \notin {"confirm", "record", "compensate", "undoLocal"} =>
       \/ pc[q] \notin {"confirm", "record", "compensate", "undoLocal"}
       \/ refresh'[q] # "none"
  /\ pc'[q] = "record" => pc[q] = "record" /\ cur'[q] = cur[q]
  /\ pc'[q] = "compensate" => pc[q] \in {"record", "compensate"} /\ cur'[q] = cur[q]

LEMMA RestOrWrite ==
  ASSUME NEW q, Requests = {q}, TypeOK, Positions, [Next]_vars
  PROVE  \/ SidesRest(q) \/ ApplyRemote(q) \/ Record(q) \/ Compensate(q)
         \/ UndoRemote(q) \/ UndoLocal(q) \/ ResetMirror(q) \/ Crash
<1> USE DEF TypeOK, SidesRest
<1>1. q \in Requests /\ \A r \in Requests : r = q OBVIOUS
<1> DEFINE Rests(p) == p \notin {"confirm", "record", "compensate", "undoLocal"}
<1>2. ASSUME NEW k \in Keys, NEW op, NEW p, Start(q, op, k, p), Rests(p),
             UNCHANGED <<stores, mirror, outOfStep>>
      PROVE  SidesRest(q)
  BY <1>1, <1>2 DEF Start, Goto, stores, mirror
<1>3. ASSUME NEW p, Goto(q, p), Rests(p), Rests(pc[q]), UNCHANGED <<catalog, remote, mirror, outOfStep>>
      PROVE  SidesRest(q)
  BY <1>1, <1>3 DEF Goto, mirror
<1>4. ASSUME Arrive(q) PROVE SidesRest(q)
  <2>1. ASSUME NEW i \in Intents, Propose(q, i) PROVE SidesRest(q)
    <3>1. [intent |-> i, version |-> catalog[i.listing].version] \in Keys
      BY <2>1 DEF Propose, Keys
    <3> QED BY <1>2, <2>1, <3>1 DEF Propose
  <2>2. ASSUME NEW k \in Keys, Approve(q, k) \/ Reject(q, k) \/ Rollback(q, k) PROVE SidesRest(q)
    BY <1>2, <2>2 DEF Approve, Reject, Rollback
  <2> QED BY <1>4, <2>1, <2>2 DEF Arrive
<1>5. ASSUME \/ InsertProposal(q) \/ Idempotency(q) \/ MarkPrior(q) \/ MarkCommitting(q)
             \/ MarkCommitted(q) \/ MarkRolledBack(q) \/ MarkFailed(q)
      PROVE  SidesRest(q)
  BY <1>3, <1>5
    DEF InsertProposal, Idempotency, MarkPrior, MarkCommitting, MarkCommitted,
        MarkRolledBack, MarkFailed, stores
<1>6. ASSUME Reserve(q) PROVE SidesRest(q)
  BY <1>3, <1>6 DEF Reserve
<1>7. ASSUME Audit(q) \/ DbError(q) PROVE SidesRest(q)
  <2>1. Rests(pc[q]) BY <1>7 DEF Audit, DbError, AuditKind, DbSteps
  <2> QED BY <1>3, <1>7, <2>1 DEF Audit, DbError, stores
<1>8. ASSUME Confirm(q) PROVE SidesRest(q)
  BY <1>1, <1>8 DEF Confirm, Goto
<1>9. ASSUME LoadRows(q) PROVE SidesRest(q)
  BY <1>1, <1>9 DEF LoadRows, stores, requests
<1>10. ASSUME (\E k \in Keys : CloseWindow(k)) \/ UNCHANGED vars PROVE SidesRest(q)
  BY <1>10 DEF CloseWindow, stores, requests, mirror, vars
<1> QED
  BY <1>1, <1>4, <1>5, <1>6, <1>7, <1>8, <1>9, <1>10 DEF Next, Continue, Refresh

LEMMA RemoteRestored ==
  ASSUME TypeOK, NEW k \in Keys, remote' = restore(remote, k.intent.listing, actions[k].before)
  PROVE  /\ \A l \in Listings : remote[l].version <= remote'[l].version
         /\ \A l \in Listings : l # k.intent.listing => remote'[l] = remote[l]
         /\ Fields(remote'[k.intent.listing]) = Fields(actions[k].before)
<1> DEFINE id == k.intent.listing  before == actions[k].before
<1>1. remote \in [Listings -> Row] /\ id \in Listings /\ before \in Row
  BY KeyParts DEF TypeOK, ActionRow
<1>2. remote' = restore(remote, id, before) OBVIOUS
<1> HIDE DEF id, before
<1>3. /\ \A l \in Listings \ {id} : remote'[l] = remote[l]
      /\ remote'[id].version = remote[id].version + 1
  BY <1>1, <1>2, RestoreType
<1>4. \A l \in Listings : remote[l].version \in Nat BY <1>1 DEF Row
<1>5. Fields(remote'[id]) = Fields(before) BY <1>1, <1>2, RestoreFields
<1> QED BY <1>3, <1>4, <1>5 DEF id, before

LEMMA AheadStep ==
  ASSUME NEW q, Requests = {q}, TypeOK, TypeOK', Positions, Ahead, [Next]_vars
  PROVE  Ahead'
<1>1. q \in Requests /\ \A r \in Requests : r = q OBVIOUS
<1>2. \A l \in Listings : catalog[l].version \in Nat /\ remote[l].version \in Nat
                       /\ remote'[l].version \in Nat
  BY DEF TypeOK, Row
<1>3. CASE SidesRest(q) BY <1>1, <1>3 DEF SidesRest, Ahead
<1>4. ASSUME UNCHANGED <<catalog, refresh>>, pc[q] # "confirm",
             \A l \in Listings : remote[l].version <= remote'[l].version
      PROVE  Ahead'
  BY <1>1, <1>2, <1>4 DEF Ahead
<1>5. CASE ApplyRemote(q)
  <2>1. remote \in [Listings -> Row] /\ cur[q].intent \in Intents BY <1>1, KeyParts DEF TypeOK
  <2>2. remote' = remote \/ remote' = applyRemote(remote, cur[q].intent)
    BY <1>5 DEF ApplyRemote
  <2>3. \A l \in Listings : remote[l].version <= remote'[l].version
    BY <1>2, <2>1, <2>2, WritesMoveOn
  <2> QED BY <1>4, <1>5, <2>3 DEF ApplyRemote, mirror
<1>6. CASE Record(q)
  <2>1. CASE pc'[q] = "confirm" BY <1>1, <2>1 DEF Ahead
  <2>2. CASE UNCHANGED <<catalog, remote, refresh>>
    BY <1>1, <1>6, <2>2 DEF Record, Ahead
  <2> QED BY <1>1, <1>6, <2>1, <2>2 DEF Record, Goto, TypeOK, mirror
<1>7. CASE Compensate(q) \/ UndoRemote(q)
  <2>1. remote' = remote \/ remote' = restore(remote, cur[q].intent.listing, actions[cur[q]].before)
    BY <1>7 DEF Compensate, UndoRemote
  <2>2. cur[q] \in Keys BY <1>1 DEF TypeOK
  <2>3. \A l \in Listings : remote[l].version <= remote'[l].version
    BY <1>2, <2>1, <2>2, RemoteRestored
  <2> QED BY <1>4, <1>7, <2>3 DEF Compensate, UndoRemote, mirror
<1>8. CASE UndoLocal(q)
  BY <1>1, <1>8 DEF UndoLocal, Ahead, TypeOK
<1>9. CASE ResetMirror(q)
  <2>1. remote' = catalog' BY <1>1, <1>9 DEF ResetMirror, Positions
  <2> QED BY <1>2, <2>1 DEF Ahead
<1>10. CASE Crash
  BY <1>2, <1>10 DEF Crash, Ahead
<1> QED BY <1>3, <1>5, <1>6, <1>7, <1>8, <1>9, <1>10, RestOrWrite

LEMMA SidesStep ==
  ASSUME NEW q, Requests = {q}, SwapsAreRecorded,
         TypeOK, TypeOK', Snapshots, Positions, Sides, [Next]_vars
  PROVE  Sides'
<1>1. q \in Requests /\ \A r \in Requests : r = q OBVIOUS
<1> DEFINE k == cur[q]  id == cur[q].intent.listing
<1>2. k \in Keys /\ k.intent \in Intents /\ id \in Listings /\ remote \in [Listings -> Row]
  BY <1>1, KeyParts DEF TypeOK
<1>3. CASE SidesRest(q)
  BY <1>1, <1>3 DEF SidesRest, Sides
<1>4. CASE ApplyRemote(q)
  <2>0. pc[q] = "apply" /\ UNCHANGED <<catalog, refresh, cur, outOfStep>>
    BY <1>4 DEF ApplyRemote, mirror
  <2>1. CASE pc'[q] = "record" /\ remote' = applyRemote(remote, k.intent)
    <3>1. \A l \in Listings : k.intent.kind # "swap_pinned" /\ l # id => remote'[l] = remote[l]
      BY <1>2, <2>1, WritesMoveOn
    <3> QED BY <1>1, <2>0, <2>1, <3>1 DEF Sides
  <2>2. CASE pc'[q] = "fail" /\ UNCHANGED remote
    BY <1>1, <2>0, <2>2 DEF Sides
  <2> QED BY <1>1, <1>4, <2>1, <2>2 DEF ApplyRemote, Goto, TypeOK
<1>5. CASE Record(q)
  <2>0. pc[q] = "record" /\ UNCHANGED <<remote, refresh, cur, outOfStep>>
    BY <1>5 DEF Record, mirror
  <2>1. CASE pc'[q] = "confirm" BY <1>1, <2>1 DEF Sides
  <2>2. CASE pc'[q] = "compensate" /\ UNCHANGED catalog
    BY <1>1, <2>0, <2>2 DEF Sides
  <2> QED BY <1>1, <1>5, <2>1, <2>2 DEF Record, Goto, TypeOK
<1>6. CASE Compensate(q)
  <2>0. pc[q] = "compensate" /\ UNCHANGED <<catalog, refresh>> /\ pc'[q] = "fail"
    BY <1>1, <1>6 DEF Compensate, Goto, TypeOK, mirror
  <2>1. CASE outOfStep' = TRUE BY <2>1 DEF Sides
  <2>2. CASE UNCHANGED outOfStep /\ remote' = restore(remote, id, actions[k].before)
    <3>1. /\ \A l \in Listings : l # id => remote'[l] = remote[l]
          /\ Fields(remote'[id]) = Fields(actions[k].before)
      BY <1>2, <2>2, RemoteRestored
    <3>2. Fields(actions[k].before) = Fields(catalog[id])
      BY <1>1, <1>2, <2>0 DEF Positions, Snapshots, ReadAt
    <3>3. k.intent.kind # "swap_pinned"
      BY <1>1, <1>2, <2>0 DEF Positions, SwapsAreRecorded
    <3> QED BY <1>1, <2>0, <2>2, <3>1, <3>2, <3>3 DEF Sides
  <2> QED BY <1>6, <2>1, <2>2 DEF Compensate
<1>7. CASE UndoRemote(q)
  <2>0. pc[q] = "undoRemote" /\ UNCHANGED <<catalog, refresh, outOfStep>>
    BY <1>7 DEF UndoRemote, mirror
  <2>1. CASE pc'[q] = "undoLocal" BY <1>1, <2>1 DEF Sides
  <2>2. CASE pc'[q] = "fail" /\ UNCHANGED remote
    BY <1>1, <2>0, <2>2 DEF Sides
  <2> QED BY <1>1, <1>7, <2>1, <2>2 DEF UndoRemote, Goto, TypeOK
<1>8. CASE UndoLocal(q)
  BY <1>1, <1>8 DEF UndoLocal, Sides, TypeOK
<1>9. CASE ResetMirror(q)
  <2>1. remote' = catalog' BY <1>1, <1>9 DEF ResetMirror, Positions
  <2> QED BY <2>1 DEF Sides
<1>10. CASE Crash BY <1>10 DEF Crash, Sides
<1> QED BY <1>3, <1>4, <1>5, <1>6, <1>7, <1>8, <1>9, <1>10, RestOrWrite

LEMMA SerialInit == Init => SerialInv /\ Sides
<1> SUFFICES ASSUME Init PROVE SerialInv /\ Sides OBVIOUS
<1>1. TypeOK BY InitInv DEF Inv
<1>2. Snapshots /\ Positions BY DEF Init, Snapshots, Positions
<1>3. Ahead
  <2>1. \A l \in Listings : InitialCatalog[l].version \in Nat BY ExecutorAssumption DEF Row
  <2>2. \A l \in Listings : catalog[l].version \in Nat /\ remote[l].version = catalog[l].version
    BY <2>1 DEF Init
  <2>3. \A l \in Listings : catalog[l].version <= remote[l].version
    <3>1. \A x \in Nat : x <= x OBVIOUS
    <3> QED BY <2>2, <3>1, Zenon
  <2> QED BY <2>3 DEF Ahead
<1>4. Sides BY DEF Init, Sides
<1> QED BY <1>1, <1>2, <1>3, <1>4 DEF SerialInv

LEMMA SerialStep ==
  ASSUME OneAtATime
  PROVE  /\ SerialInv /\ [Next]_vars => SerialInv'
         /\ SwapsAreRecorded /\ SerialInv /\ Sides /\ [Next]_vars => Sides'
<1>1. PICK q \in Requests : Requests = {q} BY DEF OneAtATime
<1>2. TypeOK /\ [Next]_vars => TypeOK' BY NextType
<1>3. SerialInv /\ [Next]_vars => SerialInv'
  BY <1>1, <1>2, SnapshotsStep, PositionsStep, AheadStep DEF SerialInv
<1>4. SwapsAreRecorded /\ SerialInv /\ Sides /\ [Next]_vars => Sides'
  BY <1>1, <1>2, SidesStep DEF SerialInv
<1> QED BY <1>3, <1>4

(* A write lands on the listing version it was planned against, whatever    *)
(* fails, while there is one request at a time.  (With two, a refresh can   *)
(* put an older version back on the marketplace that the lock compares.)    *)
THEOREM SerialLands == OneAtATime => (Spec => LandsOnPlannedVersion)
<1> SUFFICES ASSUME OneAtATime PROVE Spec => LandsOnPlannedVersion OBVIOUS
<1>1. SerialInv /\ [Next]_vars =>
        [\A k \in Keys : k \in ledger' \ ledger =>
           catalog[k.intent.listing].version = k.version]_<<catalog, ledger>>
  <2> SUFFICES ASSUME SerialInv, [Next]_vars, NEW k \in Keys, k \in ledger' \ ledger
               PROVE  catalog[k.intent.listing].version = k.version
    OBVIOUS
  <2>1. PICK q \in Requests : Record(q)
    <3>1. \/ \E q \in Requests : Record(q)
          \/ UNCHANGED ledger
      BY DEF Next, Arrive, Continue, Refresh, Propose, Approve, Reject, Rollback, InsertProposal,
             Idempotency, MarkPrior, MarkCommitting, Reserve, ApplyRemote, Compensate, Confirm,
             MarkCommitted, UndoRemote, UndoLocal, MarkRolledBack, MarkFailed, Audit, DbError,
             LoadRows, ResetMirror, CloseWindow, Crash, vars, rows
    <3> QED BY <3>1
  <2>2. pc[q] = "record" /\ k = cur[q] BY <2>1 DEF Record
  <2> QED BY <2>2 DEF SerialInv, Positions
<1> QED BY SerialInit, SerialStep, <1>1, PTL DEF Spec, LandsOnPlannedVersion

(* When everything one seller started has ended, the listings are what the  *)
(* marketplace has, whatever failed on the way, unless an undo of a remote  *)
(* write is known to have failed: executor.ts, lines 3 to 22.               *)
THEOREM SerialAgree == OneAtATime /\ SwapsAreRecorded => (Spec => []SidesAgree)
<1> SUFFICES ASSUME OneAtATime, SwapsAreRecorded PROVE Spec => []SidesAgree OBVIOUS
<1>1. SerialInv /\ Sides /\ [Next]_vars => (SerialInv /\ Sides)' BY SerialStep
<1>2. SerialInv /\ Sides => SidesAgree
  BY DEF OneAtATime, Sides, SidesAgree, Settled, Agree
<1> QED BY SerialInit, <1>1, <1>2, PTL DEF Spec

-----------------------------------------------------------------------------
(***************************************************************************)
(* The same protocol against eBay, where nothing holds a reservation: what *)
(* is reserved is a reading, what is written is compared with it once, and *)
(* an undo is several calls.  However many actions are under way, whatever *)
(* is changed there and whenever the target is switched, what a write      *)
(* replaces is what was reserved and what an undo leaves is what was       *)
(* planned against.  Both are about the offer between two calls of one     *)
(* action; any step of another action that touches the offer says so in    *)
(* `moved', so an action is disturbed only by its own step.                *)
(***************************************************************************)
CONSTANTS Actions, Kind, NewPrice, NewQty, MaxEdits, MaxFaults, MaxSwitches

VARIABLES local, offer, target, seen, held, act, edits, faults, switches, moved

Ebay == INSTANCE EbayAdapter WITH row <- local

Lot == [price : {Ebay!Listing.price, NewPrice}, qty : 0..2, live : BOOLEAN]

AdapterPCs == Ebay!Settled \cup {"approved", "reserved", "read", "applied", "priceBack", "qtyBack", "publish", "restored"}

AdapterTypes ==
  /\ local \in Lot /\ offer \in Lot /\ target \in {"mock", "ebay"} /\ held \subseteq Actions /\ moved \subseteq Actions
  /\ seen \in [Actions -> Lot \cup {Ebay!Unread}]
  /\ act \in [Actions -> [pc : AdapterPCs, before : Lot \cup {Ebay!Unread}, now : Lot \cup {Ebay!Unread}, undoing : BOOLEAN]]

(* What is read is a lot, and what was planned was offered. *)
Planned == \A a \in Actions :
  /\ act[a].pc # "new" => act[a].before \in Lot /\ act[a].before.live
  /\ act[a].pc = "read" => act[a].now \in Lot

(* Between the second reading and the write. *)
Locked == \A a \in Actions : Ebay!At(a, "read") /\ seen[a] # Ebay!Unread /\ a \notin moved =>
  offer.price = seen[a].price /\ offer.qty = seen[a].qty

(* Between the calls of an undo: what is put back stays, unless it is moved.*)
PutBack == \A a \in Actions : a \notin moved =>
  /\ act[a].pc \in {"qtyBack", "publish"} => offer.price = act[a].before.price
  /\ act[a].pc = "publish" => offer.qty = act[a].before.qty

AdapterInv == AdapterTypes /\ Planned /\ Locked /\ PutBack

LEMMA AdapterInvInit == Ebay!Init => AdapterInv
<1> SUFFICES ASSUME Ebay!Init PROVE AdapterInv
  OBVIOUS
<1>1. Ebay!Listing \in Lot /\ offer = Ebay!Listing /\ local = Ebay!Listing
  BY DEF Ebay!Listing, Lot, Ebay!Init
<1>2. AdapterTypes
  BY <1>1 DEF Ebay!Init, AdapterTypes, AdapterPCs, Ebay!Settled
<1>3. Planned /\ Locked /\ PutBack
  BY DEF Ebay!Init, Planned, Locked, PutBack, Ebay!At
<1> QED BY <1>2, <1>3 DEF AdapterInv

(* What a request does to its own action, and to the offer. *)
LEMMA AdapterTypesKept == ASSUME Ebay!AdapterAssumption, AdapterInv, [Ebay!Next]_Ebay!vars PROVE AdapterTypes'
<1> USE DEF AdapterInv, AdapterTypes, Ebay!At, Ebay!Goto, Ebay!Touch
<1>1. CASE Ebay!Edit
  <2> PICK o \in [price : {NewPrice, Ebay!Listing.price}, qty : {1, 2}, live : BOOLEAN] : offer' = o
    BY <1>1 DEF Ebay!Edit
  <2>1. offer' \in Lot
    BY DEF Lot
  <2> QED BY <1>1, <2>1 DEF Ebay!Edit
<1>2. ASSUME NEW t \in {"mock", "ebay"}, Ebay!SetWriteTarget(t) PROVE AdapterTypes'
  BY <1>2 DEF Ebay!SetWriteTarget
<1>3. ASSUME NEW a \in Actions,
             \/ Ebay!Plan(a) \/ Ebay!Reserve(a) \/ Ebay!Read(a) \/ Ebay!ApplyToMock(a) \/ Ebay!WriteFails(a)
             \/ Ebay!CommitFails(a) \/ Ebay!Rollback(a) \/ Ebay!CompensateMock(a) \/ Ebay!CompensateFails(a)
      PROVE  AdapterTypes'
  <2>1. CASE Ebay!Plan(a)
    BY <2>1 DEF Ebay!Plan, AdapterPCs
  <2>2. CASE Ebay!Reserve(a)
    BY <2>2 DEF Ebay!Reserve, AdapterPCs, Ebay!Settled
  <2>3. CASE Ebay!Read(a)
    <3>1. CASE Ebay!Moved(a)
      BY <2>3, <3>1 DEF Ebay!Read, AdapterPCs, Ebay!Settled
    <3>2. CASE ~Ebay!Moved(a)
      <4>1. act' = [act EXCEPT ![a] = [@ EXCEPT !.pc = "read", !.now = offer]]
        BY <2>3, <3>2 DEF Ebay!Read
      <4>2. act' \in [Actions -> [pc : AdapterPCs, before : Lot \cup {Ebay!Unread}, now : Lot \cup {Ebay!Unread}, undoing : BOOLEAN]]
        BY <4>1 DEF AdapterPCs
      <4> QED BY <2>3, <3>2, <4>2 DEF Ebay!Read
    <3> QED BY <3>1, <3>2
  <2>4. CASE Ebay!ApplyToMock(a) \/ Ebay!CompensateMock(a) \/ Ebay!CompensateFails(a)
    BY <2>4 DEF Ebay!ApplyToMock, Ebay!CompensateMock, Ebay!CompensateFails, AdapterPCs, Ebay!Settled, Ebay!Restored
  <2>5. CASE Ebay!WriteFails(a)
    BY <2>5 DEF Ebay!WriteFails, AdapterPCs, Ebay!Settled
  <2>6. CASE Ebay!CommitFails(a)
    BY <2>6 DEF Ebay!CommitFails, AdapterPCs
  <2>7. CASE Ebay!Rollback(a)
    BY <2>7 DEF Ebay!Rollback, AdapterPCs
  <2> QED BY <1>3, <2>1, <2>2, <2>3, <2>4, <2>5, <2>6, <2>7
<1>4. ASSUME NEW a \in Actions, Ebay!Write(a) PROVE AdapterTypes'
  <2>1. act[a].now \in Lot
    BY <1>4 DEF Ebay!Write, Planned
  <2>2. offer' \in Lot
    BY <1>4, <2>1 DEF Ebay!Write, Lot, Ebay!AdapterAssumption
  <2> QED BY <1>4, <2>2 DEF Ebay!Write, AdapterPCs
<1>5. ASSUME NEW a \in Actions, Ebay!Commit(a) PROVE AdapterTypes'
  <2>1. local' \in Lot
    BY <1>5 DEF Ebay!Commit, Lot, Ebay!AdapterAssumption
  <2> QED BY <1>5, <2>1 DEF Ebay!Commit, AdapterPCs, Ebay!Settled
<1>6. ASSUME NEW a \in Actions, Ebay!PriceBack(a) \/ Ebay!QtyBack(a) \/ Ebay!Publish(a) PROVE AdapterTypes'
  <2>1. act[a].before \in Lot
    BY <1>6 DEF Ebay!PriceBack, Ebay!QtyBack, Ebay!Publish, Planned
  <2>2. offer' \in Lot
    BY <1>6, <2>1 DEF Ebay!PriceBack, Ebay!QtyBack, Ebay!Publish, Lot
  <2> QED BY <1>6, <2>2 DEF Ebay!PriceBack, Ebay!QtyBack, Ebay!Publish, Ebay!Restored, AdapterPCs, Ebay!Settled
<1>7. ASSUME NEW a \in Actions, Ebay!UndoLocal(a) PROVE AdapterTypes'
  BY <1>7 DEF Ebay!UndoLocal, Planned, AdapterPCs, Ebay!Settled
<1>8. CASE UNCHANGED Ebay!vars
  BY <1>8 DEF Ebay!vars
<1> QED BY <1>1, <1>2, <1>3, <1>4, <1>5, <1>6, <1>7, <1>8 DEF Ebay!Next

(* A request's own steps, about one action. *)
Own(a) ==
  \/ Ebay!Plan(a) \/ Ebay!Reserve(a) \/ Ebay!Read(a) \/ Ebay!ApplyToMock(a) \/ Ebay!Write(a) \/ Ebay!WriteFails(a)
  \/ Ebay!Commit(a) \/ Ebay!CommitFails(a) \/ Ebay!Rollback(a) \/ Ebay!CompensateMock(a) \/ Ebay!PriceBack(a)
  \/ Ebay!QtyBack(a) \/ Ebay!Publish(a) \/ Ebay!CompensateFails(a) \/ Ebay!UndoLocal(a)

(* An action is what it was, but for the one that moves. *)
LEMMA OthersStay ==
  ASSUME AdapterTypes, NEW a \in Actions, NEW b \in Actions, a # b,
         Own(a)
  PROVE  /\ act'[b] = act[b] /\ seen'[b] = seen[b]
         /\ b \notin moved' => b \notin moved /\ offer' = offer
<1> USE DEF AdapterTypes, Ebay!Goto, Ebay!Touch
<1>1. CASE Ebay!Plan(a) \/ Ebay!Reserve(a) \/ Ebay!Read(a) \/ Ebay!ApplyToMock(a) \/ Ebay!WriteFails(a)
  BY <1>1 DEF Ebay!Plan, Ebay!Reserve, Ebay!Read, Ebay!ApplyToMock, Ebay!WriteFails
<1>2. CASE Ebay!Write(a)
  BY <1>2 DEF Ebay!Write
<1>3. CASE Ebay!Commit(a) \/ Ebay!CommitFails(a) \/ Ebay!Rollback(a) \/ Ebay!CompensateMock(a) \/ Ebay!CompensateFails(a) \/ Ebay!UndoLocal(a)
  BY <1>3 DEF Ebay!Commit, Ebay!CommitFails, Ebay!Rollback, Ebay!CompensateMock, Ebay!CompensateFails, Ebay!UndoLocal
<1>4. CASE Ebay!PriceBack(a) \/ Ebay!QtyBack(a) \/ Ebay!Publish(a)
  BY <1>4 DEF Ebay!PriceBack, Ebay!QtyBack, Ebay!Publish
<1> QED BY <1>1, <1>2, <1>3, <1>4 DEF Own

(* What holds of the action that moves. *)
Fine(a) ==
  /\ act[a].pc # "new" => act[a].before \in Lot /\ act[a].before.live
  /\ act[a].pc = "read" => act[a].now \in Lot
  /\ Ebay!At(a, "read") /\ seen[a] # Ebay!Unread /\ a \notin moved => offer.price = seen[a].price /\ offer.qty = seen[a].qty
  /\ a \notin moved =>
       /\ act[a].pc \in {"qtyBack", "publish"} => offer.price = act[a].before.price
       /\ act[a].pc = "publish" => offer.qty = act[a].before.qty

LEMMA FineIsInv == AdapterInv <=> AdapterTypes /\ \A a \in Actions : Fine(a)
  BY DEF AdapterInv, Planned, Locked, PutBack, Fine

LEMMA OwnStep ==
  ASSUME AdapterTypes, NEW a \in Actions, Fine(a),
         Own(a)
  PROVE  Fine(a)'
<1> USE DEF AdapterTypes, Ebay!Goto, Ebay!Touch, Ebay!At, Fine
<1>1. CASE Ebay!Plan(a)
  BY <1>1 DEF Ebay!Plan
<1>2. CASE Ebay!Reserve(a)
  BY <1>2 DEF Ebay!Reserve
<1>3. CASE Ebay!Read(a)
  <2>1. CASE Ebay!Moved(a)
    BY <1>3, <2>1 DEF Ebay!Read
  <2>2. CASE ~Ebay!Moved(a)
    <3>1. act'[a] = [act[a] EXCEPT !.pc = "read", !.now = offer] /\ UNCHANGED <<offer, seen>>
      BY <1>3, <2>2 DEF Ebay!Read
    <3>2. /\ act'[a].pc = "read" /\ act'[a].now = offer /\ act'[a].before = act[a].before
      BY <3>1
    <3>3. act[a].pc # "new"
      BY <1>3 DEF Ebay!Read
    <3>4. seen[a] # Ebay!Unread => offer.price = seen[a].price /\ offer.qty = seen[a].qty
      BY <2>2 DEF Ebay!Moved
    <3> QED BY <3>1, <3>2, <3>3, <3>4
  <2> QED BY <2>1, <2>2
<1>4. CASE Ebay!ApplyToMock(a) \/ Ebay!CompensateMock(a) \/ Ebay!CompensateFails(a) \/ Ebay!WriteFails(a)
  BY <1>4 DEF Ebay!ApplyToMock, Ebay!CompensateMock, Ebay!CompensateFails, Ebay!WriteFails, Ebay!Restored
<1>5. CASE Ebay!Write(a)
  BY <1>5 DEF Ebay!Write
<1>6. CASE Ebay!Commit(a) \/ Ebay!UndoLocal(a)
  BY <1>6 DEF Ebay!Commit, Ebay!UndoLocal
<1>10. CASE Ebay!CommitFails(a)
  BY <1>10 DEF Ebay!CommitFails
<1>11. CASE Ebay!Rollback(a)
  BY <1>11 DEF Ebay!Rollback
<1>7. CASE Ebay!PriceBack(a)
  BY <1>7 DEF Ebay!PriceBack, Lot
<1>8. CASE Ebay!QtyBack(a)
  BY <1>8 DEF Ebay!QtyBack, Ebay!Restored, Lot
<1>9. CASE Ebay!Publish(a)
  BY <1>9 DEF Ebay!Publish, Ebay!Restored
<1> QED BY <1>1, <1>2, <1>3, <1>4, <1>5, <1>6, <1>7, <1>8, <1>9, <1>10, <1>11 DEF Own

LEMMA AdapterInvKept == ASSUME Ebay!AdapterAssumption, AdapterInv, [Ebay!Next]_Ebay!vars PROVE AdapterInv'
<1>1. AdapterTypes /\ AdapterTypes' /\ \A a \in Actions : Fine(a)
  BY AdapterTypesKept, FineIsInv DEF AdapterInv
<1>2. ASSUME NEW b \in Actions PROVE Fine(b)'
  <2>1. CASE Ebay!Edit
    <3>1. act' = act /\ seen' = seen /\ moved' = Actions
      BY <2>1 DEF Ebay!Edit
    <3> QED BY <1>1, <3>1 DEF Fine, Ebay!At
  <2>2. ASSUME NEW t \in {"mock", "ebay"}, Ebay!SetWriteTarget(t) PROVE Fine(b)'
    <3>1. act' = act /\ moved' = moved /\ offer' = offer /\ seen'[b] \in {seen[b], Ebay!Unread}
      BY <2>2 DEF Ebay!SetWriteTarget
    <3> QED BY <1>1, <3>1 DEF Fine, Ebay!At
  <2>3. ASSUME NEW a \in Actions, Own(a) PROVE Fine(b)'
    <3>1. CASE a = b
      BY <1>1, <2>3, <3>1, OwnStep DEF Own
    <3>2. CASE a # b
      <4>1. /\ act'[b] = act[b] /\ seen'[b] = seen[b]
            /\ b \notin moved' => b \notin moved /\ offer' = offer
        BY <1>1, <2>3, <3>2, OthersStay DEF Own
      <4> QED BY <1>1, <4>1 DEF Fine, Ebay!At
    <3> QED BY <3>1, <3>2
  <2>4. CASE UNCHANGED Ebay!vars
    BY <1>1, <2>4 DEF Ebay!vars, Fine, Ebay!At
  <2> QED BY <2>1, <2>2, <2>3, <2>4 DEF Ebay!Next, Own
<1> QED BY <1>1, <1>2 DEF AdapterInv, Planned, Locked, PutBack, Fine

(* The types, for every kind of change a seller may make there.             *)
THEOREM AdapterTypeCorrect == Ebay!AdapterAssumption => (Ebay!Spec => []Ebay!TypeOK)
<1> SUFFICES ASSUME Ebay!AdapterAssumption PROVE Ebay!Spec => []Ebay!TypeOK OBVIOUS
<1>1. AdapterInv /\ [Ebay!Next]_Ebay!vars => AdapterInv' BY AdapterInvKept
<1>2. AdapterInv => Ebay!TypeOK BY DEF AdapterInv, AdapterTypes, Ebay!TypeOK, Lot, AdapterPCs
<1> QED BY AdapterInvInit, <1>1, <1>2, PTL DEF Ebay!Spec

(* However many actions are under way, whatever the seller and the buyers   *)
(* change on eBay and whenever the target is switched, a write replaces     *)
(* what was reserved.                                                       *)
THEOREM WritesLandAsReserved == Ebay!AdapterAssumption => (Ebay!Spec => Ebay!LandsAsReserved)
<1> SUFFICES ASSUME Ebay!AdapterAssumption PROVE Ebay!Spec => Ebay!LandsAsReserved OBVIOUS
<1>1. AdapterInv /\ [Ebay!Next]_Ebay!vars => AdapterInv' BY AdapterInvKept
<1>2. AdapterInv => \A a \in Actions : Ebay!At(a, "read") /\ act'[a].pc = "applied" /\ seen[a] # Ebay!Unread /\ a \notin moved =>
                                  offer.price = seen[a].price /\ offer.qty = seen[a].qty
  BY DEF AdapterInv, Locked
<1> QED BY AdapterInvInit, <1>1, <1>2, PTL DEF Ebay!Spec, Ebay!LandsAsReserved

(* An undo that went through every call left the offer as it was when the   *)
(* action was planned, unless somebody else moved it in between.            *)
THEOREM UndoRestores == Ebay!AdapterAssumption => (Ebay!Spec => Ebay!UndoneIsRestored)
<1> SUFFICES ASSUME Ebay!AdapterAssumption PROVE Ebay!Spec => Ebay!UndoneIsRestored OBVIOUS
<1>1. AdapterInv /\ [Ebay!Next]_Ebay!vars => AdapterInv' BY AdapterInvKept
<1>2. ASSUME AdapterInv, [Ebay!Next]_Ebay!vars, NEW b \in Actions,
             act[b].pc \in {"qtyBack", "publish"}, act'[b].pc = "restored", b \notin moved
      PROVE  offer' = act[b].before
  <2>1. AdapterTypes /\ Fine(b) BY <1>2, FineIsInv
  <2>2. Ebay!QtyBack(b) \/ Ebay!Publish(b)
    <3>1. act' # act BY <1>2
    <3>2. PICK a \in Actions : Own(a)
      BY <1>2, <3>1 DEF Ebay!Next, Own, Ebay!Edit, Ebay!SetWriteTarget, Ebay!vars
    <3>3. a = b
      BY <2>1, <3>2, OthersStay, <1>2 DEF Own
    <3> QED BY <1>2, <2>1, <3>2, <3>3 DEF Own, AdapterTypes, Ebay!At, Ebay!Goto, Ebay!Plan, Ebay!Reserve, Ebay!Read, Ebay!ApplyToMock, Ebay!Write, Ebay!WriteFails,
              Ebay!Commit, Ebay!CommitFails, Ebay!Rollback, Ebay!CompensateMock, Ebay!PriceBack, Ebay!CompensateFails, Ebay!UndoLocal
  <2>3. Ebay!Publish(b) /\ act[b].pc = "publish"
    <3>1. act[b].pc # "new" BY <1>2
    <3>2. act[b].before.live BY <2>1, <3>1 DEF Fine
    <3> QED BY <1>2, <2>1, <2>2, <3>2 DEF Ebay!QtyBack, Ebay!Publish, AdapterTypes, Ebay!At, Ebay!Goto
  <2>4. offer \in Lot /\ act[b].before \in Lot /\ act[b].before.live = TRUE
    BY <2>1, <2>3 DEF AdapterTypes, Fine, Lot
  <2>5. offer' = [offer EXCEPT !.live = TRUE] /\ offer.price = act[b].before.price /\ offer.qty = act[b].before.qty
    BY <1>2, <2>1, <2>3 DEF Ebay!Publish, Fine
  <2> QED BY <2>4, <2>5 DEF Lot
<1>3. AdapterInv /\ [Ebay!Next]_Ebay!vars => \A a \in Actions :
        act[a].pc \in {"qtyBack", "publish"} /\ act'[a].pc = "restored" /\ a \notin moved => offer' = act[a].before
  BY <1>2
<1> QED BY AdapterInvInit, <1>1, <1>3, PTL DEF Ebay!Spec, Ebay!UndoneIsRestored

-----------------------------------------------------------------------------
(***************************************************************************)
(* Actions on a Twitch channel.  What is seen of an action that is not on  *)
(* the ledger was lost or told, but for the effect that is being recorded; *)
(* of one that is, an undo withdraws the last effect, and the others have  *)
(* been answered for.                                                      *)
(***************************************************************************)
CONSTANTS MaxApprovals, MaxHost

VARIABLES applied, tries, shown, poll, live, lost, told, spent

Channel == INSTANCE TwitchActions

ChannelStatuses == {"proposed", "committing", "committed", "failed", "rolled_back"}
ChannelPCs == {"idle", "reserve", "apply", "record", "compensate", "undo", "undone"}
SpentSoFar == [approvals : 0..MaxApprovals, faults : Nat, host : Nat]

ChannelTypes ==
  /\ act \in [Actions -> [status : ChannelStatuses, pc : ChannelPCs]]
  /\ applied \in [Actions -> Nat] /\ tries \in [Actions -> Nat]
  /\ ledger \subseteq Actions /\ shown \subseteq Actions \X Nat /\ live \in BOOLEAN
  /\ spent \in SpentSoFar

PollIsSeen == poll \in {Channel!None, Channel!Host} \cup shown

(* A status, and where its request is. *)
InStep(a) ==
  /\ act[a].pc \in {"reserve", "apply", "record", "compensate"} => act[a].status = "committing" /\ a \notin ledger
  /\ act[a].pc \in {"undo", "undone"} => act[a].status = "committed"
  /\ act[a].status = "committed" => a \in ledger
  /\ act[a].status = "rolled_back" \/ act[a].pc = "undone" => a \in undone
  /\ a \in undone => a \in ledger

(* An effect for each approval at most, and ids no larger. *)
Tried(a) ==
  /\ applied[a] <= tries[a] /\ tries[a] <= spent.approvals
  /\ act[a].pc \in {"reserve", "apply"} => tries[a] + 1 <= spent.approvals

LastEffect(a) == <<a, applied[a]>>
Answered(a) == Channel!Ours(a) \subseteq lost \cup told

(* What is seen of an action, and who answers for it. *)
Accounted(a) ==
  /\ act[a].pc \in {"record", "compensate"} => LastEffect(a) \in Channel!Ours(a)
  /\ a \in ledger /\ a \notin undone => Channel!Ours(a) # {}
  /\ Answered(a) \/ a \in ledger \/ act[a].pc \in {"record", "compensate"}
  /\ Answered(a) \/ applied[a] = 0 \/ Channel!Ours(a) \ {LastEffect(a)} \subseteq lost \cup told
  /\ act[a].pc \in {"record", "compensate"} => Channel!Ours(a) \ {LastEffect(a)} \subseteq lost \cup told
  /\ a \in undone => Answered(a)

Fair(a) == InStep(a) /\ Tried(a) /\ Accounted(a)
ChannelInv == ChannelTypes /\ PollIsSeen /\ \A a \in Actions : Fair(a)

AsItWas(b) ==
  /\ act'[b] = act[b] /\ applied'[b] = applied[b] /\ tries'[b] = tries[b] /\ Channel!Ours(b)' = Channel!Ours(b)
  /\ b \in ledger' <=> b \in ledger
  /\ b \in undone' <=> b \in undone
LEMMA AsItWasIsFair ==
  ASSUME NEW b \in Actions, Fair(b), AsItWas(b), ChannelTypes, ChannelTypes', spent.approvals <= spent'.approvals,
         lost \subseteq lost', told \subseteq told'
  PROVE  Fair(b)'
<1>1. InStep(b)'
  BY DEF Fair, InStep, AsItWas
<1>2. Tried(b)'
  <2>1. applied[b] \in Nat /\ tries[b] \in Nat /\ spent.approvals \in Nat /\ spent'.approvals \in Nat
    BY DEF ChannelTypes, SpentSoFar
  <2> QED BY <2>1 DEF Fair, Tried, AsItWas
<1>3. Accounted(b)'
  BY DEF Fair, Accounted, AsItWas, Answered, LastEffect
<1> QED BY <1>1, <1>2, <1>3 DEF Fair

(* One action moves; of the others nothing changes. *)
LEMMA OneMoves ==
  ASSUME ChannelInv, NEW a \in Actions, ChannelTypes', PollIsSeen', spent.approvals <= spent'.approvals,
         lost \subseteq lost', told \subseteq told',
         \A b \in Actions \ {a} : AsItWas(b), Fair(a)'
  PROVE  ChannelInv'
<1>1. \A b \in Actions \ {a} : Fair(b)'
  BY AsItWasIsFair DEF ChannelInv
<1> QED BY <1>1 DEF ChannelInv

(* What others show is not what this one shows. *)
LEMMA OthersShow ==
  ASSUME NEW a \in Actions, NEW n, shown' = shown \/ shown' = shown \cup {<<a, n>>} \/ shown' = shown \ {<<a, n>>}
  PROVE  \A b \in Actions \ {a} : Channel!Ours(b)' = Channel!Ours(b)
  BY DEF Channel!Ours

LEMMA ChannelInit == Channel!ChannelAssumption /\ Channel!Init => ChannelInv
<1> SUFFICES ASSUME Channel!ChannelAssumption, Channel!Init PROVE ChannelInv
  OBVIOUS
<1>1. ChannelTypes
  <2>1. act \in [Actions -> [status : ChannelStatuses, pc : ChannelPCs]]
    BY DEF Channel!Init, ChannelStatuses, ChannelPCs
  <2>2. spent \in SpentSoFar
    BY DEF Channel!Init, SpentSoFar, Channel!ChannelAssumption
  <2> QED BY <2>1, <2>2 DEF Channel!Init, ChannelTypes
<1>2. PollIsSeen
  BY DEF Channel!Init, PollIsSeen
<1>3. ASSUME NEW a \in Actions PROVE Fair(a)
  <2>1. Channel!Ours(a) = {} /\ spent.approvals = 0
    BY DEF Channel!Init, Channel!Ours
  <2> QED BY <2>1 DEF Channel!Init, Fair, InStep, Tried, Accounted, Answered
<1> QED BY <1>1, <1>2, <1>3 DEF ChannelInv

LEMMA ChannelKept == Channel!ChannelAssumption /\ ChannelInv /\ [Channel!Next]_Channel!vars => ChannelInv'
<1> SUFFICES ASSUME Channel!ChannelAssumption, ChannelInv, [Channel!Next]_Channel!vars PROVE ChannelInv'
  OBVIOUS
<1>0. ChannelTypes /\ PollIsSeen /\ \A a \in Actions : Fair(a)
  BY DEF ChannelInv
<1>n. spent.approvals \in Nat /\ spent.approvals <= MaxApprovals /\ spent.faults \in Nat /\ spent.host \in Nat
  BY <1>0 DEF ChannelTypes, SpentSoFar, Channel!ChannelAssumption
<1>f. ASSUME spent' = spent \/ Channel!Fault PROVE spent' \in SpentSoFar /\ spent'.approvals = spent.approvals
  <2>1. spent \in SpentSoFar
    BY <1>0 DEF ChannelTypes
  <2>2. spent' = spent \/ spent' = [spent EXCEPT !.faults = spent.faults + 1]
    BY <1>f DEF Channel!Fault
  <2> QED BY <1>n, <2>1, <2>2 DEF SpentSoFar
<1>t. ASSUME NEW a \in Actions
      PROVE  act[a] \in [status : ChannelStatuses, pc : ChannelPCs] /\ applied[a] \in Nat /\ tries[a] \in Nat
  BY <1>0 DEF ChannelTypes
<1>g. ASSUME NEW a \in Actions, NEW p \in ChannelPCs, Channel!Goto(a, p)
      PROVE  /\ act' \in [Actions -> [status : ChannelStatuses, pc : ChannelPCs]]
             /\ act'[a].pc = p /\ act'[a].status = act[a].status
             /\ \A b \in Actions \ {a} : act'[b] = act[b]
  BY <1>0, <1>t, <1>g DEF Channel!Goto, ChannelTypes
<1>w. ASSUME NEW a \in Actions, NEW s \in ChannelStatuses, Channel!Now(a, s)
      PROVE  /\ act' \in [Actions -> [status : ChannelStatuses, pc : ChannelPCs]]
             /\ act'[a].pc = "idle" /\ act'[a].status = s
             /\ \A b \in Actions \ {a} : act'[b] = act[b]
  BY <1>0, <1>w DEF Channel!Now, ChannelTypes, ChannelPCs
<1>1. ASSUME NEW a \in Actions, Channel!Approve(a) PROVE ChannelInv'
  <2>1. /\ act[a].pc = "idle" /\ UNCHANGED <<applied, ledger, tries, shown, poll, live, lost, undone, told>>
        /\ spent' = [spent EXCEPT !.approvals = spent.approvals + 1] /\ spent.approvals < MaxApprovals
    BY <1>1 DEF Channel!Approve, Channel!At
  <2>2. /\ act' \in [Actions -> [status : ChannelStatuses, pc : ChannelPCs]]
        /\ \A b \in Actions \ {a} : act'[b] = act[b]
        /\ \/ a \in ledger /\ act'[a].status = "committed" /\ act'[a].pc = "idle"
           \/ a \notin ledger /\ act'[a].status = "committing" /\ act'[a].pc = "reserve"
    <3>1. CASE a \in ledger
      BY <1>1, <1>w, <3>1 DEF Channel!Approve, ChannelStatuses
    <3>2. CASE a \notin ledger
      BY <1>0, <1>1, <3>2 DEF Channel!Approve, ChannelTypes, ChannelStatuses, ChannelPCs
    <3> QED BY <3>1, <3>2
  <2>3. spent' \in SpentSoFar /\ spent'.approvals = spent.approvals + 1
    BY <1>0, <1>n, <2>1 DEF ChannelTypes, SpentSoFar, Channel!ChannelAssumption
  <2>4. ChannelTypes' /\ PollIsSeen'
    BY <1>0, <2>1, <2>2, <2>3 DEF ChannelTypes, PollIsSeen
  <2>5. \A b \in Actions : Channel!Ours(b)' = Channel!Ours(b)
    BY <2>1 DEF Channel!Ours
  <2>6. Fair(a)'
    <3>1. InStep(a)'
      BY <1>0, <2>1, <2>2 DEF Fair, InStep
    <3>2. Tried(a)'
      BY <1>0, <1>n, <1>t, <2>1, <2>3 DEF Fair, Tried
    <3>3. Accounted(a)'
      BY <1>0, <2>1, <2>2, <2>5 DEF Fair, Accounted, Answered, LastEffect
    <3> QED BY <3>1, <3>2, <3>3 DEF Fair
  <2> QED BY <1>n, <2>1, <2>2, <2>3, <2>4, <2>5, <2>6, OneMoves DEF AsItWas
<1>2. ASSUME NEW a \in Actions, Channel!Reserve(a) \/ Channel!Refused(a) \/ Channel!Held(a) PROVE ChannelInv'
  <2>1. /\ act[a].pc \in {"reserve", "apply"}
        /\ UNCHANGED <<applied, ledger, tries, shown, poll, live, lost, undone, told>>
        /\ spent' = spent \/ Channel!Fault
    BY <1>2 DEF Channel!Reserve, Channel!Refused, Channel!Held, Channel!At
  <2>2. (Channel!Goto(a, "apply") /\ act[a].pc = "reserve") \/ Channel!Now(a, "failed")
    BY <1>2 DEF Channel!Reserve, Channel!Refused, Channel!Held, Channel!At
  <2>3. /\ act' \in [Actions -> [status : ChannelStatuses, pc : ChannelPCs]]
        /\ \A b \in Actions \ {a} : act'[b] = act[b]
        /\ \/ act'[a].status = "failed" /\ act'[a].pc = "idle"
           \/ act'[a].status = act[a].status /\ act'[a].pc = "apply"
    BY <1>g, <1>w, <2>2 DEF ChannelStatuses, ChannelPCs
  <2>4. ChannelTypes' /\ PollIsSeen'
    BY <1>0, <1>f, <2>1, <2>3 DEF ChannelTypes, PollIsSeen
  <2>5. \A b \in Actions : Channel!Ours(b)' = Channel!Ours(b)
    BY <2>1 DEF Channel!Ours
  <2>6. Fair(a)'
    <3>1. InStep(a)'
      BY <1>0, <2>1, <2>3 DEF Fair, InStep
    <3>2. Tried(a)'
      BY <1>0, <1>f, <2>1, <2>3 DEF Fair, Tried
    <3>3. Accounted(a)'
      BY <1>0, <2>1, <2>3, <2>5 DEF Fair, Accounted, Answered, LastEffect
    <3> QED BY <3>1, <3>2, <3>3 DEF Fair
  <2> QED BY <1>f, <1>n, <2>1, <2>3, <2>4, <2>5, <2>6, OneMoves DEF AsItWas
<1>3. ASSUME NEW a \in Actions, Channel!Apply(a) PROVE ChannelInv'
  <2>1. /\ act[a].pc = "apply" /\ tries' = [tries EXCEPT ![a] = tries[a] + 1]
        /\ shown' = shown \cup {<<a, tries[a] + 1>>} /\ UNCHANGED <<ledger, live, undone, told>>
        /\ poll' = <<a, tries[a] + 1>> \/ poll' = poll
        /\ \/ /\ Channel!Goto(a, "record") /\ applied' = [applied EXCEPT ![a] = tries[a] + 1]
              /\ lost' = lost /\ spent' = spent
           \/ /\ Channel!Fault /\ Channel!Now(a, "failed")
              /\ lost' = lost \cup {<<a, tries[a] + 1>>} /\ applied' = applied
    BY <1>3 DEF Channel!Apply, Channel!At
  <2>2. PICK n \in Nat : n = tries[a] + 1
    BY <1>t
  <2>3. /\ act' \in [Actions -> [status : ChannelStatuses, pc : ChannelPCs]]
        /\ \A b \in Actions \ {a} : act'[b] = act[b]
        /\ \/ /\ act'[a].status = "failed" /\ act'[a].pc = "idle"
              /\ applied' = applied /\ lost' = lost \cup {<<a, n>>}
           \/ /\ act'[a].status = act[a].status /\ act'[a].pc = "record"
              /\ applied' = [applied EXCEPT ![a] = n] /\ lost' = lost
    <3>1. CASE Channel!Goto(a, "record") /\ applied' = [applied EXCEPT ![a] = n] /\ lost' = lost
      BY <1>g, <3>1 DEF ChannelPCs
    <3>2. CASE Channel!Now(a, "failed") /\ applied' = applied /\ lost' = lost \cup {<<a, n>>}
      BY <1>w, <3>2 DEF ChannelStatuses
    <3> QED BY <2>1, <2>2, <3>1, <3>2
  <2>4. /\ tries' \in [Actions -> Nat] /\ tries'[a] = n /\ \A b \in Actions \ {a} : tries'[b] = tries[b]
        /\ applied' \in [Actions -> Nat] /\ applied'[a] \in {n, applied[a]}
        /\ \A b \in Actions \ {a} : applied'[b] = applied[b]
    BY <1>0, <2>1, <2>2, <2>3 DEF ChannelTypes
  <2>5. spent' \in SpentSoFar /\ spent'.approvals = spent.approvals
    BY <1>f, <2>1
  <2>6. ChannelTypes'
    BY <1>0, <2>1, <2>2, <2>3, <2>4, <2>5 DEF ChannelTypes
  <2>7. PollIsSeen'
    BY <1>0, <2>1 DEF PollIsSeen
  <2>8. \A b \in Actions \ {a} : Channel!Ours(b)' = Channel!Ours(b)
    BY <2>1, <2>2, OthersShow
  <2>9. Channel!Ours(a)' = Channel!Ours(a) \cup {<<a, n>>}
    BY <2>1, <2>2 DEF Channel!Ours
  <2>10. InStep(a)'
    BY <1>0, <2>1, <2>3 DEF Fair, InStep
  <2>11. Tried(a)'
    BY <1>0, <1>n, <1>t, <2>1, <2>2, <2>3, <2>4, <2>5 DEF Fair, Tried
  <2>12. Accounted(a)'
    <3>1. a \notin ledger' /\ a \notin undone' /\ Answered(a)
      BY <1>0, <2>1 DEF Fair, InStep, Accounted
    <3>2. CASE act'[a].pc = "idle" /\ lost' = lost \cup {<<a, n>>}
      <4>1. Answered(a)'
        BY <2>1, <2>9, <3>1, <3>2 DEF Answered
      <4> QED BY <3>1, <3>2, <4>1 DEF Accounted
    <3>3. CASE act'[a].pc = "record" /\ applied'[a] = n /\ lost' = lost
      <4>1. /\ LastEffect(a)' = <<a, n>>
            /\ LastEffect(a)' \in Channel!Ours(a)'
            /\ Channel!Ours(a)' \ {<<a, n>>} \subseteq lost' \cup told'
        BY <2>1, <2>9, <3>1, <3>3 DEF LastEffect, Answered
      <4> QED BY <3>1, <3>3, <4>1 DEF Accounted
    <3> QED BY <1>0, <2>3, <3>2, <3>3 DEF ChannelTypes
  <2>13. Fair(a)'
    BY <2>10, <2>11, <2>12 DEF Fair
  <2> QED BY <1>n, <2>1, <2>3, <2>4, <2>5, <2>6, <2>7, <2>8, <2>13, OneMoves DEF AsItWas
<1>4. ASSUME NEW a \in Actions, Channel!Record(a) PROVE ChannelInv'
  <2>1. /\ act[a].pc = "record" /\ UNCHANGED <<applied, tries, shown, poll, live, lost, undone, told>>
        /\ \/ Channel!Now(a, "committed") /\ ledger' = ledger \cup {a} /\ spent' = spent
           \/ Channel!Fault /\ Channel!Goto(a, "compensate") /\ ledger' = ledger
    BY <1>4 DEF Channel!Record, Channel!At
  <2>2. /\ act' \in [Actions -> [status : ChannelStatuses, pc : ChannelPCs]]
        /\ \A b \in Actions \ {a} : act'[b] = act[b]
        /\ \/ act'[a].status = "committed" /\ act'[a].pc = "idle" /\ ledger' = ledger \cup {a}
           \/ act'[a].status = act[a].status /\ act'[a].pc = "compensate" /\ ledger' = ledger
    BY <1>g, <1>w, <2>1 DEF ChannelStatuses, ChannelPCs
  <2>3. spent' \in SpentSoFar /\ spent'.approvals = spent.approvals
    BY <1>f, <2>1
  <2>4. ChannelTypes' /\ PollIsSeen'
    BY <1>0, <2>1, <2>2, <2>3 DEF ChannelTypes, PollIsSeen
  <2>5. \A b \in Actions : Channel!Ours(b)' = Channel!Ours(b)
    BY <2>1 DEF Channel!Ours
  <2>6. Fair(a)'
    <3>1. InStep(a)'
      BY <1>0, <2>1, <2>2 DEF Fair, InStep
    <3>2. Tried(a)'
      BY <1>0, <2>1, <2>2, <2>3 DEF Fair, Tried
    <3>3. Accounted(a)'
      BY <1>0, <2>1, <2>2, <2>5 DEF Fair, Accounted, Answered, LastEffect
    <3> QED BY <3>1, <3>2, <3>3 DEF Fair
  <2> QED BY <1>n, <2>1, <2>2, <2>3, <2>4, <2>5, <2>6, OneMoves DEF AsItWas
<1>5. ASSUME NEW a \in Actions, Channel!Compensate(a) \/ Channel!Undo(a) PROVE ChannelInv'
  <2>1. /\ act[a].pc \in {"compensate", "undo"} /\ UNCHANGED <<applied, ledger, tries, live, lost>>
        /\ spent' = spent \/ Channel!Fault
    BY <1>5 DEF Channel!Compensate, Channel!Undo, Channel!At
  <2>2. /\ act' \in [Actions -> [status : ChannelStatuses, pc : ChannelPCs]]
        /\ \A b \in Actions \ {a} : act'[b] = act[b]
        /\ \/ act'[a].status = "failed" /\ act'[a].pc = "idle" /\ undone' = undone
           \/ /\ act[a].pc = "undo" /\ act'[a].status = act[a].status
              /\ act'[a].pc = "undone" /\ undone' = undone \cup {a}
    <3>1. \/ Channel!Now(a, "failed") /\ undone' = undone
          \/ Channel!Goto(a, "undone") /\ undone' = undone \cup {a} /\ act[a].pc = "undo"
      BY <1>5 DEF Channel!Compensate, Channel!Undo, Channel!At
    <3> QED BY <1>g, <1>w, <3>1 DEF ChannelStatuses, ChannelPCs
  <2>3. spent' \in SpentSoFar /\ spent'.approvals = spent.approvals
    BY <1>f, <2>1
  <2>4. \/ Channel!Withdrawable(a) /\ Channel!Withdraw(a) /\ told' = told
        \/ told' = told \cup Channel!Ours(a) /\ UNCHANGED <<shown, poll>> /\ undone' = undone
    BY <1>5 DEF Channel!Compensate, Channel!Undo
  <2>5. PICK e : e = <<a, applied[a]>>
    OBVIOUS
  <2>6. \/ shown' = shown \ {e} /\ poll' = (IF poll = e THEN Channel!None ELSE poll) /\ told' = told /\ applied[a] # 0
        \/ told' = told \cup Channel!Ours(a) /\ UNCHANGED <<shown, poll>> /\ undone' = undone
    BY <2>4, <2>5 DEF Channel!Withdraw, Channel!Withdrawable
  <2>7. ChannelTypes' /\ PollIsSeen'
    BY <1>0, <2>1, <2>2, <2>3, <2>6 DEF ChannelTypes, PollIsSeen
  <2>8. \A b \in Actions \ {a} : Channel!Ours(b)' = Channel!Ours(b)
    BY <2>5, <2>6, OthersShow
  <2>9. Answered(a)'
    <3>1. CASE shown' = shown \ {e} /\ told' = told /\ applied[a] # 0
      <4>1. Channel!Ours(a)' = Channel!Ours(a) \ {LastEffect(a)}
        BY <2>5, <3>1 DEF Channel!Ours, LastEffect
      <4> QED BY <1>0, <2>1, <3>1, <4>1 DEF Fair, Accounted, Answered
    <3>2. CASE told' = told \cup Channel!Ours(a) /\ shown' = shown
      BY <3>2 DEF Answered, Channel!Ours
    <3> QED BY <2>6, <3>1, <3>2
  <2>10. InStep(a)'
    BY <1>0, <2>1, <2>2 DEF Fair, InStep
  <2>11. Tried(a)'
    BY <1>0, <2>1, <2>2, <2>3 DEF Fair, Tried
  <2>12. Accounted(a)'
    <3>1. act'[a].pc \notin {"record", "compensate"}
      BY <2>2
    <3>2. a \in ledger' /\ a \notin undone' => Channel!Ours(a)' # {}
      <4> SUFFICES ASSUME a \in ledger', a \notin undone' PROVE Channel!Ours(a)' # {}
        OBVIOUS
      <4>1. a \in ledger /\ a \notin undone /\ undone' = undone
        BY <2>1, <2>2
      <4>2. act[a].pc = "undo"
        BY <1>0, <2>1, <4>1 DEF Fair, InStep
      <4>3. shown' = shown
        BY <1>5, <4>1, <4>2 DEF Channel!Compensate, Channel!Undo, Channel!At
      <4> QED BY <1>0, <4>1, <4>3 DEF Fair, Accounted, Channel!Ours
    <3> QED BY <2>9, <3>1, <3>2 DEF Accounted
  <2>13. Fair(a)'
    BY <2>10, <2>11, <2>12 DEF Fair
  <2>14. told \subseteq told' /\ lost \subseteq lost'
    BY <2>1, <2>6
  <2> QED BY <1>n, <2>1, <2>2, <2>3, <2>7, <2>8, <2>13, <2>14, OneMoves DEF AsItWas
<1>6. ASSUME NEW a \in Actions, Channel!Rollback(a) \/ Channel!Undone(a) PROVE ChannelInv'
  <2>1. /\ UNCHANGED <<applied, ledger, tries, shown, poll, live, lost, undone, told>>
        /\ (spent' = spent \/ Channel!Fault)
    BY <1>6 DEF Channel!Rollback, Channel!Undone
  <2>2. /\ act' \in [Actions -> [status : ChannelStatuses, pc : ChannelPCs]]
        /\ \A b \in Actions \ {a} : act'[b] = act[b]
        /\ \/ act[a].status = "committed" /\ act'[a].status = "committed" /\ act'[a].pc = "undo"
           \/ act[a].pc = "undone" /\ act'[a].pc = "idle" /\ act'[a].status \in {"rolled_back", "committed"}
    <3>1. CASE Channel!Rollback(a)
      BY <1>g, <3>1 DEF Channel!Rollback, ChannelPCs
    <3>2. CASE Channel!Undone(a)
      BY <1>w, <3>2 DEF Channel!Undone, Channel!At, ChannelStatuses
    <3> QED BY <1>6, <3>1, <3>2
  <2>3. spent' \in SpentSoFar /\ spent'.approvals = spent.approvals
    BY <1>f, <2>1
  <2>4. ChannelTypes' /\ PollIsSeen'
    BY <1>0, <2>1, <2>2, <2>3 DEF ChannelTypes, PollIsSeen
  <2>5. \A b \in Actions : Channel!Ours(b)' = Channel!Ours(b)
    BY <2>1 DEF Channel!Ours
  <2>6. Fair(a)'
    <3>1. InStep(a)'
      BY <1>0, <2>1, <2>2 DEF Fair, InStep
    <3>2. Tried(a)'
      BY <1>0, <2>1, <2>2, <2>3 DEF Fair, Tried
    <3>3. Accounted(a)'
      BY <1>0, <2>1, <2>2, <2>5 DEF Fair, InStep, Accounted, Answered, LastEffect
    <3> QED BY <3>1, <3>2, <3>3 DEF Fair
  <2> QED BY <1>n, <2>1, <2>2, <2>3, <2>4, <2>5, <2>6, OneMoves DEF AsItWas
<1>7. CASE Channel!HostActs
  <2>1. /\ UNCHANGED <<act, applied, ledger, tries, shown, lost, undone, told>>
        /\ spent' = [spent EXCEPT !.host = spent.host + 1]
    BY <1>7 DEF Channel!HostActs
  <2>2. poll' \in {Channel!None, Channel!Host, poll} /\ live' \in BOOLEAN
    BY <1>0, <1>7 DEF Channel!HostActs, ChannelTypes
  <2>3. spent' \in SpentSoFar /\ spent'.approvals = spent.approvals
    BY <1>0, <1>n, <2>1 DEF ChannelTypes, SpentSoFar
  <2>4. ChannelTypes' /\ PollIsSeen'
    BY <1>0, <2>1, <2>2, <2>3 DEF ChannelTypes, PollIsSeen
  <2>5. \A b \in Actions : AsItWas(b)
    BY <2>1 DEF AsItWas, Channel!Ours
  <2>6. \A b \in Actions : Fair(b)'
    BY <1>0, <1>n, <2>1, <2>3, <2>4, <2>5, AsItWasIsFair
  <2> QED BY <2>4, <2>6 DEF ChannelInv
<1>8. CASE Channel!Restart
  <2>1. /\ UNCHANGED <<ledger, tries, shown, poll, live, undone, told>> /\ Channel!Fault
        /\ act' = [a \in Actions |-> [act[a] EXCEPT !.pc = "idle"]]
        /\ applied' = [a \in Actions |-> 0]
        /\ lost' = lost \cup UNION {{<<a, applied[a]>>} :
                                     a \in {b \in Actions : act[b].pc \in {"record", "compensate"}}}
    BY <1>8 DEF Channel!Restart
  <2>2. \A a \in Actions : [act[a] EXCEPT !.pc = "idle"] \in [status : ChannelStatuses, pc : ChannelPCs]
    BY <1>t DEF ChannelPCs
  <2>3. /\ act' \in [Actions -> [status : ChannelStatuses, pc : ChannelPCs]]
        /\ \A a \in Actions : act'[a].pc = "idle" /\ act'[a].status = act[a].status
    BY <1>t, <2>1, <2>2
  <2>4. spent' \in SpentSoFar /\ spent'.approvals = spent.approvals
    BY <1>f, <2>1
  <2>5. ChannelTypes' /\ PollIsSeen'
    BY <1>0, <2>1, <2>3, <2>4 DEF ChannelTypes, PollIsSeen
  <2>6. ASSUME NEW a \in Actions PROVE Fair(a)'
    <3>1. Channel!Ours(a)' = Channel!Ours(a) /\ lost \subseteq lost' /\ applied'[a] = 0
      BY <2>1 DEF Channel!Ours
    <3>2. act[a].pc \in {"record", "compensate"} => LastEffect(a) \in lost'
      BY <2>1 DEF LastEffect
    <3>3. InStep(a)'
      BY <1>0, <2>1, <2>3 DEF Fair, InStep
    <3>4. Tried(a)'
      BY <1>0, <1>t, <2>1, <2>3, <2>4, <3>1 DEF Fair, Tried
    <3>5. Answered(a) => Answered(a)'
      BY <2>1, <3>1 DEF Answered
    <3>6. Answered(a)' \/ a \in ledger'
      BY <1>0, <2>1, <3>1, <3>2, <3>5 DEF Fair, Accounted, Answered
    <3>7. Accounted(a)'
      BY <1>0, <2>1, <2>3, <3>1, <3>5, <3>6 DEF Fair, Accounted
    <3> QED BY <3>3, <3>4, <3>7 DEF Fair
  <2> QED BY <2>5, <2>6 DEF ChannelInv
<1>9. CASE UNCHANGED Channel!vars
  <2>1. /\ ChannelTypes'
        /\ PollIsSeen'
        /\ spent.approvals <= spent'.approvals
        /\ lost \subseteq lost'
        /\ told \subseteq told'
    BY <1>0, <1>n, <1>9 DEF Channel!vars, ChannelTypes, PollIsSeen
  <2>2. \A b \in Actions : AsItWas(b)
    BY <1>9 DEF Channel!vars, AsItWas, Channel!Ours
  <2> QED BY <1>0, <2>1, <2>2, AsItWasIsFair DEF ChannelInv
<1> QED BY <1>1, <1>2, <1>3, <1>4, <1>5, <1>6, <1>7, <1>8, <1>9 DEF Channel!Next

(* Whatever is refused, held, lost or restarted: an action that reads        *)
(* committed is seen unless an undo withdrew it, one that was rolled back is *)
(* off the screen, and nothing is seen that nobody answers for               *)
(* (surfaces/twitch/actions.ts under the executor).                          *)
THEOREM ChannelIsAnswered ==
  Channel!ChannelAssumption =>
    (Channel!Spec => [](/\ Channel!TypeOK /\ Channel!CommittedIsSeen
                        /\ Channel!UndoneIsGone /\ Channel!EffectsAreAccounted))
<1> SUFFICES ASSUME Channel!ChannelAssumption
             PROVE  Channel!Spec => [](/\ Channel!TypeOK /\ Channel!CommittedIsSeen
                                       /\ Channel!UndoneIsGone /\ Channel!EffectsAreAccounted)
  OBVIOUS
<1>1. ChannelInv => Channel!TypeOK
  <2> SUFFICES ASSUME ChannelInv PROVE Channel!TypeOK
    OBVIOUS
  <2>1. ASSUME NEW a \in Actions
        PROVE  /\ act[a].status \in ChannelStatuses /\ act[a].pc \in ChannelPCs
               /\ applied[a] \in 0..tries[a] /\ tries[a] \in 0..MaxApprovals
    <3>1. act[a] \in [status : ChannelStatuses, pc : ChannelPCs] /\ applied[a] \in Nat /\ tries[a] \in Nat
          /\ spent.approvals \in 0..MaxApprovals
      BY DEF ChannelInv, ChannelTypes, SpentSoFar
    <3>2. applied[a] <= tries[a] /\ tries[a] <= spent.approvals
      BY DEF ChannelInv, Fair, Tried
    <3> QED BY <3>1, <3>2 DEF Channel!ChannelAssumption
  <2> QED BY <2>1 DEF ChannelInv, ChannelTypes, PollIsSeen, Channel!TypeOK, ChannelStatuses, ChannelPCs
<1>2. ChannelInv => Channel!CommittedIsSeen
  BY DEF ChannelInv, Fair, InStep, Accounted, Channel!CommittedIsSeen
<1>3. ChannelInv => Channel!UndoneIsGone
  BY DEF ChannelInv, Fair, InStep, Accounted, Answered, Channel!UndoneIsGone
<1>4. ChannelInv => Channel!EffectsAreAccounted
  <2> SUFFICES ASSUME ChannelInv, NEW e \in shown
               PROVE  \/ act[e[1]].pc \in {"record", "compensate"} /\ applied[e[1]] = e[2]
                      \/ e[1] \in ledger
                      \/ e \in told \cup lost
    BY DEF Channel!EffectsAreAccounted
  <2>1. e[1] \in Actions /\ e = <<e[1], e[2]>> /\ e \in Channel!Ours(e[1])
    BY DEF ChannelInv, ChannelTypes, Channel!Ours
  <2>2. Accounted(e[1])
    BY <2>1 DEF ChannelInv, Fair
  <2> QED BY <2>1, <2>2 DEF Accounted, Answered, LastEffect
<1>5. Channel!Init => ChannelInv
  BY ChannelInit
<1>6. ChannelInv /\ [Channel!Next]_Channel!vars => ChannelInv'
  BY ChannelKept
<1> QED BY <1>1, <1>2, <1>3, <1>4, <1>5, <1>6, PTL DEF Channel!Spec

-----------------------------------------------------------------------------
(***************************************************************************)
(* What the copilot proposes.  What an evaluation found rests on the       *)
(* buyers of its window (Backed), and passes its preflight for as long as  *)
(* the lot is of the version the rule read (Stands), since a lot that      *)
(* changes has a new version; a rule's price is rounded up from the cap    *)
(* and the floor (TargetPasses).                                           *)
(***************************************************************************)
CONSTANTS Lots, Buyers, Questions, Queue, Opening, LotFloor, Median, Cap, Step, Window,
          Discounts, Swaps, Evaluations, MaxHeard, MaxTime, MaxMoves, MaxRows, MaxRestarts

VARIABLES now, signals, lots, rung, eval, onRecord, heard, moves, restarts

Proposer == INSTANCE ActionProposer WITH Floor <- LotFloor, rows <- onRecord

RuleKinds == {"markdown", "end", "swap", "push"}
Signal == [at : Nat, intent : Proposer!Intents, lot : Lots, by : Buyers]
LotRow == [price : Nat, qty : Nat, pinned : BOOLEAN, version : Nat, state : {"live", "queued", "ended"}]
Found == [kind : RuleKinds, lot : Lots, version : Nat, price : Nat]
Eval == [pc : {"idle", "begun", "rules", "proposing"}, top : BOOLEAN, recent : SUBSET Signal,
         rules : Seq(RuleKinds), found : SUBSET Found]
RowStatuses == {"proposed", "refused", "committed", "failed", "rejected"}
OnRecord == [kind : RuleKinds, lot : Lots, version : Nat, price : Nat, read : Nat,
             recent : SUBSET Signal, status : RowStatuses]

ProposerTypes ==
  /\ now \in 0..MaxTime /\ rung \in BOOLEAN /\ moves \in 0..MaxMoves /\ faults \in 0..MaxFaults
  /\ signals \subseteq Signal /\ \A s \in signals : s.at <= now
  /\ lots \in [Lots -> LotRow] /\ eval \in [Evaluations -> Eval] /\ onRecord \subseteq OnRecord

Ready(x) ==
  /\ x.pc \in {"idle", "begun"} => x.found = {}
  /\ x.pc # "proposing" => x.rules # <<>>

(* A lot that is still what the rule read passes its preflight. *)
Stands(p) ==
  /\ p.version <= lots[p.lot].version
  /\ p.version = lots[p.lot].version /\ p.kind # "end" => Proposer!Passes(p.kind, p.lot, p.price)

AskedBy(recent, l, is) == {b \in Buyers : \E s \in recent : s.by = b /\ s.lot = l /\ s.intent \in is}
Backed(p, recent) ==
  /\ p.kind = "markdown" => Proposer!Cardinality(AskedBy(recent, p.lot, {"discount"})) >= Discounts
  /\ p.kind = "end" => Proposer!Cardinality(AskedBy(recent, p.lot, {"availability"})) >= 2
  /\ p.kind = "swap" => Proposer!Cardinality(AskedBy(recent, p.lot, Proposer!Intents)) >= Swaps

Sound(x) == Ready(x) /\ \A p \in x.found : Stands(p) /\ Backed(p, x.recent)

RowsAreBacked == \A r \in onRecord : Backed(r, r.recent)
ProposerInv ==
  /\ ProposerTypes /\ (\A e \in Evaluations : Sound(eval[e]))
  /\ RowsAreBacked /\ Proposer!OneRowAnIntent /\ Proposer!RulesAgreeWithPreflight

LEMMA MaxOfThree ==
  ASSUME NEW a \in Nat, NEW b \in Nat, NEW c \in Nat
  PROVE  Proposer!Max({a, b, c}) \in Nat /\ Proposer!Max({a, b, c}) >= a /\ Proposer!Max({a, b, c}) >= b
<1>1. \E x \in {a, b, c} : \A y \in {a, b, c} : x >= y
  <2>1. CASE a >= b /\ a >= c
    BY <2>1
  <2>2. CASE b >= a /\ b >= c
    BY <2>2
  <2>3. CASE c >= a /\ c >= b
    BY <2>3
  <2> QED BY <2>1, <2>2, <2>3
<1>2. PICK m : m = Proposer!Max({a, b, c})
  OBVIOUS
<1>3. m \in {a, b, c} /\ \A y \in {a, b, c} : m >= y
  BY <1>1, <1>2 DEF Proposer!Max
<1> QED BY <1>2, <1>3

LEMMA MinOfTwo ==
  ASSUME NEW a \in Nat, NEW b \in Nat
  PROVE  Proposer!Min({a, b}) \in {a, b} /\ (Proposer!Min({a, b}) < a => Proposer!Min({a, b}) = b)
<1>1. \E x \in {a, b} : \A y \in {a, b} : x <= y
  OBVIOUS
<1>2. PICK m : m = Proposer!Min({a, b})
  OBVIOUS
<1>3. m \in {a, b}
  BY <1>1, <1>2 DEF Proposer!Min
<1> QED BY <1>2, <1>3

LEMMA RoundsUp ==
  ASSUME Proposer!ProposerAssumption, NEW c \in Nat
  PROVE  Proposer!RoundUp(c) \in Nat /\ Proposer!RoundUp(c) >= c
<1>1. Step \in Nat /\ Step > 0
  BY DEF Proposer!ProposerAssumption
<1> DEFINE q == (c + Step - 1) \div Step
           m == (c + Step - 1) % Step
<1>2. q \in Int /\ m \in 0..(Step - 1) /\ c + Step - 1 = Step * q + m
  BY <1>1
<1>3. Proposer!RoundUp(c) = q * Step
  BY DEF Proposer!RoundUp
<1> HIDE DEF q, m
<1>4. q * Step \in Int /\ Step * q = q * Step
  BY <1>1, <1>2
<1> QED BY <1>1, <1>2, <1>3, <1>4

(* A markdown that would lower the price keeps to the floor and the cap. *)
LEMMA TargetPasses ==
  ASSUME Proposer!ProposerAssumption, NEW l \in Lots, lots[l].price \in Nat
  PROVE  /\ Proposer!Target(l) \in Nat
         /\ Proposer!Target(l) < lots[l].price =>
              Proposer!Target(l) >= LotFloor[l] /\ (lots[l].price - Proposer!Target(l)) * 100 <= Cap * lots[l].price
<1> DEFINE c == lots[l].price
           n == c * (100 - Cap)
           k == Proposer!CapFloor(c)
           m == Proposer!Max({LotFloor[l], k, Median[l]})
<1>1. c \in Nat /\ Cap \in 0..100 /\ LotFloor[l] \in Nat /\ Median[l] \in Nat
  BY DEF Proposer!ProposerAssumption
<1>2. n \in Nat /\ c * 100 - n = Cap * c
  <2> HIDE DEF c
  <2>1. 100 - Cap \in Nat
    BY <1>1
  <2> QED BY <1>1, <2>1
<1>3. k \in Nat /\ k * 100 >= n
  <2>1. k = (n + 99) \div 100
    BY DEF Proposer!CapFloor
  <2> HIDE DEF k, n
  <2> QED BY <1>2, <2>1
<1> HIDE DEF k, n
<1>4. m \in Nat /\ m >= LotFloor[l] /\ m >= k
  BY <1>1, <1>3, MaxOfThree
<1>5. Proposer!Target(l) = Proposer!Min({c, Proposer!RoundUp(m)})
  BY DEF Proposer!Target, k
<1> HIDE DEF m, c
<1>6. Proposer!RoundUp(m) \in Nat /\ Proposer!RoundUp(m) >= m
  BY <1>4, RoundsUp
<1>7. /\ Proposer!Target(l) \in {c, Proposer!RoundUp(m)}
      /\ (Proposer!Target(l) < c => Proposer!Target(l) = Proposer!RoundUp(m))
  BY <1>1, <1>5, <1>6, MinOfTwo
<1>8. Proposer!Target(l) \in Nat
  BY <1>1, <1>6, <1>7
<1>9. Proposer!Target(l) < c => Proposer!Target(l) >= LotFloor[l] /\ (c - Proposer!Target(l)) * 100 <= c * 100 - n
  BY <1>1, <1>2, <1>3, <1>4, <1>6, <1>7
<1> QED BY <1>2, <1>8, <1>9 DEF c

LEMMA ProposerInit == Proposer!ProposerAssumption /\ Proposer!Init => ProposerInv
<1> SUFFICES ASSUME Proposer!ProposerAssumption, Proposer!Init PROVE ProposerInv
  OBVIOUS
<1>1. Proposer!Rules \in Seq(RuleKinds) /\ Proposer!Rules # <<>>
  BY DEF Proposer!Rules, RuleKinds
<1>2. Proposer!Idle \in Eval /\ Sound(Proposer!Idle)
  BY <1>1 DEF Proposer!Idle, Eval, Sound, Ready
<1>3. lots \in [Lots -> LotRow]
  BY DEF Proposer!Init, Proposer!ProposerAssumption, LotRow
<1>4. ProposerTypes
  <2>1. now \in 0..MaxTime /\ moves \in 0..MaxMoves /\ faults \in 0..MaxFaults
    BY DEF Proposer!Init, Proposer!ProposerAssumption
  <2>2. eval \in [Evaluations -> Eval] /\ rung \in BOOLEAN /\ onRecord = {} /\ signals = {}
    BY <1>2 DEF Proposer!Init
  <2> QED BY <1>3, <2>1, <2>2 DEF ProposerTypes
<1>5. RowsAreBacked /\ Proposer!OneRowAnIntent /\ Proposer!RulesAgreeWithPreflight
  BY DEF Proposer!Init, RowsAreBacked, Proposer!OneRowAnIntent, Proposer!RulesAgreeWithPreflight
<1> QED BY <1>2, <1>4, <1>5 DEF Proposer!Init, ProposerInv

(* A lot that changes has a new version. *)
Versioned == \A l \in Lots : lots'[l] = lots[l] \/ lots'[l].version > lots[l].version

LEMMA StandsOn ==
  ASSUME ProposerTypes, ProposerTypes', Versioned, NEW p \in Found, Stands(p)
  PROVE  Stands(p)'
<1>1. p.lot \in Lots /\ p.version \in Nat
  BY DEF Found
<1>2. lots[p.lot].version \in Nat /\ lots'[p.lot].version \in Nat
  BY <1>1 DEF ProposerTypes, LotRow
<1>3. CASE lots'[p.lot] = lots[p.lot]
  BY <1>3 DEF Stands, Proposer!Passes, Proposer!Saleable
<1>4. CASE lots'[p.lot].version > lots[p.lot].version
  BY <1>1, <1>2, <1>4 DEF Stands
<1> QED BY <1>1, <1>3, <1>4 DEF Versioned

(* What an evaluation found stands while lots move and it forgets some. *)
LEMMA StaysSound ==
  ASSUME ProposerTypes, ProposerTypes', Versioned, NEW e \in Evaluations, Sound(eval[e]), Ready(eval'[e]),
         eval'[e].found \subseteq eval[e].found, eval'[e].recent = eval[e].recent
  PROVE  Sound(eval[e])'
<1>1. eval[e].found \subseteq Found
  BY DEF ProposerTypes, Eval
<1>2. \A p \in eval'[e].found : Stands(p)' /\ Backed(p, eval'[e].recent)
  BY <1>1, StandsOn DEF Sound
<1> QED BY <1>2 DEF Sound, Ready, Backed, AskedBy

(* One evaluation moves; the lots and the record stay. *)
LEMMA EvalMoves ==
  ASSUME ProposerInv, ProposerTypes', NEW e \in Evaluations, NEW x \in Eval, eval' = [eval EXCEPT ![e] = x],
         UNCHANGED <<lots, onRecord>>, Sound(x)
  PROVE  ProposerInv'
<1>1. eval'[e] = x /\ \A f \in Evaluations \ {e} : eval'[f] = eval[f]
  BY DEF ProposerInv, ProposerTypes
<1>2. Versioned
  BY DEF Versioned
<1>3. Sound(eval[e])'
  <2>1. x.found \subseteq Found
    BY DEF Eval
  <2>2. \A p \in x.found : Stands(p)' /\ Backed(p, x.recent)
    BY <1>2, <2>1, StandsOn DEF ProposerInv, Sound
  <2>3. Ready(eval'[e]) /\ \A p \in eval'[e].found : Stands(p)' /\ Backed(p, eval'[e].recent)
    BY <1>1, <2>2 DEF Sound
  <2> QED BY <2>3 DEF Sound, Ready, Backed, AskedBy
<1>4. \A f \in Evaluations \ {e} : Sound(eval[f])'
  <2> TAKE f \in Evaluations \ {e}
  <2>1. Sound(eval[f]) /\ eval'[f] = eval[f]
    BY <1>1 DEF ProposerInv
  <2> QED BY <1>2, <2>1, StaysSound DEF ProposerInv, Sound
<1>5. RowsAreBacked' /\ Proposer!OneRowAnIntent' /\ Proposer!RulesAgreeWithPreflight'
  BY DEF ProposerInv, RowsAreBacked, Proposer!OneRowAnIntent, Proposer!RulesAgreeWithPreflight, Backed, AskedBy
<1> QED BY <1>3, <1>4, <1>5 DEF ProposerInv

LEMMA EffectIsVersioned ==
  ASSUME ProposerTypes, NEW r \in OnRecord
  PROVE  /\ Proposer!Effect(r) \in [Lots -> LotRow]
         /\ \A l \in Lots : Proposer!Effect(r)[l] = lots[l] \/ Proposer!Effect(r)[l].version > lots[l].version
<1>1. CASE r.version # lots[r.lot].version
  BY <1>1 DEF ProposerTypes, Proposer!Effect
<1>2. CASE r.version = lots[r.lot].version
  <2> DEFINE new(l) ==
        LET x == lots[l] IN
        IF l = r.lot
        THEN [x EXCEPT !.version = @ + 1, !.price = IF r.kind = "markdown" THEN r.price ELSE @,
                       !.pinned = @ \/ r.kind = "swap",
                       !.state = CASE r.kind = "end" -> "ended" [] r.kind = "push" -> "live" [] OTHER -> @]
        ELSE IF r.kind = "swap" /\ x.pinned THEN [x EXCEPT !.pinned = FALSE, !.version = @ + 1] ELSE x
  <2>1. Proposer!Effect(r) = [l \in Lots |-> new(l)]
    BY <1>2 DEF Proposer!Effect
  <2>2. ASSUME NEW l \in Lots PROVE new(l) \in LotRow /\ (new(l) = lots[l] \/ new(l).version > lots[l].version)
    <3>1. PICK x \in LotRow : x = lots[l]
      BY DEF ProposerTypes
    <3>2. PICK v \in Nat : v = x.version + 1
      BY <3>1 DEF LotRow
    <3>3. CASE l = r.lot
      <4>1. PICK pr \in Nat : pr = IF r.kind = "markdown" THEN r.price ELSE x.price
        BY <3>1 DEF LotRow, OnRecord
      <4>2. PICK pi \in BOOLEAN : pi = (x.pinned \/ r.kind = "swap")
        BY <3>1 DEF LotRow
      <4>3. PICK st \in {"live", "queued", "ended"} :
              st = CASE r.kind = "end" -> "ended" [] r.kind = "push" -> "live" [] OTHER -> x.state
        BY <3>1 DEF LotRow
      <4>4. new(l) = [x EXCEPT !.version = v, !.price = pr, !.pinned = pi, !.state = st]
        BY <3>1, <3>2, <3>3, <4>1, <4>2, <4>3
      <4> HIDE DEF new
      <4>5. new(l) \in LotRow /\ new(l).version = v
        BY <3>1, <4>4 DEF LotRow
      <4> QED BY <3>1, <3>2, <4>5 DEF LotRow
    <3>4. CASE l # r.lot /\ r.kind = "swap" /\ x.pinned
      <4>1. new(l) = [x EXCEPT !.pinned = FALSE, !.version = v]
        BY <3>1, <3>2, <3>4
      <4> HIDE DEF new
      <4>2. new(l) \in LotRow /\ new(l).version = v
        BY <3>1, <4>1 DEF LotRow
      <4> QED BY <3>1, <3>2, <4>2 DEF LotRow
    <3>5. CASE l # r.lot /\ ~(r.kind = "swap" /\ x.pinned)
      BY <3>1, <3>5
    <3> QED BY <3>3, <3>4, <3>5
  <2> HIDE DEF new
  <2> QED BY <2>1, <2>2
<1> QED BY <1>1, <1>2

LEMMA RulesAreSound ==
  ASSUME Proposer!ProposerAssumption, ProposerInv, NEW e \in Evaluations, Proposer!Apply(e)
  PROVE  ProposerInv'
<1>0. ProposerTypes /\ eval[e] \in Eval /\ Sound(eval[e])
  BY DEF ProposerInv, ProposerTypes
<1> DEFINE rule == Head(eval[e].rules)
           left == Tail(eval[e].rules)
           new == {[kind |-> rule, lot |-> l, version |-> lots[l].version,
                    price |-> IF rule = "markdown" THEN Proposer!Target(l) ELSE 0] : l \in Proposer!Wanted(e, rule)}
           f == eval[e].found \cup new
           at == IF left = <<>> THEN "proposing" ELSE eval[e].pc
           x == [eval[e] EXCEPT !.found = f, !.rules = left, !.pc = at]
<1>1. eval[e].pc = "rules" /\ eval' = [eval EXCEPT ![e] = x]
      /\ UNCHANGED <<now, signals, lots, rung, seen, onRecord, moves, faults, restarts, heard>>
  BY <1>0 DEF Proposer!Apply, ProposerTypes
<1>2. eval[e].rules \in Seq(RuleKinds) /\ eval[e].rules # <<>>
  BY <1>0, <1>1 DEF Eval, Sound, Ready
<1>3. rule \in RuleKinds /\ left \in Seq(RuleKinds)
  BY <1>2
<1>4. Proposer!Wanted(e, rule) \subseteq Lots
  BY <1>3 DEF Proposer!Wanted, RuleKinds
<1>5. ASSUME NEW l \in Proposer!Wanted(e, rule),
             NEW p, p = [kind |-> rule, lot |-> l, version |-> lots[l].version,
                         price |-> IF rule = "markdown" THEN Proposer!Target(l) ELSE 0]
      PROVE  p \in Found /\ Stands(p) /\ Backed(p, eval[e].recent)
  <2>1. l \in Lots /\ lots[l] \in LotRow
    BY <1>0, <1>4 DEF ProposerTypes
  <2>2. lots[l].version \in Nat /\ lots[l].price \in Nat
    BY <2>1 DEF LotRow
  <2>3. p.kind = rule /\ p.lot = l /\ p.version = lots[l].version
        /\ p.price = IF rule = "markdown" THEN Proposer!Target(l) ELSE 0
    BY <1>5
  <2>4. p \in Found
    BY <1>3, <1>5, <2>1, <2>2, TargetPasses DEF Found
  <2>5. \A is : Proposer!Asked(e, is, l) = AskedBy(eval[e].recent, l, is)
    <3>1. \A s \in eval[e].recent : s.by \in Buyers
      BY <1>0 DEF Eval, Signal
    <3> QED BY <3>1 DEF Proposer!Asked, Proposer!Askers, AskedBy
  <2>6. Backed(p, eval[e].recent)
    <3>1. CASE rule = "markdown"
      BY <2>3, <2>5, <3>1 DEF Backed, Proposer!Wanted
    <3>2. CASE rule = "end"
      BY <2>3, <2>5, <3>2 DEF Backed, Proposer!Wanted
    <3>3. CASE rule = "swap"
      BY <2>3, <2>5, <3>3 DEF Backed, Proposer!Wanted
    <3>4. CASE rule = "push"
      BY <2>3, <3>4 DEF Backed
    <3> QED BY <1>3, <3>1, <3>2, <3>3, <3>4 DEF RuleKinds
  <2>7. rule # "end" => Proposer!Passes(rule, l, p.price)
    <3>1. CASE rule = "markdown"
      <4>1. Proposer!Target(l) < lots[l].price /\ lots[l].state # "ended"
        BY <3>1 DEF Proposer!Wanted, Proposer!Saleable
      <4> HIDE DEF rule
      <4> QED BY <2>1, <2>2, <2>3, <3>1, <4>1, TargetPasses DEF Proposer!Passes
    <3>2. CASE rule = "swap"
      BY <2>3, <3>2 DEF Proposer!Passes, Proposer!Wanted, Proposer!Pinned
    <3>3. CASE rule = "push"
      BY <2>3, <3>3 DEF Proposer!Passes, Proposer!Wanted
    <3> QED BY <1>3, <3>1, <3>2, <3>3 DEF RuleKinds
  <2> HIDE DEF rule
  <2> QED BY <2>2, <2>3, <2>4, <2>6, <2>7 DEF Stands
<1> HIDE DEF rule, left
<1>6. \A p \in new : p \in Found /\ Stands(p) /\ Backed(p, eval[e].recent)
  BY <1>5
<1> HIDE DEF new
<1>7. f \subseteq Found /\ \A p \in f : Stands(p) /\ Backed(p, eval[e].recent)
  BY <1>0, <1>6 DEF Eval, Sound
<1> HIDE DEF f
<1>8. x \in Eval /\ x.found = f /\ x.rules = left /\ x.recent = eval[e].recent
      /\ x.pc = IF left = <<>> THEN "proposing" ELSE "rules"
  BY <1>0, <1>1, <1>3, <1>7 DEF Eval
<1> HIDE DEF x, at
<1>9. Sound(x)
  BY <1>7, <1>8 DEF Sound, Ready
<1>10. ProposerTypes'
  BY <1>0, <1>1, <1>8 DEF ProposerTypes
<1> QED BY <1>1, <1>8, <1>9, <1>10, EvalMoves

(* A row is made, or one that is open is answered. *)
LEMMA RowsMove ==
  ASSUME ProposerInv, ProposerTypes', Versioned, NEW r \in OnRecord, Backed(r, r.recent),
         r.status = "refused" /\ r.version = r.read => r.kind = "end",
         \A e \in Evaluations : /\ Ready(eval'[e]) /\ eval'[e].recent = eval[e].recent
                                /\ eval'[e].found \subseteq eval[e].found,
         NEW S, onRecord' = (onRecord \ S) \cup {r},
         \A s \in onRecord :
           (s.kind = r.kind /\ s.lot = r.lot /\ s.version = r.version /\ s.price = r.price) => s \in S
  PROVE  ProposerInv'
<1>1. RowsAreBacked'
  BY DEF ProposerInv, RowsAreBacked, Backed, AskedBy
<1>2. Proposer!OneRowAnIntent'
  BY DEF ProposerInv, Proposer!OneRowAnIntent
<1>3. Proposer!RulesAgreeWithPreflight'
  BY DEF ProposerInv, Proposer!RulesAgreeWithPreflight
<1>4. \A e \in Evaluations : Sound(eval[e])'
  BY StaysSound DEF ProposerInv
<1> QED BY <1>1, <1>2, <1>3, <1>4 DEF ProposerInv

LEMMA CommittedIsOnRecord ==
  ASSUME NEW r \in OnRecord
  PROVE  /\ Proposer!Committed(r) \in OnRecord /\ Proposer!Committed(r).status \in {"committed", "failed"}
         /\ Proposer!Committed(r).kind = r.kind /\ Proposer!Committed(r).lot = r.lot
         /\ Proposer!Committed(r).version = r.version
         /\ Proposer!Committed(r).price = r.price /\ Proposer!Committed(r).recent = r.recent
  BY DEF Proposer!Committed, OnRecord, RowStatuses

LEMMA ProposalIsOnce ==
  ASSUME Proposer!ProposerAssumption, ProposerInv,
         NEW e \in Evaluations, NEW p \in eval[e].found, Proposer!Propose(e, p)
  PROVE  ProposerInv'
<1>0. ProposerTypes /\ eval[e] \in Eval /\ Sound(eval[e]) /\ p \in Found /\ Stands(p) /\ Backed(p, eval[e].recent)
  BY DEF ProposerInv, ProposerTypes, Eval, Sound
<1>1. p.lot \in Lots /\ lots[p.lot] \in LotRow /\ lots[p.lot].version \in Nat
  BY <1>0 DEF Found, ProposerTypes, LotRow
<1> DEFINE prior == {r \in onRecord : /\ r.kind = p.kind /\ r.lot = p.lot
                                      /\ r.version = lots[p.lot].version /\ r.price = p.price}
           fresh == [kind |-> p.kind, lot |-> p.lot, version |-> lots[p.lot].version, price |-> p.price,
                     read |-> p.version, recent |-> eval[e].recent,
                     status |-> IF Proposer!Passes(p.kind, p.lot, p.price) THEN "proposed" ELSE "refused"]
<1>2. PICK r : r = IF prior = {} THEN fresh ELSE CHOOSE x \in prior : TRUE
  OBVIOUS
<1>3. PICK auto \in BOOLEAN : auto = (eval[e].top /\ p.kind = "markdown" /\ r.status = "proposed")
  OBVIOUS
<1>4. /\ UNCHANGED <<now, signals, rung, moves, faults>>
      /\ onRecord' = (onRecord \ prior) \cup {IF auto THEN Proposer!Committed(r) ELSE r}
      /\ lots' = IF auto THEN Proposer!Effect(r) ELSE lots
      /\ eval' = [eval EXCEPT ![e].found = @ \ {p}]
      /\ eval[e].pc = "proposing"
  BY <1>2, <1>3 DEF Proposer!Propose, Proposer!Done, Proposer!Turn
<1>5. fresh \in OnRecord /\ Backed(fresh, fresh.recent)
      /\ (fresh.status = "refused" /\ fresh.version = fresh.read => fresh.kind = "end")
  <2>1. fresh \in OnRecord
    BY <1>0, <1>1 DEF Found, Eval, OnRecord, RowStatuses
  <2>2. Backed(fresh, fresh.recent)
    BY <1>0 DEF Backed
  <2>3. fresh.status = "refused" /\ fresh.version = fresh.read => fresh.kind = "end"
    BY <1>0 DEF Stands
  <2> QED BY <2>1, <2>2, <2>3
<1>6. /\ r \in OnRecord /\ Backed(r, r.recent)
      /\ r.status = "refused" /\ r.version = r.read => r.kind = "end"
      /\ r.kind = p.kind /\ r.lot = p.lot /\ r.version = lots[p.lot].version /\ r.price = p.price
  <2>1. CASE prior = {}
    BY <1>2, <1>5, <2>1
  <2>2. CASE prior # {}
    <3>1. r \in prior
      BY <1>2, <2>2
    <3> HIDE DEF fresh
    <3> QED BY <3>1 DEF ProposerInv, ProposerTypes, RowsAreBacked, Proposer!RulesAgreeWithPreflight
  <2> QED BY <2>1, <2>2
<1>7. PICK z : z = IF auto THEN Proposer!Committed(r) ELSE r
  OBVIOUS
<1>8. /\ z \in OnRecord /\ Backed(z, z.recent) /\ (z.status = "refused" /\ z.version = z.read => z.kind = "end")
      /\ z.kind = p.kind /\ z.lot = p.lot /\ z.version = lots[p.lot].version /\ z.price = p.price
  BY <1>6, <1>7, CommittedIsOnRecord DEF Backed
<1>9. lots' \in [Lots -> LotRow] /\ Versioned
  BY <1>0, <1>4, <1>6, EffectIsVersioned DEF ProposerTypes, Versioned
<1>10. /\ eval' \in [Evaluations -> Eval]
       /\ \A f \in Evaluations : /\ Ready(eval'[f]) /\ eval'[f].recent = eval[f].recent
                                 /\ eval'[f].found \subseteq eval[f].found
  <2>1. PICK x : x = [eval[e] EXCEPT !.found = eval[e].found \ {p}]
    OBVIOUS
  <2>2. /\ x \in Eval
        /\ x.found = eval[e].found \ {p}
        /\ x.recent = eval[e].recent
        /\ x.pc = eval[e].pc
        /\ x.rules = eval[e].rules
    BY <1>0, <2>1 DEF Eval
  <2>3. eval' = [eval EXCEPT ![e] = x]
    BY <1>0, <1>4, <2>1 DEF ProposerTypes
  <2>4. Ready(x) /\ \A f \in Evaluations : Ready(eval[f])
    BY <1>0, <1>4, <2>2 DEF Ready, ProposerInv, Sound
  <2> QED BY <1>0, <2>2, <2>3, <2>4 DEF ProposerTypes
<1>11. PICK S : S = prior
  OBVIOUS
<1>12. onRecord' = (onRecord \ S) \cup {z}
       /\ \A s \in onRecord :
            (s.kind = z.kind /\ s.lot = z.lot /\ s.version = z.version /\ s.price = z.price) => s \in S
  BY <1>4, <1>7, <1>8, <1>11
<1>13. ProposerTypes'
  BY <1>0, <1>4, <1>8, <1>9, <1>10, <1>12 DEF ProposerTypes
<1> HIDE DEF prior, fresh
<1> QED BY <1>8, <1>9, <1>10, <1>12, <1>13, RowsMove

LEMMA AnswerIsOnce ==
  ASSUME Proposer!ProposerAssumption, ProposerInv, NEW q \in onRecord, Proposer!Answer(q)
  PROVE  ProposerInv'
<1>0. ProposerTypes /\ q \in OnRecord /\ Backed(q, q.recent)
  BY DEF ProposerInv, ProposerTypes, RowsAreBacked
<1>1. /\ UNCHANGED <<now, signals, rung, eval, faults>>
      /\ q.status = "proposed"
      /\ moves < MaxMoves
      /\ moves' = moves + 1
  BY DEF Proposer!Answer
<1>2. PICK z : /\ z \in OnRecord /\ z.status # "refused" /\ onRecord' = (onRecord \ {q}) \cup {z} /\ z.recent = q.recent
               /\ z.kind = q.kind /\ z.lot = q.lot /\ z.version = q.version /\ z.price = q.price
  <2>1. CASE onRecord' = (onRecord \ {q}) \cup {[q EXCEPT !.status = "rejected"]}
    <3>1. PICK z : z = [q EXCEPT !.status = "rejected"]
      OBVIOUS
    <3>2. /\ z \in OnRecord /\ z.status = "rejected" /\ z.recent = q.recent
          /\ z.kind = q.kind /\ z.lot = q.lot /\ z.version = q.version /\ z.price = q.price
      BY <1>0, <3>1 DEF OnRecord, RowStatuses
    <3> QED BY <2>1, <3>1, <3>2
  <2>2. CASE onRecord' = (onRecord \ {q}) \cup {Proposer!Committed(q)}
    BY <1>0, <2>2, CommittedIsOnRecord
  <2> QED BY <2>1, <2>2 DEF Proposer!Answer
<1>3. lots' \in [Lots -> LotRow] /\ Versioned
  BY <1>0, EffectIsVersioned DEF Proposer!Answer, ProposerTypes, Versioned
<1>4. moves' \in 0..MaxMoves
  BY <1>0, <1>1 DEF ProposerTypes, Proposer!ProposerAssumption
<1>5. ProposerTypes'
  BY <1>0, <1>1, <1>2, <1>3, <1>4 DEF ProposerTypes
<1>6. \A s \in onRecord : (s.kind = z.kind /\ s.lot = z.lot /\ s.version = z.version /\ s.price = z.price) => s = q
  BY <1>2 DEF ProposerInv, Proposer!OneRowAnIntent
<1>7. \A e \in Evaluations : Ready(eval'[e])
  BY <1>1 DEF ProposerInv, Sound
<1>8. Backed(z, z.recent)
  BY <1>0, <1>2 DEF Backed
<1>9. PICK S : S = {q}
  OBVIOUS
<1> QED BY <1>1, <1>2, <1>3, <1>5, <1>6, <1>7, <1>8, <1>9, RowsMove

(* Lots and clocks move; what is on record stays. *)
LEMMA WorldMoves ==
  ASSUME ProposerInv, ProposerTypes', Versioned, UNCHANGED <<eval, onRecord>>
  PROVE  ProposerInv'
<1>1. \A e \in Evaluations : Sound(eval[e])'
  <2> TAKE e \in Evaluations
  <2>1. Sound(eval[e]) /\ eval'[e] = eval[e]
    BY DEF ProposerInv
  <2> QED BY <2>1, StaysSound DEF ProposerInv, Sound
<1>2. RowsAreBacked' /\ Proposer!OneRowAnIntent' /\ Proposer!RulesAgreeWithPreflight'
  BY DEF ProposerInv, RowsAreBacked, Proposer!OneRowAnIntent, Proposer!RulesAgreeWithPreflight, Backed, AskedBy
<1> QED BY <1>1, <1>2 DEF ProposerInv

LEMMA ProposerKept == Proposer!ProposerAssumption /\ ProposerInv /\ [Proposer!Next]_Proposer!vars => ProposerInv'
<1> SUFFICES ASSUME Proposer!ProposerAssumption, ProposerInv, [Proposer!Next]_Proposer!vars PROVE ProposerInv'
  OBVIOUS
<1>0. ProposerTypes /\ \A e \in Evaluations : eval[e] \in Eval /\ Sound(eval[e])
  BY DEF ProposerInv, ProposerTypes
<1>i. Proposer!Idle \in Eval /\ Sound(Proposer!Idle)
  <2>1. Proposer!Rules \in Seq(RuleKinds) /\ Proposer!Rules # <<>>
    BY DEF Proposer!Rules, RuleKinds
  <2> QED BY <2>1 DEF Proposer!Idle, Eval, Sound, Ready
<1>1. CASE Proposer!Tick \/ Proposer!SetRung \/ UNCHANGED Proposer!vars
  <2>1. UNCHANGED <<eval, onRecord, lots, signals, faults>>
    BY <1>1 DEF Proposer!Tick, Proposer!SetRung, Proposer!vars
  <2>2. now' \in 0..MaxTime /\ now <= now' /\ now \in Nat
    BY <1>0, <1>1 DEF Proposer!Tick, Proposer!SetRung, Proposer!vars, ProposerTypes, Proposer!ProposerAssumption
  <2>3. rung' \in BOOLEAN /\ moves' \in 0..MaxMoves
    <3>1. (rung' = rung /\ moves' = moves) \/ (rung' = ~rung /\ moves < MaxMoves /\ moves' = moves + 1)
      BY <1>1 DEF Proposer!Tick, Proposer!SetRung, Proposer!vars
    <3>2. rung' \in BOOLEAN
      BY <1>0, <3>1 DEF ProposerTypes
    <3>3. moves' \in 0..MaxMoves
      BY <1>0, <3>1 DEF ProposerTypes, Proposer!ProposerAssumption
    <3> QED BY <3>2, <3>3
  <2>4. \A s \in signals : s.at <= now'
    <3>1. \A s \in signals : s.at \in Nat /\ s.at <= now
      BY <1>0 DEF ProposerTypes, Signal
    <3> QED BY <2>2, <3>1 DEF Proposer!ProposerAssumption
  <2>5. ProposerTypes' /\ Versioned
    BY <1>0, <2>1, <2>2, <2>3, <2>4 DEF ProposerTypes, Versioned
  <2> QED BY <2>1, <2>5, WorldMoves
<1>2. CASE Proposer!Restart
  <2>1. /\ UNCHANGED <<now, lots, rung, onRecord, moves, faults>>
        /\ signals' = {}
        /\ eval' = [e \in Evaluations |-> Proposer!Idle]
    BY <1>2 DEF Proposer!Restart
  <2>2. ProposerTypes'
    BY <1>0, <1>i, <2>1 DEF ProposerTypes
  <2>3. \A e \in Evaluations : Sound(eval[e])'
    BY <2>1 DEF Sound, Ready, Proposer!Idle, Proposer!Rules
  <2>4. RowsAreBacked' /\ Proposer!OneRowAnIntent' /\ Proposer!RulesAgreeWithPreflight'
    BY <2>1 DEF ProposerInv, RowsAreBacked, Proposer!OneRowAnIntent, Proposer!RulesAgreeWithPreflight,
       Backed, AskedBy
  <2> QED BY <2>2, <2>3, <2>4 DEF ProposerInv
<1>3. ASSUME NEW e \in Evaluations, NEW b \in Buyers, NEW q \in Questions, Proposer!Hear(e, b, q)
      PROVE  ProposerInv'
  <2> DEFINE x == [eval[e] EXCEPT !.pc = "begun", !.top = rung]
  <2>1. /\ eval[e].pc = "idle" /\ eval' = [eval EXCEPT ![e] = x]
        /\ UNCHANGED <<now, lots, rung, seen, onRecord, moves, faults, restarts>>
    BY <1>0, <1>3 DEF Proposer!Hear, ProposerTypes
  <2>2. x \in Eval /\ Sound(x)
    <3>1. x \in Eval /\ x.pc = "begun" /\ x.found = eval[e].found /\ x.rules = eval[e].rules
      BY <1>0 DEF Eval, ProposerTypes
    <3> HIDE DEF x
    <3> QED BY <1>0, <2>1, <3>1 DEF Sound, Ready
  <2>3. signals' \subseteq Signal /\ \A s \in signals' : s.at <= now'
    <3>1. PICK s : s = [at |-> now, intent |-> q.intent, lot |-> q.lot, by |-> b]
      OBVIOUS
    <3>2. q.intent \in Proposer!Intents /\ q.lot \in Lots /\ now \in Nat
      BY <1>0 DEF Proposer!ProposerAssumption, ProposerTypes
    <3>3. s \in Signal /\ s.at = now
      BY <3>1, <3>2 DEF Signal
    <3>4. signals' \subseteq signals \cup {s}
      BY <1>3, <3>1 DEF Proposer!Hear, Proposer!Record
    <3> QED BY <1>0, <2>1, <3>2, <3>3, <3>4 DEF ProposerTypes
  <2> HIDE DEF x
  <2>4. ProposerTypes'
    BY <1>0, <2>1, <2>2, <2>3 DEF ProposerTypes
  <2> QED BY <2>1, <2>2, <2>4, EvalMoves
<1>4. ASSUME NEW l \in Lots, NEW q \in {0, 1}, NEW c \in Nat, Proposer!Move(l, c, q) PROVE ProposerInv'
  <2>1. /\ moves < MaxMoves /\ moves' = moves + 1 /\ UNCHANGED <<now, signals, rung, eval, onRecord, faults>>
        /\ lots' = [lots EXCEPT ![l].price = c, ![l].qty = q, ![l].version = lots[l].version + 1]
    BY <1>4 DEF Proposer!Move
  <2>2. PICK x \in LotRow : x = lots[l]
    BY <1>0 DEF ProposerTypes
  <2>3. PICK v \in Nat : v = x.version + 1
    BY DEF LotRow
  <2>4. PICK y : y = [x EXCEPT !.price = c, !.qty = q, !.version = v]
    OBVIOUS
  <2>5. y \in LotRow /\ y.version = v
    <3>1. q \in Nat
      OBVIOUS
    <3> QED BY <2>4, <3>1 DEF LotRow
  <2>6. lots' = [lots EXCEPT ![l] = y]
    BY <1>0, <2>1, <2>2, <2>3, <2>4 DEF ProposerTypes
  <2>7. lots' \in [Lots -> LotRow] /\ Versioned
    BY <1>0, <2>2, <2>3, <2>5, <2>6 DEF ProposerTypes, Versioned, LotRow
  <2>8. moves' \in 0..MaxMoves
    BY <1>0, <2>1 DEF ProposerTypes, Proposer!ProposerAssumption
  <2>9. ProposerTypes'
    BY <1>0, <2>1, <2>7, <2>8 DEF ProposerTypes
  <2> QED BY <2>1, <2>7, <2>9, WorldMoves
<1>5. ASSUME NEW e \in Evaluations, Proposer!Evaluate(e) PROVE ProposerInv'
  <2> DEFINE w == {s \in signals : s.at >= now - Window}
             x == [eval[e] EXCEPT !.pc = "rules", !.recent = w]
  <2>1. /\ eval[e].pc = "begun" /\ eval' = [eval EXCEPT ![e] = x]
        /\ UNCHANGED <<now, signals, lots, rung, seen, onRecord, moves, faults, restarts, heard>>
    BY <1>0, <1>5 DEF Proposer!Evaluate, ProposerTypes
  <2>2. x \in Eval /\ Sound(x)
    <3>1. w \subseteq Signal
      BY <1>0 DEF ProposerTypes
    <3> HIDE DEF w
    <3>2. x \in Eval /\ x.pc = "rules" /\ x.found = eval[e].found /\ x.rules = eval[e].rules
      BY <1>0, <3>1 DEF Eval
    <3> HIDE DEF x
    <3> QED BY <1>0, <2>1, <3>2 DEF Sound, Ready
  <2> HIDE DEF x
  <2>3. ProposerTypes'
    BY <1>0, <2>1, <2>2 DEF ProposerTypes
  <2> QED BY <2>1, <2>2, <2>3, EvalMoves
<1>6. ASSUME NEW e \in Evaluations, Proposer!Apply(e) PROVE ProposerInv'
  BY <1>6, RulesAreSound
<1>7. ASSUME NEW e \in Evaluations, NEW p \in eval[e].found, Proposer!PassOver(e, p) PROVE ProposerInv'
  <2> DEFINE f == eval[e].found \ {p}
             x == [eval[e] EXCEPT !.found = f]
  <2>1. /\ eval[e].pc = "proposing" /\ eval' = [eval EXCEPT ![e] = x]
        /\ UNCHANGED <<now, signals, lots, rung, seen, onRecord, moves, faults, restarts, heard>>
    BY <1>0, <1>7 DEF Proposer!PassOver, Proposer!Turn, Proposer!Done, ProposerTypes
  <2>2. x \in Eval /\ Sound(x)
    <3>1. x \in Eval /\ x.pc = eval[e].pc /\ x.found = f /\ x.rules = eval[e].rules /\ x.recent = eval[e].recent
      BY <1>0 DEF Eval
    <3> HIDE DEF x
    <3> QED BY <1>0, <2>1, <3>1 DEF Sound, Ready
  <2> HIDE DEF x
  <2>3. ProposerTypes'
    BY <1>0, <2>1, <2>2 DEF ProposerTypes
  <2> QED BY <2>1, <2>2, <2>3, EvalMoves
<1>8. ASSUME NEW e \in Evaluations, Proposer!Evaluated(e) \/ \E p \in eval[e].found : Proposer!ProposeFails(e, p)
      PROVE  ProposerInv'
  <2>1. /\ eval' = [eval EXCEPT ![e] = Proposer!Idle] /\ UNCHANGED <<now, signals, lots, rung, onRecord, moves>>
        /\ faults' = faults \/ (faults < MaxFaults /\ faults' = faults + 1)
    BY <1>8 DEF Proposer!Evaluated, Proposer!ProposeFails
  <2>2. faults' \in 0..MaxFaults
    BY <1>0, <2>1 DEF ProposerTypes, Proposer!ProposerAssumption
  <2>3. ProposerTypes'
    BY <1>0, <1>i, <2>1, <2>2 DEF ProposerTypes
  <2> QED BY <1>i, <2>1, <2>3, EvalMoves
<1>9. ASSUME NEW l \in Lots, NEW q \in {0, 1}, Proposer!Move(l, lots[l].price, q) \/ Proposer!Move(l, Opening[l], q)
      PROVE  ProposerInv'
  <2>1. lots[l].price \in Nat /\ Opening[l] \in Nat
    BY <1>0 DEF ProposerTypes, LotRow, Proposer!ProposerAssumption
  <2>2. PICK c \in Nat : Proposer!Move(l, c, q)
    BY <1>9, <2>1
  <2> QED BY <1>4, <2>2
<1> QED BY <1>1, <1>2, <1>3, <1>5, <1>6, <1>7, <1>8, <1>9, ProposalIsOnce, AnswerIsOnce DEF Proposer!Next

(* Whatever is asked, moved, answered and restarted: an intent is on record  *)
(* once for a version of a lot; it rests on as many buyers as its rule asks  *)
(* for; and a rule never proposes, of a lot that is still as it read it,     *)
(* what the preflight refuses, ends apart (ActionProposer.evaluate).         *)
THEOREM IntentsAreBacked ==
  Proposer!ProposerAssumption =>
    (Proposer!Spec => [](/\ Proposer!TypeOK /\ Proposer!OneRowAnIntent
                         /\ Proposer!RestsOnBuyers /\ Proposer!RulesAgreeWithPreflight))
<1> SUFFICES ASSUME Proposer!ProposerAssumption
             PROVE  Proposer!Spec => [](/\ Proposer!TypeOK /\ Proposer!OneRowAnIntent
                                        /\ Proposer!RestsOnBuyers /\ Proposer!RulesAgreeWithPreflight)
  OBVIOUS
<1>1. ProposerInv => Proposer!TypeOK
  <2> SUFFICES ASSUME ProposerTypes PROVE Proposer!TypeOK
    BY DEF ProposerInv
  <2>1. \A s \in signals : s.at \in 0..now /\ s.intent \in Proposer!Intents /\ s.lot \in Lots /\ s.by \in Buyers
    BY DEF ProposerTypes, Signal
  <2>2. \A l \in Lots : lots[l].price \in Nat /\ lots[l].qty \in Nat /\ lots[l].state \in {"live", "queued", "ended"}
    BY DEF ProposerTypes, LotRow
  <2>3. \A e \in Evaluations : eval[e].pc \in {"idle", "begun", "rules", "proposing"}
    BY DEF ProposerTypes, Eval
  <2>4. \A r \in onRecord : r.status \in {"proposed", "refused", "committed", "failed", "rejected"}
    BY DEF ProposerTypes, OnRecord, RowStatuses
  <2> QED BY <2>1, <2>2, <2>3, <2>4 DEF ProposerTypes, Proposer!TypeOK
<1>2. ProposerInv => Proposer!RestsOnBuyers
  BY DEF ProposerInv, RowsAreBacked, Backed, AskedBy, Proposer!RestsOnBuyers
<1>3. ProposerInv => Proposer!OneRowAnIntent /\ Proposer!RulesAgreeWithPreflight
  BY DEF ProposerInv
<1>4. Proposer!Init => ProposerInv
  BY ProposerInit
<1>5. ProposerInv /\ [Proposer!Next]_Proposer!vars => ProposerInv'
  BY ProposerKept
<1> QED BY <1>1, <1>2, <1>3, <1>4, <1>5, PTL DEF Proposer!Spec
================================================================================
