------------------------------- MODULE ShowRow -------------------------------
(***************************************************************************)
(* The row of a show.  Repo.updateShow reads it, lays a patch over what it *)
(* read and writes every column back, and five callers do so without       *)
(* waiting for one another: the watcher (viewers, title), the handler of   *)
(* an observed lot (the pin), a catalog that is applied, and the seller    *)
(* who moves the rung (Pipeline.setAutonomy, which then appends to the     *)
(* audit log).  The status is also written by statements of its own, when  *)
(* a session ends and when a show that ended is attached again.            *)
(***************************************************************************)
EXTENDS Integers

CONSTANTS
  Writers,     \* updates in flight at once
  Levels,      \* the rungs a seller chooses between
  MaxUpdates,  \* bound: updates in all
  MaxFaults,   \* bound: statements that fail
  Overlaps     \* whether an update may begin while another is between its statements

VARIABLES
  row,      \* shows: what is on the page (viewers, title), the pin, the rung, the status
  writer,   \* writer -> what it patches, and the row as it read it
  audited,  \* the rung the last autonomy_changed entry names
  onAir,    \* a session runs on the show
  updates, faults,
  unsaid    \* history: a rung was written, and its entry could not be

(* There is a rung to choose, and the bounds are numbers. *)
RowAssumption == Levels # {} /\ MaxUpdates \in Nat /\ MaxFaults \in Nat

vars == <<row, writer, audited, onAir, updates, faults, unsaid>>

Patches == [column : {"page", "pin"}, value : {1}] \cup [column : {"level"}, value : Levels]
Row == [page : {0, 1}, pin : {0, 1}, level : Levels, status : {"live", "ended"}]
Idle == [pc |-> "idle"]

Init ==
  /\ row = [page |-> 0, pin |-> 0, level |-> CHOOSE l \in Levels : TRUE, status |-> "live"]
  /\ writer = [w \in Writers |-> Idle] /\ audited = row.level
  /\ onAir = TRUE /\ updates = 0 /\ faults = 0 /\ unsaid = FALSE

Between == {w \in Writers : writer[w].pc \in {"write", "audit"}}
At(w, pc) == writer[w].pc = pc
Done(w) == writer' = [writer EXCEPT ![w] = Idle]

(* onViewers, onTitle and the handler of a lot that had begun when the      *)
(* watcher was stopped go on.                                               *)
Update(w, patch) ==
  /\ writer[w] = Idle /\ updates < MaxUpdates /\ updates' = updates + 1
  /\ writer' = [writer EXCEPT ![w] = [pc |-> IF patch.column = "level" THEN "previous" ELSE "read", patch |-> patch]]
  /\ UNCHANGED <<row, audited, onAir, faults, unsaid>>

(* setAutonomy asks which rung it was, for the entry. *)
ReadPrevious(w) ==
  /\ At(w, "previous")
  /\ writer' = [writer EXCEPT ![w].pc = "read"]
  /\ UNCHANGED <<row, audited, onAir, updates, faults, unsaid>>

ReadRow(w) ==
  /\ At(w, "read") /\ (Overlaps \/ Between = {})
  /\ writer' = [writer EXCEPT ![w] = [pc |-> "write", patch |-> @.patch, next |-> [row EXCEPT ![writer[w].patch.column] = writer[w].patch.value]]]
  /\ UNCHANGED <<row, audited, onAir, updates, faults, unsaid>>

WriteRow(w) ==
  /\ At(w, "write")
  /\ row' = writer[w].next
  /\ IF writer[w].patch.column = "level" THEN writer' = [writer EXCEPT ![w] = [pc |-> "audit", patch |-> @.patch]] ELSE Done(w)
  /\ UNCHANGED <<audited, onAir, updates, faults, unsaid>>

AppendEntry(w) ==
  /\ At(w, "audit") /\ audited' = writer[w].patch.value /\ Done(w)
  /\ UNCHANGED <<row, onAir, updates, faults, unsaid>>

(* A statement fails: the route answers so, the watcher says nothing. *)
StatementFails(w) ==
  /\ writer[w] # Idle /\ faults < MaxFaults /\ faults' = faults + 1
  /\ Done(w) /\ unsaid' = (unsaid \/ At(w, "audit"))
  /\ UNCHANGED <<row, audited, onAir, updates>>

(* ShowRuntime.finishSession, its finally. *)
Finish ==
  /\ onAir /\ onAir' = FALSE /\ (Overlaps \/ Between = {})
  /\ row' = [row EXCEPT !.status = "ended"]
  /\ UNCHANGED <<writer, audited, updates, faults, unsaid>>

(* ShowRuntime.init on a show that ended: the rung it was left at stays. *)
AttachAgain_fresh ==  \* mutant: a new session starts where new shows start
  /\ ~onAir /\ onAir' = TRUE /\ (Overlaps \/ Between = {})
  /\ row' = [row EXCEPT !.status = "live", !.level = CHOOSE l \in Levels : TRUE]
  /\ UNCHANGED <<writer, audited, updates, faults, unsaid>>

AttachAgain ==
  /\ ~onAir /\ onAir' = TRUE /\ (Overlaps \/ Between = {})
  /\ row' = IF row.status = "ended" THEN [row EXCEPT !.status = "live"] ELSE row
  /\ UNCHANGED <<writer, audited, updates, faults, unsaid>>

-----------------------------------------------------------------------------
Next ==
  \/ Finish \/ AttachAgain
  \/ \E w \in Writers :
       \/ \E patch \in Patches : Update(w, patch)
       \/ ReadPrevious(w) \/ ReadRow(w) \/ WriteRow(w) \/ AppendEntry(w) \/ StatementFails(w)

Spec == Init /\ [][Next]_vars

-----------------------------------------------------------------------------
TypeOK ==
  /\ row \in Row /\ audited \in Levels /\ onAir \in BOOLEAN
  /\ updates \in 0..MaxUpdates /\ faults \in 0..MaxFaults /\ unsaid \in BOOLEAN
  /\ \A w \in Writers : writer[w].pc \in {"idle", "previous", "read", "write", "audit"}

(* A show drafts, and sends, at the rung that the record says it was last   *)
(* moved to - moving it is "the most consequential write in the product"    *)
(* (routes.ts, line 4067) - while nobody is moving it, and unless an entry  *)
(* could not be written.                                                    *)
RungIsOnRecord ==
  (\A w \in Writers : writer[w] # Idle => writer[w].patch.column # "level") => row.level = audited \/ unsaid

(* A show whose session ended reads as ended, or the next boot takes it up  *)
(* again (resume.ts).                                                       *)
EndedIsEnded == row.status = "live" <=> onAir
=============================================================================
