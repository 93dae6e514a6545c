------------------------------ MODULE Interests ------------------------------
(***************************************************************************)
(* What an operator is interested in (discover/interests.ts): terms the    *)
(* catalogs yield are absorbed on every read of Discover, in a read of the *)
(* removed ones and a write; the operator's edit replaces the set, in two  *)
(* statements that no transaction holds together.  A removal leaves a row  *)
(* behind, so that the next reading of the catalogs does not undo it.      *)
(***************************************************************************)
EXTENDS Integers, FiniteSets

CONSTANTS
  Terms,
  Readers,              \* requests that absorb
  Tabs,                 \* requests that replace
  MaxFaults, MaxSwaps   \* bounds

(* The bounds are numbers. *)
InterestsAssumption == MaxFaults \in Nat /\ MaxSwaps \in Nat

VARIABLES
  rows,      \* discover_interests of the account
  catalogs,  \* the terms its catalogs yield
  readers,   \* request -> the removed terms it read, or what it is at
  tabs,      \* request -> the set it asks for, or what it is at
  faults, swaps,
  decided    \* history: what the last finished statements of an edit made of a term

vars == <<rows, catalogs, readers, tabs, faults, swaps, decided>>

NoRow == [there |-> FALSE, deleted |-> FALSE, own |-> FALSE, spelled |-> "nobody"]

Init ==
  /\ rows = [t \in Terms |-> NoRow] /\ catalogs = {}
  /\ readers = [r \in Readers |-> <<"new">>] /\ tabs = [p \in Tabs |-> <<"new">>]
  /\ faults = 0 /\ swaps = 0 /\ decided = [t \in Terms |-> "nothing"]

Live == {t \in Terms : rows[t].there /\ ~rows[t].deleted}

(* A catalog is loaded, swapped or removed. *)
Load(s) ==
  /\ swaps < MaxSwaps /\ swaps' = swaps + 1 /\ catalogs' = s
  /\ UNCHANGED <<rows, readers, tabs, faults, decided>>

Fault == faults < MaxFaults /\ faults' = faults + 1

------------------------------- (* absorb *) --------------------------------
(* A term that was removed is left out. *)
Tombstones(r) ==
  /\ readers[r] = <<"new">>
  /\ readers' = [readers EXCEPT ![r] = <<"read", catalogs \ {t \in Terms : rows[t].deleted}>>]
  /\ UNCHANGED <<rows, catalogs, tabs, faults, swaps, decided>>

(* Mutants: the row of a term that was derived again is live; the catalog's  *)
(* spelling is taken for every term.                                          *)
Absorbed_live(t) == [there |-> TRUE, deleted |-> FALSE, own |-> rows[t].own,
  spelled |-> IF rows[t].own THEN rows[t].spelled ELSE "catalog"]
Absorbed_spelled(t) == [rows[t] EXCEPT !.there = TRUE, !.spelled = "catalog"]

(* ON CONFLICT: the count moves, and the spelling of a term nobody adopted.  *)
Absorbed(t) == [rows[t] EXCEPT !.there = TRUE, !.spelled = IF rows[t].own THEN @ ELSE "catalog"]

(* The write is attempted and its failure swallowed. *)
Absorb(r) ==
  /\ readers[r][1] = "read"
  /\ readers' = [readers EXCEPT ![r] = <<"new">>]
  /\ \/ Fault /\ UNCHANGED rows
     \/ rows' = [t \in Terms |-> IF t \in readers[r][2] THEN Absorbed(t) ELSE rows[t]] /\ UNCHANGED faults
  /\ UNCHANGED <<catalogs, tabs, swaps, decided>>

------------------------------- (* replace *) -------------------------------
(* The operator sends the whole set, as their tab shows it.                  *)
Put(p, wanted) ==
  /\ tabs[p] = <<"new">> /\ tabs' = [tabs EXCEPT ![p] = <<"drop", wanted>>]
  /\ UNCHANGED <<rows, catalogs, readers, faults, swaps, decided>>

Drop(p) ==
  LET wanted == tabs[p][2] IN
  /\ tabs[p][1] = "drop"
  /\ \/ Fault /\ tabs' = [tabs EXCEPT ![p] = <<"new">>] /\ UNCHANGED <<rows, decided>>
     \/ /\ rows' = [t \in Terms |-> IF t \in Live \ wanted THEN [rows[t] EXCEPT !.deleted = TRUE] ELSE rows[t]]
        /\ decided' = [t \in Terms |-> IF t \in Live \ wanted THEN "removed" ELSE decided[t]]
        /\ tabs' = [tabs EXCEPT ![p] = IF wanted = {} THEN <<"new">> ELSE <<"keep", wanted>>]
        /\ UNCHANGED faults
  /\ UNCHANGED <<catalogs, readers, swaps>>

(* ON CONFLICT leaves the origin as it was: a term that was derived and kept *)
(* is spelled as the operator has it, and is not theirs.                     *)
Keep(p) ==
  LET wanted == tabs[p][2] IN
  /\ tabs[p][1] = "keep" /\ tabs' = [tabs EXCEPT ![p] = <<"new">>]
  /\ \/ Fault /\ UNCHANGED <<rows, decided>>
     \/ /\ rows' = [t \in Terms |-> IF t \notin wanted THEN rows[t]
              ELSE [there |-> TRUE, deleted |-> FALSE, own |-> rows[t].own \/ ~rows[t].there, spelled |-> "operator"]]
        /\ decided' = [t \in Terms |-> IF t \in wanted THEN "kept" ELSE decided[t]]
        /\ UNCHANGED faults
  /\ UNCHANGED <<catalogs, readers, swaps>>

Next ==
  \/ \E s \in SUBSET Terms : Load(s)
  \/ \E r \in Readers : Tombstones(r) \/ Absorb(r)
  \/ \E p \in Tabs : (\E s \in SUBSET Terms : Put(p, s)) \/ Drop(p) \/ Keep(p)

Spec == Init /\ [][Next]_vars

-------------------------------- (* properties *) ---------------------------
TypeOK ==
  /\ rows \in [Terms -> [there : BOOLEAN, deleted : BOOLEAN, own : BOOLEAN, spelled : {"nobody", "catalog", "operator"}]]
  /\ catalogs \subseteq Terms
  /\ \A r \in Readers : readers[r] = <<"new">> \/ (readers[r][1] = "read" /\ readers[r][2] \subseteq Terms)
  /\ \A p \in Tabs : tabs[p] = <<"new">> \/ (tabs[p][1] \in {"drop", "keep"} /\ tabs[p][2] \subseteq Terms)
  /\ faults \in 0..MaxFaults /\ swaps \in 0..MaxSwaps
  /\ decided \in [Terms -> {"nothing", "removed", "kept"}]

(* What the edits decided of a term stands through every reading of the      *)
(* catalogs, however these interleave: a term taken out stays out, one that   *)
(* was kept stays, and one the operator typed keeps their spelling            *)
(* (interests.ts:310-338).                                                    *)
EditsStand == \A t \in Terms :
  /\ decided[t] = "removed" => t \notin Live
  /\ decided[t] = "kept" => t \in Live
  /\ rows[t].own => rows[t].spelled = "operator"
============================================================================
