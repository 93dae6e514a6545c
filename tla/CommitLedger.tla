---------------------------- MODULE CommitLedger ----------------------------
(***************************************************************************)
(* What the executor promises its callers, said without requests, remote   *)
(* writes or reservations: a listing changes only together with a ledger   *)
(* row.  A key is committed at most once, however often, from wherever and *)
(* across whatever crashes it is approved; and only what was committed is  *)
(* ever undone.                                                            *)
(***************************************************************************)
EXTENDS Catalog

CONSTANTS Keys, InitialCatalog

VARIABLES catalog, ledger, undone

ledgerVars == <<catalog, ledger, undone>>

Init == catalog = InitialCatalog /\ ledger = {} /\ undone = {}

CommitOnce(k) ==
  /\ k \notin ledger
  /\ ledger' = ledger \cup {k}
  /\ catalog' = applyLocal(catalog, k.intent)
  /\ UNCHANGED undone

(* An undo is a new event in the history of its one listing. *)
Undo(k) ==
  /\ k \in ledger
  /\ undone' = undone \cup {k}
  /\ \A l \in Listings \ {k.intent.listing} : catalog'[l] = catalog[l]
  /\ catalog'[k.intent.listing].version = catalog[k.intent.listing].version + 1
  /\ UNCHANGED ledger

Next == \E k \in Keys : CommitOnce(k) \/ Undo(k)

Spec == Init /\ [][Next]_ledgerVars
=============================================================================
