----------------------------- MODULE MCPromises -----------------------------
(***************************************************************************)
(* What the documents say of three components, and what the code does not keep.*)
(***************************************************************************)
EXTENDS Integers, FiniteSets

VARIABLES
  active,   \* the one component that runs in a behaviour
  e_row, e_offer, e_target, e_seen, e_held, e_act, e_edits, e_faults, e_switches, e_moved,
  y_lineup, y_agent, y_kb, y_watching, y_purged, y_lastSignature, y_sync, y_made, y_faults, y_uploaded, y_emptied,
  m_now, m_signals, m_lots, m_rung, m_seen, m_eval, m_rows, m_heard, m_moves, m_faults, m_restarts

e_vars == <<e_row, e_offer, e_target, e_seen, e_held, e_act, e_edits, e_faults, e_switches, e_moved>>
y_vars == <<y_lineup, y_agent, y_kb, y_watching, y_purged, y_lastSignature, y_sync, y_made, y_faults, y_uploaded, y_emptied>>
m_vars == <<m_now, m_signals, m_lots, m_rung, m_seen, m_eval, m_rows, m_heard, m_moves, m_faults, m_restarts>>
vars == <<active, e_vars, y_vars, m_vars>>

(* What the buyers of a show ask. *)
MCQuestions ==
  { [intent |-> "discount", lot |-> "a"], [intent |-> "availability", lot |-> "a"],
    [intent |-> "other", lot |-> "b"] }

Ebay == INSTANCE EbayAdapter WITH
  row <- e_row, offer <- e_offer, target <- e_target, seen <- e_seen, held <- e_held,
  act <- e_act, edits <- e_edits, faults <- e_faults, switches <- e_switches,
  moved <- e_moved,
  Actions <- {"m"}, Kind <- [m |-> "markdown_price"], NewPrice <- 8, NewQty <- 1,
  MaxEdits <- 1, MaxFaults <- 1, MaxSwitches <- 1

Corpus == INSTANCE KbSync WITH
  lineup <- y_lineup, agent <- y_agent, kb <- y_kb, watching <- y_watching,
  purged <- y_purged, lastSignature <- y_lastSignature, sync <- y_sync, made <- y_made,
  faults <- y_faults, uploaded <- y_uploaded, emptied <- y_emptied,
  Shows <- {"s1", "s2"}, Gone <- {"old"}, Agents <- {"agent"},
  First <- [s1 |-> "agent", s2 |-> "agent"], Requests <- {"r1", "r2"}, MaxLineup <- 1,
  MaxFaults <- 1

Proposer == INSTANCE ActionProposer WITH
  now <- m_now, signals <- m_signals, lots <- m_lots, rung <- m_rung, seen <- m_seen,
  eval <- m_eval, rows <- m_rows, heard <- m_heard, moves <- m_moves,
  faults <- m_faults, restarts <- m_restarts,
  Lots <- {"a", "b"}, Buyers <- {"x", "y"}, Questions <- MCQuestions, Queue <- <<"b">>,
  Opening <- [a |-> 8, b |-> 4], Floor <- [a |-> 4, b |-> 4],
  Median <- [a |-> 0, b |-> 0], Cap <- 25, Step <- 1, Window <- 1, Discounts <- 2,
  Swaps <- 2, Evaluations <- {"e1"}, MaxHeard <- 3, MaxTime <- 0, MaxMoves <- 1,
  MaxRows <- 2, MaxFaults <- 1, MaxRestarts <- 1

Init ==
  /\ active \in {"Ebay", "Corpus", "Proposer"}
  /\ Ebay!Init
  /\ Corpus!Init
  /\ Proposer!Init

(* One component steps, the others stay in their initial state: what is     *)
(* checked of each is checked of it alone, and the state spaces add up.     *)
EbaySteps == active = "Ebay" /\ Ebay!Next /\ UNCHANGED <<active, y_vars, m_vars>>
CorpusSteps == active = "Corpus" /\ Corpus!Next /\ UNCHANGED <<active, e_vars, m_vars>>
ProposerSteps == active = "Proposer" /\ Proposer!Next /\ UNCHANGED <<active, e_vars, y_vars>>

Next == EbaySteps \/ CorpusSteps \/ ProposerSteps

Spec == Init /\ [][Next]_vars

-----------------------------------------------------------------------------
(* The components that do not run are as they began, so a state is judged by *)
(* the one that does.                                                       *)
(* EbayAdapter: a committed write happened on the side it is said to go to. *)
CommittedIsWritten == active = "Ebay" => Ebay!CommittedIsWritten

(* KbSync: the corpus of a show that is watched is not emptied for a sibling. *)
SiblingsKeepTheirs == active = "Corpus" => Corpus!SiblingsKeepTheirs

(* ActionProposer: what is committed leaves a lot within the cap of its opening price. *)
DiscountsStayWithinCap == active = "Proposer" => Proposer!DiscountsStayWithinCap
=============================================================================
