------------------------------ MODULE ShowBudget ------------------------------
(***************************************************************************)
(* The spend cap of a show (llm/budget.ts): what a show has cost is the    *)
(* difference of two readings of the wallet that the whole workspace draws *)
(* from (llm/billing.ts SpendWindow); a watch reads it once a minute and   *)
(* latches the shows that have reached the cap, and the pipeline admits no *)
(* more questions to them.                                                 *)
(*                                                                         *)
(* Money is counted in units; a draft costs one.                           *)
(***************************************************************************)
EXTENDS Integers, FiniteSets

CONSTANTS
  Shows,
  SavedCap,    \* the cap the sellers have saved in their settings
  ProcessCap,  \* the cap of the process's own policy; NoCap: none is set
  NoCap,
  Balance,     \* bound: what is in the wallet at first
  MaxTopUps, MaxRestarts, MaxFailures   \* bounds: top-ups, restarts, readings that fail

VARIABLES
  wallet,
  session,   \* show -> "off", "live" or "ended"
  draft,     \* show -> is a draft of it running?
  anchor,    \* show -> how far its opening reading is, and what it read
  opened,    \* SpendWindow.opened: show -> the balance, if there is a window
  last,      \* SpendWindow.lastSpend: show -> the last spend computed
  capped,    \* BudgetWatch.capped
  poll,      \* the watch: is it reading, and for which shows?
  costs,     \* show_costs: show -> what it is recorded to have cost
  seen,      \* history: show -> the spend the watch has seen of it while it was live
  events     \* how often each bounded event happened

vars == <<wallet, session, draft, anchor, opened, last, capped, poll, costs, seen, events>>

Unknown == -1
NotRead == [pc |-> "idle", value |-> 0]
Live == {s \in Shows : session[s] = "live"}

(* What a process forgets. *)
Blank ==
  /\ anchor = [s \in Shows |-> NotRead] /\ poll = [pc |-> "idle", shows |-> {}]
  /\ opened = [s \in Shows |-> Unknown] /\ last = opened
  /\ capped = {} /\ seen = [s \in Shows |-> 0]

Init ==
  /\ wallet = Balance /\ Blank
  /\ session = [s \in Shows |-> "off"] /\ draft = [s \in Shows |-> FALSE]
  /\ costs = [s \in Shows |-> Unknown]
  /\ events = [topUp |-> 0, restart |-> 0, failure |-> 0]

Happens(kind, bound) == events[kind] < bound /\ events' = [events EXCEPT ![kind] = @ + 1]

----------------------------- (* the wallet *) ------------------------------
(* A draft, once it was admitted, and a regeneration, which asks no cap.    *)
Admit(s) ==
  /\ s \in Live /\ ~draft[s] /\ s \notin capped /\ wallet > 0
  /\ draft' = [draft EXCEPT ![s] = TRUE]
  /\ UNCHANGED <<wallet, session, anchor, opened, last, capped, poll, costs, seen, events>>

Regenerate(s) ==
  /\ s \in Live /\ ~draft[s] /\ wallet > 0
  /\ draft' = [draft EXCEPT ![s] = TRUE]
  /\ UNCHANGED <<wallet, session, anchor, opened, last, capped, poll, costs, seen, events>>

Spend(s) ==
  /\ draft[s] /\ wallet > 0
  /\ wallet' = wallet - 1 /\ draft' = [draft EXCEPT ![s] = FALSE]
  /\ UNCHANGED <<session, anchor, opened, last, capped, poll, costs, seen, events>>

TopUp ==
  /\ Happens("topUp", MaxTopUps) /\ wallet' = wallet + 1
  /\ UNCHANGED <<session, draft, anchor, opened, last, capped, poll, costs, seen>>

---------------------------- (* spend windows *) ----------------------------
Attach(s) ==
  /\ session[s] = "off"
  /\ session' = [session EXCEPT ![s] = "live"]
  /\ anchor' = [anchor EXCEPT ![s].pc = "due"]
  /\ UNCHANGED <<wallet, draft, opened, last, capped, poll, costs, seen, events>>

(* Drafts do not wait for the opening reading; one that fails is not tried  *)
(* again.                                                                   *)
AnchorReads(s) ==
  /\ anchor[s].pc = "due"
  /\ \/ anchor' = [anchor EXCEPT ![s] = [pc |-> "read", value |-> wallet]] /\ events' = events
     \/ Happens("failure", MaxFailures) /\ anchor' = [anchor EXCEPT ![s] = NotRead]
  /\ UNCHANGED <<wallet, session, draft, opened, last, capped, poll, costs, seen>>

(* SpendWindow.open: the first balance stays. *)
AnchorOpens(s) ==
  /\ anchor[s].pc = "read"
  /\ opened' = [opened EXCEPT ![s] = IF @ = Unknown THEN anchor[s].value ELSE @]
  /\ anchor' = [anchor EXCEPT ![s] = NotRead]
  /\ UNCHANGED <<wallet, session, draft, last, capped, poll, costs, seen, events>>

(* SpendWindow.since, for every window there is; a top-up is not income.    *)
Delta(from, to) == IF from > to THEN from - to ELSE 0
Spends(balance) == [s \in Shows |-> IF opened[s] = Unknown THEN last[s] ELSE Delta(opened[s], balance)]

(* The cost rail: it opens a window for each live show that has none.       *)
Rail ==
  /\ \E s \in Live : opened[s] = Unknown
  /\ opened' = [s \in Shows |-> IF s \in Live /\ opened[s] = Unknown THEN wallet ELSE opened[s]]
  /\ last' = [s \in Shows |-> IF s \in Live /\ opened[s] = Unknown THEN 0 ELSE Spends(wallet)[s]]
  /\ UNCHANGED <<wallet, session, draft, anchor, capped, poll, costs, seen, events>>

(* The session ends: what is known of its cost is written down.  Neither    *)
(* its window nor its latch is released.                                    *)
EndShow(s) ==
  /\ s \in Live /\ ~draft[s]
  /\ session' = [session EXCEPT ![s] = "ended"]
  /\ costs' = [costs EXCEPT ![s] = last[s]]
  /\ UNCHANGED <<wallet, draft, anchor, opened, last, capped, poll, seen, events>>

------------------------------- (* the watch *) -----------------------------
Poll ==
  /\ poll.pc = "idle" /\ Live # {}
  /\ poll' = [pc |-> "reading", shows |-> Live]
  /\ UNCHANGED <<wallet, session, draft, anchor, opened, last, capped, costs, seen, events>>

Reached(s, spends) == ProcessCap # NoCap /\ spends[s] # Unknown /\ spends[s] >= ProcessCap

(* The watch is a timer of the process: no request's settings are in scope, *)
(* and policy() is the process's own.  A show is latched once and for all.  *)
PollReads ==
  /\ poll.pc = "reading"
  /\ last' = Spends(wallet)
  /\ capped' = capped \cup {s \in poll.shows : Reached(s, last')}
  /\ seen' = [s \in Shows |-> IF s \in poll.shows /\ last'[s] > seen[s] THEN last'[s] ELSE seen[s]]
  /\ poll' = [pc |-> "idle", shows |-> {}]
  /\ UNCHANGED <<wallet, session, draft, anchor, opened, costs, events>>

PollFails_stops ==  \* mutant: the first reading that fails ends the timer
  /\ poll.pc = "reading" /\ Happens("failure", MaxFailures)
  /\ poll' = [pc |-> "stopped", shows |-> {}]
  /\ UNCHANGED <<wallet, session, draft, anchor, opened, last, capped, costs, seen>>

PollFails ==
  /\ poll.pc = "reading" /\ Happens("failure", MaxFailures)
  /\ poll' = [pc |-> "idle", shows |-> {}]
  /\ UNCHANGED <<wallet, session, draft, anchor, opened, last, capped, costs, seen>>

(* A restart: live shows are resumed, and five seconds later a window is    *)
(* opened for each, at the balance of that moment.                          *)
Restart ==
  /\ Happens("restart", MaxRestarts)
  /\ anchor' = [s \in Shows |-> IF s \in Live THEN [pc |-> "due", value |-> 0] ELSE NotRead]
  /\ opened' = [s \in Shows |-> Unknown] /\ last' = opened' /\ capped' = {}
  /\ seen' = [s \in Shows |-> 0] /\ poll' = [pc |-> "idle", shows |-> {}]
  /\ draft' = [s \in Shows |-> FALSE]
  /\ UNCHANGED <<wallet, session, costs>>

-----------------------------------------------------------------------------
Next ==
  \/ \E s \in Shows : \/ Attach(s) \/ AnchorReads(s) \/ AnchorOpens(s) \/ EndShow(s)
                      \/ Admit(s) \/ Regenerate(s) \/ Spend(s)
  \/ TopUp \/ Rail \/ Poll \/ PollReads \/ PollFails \/ Restart

Spec == Init /\ [][Next]_vars

(* The timer fires once a minute, and a reading returns or times out.       *)
Fairness == WF_vars(Poll) /\ WF_vars(PollReads \/ PollFails)

-----------------------------------------------------------------------------
TypeOK ==
  /\ wallet \in 0..(Balance + MaxTopUps) /\ session \in [Shows -> {"off", "live", "ended"}]
  /\ draft \in [Shows -> BOOLEAN] /\ capped \subseteq Shows
  /\ \A s \in Shows : {opened[s], last[s], costs[s], seen[s], anchor[s].value} \subseteq Unknown..(Balance + MaxTopUps)
  /\ poll.pc \in {"idle", "reading"} /\ poll.shows \subseteq Shows

(* A show that is over the process's cap by the wallet does not go on       *)
(* drafting: the watch sees it and latches it, across readings that fail    *)
(* and spends of other shows, unless money comes in, the process restarts   *)
(* or the show ends.                                                        *)
OverspendIsStopped == \A s \in Shows :
  (s \in Live /\ opened[s] # Unknown /\ ProcessCap # NoCap /\ opened[s] - wallet >= ProcessCap)
    ~> (s \in capped \/ s \notin Live \/ opened[s] = Unknown \/ opened[s] - wallet < ProcessCap)

-----------------------------------------------------------------------------
(* What the repository says of the cap and the code does not do.            *)

(* "The watch polls the wallet while a show is live and latches the show    *)
(* when the bound crosses the cap" (routes.ts, lines 1124 to 1130): the cap *)
(* that the seller saved.                                                   *)
SavedCapIsEnforced == \A s \in Shows : seen[s] >= SavedCap => s \in capped
=============================================================================
