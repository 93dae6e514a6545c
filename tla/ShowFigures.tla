---------------------------- MODULE ShowFigures ----------------------------
(***************************************************************************)
(* What a show is said to have achieved: its report (buildReport and       *)
(* prdMetrics), the figures of a seller over all of their shows            *)
(* (analyticsOverview), and whether they have earned the next rung of      *)
(* autonomy (promotionReadiness).                                          *)
(*                                                                         *)
(* A report is built from the rows of a show by one statement after        *)
(* another, while drafts are sent, dismissed and undone, and the writes of *)
(* the drafts land in any order.  A report of a show that is over can be   *)
(* built again at any time.  Rates are kept to three decimals: here they   *)
(* are whole numbers per mille, and a rate without a denominator is Null.  *)
(***************************************************************************)
EXTENDS Integers, FiniteSets, SequencesExt

CONSTANTS
  Shows, Sellers,
  Owner,        \* show -> its seller, or "nobody"
  Proposals,
  Of,           \* proposal -> its show
  Earlier,      \* proposals of shows that are over -> their rows
  Required,     \* rung -> the finished shows its criteria need
  Recent,       \* promotionReadiness reads so many reports
  EnoughAsked,  \* questions a show must ask for the first rung
  EditBar, BlockBar, RollbackBar,   \* per mille
  MaxEvents,    \* bound: what happens to drafts and actions
  MaxBuilds,    \* bound: reports built
  MaxFaults     \* bound: builds that throw

Rows == [status : {"none", "pending", "auto_sent", "blocked", "sent", "dismissed"},
         verdict : {"none", "answer", "abstain", "block"}, edited : BOOLEAN, decided : BOOLEAN]

(* A draft is of a show, and some are left by shows that are over.          *)
FiguresAssumption ==
  /\ IsFiniteSet(Proposals) /\ Of \in [Proposals -> Shows] /\ "none" \notin Shows
  /\ DOMAIN Earlier \subseteq Proposals /\ \A p \in DOMAIN Earlier : Earlier[p] \in Rows

VARIABLES
  ended,     \* shows whose status is 'ended'
  asked,     \* chat_messages: show -> questions admitted
  mem,       \* proposal -> as its runtime holds it
  flight,    \* writes of proposals that have not landed
  row,       \* reply_proposals
  acts,      \* actions: show -> how many read committed, and rolled_back
  build,     \* the report being built
  reports,   \* show_reports
  newest,    \* the shows with a report, by generated_at, newest first
  events, builds, faults

vars == <<ended, asked, mem, flight, row, acts, build, reports, newest, events, builds, faults>>
room == <<ended, asked, mem, flight, row, acts, events>>

Null == -1
Absent == [status |-> "none", verdict |-> "none", edited |-> FALSE, decided |-> FALSE]
NoReport == [asked |-> Null]

(* A report: what was asked, the drafts (engagement and outcome), the       *)
(* actions, and the PRD block, with the rate it makes of them.              *)
NoDrafts == [sent |-> 0, answered |-> 0, blocked |-> 0, answeredRate |-> Null]
NoPrd == [sent |-> 0, edited |-> 0, editRate |-> Null, blockRate |-> Null]
NoActions == [committed |-> 0, rolledBack |-> 0]
Blank == [asked |-> 0, drafts |-> NoDrafts, actions |-> NoActions, prd |-> NoPrd, prdRate |-> Null, quiet |-> TRUE]

Idle == [pc |-> "idle", show |-> "none", part |-> Blank]

(* round3 of a quotient, and null when there is nothing to divide by. *)
Rate(a, b) == IF b = 0 THEN Null ELSE (2000 * a + b) \div (2 * b)
Distance(a, b) == IF a > b THEN a - b ELSE b - a

(* What the statements of a report count. *)
Count(s, Is(_)) == Cardinality({p \in Proposals : Of[p] = s /\ Is(row[p])})
IsSent(r) == r.status \in {"sent", "auto_sent"}
IsAnswered(r) == r.verdict = "answer"
IsBlocked(r) == r.verdict = "block"
IsEdited(r) == IsSent(r) /\ r.edited

Engagement(s, questions) ==
  LET sent == Count(s, IsSent) IN
  [sent |-> sent, answered |-> Count(s, IsAnswered), blocked |-> Count(s, IsBlocked),
   answeredRate |-> Rate(sent, questions)]

(* prdMetrics reads the proposals and the questions for itself.             *)
Prd_drafts(s) ==  \* mutant: of what could be answered, not of what was sent
  [sent |-> Count(s, IsAnswered), edited |-> Count(s, IsEdited),
   editRate |-> Rate(Count(s, IsEdited), Count(s, IsSent)),
   blockRate |-> Rate(Count(s, IsBlocked), Count(s, IsBlocked) + Count(s, IsAnswered))]

Prd(s) ==
  [sent |-> Count(s, IsSent), edited |-> Count(s, IsEdited),
   editRate |-> Rate(Count(s, IsEdited), Count(s, IsSent)),
   blockRate |-> Rate(Count(s, IsBlocked), Count(s, IsBlocked) + Count(s, IsAnswered))]

(* Some shows are over, and have the report of what they left.              *)
Past == {Of[p] : p \in DOMAIN Earlier}

Init ==
  /\ ended = Past
  /\ row = [p \in Proposals |-> IF p \in DOMAIN Earlier THEN Earlier[p] ELSE Absent]
  /\ mem = row /\ flight = {}
  /\ asked = [s \in Shows |-> Cardinality({p \in DOMAIN Earlier : Of[p] = s})]
  /\ acts = [s \in Shows |-> NoActions]
  /\ build = Idle
  /\ reports = [s \in Shows |-> IF s \notin Past THEN NoReport ELSE
       [asked |-> asked[s], drafts |-> Engagement(s, asked[s]), actions |-> NoActions,
        prd |-> Prd(s), prdRate |-> Rate(Prd(s).sent, asked[s]), quiet |-> TRUE]]
  /\ newest = SetToSeq(Past)
  /\ events = 0 /\ builds = 0 /\ faults = 0

--------------------------- (* what happens in a show *) ---------------------------
Event == events < MaxEvents /\ events' = events + 1

(* A build that reads this show is not undisturbed any more. *)
Disturb(s) == build' = IF build.show = s THEN [build EXCEPT !.part.quiet = FALSE] ELSE build

(* recordProposal: the write is sent off and not waited for. *)
Record(p, now) ==
  /\ mem' = [mem EXCEPT ![p] = now]
  /\ flight' = flight \cup {[of |-> p, as |-> now]}

Draft(p) == \E settled \in {<<"pending", "answer">>, <<"auto_sent", "answer">>,
                            <<"pending", "abstain">>, <<"blocked", "block">>} :
  /\ Event /\ Of[p] \notin ended /\ mem[p] = Absent
  /\ Record(p, [Absent EXCEPT !.status = settled[1], !.verdict = settled[2]])
  /\ asked' = [asked EXCEPT ![Of[p]] = @ + 1] /\ Disturb(Of[p])
  /\ UNCHANGED <<ended, row, acts, reports, newest, builds, faults>>

(* The operator sends it, as it is or edited, or dismisses it. *)
Decide(p, status, edited) ==
  /\ Event /\ Of[p] \notin ended /\ mem[p].status = "pending"
  /\ status = "sent" => mem[p].verdict = "answer"
  /\ Record(p, [mem[p] EXCEPT !.status = status, !.edited = edited, !.decided = TRUE])
  /\ UNCHANGED <<ended, asked, row, acts, build, reports, newest, builds, faults>>

(* The upsert of recordProposal: the decision is stamped once, and an edit  *)
(* stays an edit.                                                           *)
Lands_over(w) ==  \* mutant: the row is what was written last
  /\ row' = [row EXCEPT ![w.of] = w.as]
  /\ flight' = flight \ {w} /\ Disturb(Of[w.of])
  /\ UNCHANGED <<ended, asked, mem, acts, reports, newest, events, builds, faults>>

Lands(w) ==
  /\ row' = [row EXCEPT ![w.of] =
       [w.as EXCEPT !.edited = @ \/ row[w.of].edited, !.decided = @ \/ row[w.of].decided]]
  /\ flight' = flight \ {w} /\ Disturb(Of[w.of])
  /\ UNCHANGED <<ended, asked, mem, acts, reports, newest, events, builds, faults>>

(* A stored draft is marked sent after its show. *)
MarkStored(p) ==
  /\ Event /\ Of[p] \in ended /\ row[p].status = "pending"
  /\ row' = [row EXCEPT ![p].status = "sent", ![p].decided = TRUE] /\ Disturb(Of[p])
  /\ UNCHANGED <<ended, asked, mem, flight, acts, reports, newest, builds, faults>>

(* Actions are committed, and rolled back: each counts as what it reads now.*)
Act(s) ==
  /\ Event /\ s \notin ended
  /\ \/ acts' = [acts EXCEPT ![s].committed = @ + 1]
     \/ /\ acts[s].committed > 0
        /\ acts' = [acts EXCEPT ![s].committed = @ - 1, ![s].rolledBack = @ + 1]
  /\ Disturb(s)
  /\ UNCHANGED <<ended, asked, mem, flight, row, reports, newest, builds, faults>>

------------------------------- (* the report *) ----------------------------
Begin(s) ==
  /\ build.pc = "idle" /\ builds < MaxBuilds /\ builds' = builds + 1
  /\ build' = [Idle EXCEPT !.pc = "chat", !.show = s]
  /\ UNCHANGED <<room, reports, newest, faults>>

(* finishSession waits for the writes its runtime has in flight. *)
Finish(s) == s \notin ended /\ (\A w \in flight : Of[w.of] # s) /\ Begin(s)

(* The report is asked for again: a runtime of its own, with no writes. *)
Regenerate(s) == s \in ended /\ Begin(s)

Reading(pc) == build.pc = pc /\ UNCHANGED <<room, reports, newest, builds, faults>>

ReadChat ==
  /\ Reading("chat")
  /\ build' = [build EXCEPT !.pc = "proposals", !.part.asked = asked[build.show]]
ReadProposals ==
  /\ Reading("proposals")
  /\ build' = [build EXCEPT !.pc = "actions", !.part.drafts = Engagement(build.show, build.part.asked)]
ReadActions ==
  /\ Reading("actions")
  /\ build' = [build EXCEPT !.pc = "prd", !.part.actions = acts[build.show]]
PrdProposals ==
  /\ Reading("prd")
  /\ build' = [build EXCEPT !.pc = "questions", !.part.prd = Prd(build.show)]
PrdAsked ==
  /\ Reading("questions")
  /\ build' = [build EXCEPT !.pc = "store", !.part.prdRate = Rate(build.part.prd.sent, asked[build.show])]

(* The report replaces the one there was, and is the newest of all; then    *)
(* the show ends, whether there is one or not.                              *)
Store ==
  /\ build.pc = "store"
  /\ reports' = [reports EXCEPT ![build.show] = build.part]
  /\ newest' = <<build.show>> \o SelectSeq(newest, LAMBDA s : s # build.show)
  /\ build' = [build EXCEPT !.pc = "ending"]
  /\ UNCHANGED <<room, builds, faults>>

Throws ==
  /\ build.pc \notin {"idle", "ending"} /\ faults < MaxFaults /\ faults' = faults + 1
  /\ build' = [build EXCEPT !.pc = "ending"]
  /\ UNCHANGED <<room, reports, newest, builds>>

End ==
  /\ build.pc = "ending" /\ build' = Idle /\ ended' = ended \cup {build.show}
  /\ UNCHANGED <<asked, mem, flight, row, acts, reports, newest, events, builds, faults>>

Next ==
  \/ \E p \in Proposals :
       \/ Draft(p) \/ MarkStored(p) \/ Decide(p, "dismissed", FALSE)
       \/ \E edited \in BOOLEAN : Decide(p, "sent", edited)
  \/ \E w \in flight : Lands(w)
  \/ \E s \in Shows : Act(s) \/ Finish(s) \/ Regenerate(s)
  \/ ReadChat \/ ReadProposals \/ ReadActions \/ PrdProposals \/ PrdAsked
  \/ Store \/ Throws \/ End

Spec == Init /\ [][Next]_vars

---------------------- (* the figures over all shows *) ---------------------
(* The shows an overview is over: of the seller who asks, or of the box.    *)
Mine_unowned(who) ==  \* mutant: a show of nobody is everybody's
  {s \in ended : reports[s] # NoReport /\ (who = "box" \/ Owner[s] \in {who, "nobody"})}

Mine(who) == {s \in ended : reports[s] # NoReport /\ (who = "box" \/ Owner[s] = who)}

Over(S, Figure(_)) == MapThenSumSet(LAMBDA s : Figure(reports[s]), S)
TheSent(r) == r.drafts.sent
TheAsked(r) == r.asked
TheAnswered(r) == r.drafts.answered
TheBlocked(r) == r.drafts.blocked

Headline_answered(who) ==  \* mutant: what could be answered, not what was sent
  [sent |-> Over(Mine(who), TheSent),
   answeredRate |-> Rate(Over(Mine(who), TheAnswered), Over(Mine(who), TheAsked)),
   blockRate |-> Rate(Over(Mine(who), TheBlocked), Over(Mine(who), TheBlocked) + Over(Mine(who), TheAnswered))]

Headline(who) ==
  [sent |-> Over(Mine(who), TheSent),
   answeredRate |-> Rate(Over(Mine(who), TheSent), Over(Mine(who), TheAsked)),
   blockRate |-> Rate(Over(Mine(who), TheBlocked), Over(Mine(who), TheBlocked) + Over(Mine(who), TheAnswered))]

--------------------------- (* the next rung *) -----------------------------
Least(a, b) == IF a < b THEN a ELSE b

(* The reports read, newest first, and of these the ones a criterion takes. *)
Read5(who) ==
  LET mine == SelectSeq(newest, LAMBDA s : Owner[s] = who)
  IN SubSeq(mine, 1, Least(Recent, Len(mine)))

Taken(who, rung) ==
  LET read == Read5(who)
  IN {read[i] : i \in 1 .. Least(Required[rung], Len(read))}

Enough(who, rung) == Len(Read5(who)) >= Required[rung]

(* Pooled: a show weighs as much as it sent. *)
EditRate_mean(S) ==  \* mutant: every show weighs the same
  Rate(Over(S, LAMBDA r : IF r.prd.editRate = Null THEN 0 ELSE r.prd.editRate), 1000 * Cardinality(S))

EditRate(S) ==
  Rate(Over(S, LAMBDA r : (IF r.prd.editRate = Null THEN 0 ELSE r.prd.editRate) * r.drafts.sent), 1000 * Over(S, TheSent))

BlockedRate(S) == Rate(Over(S, TheBlocked), Over(S, TheAnswered) + Over(S, TheBlocked))
RollbackRate(S) == Rate(Over(S, LAMBDA r : r.actions.rolledBack), Over(S, LAMBDA r : r.actions.committed))

Met_zero(who, rung) ==  \* mutant: no denominator is a rate of nothing
  LET S == Taken(who, rung) IN
  /\ Enough(who, rung)
  /\ CASE rung = "L1" -> Over(S, TheAsked) >= EnoughAsked
       [] rung = "L2" -> EditRate(S) < EditBar
       [] rung = "L3" -> BlockedRate(S) < BlockBar
       [] rung = "L4" -> RollbackRate(S) < RollbackBar

(* The audit chains, which L3 also asks for, are left out: see AuditChain. *)
Met(who, rung) ==
  LET S == Taken(who, rung) IN
  /\ Enough(who, rung)
  /\ CASE rung = "L1" -> Over(S, TheAsked) >= EnoughAsked
       [] rung = "L2" -> EditRate(S) # Null /\ EditRate(S) < EditBar
       [] rung = "L3" -> BlockedRate(S) # Null /\ BlockedRate(S) < BlockBar
       [] rung = "L4" -> RollbackRate(S) # Null /\ RollbackRate(S) < RollbackBar

-----------------------------------------------------------------------------
TypeOK ==
  /\ ended \subseteq Shows
  /\ mem \in [Proposals -> Rows] /\ row \in [Proposals -> Rows]
  /\ \A w \in flight : w.of \in Proposals
  /\ build.pc \in {"idle", "chat", "proposals", "actions", "prd", "questions", "store", "ending"}
  /\ {newest[i] : i \in DOMAIN newest} = {s \in Shows : reports[s] # NoReport}
  /\ Cardinality({newest[i] : i \in DOMAIN newest}) = Len(newest)

(* A figure has one value: the answered and the block rate of a report that *)
(* nothing disturbed are the same in its figures and in its PRD block, which*)
(* reads the rows again (prdMetrics.ts: "they cannot disagree").            *)
QuietReportAgrees == \A s \in Shows :
  LET r == reports[s] IN
  r # NoReport /\ r.quiet =>
    /\ r.prdRate = r.drafts.answeredRate
    /\ r.prd.blockRate = Rate(r.drafts.blocked, r.drafts.answered + r.drafts.blocked)

(* The headline over one show is the row of that show (shows/metrics.ts).   *)
HeadlineAgrees == \A who \in Sellers \cup {"box"} : \A s \in Mine(who) :
  Mine(who) = {s} => Headline(who).answeredRate = reports[s].drafts.answeredRate

(* What sellers are told they did adds up to no more than was done: no show *)
(* counts for two of them (analytics.ts, the ownership clause).             *)
NothingCountedTwice ==
  MapThenSumSet(LAMBDA who : Headline(who).sent, Sellers) <= Headline("box").sent

(* However the writes of a draft land, what was edited counts as edited and *)
(* what was decided as decided (sessionRecord.ts, the upsert).              *)
EditsStick == \A p \in Proposals :
  (\A w \in flight : w.of # p) => /\ mem[p].edited => row[p].edited
                                  /\ mem[p].decided => row[p].decided

(* Nobody has earned a rung on shows that showed nothing: there were enough *)
(* shows, of the seller's own, and something to measure in them             *)
(* (promotion.ts: "never `met`").                                           *)
EarnedOnEvidence == \A who \in Sellers : \A rung \in {"L1", "L2", "L3", "L4"} :
  Met(who, rung) =>
    LET S == {s \in Shows : Owner[s] = who /\ reports[s] # NoReport} IN
    /\ Cardinality(S) >= Required[rung]
    /\ \E s \in S : CASE rung = "L1" -> reports[s].asked > 0
                      [] rung = "L2" -> reports[s].drafts.sent > 0
                      [] rung = "L3" -> reports[s].drafts.answered + reports[s].drafts.blocked > 0
                      [] rung = "L4" -> reports[s].actions.committed > 0

(* The edit rate that earns a rung is that of all the replies together, and *)
(* not the mean of the shows (promotion.ts: "Pooled, not averaged").        *)
RateIsPooled == \A who \in Sellers :
  LET S == Taken(who, "L2") IN
  (\A s \in S : reports[s].quiet) =>
    Distance(EditRate(S), Rate(Over(S, LAMBDA r : r.prd.edited), Over(S, TheSent))) <= 1
=============================================================================
