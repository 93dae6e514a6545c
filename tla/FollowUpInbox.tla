---------------------------- MODULE FollowUpInbox ----------------------------
(***************************************************************************)
(* The follow-ups of a session that ended (surfaces/dm/drafts.ts): built   *)
(* in pages while their rows are sent and dismissed, and again whenever    *)
(* somebody asks.                                                          *)
(*                                                                         *)
(* Buyers are numbered as selectFollowUps orders them.  A text is named    *)
(* after the build that drafted it.  Every build reads the same record.    *)
(***************************************************************************)
EXTENDS Integers

CONSTANTS
  Selected,     \* how many buyers the record selects
  MaxPerBuild, MaxAtSessionEnd,
  Builds,       \* the job at the session's end, and rebuilds
  MaxPresses    \* bound: presses on follow-ups

(* So many of everything.                                                   *)
InboxAssumption ==
  Selected \in Nat /\ MaxPerBuild \in Nat /\ MaxAtSessionEnd \in Nat /\ MaxPresses \in Nat

VARIABLES
  inbox,    \* buyer -> the row of the follow-up
  build,    \* build -> how far
  clock     \* presses so far: the time that is stamped

vars == <<inbox, build, clock>>

Buyers == 1..Selected
None == "none"
NoRow == [status |-> None, text |-> None, question |-> None, sentAt |-> 0]
Waiting == [pc |-> "idle", offset |-> 0, settled |-> {}, page |-> {}, busy |-> {}, dropped |-> {}]

Init ==
  /\ inbox = [x \in Buyers |-> NoRow]
  /\ build = [b \in Builds |-> Waiting]
  /\ clock = 0

---------------------------- (* building follow-ups *) ----------------------
PageFrom(offset) == {x \in Buyers : x > offset /\ x <= offset + MaxPerBuild}

NextPage_first(b) ==  \* mutant: every page is the first one
  /\ build[b].pc \in {"idle", "page"}
  /\ build' = [build EXCEPT ![b].pc = "drafting", ![b].page = PageFrom(0),
       ![b].settled = {x \in Buyers : inbox[x].status \in {"sent", "dismissed"}}]
  /\ UNCHANGED <<inbox, clock>>

(* Which buyers are settled is read once per page, and then drafting takes  *)
(* seconds.                                                                 *)
NextPage(b) ==
  /\ build[b].pc \in {"idle", "page"}
  /\ build' = [build EXCEPT ![b].pc = "drafting", ![b].page = PageFrom(build[b].offset),
       ![b].settled = {x \in Buyers : inbox[x].status \in {"sent", "dismissed"}}]
  /\ UNCHANGED <<inbox, clock>>

(* A worker takes the next buyer; one that is settled costs no draft.       *)
Take(b) == \E x \in build[b].page :
  /\ build[b].pc = "drafting" /\ \A y \in build[b].page : x <= y
  /\ build' = [build EXCEPT ![b].page = @ \ {x},
                            ![b].busy = IF x \in build[b].settled THEN @ ELSE @ \cup {x}]
  /\ UNCHANGED <<inbox, clock>>

(* The dry run throws, abstains, defers to the show or is blocked; or the   *)
(* write fails.  It is counted, and the others go on.                       *)
Drop(b) == \E x \in build[b].busy :
  /\ build' = [build EXCEPT ![b].busy = @ \ {x}, ![b].dropped = @ \cup {x}]
  /\ UNCHANGED <<inbox, clock>>

Saved_over(b, x) ==  \* mutant: the conflict clause asks nothing
  inbox' = [inbox EXCEPT ![x] = IF @ = NoRow THEN [NoRow EXCEPT !.status = "draft", !.text = b, !.question = b]
                                ELSE [@ EXCEPT !.text = b, !.question = b]]

(* One row per buyer; on conflict the question is replaced, and the text    *)
(* only while the row is a draft.                                           *)
Saved(b, x) ==
  inbox' = [inbox EXCEPT ![x] =
    IF @ = NoRow THEN [NoRow EXCEPT !.status = "draft", !.text = b, !.question = b]
    ELSE [@ EXCEPT !.question = b, !.text = IF inbox[x].status = "draft" THEN b ELSE inbox[x].text]]

Save(b) == \E x \in build[b].busy :
  /\ Saved(b, x)
  /\ build' = [build EXCEPT ![b].busy = @ \ {x}]
  /\ clock' = clock

(* The page is through: on to the next, unless this was the last, or the    *)
(* bound of one job.                                                        *)
PageEnds(b) ==
  /\ build[b].pc = "drafting" /\ build[b].page = {} /\ build[b].busy = {}
  /\ LET reached == build[b].offset + MaxPerBuild IN
     build' = [build EXCEPT ![b].offset = IF reached > Selected THEN Selected ELSE reached,
       ![b].pc = IF reached >= Selected \/ reached >= MaxAtSessionEnd THEN "done" ELSE "page"]
  /\ UNCHANGED <<inbox, clock>>

------------------------- (* presses on a follow-up *) ----------------------
MarkSent(x) ==
  /\ clock < MaxPresses /\ clock' = clock + 1
  /\ inbox[x].status \notin {None, "dismissed"}
  /\ inbox' = [inbox EXCEPT ![x].status = "sent", ![x].sentAt = IF @ = 0 THEN clock' ELSE @]
  /\ build' = build

(* Whatever it was: a follow-up that was sent can be dismissed, too. *)
Dismiss(x) ==
  /\ clock < MaxPresses /\ clock' = clock + 1
  /\ inbox[x].status # None
  /\ inbox' = [inbox EXCEPT ![x].status = "dismissed"]
  /\ build' = build

-----------------------------------------------------------------------------
Next ==
  \/ \E b \in Builds : NextPage(b) \/ Take(b) \/ Drop(b) \/ Save(b) \/ PageEnds(b)
  \/ \E x \in Buyers : MarkSent(x) \/ Dismiss(x)

Spec == Init /\ [][Next]_vars

-----------------------------------------------------------------------------
TypeOK ==
  /\ inbox \in [Buyers -> [status : {None, "draft", "sent", "dismissed"}, text : Builds \cup {None},
                           question : Builds \cup {None}, sentAt : 0..MaxPresses]]
  /\ \A b \in Builds : /\ build[b].pc \in {"idle", "page", "drafting", "done"}
                       /\ build[b].page \cup build[b].busy \cup build[b].dropped \subseteq Buyers
  /\ clock \in 0..MaxPresses

(* When a build is through, every buyer of its pages has a row in the inbox *)
(* or was dropped for a reason it counts: the fifty-first as well as the    *)
(* first (drafts.ts, `remaining`).                                          *)
EveryBuyerIsReached == \A b \in Builds : build[b].pc = "done" =>
  \A x \in 1..build[b].offset : inbox[x] # NoRow \/ x \in build[b].dropped

(* What the operator decided about a follow-up stands through builds that   *)
(* read the inbox before and save after it: the text that was sent or       *)
(* dismissed does not change under it, nor the moment it was sent, and what *)
(* was dismissed is not offered again.                                      *)
DecisionsStand == [][\A x \in Buyers :
  /\ inbox[x].status \in {"sent", "dismissed"} => inbox'[x].text = inbox[x].text
  /\ inbox[x].status = "dismissed" => inbox'[x].status = "dismissed"
  /\ inbox[x].sentAt # 0 => inbox'[x].sentAt = inbox[x].sentAt]_vars
=============================================================================
