---------------------------- MODULE TwitchActions ----------------------------
(***************************************************************************)
(* Actions on a Twitch channel (surfaces/twitch/actions.ts over api.ts)    *)
(* under the protocol of ActionExecutor.  Nothing written has a version:   *)
(* what is reserved is only that the channel is live, or that no poll      *)
(* runs.  A poll and a reply can be withdrawn, by an id the process keeps  *)
(* in memory; a clip cannot.  Calls fail, answers get lost, AutoMod holds  *)
(* a reply, the host runs polls, and the process restarts.                 *)
(*                                                                         *)
(* One channel; an action is approved, or undone, by one request at a      *)
(* time.  Parameters are well-formed; markers, announcements and shoutouts *)
(* are as clips, but that the last two need no live stream.                *)
(***************************************************************************)
EXTENDS Integers, FiniteSets

CONSTANTS
  Actions,
  Kind,          \* action -> run_poll, post_reply or create_clip
  MaxApprovals,  \* bound: approvals
  MaxFaults,     \* bound: calls, answers and transactions lost; restarts
  MaxHost        \* bound: steps of the host

VARIABLES
  act,      \* action -> its status, and how far its request is
  applied,  \* TwitchActions.applied: action -> the effect it can withdraw, 0 if none
  ledger,   \* action_commits
  tries,    \* action -> effects so far: the ids Twitch gives
  shown,    \* what viewers can see of ours: <<action, id>>
  poll,     \* the poll that is ACTIVE
  live,     \* the channel is
  lost,     \* history: effects of which the process knows no more
  undone,   \* history: actions whose effect an undo withdrew
  told,     \* history: effects the operator was told to look after
  spent     \* of the bounds

(* The bound on approvals is a number. *)
ChannelAssumption == MaxApprovals \in Nat

vars == <<act, applied, ledger, tries, shown, poll, live, lost, undone, told, spent>>

None == <<>>
Host == <<"host">>

Init ==
  /\ act = [a \in Actions |-> [status |-> "proposed", pc |-> "idle"]]
  /\ applied = [a \in Actions |-> 0] /\ ledger = {}
  /\ tries = [a \in Actions |-> 0] /\ shown = {} /\ poll = None /\ live = TRUE
  /\ lost = {} /\ undone = {} /\ told = {}
  /\ spent = [approvals |-> 0, faults |-> 0, host |-> 0]

At(a, pc) == act[a].pc = pc
Goto(a, pc) == act' = [act EXCEPT ![a].pc = pc]
Now(a, status) == act' = [act EXCEPT ![a] = [status |-> status, pc |-> "idle"]]
Fault == spent.faults < MaxFaults /\ spent' = [spent EXCEPT !.faults = @ + 1]
Needs(a) == Kind[a] = "create_clip" => live

------------------------------- (* a commit *) ------------------------------
(* What failed may be approved again, and so may what a restart left        *)
(* committing.  What is on the ledger is committed.                         *)
Approve(a) ==
  /\ At(a, "idle") /\ act[a].status # "committed" /\ spent.approvals < MaxApprovals
  /\ IF a \in ledger THEN Now(a, "committed") ELSE act' = [act EXCEPT ![a] = [status |-> "committing", pc |-> "reserve"]]
  /\ spent' = [spent EXCEPT !.approvals = @ + 1]
  /\ UNCHANGED <<applied, ledger, tries, shown, poll, live, lost, undone, told>>

Reserve(a) ==
  /\ At(a, "reserve")
  /\ IF Needs(a) /\ (Kind[a] = "run_poll" => poll = None) THEN Goto(a, "apply") ELSE Now(a, "failed")
  /\ UNCHANGED <<applied, ledger, tries, shown, poll, live, lost, undone, told, spent>>

(* Twitch refuses: the stream went off, another poll was started; or the    *)
(* call never arrives.                                                      *)
Refused(a) ==
  /\ At(a, "apply") /\ Now(a, "failed")
  /\ \/ spent' = spent /\ ~(Needs(a) /\ (Kind[a] = "run_poll" => poll = None))
     \/ Fault
  /\ UNCHANGED <<applied, ledger, tries, shown, poll, live, lost, undone, told>>

Held_unread(a) ==  \* mutant: the answer is not asked whether it was sent
  /\ At(a, "apply") /\ Kind[a] = "post_reply"
  /\ Goto(a, "record")
  /\ UNCHANGED <<applied, ledger, tries, shown, poll, live, lost, undone, told, spent>>

(* A 200 that reached nobody: AutoMod held it. *)
Held(a) ==
  /\ At(a, "apply") /\ Kind[a] = "post_reply"
  /\ Now(a, "failed")
  /\ UNCHANGED <<applied, ledger, tries, shown, poll, live, lost, undone, told, spent>>

(* It happens; and its id is kept, if the answer arrives. *)
Apply(a) == LET id == tries[a] + 1 IN
  /\ At(a, "apply") /\ Needs(a) /\ (Kind[a] = "run_poll" => poll = None)
  /\ tries' = [tries EXCEPT ![a] = id] /\ shown' = shown \cup {<<a, id>>}
  /\ poll' = IF Kind[a] = "run_poll" THEN <<a, id>> ELSE poll
  /\ \/ Goto(a, "record") /\ applied' = [applied EXCEPT ![a] = id] /\ UNCHANGED <<lost, spent>>
     \/ Fault /\ Now(a, "failed") /\ lost' = lost \cup {<<a, id>>} /\ UNCHANGED applied
  /\ UNCHANGED <<ledger, live, undone, told>>

Record(a) ==
  /\ At(a, "record")
  /\ \/ Now(a, "committed") /\ ledger' = ledger \cup {a} /\ spent' = spent
     \/ Fault /\ Goto(a, "compensate") /\ ledger' = ledger
  /\ UNCHANGED <<applied, tries, shown, poll, live, lost, undone, told>>

-------------------------- (* compensate, and the undo *) -------------------
Withdraw_ends(a) ==  \* mutant: the poll is terminated, its result stays
  /\ shown' = IF Kind[a] = "run_poll" THEN shown ELSE shown \ {<<a, applied[a]>>}
  /\ poll' = IF poll = <<a, applied[a]>> THEN None ELSE poll

(* A poll is archived, a message deleted. *)
Withdraw(a) ==
  /\ shown' = shown \ {<<a, applied[a]>>}
  /\ poll' = IF poll = <<a, applied[a]>> THEN None ELSE poll

Withdrawable(a) == applied[a] # 0 /\ Kind[a] # "create_clip"
Ours(a) == {e \in shown : e[1] = a}

Compensate(a) ==
  /\ At(a, "compensate") /\ Now(a, "failed")
  /\ \/ Withdrawable(a) /\ Withdraw(a) /\ UNCHANGED <<told, spent>>
     \/ /\ IF Withdrawable(a) THEN Fault ELSE spent' = spent
        /\ told' = told \cup Ours(a) /\ UNCHANGED <<shown, poll>>
  /\ UNCHANGED <<applied, ledger, tries, live, lost, undone>>

Rollback(a) ==
  /\ At(a, "idle") /\ act[a].status = "committed" /\ Goto(a, "undo")
  /\ UNCHANGED <<applied, ledger, tries, shown, poll, live, lost, undone, told, spent>>

(* Without the id, or of a clip, it is refused; the action then reads       *)
(* failed, and stays on the ledger.                                         *)
Undo(a) ==
  /\ At(a, "undo")
  /\ \/ Withdrawable(a) /\ Withdraw(a) /\ Goto(a, "undone") /\ undone' = undone \cup {a} /\ UNCHANGED <<told, spent>>
     \/ /\ IF Withdrawable(a) THEN Fault ELSE spent' = spent
        /\ Now(a, "failed") /\ told' = told \cup Ours(a) /\ UNCHANGED <<shown, poll, undone>>
  /\ UNCHANGED <<applied, ledger, tries, live, lost>>

(* If this fails the action still reads committed. *)
Undone(a) ==
  /\ At(a, "undone")
  /\ \/ Now(a, "rolled_back") /\ spent' = spent
     \/ Fault /\ Now(a, "committed")
  /\ UNCHANGED <<applied, ledger, tries, shown, poll, live, lost, undone, told>>

---------------------------- (* the environment *) --------------------------
HostActs ==
  /\ spent.host < MaxHost /\ spent' = [spent EXCEPT !.host = @ + 1]
  /\ \/ poll = None /\ poll' = Host /\ live' = live
     \/ poll # None /\ poll' = None /\ live' = live
     \/ live' = ~live /\ poll' = poll
  /\ UNCHANGED <<act, applied, ledger, tries, shown, lost, undone, told>>

(* Requests under way are gone, and every id. *)
Restart ==
  /\ Fault
  /\ act' = [a \in Actions |-> [act[a] EXCEPT !.pc = "idle"]]
  /\ applied' = [a \in Actions |-> 0]
  /\ lost' = lost \cup UNION {{<<a, applied[a]>>} : a \in {b \in Actions : act[b].pc \in {"record", "compensate"}}}
  /\ UNCHANGED <<ledger, tries, shown, poll, live, undone, told>>

-----------------------------------------------------------------------------
Next ==
  \/ \E a \in Actions :
       \/ Approve(a) \/ Reserve(a) \/ Refused(a) \/ Held(a) \/ Apply(a) \/ Record(a)
       \/ Compensate(a) \/ Rollback(a) \/ Undo(a) \/ Undone(a)
  \/ HostActs \/ Restart

Spec == Init /\ [][Next]_vars

-----------------------------------------------------------------------------
TypeOK ==
  /\ \A a \in Actions :
       /\ act[a].status \in {"proposed", "committing", "committed", "failed", "rolled_back"}
       /\ act[a].pc \in {"idle", "reserve", "apply", "record", "compensate", "undo", "undone"}
       /\ applied[a] \in 0..tries[a] /\ tries[a] \in 0..MaxApprovals
  /\ ledger \subseteq Actions /\ poll \in {None, Host} \cup shown /\ live \in BOOLEAN

(* What reads committed happened, where viewers see it, unless an undo      *)
(* withdrew it: a reply AutoMod held, a poll Twitch refused or a write that *)
(* was compensated never reads so.                                          *)
CommittedIsSeen == \A a \in Actions :
  act[a].status = "committed" /\ a \notin undone => Ours(a) # {}

(* What was rolled back is off the screen, all but what an approval before  *)
(* had left there: unknown to us, or told to the operator.                  *)
UndoneIsGone == \A a \in Actions :
  act[a].status = "rolled_back" => Ours(a) \subseteq lost \cup told

(* Nothing of ours is seen that nobody answers for: it is being recorded,   *)
(* on the ledger, the operator was told of it, or its answer was lost.      *)
EffectsAreAccounted == \A e \in shown : LET a == e[1] IN
  \/ act[a].pc \in {"record", "compensate"} /\ applied[a] = e[2]
  \/ a \in ledger
  \/ e \in told \cup lost
=============================================================================
