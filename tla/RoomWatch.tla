------------------------------- MODULE RoomWatch -------------------------------
(***************************************************************************)
(* One watched room on a surface that is read off its page                 *)
(* (surfaces/scrapeWatcher.ts): a poll reads what is on the screen, hands  *)
(* over what it has not seen, and a watchdog tells a quiet room from a     *)
(* dead feed.                                                              *)
(*                                                                         *)
(* Messages are numbered in the order they are said, and the page shows    *)
(* the last Window of them that its feed has delivered.  Time is counted   *)
(* in polls.                                                               *)
(***************************************************************************)
EXTENDS Integers, Sequences, FiniteSets, SequencesExt

CONSTANTS
  MaxMessages,     \* bound: messages said
  MaxFaults,       \* bound: times the feed or the page dies, or a wall goes up
  Window,          \* messages on the screen
  SeenCap, SeenKeep,  \* `seen` is cut to SeenKeep when it has grown past SeenCap
  MaxReloads,
  CommentSilence, ActivityWindow, EndSilence

(* What is kept of `seen` is at least what a screen shows: 2000 keys, of at *)
(* most 5000, where a page holds a few hundred messages.                    *)
WatchAssumption ==
  /\ MaxMessages \in Nat /\ MaxFaults \in Nat /\ MaxReloads \in Nat /\ EndSilence \in Nat
  /\ Window \in Nat \ {0} /\ SeenKeep \in Nat /\ SeenCap \in Nat
  /\ Window <= SeenKeep /\ SeenKeep <= SeenCap

VARIABLES
  room,   \* what was said, what the page shows, and how the page is
  faults, \* how many faults there were
  w,      \* the watcher
  given   \* message -> how often it was handed over as new

vars == <<room, faults, w, given>>

Numbers == 1..MaxMessages

screen == {m \in Numbers : m <= room.shown /\ m > room.shown - Window}

(* What a read of the page returns: behind a wall, nothing.                 *)
scrape == IF room.page = "wall" THEN {} ELSE screen

Init ==
  /\ room = [said |-> 0, shown |-> 0, feed |-> "on", page |-> "none"]
  /\ faults = 0
  /\ w = [pc |-> "off", stopped |-> FALSE, seen |-> <<>>, first |-> 0, reloads |-> 0,
          gaveUp |-> FALSE, ended |-> FALSE, blocked |-> FALSE, quiet |-> 0, idle |-> 0]
  /\ given = [m \in Numbers |-> 0]

------------------------------- (* the room *) ------------------------------
Say ==
  /\ room.said < MaxMessages
  /\ room' = [room EXCEPT !.said = @ + 1, !.shown = IF room.feed = "on" THEN room.said + 1 ELSE @]
  /\ UNCHANGED <<faults, w, given>>

(* The chat socket dies and the page stays up; the page or its browser dies;*)
(* a challenge or a sign-in stands in front of the room.                    *)
Fault ==
  /\ faults < MaxFaults /\ room.page = "open"
  /\ faults' = faults + 1
  /\ \/ room' = [room EXCEPT !.feed = "dead"]
     \/ room' = [room EXCEPT !.page = "dead"]
     \/ room' = [room EXCEPT !.page = "wall"]
  /\ UNCHANGED <<w, given>>

WallFalls ==
  /\ room.page = "wall" /\ room' = [room EXCEPT !.page = "open"]
  /\ UNCHANGED <<faults, w, given>>

------------------------------ (* the watcher *) ----------------------------
SeenSet == ToSet(w.seen)

(* The oldest keys go first: a Set remembers the order they were added in.  *)
Trim_oldest(s) == IF Len(s) > SeenCap THEN SubSeq(s, 1, SeenKeep) ELSE s  \* mutant: the newest go

Trim(s) == IF Len(s) > SeenCap THEN SubSeq(s, Len(s) - SeenKeep + 1, Len(s)) ELSE s

InOrder(S) == CHOOSE s \in [1..Cardinality(S) -> S] : \A i, j \in 1..Cardinality(S) : i < j => s[i] < s[j]

(* A page just opened or reloaded shows the room as it is by now; reloading *)
(* mends a feed, or does not, and does not get past a wall.                 *)
Fresh(feed) == [room EXCEPT !.feed = feed, !.shown = IF feed = "on" THEN room.said ELSE @,
                            !.page = IF @ = "wall" THEN @ ELSE "open"]

(* Everything that is read is history: marked seen, and not handed over.    *)
Absorbed == w.seen \o InOrder(scrape \ SeenSet)

Start ==
  /\ w.pc = "off" /\ ~w.stopped
  /\ w' = [w EXCEPT !.pc = "opening"]
  /\ UNCHANGED <<room, faults, given>>

Opened ==
  /\ w.pc = "opening"
  /\ room' = Fresh("on")
  /\ w' = [w EXCEPT !.pc = "first"]
  /\ UNCHANGED <<faults, given>>

(* tick: nothing more is scheduled once stopped. *)
Ticking(x) == [x EXCEPT !.pc = IF x.stopped THEN "off" ELSE "polling"]

(* The first read is the backlog.  Attached behind a wall it is empty, and  *)
(* what was said before is new when the wall falls.                         *)
Backlog ==
  /\ w.pc = "first" /\ room.page \in {"open", "wall"}
  /\ w' = Ticking([w EXCEPT !.seen = Absorbed, !.first = IF room.page = "wall" THEN 0 ELSE room.shown,
                            !.blocked = room.page = "wall"])
  /\ UNCHANGED <<room, faults, given>>

(* start throws - the browser does not open, or dies before it was read -   *)
(* and the watcher is dropped.                                              *)
AttachFails ==
  /\ w.pc = "opening" \/ (w.pc = "first" /\ room.page = "dead")
  /\ w' = [w EXCEPT !.pc = "off", !.stopped = TRUE]
  /\ UNCHANGED <<room, faults, given>>

Later(n) == IF n > EndSilence THEN n ELSE n + 1

(* The watchdog, on the clocks as the poll has left them: the room is over, *)
(* or a wall stands, or it is only quiet, or there are no reloads left (and *)
(* that is said, once), or the feed is dead and the page is reloaded.       *)
Watchdog_mute(x) ==  \* mutant: out of reloads, and nobody is told
  IF ~x.ended /\ x.quiet > EndSilence /\ x.idle > EndSilence THEN Ticking([x EXCEPT !.ended = TRUE])
  ELSE IF x.blocked \/ x.quiet < CommentSilence \/ x.idle > ActivityWindow \/ x.reloads >= MaxReloads
    THEN Ticking(x)
  ELSE [x EXCEPT !.pc = "reloading", !.reloads = @ + 1]

Watchdog(x) ==
  IF ~x.ended /\ x.quiet > EndSilence /\ x.idle > EndSilence THEN Ticking([x EXCEPT !.ended = TRUE])
  ELSE IF x.blocked \/ x.quiet < CommentSilence \/ x.idle > ActivityWindow THEN Ticking(x)
  ELSE IF x.reloads >= MaxReloads THEN Ticking([x EXCEPT !.gaveUp = TRUE])
  ELSE [x EXCEPT !.pc = "reloading", !.reloads = @ + 1]

(* One read of the page: every message that was not seen is handed over and *)
(* marked; then the viewers and the lot have moved, or not.                 *)
Poll == \E moved \in BOOLEAN :
  /\ w.pc = "polling" /\ ~w.stopped /\ room.page \in {"open", "wall"}
  /\ LET fresh == scrape \ SeenSet
     IN  /\ given' = [m \in Numbers |-> IF m \in fresh THEN given[m] + 1 ELSE given[m]]
         /\ w' = Watchdog([w EXCEPT !.seen = Trim(@ \o InOrder(fresh)),
                                    !.blocked = room.page = "wall",
                                    !.quiet = IF fresh # {} THEN 0 ELSE Later(@),
                                    !.idle = IF moved THEN 0 ELSE Later(@)])
  /\ UNCHANGED <<room, faults>>

(* The read throws: a page that is dead, or was not opened again, is closed *)
(* and opened again.                                                        *)
PollThrows ==
  /\ w.pc = "polling" /\ ~w.stopped /\ room.page \in {"dead", "none"}
  /\ w' = [w EXCEPT !.pc = "recovering"]
  /\ room' = [room EXCEPT !.page = "none"]
  /\ UNCHANGED <<faults, given>>

(* The page is back, healed or not; what it shows is absorbed in the next   *)
(* step, or the read fails.                                                 *)
Reloads == \E feed \in {room.feed, "on"} :
  /\ \/ w.pc = "reloading" /\ room.page \in {"open", "wall"}
     \/ w.pc = "recovering" /\ room.page = "none"
  /\ room' = Fresh(feed)
  /\ w' = [w EXCEPT !.pc = "absorbing"]
  /\ UNCHANGED <<faults, given>>

Absorb ==
  /\ w.pc = "absorbing" /\ room.page \in {"open", "wall"}
  /\ w' = Ticking([w EXCEPT !.seen = Absorbed, !.quiet = 0])
  /\ UNCHANGED <<room, faults, given>>

(* A reload or the read after it fails, or the browser does not come back:  *)
(* the next poll goes on.                                                   *)
GoesWrong ==
  /\ \/ w.pc \in {"reloading", "absorbing"} /\ room.page = "dead" /\ UNCHANGED faults
     \/ w.pc = "recovering" /\ faults < MaxFaults /\ faults' = faults + 1
  /\ w' = Ticking(w)
  /\ UNCHANGED <<room, given>>

Stop ==
  /\ w.pc # "off" /\ ~w.stopped
  /\ w' = [w EXCEPT !.stopped = TRUE, !.pc = IF @ = "polling" THEN "off" ELSE @]
  /\ room' = [room EXCEPT !.page = IF @ = "none" THEN @ ELSE "dead"]
  /\ UNCHANGED <<faults, given>>

-----------------------------------------------------------------------------
Step == Opened \/ Backlog \/ AttachFails \/ Poll \/ PollThrows \/ Reloads \/ Absorb \/ GoesWrong

Next == Say \/ Fault \/ WallFalls \/ Start \/ Step \/ Stop

Spec == Init /\ [][Next]_vars

(* A timer that was set fires, and a page answers or times out.             *)
Fairness == WF_vars(Step)

-----------------------------------------------------------------------------
TypeOK ==
  /\ room.said \in 0..MaxMessages /\ room.shown \in 0..room.said
  /\ room.feed \in {"on", "dead"} /\ room.page \in {"none", "open", "wall", "dead"}
  /\ faults \in 0..MaxFaults /\ Len(w.seen) <= SeenCap + Window
  /\ w.pc \in {"off", "opening", "first", "polling", "reloading", "recovering", "absorbing"}
  /\ w.reloads \in 0..MaxReloads /\ given \in [Numbers -> 0..2]

(* No message is put through the reply pipeline twice, and none that was    *)
(* said before the backlog was read: across polls, reloads, browsers that   *)
(* died, and the trimming of what was seen.  Behind a wall no backlog is    *)
(* read, and the promise is only the first one.                             *)
HandedOverOnce == \A m \in Numbers : given[m] <= (IF m <= w.first THEN 0 ELSE 1)

(* A room whose feed has died is not left mute without a word: the feed     *)
(* comes back, or the watcher says that it gave up, or that the room ended, *)
(* or a wall is reported, or somebody stops it.                             *)
MuteRoomIsNoticed ==
  (w.pc = "polling" /\ room.feed = "dead") ~>
    (room.feed = "on" \/ w.gaveUp \/ w.ended \/ w.blocked \/ w.stopped)
=============================================================================
