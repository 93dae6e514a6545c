------------------------------ MODULE ListenBridge ------------------------------
(***************************************************************************)
(* The page that puts the host's voice into the copilot's context          *)
(* (api/audioBridge.ts): it shares a tab's audio with a room of the        *)
(* gateway, watches for a room that has gone deaf, and moves to another;   *)
(* and what it tells the server of that (POST /audio/event), from which    *)
(* the row of the show says when listening stopped, and why.               *)
(*                                                                         *)
(* Every await of the page is a step: its timers and buttons go on.  The   *)
(* host never stops talking, and Start is pressed once at a time.  An event*)
(* arrives when it is sent, and a reconnect that outlives its session      *)
(* keeps the stall watch of the next one waiting.                          *)
(***************************************************************************)
EXTENDS Integers, FiniteSets

CONSTANTS
  Rooms,         \* bound: rooms the gateway mints
  MaxReconnects, \* what the page allows itself
  MaxClicks      \* bound: times Start is pressed

VARIABLES
  page,   \* its start button, its `room`, its counters
  watch,  \* the stall timer, and how far a reconnect of it is
  rooms,  \* room -> how it is
  told,   \* the kinds of event the server has had of this listening
  row,    \* listen_ended_at, listen_stalls
  clicks

vars == <<page, watch, rooms, told, row, clicks>>

NoRoom == "none"
Live == {"hears", "deaf", "cut"}
Off == [pc |-> "off", to |-> NoRoom]

Init ==
  /\ page = [pc |-> "idle", to |-> NoRoom, room |-> NoRoom, reconnects |-> 0, gaveUp |-> FALSE]
  /\ watch = Off
  /\ rooms = [r \in Rooms |-> "unused"]
  /\ told = {} /\ row = [ended |-> TRUE, stalls |-> 0] /\ clicks = 0

Minted(r) == rooms[r] = "unused" /\ rooms' = [rooms EXCEPT ![r] = "empty"]

(* POST /audio/event: what is kept of an event is its trace, and the answer *)
(* to "when did listening stop" on the row of the show.                     *)
Event(kind) ==
  /\ told' = IF kind = "started" THEN {kind} ELSE told \cup {kind}
  /\ row' = CASE kind = "started" -> [ended |-> FALSE, stalls |-> 0]
              [] kind = "stalled" -> [row EXCEPT !.stalls = @ + 1]
              [] kind \in {"gave-up", "failed", "ended"} -> [row EXCEPT !.ended = TRUE]
              [] OTHER -> row

-------------------------------- (* starting *) -----------------------------
Start ==
  /\ page.pc = "idle" /\ clicks < MaxClicks
  /\ clicks' = clicks + 1
  /\ page' = [page EXCEPT !.pc = "minting"]
  /\ UNCHANGED <<watch, rooms, told, row>>

(* The picker is dismissed, or gives no audio; or the gateway refuses. *)
StartRefused ==
  /\ page.pc = "minting"
  /\ page' = [page EXCEPT !.pc = "idle"]
  /\ \/ Event("failed")
     \/ UNCHANGED <<told, row>>
  /\ UNCHANGED <<watch, rooms, clicks>>

StartMinted == \E r \in Rooms :
  /\ page.pc = "minting" /\ Minted(r)
  /\ page' = [page EXCEPT !.pc = "connecting", !.to = r]
  /\ UNCHANGED <<watch, told, row, clicks>>

StartConnected ==
  /\ page.pc = "connecting"
  /\ rooms' = [rooms EXCEPT ![page.to] = "hears"]
  /\ page' = [page EXCEPT !.pc = "capturing", !.room = page.to, !.to = NoRoom, !.gaveUp = FALSE]
  /\ watch' = IF watch.pc = "off" THEN [Off EXCEPT !.pc = "watching"] ELSE watch
  /\ Event("started")
  /\ UNCHANGED clicks

StartFails ==
  /\ page.pc = "connecting"
  /\ page' = [page EXCEPT !.pc = "idle", !.room = page.to, !.to = NoRoom]
  /\ Event("failed")
  /\ UNCHANGED <<watch, rooms, clicks>>

-------------------------------- (* the room *) -----------------------------
(* It stops transcribing, and says nothing about it. *)
GoesDeaf == \E r \in Rooms :
  /\ rooms[r] = "hears"
  /\ rooms' = [rooms EXCEPT ![r] = "deaf"]
  /\ UNCHANGED <<page, watch, told, row, clicks>>

(* The gateway ends it: `disconnected` is told, and nothing else is done.   *)
IsCut == \E r \in Rooms :
  /\ rooms[r] \in {"hears", "deaf"}
  /\ rooms' = [rooms EXCEPT ![r] = "cut"]
  /\ Event("disconnected")
  /\ UNCHANGED <<page, watch, clicks>>

----------------------------- (* the stall watch *) -------------------------
(* Speech, and no transcript, for too long.  A page that has no room at the *)
(* moment is not looked at.                                                 *)
Stalled == watch.pc = "watching" /\ page.pc = "capturing" /\ page.room # NoRoom
           /\ rooms[page.room] # "hears"

GiveUp_quietly ==  \* mutant: the limit is shown on the page and told to nobody
  /\ Stalled /\ page.reconnects >= MaxReconnects /\ ~page.gaveUp
  /\ page' = [page EXCEPT !.gaveUp = TRUE]
  /\ UNCHANGED <<watch, rooms, told, row, clicks>>

GiveUp ==
  /\ Stalled /\ page.reconnects >= MaxReconnects /\ ~page.gaveUp
  /\ page' = [page EXCEPT !.gaveUp = TRUE]
  /\ Event("gave-up")
  /\ UNCHANGED <<watch, rooms, clicks>>

Reconnect ==
  /\ Stalled /\ page.reconnects < MaxReconnects
  /\ page' = [page EXCEPT !.reconnects = @ + 1, !.room = NoRoom]
  /\ watch' = [Off EXCEPT !.pc = "minting"]
  /\ rooms' = [rooms EXCEPT ![page.room] = "left"]
  /\ Event("stalled")
  /\ UNCHANGED clicks

ReMinted == \E r \in Rooms :
  /\ watch.pc = "minting" /\ Minted(r)
  /\ watch' = [pc |-> "connecting", to |-> r]
  /\ UNCHANGED <<page, told, row, clicks>>

(* Whatever has been pressed meanwhile, the room that was connected to is   *)
(* the room; with the track that was shared, if it still is.                *)
Reconnected ==
  /\ watch.pc = "connecting" /\ page.pc = "capturing"
  /\ rooms' = [rooms EXCEPT ![watch.to] = "hears"]
  /\ page' = [page EXCEPT !.room = watch.to]
  /\ watch' = [Off EXCEPT !.pc = "watching"]
  /\ Event("reconnected")
  /\ UNCHANGED clicks

(* The gateway refuses, or the room cannot be joined, or there is no track  *)
(* any more: `room` stays empty.                                            *)
ReconnectFails ==
  /\ watch.pc \in {"minting", "connecting"}
  /\ watch' = [Off EXCEPT !.pc = IF page.pc = "capturing" THEN "watching" ELSE "off"]
  /\ rooms' = IF watch.to = NoRoom THEN rooms ELSE [rooms EXCEPT ![watch.to] = "stray"]
  /\ Event("reconnect-failed")
  /\ UNCHANGED <<page, clicks>>

-------------------------------- (* stopping *) -----------------------------
(* The button, or the browser's own: the latter clicks the former. *)
Stop ==
  /\ page.pc = "capturing"
  /\ rooms' = IF page.room = NoRoom THEN rooms ELSE [rooms EXCEPT ![page.room] = "left"]
  /\ page' = [pc |-> "idle", to |-> NoRoom, room |-> NoRoom, reconnects |-> 0, gaveUp |-> FALSE]
  /\ watch' = IF watch.pc = "watching" THEN Off ELSE watch
  /\ Event("ended")
  /\ UNCHANGED clicks

(* The tab is closed: with it goes everything the page was in the midst of. *)
PageHides ==
  /\ page.pc # "closed"
  /\ rooms' = [r \in Rooms |-> IF rooms[r] \in Live THEN "left" ELSE rooms[r]]
  /\ page' = [pc |-> "closed", to |-> NoRoom, room |-> NoRoom, reconnects |-> 0, gaveUp |-> FALSE]
  /\ watch' = Off
  /\ IF page.pc = "capturing" THEN Event("ended") ELSE UNCHANGED <<told, row>>
  /\ UNCHANGED clicks

-----------------------------------------------------------------------------
Next ==
  \/ Start \/ StartRefused \/ StartMinted \/ StartConnected \/ StartFails
  \/ GoesDeaf \/ IsCut
  \/ GiveUp \/ Reconnect \/ ReMinted \/ Reconnected \/ ReconnectFails
  \/ Stop \/ PageHides

Spec == Init /\ [][Next]_vars

(* The stall timer goes off, and the gateway answers or refuses.            *)
Fairness == WF_vars(GiveUp \/ Reconnect) /\ WF_vars(ReMinted \/ Reconnected \/ ReconnectFails)

-----------------------------------------------------------------------------
TypeOK ==
  /\ page.pc \in {"idle", "minting", "connecting", "capturing", "closed"}
  /\ page.room \in Rooms \cup {NoRoom} /\ page.reconnects \in 0..MaxReconnects
  /\ watch.pc \in {"off", "watching", "minting", "connecting"}
  /\ rooms \in [Rooms -> Live \cup {"unused", "empty", "left", "stray"}]
  /\ row.ended \in BOOLEAN /\ row.stalls \in 0..(MaxReconnects * MaxClicks)

(* "It stopped mid-show" has an answer on the server: a page that captures  *)
(* and is not heard is heard again, or the server has been told that it     *)
(* gave up, or that it could not be reconnected, or that it ended.          *)
DeafnessIsTold ==
  (page.pc = "capturing" /\ page.room # NoRoom /\ rooms[page.room] # "hears") ~>
    \/ page.pc = "capturing" /\ page.room # NoRoom /\ rooms[page.room] = "hears"
    \/ told \cap {"gave-up", "reconnect-failed", "failed", "ended"} # {}
=============================================================================
