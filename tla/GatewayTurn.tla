----------------------------- MODULE GatewayTurn -----------------------------
(***************************************************************************)
(* One call to the gateway (llm/whissle.ts, llm/sessions.ts), the deadline *)
(* it is given (net/http.ts), and the meter that counts it (llm/meter.ts). *)
(*                                                                         *)
(* A reply is asked for on the streaming door, whose bytes arrive in       *)
(* chunks cut anywhere: a frame is two halves and a blank line, which is   *)
(* two newlines.  The gateway may answer, refuse, break off, or hang at    *)
(* any point; a streaming door it does not have is answered by the other.  *)
(* Text is a sequence of pieces.                                           *)
(***************************************************************************)
EXTENDS Integers, Sequences, SequencesExt

CONSTANTS
  Scripts,    \* what the gateway may stream: [frames, end]
  TurnLimit,  \* WhissleOpts.timeoutMs, and what a read of sessions is given
  Deadline,   \* DEADLINES.gateway
  MaxTime     \* bound

(* The limits are numbers. *)
TurnAssumption == TurnLimit \in Nat /\ Deadline \in Nat /\ MaxTime \in Nat

Turns == {"stream", "post"}                    \* chatTurnStream; chatTurn, utilityTurn, readFrame, startListenSession
Kinds == Turns \cup {"activity", "upload", "list"}  \* WhissleSessions.get, uploadKb, the reads of kbSync
Ends == {"close", "hang", "reset"}
Never == -1

VARIABLES
  now,
  kind,      \* the call asked for, which of the doors it is at,
  door,
  pc,        \* and how far it is
  began,
  timer,     \* when it is aborted, unless the timer is cleared
  script, wire, buf,   \* what the gateway streams, what of it is to come, what is unread
  full, shown, final,  \* the deltas together, as the operator saw them, and the last done frame
  answer,    \* what the caller got: <<text>>, or <<>> for an error
  counted    \* what meter.record was told: whether each call went well

vars == <<now, kind, door, pc, began, timer, script, wire, buf, full, shown, final, answer, counted>>
stream == <<script, wire, buf, full, shown, final>>
call == <<kind, began>>

Half(i, h) == [frame |-> i, half |-> h]
Newline == [frame |-> 0, half |-> 0]
Bytes(s) == FlattenSeq([i \in DOMAIN s.frames |-> <<Half(i, 1), Half(i, 2), Newline, Newline>>])
Cuts(b) == {k \in 1..(Len(b) - 1) : b[k] = Newline /\ b[k + 1] = Newline}
Deltas(s) == SelectSeq(s.frames, LAMBDA f : f.event = "delta")
Texts(fs) == FlattenSeq([i \in DOMAIN fs |-> fs[i].text])
Dones(s) == SelectSeq(s.frames, LAMBDA f : f.event = "done")

TypeOK ==
  /\ now \in 0..MaxTime /\ kind \in Kinds /\ door \in Kinds /\ began \in 0..MaxTime
  /\ timer \in 0..(MaxTime + TurnLimit + Deadline) \cup {Never} /\ script.end \in Ends
  /\ pc \in {"idle", "asked", "streaming", "body", "refused", "settled"}
  /\ Len(final) <= 1 /\ Len(answer) <= 1 /\ counted \in Seq(BOOLEAN)

Init ==
  /\ now = 0 /\ kind = "stream" /\ door = "stream" /\ pc = "idle" /\ began = 0 /\ timer = Never
  /\ script = [frames |-> <<>>, end |-> "hang"] /\ wire = <<>> /\ buf = <<>>
  /\ full = <<>> /\ shown = <<>> /\ final = <<>> /\ answer = <<>> /\ counted = <<>>

(* A timer that is due runs before time goes on. *)
Tick ==
  /\ now < MaxTime /\ timer # now /\ now' = now + 1
  /\ UNCHANGED <<call, door, pc, timer, stream, answer, counted>>

Count(ok) == counted' = Append(counted, ok)
Settle(text) == pc' = "settled" /\ answer' = text /\ timer' = Never
Fails == Settle(<<>>) /\ Count(FALSE)

Ask(k) ==
  /\ pc = "idle" /\ pc' = "asked" /\ kind' = k /\ door' = k /\ began' = now
  /\ timer' = now + (IF k \in {"upload", "list"} THEN Deadline ELSE TurnLimit)
  /\ UNCHANGED <<now, stream, answer, counted>>

------------------------------- (* the headers *) ---------------------------
(* No streaming door: the other one is asked, with a timer of its own.      *)
NoSuchDoor ==
  /\ pc = "asked" /\ door = "stream" /\ door' = "post" /\ timer' = now + TurnLimit
  /\ UNCHANGED <<now, call, pc, stream, answer, counted>>

Accepted_cleared ==  \* mutant: headers clear the timer, whichever it is
  /\ pc = "asked" /\ timer' = Never
  /\ \/ /\ door = "stream" /\ pc' = "streaming"
        /\ \E s \in Scripts : script' = s /\ wire' = Bytes(s)
        /\ UNCHANGED <<buf, full, shown, final, answer, counted>>
     \/ door \in {"post", "list"} /\ pc' = "body" /\ UNCHANGED <<stream, answer, counted>>
     \/ door = "activity" /\ pc' = "body" /\ Count(TRUE) /\ UNCHANGED <<answer, stream>>
     \/ door = "upload" /\ Settle(<< <<>> >>) /\ Count(TRUE) /\ UNCHANGED stream
  /\ UNCHANGED <<now, call, door>>

(* withDeadline's timer is cleared once there are headers.  An upload is    *)
(* counted now, and over; a read of sessions is counted before its body.    *)
Accepted ==
  /\ pc = "asked"
  /\ \/ /\ door = "stream" /\ pc' = "streaming"
        /\ \E s \in Scripts : script' = s /\ wire' = Bytes(s)
        /\ UNCHANGED <<timer, buf, full, shown, final, answer, counted>>
     \/ door = "post" /\ pc' = "body" /\ UNCHANGED <<timer, stream, answer, counted>>
     \/ door = "activity" /\ pc' = "body" /\ Count(TRUE) /\ UNCHANGED <<timer, stream, answer>>
     \/ door = "list" /\ pc' = "body" /\ timer' = Never /\ UNCHANGED <<stream, answer, counted>>
     \/ door = "upload" /\ Settle(<< <<>> >>) /\ Count(TRUE) /\ UNCHANGED stream
  /\ UNCHANGED <<now, call, door>>

Refused ==
  /\ pc = "asked"
  /\ \/ door \in {"stream", "post", "activity"} /\ pc' = "refused" /\ UNCHANGED <<timer, answer, counted>>
     \/ door = "upload" /\ pc' = "refused" /\ timer' = Never /\ Count(FALSE) /\ UNCHANGED answer
     \/ door = "list" /\ Settle(<<>>) /\ UNCHANGED counted
  /\ UNCHANGED <<now, call, door, stream>>

-------------------------------- (* the body *) -----------------------------
(* post is counted with its body; what a read of sessions cannot parse is   *)
(* counted once more.                                                       *)
Body ==
  /\ pc = "body"
  /\ \/ /\ Settle(<< <<>> >>) /\ IF door = "post" THEN Count(TRUE) ELSE UNCHANGED counted
     \/ IF door = "list" THEN Settle(<<>>) /\ UNCHANGED counted ELSE Fails
  /\ UNCHANGED <<now, call, door, stream>>

(* The text of a refusal.  It is asked for under the same timer, if any.    *)
RefusedText ==
  /\ pc = "refused" /\ IF door = "upload" THEN Settle(<<>>) /\ UNCHANGED counted ELSE Fails
  /\ UNCHANGED <<now, call, door, stream>>

(* The timer runs out, or the connection breaks.  An abort while a refusal  *)
(* is read ends the reading; what withDeadline aborts is not counted.       *)
Breaks ==
  /\ \/ pc \in {"asked", "body", "refused"}
     \/ pc = "streaming" /\ wire = <<>> /\ Cuts(buf) = {} /\ script.end = "reset"
  /\ timer # now
  /\ IF door \in {"upload", "list"} THEN Settle(<<>>) /\ UNCHANGED counted ELSE Fails
  /\ UNCHANGED <<now, call, door, stream>>

Expires_rethrown ==  \* mutant: the error it throws is caught and counted again
  /\ timer = now /\ pc # "idle" /\ pc # "settled" /\ Settle(<<>>)
  /\ counted' = IF door \in {"upload", "list"} THEN counted ELSE counted \o <<FALSE, FALSE>>
  /\ UNCHANGED <<now, call, door, stream>>

Expires ==
  /\ timer = now /\ pc # "idle" /\ pc # "settled"
  /\ IF door \in {"upload", "list"} THEN Settle(<<>>) /\ UNCHANGED counted ELSE Fails
  /\ UNCHANGED <<now, call, door, stream>>

------------------------------- (* sseFrames *) ------------------------------
(* A chunk is whatever part of the rest arrives; it is read when no whole   *)
(* frame is left of what came before.                                       *)
Read_alone(n) ==  \* mutant: each chunk is split on its own
  /\ pc = "streaming" /\ Cuts(buf) = {} /\ n \in 1..Len(wire)
  /\ buf' = SubSeq(wire, 1, n) /\ wire' = SubSeq(wire, n + 1, Len(wire))
  /\ UNCHANGED <<now, call, door, pc, timer, script, full, shown, final, answer, counted>>

Read(n) ==
  /\ pc = "streaming" /\ Cuts(buf) = {} /\ n \in 1..Len(wire)
  /\ buf' = buf \o SubSeq(wire, 1, n) /\ wire' = SubSeq(wire, n + 1, Len(wire))
  /\ UNCHANGED <<now, call, door, pc, timer, script, full, shown, final, answer, counted>>

(* The first frame of what was read, and what the turn does with it: a      *)
(* frame it cannot parse and one it does not know are passed over.          *)
Parsed(b) == IF \E i \in DOMAIN script.frames : b = <<Half(i, 1), Half(i, 2)>>
             THEN script.frames[b[1].frame] ELSE [event |-> "noise", text |-> <<>>]

Frame ==
  LET k == CHOOSE k \in Cuts(buf) : \A j \in Cuts(buf) : k <= j
      f == Parsed(SubSeq(buf, 1, k - 1))
  IN
  /\ pc = "streaming" /\ Cuts(buf) # {}
  /\ buf' = SubSeq(buf, k + 2, Len(buf))
  /\ IF f.event = "delta" THEN full' = full \o f.text /\ shown' = full \o f.text ELSE UNCHANGED <<full, shown>>
  /\ final' = IF f.event = "done" THEN <<f.text>> ELSE final
  /\ IF f.event = "error" THEN Fails ELSE UNCHANGED <<pc, answer, timer, counted>>
  /\ UNCHANGED <<now, call, door, script, wire>>

(* The stream ends.  Without a done frame it is not an answer. *)
Ended_echo ==  \* mutant: the deltas will do
  /\ pc = "streaming" /\ wire = <<>> /\ Cuts(buf) = {} /\ script.end = "close"
  /\ Settle(<<full>>) /\ Count(TRUE)
  /\ UNCHANGED <<now, call, door, stream>>

Ended ==
  /\ pc = "streaming" /\ wire = <<>> /\ Cuts(buf) = {} /\ script.end = "close"
  /\ IF final = <<>> THEN Fails ELSE Settle(final) /\ Count(TRUE)
  /\ UNCHANGED <<now, call, door, stream>>

Next ==
  \/ Tick \/ NoSuchDoor \/ Accepted \/ Refused \/ Body \/ RefusedText \/ Breaks \/ Expires \/ Frame \/ Ended
  \/ \E k \in Kinds : Ask(k)
  \/ \E n \in 1..Len(wire) : Read(n)

Spec == Init /\ [][Next]_vars

-----------------------------------------------------------------------------
(* A streamed answer is what the last done frame says, whole, and never the *)
(* deltas of a stream that broke off; an error frame leaves none.           *)
AnswerIsDone ==
  (pc = "settled" /\ door = "stream" /\ answer # <<>>)
     => /\ script.end = "close" /\ Dones(script) # <<>> /\ answer[1] = Last(Dones(script)).text
        /\ \A i \in DOMAIN script.frames : script.frames[i].event # "error"

(* However the bytes are cut, the operator sees the deltas in their order,  *)
(* and has seen all of them when there is an answer.                        *)
FramesSurvive ==
  /\ IsPrefix(shown, Texts(Deltas(script))) \/ pc = "idle"
  /\ (pc = "settled" /\ door = "stream" /\ answer # <<>>) => shown = Texts(Deltas(script))

(* Every turn is counted once, for what it was, on whichever door. *)
TurnsAreCounted == kind \in Turns => counted = IF pc = "settled" THEN <<answer # <<>> >> ELSE <<>>

(* A turn, or a read of sessions, does not outlast its timer, wherever the  *)
(* gateway hangs; one that finds no streaming door has the time of two.     *)
TurnsKeepTheirLimit ==
  (pc \notin {"idle", "settled"} /\ kind \in Turns \cup {"activity"})
     => now - began <= TurnLimit * (IF kind = "stream" THEN 2 ELSE 1)

(* "A `fetch` that cannot outlive its deadline", as net/http.ts says of the *)
(* fetch the gateway's own paths, eBay, Twitch and Reddit are read with.    *)
NothingOutlivesItsDeadline ==
  (pc \notin {"idle", "settled"} /\ kind \in {"upload", "list"}) => now - began <= Deadline
=============================================================================
