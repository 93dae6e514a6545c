------------------------------ MODULE RedditWatch ------------------------------
(***************************************************************************)
(* A room on Reddit, polled (surfaces/reddit/poll.ts), and the one client  *)
(* that every read goes through (surfaces/reddit/api.ts): a token that is  *)
(* minted once for all who wait for it, one request at a time, and a pause *)
(* when what Reddit said last is that nothing is left of its window.  The  *)
(* other reader is whoever wants the rules of the room, a thread, or a     *)
(* search.                                                                 *)
(*                                                                         *)
(* Posts are numbered as they come.  What Reddit still grants in a window  *)
(* is `left`; an answer says what was left when it was made.               *)
(***************************************************************************)
EXTENDS Integers, Sequences, SequencesExt

CONSTANTS
  Page,         \* posts in a listing
  SeenCap,
  Budget,       \* requests Reddit grants in a window
  MaxPosts,     \* bound: posts
  MaxRemoved,   \* bound: posts a moderator takes down
  MaxWindows,   \* bound: windows
  MaxBlind      \* bound: blind and lost answers in a window

Readers == {"poll", "other"}
Queues == {<<>>, <<"poll">>, <<"other">>, <<"poll", "other">>, <<"other", "poll">>}

(* Reddit grants 600 requests in a window: more than there are readers.     *)
RedditAssumption ==
  /\ Budget \in Nat /\ Budget >= 2
  /\ MaxPosts \in Nat /\ MaxWindows \in Nat /\ MaxBlind \in Nat

VARIABLES
  posted, removed,  \* the room: how many posts there were, and which are gone
  seen,             \* Seen.ids, in the order they were added
  primed, stopped,  \* of the poller
  emitted,          \* what it has handed over, in order
  base,             \* history: the newest post of the first pass
  reader,           \* reader -> where its request is, and what the answer says
  token,            \* "none", "minting" or "held"
  minted,           \* what the mint that is under way will be answered
  queue,            \* the readers in RedditClient.queue
  rate,             \* what was last read off an answer
  left, window,     \* Reddit's own count
  over, blind       \* history, of this window: requests past it, and requests
                    \*   whose answer was not read before the next was made

vars == <<posted, removed, seen, primed, stopped, emitted, base, reader, token, minted,
          queue, rate, left, window, over, blind>>
room == <<posted, removed>>
poller == <<seen, primed, stopped, emitted, base>>
client == <<reader, token, minted, queue, rate>>
reddit == <<left, window, over, blind>>

NoAnswer == [left |-> -1, window |-> 0, ok |-> FALSE]
Idle == [pc |-> "idle", answer |-> NoAnswer, page |-> <<>>]

Init ==
  /\ posted = 0 /\ removed = {}
  /\ seen = <<>> /\ primed = FALSE /\ stopped = FALSE /\ emitted = <<>> /\ base = 0
  /\ reader = [c \in Readers |-> Idle] /\ token = "none" /\ minted = NoAnswer
  /\ queue = <<>> /\ rate = NoAnswer
  /\ left = Budget /\ window = 1 /\ over = 0 /\ blind = 0

---------------------------- (* the room, Reddit *) -------------------------
Post ==
  /\ posted < MaxPosts /\ posted' = posted + 1
  /\ UNCHANGED <<removed, poller, client, reddit>>

TakeDown == \E p \in 1..posted \ removed :
  /\ Len(SetToSeq(removed)) < MaxRemoved /\ removed' = removed \cup {p}
  /\ UNCHANGED <<posted, poller, client, reddit>>

WindowRolls ==
  /\ window < MaxWindows /\ window' = window + 1
  /\ left' = Budget /\ over' = 0 /\ blind' = 0
  /\ UNCHANGED <<room, poller, client>>

(* /new: the newest that are still there, newest first. *)
Listing == LET there == SelectSeq([i \in 1..posted |-> posted + 1 - i], LAMBDA p : p \notin removed) IN
           SubSeq(there, 1, IF Len(there) < Page THEN Len(there) ELSE Page)

(* A request is counted, or is one too many: 429. *)
Spend ==
  /\ left' = IF left > 0 THEN left - 1 ELSE 0
  /\ over' = IF left > 0 THEN over ELSE over + 1
  /\ UNCHANGED window
Answered == [left |-> left', window |-> window, ok |-> left > 0]

------------------------------ (* the client *) -----------------------------
Join(c) == queue' = Append(queue, c) /\ reader' = [reader EXCEPT ![c].pc = "queued"]

(* get: with a token in hand the request is queued; without, it waits for   *)
(* the mint that is under way, or makes one.                                *)
Get(c) ==
  /\ reader[c].pc = "idle" /\ (c = "poll" => ~stopped)
  /\ \/ token = "held" /\ Join(c) /\ UNCHANGED <<token, minted, reddit>>
     \/ /\ token = "minting" /\ reader' = [reader EXCEPT ![c].pc = "tokenless"]
        /\ UNCHANGED <<queue, token, minted, reddit>>
     \/ /\ token = "none" /\ blind < MaxBlind /\ blind' = blind + 1
        /\ Spend /\ minted' = Answered /\ token' = "minting"
        /\ reader' = [reader EXCEPT ![c].pc = "tokenless"]
        /\ UNCHANGED queue
  /\ UNCHANGED <<room, poller, rate>>

MintReturns ==
  /\ token = "minting" /\ minted' = NoAnswer
  /\ \/ /\ minted.ok /\ rate' = minted /\ token' = "held"
        /\ \E waiting \in Queues :
             /\ {waiting[i] : i \in DOMAIN waiting} = {c \in Readers : reader[c].pc = "tokenless"}
             /\ queue' = queue \o waiting
        /\ reader' = [c \in Readers |-> IF reader[c].pc = "tokenless" THEN [Idle EXCEPT !.pc = "queued"] ELSE reader[c]]
     \/ /\ rate' \in {minted, rate} /\ token' = "none" /\ UNCHANGED queue   \* refused, or no answer
        /\ reader' = [c \in Readers |-> IF reader[c].pc = "tokenless" THEN [Idle EXCEPT !.pc = "failed"] ELSE reader[c]]
  /\ UNCHANGED <<room, poller, reddit>>

TokenExpires ==
  /\ token = "held" /\ token' = "none"
  /\ UNCHANGED <<room, poller, reader, minted, queue, rate, reddit>>

(* backoffMs: nothing left is waited out; what was said of an old window is *)
(* over when that window is.                                                *)
Paced == rate.left # 0 \/ rate.window < window

Send_unserialised(c) ==  \* mutant: who reads the budget does not wait for who spends it
  /\ \E i \in 1..Len(queue) : queue[i] = c
  /\ reader[c].pc = "queued" /\ Paced
  /\ Spend /\ UNCHANGED blind
  /\ reader' = [reader EXCEPT ![c] = [pc |-> "sent", answer |-> Answered, page |-> IF c = "poll" THEN Listing ELSE <<>>]]
  /\ UNCHANGED <<room, poller, token, minted, queue, rate>>

Send(c) ==
  /\ queue # <<>> /\ Head(queue) = c /\ reader[c].pc = "queued" /\ Paced
  /\ Spend /\ UNCHANGED blind
  /\ reader' = [reader EXCEPT ![c] = [pc |-> "sent", answer |-> Answered, page |-> IF c = "poll" THEN Listing ELSE <<>>]]
  /\ UNCHANGED <<room, poller, token, minted, queue, rate>>

(* The answer, or the network's; the next in the queue may go. *)
Answer(c) ==
  /\ reader[c].pc = "sent"
  /\ \E i \in DOMAIN queue : queue[i] = c /\ queue' = RemoveAt(queue, i)
  /\ \/ /\ reader[c].answer.ok /\ rate' = reader[c].answer
        /\ reader' = [reader EXCEPT ![c].pc = "answered"]
        /\ UNCHANGED blind
     \/ /\ rate' = reader[c].answer /\ reader' = [reader EXCEPT ![c] = [Idle EXCEPT !.pc = "failed"]]
        /\ UNCHANGED blind
     \/ /\ blind < MaxBlind /\ blind' = blind + 1   \* no answer at all
        /\ reader' = [reader EXCEPT ![c] = [Idle EXCEPT !.pc = "failed"]]
        /\ UNCHANGED rate
  /\ UNCHANGED <<room, poller, token, minted, left, window, over>>

OtherDone ==
  /\ reader["other"].pc \in {"answered", "failed"}
  /\ reader' = [reader EXCEPT !["other"] = Idle]
  /\ UNCHANGED <<room, poller, token, minted, queue, rate, reddit>>

------------------------------ (* the poller *) -----------------------------
(* Seen.add: what is known keeps its place; past the cap the oldest goes. *)
Remember_newest(s, p) ==  \* mutant: the newest goes
  IF Contains(s, p) \/ Len(s) = SeenCap THEN s ELSE Append(s, p)

Remember(s, p) ==
  IF Contains(s, p) THEN s
  ELSE IF Len(s) = SeenCap THEN Append(Tail(s), p) ELSE Append(s, p)

(* pollOnce, with its answer: what is fresh is handed over, oldest first,   *)
(* but for the first pass, which only takes note.                           *)
Polled ==
  /\ reader["poll"].pc = "answered"
  /\ LET page == reader["poll"].page
         fresh == Reverse(SelectSeq(page, LAMBDA p : ~Contains(seen, p))) IN
     /\ seen' = FoldLeft(Remember, seen, page)
     /\ primed' = TRUE
     /\ emitted' = IF primed THEN emitted \o fresh ELSE emitted
     /\ base' = IF primed \/ page = <<>> THEN base ELSE Head(page)
  /\ reader' = [reader EXCEPT !["poll"] = Idle]
  /\ UNCHANGED <<room, stopped, token, minted, queue, rate, reddit>>

(* A failure that will not change ends the watch; another is told, and the  *)
(* next poll is tried.                                                      *)
PollFails ==
  /\ reader["poll"].pc = "failed"
  /\ stopped' \in {stopped, TRUE}
  /\ reader' = [reader EXCEPT !["poll"] = Idle]
  /\ UNCHANGED <<room, seen, primed, emitted, base, token, minted, queue, rate, reddit>>

Stop ==
  /\ ~stopped /\ stopped' = TRUE
  /\ UNCHANGED <<room, seen, primed, emitted, base, client, reddit>>

-----------------------------------------------------------------------------
Next ==
  \/ Post \/ TakeDown \/ WindowRolls \/ MintReturns \/ TokenExpires
  \/ \E c \in Readers : Get(c) \/ Send(c) \/ Answer(c)
  \/ OtherDone \/ Polled \/ PollFails \/ Stop

Spec == Init /\ [][Next]_vars

-----------------------------------------------------------------------------
TypeOK ==
  /\ posted \in 0..MaxPosts /\ removed \subseteq 1..posted /\ Len(seen) <= SeenCap
  /\ left \in 0..Budget /\ window \in 1..MaxWindows /\ blind \in 0..MaxBlind
  /\ \A c \in Readers : reader[c].pc \in {"idle", "tokenless", "queued", "sent", "answered", "failed"}

(* However the listing slides, nothing is handed over twice, and what was   *)
(* there before the watch is not, unless a removal brought it back onto the *)
(* page (poll.ts, lines 6 to 16).                                           *)
HandedOverOnce ==
  /\ \A i, j \in 1..Len(emitted) : i # j => emitted[i] # emitted[j]
  /\ removed = {} => \A i \in 1..Len(emitted) : emitted[i] > base

(* Reddit is not asked for more than it grants in a window, except for as   *)
(* many requests as went unread in it: a mint is not paced, and an answer   *)
(* may be lost with what it said (api.ts, lines 14 to 25).                  *)
WithinBudget == over <= blind
=============================================================================
