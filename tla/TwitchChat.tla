------------------------------ MODULE TwitchChat ------------------------------
(***************************************************************************)
(* The reader of a Twitch channel's chat over EventSub                     *)
(* (surfaces/twitch/chat.ts): sockets that Twitch closes when it likes,    *)
(* hands over to another, or lets die without a word; one timer that       *)
(* notices the last of these; and a timer for every socket that closed,    *)
(* which opens another.  What is said in chat is left out: the frames here *)
(* are those that move the connection.                                     *)
(***************************************************************************)
EXTENDS Integers, FiniteSets

CONSTANTS
  Sockets,     \* as many as can be open at once: each fault adds one at most
  MaxOutages   \* bound: things Twitch or the network does to a connection

VARIABLES
  chat,      \* the caller of start and stop
  socks,     \* socket -> how far it is
  latest,    \* this.sock
  timers,    \* reconnects that wait for their two seconds
  keepalive, \* is the watchdog armed?
  outages

vars == <<chat, socks, latest, timers, keepalive, outages>>

NoSocket == "none"
Unused == [state |-> "unused", silent |-> FALSE, old |-> NoSocket]

Init ==
  /\ chat = [pc |-> "off", stopped |-> FALSE, revoked |-> FALSE]
  /\ socks = [s \in Sockets |-> Unused]
  /\ latest = NoSocket /\ timers = 0 /\ keepalive = FALSE /\ outages = 0

Open(s) == socks[s].state \in {"opening", "reading"}
Reading == {s \in Sockets : socks[s].state = "reading"}

-------------------------------- (* connect *) ------------------------------
(* A new socket, which becomes the one that the watchdog closes at once.    *)
Connect(s, old) ==
  /\ socks[s].state = "unused"
  /\ socks' = [socks EXCEPT ![s] = [state |-> "opening", silent |-> FALSE, old |-> old]]
  /\ latest' = s

Start == \E s \in Sockets :
  /\ chat.pc = "off" /\ ~chat.stopped
  /\ Connect(s, NoSocket)
  /\ chat' = [chat EXCEPT !.pc = "starting"]
  /\ UNCHANGED <<timers, keepalive, outages>>

(* The two seconds are up.  Nobody cancels this, and it asks nothing. *)
Reconnect == \E s \in Sockets :
  /\ timers > 0 /\ timers' = timers - 1
  /\ Connect(s, NoSocket)
  /\ UNCHANGED <<chat, keepalive, outages>>

(* The promise of connect is settled: start returns, or throws.             *)
Settled(x, ok) == IF x.pc = "starting" THEN [x EXCEPT !.pc = IF ok THEN "on" ELSE "failed"] ELSE x

(* The welcome, and the subscription that has to follow it.  A handover has *)
(* its old socket closed then.                                              *)
Welcome(s) ==
  /\ socks[s].state = "opening" /\ ~socks[s].silent
  /\ socks' = [t \in Sockets |->
       IF t = s THEN [socks[s] EXCEPT !.state = "reading", !.old = NoSocket]
       ELSE IF t = socks[s].old /\ Open(t) THEN [socks[t] EXCEPT !.state = "closing"] ELSE socks[t]]
  /\ chat' = Settled(chat, TRUE)
  /\ keepalive' = ~chat.stopped
  /\ UNCHANGED <<latest, timers, outages>>

(* The subscription is refused: the socket is closed by us.                 *)
Refused(s) ==
  /\ outages < MaxOutages /\ socks[s].state = "opening"
  /\ socks' = [socks EXCEPT ![s].state = "closing"]
  /\ chat' = Settled(chat, FALSE)
  /\ keepalive' = ~chat.stopped
  /\ outages' = outages + 1
  /\ UNCHANGED <<latest, timers>>

(* Any frame on any socket puts the watchdog off. *)
Frame(s) ==
  /\ socks[s].state = "reading" /\ ~socks[s].silent
  /\ keepalive' = ~chat.stopped
  /\ UNCHANGED <<chat, socks, latest, timers, outages>>

(* Twitch asks us to move: connect first, then drop.                        *)
Handover(s) == \E t \in Sockets :
  /\ outages < MaxOutages /\ outages' = outages + 1
  /\ socks[s].state = "reading" /\ ~socks[s].silent
  /\ Connect(t, latest)
  /\ keepalive' = ~chat.stopped
  /\ UNCHANGED <<chat, timers>>

------------------------------ (* a close event *) --------------------------
(* done() runs first, so the promise is settled whenever the handler asks:  *)
(* a close before the session opened is retried as well.                    *)
Closed(s) ==
  /\ socks[s].state = "closing"
  /\ socks' = [socks EXCEPT ![s] = Unused]
  /\ timers' = IF chat.stopped THEN timers ELSE timers + 1
  /\ chat' = Settled(chat, FALSE)
  /\ latest' = IF latest = s THEN NoSocket ELSE latest
  /\ UNCHANGED <<keepalive, outages>>

(* Twitch or the network ends a socket; or it goes dead and nobody says so. *)
Dropped(s) ==
  /\ outages < MaxOutages /\ outages' = outages + 1
  /\ Open(s)
  /\ \/ socks' = [socks EXCEPT ![s].state = "closing"]
     \/ socks[s].state = "reading" /\ socks' = [socks EXCEPT ![s].silent = TRUE]
  /\ UNCHANGED <<chat, latest, timers, keepalive>>

KeepaliveFires_told ==  \* mutant: the outage is reported, and the dead socket kept
  /\ keepalive /\ \A s \in Reading : socks[s].silent
  /\ keepalive' = FALSE
  /\ UNCHANGED <<chat, socks, latest, timers, outages>>

(* No frame in one and a half times the interval Twitch named: the latest   *)
(* socket is closed.                                                        *)
KeepaliveFires ==
  /\ keepalive /\ \A s \in Reading : socks[s].silent
  /\ keepalive' = FALSE
  /\ socks' = IF latest # NoSocket /\ Open(latest) THEN [socks EXCEPT ![latest].state = "closing"] ELSE socks
  /\ UNCHANGED <<chat, latest, timers, outages>>

Revoke(s) ==
  /\ outages < MaxOutages /\ outages' = outages + 1
  /\ socks[s].state = "reading" /\ ~chat.revoked
  /\ chat' = [chat EXCEPT !.revoked = TRUE]
  /\ keepalive' = ~chat.stopped
  /\ UNCHANGED <<socks, latest, timers>>

(* The connection that open() returned is stopped. *)
Stop ==
  /\ chat.pc = "on" /\ ~chat.stopped
  /\ chat' = [chat EXCEPT !.stopped = TRUE]
  /\ keepalive' = FALSE
  /\ socks' = IF latest # NoSocket /\ Open(latest) THEN [socks EXCEPT ![latest].state = "closing"] ELSE socks
  /\ latest' = NoSocket
  /\ UNCHANGED <<timers, outages>>

-----------------------------------------------------------------------------
Next ==
  \/ Start \/ Reconnect \/ KeepaliveFires \/ Stop
  \/ \E s \in Sockets : \/ Welcome(s) \/ Refused(s) \/ Frame(s) \/ Handover(s)
                        \/ Closed(s) \/ Dropped(s) \/ Revoke(s)

Spec == Init /\ [][Next]_vars

(* A timer fires; a socket that was closed says so; and Twitch answers a    *)
(* connection, with a welcome or by closing it.                             *)
Fairness ==
  /\ WF_vars(Reconnect) /\ WF_vars(KeepaliveFires)
  /\ \A s \in Sockets : WF_vars(Welcome(s)) /\ WF_vars(Closed(s))

-----------------------------------------------------------------------------
TypeOK ==
  /\ chat \in [pc : {"off", "starting", "on", "failed"}, stopped : BOOLEAN, revoked : BOOLEAN]
  /\ socks \in [Sockets -> [state : {"unused", "opening", "reading", "closing"}, silent : BOOLEAN,
                            old : Sockets \cup {NoSocket}]]
  /\ latest \in Sockets \cup {NoSocket} /\ timers \in 0..Cardinality(Sockets)
  /\ keepalive \in BOOLEAN /\ outages \in 0..MaxOutages

(* "An operator should never see a session end because a server went away": *)
(* a chat that is on reads again, whichever sockets were closed, refused,   *)
(* handed over or left dead, unless it is stopped or its grant revoked.     *)
ChatRecovers == chat.pc = "on" ~>
  (chat.stopped \/ chat.revoked \/ \E s \in Reading : ~socks[s].silent)
=============================================================================
