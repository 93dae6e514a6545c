---------------------------- MODULE PlatformAccount ----------------------------
(***************************************************************************)
(* A seller's connection to eBay or to Twitch: the consent that a browser  *)
(* carries away and brings back (begin, complete), the row it leaves, the  *)
(* refresh of its access token (userToken), its end by the seller          *)
(* (disconnect) and by eBay's notice that a member has closed their        *)
(* account (ingest/ebay/oauth.ts and deletion.ts, surfaces/twitch/oauth.ts,*)
(* the callbacks in api/routes.ts).                                        *)
(*                                                                         *)
(* A request is one of the platform's calls or one statement per step;     *)
(* everything between is somebody else's.  Only eBay sends notices, and    *)
(* only Twitch replaces a refresh token when it is used.                   *)
(***************************************************************************)
EXTENDS Integers, FiniteSets

CONSTANTS
  Accounts,  \* sellers
  Members,   \* who they are on the platform
  Consents,  \* bound: consent links handed out
  Requests,  \* requests in flight at once
  MaxCalls   \* bound: calls of userToken

VARIABLES
  states,    \* oauth_states: consent -> the seller it was started for
  rows,      \* accounts table: seller -> who it says it is (name), and whose access token it holds (member)
  reqs,      \* request -> what it is and how far
  closed,    \* members who have closed their account
  over,      \* history: consents whose connection has been taken away
  calls

vars == <<states, rows, reqs, closed, over, calls>>

None == "none"

(* Sellers and consents have names of their own. *)
AccountAssumption ==
  /\ MaxCalls \in Nat
  /\ None \notin Consents /\ None \notin Accounts
  /\ "unused" \notin Accounts /\ "gone" \notin Accounts

NoRow == [consent |-> None, name |-> None, member |-> None, fresh |-> FALSE]
Idle == [kind |-> "idle", pc |-> None, seller |-> None, consent |-> None, member |-> None, name |-> None]

Init ==
  /\ states = [c \in Consents |-> "unused"]
  /\ rows = [a \in Accounts |-> NoRow]
  /\ reqs = [r \in Requests |-> Idle]
  /\ closed = {} /\ over = {} /\ calls = 0

Done(r) == reqs' = [reqs EXCEPT ![r] = Idle]
At(r, kind, pc) == reqs[r].kind = kind /\ reqs[r].pc = pc

------------------------------- (* consenting *) ----------------------------
Begin(a) == \E c \in Consents :
  /\ states[c] = "unused"
  /\ states' = [states EXCEPT ![c] = a]
  /\ UNCHANGED <<rows, reqs, closed, over, calls>>

(* An hour old: deleted by whoever begins next. *)
Expire == \E c \in Consents :
  /\ states[c] \in Accounts
  /\ states' = [states EXCEPT ![c] = "gone"]
  /\ UNCHANGED <<rows, reqs, closed, over, calls>>

(* The browser comes back with a code, signed in as whichever member: the   *)
(* state is deleted and read in one statement.                              *)
Complete(r) == \E c \in Consents, m \in Members \ closed :
  /\ reqs[r] = Idle /\ states[c] \in Accounts
  /\ states' = [states EXCEPT ![c] = "gone"]
  /\ reqs' = [reqs EXCEPT ![r] = [kind |-> "complete", pc |-> "exchange", seller |-> states[c],
                                  consent |-> c, member |-> m, name |-> None]]
  /\ UNCHANGED <<rows, closed, over, calls>>

(* The code is exchanged, or refused.  Who it is comes from a call of its   *)
(* own, which may fail.                                                     *)
Exchange(r) ==
  /\ At(r, "complete", "exchange")
  /\ \/ Done(r)
     \/ \E name \in {reqs[r].member, None} :
          reqs' = [reqs EXCEPT ![r].pc = "store", ![r].name = name]
  /\ UNCHANGED <<states, rows, closed, over, calls>>

(* The upsert.  A name that is not known leaves the one that is there. *)
Store(r) ==
  /\ At(r, "complete", "store")
  /\ LET a == reqs[r].seller IN
     /\ rows' = [rows EXCEPT ![a] =
          [consent |-> reqs[r].consent, member |-> reqs[r].member, fresh |-> TRUE,
           name |-> IF reqs[r].name = None THEN rows[a].name ELSE reqs[r].name]]
     /\ over' = over \cup ({rows[a].consent} \ {None})
  /\ Done(r)
  /\ UNCHANGED <<states, closed, calls>>

------------------------------ (* its tokens *) -----------------------------
AccessExpires == \E a \in Accounts :
  /\ rows[a].fresh
  /\ rows' = [rows EXCEPT ![a].fresh = FALSE]
  /\ UNCHANGED <<states, reqs, closed, over, calls>>

(* userToken: what is fresh is handed out; what is not is refreshed.        *)
UserToken(r) == \E a \in Accounts :
  /\ calls < MaxCalls /\ calls' = calls + 1
  /\ reqs[r] = Idle /\ rows[a] # NoRow /\ ~rows[a].fresh
  /\ reqs' = [reqs EXCEPT ![r] = [kind |-> "refresh", pc |-> "call", seller |-> a,
                consent |-> rows[a].consent, member |-> rows[a].member, name |-> rows[a].name]]
  /\ UNCHANGED <<states, rows, closed, over>>

(* The platform honours the refresh token unless its member is gone. *)
Refresh(r) ==
  /\ At(r, "refresh", "call")
  /\ \/ Done(r)
     \/ reqs[r].member \notin closed /\ reqs' = [reqs EXCEPT ![r].pc = "store"]
  /\ UNCHANGED <<states, rows, closed, over, calls>>

StoreToken_upsert(r) ==  \* mutant: a row that has gone is written again
  /\ At(r, "refresh", "store")
  /\ rows' = [rows EXCEPT ![reqs[r].seller] =
       [consent |-> reqs[r].consent, member |-> reqs[r].member, name |-> reqs[r].name, fresh |-> TRUE]]
  /\ Done(r)
  /\ UNCHANGED <<states, closed, over, calls>>

(* UPDATE: the row as it is by now, with the token that was refreshed; or   *)
(* none, when the connection has been taken away meanwhile.                 *)
StoreToken(r) ==
  /\ At(r, "refresh", "store")
  /\ LET a == reqs[r].seller IN
     rows' = IF rows[a] = NoRow THEN rows
             ELSE [rows EXCEPT ![a].fresh = TRUE, ![a].member = reqs[r].member]
  /\ Done(r)
  /\ UNCHANGED <<states, closed, over, calls>>

------------------------------- (* its end *) -------------------------------
TakeAway(S) ==
  /\ rows' = [a \in Accounts |-> IF a \in S THEN NoRow ELSE rows[a]]
  /\ over' = over \cup ({rows[a].consent : a \in S} \ {None})

Disconnect(a) ==
  /\ rows[a] # NoRow /\ TakeAway({a})
  /\ UNCHANGED <<states, reqs, closed, calls>>

(* A member closes their account, and eBay says so once: every answer is a  *)
(* 2xx.  The key of the signature cannot be had, or the statement fails,    *)
(* or the rows that carry their name go.                                    *)
Notice(m) ==
  /\ m \notin closed
  /\ closed' = closed \cup {m}
  /\ \/ TakeAway({a \in Accounts : rows[a].name = m})
     \/ UNCHANGED <<rows, over>>
  /\ UNCHANGED <<states, reqs, calls>>

-----------------------------------------------------------------------------
Next ==
  \/ \E a \in Accounts : Begin(a) \/ Disconnect(a)
  \/ Expire \/ AccessExpires
  \/ \E r \in Requests : \/ Complete(r) \/ Exchange(r) \/ Store(r)
                         \/ UserToken(r) \/ Refresh(r) \/ StoreToken(r)
  \/ \E m \in Members : Notice(m)

Spec == Init /\ [][Next]_vars

-----------------------------------------------------------------------------
TypeOK ==
  /\ states \in [Consents -> Accounts \cup {"unused", "gone"}]
  /\ rows \in [Accounts -> [consent : Consents \cup {None}, name : Members \cup {None},
                            member : Members \cup {None}, fresh : BOOLEAN]]
  /\ closed \subseteq Members /\ over \subseteq Consents /\ calls \in 0..MaxCalls

(* A connection that was taken away, by the seller, by eBay or by the next  *)
(* one, stays away: neither a refresh that was on its way nor a callback    *)
(* that comes twice brings it back.                                         *)
TakenAwayStays == \A a \in Accounts : rows[a].consent \notin over
=============================================================================
