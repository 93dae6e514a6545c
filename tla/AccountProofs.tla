----------------------------- MODULE AccountProofs -----------------------------
(***************************************************************************)
(* Theorems about who may act for a seller, and by which rules: who is     *)
(* signed in here (AccountSessions), what the platform lets us do in the   *)
(* seller's name (PlatformAccount), and which of the settings a reply is   *)
(* checked against (PolicyArming).  The first two say that what was taken  *)
(* away is not brought back, the third that what was replaced is soon      *)
(* gone, for any number of requests in flight when it was.  Then what an   *)
(* account is interested in (Interests), who it follows (Following) and    *)
(* what it is shown (Discovery).                                           *)
(*                                                                         *)
(* Nobody is signed in by what was valid before the last cut.  A row keeps *)
(* nothing of the password it was opened with, and a cut does not see the  *)
(* requests under way; so what is said of a row has to be said of every    *)
(* request that may still open one, from where it read the password or the *)
(* session on.  The gate of the hashes is the other half of that invariant:*)
(* a request moves on when somebody else leaves.                           *)
(***************************************************************************)
EXTENDS AccountSessions, Sequences, FiniteSetTheorems, TLAPS

Row == [kind : {"none", "console", "scoped"}, fresh : BOOLEAN, pw : Nat, began : Nat, spared : BOOLEAN]
PCs == {"idle", "in", "knock", "wait", "verify", "knockAgain", "rehash", "write", "open", "cut"}
Req == [pc : PCs, kind : {"none", "login"} \cup Kinds, holds : Nat, pw : Nat, began : Nat, spared : BOOLEAN]
Waiter == [r : Requests, hash : {"verify", "rehash"}]

Types ==
  /\ password \in 0..MaxChanges /\ cuts \in 0..MaxChanges /\ halfway \in BOOLEAN
  /\ tries \in 0..MaxTries /\ windows \in 0..MaxWindows /\ calls \in 0..MaxCalls
  /\ sessions \in [Tokens -> Row] /\ reqs \in [Requests -> Req]
  /\ active \in Nat /\ waiting \in Seq(Waiter)

(* The gate: who waits is in the queue, once, and only while all slots are  *)
(* used; who hashes is counted.                                             *)
Hashing == {r \in Requests : reqs[r].pc \in {"verify", "rehash"}}

Queued ==
  /\ \A i \in 1..Len(waiting) : reqs[waiting[i].r].pc = "wait"
  /\ \A i, j \in 1..Len(waiting) : waiting[i].r = waiting[j].r => i = j
  /\ \A r \in Requests : reqs[r].pc = "wait" => \E i \in 1..Len(waiting) : waiting[i].r = r

Counted ==
  /\ active = Cardinality(Hashing) /\ active <= Slots
  /\ waiting # <<>> => active = Slots

(* A password is changed, and the other sessions are still to be ended. *)
Cutting == \E r \in Requests : At(r, "change", "cut")

(* What a row is signed in by, or a request will be: begun after the last   *)
(* cut, with the present password - or it is excused.                       *)
Good(pw, began) == halfway \/ (began = cuts /\ (pw = password \/ Cutting))

RowsGood == \A t \in Tokens :
  /\ sessions[t].pw <= password
  /\ t \in InTable => sessions[t].spared \/ Good(sessions[t].pw, sessions[t].began)

ReqsGood == \A r \in Requests : reqs[r].pc # "idle" =>
  /\ reqs[r].pw <= password /\ reqs[r].began <= cuts
  /\ reqs[r].spared \/ reqs[r].began < cuts \/ Good(reqs[r].pw, reqs[r].began)

Inv == Types /\ Queued /\ Counted /\ RowsGood /\ ReqsGood

LEMMA InvInit == SessionsAssumption /\ Init => Inv
<1> SUFFICES ASSUME SessionsAssumption, Init PROVE Inv
  OBVIOUS
<1>1. NoRow \in Row /\ [NoRow EXCEPT !.kind = "console", !.fresh = TRUE] \in Row /\ Idle \in Req
  BY DEF NoRow, Row, Idle, Req, PCs, Kinds
<1>2. Types
  <2>1. waiting \in Seq(Waiter)
    BY DEF Init
  <2>2. sessions \in [Tokens -> Row] /\ reqs \in [Requests -> Req]
    BY <1>1 DEF Init
  <2>3. 0 \in 0..MaxChanges /\ 0 \in 0..MaxTries /\ 0 \in 0..MaxWindows /\ 0 \in 0..MaxCalls
    BY DEF SessionsAssumption
  <2> QED BY <2>1, <2>2, <2>3 DEF Init, Types
<1>3. Hashing = {}
  BY DEF Init, Hashing, Idle
<1>4. Counted
  BY <1>3, FS_EmptySet DEF Init, Counted, SessionsAssumption
<1>5. Queued /\ RowsGood /\ ReqsGood
  BY DEF Init, Queued, RowsGood, ReqsGood, Good, Idle, NoRow, InTable
<1> QED BY <1>2, <1>4, <1>5 DEF Inv

-----------------------------------------------------------------------------
(* What a step leaves of the gate if it moves nobody in or out of it. *)
LEMMA EachWaits ==
  ASSUME waiting \in Seq(Waiter), NEW i \in 1..Len(waiting)
  PROVE  waiting[i].r \in Requests /\ waiting[i].hash \in {"verify", "rehash"}
<1>1. waiting[i] \in Waiter
  OBVIOUS
<1> QED BY <1>1 DEF Waiter

LEMMA GateKept ==
  ASSUME Queued, Counted, active' = active, waiting' = waiting, waiting \in Seq(Waiter),
         \A r \in Requests : \/ reqs'[r].pc = reqs[r].pc
                             \/ {reqs[r].pc, reqs'[r].pc} \cap {"wait", "verify", "rehash"} = {}
  PROVE  Queued' /\ Counted'
<1>1. \A r \in Requests : /\ reqs'[r].pc = "wait" <=> reqs[r].pc = "wait"
                          /\ reqs'[r].pc \in {"verify", "rehash"} <=> reqs[r].pc \in {"verify", "rehash"}
  OBVIOUS
<1>2. Hashing' = Hashing
  BY <1>1 DEF Hashing
<1>3. \A i \in 1..Len(waiting) : waiting[i].r \in Requests
  BY EachWaits
<1> QED BY <1>1, <1>2, <1>3 DEF Queued, Counted

(* The first that waits is not the one that leaves. *)
LEMMA HeadWaits ==
  ASSUME Types, Queued, waiting # <<>>
  PROVE  Head(waiting) \in Waiter /\ reqs[Head(waiting).r].pc = "wait" /\ Head(waiting).r \in Requests
<1>1. 1 \in 1..Len(waiting) /\ Head(waiting) = waiting[1] /\ waiting[1] \in Waiter
  BY DEF Types
<1> QED BY <1>1 DEF Queued, Waiter

(* Leaving the gate: the one that leaves, and the one that is woken. *)
LEMMA LeaveMoves ==
  ASSUME Types, Queued, NEW r \in Requests, NEW next \in Req, Leave(r, next),
         reqs[r].pc \in {"verify", "rehash"}
  PROVE  /\ reqs' \in [Requests -> Req] /\ reqs'[r] = next
         /\ \A q \in Requests \ {r} : \/ reqs'[q] = reqs[q]
                                      \/ /\ waiting # <<>> /\ q = Head(waiting).r /\ reqs[q].pc = "wait"
                                         /\ reqs'[q] = [reqs[q] EXCEPT !.pc = Head(waiting).hash]
<1>1. CASE waiting = <<>>
  BY <1>1 DEF Leave, Types
<1>2. CASE waiting # <<>>
  <2> DEFINE h == Head(waiting)
  <2>1. h \in Waiter /\ h.r \in Requests /\ reqs[h.r].pc = "wait" /\ h.r # r
    BY <1>2, HeadWaits
  <2>2. reqs' = [reqs EXCEPT ![r] = next, ![h.r].pc = h.hash]
    BY <1>2 DEF Leave
  <2>3. [reqs[h.r] EXCEPT !.pc = h.hash] \in Req
    BY <2>1 DEF Types, Req, PCs, Waiter
  <2> HIDE DEF h
  <2> QED BY <1>2, <2>1, <2>2, <2>3 DEF Types, h
<1> QED BY <1>1, <1>2

LEMMA LeaveKeepsGate ==
  ASSUME SessionsAssumption, Types, Queued, Counted, NEW r \in Requests, NEW next \in Req, Leave(r, next),
         reqs[r].pc \in {"verify", "rehash"}, next.pc \notin {"wait", "verify", "rehash"}
  PROVE  Queued' /\ Counted' /\ waiting' \in Seq(Waiter) /\ active' \in Nat
<1>0. /\ reqs' \in [Requests -> Req] /\ reqs'[r] = next
      /\ \A q \in Requests \ {r} : \/ reqs'[q] = reqs[q]
                                   \/ /\ waiting # <<>> /\ q = Head(waiting).r /\ reqs[q].pc = "wait"
                                      /\ reqs'[q] = [reqs[q] EXCEPT !.pc = Head(waiting).hash]
  BY LeaveMoves
<1>f. IsFiniteSet(Hashing) /\ r \in Hashing /\ Cardinality(Hashing) \in Nat
  BY FS_Subset, FS_CardinalityType DEF SessionsAssumption, Hashing
<1>1. CASE waiting = <<>>
  <2>1. Hashing' = Hashing \ {r}
    BY <1>0, <1>1 DEF Hashing
  <2>2. Cardinality(Hashing') = Cardinality(Hashing) - 1
    BY <2>1, <1>f, FS_RemoveElement
  <2>3. active' = active - 1 /\ waiting' = <<>>
    BY <1>1 DEF Leave
  <2>4. Counted' /\ active' \in Nat
    <3>1. Cardinality(Hashing') \in Nat
      BY <2>1, <1>f, FS_RemoveElement, FS_CardinalityType
    <3> QED BY <2>2, <2>3, <3>1 DEF Counted, Types, SessionsAssumption
  <2>5. Queued'
    BY <1>0, <1>1, <2>3 DEF Queued
  <2> QED BY <2>3, <2>4, <2>5
<1>2. CASE waiting # <<>>
  <2> DEFINE h == Head(waiting)
  <2>1. h \in Waiter /\ h.r \in Requests /\ reqs[h.r].pc = "wait" /\ h.r # r
    BY <1>2, HeadWaits
  <2>2. waiting' = Tail(waiting) /\ active' = active /\ reqs' = [reqs EXCEPT ![r] = next, ![h.r].pc = h.hash]
    BY <1>2 DEF Leave
  <2>3. reqs'[h.r].pc = h.hash /\ h.hash \in {"verify", "rehash"}
    BY <2>1, <2>2 DEF Types, Waiter, Req
  <2>4. Hashing' = (Hashing \ {r}) \cup {h.r}
    BY <1>0, <2>1, <2>3 DEF Hashing
  <2>5. h.r \notin Hashing \ {r} /\ IsFiniteSet(Hashing \ {r}) /\ Cardinality(Hashing \ {r}) = Cardinality(Hashing) - 1
    BY <1>f, <2>1, FS_RemoveElement DEF Hashing
  <2>6. Cardinality(Hashing') = Cardinality(Hashing)
    <3>1. Cardinality((Hashing \ {r}) \cup {h.r}) = Cardinality(Hashing \ {r}) + 1
      BY <2>5, FS_AddElement
    <3> QED BY <3>1, <2>4, <2>5, <1>f
  <2>7. Counted'
    BY <1>2, <2>2, <2>6 DEF Counted
  <2>8. /\ Len(waiting') = Len(waiting) - 1 /\ Len(waiting) \in Nat \ {0} /\ h = waiting[1]
        /\ \A i \in 1..Len(waiting') : waiting'[i] = waiting[i + 1] /\ i + 1 \in 1..Len(waiting)
        /\ waiting' \in Seq(Waiter)
    BY <1>2, <2>2 DEF Types
  <2>9. \A i \in 1..Len(waiting') : waiting'[i].r \in Requests \ {h.r, r} /\ reqs'[waiting'[i].r] = reqs[waiting'[i].r]
    <3> TAKE i \in 1..Len(waiting')
    <3>1. waiting'[i] = waiting[i + 1] /\ i + 1 \in 1..Len(waiting) /\ i + 1 # 1
      BY <2>8
    <3>2. waiting[i + 1].r \in Requests /\ reqs[waiting[i + 1].r].pc = "wait"
      BY <3>1, EachWaits DEF Queued, Types
    <3>3. waiting[i + 1].r # waiting[1].r
      BY <3>1, <2>8 DEF Queued
    <3> QED BY <1>0, <3>1, <3>2, <3>3, <2>8
  <2>10. ASSUME NEW q \in Requests, reqs'[q].pc = "wait"
         PROVE  \E i \in 1..Len(waiting') : waiting'[i].r = q
    <3>1. q # r /\ q # h.r /\ reqs[q].pc = "wait"
      BY <1>0, <2>3, <2>10
    <3>2. PICK i \in 1..Len(waiting) : waiting[i].r = q
      BY <3>1 DEF Queued
    <3>3. i # 1 /\ i - 1 \in 1..Len(waiting')
      BY <3>1, <3>2, <2>8
    <3>4. waiting'[i - 1] = waiting[i]
      BY <3>3, <2>8
    <3> QED BY <3>2, <3>3, <3>4
  <2>11. Queued'
    <3>1. \A i \in 1..Len(waiting') : reqs'[waiting'[i].r].pc = "wait"
      BY <2>8, <2>9 DEF Queued
    <3>2. \A i, j \in 1..Len(waiting') : waiting'[i].r = waiting'[j].r => i = j
      <4> TAKE i, j \in 1..Len(waiting')
      <4> HAVE waiting'[i].r = waiting'[j].r
      <4>1. /\ i + 1 \in 1..Len(waiting) /\ j + 1 \in 1..Len(waiting)
            /\ waiting[i + 1].r = waiting[j + 1].r
        BY <2>8
      <4>2. i + 1 = j + 1
        BY <4>1 DEF Queued
      <4> QED BY <4>2
    <3> QED BY <3>1, <3>2, <2>10 DEF Queued
  <2> QED BY <2>2, <2>7, <2>8, <2>11 DEF Types
<1> QED BY <1>1, <1>2

(* Knocking: a slot is taken, a place in the queue, or neither. *)
LEMMA KnockKeepsGate ==
  ASSUME SessionsAssumption, Types, Queued, Counted, NEW r \in Requests, Knock(r)
  PROVE  /\ Queued' /\ Counted' /\ waiting' \in Seq(Waiter) /\ active' \in Nat /\ reqs' \in [Requests -> Req]
         /\ \A q \in Requests \ {r} : reqs'[q] = reqs[q]
         /\ reqs'[r] = Idle \/ \E p \in {"wait", "verify", "rehash"} : reqs'[r] = [reqs[r] EXCEPT !.pc = p]
<1> DEFINE hash == IF reqs[r].pc = "knock" THEN "verify" ELSE "rehash"
<1>h. hash \in {"verify", "rehash"} /\ reqs[r].pc \in {"knock", "knockAgain"} /\ r \notin Hashing
  BY DEF Knock, Hashing
<1>f. IsFiniteSet(Hashing) /\ Cardinality(Hashing) \in Nat
  BY FS_Subset, FS_CardinalityType DEF SessionsAssumption, Hashing
<1>r. [reqs[r] EXCEPT !.pc = "verify"] \in Req /\ [reqs[r] EXCEPT !.pc = "rehash"] \in Req
      /\ [reqs[r] EXCEPT !.pc = "wait"] \in Req /\ Idle \in Req
  BY DEF Types, Req, PCs, Idle, Kinds
<1>1. CASE active < Slots /\ active' = active + 1 /\ Goto(r, hash) /\ UNCHANGED waiting
  <2>0. reqs' = [reqs EXCEPT ![r] = [reqs[r] EXCEPT !.pc = hash]]
    BY <1>1 DEF Goto, Types
  <2>1. /\ reqs' \in [Requests -> Req] /\ reqs'[r] = [reqs[r] EXCEPT !.pc = hash] /\ reqs'[r].pc = hash
        /\ \A q \in Requests \ {r} : reqs'[q] = reqs[q]
    BY <2>0, <1>h, <1>r DEF Types, Req
  <2>2. Hashing' = Hashing \cup {r}
    BY <2>1, <1>h DEF Hashing
  <2>3. Cardinality(Hashing') = Cardinality(Hashing) + 1
    BY <2>2, <1>h, <1>f, FS_AddElement
  <2>4. waiting = <<>>
    BY <1>1 DEF Counted, Types, SessionsAssumption
  <2>5. Counted' /\ active' \in Nat
    BY <1>1, <2>3, <2>4 DEF Counted, Types, SessionsAssumption
  <2>6. Queued'
    <3>1. waiting' = <<>> /\ Len(waiting) = 0
      BY <1>1, <2>4
    <3>2. \A q \in Requests : reqs'[q].pc # "wait"
      <4>1. \A q \in Requests : reqs[q].pc # "wait"
        BY <3>1 DEF Queued
      <4> QED BY <1>h, <2>1, <4>1
    <3> QED BY <2>4, <3>1, <3>2 DEF Queued
  <2> QED BY <1>1, <1>h, <2>1, <2>5, <2>6 DEF Types
<1>2. CASE /\ active >= Slots /\ waiting' = Append(waiting, [r |-> r, hash |-> hash]) /\ Goto(r, "wait")
           /\ UNCHANGED active
  <2>0. reqs' = [reqs EXCEPT ![r] = [reqs[r] EXCEPT !.pc = "wait"]]
    BY <1>2 DEF Goto, Types
  <2>1. /\ reqs' \in [Requests -> Req] /\ reqs'[r] = [reqs[r] EXCEPT !.pc = "wait"] /\ reqs'[r].pc = "wait"
        /\ \A q \in Requests \ {r} : reqs'[q] = reqs[q]
    BY <2>0, <1>r DEF Types, Req
  <2>2. Hashing' = Hashing
    BY <2>1, <1>h DEF Hashing
  <2>3. Counted'
    BY <1>2, <2>2 DEF Counted, Types, SessionsAssumption
  <2> DEFINE new == [r |-> r, hash |-> hash]
  <2>4. new \in Waiter
    BY <1>h DEF Waiter
  <2> HIDE DEF new
  <2>5. /\ waiting' \in Seq(Waiter) /\ Len(waiting') = Len(waiting) + 1 /\ waiting'[Len(waiting) + 1] = new
        /\ \A i \in 1..Len(waiting) : waiting'[i] = waiting[i]
        /\ Len(waiting) \in Nat
    BY <1>2, <2>4 DEF Types, new
  <2>6. \A i \in 1..Len(waiting) : waiting[i].r \in Requests \ {r}
    BY <1>h, EachWaits DEF Queued, Types
  <2>7. new.r = r
    BY DEF new
  <2>8. Queued'
    <3>1. \A i \in 1..Len(waiting') : reqs'[waiting'[i].r].pc = "wait"
      <4> TAKE i \in 1..Len(waiting')
      <4>1. CASE i = Len(waiting) + 1
        BY <4>1, <2>1, <2>5, <2>7
      <4>2. CASE i \in 1..Len(waiting)
        BY <4>2, <2>1, <2>5, <2>6 DEF Queued
      <4> QED BY <4>1, <4>2, <2>5
    <3>2. \A i, j \in 1..Len(waiting') : waiting'[i].r = waiting'[j].r => i = j
      BY <2>5, <2>6, <2>7 DEF Queued
    <3>3. ASSUME NEW q \in Requests, reqs'[q].pc = "wait" PROVE \E i \in 1..Len(waiting') : waiting'[i].r = q
      <4>1. CASE q = r
        BY <4>1, <2>5, <2>7
      <4>2. CASE q # r
        <5>1. PICK i \in 1..Len(waiting) : waiting[i].r = q
          BY <4>2, <3>3, <2>1 DEF Queued
        <5> QED BY <5>1, <2>5
      <4> QED BY <4>1, <4>2
    <3> QED BY <3>1, <3>2, <3>3 DEF Queued
  <2> QED BY <1>2, <2>1, <2>3, <2>5, <2>8 DEF Types
<1>3. CASE Done(r) /\ UNCHANGED <<active, waiting>>
  <2>1. /\ reqs' \in [Requests -> Req] /\ reqs'[r] = Idle
        /\ \A q \in Requests \ {r} : reqs'[q] = reqs[q]
    BY <1>3, <1>r DEF Done, Types
  <2>2. Queued' /\ Counted'
    BY <1>3, <1>h, <2>1, GateKept DEF Idle, Types
  <2> QED BY <1>3, <2>1, <2>2 DEF Types
<1> QED BY <1>1, <1>2, <1>3 DEF Knock

-----------------------------------------------------------------------------
(* The rows a step leaves: the ones there were, fewer or older, and those   *)
(* of a request, excused if it began before the last cut.                   *)
FromRows == \A t \in Tokens :
  \/ sessions'[t] \in {sessions[t], NoRow}
  \/ t \in InTable /\ sessions'[t] = [sessions[t] EXCEPT !.fresh = FALSE]
  \/ \E q \in Requests : /\ reqs[q].pc # "idle"
                         /\ sessions'[t].pw = reqs[q].pw /\ sessions'[t].began = reqs[q].began
                         /\ reqs[q].spared \/ reqs[q].began < cuts => sessions'[t].spared

(* The requests: the ones there were, or ended, or one that begins, with    *)
(* the password as it is or by a session.                                   *)
FromRequests == \A q \in Requests :
  \/ reqs'[q].pc = "idle"
  \/ /\ reqs[q].pc # "idle" /\ reqs'[q].pw = reqs[q].pw /\ reqs'[q].began = reqs[q].began
     /\ reqs'[q].spared = reqs[q].spared
  \/ reqs'[q].pw = password /\ reqs'[q].began = cuts
  \/ \E t \in InTable : /\ reqs'[q].pw = sessions[t].pw /\ reqs'[q].began = cuts
                        /\ reqs'[q].spared = sessions[t].spared

(* As Good is after a step. *)
GoodThen(pw, began) == halfway' \/ (began = cuts' /\ (pw = password' \/ Cutting'))

StillCut == \A q \in Requests : reqs[q].pc = "cut" => reqs'[q] = reqs[q] \/ halfway'

(* Such a step leaves nobody signed in by what is over. *)
LEMMA KeysKept ==
  ASSUME Types, Types', RowsGood, ReqsGood, password' = password, cuts' = cuts, halfway => halfway',
         FromRows, FromRequests, StillCut
  PROVE  RowsGood' /\ ReqsGood'
<1>1. ASSUME NEW p \in Nat, NEW b \in Nat, Good(p, b) PROVE GoodThen(p, b)
  <2>1. Cutting => Cutting' \/ halfway'
    BY DEF Cutting, At, StillCut
  <2>2. CASE halfway
    BY <2>2 DEF GoodThen
  <2>3. CASE b = cuts /\ (p = password \/ Cutting)
    BY <2>1, <2>3 DEF GoodThen
  <2> QED BY <1>1, <2>2, <2>3 DEF Good
<1>2. ASSUME NEW t \in Tokens
      PROVE  sessions'[t].pw <= password' /\ (t \in InTable' => sessions'[t].spared \/ GoodThen(sessions'[t].pw, sessions'[t].began))
  <2>1. sessions[t] \in Row /\ sessions'[t] \in Row
    BY DEF Types
  <2>2. CASE sessions'[t] = NoRow
    BY <2>2 DEF NoRow, InTable, Types
  <2>3. CASE sessions'[t] = sessions[t]
    BY <1>1, <2>1, <2>3 DEF RowsGood, InTable, Row
  <2>4. CASE t \in InTable /\ sessions'[t] = [sessions[t] EXCEPT !.fresh = FALSE]
    <3>1. sessions'[t].pw = sessions[t].pw /\ sessions'[t].began = sessions[t].began /\ sessions'[t].spared = sessions[t].spared
      BY <2>1, <2>4 DEF Row
    <3> QED BY <1>1, <2>1, <2>4, <3>1 DEF RowsGood, Row
  <2>5. ASSUME NEW q \in Requests, reqs[q].pc # "idle",
               sessions'[t].pw = reqs[q].pw, sessions'[t].began = reqs[q].began,
               reqs[q].spared \/ reqs[q].began < cuts => sessions'[t].spared
        PROVE  /\ sessions'[t].pw <= password'
               /\ sessions'[t].spared \/ GoodThen(sessions'[t].pw, sessions'[t].began)
    <3>1. reqs[q].pw \in Nat /\ reqs[q].began \in Nat
      BY DEF Types, Req
    <3> QED BY <1>1, <2>5, <3>1 DEF ReqsGood
  <2> QED BY <2>2, <2>3, <2>4, <2>5 DEF FromRows
<1>3. ASSUME NEW q \in Requests, reqs'[q].pc # "idle"
      PROVE  /\ reqs'[q].pw <= password' /\ reqs'[q].began <= cuts'
             /\ reqs'[q].spared \/ reqs'[q].began < cuts' \/ GoodThen(reqs'[q].pw, reqs'[q].began)
  <2>0. reqs'[q].pw \in Nat /\ reqs'[q].began \in Nat /\ password \in Nat /\ cuts \in Nat
    BY DEF Types, Req
  <2>1. CASE /\ reqs[q].pc # "idle" /\ reqs'[q].pw = reqs[q].pw /\ reqs'[q].began = reqs[q].began
             /\ reqs'[q].spared = reqs[q].spared
    BY <1>1, <2>0, <2>1 DEF ReqsGood
  <2>2. CASE reqs'[q].pw = password /\ reqs'[q].began = cuts
    BY <2>0, <2>2 DEF GoodThen
  <2>3. ASSUME NEW t \in InTable, reqs'[q].pw = sessions[t].pw, reqs'[q].began = cuts,
               reqs'[q].spared = sessions[t].spared
        PROVE  /\ reqs'[q].pw <= password' /\ reqs'[q].began <= cuts'
               /\ reqs'[q].spared \/ reqs'[q].began < cuts' \/ GoodThen(reqs'[q].pw, reqs'[q].began)
    <3>1. t \in Tokens /\ sessions[t] \in Row
      BY DEF Types, InTable
    <3>2. sessions[t].spared \/ Good(sessions[t].pw, cuts)
      BY <3>1 DEF RowsGood, Good, InTable
    <3>3. sessions[t].spared \/ GoodThen(sessions[t].pw, cuts)
      BY <1>1, <2>0, <2>3, <3>2
    <3> QED BY <2>0, <2>3, <3>1, <3>3 DEF RowsGood
  <2> QED BY <1>3, <2>1, <2>2, <2>3 DEF FromRequests
<1> QED BY <1>2, <1>3 DEF RowsGood, ReqsGood, Good, GoodThen

(* Going on, and ending. *)
LEMMA GotoMoves ==
  ASSUME Types, NEW r \in Requests, NEW p \in PCs, Goto(r, p)
  PROVE  /\ reqs' \in [Requests -> Req] /\ reqs'[r] = [reqs[r] EXCEPT !.pc = p] /\ reqs'[r].pc = p
         /\ reqs'[r].pw = reqs[r].pw /\ reqs'[r].began = reqs[r].began /\ reqs'[r].spared = reqs[r].spared
         /\ \A q \in Requests \ {r} : reqs'[q] = reqs[q]
<1>1. reqs' = [reqs EXCEPT ![r] = [reqs[r] EXCEPT !.pc = p]] /\ reqs[r] \in Req
  BY DEF Goto, Types
<1>2. [reqs[r] EXCEPT !.pc = p] \in Req
  BY <1>1 DEF Req
<1> QED BY <1>1, <1>2 DEF Types, Req

LEMMA DoneMoves ==
  ASSUME Types, NEW r \in Requests, Done(r)
  PROVE  reqs' \in [Requests -> Req] /\ reqs'[r] = Idle /\ reqs'[r].pc = "idle" /\ \A q \in Requests \ {r} : reqs'[q] = reqs[q]
<1>1. Idle \in Req
  BY DEF Idle, Req, PCs
<1> QED BY <1>1 DEF Done, Types, Idle

(* Nobody is signed in by a step of the clock. *)
LEMMA TimePasses ==
  ASSUME SessionsAssumption, Inv, WindowRolls \/ Expire \/ Prune
  PROVE  Inv'
<1>1. Queued' /\ Counted'
  BY GateKept DEF Inv, Types, WindowRolls, Expire, Prune
<1>2. NoRow \in Row
  BY DEF NoRow, Row
<1>3. Types' /\ FromRows
  <2>1. CASE WindowRolls
    <3>1. tries' \in 0..MaxTries /\ windows' \in 0..MaxWindows
      BY <2>1 DEF WindowRolls, Inv, Types, SessionsAssumption
    <3> QED BY <2>1, <3>1 DEF WindowRolls, Inv, Types, FromRows
  <2>2. CASE Expire
    <3>1. PICK t \in InTable : sessions' = [sessions EXCEPT ![t].fresh = FALSE]
      BY <2>2 DEF Expire
    <3>2. t \in Tokens /\ sessions[t] \in Row /\ sessions' = [sessions EXCEPT ![t] = [sessions[t] EXCEPT !.fresh = FALSE]]
      BY <3>1 DEF Inv, Types, InTable
    <3>3. [sessions[t] EXCEPT !.fresh = FALSE] \in Row
      BY <3>2 DEF Row
    <3>4. sessions' \in [Tokens -> Row]
      BY <3>2, <3>3 DEF Inv, Types
    <3> QED BY <2>2, <3>2, <3>4 DEF Expire, Inv, Types, FromRows
  <2>3. CASE Prune
    BY <2>3, <1>2 DEF Prune, Inv, Types, FromRows
  <2> QED BY <2>1, <2>2, <2>3
<1>4. FromRequests /\ StillCut /\ password' = password /\ cuts' = cuts /\ halfway' = halfway
  BY DEF FromRequests, StillCut, WindowRolls, Expire, Prune
<1> QED BY <1>1, <1>3, <1>4, KeysKept DEF Inv

(* A request begins. *)
LEMMA Begins ==
  ASSUME SessionsAssumption, Inv, NEW r \in Requests, Login(r) \/ \E kind \in Kinds : Arrive(r, kind)
  PROVE  Inv'
<1>1. PICK new \in Req : /\ reqs' = [reqs EXCEPT ![r] = new] /\ new.pc \in {"knock", "in"} /\ new.began = cuts
                         /\ \/ new.pw = password
                            \/ \E t \in InTable : new.pw = sessions[t].pw /\ new.spared = sessions[t].spared
  <2>1. CASE Login(r)
    <3> DEFINE new == [Idle EXCEPT !.pc = "knock", !.kind = "login", !.pw = password, !.began = cuts]
    <3>0. Idle \in Req /\ password \in Nat /\ cuts \in Nat /\ "knock" \in PCs
      BY DEF Idle, Req, PCs, Inv, Types, SessionsAssumption
    <3>1. new \in Req /\ new.pc = "knock" /\ new.began = cuts /\ new.pw = password
      BY <3>0 DEF Req
    <3>2. reqs' = [reqs EXCEPT ![r] = new]
      BY <2>1 DEF Login
    <3> QED BY <3>1, <3>2
  <2>2. ASSUME NEW kind \in Kinds, NEW t \in InTable,
               reqs' = [reqs EXCEPT ![r] = [pc |-> "in", kind |-> kind, holds |-> t, pw |-> sessions[t].pw,
                                            began |-> cuts, spared |-> sessions[t].spared]]
        PROVE  \E new \in Req : /\ reqs' = [reqs EXCEPT ![r] = new] /\ new.pc \in {"knock", "in"} /\ new.began = cuts
                                /\ \/ new.pw = password
                                   \/ \E u \in InTable : new.pw = sessions[u].pw /\ new.spared = sessions[u].spared
    <3> DEFINE new == [pc |-> "in", kind |-> kind, holds |-> t, pw |-> sessions[t].pw,
                       began |-> cuts, spared |-> sessions[t].spared]
    <3>1. t \in Tokens /\ t \in Nat /\ sessions[t] \in Row /\ cuts \in Nat
      BY DEF Inv, Types, InTable, Tokens
    <3>2. new \in Req
      BY <3>1 DEF Req, PCs, Row
    <3>3. new.pc = "in" /\ new.began = cuts /\ new.pw = sessions[t].pw /\ new.spared = sessions[t].spared
      OBVIOUS
    <3>4. reqs' = [reqs EXCEPT ![r] = new]
      BY <2>2
    <3> HIDE DEF new
    <3> QED BY <3>2, <3>3, <3>4
  <2> QED BY <2>1, <2>2 DEF Arrive
<1>2. /\ UNCHANGED <<password, sessions, active, waiting, windows, cuts, halfway>>
      /\ tries' \in 0..MaxTries /\ calls' \in 0..MaxCalls /\ reqs[r] = Idle
  BY DEF Login, Arrive, Inv, Types, SessionsAssumption
<1>3. Types'
  BY <1>1, <1>2 DEF Inv, Types
<1>4. reqs'[r].pc \in {"knock", "in"} /\ reqs[r].pc = "idle" /\ \A q \in Requests \ {r} : reqs'[q] = reqs[q]
  BY <1>1, <1>2 DEF Inv, Types, Idle
<1>5. Queued' /\ Counted'
  BY <1>2, <1>4, GateKept DEF Inv, Types
<1>6. FromRows
  BY <1>2 DEF FromRows
<1>7. FromRequests
  <2>1. /\ reqs'[r].began = cuts
        /\ \/ reqs'[r].pw = password
           \/ \E t \in InTable : reqs'[r].pw = sessions[t].pw /\ reqs'[r].spared = sessions[t].spared
    BY <1>1 DEF Inv, Types
  <2>2. ASSUME NEW q \in Requests, q # r
        PROVE  \/ reqs'[q].pc = "idle"
               \/ /\ reqs[q].pc # "idle" /\ reqs'[q].pw = reqs[q].pw /\ reqs'[q].began = reqs[q].began
                  /\ reqs'[q].spared = reqs[q].spared
               \/ reqs'[q].pw = password /\ reqs'[q].began = cuts
    <3>1. reqs'[q] = reqs[q] /\ reqs[q] \in Req
      BY <1>4, <2>2 DEF Inv, Types
    <3>2. CASE reqs[q].pc = "idle"
      BY <3>1, <3>2
    <3>3. CASE reqs[q].pc # "idle"
      BY <3>1, <3>3
    <3> QED BY <3>2, <3>3
  <2> QED BY <2>1, <2>2 DEF FromRequests
<1>8. StillCut
  BY <1>4 DEF StillCut
<1> QED BY <1>2, <1>3, <1>5, <1>6, <1>7, <1>8, KeysKept DEF Inv

(* A request comes to the gate, or leaves it. *)
LEMMA AtTheGate ==
  ASSUME SessionsAssumption, Inv, NEW r \in Requests, Knock(r) \/ Verified(r) \/ Rehashed(r)
  PROVE  Inv'
<1>1. UNCHANGED <<password, sessions, tries, windows, calls, cuts, halfway>>
  BY DEF Knock, Verified, Rehashed
<1>2. /\ Queued' /\ Counted' /\ waiting' \in Seq(Waiter) /\ active' \in Nat /\ reqs' \in [Requests -> Req]
      /\ reqs[r].pc \in {"knock", "knockAgain", "verify", "rehash"}
      /\ reqs'[r] = Idle \/ \E p \in PCs : reqs'[r] = [reqs[r] EXCEPT !.pc = p]
      /\ \A q \in Requests \ {r} : \/ reqs'[q] = reqs[q]
                                   \/ reqs[q].pc = "wait" /\ \E p \in PCs : reqs'[q] = [reqs[q] EXCEPT !.pc = p]
  <2>1. CASE Knock(r)
    BY <2>1, KnockKeepsGate DEF Inv, Knock, PCs
  <2>2. ASSUME NEW next \in Req, Leave(r, next), reqs[r].pc \in {"verify", "rehash"},
               next.pc \notin {"wait", "verify", "rehash"},
               next = Idle \/ \E p \in PCs : next = [reqs[r] EXCEPT !.pc = p]
        PROVE  /\ Queued' /\ Counted' /\ waiting' \in Seq(Waiter) /\ active' \in Nat /\ reqs' \in [Requests -> Req]
               /\ reqs[r].pc \in {"knock", "knockAgain", "verify", "rehash"}
               /\ reqs'[r] = Idle \/ \E p \in PCs : reqs'[r] = [reqs[r] EXCEPT !.pc = p]
               /\ \A q \in Requests \ {r} :
                    \/ reqs'[q] = reqs[q]
                    \/ reqs[q].pc = "wait" /\ \E p \in PCs : reqs'[q] = [reqs[q] EXCEPT !.pc = p]
    <3>1. waiting # <<>> => Head(waiting).hash \in PCs
      <4>1. waiting # <<>> => Head(waiting) \in Waiter
        BY HeadWaits DEF Inv
      <4> QED BY <4>1 DEF Waiter, PCs
    <3> QED BY <2>2, <3>1, LeaveMoves, LeaveKeepsGate DEF Inv
  <2>3. CASE Verified(r)
    <3>1. reqs[r] \in Req /\ Idle \in Req
      BY DEF Inv, Types, Idle, Req, PCs
    <3>2. [reqs[r] EXCEPT !.pc = "open"] \in Req /\ [reqs[r] EXCEPT !.pc = "knockAgain"] \in Req
      BY <3>1 DEF Req, PCs
    <3>3. Idle.pc = "idle" /\ [reqs[r] EXCEPT !.pc = "open"].pc = "open" /\ [reqs[r] EXCEPT !.pc = "knockAgain"].pc = "knockAgain"
      BY <3>1 DEF Idle, Req
    <3>4. "open" \in PCs /\ "knockAgain" \in PCs
      BY DEF PCs
    <3>5. CASE Leave(r, Idle)
      BY <2>2, <2>3, <3>1, <3>3, <3>5 DEF Verified
    <3>6. CASE Leave(r, [reqs[r] EXCEPT !.pc = "open"])
      BY <2>2, <2>3, <3>2, <3>3, <3>4, <3>6 DEF Verified
    <3>7. CASE Leave(r, [reqs[r] EXCEPT !.pc = "knockAgain"])
      BY <2>2, <2>3, <3>2, <3>3, <3>4, <3>7 DEF Verified
    <3> QED BY <2>3, <3>5, <3>6, <3>7 DEF Verified
  <2>4. CASE Rehashed(r)
    <3>1. reqs[r] \in Req /\ "write" \in PCs
      BY DEF Inv, Types, PCs
    <3>2. [reqs[r] EXCEPT !.pc = "write"] \in Req /\ [reqs[r] EXCEPT !.pc = "write"].pc = "write"
      BY <3>1 DEF Req
    <3> QED BY <2>2, <2>4, <3>1, <3>2 DEF Rehashed
  <2> QED BY <2>1, <2>3, <2>4
<1>3. Types'
  BY <1>1, <1>2 DEF Inv, Types
<1>4. FromRows
  BY <1>1 DEF FromRows
<1>5. FromRequests
  <2>1. ASSUME NEW q \in Requests, NEW p \in PCs, reqs'[q] = [reqs[q] EXCEPT !.pc = p]
        PROVE  reqs'[q].pw = reqs[q].pw /\ reqs'[q].began = reqs[q].began /\ reqs'[q].spared = reqs[q].spared
    BY <2>1 DEF Inv, Types, Req
  <2>2. \/ reqs'[r].pc = "idle"
        \/ /\ reqs[r].pc # "idle" /\ reqs'[r].pw = reqs[r].pw /\ reqs'[r].began = reqs[r].began
           /\ reqs'[r].spared = reqs[r].spared
    <3>1. reqs[r].pc # "idle" /\ Idle.pc = "idle"
      BY <1>2 DEF Idle
    <3>2. CASE reqs'[r] = Idle
      BY <3>1, <3>2
    <3>3. ASSUME NEW p \in PCs, reqs'[r] = [reqs[r] EXCEPT !.pc = p]
          PROVE  /\ reqs[r].pc # "idle" /\ reqs'[r].pw = reqs[r].pw /\ reqs'[r].began = reqs[r].began
                 /\ reqs'[r].spared = reqs[r].spared
      BY <2>1, <3>1, <3>3
    <3> QED BY <1>2, <3>2, <3>3
  <2>3. ASSUME NEW q \in Requests \ {r}
        PROVE  \/ reqs'[q].pc = "idle"
               \/ /\ reqs[q].pc # "idle" /\ reqs'[q].pw = reqs[q].pw /\ reqs'[q].began = reqs[q].began
                  /\ reqs'[q].spared = reqs[q].spared
    BY <1>2, <2>1
  <2> QED BY <2>2, <2>3 DEF FromRequests
<1>6. StillCut
  BY <1>2 DEF StillCut
<1> QED BY <1>1, <1>2, <1>3, <1>4, <1>5, <1>6, KeysKept DEF Inv

(* A request ends: it has opened a session, or closed its own, or failed.   *)
LEMMA Ends ==
  ASSUME Inv, NEW r \in Requests, Open(r) \/ Mint(r) \/ Logout(r) \/ CutFails(r)
  PROVE  Inv'
<1>1. /\ UNCHANGED <<password, active, waiting, tries, windows, calls, cuts>> /\ Done(r)
      /\ halfway => halfway'
      /\ reqs[r].pc \in {"open", "in", "cut"} /\ (reqs[r].pc = "cut" => halfway')
  BY DEF Open, Mint, Logout, CutFails, At
<1>2. reqs' \in [Requests -> Req] /\ reqs'[r].pc = "idle" /\ \A q \in Requests \ {r} : reqs'[q] = reqs[q]
  BY <1>1, DoneMoves DEF Inv
<1>3. Queued' /\ Counted'
  BY <1>1, <1>2, GateKept DEF Inv, Types
<1>4. NoRow \in Row /\ reqs[r] \in Req
  BY DEF NoRow, Row, Inv, Types
<1>5. sessions' \in [Tokens -> Row] /\ FromRows
  <2>1. ASSUME NEW kind \in {"console", "scoped"}, Insert(r, kind)
        PROVE  sessions' \in [Tokens -> Row] /\ FromRows
    <3> DEFINE new == [kind |-> kind, fresh |-> TRUE, pw |-> reqs[r].pw, began |-> reqs[r].began,
                       spared |-> reqs[r].spared \/ reqs[r].began < cuts]
    <3>1. PICK t \in Tokens : sessions' = [sessions EXCEPT ![t] = new]
      BY <2>1 DEF Insert
    <3>2. reqs[r].pw \in Nat /\ reqs[r].began \in Nat /\ (reqs[r].spared \/ reqs[r].began < cuts) \in BOOLEAN
      BY <1>4 DEF Req
    <3>3. new \in Row
      BY <3>2 DEF Row
    <3>4. /\ new.pw = reqs[r].pw /\ new.began = reqs[r].began
          /\ reqs[r].spared \/ reqs[r].began < cuts => new.spared
      OBVIOUS
    <3> HIDE DEF new
    <3>5. sessions' \in [Tokens -> Row] /\ sessions'[t] = new /\ \A u \in Tokens \ {t} : sessions'[u] = sessions[u]
      BY <3>1, <3>3 DEF Inv, Types
    <3>6. reqs[r].pc # "idle"
      BY <1>1
    <3>7. ASSUME NEW u \in Tokens
          PROVE  \/ sessions'[u] \in {sessions[u], NoRow}
                 \/ \E q \in Requests : /\ reqs[q].pc # "idle"
                                        /\ sessions'[u].pw = reqs[q].pw /\ sessions'[u].began = reqs[q].began
                                        /\ reqs[q].spared \/ reqs[q].began < cuts => sessions'[u].spared
      <4>1. CASE u = t
        BY <3>4, <3>5, <3>6, <4>1
      <4>2. CASE u # t
        BY <3>5, <4>2
      <4> QED BY <4>1, <4>2
    <3> QED BY <3>5, <3>7 DEF FromRows
  <2>2. CASE Logout(r)
    <3>1. sessions' = [sessions EXCEPT ![reqs[r].holds] = NoRow]
      BY <2>2 DEF Logout
    <3>2. sessions' \in [Tokens -> Row] /\ \A t \in Tokens : sessions'[t] \in {sessions[t], NoRow}
      BY <3>1, <1>4 DEF Inv, Types
    <3> QED BY <3>2 DEF FromRows
  <2>3. CASE CutFails(r)
    BY <2>3 DEF CutFails, Inv, Types, FromRows
  <2> QED BY <2>1, <2>2, <2>3 DEF Open, Mint
<1>6. Types'
  <2>1. halfway' \in BOOLEAN
    BY DEF Inv, Types, Open, Mint, Logout, CutFails
  <2> QED BY <1>1, <1>2, <1>5, <2>1 DEF Inv, Types
<1>7. FromRequests
  <2>1. ASSUME NEW q \in Requests \ {r}
        PROVE  \/ reqs'[q].pc = "idle"
               \/ /\ reqs[q].pc # "idle" /\ reqs'[q].pw = reqs[q].pw /\ reqs'[q].began = reqs[q].began
                  /\ reqs'[q].spared = reqs[q].spared
    BY <1>2
  <2> QED BY <1>2, <2>1 DEF FromRequests
<1>8. StillCut
  BY <1>1, <1>2 DEF StillCut
<1>9. halfway => halfway'
  BY <1>1
<1> QED BY <1>1, <1>3, <1>5, <1>6, <1>7, <1>8, <1>9, KeysKept DEF Inv

(* A password change has read the hash, and then it has written another:    *)
(* what is signed in by the old one is to be cut.                           *)
LEMMA ReadsHash ==
  ASSUME Inv, NEW r \in Requests, ReadHash(r)
  PROVE  Inv'
<1>1. /\ UNCHANGED <<password, sessions, active, waiting, tries, windows, calls, cuts, halfway>>
      /\ Goto(r, "knock") /\ reqs[r].pc = "in" /\ "knock" \in PCs
  BY DEF ReadHash, At, PCs
<1>2. /\ reqs' \in [Requests -> Req] /\ reqs'[r].pc = "knock"
      /\ reqs'[r].pw = reqs[r].pw /\ reqs'[r].began = reqs[r].began /\ reqs'[r].spared = reqs[r].spared
      /\ \A q \in Requests \ {r} : reqs'[q] = reqs[q]
  BY <1>1, GotoMoves DEF Inv
<1>3. Queued' /\ Counted'
  BY <1>1, <1>2, GateKept DEF Inv, Types
<1>4. Types'
  BY <1>1, <1>2 DEF Inv, Types
<1>5. FromRows
  BY <1>1 DEF FromRows
<1>6. FromRequests
  <2>1. ASSUME NEW q \in Requests
        PROVE  \/ reqs'[q].pc = "idle"
               \/ /\ reqs[q].pc # "idle" /\ reqs'[q].pw = reqs[q].pw /\ reqs'[q].began = reqs[q].began
                  /\ reqs'[q].spared = reqs[q].spared
    BY <1>1, <1>2
  <2> QED BY <2>1 DEF FromRequests
<1>7. StillCut
  BY <1>1, <1>2 DEF StillCut
<1> QED BY <1>1, <1>3, <1>4, <1>5, <1>6, <1>7, KeysKept DEF Inv

LEMMA Writes ==
  ASSUME SessionsAssumption, Inv, NEW r \in Requests, Write(r)
  PROVE  Inv'
<1>1. /\ UNCHANGED <<sessions, active, waiting, tries, windows, calls, cuts, halfway>>
      /\ Goto(r, "cut") /\ reqs[r].pc = "write" /\ reqs[r].kind = "change" /\ "cut" \in PCs
      /\ password' = password + 1 /\ password' \in 0..MaxChanges
  BY DEF Write, At, PCs, Inv, Types, SessionsAssumption
<1>2. /\ reqs' \in [Requests -> Req] /\ reqs'[r].pc = "cut" /\ reqs'[r] = [reqs[r] EXCEPT !.pc = "cut"]
      /\ reqs'[r].pw = reqs[r].pw /\ reqs'[r].began = reqs[r].began /\ reqs'[r].spared = reqs[r].spared
      /\ \A q \in Requests \ {r} : reqs'[q] = reqs[q]
  BY <1>1, GotoMoves DEF Inv
<1>3. Queued' /\ Counted'
  BY <1>1, <1>2, GateKept DEF Inv, Types
<1>4. Types'
  BY <1>1, <1>2 DEF Inv, Types
<1>5. Cutting'
  <2>1. reqs'[r].kind = "change"
    BY <1>1, <1>2 DEF Inv, Types, Req
  <2> QED BY <1>2, <2>1 DEF Cutting, At
<1>6. ASSUME NEW p \in Nat, NEW b \in Nat, Good(p, b) PROVE GoodThen(p, b)
  BY <1>1, <1>5, <1>6 DEF Good, GoodThen
<1>7. RowsGood'
  <2> SUFFICES ASSUME NEW t \in Tokens
               PROVE  /\ sessions[t].pw <= password'
                      /\ t \in InTable => sessions[t].spared \/ GoodThen(sessions[t].pw, sessions[t].began)
    BY <1>1 DEF RowsGood, Good, GoodThen, InTable
  <2>1. sessions[t].pw \in Nat /\ sessions[t].began \in Nat /\ password \in Nat
    BY DEF Inv, Types, Row
  <2> QED BY <1>1, <1>6, <2>1 DEF Inv, RowsGood
<1>8. ReqsGood'
  <2> SUFFICES ASSUME NEW q \in Requests, reqs'[q].pc # "idle"
               PROVE  /\ reqs'[q].pw <= password' /\ reqs'[q].began <= cuts
                      /\ reqs'[q].spared \/ reqs'[q].began < cuts \/ GoodThen(reqs'[q].pw, reqs'[q].began)
    BY <1>1 DEF ReqsGood, Good, GoodThen
  <2>1. reqs[q].pw \in Nat /\ reqs[q].began \in Nat /\ password \in Nat
    BY DEF Inv, Types, Req
  <2>2. reqs[q].pc # "idle" /\ reqs'[q].pw = reqs[q].pw /\ reqs'[q].began = reqs[q].began /\ reqs'[q].spared = reqs[q].spared
    BY <1>1, <1>2
  <2> QED BY <1>1, <1>6, <2>1, <2>2 DEF Inv, ReqsGood
<1> QED BY <1>3, <1>4, <1>7, <1>8 DEF Inv

(* The sessions are ended: who is left has the password as it is, and every *)
(* request there is began before.                                           *)
LEMMA Cuts ==
  ASSUME SessionsAssumption, Inv, NEW r \in Requests, LogoutAll(r) \/ Cut(r)
  PROVE  Inv'
<1>1. PICK kept : EndAll(kept)
  BY DEF LogoutAll, Cut
<1>2. UNCHANGED <<password, active, waiting, tries, windows, calls>> /\ Done(r) /\ reqs[r].pc \in {"in", "cut"}
  BY DEF LogoutAll, Cut, At
<1>3. reqs' \in [Requests -> Req] /\ reqs'[r].pc = "idle" /\ \A q \in Requests \ {r} : reqs'[q] = reqs[q]
  BY <1>2, DoneMoves DEF Inv
<1>4. Queued' /\ Counted'
  BY <1>2, <1>3, GateKept DEF Inv, Types
<1>5. cuts' = cuts + 1 /\ cuts' \in 0..MaxChanges /\ halfway' = FALSE /\ cuts \in Nat /\ password \in Nat
  <2>1. cuts < MaxChanges /\ cuts' = cuts + 1 /\ halfway' = FALSE
    BY <1>1 DEF EndAll
  <2> QED BY <2>1 DEF Inv, Types, SessionsAssumption
<1>6. ASSUME NEW t \in Tokens
      PROVE  /\ sessions'[t] \in Row /\ sessions'[t].pw <= password
             /\ sessions'[t].kind # "none" => sessions'[t].pw = password /\ sessions'[t].began = cuts'
  <2>0. sessions[t] \in Row
    BY DEF Inv, Types
  <2>1. sessions'[t] = IF t \in kept /\ t \in InTable
                       THEN [sessions[t] EXCEPT !.pw = password, !.began = cuts'] ELSE NoRow
    BY <1>1 DEF EndAll, Inv, Types
  <2>2. CASE sessions'[t] = [sessions[t] EXCEPT !.pw = password, !.began = cuts']
    <3>1. [sessions[t] EXCEPT !.pw = password, !.began = cuts'] \in Row
      <4>1. \A keyed \in Row, p \in Nat, b \in Nat : [keyed EXCEPT !.pw = p, !.began = b] \in Row
        BY DEF Row
      <4>2. cuts' \in Nat
        BY <1>5
      <4> QED BY <1>5, <2>0, <4>1, <4>2
    <3>2. sessions'[t].pw = password /\ sessions'[t].began = cuts'
      BY <2>0, <2>2 DEF Row
    <3> QED BY <1>5, <2>2, <3>1, <3>2
  <2>3. CASE sessions'[t] = NoRow
    BY <1>5, <2>3 DEF NoRow, Row
  <2> QED BY <2>1, <2>2, <2>3
<1>7. sessions' \in [Tokens -> Row]
  <2>1. sessions' = [t \in Tokens |-> sessions'[t]]
    BY <1>1 DEF EndAll
  <2> QED BY <1>6, <2>1
<1>8. Types'
  BY <1>2, <1>3, <1>5, <1>7 DEF Inv, Types
<1>9. RowsGood'
  BY <1>2, <1>6 DEF RowsGood, Good, InTable
<1>10. ReqsGood'
  <2> SUFFICES ASSUME NEW q \in Requests, reqs'[q].pc # "idle"
               PROVE  reqs'[q].pw <= password /\ reqs'[q].began < cuts'
    BY <1>2, <1>5, <1>8 DEF ReqsGood, Types, Req
  <2>1. reqs'[q] = reqs[q] /\ reqs[q].began \in Nat
    BY <1>3 DEF Inv, Types, Req
  <2> QED BY <1>5, <2>1 DEF Inv, ReqsGood
<1> QED BY <1>4, <1>8, <1>9, <1>10 DEF Inv

LEMMA InvKept == ASSUME SessionsAssumption, Inv, [Next]_vars PROVE Inv'
<1>1. ASSUME NEW r \in Requests, Login(r) \/ \E kind \in Kinds : Arrive(r, kind) PROVE Inv'
  BY <1>1, Begins
<1>2. CASE UNCHANGED vars
  BY <1>2 DEF vars, Inv, Types, Queued, Counted, Hashing, RowsGood, ReqsGood, Good, Cutting, At, InTable
<1> QED BY <1>1, <1>2, TimePasses, AtTheGate, Ends, ReadsHash, Writes, Cuts DEF Next

(* Whoever signs in, out, everywhere and with another password, and in     *)
(* whatever order, everything keeps its type.                               *)
THEOREM SessionsTypeCorrect == SessionsAssumption => (Spec => []TypeOK)
<1> SUFFICES ASSUME SessionsAssumption PROVE Spec => []TypeOK OBVIOUS
<1>1. Inv /\ [Next]_vars => Inv' BY InvKept
<1>2. Inv => TypeOK BY DEF Inv, Types, RowsGood, TypeOK, Row, Req, PCs
<1> QED BY InvInit, <1>1, <1>2, PTL DEF Spec

(* For any number of sessions, requests, changes and cuts in any order:     *)
(* nobody is signed in by what was valid before the last cut, but whom the  *)
(* cut spares or could not see.                                             *)
THEOREM OldKeysDie == SessionsAssumption => (Spec => []OldKeysAreDead)
<1> SUFFICES ASSUME SessionsAssumption PROVE Spec => []OldKeysAreDead OBVIOUS
<1>1. Inv /\ [Next]_vars => Inv' BY InvKept
<1>2. Inv => OldKeysAreDead BY DEF Inv, RowsGood, Good, Cutting, OldKeysAreDead, InTable
<1> QED BY InvInit, <1>1, <1>2, PTL DEF Spec

(* For any number of slots, places and requests, the gate counts the hashes *)
(* that are being made, and who waits is in its queue.                      *)
THEOREM GateCounts == SessionsAssumption => (Spec => []HashesAreCounted)
<1> SUFFICES ASSUME SessionsAssumption PROVE Spec => []HashesAreCounted OBVIOUS
<1>1. Inv /\ [Next]_vars => Inv' BY InvKept
<1>2. ASSUME Inv PROVE HashesAreCounted
  <2>1. {r \in Requests : reqs[r].pc = "wait"} \subseteq {waiting[i].r : i \in 1..Len(waiting)}
    BY <1>2 DEF Inv, Queued
  <2>2. {waiting[i].r : i \in 1..Len(waiting)} \subseteq {r \in Requests : reqs[r].pc = "wait"}
    BY <1>2, EachWaits DEF Inv, Types, Queued
  <2> QED BY <1>2, <2>1, <2>2 DEF Inv, Counted, Hashing, HashesAreCounted
<1> QED BY InvInit, <1>1, <1>2, PTL DEF Spec

-----------------------------------------------------------------------------
(***************************************************************************)
(* A seller's connection to a platform.  A consent is spent once, by       *)
(* deleting its state as it is read; so no two rows, callbacks or ended    *)
(* connections share one, and a row whose consent is over would have had   *)
(* to get it a second time.                                                *)
(***************************************************************************)
CONSTANTS Accounts, Members, Consents, Handlers, MaxTokenCalls

VARIABLES states, rows, asks, closed, over, tokenCalls

Platform == INSTANCE PlatformAccount WITH
  reqs <- asks, calls <- tokenCalls, Requests <- Handlers, MaxCalls <- MaxTokenCalls

Asked == [kind : {"idle", "complete", "refresh"}, pc : {"exchange", "store", "call", Platform!None},
            seller : Accounts \cup {Platform!None}, consent : Consents \cup {Platform!None},
            member : Members \cup {Platform!None}, name : Members \cup {Platform!None}]

ConnectionTypes == Platform!TypeOK /\ asks \in [Handlers -> Asked]

Working(r) ==
  /\ asks[r].kind # "idle" => asks[r].seller \in Accounts
  /\ asks[r].kind = "complete" => asks[r].consent \in Consents

(* The consents that have been spent: by a row, by a callback under way, or *)
(* by a connection that is over.  Completing takes the state away, so none  *)
(* of them can be started from again, and none is spent twice.              *)
Carries(r) == asks[r].kind = "complete"

Spent ==
  /\ \A r \in Handlers : Working(r) /\ (Carries(r) => states[asks[r].consent] = "gone")
  /\ \A a \in Accounts : rows[a].consent # Platform!None => states[rows[a].consent] = "gone"
  /\ \A c \in over : states[c] = "gone"

OnlyOnce ==
  /\ \A a \in Accounts, b \in Accounts :
       rows[a].consent # Platform!None /\ rows[a].consent = rows[b].consent => a = b
  /\ \A r \in Handlers, q \in Handlers :
       Carries(r) /\ Carries(q) /\ asks[r].consent = asks[q].consent => r = q
  /\ \A r \in Handlers, a \in Accounts : Carries(r) => asks[r].consent # rows[a].consent
  /\ \A r \in Handlers : Carries(r) => asks[r].consent \notin over

ConnectionInv == ConnectionTypes /\ Spent /\ OnlyOnce /\ Platform!TakenAwayStays

Connection == [consent : Consents \cup {Platform!None}, name : Members \cup {Platform!None},
               member : Members \cup {Platform!None}, fresh : BOOLEAN]

(* A row whose token changes is a row, of the same consent. *)
LEMMA TokenChanges ==
  ASSUME NEW row \in Connection, NEW fresh \in BOOLEAN
  PROVE  /\ [row EXCEPT !.fresh = fresh] \in Connection /\ [row EXCEPT !.fresh = fresh].consent = row.consent
         /\ \A m \in Members \cup {Platform!None} :
              LET new == [row EXCEPT !.fresh = fresh, !.member = m] IN new \in Connection /\ new.consent = row.consent
  BY DEF Connection

(* Nobody is connected yet. *)
LEMMA ConnectionInit == Platform!AccountAssumption /\ Platform!Init => ConnectionInv
  BY DEF Platform!AccountAssumption, Platform!Init, ConnectionInv, ConnectionTypes, Platform!TypeOK, Spent,
     OnlyOnce, Platform!TakenAwayStays, Working, Carries, Platform!NoRow, Platform!Idle,
         Asked, Platform!None

(* A step that leaves the consents of rows and requests alone, and takes no *)
(* consent back, keeps what is said of them.                                *)
LEMMA ConsentsKept ==
  ASSUME ConnectionInv, ConnectionTypes', UNCHANGED over,
         \A c \in Consents : states[c] = "gone" => states'[c] = "gone",
         \A a \in Accounts : rows'[a].consent = rows[a].consent,
         \A r \in Handlers : \/ asks'[r].kind = "idle"
                             \/ asks'[r].kind = "refresh" /\ asks'[r].seller \in Accounts
                             \/ /\ asks'[r].kind = asks[r].kind /\ asks'[r].seller = asks[r].seller
                                /\ asks'[r].consent = asks[r].consent
  PROVE  ConnectionInv'
<1>1. \A r \in Handlers : Carries(r)' => Carries(r) /\ asks'[r].consent = asks[r].consent
  BY DEF Carries
<1>2. Spent'
  <2>1. \A r \in Handlers : Working(r)' /\ (Carries(r)' => states'[asks'[r].consent] = "gone")
    BY <1>1 DEF ConnectionInv, ConnectionTypes, Asked, Spent, Working, Carries
  <2>2. \A a \in Accounts : rows'[a].consent # Platform!None => states'[rows'[a].consent] = "gone"
    BY DEF ConnectionInv, ConnectionTypes, Platform!TypeOK, Spent
  <2>3. \A c \in over' : states'[c] = "gone"
    BY DEF ConnectionInv, ConnectionTypes, Platform!TypeOK, Spent
  <2> QED BY <2>1, <2>2, <2>3 DEF Spent
<1>3. OnlyOnce' /\ Platform!TakenAwayStays'
  BY <1>1 DEF ConnectionInv, OnlyOnce, Platform!TakenAwayStays
<1> QED BY <1>2, <1>3 DEF ConnectionInv

(* Whatever takes connections away - the seller, the notice - takes their   *)
(* consents out of the rows as it puts them among those that are over.      *)
LEMMA TakeAwayKeeps ==
  ASSUME ConnectionInv, Platform!AccountAssumption, NEW S \in SUBSET Accounts, Platform!TakeAway(S),
         UNCHANGED <<states, asks, tokenCalls>>, closed' \subseteq Members
  PROVE  ConnectionInv'
<1>1. \A a \in Accounts : rows'[a] = IF a \in S THEN Platform!NoRow ELSE rows[a]
  BY DEF Platform!TakeAway
<1>2. over' = over \cup ({rows[a].consent : a \in S} \ {Platform!None})
  BY DEF Platform!TakeAway
<1>3. \A c \in over' : c \in over \/ \E a \in S : c = rows[a].consent /\ c # Platform!None
  BY <1>2
<1>4. ConnectionTypes'
  <2>1. over' \subseteq Consents
    BY <1>3 DEF ConnectionInv, ConnectionTypes, Platform!TypeOK
  <2>2. rows' \in [Accounts -> [consent : Consents \cup {Platform!None}, name : Members \cup {Platform!None},
                                member : Members \cup {Platform!None}, fresh : BOOLEAN]]
    BY DEF Platform!TakeAway, ConnectionInv, ConnectionTypes, Platform!TypeOK, Platform!NoRow
  <2> QED BY <2>1, <2>2 DEF ConnectionInv, ConnectionTypes, Platform!TypeOK
<1>5. Spent'
  <2>1. \A c \in over' : states'[c] = "gone"
    BY <1>3 DEF ConnectionInv, Spent
  <2> QED BY <2>1, <1>1 DEF ConnectionInv, Spent, Platform!NoRow, Working, Carries
<1>6. OnlyOnce'
  <2>1. \A r \in Handlers : Carries(r) => asks[r].consent # Platform!None
    BY DEF ConnectionInv, Spent, Working, Carries, Platform!AccountAssumption
  <2>2. \A r \in Handlers, a \in Accounts : Carries(r)' => asks'[r].consent # rows'[a].consent
    BY <2>1, <1>1 DEF ConnectionInv, OnlyOnce, Carries, Platform!NoRow
  <2>3. \A r \in Handlers : Carries(r)' => asks'[r].consent \notin over'
    BY <1>3 DEF ConnectionInv, OnlyOnce, Carries
  <2>4. \A a \in Accounts, b \in Accounts :
          rows'[a].consent # Platform!None /\ rows'[a].consent = rows'[b].consent => a = b
    BY <1>1 DEF ConnectionInv, OnlyOnce, Platform!NoRow
  <2>5. \A r \in Handlers, q \in Handlers :
          Carries(r)' /\ Carries(q)' /\ asks'[r].consent = asks'[q].consent => r = q
    BY DEF ConnectionInv, OnlyOnce, Carries
  <2> QED BY <2>2, <2>3, <2>4, <2>5 DEF OnlyOnce
<1>7. Platform!TakenAwayStays'
  <2> SUFFICES ASSUME NEW a \in Accounts PROVE rows'[a].consent \notin over'
    BY DEF Platform!TakenAwayStays
  <2>1. CASE a \in S
    BY <2>1, <1>1, <1>4 DEF Platform!NoRow, Platform!AccountAssumption, ConnectionTypes, Platform!TypeOK
  <2>2. CASE a \notin S
    BY <2>2, <1>1, <1>3 DEF ConnectionInv, OnlyOnce, Platform!TakenAwayStays
  <2> QED BY <2>1, <2>2
<1> QED BY <1>4, <1>5, <1>6, <1>7 DEF ConnectionInv

(* A callback spends a consent nobody has spent. *)
LEMMA CompleteKeeps ==
  ASSUME ConnectionInv, Platform!AccountAssumption,
         NEW r \in Handlers, Platform!Complete(r)
  PROVE  ConnectionInv'
<1> PICK c \in Consents, m \in Members \ closed :
      /\ asks[r] = Platform!Idle /\ states[c] \in Accounts
      /\ states' = [states EXCEPT ![c] = "gone"]
      /\ asks' = [asks EXCEPT ![r] = [kind |-> "complete", pc |-> "exchange", seller |-> states[c],
                                      consent |-> c, member |-> m, name |-> Platform!None]]
      /\ UNCHANGED <<rows, closed, over, tokenCalls>>
  BY DEF Platform!Complete
<1>1. states[c] # "gone"
  BY DEF Platform!AccountAssumption
<1>2. ConnectionTypes'
  BY DEF ConnectionInv, ConnectionTypes, Platform!TypeOK, Asked
<1>3. \A q \in Handlers : q # r => asks'[q] = asks[q]
  BY DEF ConnectionInv, ConnectionTypes
<1>4. asks'[r].kind = "complete" /\ asks'[r].consent = c /\ asks'[r].seller = states[c]
  BY DEF ConnectionInv, ConnectionTypes
<1>5. \A d \in Consents : states[d] = "gone" => states'[d] = "gone" /\ d # c
  BY <1>1 DEF ConnectionInv, ConnectionTypes, Platform!TypeOK
<1>6. states'[c] = "gone"
  BY DEF ConnectionInv, ConnectionTypes, Platform!TypeOK
<1>7. Spent'
  <2>1. \A q \in Handlers : Working(q)' /\ (Carries(q)' => states'[asks'[q].consent] = "gone")
    BY <1>3, <1>4, <1>5, <1>6 DEF ConnectionInv, Spent, Working, Carries
  <2>2. \A a \in Accounts : rows'[a].consent # Platform!None => states'[rows'[a].consent] = "gone"
    BY <1>5 DEF ConnectionInv, ConnectionTypes, Platform!TypeOK, Spent
  <2>3. \A d \in over' : states'[d] = "gone"
    BY <1>5 DEF ConnectionInv, ConnectionTypes, Platform!TypeOK, Spent
  <2> QED BY <2>1, <2>2, <2>3 DEF Spent
<1>8. OnlyOnce'
  <2>1. \A q \in Handlers : Carries(q) => asks[q].consent # c
    BY <1>1 DEF ConnectionInv, Spent
  <2>2. c \notin over /\ \A a \in Accounts : rows[a].consent # c
    BY <1>1 DEF ConnectionInv, Spent, Platform!AccountAssumption
  <2> QED BY <2>1, <2>2, <1>3, <1>4 DEF ConnectionInv, OnlyOnce, Carries
<1>9. Platform!TakenAwayStays'
  BY DEF ConnectionInv, Platform!TakenAwayStays
<1> QED BY <1>2, <1>7, <1>8, <1>9 DEF ConnectionInv

(* The upsert of a callback: the row's old consent is over, its new one is  *)
(* nobody else's.                                                           *)
LEMMA StoreKeeps ==
  ASSUME ConnectionInv, Platform!AccountAssumption,
         NEW r \in Handlers, Platform!Store(r)
  PROVE  ConnectionInv'
<1> DEFINE a == asks[r].seller
           c == asks[r].consent
<1>1. Carries(r) /\ a \in Accounts /\ c \in Consents /\ states[c] = "gone"
  BY DEF Platform!Store, Platform!At, ConnectionInv, Spent, Working, Carries
<1>2. rows'[a].consent = c /\ \A b \in Accounts : b # a => rows'[b] = rows[b]
  BY <1>1 DEF Platform!Store, ConnectionInv, ConnectionTypes, Platform!TypeOK
<1>3. over' = over \cup ({rows[a].consent} \ {Platform!None})
  BY DEF Platform!Store
<1>4. asks'[r].kind = "idle" /\ \A q \in Handlers : q # r => asks'[q] = asks[q]
  BY DEF Platform!Store, Platform!Done, Platform!Idle, ConnectionInv, ConnectionTypes
<1>5. ConnectionTypes'
  <2>1. asks' \in [Handlers -> Asked]
    BY DEF Platform!Store, Platform!Done, Platform!Idle, ConnectionInv, ConnectionTypes, Asked
  <2>2. asks[r] \in Asked
    BY DEF ConnectionInv, ConnectionTypes
  <2>3. rows' \in [Accounts -> [consent : Consents \cup {Platform!None}, name : Members \cup {Platform!None},
                                member : Members \cup {Platform!None}, fresh : BOOLEAN]]
    BY <1>1, <2>2 DEF Platform!Store, ConnectionInv, ConnectionTypes, Platform!TypeOK, Asked
  <2>4. over' \subseteq Consents
    BY <1>1, <1>3 DEF ConnectionInv, ConnectionTypes, Platform!TypeOK
  <2> QED BY <2>1, <2>3, <2>4 DEF Platform!Store, ConnectionInv, ConnectionTypes, Platform!TypeOK
<1>6. states' = states
  BY DEF Platform!Store
<1>7. c # Platform!None /\ c \notin over /\ \A b \in Accounts : rows[b].consent # c
  BY <1>1 DEF ConnectionInv, OnlyOnce, Platform!AccountAssumption
<1>8. Spent'
  BY <1>1, <1>2, <1>3, <1>4, <1>6 DEF ConnectionInv, Spent, Working, Carries
<1>9. OnlyOnce'
  <2>1. \A q \in Handlers : Carries(q)' => q # r /\ Carries(q) /\ asks'[q] = asks[q] /\ asks[q].consent # c
    BY <1>1, <1>4 DEF Carries, ConnectionInv, OnlyOnce
  <2>2. \A q \in Handlers, b \in Accounts : Carries(q)' => asks'[q].consent # rows'[b].consent
    BY <2>1, <1>2 DEF ConnectionInv, OnlyOnce
  <2>3. \A q \in Handlers : Carries(q)' => asks'[q].consent \notin over'
    BY <2>1, <1>1, <1>3 DEF ConnectionInv, OnlyOnce
  <2>4. \A b \in Accounts, d \in Accounts :
          rows'[b].consent # Platform!None /\ rows'[b].consent = rows'[d].consent => b = d
    BY <1>2, <1>7 DEF ConnectionInv, OnlyOnce
  <2>5. \A q \in Handlers, p \in Handlers :
          Carries(q)' /\ Carries(p)' /\ asks'[q].consent = asks'[p].consent => q = p
    BY <2>1 DEF ConnectionInv, OnlyOnce
  <2> QED BY <2>2, <2>3, <2>4, <2>5 DEF OnlyOnce
<1>10. Platform!TakenAwayStays'
  <2> SUFFICES ASSUME NEW b \in Accounts PROVE rows'[b].consent \notin over'
    BY DEF Platform!TakenAwayStays
  <2>1. CASE b = a
    BY <2>1, <1>2, <1>3, <1>7, <1>1
  <2>2. CASE b # a
    BY <2>2, <1>1, <1>2, <1>3 DEF ConnectionInv, OnlyOnce, Platform!TakenAwayStays
  <2> QED BY <2>1, <2>2
<1> QED BY <1>5, <1>8, <1>9, <1>10 DEF ConnectionInv

(* The steps that spend no consent and take none away.  StoreToken is one:  *)
(* it writes into the row that is there by then, or into none.              *)
LEMMA OthersKeep ==
  ASSUME ConnectionInv, Platform!AccountAssumption,
         \/ \E a \in Accounts : Platform!Begin(a)
         \/ Platform!Expire \/ Platform!AccessExpires
         \/ \E r \in Handlers : Platform!Exchange(r) \/ Platform!UserToken(r) \/ Platform!Refresh(r) \/ Platform!StoreToken(r)
  PROVE  ConnectionInv'
<1>1. ASSUME NEW a \in Accounts, Platform!Begin(a) PROVE ConnectionInv'
  <2>1. ConnectionTypes' /\ \A c \in Consents : states[c] = "gone" => states'[c] = "gone"
    BY <1>1 DEF Platform!Begin, ConnectionInv, ConnectionTypes, Platform!TypeOK
  <2> QED BY <2>1, <1>1, ConsentsKept DEF Platform!Begin
<1>2. CASE Platform!Expire
  <2>1. ConnectionTypes' /\ \A c \in Consents : states[c] = "gone" => states'[c] = "gone"
    BY <1>2 DEF Platform!Expire, ConnectionInv, ConnectionTypes, Platform!TypeOK
  <2> QED BY <2>1, <1>2, ConsentsKept DEF Platform!Expire
<1>3. CASE Platform!AccessExpires
  <2> PICK a \in Accounts : rows' = [rows EXCEPT ![a].fresh = FALSE] /\ UNCHANGED <<states, asks, closed, over, tokenCalls>>
    BY <1>3 DEF Platform!AccessExpires
  <2>1. rows \in [Accounts -> Connection]
    BY DEF ConnectionInv, ConnectionTypes, Platform!TypeOK, Connection
  <2>2. rows' = [rows EXCEPT ![a] = [rows[a] EXCEPT !.fresh = FALSE]]
    OBVIOUS
  <2>3. rows' \in [Accounts -> Connection] /\ \A b \in Accounts : rows'[b].consent = rows[b].consent
    BY <2>1, <2>2, FALSE \in BOOLEAN, TokenChanges
  <2>4. ConnectionTypes'
    BY <2>3 DEF ConnectionInv, ConnectionTypes, Platform!TypeOK, Connection
  <2> QED BY <2>3, <2>4, ConsentsKept
<1>4. ASSUME NEW r \in Handlers, Platform!Exchange(r) \/ Platform!Refresh(r) PROVE ConnectionInv'
  <2>1. asks[r] \in Asked
    BY DEF ConnectionInv, ConnectionTypes
  <2>2. ConnectionTypes'
    BY <1>4, <2>1 DEF Platform!Exchange, Platform!Refresh, Platform!Done, Platform!Idle, ConnectionInv,
       ConnectionTypes, Platform!TypeOK, Asked
  <2>3. \A q \in Handlers : \/ asks'[q].kind = "idle"
                            \/ /\ asks'[q].kind = asks[q].kind /\ asks'[q].seller = asks[q].seller
                               /\ asks'[q].consent = asks[q].consent
    <3>1. \A q \in Handlers : q # r => asks'[q] = asks[q]
      BY <1>4 DEF Platform!Exchange, Platform!Refresh, Platform!Done, ConnectionInv, ConnectionTypes
    <3>2. \/ asks'[r].kind = "idle"
          \/ /\ asks'[r].kind = asks[r].kind /\ asks'[r].seller = asks[r].seller
             /\ asks'[r].consent = asks[r].consent
      <4>1. CASE Platform!Exchange(r)
        BY <4>1, <2>1 DEF Platform!Exchange, Platform!Done, Platform!Idle, ConnectionInv, ConnectionTypes, Asked
      <4>2. CASE Platform!Refresh(r)
        BY <4>2, <2>1 DEF Platform!Refresh, Platform!Done, Platform!Idle, ConnectionInv, ConnectionTypes, Asked
      <4> QED BY <1>4, <4>1, <4>2
    <3> QED BY <3>1, <3>2
  <2> QED BY <2>2, <2>3, <1>4, ConsentsKept DEF Platform!Exchange, Platform!Refresh
<1>5. ASSUME NEW r \in Handlers, Platform!UserToken(r) PROVE ConnectionInv'
  <2> PICK a \in Accounts :
        /\ tokenCalls < MaxTokenCalls /\ tokenCalls' = tokenCalls + 1
        /\ asks[r] = Platform!Idle /\ rows[a] # Platform!NoRow /\ ~rows[a].fresh
        /\ asks' = [asks EXCEPT ![r] = [kind |-> "refresh", pc |-> "call", seller |-> a,
                      consent |-> rows[a].consent, member |-> rows[a].member, name |-> rows[a].name]]
        /\ UNCHANGED <<states, rows, closed, over>>
    BY <1>5 DEF Platform!UserToken
  <2>0. rows[a] \in Connection /\ Connection = [consent : Consents \cup {Platform!None}, name : Members \cup {Platform!None},
                                 member : Members \cup {Platform!None}, fresh : BOOLEAN]
    BY DEF ConnectionInv, ConnectionTypes, Platform!TypeOK, Connection
  <2>1. ConnectionTypes'
    <3>1. asks' \in [Handlers -> Asked]
      BY <2>0 DEF ConnectionInv, ConnectionTypes, Asked
    <3>2. tokenCalls' \in 0..MaxTokenCalls
      BY DEF Platform!AccountAssumption, ConnectionInv, ConnectionTypes, Platform!TypeOK
    <3> QED BY <3>1, <3>2 DEF ConnectionInv, ConnectionTypes, Platform!TypeOK
  <2>2. \A q \in Handlers : q # r => asks'[q] = asks[q]
    BY DEF ConnectionInv, ConnectionTypes
  <2>3. asks'[r].kind = "refresh" /\ asks'[r].seller \in Accounts
    BY DEF ConnectionInv, ConnectionTypes
  <2> QED BY <2>1, <2>2, <2>3, ConsentsKept
<1>6. ASSUME NEW r \in Handlers, Platform!StoreToken(r) PROVE ConnectionInv'
  <2>1. asks[r] \in Asked /\ Platform!At(r, "refresh", "store") /\ asks[r].seller \in Accounts
    BY <1>6 DEF Platform!StoreToken, Platform!At, ConnectionInv, ConnectionTypes, Spent, Working
  <2> DEFINE a == asks[r].seller
  <2>0. rows \in [Accounts -> Connection] /\ asks[r].member \in Members \cup {Platform!None}
    BY <2>1 DEF ConnectionInv, ConnectionTypes, Platform!TypeOK, Connection, Asked
  <2>a. \/ rows' = rows
        \/ rows' = [rows EXCEPT ![a] = [rows[a] EXCEPT !.fresh = TRUE, !.member = asks[r].member]]
    BY <1>6, <2>0 DEF Platform!StoreToken
  <2>b. rows' \in [Accounts -> Connection] /\ \A b \in Accounts : rows'[b].consent = rows[b].consent
    <3> DEFINE new == [rows[a] EXCEPT !.fresh = TRUE, !.member = asks[r].member]
    <3>1. new \in Connection /\ new.consent = rows[a].consent
      BY <2>0, <2>1, TRUE \in BOOLEAN, TokenChanges
    <3> HIDE DEF new
    <3> QED BY <3>1, <2>a, <2>0, <2>1 DEF new
  <2>c. asks' \in [Handlers -> Asked]
    BY <1>6 DEF Platform!StoreToken, Platform!Done, Platform!Idle, ConnectionInv, ConnectionTypes, Asked
  <2>2. ConnectionTypes' /\ \A b \in Accounts : rows'[b].consent = rows[b].consent
    BY <1>6, <2>b, <2>c DEF Platform!StoreToken, ConnectionInv, ConnectionTypes, Platform!TypeOK, Connection
  <2>3. \A q \in Handlers : asks'[q].kind = "idle" \/ asks'[q] = asks[q]
    BY <1>6 DEF Platform!StoreToken, Platform!Done, Platform!Idle, ConnectionInv, ConnectionTypes
  <2> QED BY <2>2, <2>3, <1>6, ConsentsKept DEF Platform!StoreToken
<1> QED BY <1>1, <1>2, <1>3, <1>4, <1>5, <1>6

(* Every step keeps the invariant. *)
LEMMA ConnectionKept == Platform!AccountAssumption /\ ConnectionInv /\ [Platform!Next]_Platform!vars => ConnectionInv'
<1> SUFFICES ASSUME Platform!AccountAssumption, ConnectionInv, [Platform!Next]_Platform!vars PROVE ConnectionInv' OBVIOUS
<1>1. ASSUME NEW a \in Accounts, Platform!Disconnect(a) PROVE ConnectionInv'
  BY <1>1, {a} \in SUBSET Accounts, TakeAwayKeeps DEF Platform!Disconnect, ConnectionInv, ConnectionTypes,
     Platform!TypeOK
<1>2. ASSUME NEW m \in Members, Platform!Notice(m) PROVE ConnectionInv'
  <2>1. closed' \subseteq Members
    BY <1>2 DEF Platform!Notice, ConnectionInv, ConnectionTypes, Platform!TypeOK
  <2>2. CASE Platform!TakeAway({a \in Accounts : rows[a].name = m})
    BY <1>2, <2>1, <2>2, {a \in Accounts : rows[a].name = m} \in SUBSET Accounts,
       TakeAwayKeeps DEF Platform!Notice
  <2>3. CASE UNCHANGED <<rows, over>>
    BY <1>2, <2>1, <2>3
       DEF Platform!Notice, ConnectionInv, ConnectionTypes, Platform!TypeOK, Spent, OnlyOnce, Platform!TakenAwayStays, Working, Carries
  <2> QED BY <1>2, <2>2, <2>3 DEF Platform!Notice
<1>3. ASSUME NEW r \in Handlers, Platform!Complete(r) \/ Platform!Store(r) PROVE ConnectionInv'
  BY <1>3, CompleteKeeps, StoreKeeps
<1>4. CASE \/ \E a \in Accounts : Platform!Begin(a)
           \/ Platform!Expire \/ Platform!AccessExpires
           \/ \E r \in Handlers : Platform!Exchange(r) \/ Platform!UserToken(r) \/ Platform!Refresh(r) \/ Platform!StoreToken(r)
  BY <1>4, OthersKeep
<1>5. CASE UNCHANGED Platform!vars
  BY <1>5 DEF Platform!vars, ConnectionInv, ConnectionTypes, Platform!TypeOK, Spent, OnlyOnce,
     Platform!TakenAwayStays, Working, Carries
<1> QED BY <1>1, <1>2, <1>3, <1>4, <1>5 DEF Platform!Next

(* A connection that was taken away stays away, for any number of sellers,  *)
(* consents and requests in flight (ingest/ebay/oauth.ts, deletion.ts,      *)
(* surfaces/twitch/oauth.ts): the row of the state is deleted by whoever    *)
(* reads it, so each consent makes one connection, and a refresh that is    *)
(* late finds no row to write.                                              *)
THEOREM ConnectionsEnd == Platform!AccountAssumption => (Platform!Spec => [](Platform!TypeOK /\ Platform!TakenAwayStays))
<1> SUFFICES ASSUME Platform!AccountAssumption PROVE Platform!Spec => [](Platform!TypeOK /\ Platform!TakenAwayStays) OBVIOUS
<1>1. Platform!Init => ConnectionInv BY ConnectionInit
<1>2. ConnectionInv /\ [Platform!Next]_Platform!vars => ConnectionInv' BY ConnectionKept
<1>3. ConnectionInv => Platform!TypeOK /\ Platform!TakenAwayStays BY DEF ConnectionInv, ConnectionTypes
<1> QED BY <1>1, <1>2, <1>3, PTL DEF Platform!Spec

-----------------------------------------------------------------------------
(***************************************************************************)
(* The policy a reply is checked against, put together of two entries that *)
(* are each served for a minute.  A part is behind its row only if the row *)
(* was written less than that minute before the part was looked up: a save *)
(* drops the entry before it writes, so an entry that is older than its    *)
(* row was filled by a read that the save overtook, and is younger than    *)
(* the row by less than it is served for.                                  *)
(***************************************************************************)
CONSTANTS Readers, Agents, TTL, MaxSaves, MaxTicks

VARIABLES row, cache, readers, agent, saves, clock

Policy == INSTANCE PolicyArming WITH reqs <- readers, Requests <- Readers

CacheEntry == [version : 0..MaxSaves, at : Nat] \cup {Policy!NoEntry}
Reading == [pc : {"idle", "look", "load", "fill", "guarding", "write", "push"}, store : Policy!Stores,
           version : 0..MaxSaves, policy : [Policy!Stores -> 0..MaxSaves], at : [Policy!Stores -> Nat],
           shipped : BOOLEAN, push : SUBSET Agents]
SaveStamp == [store : Policy!Stores \cup {"none"}, at : Nat]

PolicyTypes ==
  /\ row \in [Policy!Stores -> 0..MaxSaves] /\ agent \in [Agents -> 0..MaxSaves]
  /\ cache \in [Policy!Stores -> CacheEntry] /\ readers \in [Readers -> Reading]
  /\ saves \in [Policy!Versions -> SaveStamp] /\ clock \in Nat
  /\ \A r \in Readers : readers[r].pc = "write" => readers[r].version \in Policy!Versions

(* Nothing is dated ahead. *)
Dated ==
  /\ \A s \in Policy!Stores : cache[s].at <= clock
  /\ \A w \in Policy!Versions : saves[w].at <= clock
  /\ \A r \in Readers, s \in Policy!Stores : readers[r].at[s] <= clock

(* The save that a store holds. *)
Holds(w, s) == saves[w].store = s /\ row[s] = w

(* An entry that is behind its row was made no later than the row was       *)
(* written: a save drops the entry before it writes, and who fills it again *)
(* has read the row within this tick.                                       *)
EntriesAreEarlier == \A s \in Policy!Stores, w \in Policy!Versions :
  Holds(w, s) /\ cache[s] # Policy!NoEntry /\ cache[s].version # w => cache[s].at <= saves[w].at

(* What a request has read and is about to cache is behind only a row that  *)
(* was written within this tick.                                            *)
FillsAreFresh == \A r \in Readers, w \in Policy!Versions :
  /\ readers[r].pc = "fill" /\ Holds(w, readers[r].store) /\ readers[r].version # w
  => saves[w].at = clock

(* A part of a policy is behind only a row that was written less than a TTL *)
(* before that part was looked up.                                          *)
PartsAreRecent == \A r \in Readers, s \in Policy!Stores, w \in Policy!Versions :
  Holds(w, s) /\ readers[r].policy[s] # w => readers[r].at[s] - saves[w].at < TTL

PolicyInv == PolicyTypes /\ Dated /\ EntriesAreEarlier /\ FillsAreFresh /\ PartsAreRecent

(* Idle, and what a request may turn into without reading anything. *)
LEMMA IdleType ==
  ASSUME Policy!PolicyAssumption
  PROVE  Policy!Idle \in Reading /\ Policy!Idle.pc = "idle" /\ Policy!Idle.at = [x \in Policy!Stores |-> 0]
<1>1. "settings" \in Policy!Stores /\ 0 \in 0..MaxSaves
  BY DEF Policy!Stores, Policy!PolicyAssumption
<1>2. [s \in Policy!Stores |-> 0] \in [Policy!Stores -> 0..MaxSaves] /\ [s \in Policy!Stores |-> 0] \in [Policy!Stores -> Nat]
  BY <1>1
<1> QED BY <1>1, <1>2 DEF Policy!Idle, Reading

LEMMA LookType ==
  ASSUME NEW q \in Reading
  PROVE  LET t == [q EXCEPT !.pc = "look"] IN
         t \in Reading /\ t.pc = "look" /\ t.policy = q.policy /\ t.at = q.at
  BY DEF Reading

LEMMA ShippedType ==
  ASSUME NEW q \in Reading
  PROVE  LET t == [q EXCEPT !.pc = "guarding", !.shipped = TRUE] IN
         t \in Reading /\ t.pc = "guarding" /\ t.policy = q.policy /\ t.at = q.at
  BY DEF Reading

LEMMA PolicyInit == Policy!PolicyAssumption /\ Policy!Init => PolicyInv
<1> SUFFICES ASSUME Policy!PolicyAssumption, Policy!Init PROVE PolicyInv
  OBVIOUS
<1> USE DEF Policy!PolicyAssumption
<1>1. PolicyTypes
  <2>1. Policy!Idle \in Reading
    BY IdleType
  <2>2. readers \in [Readers -> Reading] /\ \A r \in Readers : readers[r].pc = "idle"
    BY <2>1 DEF Policy!Init, Policy!Idle
  <2>3. Policy!Unsaved \in SaveStamp /\ Policy!NoEntry \in CacheEntry
    BY DEF Policy!Unsaved, SaveStamp, CacheEntry
  <2> QED BY <2>2, <2>3 DEF Policy!Init, PolicyTypes
<1>2. Dated
  BY DEF Policy!Init, Dated, Policy!NoEntry, Policy!Unsaved, Policy!Idle
<1>3. EntriesAreEarlier /\ PartsAreRecent
  BY DEF Policy!Init, EntriesAreEarlier, PartsAreRecent, Holds, Policy!Unsaved, Policy!Stores, Policy!Versions
<1>4. FillsAreFresh
  BY DEF Policy!Init, FillsAreFresh, Policy!Idle
<1> QED BY <1>1, <1>2, <1>3, <1>4 DEF PolicyInv

-----------------------------------------------------------------------------
(* What Took makes of a request: a part of the policy, read now. *)
LEMMA TookType ==
  ASSUME Policy!PolicyAssumption, clock \in Nat, NEW q \in Reading, NEW v \in 0..MaxSaves
  PROVE  /\ Policy!Took(q, v) \in Reading /\ Policy!Took(q, v).pc \in {"look", "guarding"}
         /\ Policy!Took(q, v).policy[q.store] = v /\ Policy!Took(q, v).at[q.store] = clock
         /\ \A s \in Policy!Stores \ {q.store} :
              Policy!Took(q, v).policy[s] = q.policy[s] /\ Policy!Took(q, v).at[s] = q.at[s]
<1> USE DEF Policy!PolicyAssumption
<1>1. q.store \in Policy!Stores /\ q.policy \in [Policy!Stores -> 0..MaxSaves] /\ q.at \in [Policy!Stores -> Nat]
  BY DEF Reading
<1> DEFINE p == [q EXCEPT !.policy[q.store] = v, !.at[q.store] = clock]
<1>2. /\ p.policy = [q.policy EXCEPT ![q.store] = v] /\ p.at = [q.at EXCEPT ![q.store] = clock]
      /\ p \in Reading
  BY <1>1 DEF Reading
<1>3. ASSUME NEW pc \in {"look", "guarding"}, NEW s \in Policy!Stores
      PROVE  LET t == [p EXCEPT !.pc = pc, !.store = s, !.version = 0] IN
             t \in Reading /\ t.pc = pc /\ t.policy = p.policy /\ t.at = p.at
  <2>1. 0 \in 0..MaxSaves /\ p \in Reading
    BY <1>2
  <2> HIDE DEF p
  <2> QED BY <2>1 DEF Reading
<1>4. "settings" \in Policy!Stores /\ "persona" \in Policy!Stores
  BY DEF Policy!Stores
<1>5. \/ Policy!Took(q, v) = [p EXCEPT !.pc = "look", !.store = "persona", !.version = 0]
      \/ Policy!Took(q, v) = [p EXCEPT !.pc = "guarding", !.store = "settings", !.version = 0]
  BY DEF Policy!Took
<1>6. /\ Policy!Took(q, v).policy = p.policy /\ Policy!Took(q, v).at = p.at
      /\ Policy!Took(q, v) \in Reading /\ Policy!Took(q, v).pc \in {"look", "guarding"}
  <2> HIDE DEF p
  <2>1. /\ [p EXCEPT !.pc = "look", !.store = "persona", !.version = 0] \in Reading
        /\ [p EXCEPT !.pc = "look", !.store = "persona", !.version = 0].pc = "look"
        /\ [p EXCEPT !.pc = "look", !.store = "persona", !.version = 0].policy = p.policy
        /\ [p EXCEPT !.pc = "look", !.store = "persona", !.version = 0].at = p.at
    BY <1>3, <1>4
  <2>2. /\ [p EXCEPT !.pc = "guarding", !.store = "settings", !.version = 0] \in Reading
        /\ [p EXCEPT !.pc = "guarding", !.store = "settings", !.version = 0].pc = "guarding"
        /\ [p EXCEPT !.pc = "guarding", !.store = "settings", !.version = 0].policy = p.policy
        /\ [p EXCEPT !.pc = "guarding", !.store = "settings", !.version = 0].at = p.at
    BY <1>3, <1>4
  <2> QED BY <1>5, <2>1, <2>2
<1> QED BY <1>1, <1>2, <1>6

(* A request takes a part of its policy: what it took is behind nothing     *)
(* that a TTL ago was saved.                                                *)
LEMMA TakingKeeps ==
  ASSUME PolicyInv, Policy!PolicyAssumption, NEW r \in Readers, NEW v \in 0..MaxSaves,
         readers' = [readers EXCEPT ![r] = Policy!Took(readers[r], v)],
         \A w \in Policy!Versions :
           Holds(w, readers[r].store) /\ v # w => clock - saves[w].at < TTL,
         UNCHANGED <<row, agent, saves, clock>>,
         cache' \in [Policy!Stores -> CacheEntry], \A s \in Policy!Stores : cache'[s].at <= clock,
         EntriesAreEarlier'
  PROVE  PolicyInv'
<1> USE DEF Policy!PolicyAssumption
<1>1. readers[r] \in Reading /\ clock \in Nat /\ readers \in [Readers -> Reading]
  BY DEF PolicyInv, PolicyTypes
<1>2. /\ readers'[r] = Policy!Took(readers[r], v)
      /\ \A t \in Readers \ {r} : readers'[t] = readers[t]
      /\ readers' \in [Readers -> Reading]
      /\ readers'[r].pc \in {"look", "guarding"}
  BY <1>1, TookType
<1>3. /\ readers'[r].policy[readers[r].store] = v /\ readers'[r].at[readers[r].store] = clock
      /\ \A s \in Policy!Stores \ {readers[r].store} :
           readers'[r].policy[s] = readers[r].policy[s] /\ readers'[r].at[s] = readers[r].at[s]
  BY <1>1, <1>2, TookType
<1>4. PolicyTypes'
  BY <1>2 DEF PolicyInv, PolicyTypes, Policy!Versions
<1>5. Dated'
  BY <1>1, <1>2, <1>3 DEF PolicyInv, Dated, Policy!Versions
<1>6. FillsAreFresh'
  BY <1>2 DEF PolicyInv, FillsAreFresh, Holds, Policy!Versions
<1>7. PartsAreRecent'
  BY <1>2, <1>3 DEF PolicyInv, PartsAreRecent, Holds, Policy!Versions
<1> QED BY <1>4, <1>5, <1>6, <1>7 DEF PolicyInv

(* A request turns to something with no part of a policy yet, and reads     *)
(* nothing for the cache.                                                   *)
LEMMA ResettingKeeps ==
  ASSUME PolicyInv, Policy!PolicyAssumption, NEW r \in Readers, NEW q \in Reading,
         readers' = [readers EXCEPT ![r] = q],
         q.pc # "fill", q.pc = "write" => q.version \in Policy!Versions,
         \/ q.policy = readers[r].policy /\ q.at = readers[r].at
         \/ q.at = [s \in Policy!Stores |-> 0],
         UNCHANGED <<row, saves, clock>>, agent' \in [Agents -> 0..MaxSaves],
         \A s \in Policy!Stores : cache'[s] \in {cache[s], Policy!NoEntry}, cache' \in [Policy!Stores -> CacheEntry]
  PROVE  PolicyInv'
<1> USE DEF Policy!PolicyAssumption
<1>1. readers[r] \in Reading /\ clock \in Nat /\ readers \in [Readers -> Reading]
  BY DEF PolicyInv, PolicyTypes
<1>2. /\ readers'[r] = q /\ \A t \in Readers \ {r} : readers'[t] = readers[t]
      /\ readers' \in [Readers -> Reading]
  BY <1>1
<1>3. PolicyTypes'
  BY <1>2 DEF PolicyInv, PolicyTypes, Policy!Versions
<1>4. Dated'
  BY <1>1, <1>2 DEF PolicyInv, Dated, Policy!Versions, Policy!NoEntry
<1>5. EntriesAreEarlier'
  BY DEF PolicyInv, EntriesAreEarlier, Holds, Policy!Versions, Policy!NoEntry
<1>6. FillsAreFresh'
  BY <1>2 DEF PolicyInv, FillsAreFresh, Holds, Policy!Versions
<1>7. PartsAreRecent'
  <2> SUFFICES ASSUME NEW t \in Readers, NEW s \in Policy!Stores, NEW w \in Policy!Versions,
                      Holds(w, s), readers'[t].policy[s] # w
               PROVE  readers'[t].at[s] - saves[w].at < TTL
    BY DEF PartsAreRecent, Holds, Policy!Versions
  <2>1. CASE t # r \/ (q.policy = readers[r].policy /\ q.at = readers[r].at)
    BY <1>2, <2>1 DEF PolicyInv, PartsAreRecent
  <2>2. CASE t = r /\ q.at = [x \in Policy!Stores |-> 0]
    <3>1. saves[w].at \in Nat
      BY DEF PolicyInv, PolicyTypes, SaveStamp
    <3> QED BY <1>2, <2>2, <3>1
  <2> QED BY <2>1, <2>2
<1> QED BY <1>3, <1>4, <1>5, <1>6, <1>7 DEF PolicyInv

LEMMA TickKeeps == ASSUME PolicyInv, Policy!PolicyAssumption, Policy!Tick PROVE PolicyInv'
<1> USE DEF Policy!PolicyAssumption
<1>1. clock' = clock + 1 /\ clock \in Nat /\ UNCHANGED <<row, cache, readers, agent, saves>>
  BY DEF Policy!Tick, PolicyInv, PolicyTypes
<1>2. \A r \in Readers : readers[r].pc # "fill"
  BY DEF Policy!Tick, Policy!InFlight
<1>3. PolicyTypes'
  BY <1>1 DEF PolicyInv, PolicyTypes, Policy!Versions
<1>4. Dated'
  <2>1. /\ \A s \in Policy!Stores : cache[s].at \in Nat
        /\ \A w \in Policy!Versions : saves[w].at \in Nat
        /\ \A r \in Readers, s \in Policy!Stores : readers[r].at[s] \in Nat
    BY DEF PolicyInv, PolicyTypes, CacheEntry, Policy!NoEntry, SaveStamp, Reading
  <2> QED BY <1>1, <2>1 DEF PolicyInv, Dated, Policy!Versions
<1>5. EntriesAreEarlier' /\ PartsAreRecent'
  BY <1>1 DEF PolicyInv, EntriesAreEarlier, PartsAreRecent, Holds, Policy!Versions
<1>6. FillsAreFresh'
  BY <1>1, <1>2 DEF FillsAreFresh
<1> QED BY <1>3, <1>4, <1>5, <1>6 DEF PolicyInv

LEMMA BeginKeeps ==
  ASSUME PolicyInv, Policy!PolicyAssumption, NEW r \in Readers, Policy!Begin(r)
  PROVE PolicyInv'
<1> DEFINE q == [Policy!Idle EXCEPT !.pc = "look"]
<1>1. q \in Reading /\ q.pc = "look" /\ q.at = [s \in Policy!Stores |-> 0]
  BY IdleType, LookType
<1>2. readers' = [readers EXCEPT ![r] = q] /\ UNCHANGED <<row, cache, agent, saves, clock>>
  BY DEF Policy!Begin
<1>3. agent' \in [Agents -> 0..MaxSaves] /\ cache' \in [Policy!Stores -> CacheEntry]
  BY <1>2 DEF PolicyInv, PolicyTypes
<1> HIDE DEF q
<1> QED BY <1>1, <1>2, <1>3, ResettingKeeps

LEMMA LookKeeps == ASSUME PolicyInv, Policy!PolicyAssumption, NEW r \in Readers, Policy!Look(r) PROVE PolicyInv'
<1> USE DEF Policy!PolicyAssumption
<1>1. readers[r] \in Reading /\ readers[r].store \in Policy!Stores /\ readers \in [Readers -> Reading] /\ clock \in Nat
  BY DEF PolicyInv, PolicyTypes, Reading
<1> DEFINE s == readers[r].store
<1>2. CASE Policy!Hit(s)
  <2>1. cache[s] # Policy!NoEntry /\ clock - cache[s].at < TTL /\ cache[s] \in CacheEntry
    BY <1>1, <1>2 DEF Policy!Hit, PolicyInv, PolicyTypes
  <2>2. cache[s].version \in 0..MaxSaves /\ cache[s].at \in Nat
    BY <2>1 DEF CacheEntry
  <2>3. readers' = [readers EXCEPT ![r] = Policy!Took(readers[r], cache[s].version)]
        /\ UNCHANGED <<row, cache, agent, saves, clock>>
    BY <1>1, <1>2 DEF Policy!Look
  <2>4. \A w \in Policy!Versions : Holds(w, s) /\ cache[s].version # w => clock - saves[w].at < TTL
    <3> TAKE w \in Policy!Versions
    <3> HAVE Holds(w, s) /\ cache[s].version # w
    <3>1. cache[s].at <= saves[w].at
      BY <1>1, <2>1 DEF PolicyInv, EntriesAreEarlier
    <3>2. saves[w].at \in Nat
      BY DEF PolicyInv, PolicyTypes, SaveStamp
    <3> QED BY <1>1, <2>1, <2>2, <3>1, <3>2
  <2>5. EntriesAreEarlier' /\ cache' \in [Policy!Stores -> CacheEntry] /\ \A x \in Policy!Stores : cache'[x].at <= clock
    BY <2>3 DEF PolicyInv, PolicyTypes, Dated, EntriesAreEarlier, Holds, Policy!Versions
  <2> QED BY <2>2, <2>3, <2>4, <2>5, TakingKeeps
<1>3. CASE ~Policy!Hit(s)
  <2> DEFINE q == [readers[r] EXCEPT !.pc = "load"]
  <2>1. q \in Reading /\ q.pc = "load" /\ q.policy = readers[r].policy /\ q.at = readers[r].at
    BY <1>1 DEF Reading
  <2>2. readers' = [readers EXCEPT ![r] = q] /\ UNCHANGED <<row, cache, agent, saves, clock>>
    BY <1>1, <1>3 DEF Policy!Look
  <2>3. agent' \in [Agents -> 0..MaxSaves] /\ cache' \in [Policy!Stores -> CacheEntry]
    BY <2>2 DEF PolicyInv, PolicyTypes
  <2> HIDE DEF q
  <2> QED BY <2>1, <2>2, <2>3, ResettingKeeps
<1> QED BY <1>2, <1>3

LEMMA LoadKeeps == ASSUME PolicyInv, Policy!PolicyAssumption, NEW r \in Readers, Policy!Load(r) PROVE PolicyInv'
<1> USE DEF Policy!PolicyAssumption
<1>1. /\ readers[r] \in Reading /\ readers[r].store \in Policy!Stores /\ readers \in [Readers -> Reading]
      /\ UNCHANGED <<row, cache, agent, saves, clock>>
  BY DEF PolicyInv, PolicyTypes, Reading, Policy!Load
<1>2. CASE readers' = [readers EXCEPT ![r].pc = "fill", ![r].version = row[readers[r].store]]
  <2> DEFINE q == [readers[r] EXCEPT !.pc = "fill", !.version = row[readers[r].store]]
  <2>1. row[readers[r].store] \in 0..MaxSaves
    BY <1>1 DEF PolicyInv, PolicyTypes
  <2>2. /\ q \in Reading /\ q.pc = "fill" /\ q.policy = readers[r].policy /\ q.at = readers[r].at
        /\ q.version = row[readers[r].store] /\ q.store = readers[r].store
    BY <1>1, <2>1 DEF Reading
  <2>3. readers' = [readers EXCEPT ![r] = q]
    BY <1>1, <1>2
  <2> HIDE DEF q
  <2>4. readers'[r] = q /\ (\A t \in Readers \ {r} : readers'[t] = readers[t]) /\ readers' \in [Readers -> Reading]
    BY <1>1, <2>2, <2>3
  <2>5. PolicyTypes' /\ Dated'
    BY <1>1, <2>2, <2>4 DEF PolicyInv, PolicyTypes, Dated, Policy!Versions
  <2>6. EntriesAreEarlier'
    BY <1>1 DEF PolicyInv, EntriesAreEarlier, Holds, Policy!Versions
  <2>7. FillsAreFresh'
    BY <1>1, <2>2, <2>4 DEF PolicyInv, FillsAreFresh, Holds, Policy!Versions
  <2>8. PartsAreRecent'
    BY <1>1, <2>2, <2>4 DEF PolicyInv, PartsAreRecent, Holds, Policy!Versions
  <2> QED BY <2>5, <2>6, <2>7, <2>8 DEF PolicyInv
<1>3. CASE readers' = [readers EXCEPT ![r] = [Policy!Idle EXCEPT !.pc = "guarding", !.shipped = TRUE]]
  <2> DEFINE q == [Policy!Idle EXCEPT !.pc = "guarding", !.shipped = TRUE]
  <2>1. q \in Reading /\ q.pc = "guarding" /\ q.at = [s \in Policy!Stores |-> 0]
    BY IdleType, ShippedType
  <2>2. readers' = [readers EXCEPT ![r] = q]
    BY <1>3
  <2>3. agent' \in [Agents -> 0..MaxSaves] /\ cache' \in [Policy!Stores -> CacheEntry]
    BY <1>1 DEF PolicyInv, PolicyTypes
  <2> HIDE DEF q
  <2> QED BY <1>1, <2>1, <2>2, <2>3, ResettingKeeps
<1> QED BY <1>2, <1>3 DEF Policy!Load

LEMMA FillKeeps == ASSUME PolicyInv, Policy!PolicyAssumption, NEW r \in Readers, Policy!Fill(r) PROVE PolicyInv'
<1> USE DEF Policy!PolicyAssumption
<1> DEFINE s == readers[r].store
           v == readers[r].version
<1>1. /\ readers[r] \in Reading /\ s \in Policy!Stores /\ readers \in [Readers -> Reading] /\ clock \in Nat
      /\ v \in 0..MaxSaves /\ readers[r].pc = "fill" /\ UNCHANGED <<row, agent, saves, clock>>
  BY DEF PolicyInv, PolicyTypes, Reading, Policy!Fill
<1>2. /\ cache' = [cache EXCEPT ![s] = [version |-> v, at |-> clock]]
      /\ readers' = [readers EXCEPT ![r] = Policy!Took(readers[r], v)]
  BY <1>1 DEF Policy!Fill
<1>3. [version |-> v, at |-> clock] \in CacheEntry
  BY <1>1 DEF CacheEntry
<1> HIDE DEF s, v
<1>4. /\ cache'[s] = [version |-> v, at |-> clock] /\ cache' \in [Policy!Stores -> CacheEntry]
      /\ \A x \in Policy!Stores \ {s} : cache'[x] = cache[x]
  BY <1>1, <1>2, <1>3 DEF PolicyInv, PolicyTypes
<1>5. \A w \in Policy!Versions : Holds(w, s) /\ v # w => saves[w].at = clock
  BY <1>1 DEF PolicyInv, FillsAreFresh, s, v
<1>6. \A w \in Policy!Versions : Holds(w, readers[r].store) /\ v # w => clock - saves[w].at < TTL
  BY <1>1, <1>5 DEF s
<1>7. EntriesAreEarlier'
  BY <1>1, <1>4, <1>5 DEF PolicyInv, EntriesAreEarlier, Holds, Policy!Versions
<1>8. \A x \in Policy!Stores : cache'[x].at <= clock
  BY <1>1, <1>4 DEF PolicyInv, Dated
<1> QED BY <1>1, <1>2, <1>4, <1>6, <1>7, <1>8, TakingKeeps

LEMMA SaveKeeps ==
  ASSUME PolicyInv, Policy!PolicyAssumption, NEW r \in Readers, NEW s \in Policy!Stores, Policy!Save(r, s)
  PROVE PolicyInv'
<1> USE DEF Policy!PolicyAssumption
<1>1. PICK v \in Policy!Unused :
        /\ cache' = [cache EXCEPT ![s] = Policy!NoEntry]
        /\ readers' = [readers EXCEPT ![r] = [Policy!Idle EXCEPT !.pc = "write", !.store = s, !.version = v]]
        /\ UNCHANGED <<row, agent, saves, clock>>
  BY DEF Policy!Save
<1> DEFINE q == [Policy!Idle EXCEPT !.pc = "write", !.store = s, !.version = v]
<1>2. v \in Policy!Versions /\ v \in 0..MaxSaves
  BY DEF Policy!Unused, Policy!Versions
<1>3. q \in Reading /\ q.pc = "write" /\ q.version = v /\ q.at = [x \in Policy!Stores |-> 0]
  <2>1. Policy!Idle \in Reading /\ Policy!Idle.at = [x \in Policy!Stores |-> 0]
    BY IdleType
  <2> QED BY <1>2, <2>1 DEF Reading
<1>4. readers' = [readers EXCEPT ![r] = q]
  BY <1>1
<1>5. /\ agent' \in [Agents -> 0..MaxSaves] /\ cache' \in [Policy!Stores -> CacheEntry]
      /\ \A x \in Policy!Stores : cache'[x] \in {cache[x], Policy!NoEntry}
  BY <1>1 DEF PolicyInv, PolicyTypes, CacheEntry
<1> HIDE DEF q
<1> QED BY <1>1, <1>2, <1>3, <1>4, <1>5, ResettingKeeps

LEMMA WriteKeeps ==
  ASSUME PolicyInv, Policy!PolicyAssumption, NEW r \in Readers, Policy!Write(r)
  PROVE PolicyInv'
<1> USE DEF Policy!PolicyAssumption
<1> DEFINE s == readers[r].store
           v == readers[r].version
<1>1. /\ readers[r] \in Reading /\ s \in Policy!Stores /\ readers \in [Readers -> Reading] /\ clock \in Nat
      /\ v \in Policy!Versions /\ v \in 0..MaxSaves /\ readers[r].pc = "write" /\ UNCHANGED <<cache, agent, clock>>
  BY DEF PolicyInv, PolicyTypes, Reading, Policy!Write
<1>2. CASE readers' = [readers EXCEPT ![r] = Policy!Idle] /\ UNCHANGED <<row, saves>>
  <2>1. Policy!Idle \in Reading /\ Policy!Idle.pc = "idle" /\ Policy!Idle.at = [x \in Policy!Stores |-> 0]
    BY IdleType
  <2>2. agent' \in [Agents -> 0..MaxSaves] /\ cache' \in [Policy!Stores -> CacheEntry]
    BY <1>1 DEF PolicyInv, PolicyTypes
  <2> QED BY <1>1, <1>2, <2>1, <2>2, ResettingKeeps
<1>3. CASE /\ row' = [row EXCEPT ![s] = v]
           /\ saves' = [saves EXCEPT ![v] = [store |-> s, at |-> clock]]
           /\ readers' = [readers EXCEPT ![r] = IF s = "settings" THEN [@ EXCEPT !.pc = "push", !.push = Agents]
                                          ELSE [@ EXCEPT !.pc = "look", !.store = "settings", !.version = 0]]
  <2> DEFINE q == IF s = "settings" THEN [readers[r] EXCEPT !.pc = "push", !.push = Agents]
                  ELSE [readers[r] EXCEPT !.pc = "look", !.store = "settings", !.version = 0]
  <2>1. /\ q \in Reading /\ q.pc \in {"push", "look"} /\ q.policy = readers[r].policy /\ q.at = readers[r].at
    <3>1. [readers[r] EXCEPT !.pc = "push", !.push = Agents] \in Reading
      BY <1>1 DEF Reading
    <3>2. CASE s = "settings"
      BY <1>1, <3>1, <3>2 DEF Reading
    <3>3. CASE s # "settings"
      <4>1. "settings" \in Policy!Stores /\ 0 \in 0..MaxSaves
        BY DEF Policy!Stores
      <4> HIDE DEF s
      <4> QED BY <1>1, <3>3, <4>1 DEF Reading
    <3> QED BY <3>2, <3>3
  <2>2. readers' = [readers EXCEPT ![r] = q]
    BY <1>1, <1>3
  <2> HIDE DEF q, s, v
  <2>3. readers'[r] = q /\ (\A t \in Readers \ {r} : readers'[t] = readers[t]) /\ readers' \in [Readers -> Reading]
    BY <1>1, <2>1, <2>2
  <2>4. /\ row' \in [Policy!Stores -> 0..MaxSaves] /\ row'[s] = v /\ \A x \in Policy!Stores \ {s} : row'[x] = row[x]
    BY <1>1, <1>3 DEF PolicyInv, PolicyTypes
  <2>5. /\ saves'[v] = [store |-> s, at |-> clock] /\ saves' \in [Policy!Versions -> SaveStamp]
        /\ \A w \in Policy!Versions \ {v} : saves'[w] = saves[w]
    BY <1>1, <1>3 DEF PolicyInv, PolicyTypes, SaveStamp
  <2>6. PolicyTypes'
    BY <1>1, <2>1, <2>3, <2>4, <2>5 DEF PolicyInv, PolicyTypes, Policy!Versions
  <2>7. Dated'
    BY <1>1, <2>1, <2>3, <2>5 DEF PolicyInv, Dated, Policy!Versions
  (* A store holds what it held, or what is written now. *)
  <2>8. \A w \in Policy!Versions, x \in Policy!Stores : 
           Holds(w, x)' => (Holds(w, x) /\ saves'[w] = saves[w]) \/ saves'[w].at = clock
    BY <1>1, <2>4, <2>5 DEF Holds
  <2>9. EntriesAreEarlier'
    <3> SUFFICES ASSUME NEW x \in Policy!Stores, NEW w \in Policy!Versions, Holds(w, x)',
                        cache[x] # Policy!NoEntry, cache[x].version # w
                 PROVE  cache[x].at <= saves'[w].at
      BY <1>1 DEF EntriesAreEarlier, Policy!Versions
    <3>1. cache[x].at <= clock
      BY DEF PolicyInv, Dated
    <3> QED BY <2>8, <3>1 DEF PolicyInv, EntriesAreEarlier
  <2>10. FillsAreFresh'
    <3> SUFFICES ASSUME NEW t \in Readers, NEW w \in Policy!Versions, readers'[t].pc = "fill",
                        Holds(w, readers[t].store)', readers'[t].version # w, t # r
                 PROVE  saves'[w].at = clock
      BY <1>1, <2>1, <2>3 DEF FillsAreFresh, Policy!Versions, Holds
    <3>1. readers[t].store \in Policy!Stores /\ readers'[t] = readers[t]
      BY <2>3 DEF PolicyInv, PolicyTypes, Reading
    <3> QED BY <2>8, <3>1 DEF PolicyInv, FillsAreFresh
  <2>11. PartsAreRecent'
    <3> SUFFICES ASSUME NEW t \in Readers, NEW x \in Policy!Stores, NEW w \in Policy!Versions,
                        Holds(w, x)', readers'[t].policy[x] # w
                 PROVE  readers'[t].at[x] - saves'[w].at < TTL
      BY DEF PartsAreRecent, Policy!Versions
    <3>1. readers'[t].at = readers[t].at /\ readers'[t].policy = readers[t].policy
      BY <2>1, <2>3
    <3>2. readers[t].at[x] <= clock /\ readers[t].at[x] \in Nat
      BY DEF PolicyInv, Dated, PolicyTypes, Reading
    <3>3. CASE saves'[w].at = clock
      BY <1>1, <3>1, <3>2, <3>3
    <3>4. CASE Holds(w, x) /\ saves'[w] = saves[w]
      BY <3>1, <3>4 DEF PolicyInv, PartsAreRecent
    <3> QED BY <2>8, <3>3, <3>4
  <2> QED BY <2>6, <2>7, <2>9, <2>10, <2>11 DEF PolicyInv
<1> QED BY <1>2, <1>3 DEF Policy!Write

LEMMA PushKeeps ==
  ASSUME PolicyInv, Policy!PolicyAssumption, NEW r \in Readers, Policy!Push(r) \/ Policy!Saved(r)
  PROVE PolicyInv'
<1>1. readers[r] \in Reading /\ readers[r].version \in 0..MaxSaves /\ readers[r].push \in SUBSET Agents
  BY DEF PolicyInv, PolicyTypes, Reading
<1>2. CASE Policy!Push(r)
  <2>1. PICK a \in readers[r].push :
          /\ agent' = [agent EXCEPT ![a] = readers[r].version] \/ agent' = agent
          /\ readers' = [readers EXCEPT ![r].push = @ \ {a}]
          /\ readers[r].pc = "push" /\ UNCHANGED <<row, cache, saves, clock>>
    BY <1>2 DEF Policy!Push
  <2> DEFINE q == [readers[r] EXCEPT !.push = @ \ {a}]
  <2>2. q \in Reading /\ q.pc = "push" /\ q.policy = readers[r].policy /\ q.at = readers[r].at
    BY <1>1, <2>1 DEF Reading
  <2>3. readers' = [readers EXCEPT ![r] = q]
    BY <2>1
  <2>4. agent' \in [Agents -> 0..MaxSaves] /\ cache' \in [Policy!Stores -> CacheEntry]
    BY <1>1, <2>1 DEF PolicyInv, PolicyTypes
  <2> HIDE DEF q
  <2> QED BY <2>1, <2>2, <2>3, <2>4, ResettingKeeps
<1>3. CASE Policy!Saved(r)
  <2>1. Policy!Idle \in Reading /\ Policy!Idle.pc = "idle" /\ Policy!Idle.at = [x \in Policy!Stores |-> 0]
    BY IdleType
  <2>2. readers' = [readers EXCEPT ![r] = Policy!Idle] /\ UNCHANGED <<row, cache, agent, saves, clock>>
    BY <1>3 DEF Policy!Saved
  <2>3. agent' \in [Agents -> 0..MaxSaves] /\ cache' \in [Policy!Stores -> CacheEntry]
    BY <2>2 DEF PolicyInv, PolicyTypes
  <2> QED BY <2>1, <2>2, <2>3, ResettingKeeps
<1> QED BY <1>2, <1>3

LEMMA PolicyKept == PolicyInv /\ Policy!PolicyAssumption /\ [Policy!Next]_Policy!vars => PolicyInv'
<1> SUFFICES ASSUME PolicyInv, Policy!PolicyAssumption, [Policy!Next]_Policy!vars PROVE PolicyInv'
  OBVIOUS
<1>1. CASE Policy!Tick
  BY <1>1, TickKeeps
<1>2. ASSUME NEW r \in Readers,
             Policy!Begin(r) \/ Policy!Look(r) \/ Policy!Load(r) \/ Policy!Fill(r) \/ Policy!Write(r) \/ Policy!Push(r) \/ Policy!Saved(r)
      PROVE  PolicyInv'
  BY <1>2, BeginKeeps, LookKeeps, LoadKeeps, FillKeeps, WriteKeeps, PushKeeps
<1>3. ASSUME NEW r \in Readers, NEW s \in Policy!Stores, Policy!Save(r, s)
      PROVE  PolicyInv'
  BY <1>3, SaveKeeps
<1>4. CASE UNCHANGED Policy!vars
  BY <1>4 DEF Policy!vars, PolicyInv, PolicyTypes, Dated, EntriesAreEarlier, FillsAreFresh, PartsAreRecent,
     Holds, Policy!Versions
<1> QED BY <1>1, <1>2, <1>3, <1>4 DEF Policy!Next

(* Whatever crosses, a reply is checked against rules that had been         *)
(* replaced, when they were looked up, for less than the life of an entry.  *)
THEOREM PolicyIsRecent == Policy!PolicyAssumption => (Policy!Spec => []Policy!EnforcedIsRecent)
<1> SUFFICES ASSUME Policy!PolicyAssumption PROVE Policy!Spec => []Policy!EnforcedIsRecent OBVIOUS
<1>1. PolicyInv => Policy!EnforcedIsRecent
  <2> SUFFICES ASSUME PolicyInv, NEW r \in Readers, NEW w \in Policy!Versions, Policy!Overtaken(r, w)
               PROVE  readers[r].at[saves[w].store] - saves[w].at < TTL
    BY DEF Policy!EnforcedIsRecent
  <2> QED BY DEF PolicyInv, PartsAreRecent, Holds, Policy!Overtaken
<1>2. PolicyInv /\ [Policy!Next]_Policy!vars => PolicyInv' BY PolicyKept
<1> QED BY <1>1, <1>2, PolicyInit, PTL DEF Policy!Spec

-----------------------------------------------------------------------------
(***************************************************************************)
(* What an account is interested in.  A term that was taken out keeps its  *)
(* row, marked deleted, and no reading of a catalog takes the mark off; so *)
(* it is enough that the last edit of a term is what its row says.         *)
(***************************************************************************)
CONSTANTS Terms, Absorbers, Tabs, MaxTermFaults, MaxSwaps

VARIABLES terms, catalogs, absorbs, tabs, termFaults, swaps, decided

Chips == INSTANCE Interests WITH
  rows <- terms, readers <- absorbs, faults <- termFaults,
  Readers <- Absorbers, MaxFaults <- MaxTermFaults

TermRow == [there : BOOLEAN, deleted : BOOLEAN, own : BOOLEAN, spelled : {"nobody", "catalog", "operator"}]

(* What a row has to be for what was decided of its term, and for whose it is. *)
Obeys(r, edit) ==
  /\ edit = "removed" => r.deleted
  /\ edit = "kept" => r.there /\ ~r.deleted
  /\ r.own => r.spelled = "operator"

TermsInv ==
  /\ Chips!TypeOK /\ DOMAIN tabs = Tabs /\ DOMAIN absorbs = Absorbers
  /\ \A t \in Terms : Obeys(terms[t], decided[t])

(* What the last edit of a term decided stands in its row through every    *)
(* reading of the catalogs, whichever refuse or are swapped meanwhile: a   *)
(* term taken out is not brought back, one that was put in is there, and   *)
(* the operator's own stay as they were spelled (interests.ts, absorb and  *)
(* replace).                                                               *)
THEOREM EditsStay == Chips!InterestsAssumption => (Chips!Spec => [](Chips!TypeOK /\ Chips!EditsStand))
<1> SUFFICES ASSUME Chips!InterestsAssumption PROVE Chips!Spec => [](Chips!TypeOK /\ Chips!EditsStand)
  OBVIOUS
<1>1. Chips!Init => TermsInv
  BY DEF Chips!InterestsAssumption, Chips!Init, TermsInv, Chips!TypeOK, Obeys, Chips!NoRow
<1>2. TermsInv /\ [Chips!Next]_Chips!vars => TermsInv'
  <2> SUFFICES ASSUME TermsInv, [Chips!Next]_Chips!vars PROVE TermsInv'
    OBVIOUS
  <2>0. /\ terms \in [Terms -> TermRow] /\ decided \in [Terms -> {"nothing", "removed", "kept"}]
        /\ catalogs \subseteq Terms /\ termFaults \in 0..MaxTermFaults /\ swaps \in 0..MaxSwaps
        /\ (\A t \in Terms : Obeys(terms[t], decided[t])) /\ DOMAIN tabs = Tabs /\ DOMAIN absorbs = Absorbers
        /\ MaxTermFaults \in Nat /\ MaxSwaps \in Nat
    BY DEF Chips!InterestsAssumption, TermsInv, Chips!TypeOK, TermRow
  <2>1. CASE \E s \in SUBSET Terms : Chips!Load(s)
    BY <2>0, <2>1 DEF TermsInv, Chips!TypeOK, TermRow, Chips!Load
  <2>2. ASSUME NEW r \in Absorbers, Chips!Tombstones(r) PROVE TermsInv'
    BY <2>0, <2>2 DEF TermsInv, Chips!TypeOK, TermRow, Chips!Tombstones
  <2>3. ASSUME NEW r \in Absorbers, Chips!Absorb(r) PROVE TermsInv'
    <3>1. \A t \in Terms : Chips!Absorbed(t) \in TermRow /\ Obeys(Chips!Absorbed(t), decided[t])
      BY <2>0 DEF Chips!Absorbed, TermRow, Obeys
    <3>2. /\ terms' \in [Terms -> TermRow] /\ \A t \in Terms : Obeys(terms'[t], decided[t])
          /\ termFaults' \in 0..MaxTermFaults
      BY <2>0, <2>3, <3>1 DEF Chips!Absorb, Chips!Fault
    <3> QED BY <2>0, <2>3, <3>2 DEF TermsInv, Chips!TypeOK, TermRow, Chips!Absorb
  <2>4. ASSUME NEW p \in Tabs, NEW s \in SUBSET Terms, Chips!Put(p, s) PROVE TermsInv'
    BY <2>0, <2>4 DEF TermsInv, Chips!TypeOK, TermRow, Chips!Put
  <2>5. ASSUME NEW p \in Tabs, Chips!Drop(p) PROVE TermsInv'
    <3>1. /\ terms' \in [Terms -> TermRow] /\ decided' \in [Terms -> {"nothing", "removed", "kept"}]
          /\ \A t \in Terms : Obeys(terms'[t], decided'[t])
          /\ termFaults' \in 0..MaxTermFaults
      <4> DEFINE Out(t) == [terms[t] EXCEPT !.deleted = TRUE]
      <4>1. \A t \in Terms : Out(t) \in TermRow /\ Obeys(Out(t), "removed")
        BY <2>0 DEF TermRow, Obeys
      <4>2. CASE Chips!Fault /\ UNCHANGED <<terms, decided>>
        BY <2>0, <4>2 DEF Chips!Fault
      <4> HIDE DEF Out
      <4>3. ASSUME NEW gone,
                   terms' = [t \in Terms |-> IF t \in gone THEN Out(t) ELSE terms[t]],
                   decided' = [t \in Terms |-> IF t \in gone THEN "removed" ELSE decided[t]],
                   UNCHANGED termFaults
            PROVE  /\ terms' \in [Terms -> TermRow] /\ decided' \in [Terms -> {"nothing", "removed", "kept"}]
                   /\ \A t \in Terms : Obeys(terms'[t], decided'[t])
                   /\ termFaults' \in 0..MaxTermFaults
        BY <2>0, <4>1, <4>3
      <4> QED BY <2>5, <4>2, <4>3 DEF Chips!Drop, Out
    <3>2. tabs'[p] = <<"new">> \/ (tabs'[p][1] = "keep" /\ tabs'[p][2] \subseteq Terms)
      <4>1. tabs[p] = <<"new">> \/ (tabs[p][1] \in {"drop", "keep"} /\ tabs[p][2] \subseteq Terms)
        BY DEF TermsInv, Chips!TypeOK
      <4>2. /\ tabs[p][1] = "drop" /\ tabs[p][2] \subseteq Terms
            /\ tabs' = [tabs EXCEPT ![p] = <<"new">>] \/ tabs' = [tabs EXCEPT ![p] = <<"keep", tabs[p][2]>>]
        BY <2>5, <4>1 DEF Chips!Drop
      <4> QED BY <2>0, <4>2
    <3>3. \A q \in Tabs : tabs'[q] = <<"new">> \/ (tabs'[q][1] \in {"drop", "keep"} /\ tabs'[q][2] \subseteq Terms)
      BY <2>0, <2>5, <3>2 DEF Chips!Drop, TermsInv, Chips!TypeOK
    <3>4. DOMAIN tabs' = Tabs /\ UNCHANGED <<catalogs, absorbs, swaps>>
      BY <2>0, <2>5 DEF Chips!Drop
    <3> QED BY <2>0, <3>1, <3>3, <3>4 DEF TermsInv, Chips!TypeOK, TermRow
  <2>6. ASSUME NEW p \in Tabs, Chips!Keep(p) PROVE TermsInv'
    <3>1. /\ terms' \in [Terms -> TermRow] /\ decided' \in [Terms -> {"nothing", "removed", "kept"}]
          /\ \A t \in Terms : Obeys(terms'[t], decided'[t])
          /\ termFaults' \in 0..MaxTermFaults
      <4> DEFINE Own(t) == [there |-> TRUE, deleted |-> FALSE, own |-> terms[t].own \/ ~terms[t].there, spelled |-> "operator"]
      <4>1. \A t \in Terms : Own(t) \in TermRow /\ Obeys(Own(t), "kept")
        <5>1. \A t \in Terms : (terms[t].own \/ ~terms[t].there) \in BOOLEAN
          OBVIOUS
        <5> QED BY <5>1 DEF TermRow, Obeys
      <4>2. CASE Chips!Fault /\ UNCHANGED <<terms, decided>>
        BY <2>0, <4>2 DEF Chips!Fault
      <4> HIDE DEF Own
      <4>3. ASSUME terms' = [t \in Terms |-> IF t \notin tabs[p][2] THEN terms[t] ELSE Own(t)],
                   decided' = [t \in Terms |-> IF t \in tabs[p][2] THEN "kept" ELSE decided[t]],
                   UNCHANGED termFaults
            PROVE  /\ terms' \in [Terms -> TermRow] /\ decided' \in [Terms -> {"nothing", "removed", "kept"}]
                   /\ \A t \in Terms : Obeys(terms'[t], decided'[t])
                   /\ termFaults' \in 0..MaxTermFaults
        BY <2>0, <4>1, <4>3
      <4> QED BY <2>6, <4>2, <4>3 DEF Chips!Keep, Own
    <3> QED BY <2>0, <2>6, <3>1 DEF TermsInv, Chips!TypeOK, TermRow, Chips!Keep
  <2>7. CASE UNCHANGED Chips!vars
    BY <2>0, <2>7 DEF TermsInv, Chips!TypeOK, TermRow, Chips!vars
  <2> QED BY <2>1, <2>2, <2>3, <2>4, <2>5, <2>6, <2>7 DEF Chips!Next
<1>3. TermsInv => Chips!TypeOK /\ Chips!EditsStand
  BY DEF TermsInv, Obeys, Chips!EditsStand, Chips!Live
<1> QED BY <1>1, <1>2, <1>3, PTL DEF Chips!Spec

-----------------------------------------------------------------------------
(***************************************************************************)
(* The sellers that are followed.  Whatever waits to be written of a check *)
(* was matched against the grid, and the grid is what a read answered at   *)
(* the time it is dated: a refusal leaves both.                            *)
(***************************************************************************)
CONSTANTS Handles, GridTTL, MaxLookTime, MaxLooks, MaxRefusals

VARIABLES lookTime, onAir, grid, gridAt, lastEmptyReason, reading, follows, checked, looks, refusals, answers

Follow == INSTANCE Following WITH
  now <- lookTime, rows <- follows, writes <- checked, checks <- looks, seen <- answers,
  TTL <- GridTTL, MaxTime <- MaxLookTime, MaxChecks <- MaxLooks

FollowRow == [followed : BOOLEAN, checked : 0..MaxLookTime, live : 0..MaxLookTime]
Check == [handle : Handles, at : 1..MaxLookTime, live : BOOLEAN]

(* A read that answered then, and one that had the seller on air. *)
Looked(at) == \E S \in SUBSET Handles : <<at, S>> \in answers
Found(h, at) == \E S \in SUBSET Handles : h \in S /\ <<at, S>> \in answers

(* The grid is of a read, and so is what was matched against it. *)
GridIsRead ==
  /\ gridAt # 0 => gridAt \in 1..lookTime /\ <<gridAt, grid>> \in answers
  /\ \A c \in checked : Looked(c.at) /\ (c.live => Found(c.handle, c.at))

RowsAreRead == \A h \in Handles :
  /\ follows[h].checked # 0 => Looked(follows[h].checked)
  /\ follows[h].live # 0 => Found(h, follows[h].live)

FollowTypes ==
  /\ Follow!TypeOK /\ reading <= looks /\ looks \in 0..MaxLooks /\ checked \subseteq Check
  /\ follows \in [Handles -> FollowRow]
FollowInv == FollowTypes /\ GridIsRead /\ RowsAreRead

(* What is read later is read besides. *)
LEMMA ReadsStay ==
  ASSUME answers \subseteq answers'
  PROVE  /\ \A at : Looked(at) => Looked(at)'
         /\ \A h, at : Found(h, at) => Found(h, at)'
BY DEF Looked, Found

LEMMA RecordIsRead ==
  ASSUME FollowInv, NEW n, NEW shows \in SUBSET Handles, NEW at, Follow!Record(n, shows, at),
         answers \subseteq answers', at # 0 => at \in 1..MaxLookTime /\ <<at, shows>> \in answers'
  PROVE  checked' \subseteq Check /\ \A c \in checked' : Looked(c.at)' /\ (c.live => Found(c.handle, c.at)')
<1>1. CASE checked' = checked
  BY <1>1, ReadsStay DEF FollowInv, FollowTypes, GridIsRead
<1>2. CASE at # 0 /\ checked' = checked \cup Follow!Matched(shows, at)
  <2>1. ASSUME NEW c \in Follow!Matched(shows, at)
        PROVE  c \in Check /\ Looked(c.at)' /\ (c.live => Found(c.handle, c.at)')
    <3>1. PICK h \in Handles : c = [handle |-> h, at |-> at, live |-> h \in shows]
      BY <2>1 DEF Follow!Matched
    <3>2. c.handle = h /\ c.at = at /\ (c.live <=> h \in shows)
      BY <3>1
    <3>3. (h \in shows) \in BOOLEAN
      OBVIOUS
    <3>4. c \in Check
      BY <1>2, <3>1, <3>3 DEF Check
    <3>5. Looked(at)' /\ (h \in shows => Found(h, at)')
      BY <1>2 DEF Looked, Found
    <3> QED BY <3>2, <3>4, <3>5
  <2>2. \A c \in checked : c \in Check /\ Looked(c.at)' /\ (c.live => Found(c.handle, c.at)')
    BY ReadsStay DEF FollowInv, FollowTypes, GridIsRead
  <2> QED BY <1>2, <2>1, <2>2
<1> QED BY <1>1, <1>2 DEF Follow!Record, Follow!Never

LEMMA FollowKept == ASSUME Follow!FollowingAssumption, FollowInv, [Follow!Next]_Follow!vars PROVE FollowInv'
<1>0. /\ lookTime \in 1..MaxLookTime /\ onAir \subseteq Handles /\ grid \subseteq Handles /\ gridAt \in 0..MaxLookTime
      /\ reading \in -1..MaxLooks /\ looks \in 0..MaxLooks /\ reading <= looks
      /\ lastEmptyReason \in {"none", "signed-out", "blocked"}
      /\ follows \in [Handles -> FollowRow] /\ checked \subseteq Check
      /\ MaxLookTime \in Nat /\ MaxLooks \in Nat
  BY DEF FollowInv, FollowTypes, Follow!TypeOK, Follow!FollowingAssumption
<1>1. CASE Follow!Tick
  <2>1. GridIsRead'
    BY <1>0, <1>1 DEF Follow!Tick, FollowInv, GridIsRead, Looked, Found
  <2>2. RowsAreRead'
    BY <1>1 DEF Follow!Tick, FollowInv, RowsAreRead, Looked, Found
  <2> QED BY <1>0, <1>1, <2>1, <2>2 DEF Follow!Tick, FollowInv, FollowTypes, Follow!TypeOK, FollowRow
<1>2. CASE Follow!Poll
  <2>1. GridIsRead' /\ RowsAreRead'
    BY <1>2 DEF Follow!Poll, FollowInv, GridIsRead, RowsAreRead, Looked, Found
  <2> QED BY <1>0, <1>2, <2>1 DEF Follow!Poll, FollowInv, FollowTypes, Follow!TypeOK, FollowRow
<1>3. CASE Follow!CheckNow
  <2>1. GridIsRead' /\ RowsAreRead'
    BY <1>3 DEF Follow!CheckNow, FollowInv, GridIsRead, RowsAreRead, Looked, Found
  <2>2. reading' \in -1..MaxLooks /\ looks' \in 0..MaxLooks /\ reading' <= looks'
    BY <1>0, <1>3 DEF Follow!CheckNow
  <2> QED BY <1>0, <1>3, <2>1, <2>2 DEF Follow!CheckNow, FollowInv, FollowTypes, Follow!TypeOK, FollowRow
<1>4. CASE Follow!Load
  <2>1. checked' \subseteq Check /\ \A c \in checked' : Looked(c.at)' /\ (c.live => Found(c.handle, c.at)')
    <3>1. gridAt # 0 => gridAt \in 1..MaxLookTime /\ <<gridAt, grid>> \in answers'
      BY <1>0, <1>4 DEF Follow!Load, FollowInv, GridIsRead
    <3>2. answers \subseteq answers' /\ Follow!Record(1, grid, gridAt)
      BY <1>4 DEF Follow!Load
    <3> QED BY <1>0, <3>1, <3>2, RecordIsRead
  <2>2. GridIsRead' /\ RowsAreRead'
    BY <1>4, <2>1 DEF Follow!Load, FollowInv, GridIsRead, RowsAreRead, Looked, Found
  <2> QED BY <1>0, <1>4, <2>1, <2>2 DEF Follow!Load, FollowInv, FollowTypes, Follow!TypeOK, FollowRow
<1>5. CASE Follow!ReadAnswers
  <2>1. checked' \subseteq Check /\ \A c \in checked' : Looked(c.at)' /\ (c.live => Found(c.handle, c.at)')
    <3>1. lookTime \in 1..MaxLookTime /\ <<lookTime, onAir>> \in answers' /\ answers \subseteq answers'
      BY <1>0, <1>5 DEF Follow!ReadAnswers
    <3>2. Follow!Record(reading, onAir, lookTime)
      BY <1>5 DEF Follow!ReadAnswers
    <3> QED BY <1>0, <3>1, <3>2, RecordIsRead
  <2>2. GridIsRead'
    BY <1>0, <1>5, <2>1 DEF Follow!ReadAnswers, GridIsRead
  <2>3. RowsAreRead'
    BY <1>5, ReadsStay DEF Follow!ReadAnswers, FollowInv, RowsAreRead
  <2> QED BY <1>0, <1>5, <2>1, <2>2, <2>3 DEF Follow!ReadAnswers, FollowInv, FollowTypes, Follow!TypeOK, FollowRow
<1>6. CASE Follow!ReadRefused
  <2>1. checked' \subseteq Check /\ \A c \in checked' : Looked(c.at)' /\ (c.live => Found(c.handle, c.at)')
    <3>1. gridAt # 0 => gridAt \in 1..MaxLookTime /\ <<gridAt, grid>> \in answers'
      BY <1>0, <1>6 DEF Follow!ReadRefused, FollowInv, GridIsRead
    <3>2. answers \subseteq answers' /\ Follow!Record(reading, grid, gridAt)
      BY <1>6 DEF Follow!ReadRefused
    <3> QED BY <1>0, <3>1, <3>2, RecordIsRead
  <2>2. GridIsRead' /\ RowsAreRead'
    BY <1>6, <2>1 DEF Follow!ReadRefused, FollowInv, GridIsRead, RowsAreRead, Looked, Found
  <2>3. lastEmptyReason' \in {"none", "signed-out", "blocked"}
    BY <1>0, <1>6 DEF Follow!ReadRefused
  <2> QED BY <1>0, <1>6, <2>1, <2>2, <2>3 DEF Follow!ReadRefused, FollowInv, FollowTypes, Follow!TypeOK, FollowRow
<1>7. CASE Follow!Remember
  <2>1. GridIsRead'
    BY <1>0, <1>7, ReadsStay DEF Follow!Remember, FollowInv, GridIsRead
  <2>2. RowsAreRead'
    BY <1>7, ReadsStay DEF Follow!Remember, FollowInv, RowsAreRead
  <2> QED BY <1>0, <1>7, <2>1, <2>2 DEF Follow!Remember, FollowInv, FollowTypes, Follow!TypeOK, FollowRow
<1>8. ASSUME NEW h \in Handles, Follow!Air(h) PROVE FollowInv'
  <2>1. GridIsRead' /\ RowsAreRead'
    BY <1>8 DEF Follow!Air, FollowInv, GridIsRead, RowsAreRead, Looked, Found
  <2>2. onAir' \subseteq Handles
    BY <1>0, <1>8 DEF Follow!Air
  <2> QED BY <1>0, <1>8, <2>1, <2>2 DEF Follow!Air, FollowInv, FollowTypes, Follow!TypeOK, FollowRow
<1>9. ASSUME NEW h \in Handles, Follow!Follow(h) PROVE FollowInv'
  <2> DEFINE Begun == [Follow!NotFollowed EXCEPT !.followed = TRUE]
  <2>0. Follow!NotFollowed \in FollowRow /\ Follow!NotFollowed.checked = 0 /\ Follow!NotFollowed.live = 0
    BY <1>0 DEF Follow!NotFollowed, Follow!Never, FollowRow
  <2>1. Begun \in FollowRow /\ Begun.checked = 0 /\ Begun.live = 0
    BY <2>0 DEF FollowRow
  <2> HIDE DEF Begun
  <2>2. \E new \in FollowRow : new.checked = 0 /\ new.live = 0 /\ follows' = [follows EXCEPT ![h] = new]
    BY <1>9, <2>0, <2>1 DEF Follow!Follow, Begun
  <2>3. follows' \in [Handles -> FollowRow]
    BY <1>0, <2>2
  <2>4. answers' = answers /\ GridIsRead'
    BY <1>9 DEF Follow!Follow, FollowInv, GridIsRead, Looked, Found
  <2>5. RowsAreRead'
    BY <1>0, <2>2, <2>4 DEF FollowInv, RowsAreRead, Looked, Found
  <2> QED BY <1>0, <1>9, <2>3, <2>4, <2>5 DEF Follow!Follow, FollowInv, FollowTypes, Follow!TypeOK, FollowRow
<1>10. ASSUME NEW c \in checked, Follow!Land(c) PROVE FollowInv'
  <2>0. c \in Check /\ Looked(c.at) /\ (c.live => Found(c.handle, c.at))
    BY <1>0 DEF FollowInv, GridIsRead
  <2>1. CASE follows' = follows
    <3>1. GridIsRead' /\ RowsAreRead'
      BY <1>10, <2>1 DEF Follow!Land, FollowInv, GridIsRead, RowsAreRead, Looked, Found
    <3> QED BY <1>0, <1>10, <2>1, <3>1 DEF Follow!Land, FollowInv, FollowTypes, Follow!TypeOK, FollowRow
  <2>2. CASE follows' = [follows EXCEPT ![c.handle].checked = c.at, ![c.handle].live = IF c.live THEN c.at ELSE @]
    <3> DEFINE Was == follows[c.handle]
    <3>1. c.handle \in Handles /\ c.at \in 0..MaxLookTime /\ Was \in FollowRow
      BY <1>0, <2>0 DEF Check
    <3>2. /\ follows' \in [Handles -> FollowRow]
          /\ follows'[c.handle].checked = c.at
          /\ follows'[c.handle].live = IF c.live THEN c.at ELSE Was.live
      BY <1>0, <2>2, <3>1 DEF FollowRow
    <3>3. \A h \in Handles \ {c.handle} : follows'[h] = follows[h]
      BY <1>0, <2>2, <3>1 DEF FollowRow
    <3>4. answers' = answers /\ GridIsRead'
      BY <1>10 DEF Follow!Land, FollowInv, GridIsRead, Looked, Found
    <3>5. RowsAreRead'
      BY <1>0, <2>0, <3>1, <3>2, <3>3, <3>4 DEF FollowInv, RowsAreRead, Looked, Found
    <3> QED BY <1>0, <1>10, <3>2, <3>4, <3>5 DEF Follow!Land, FollowInv, FollowTypes, Follow!TypeOK, FollowRow
  <2> QED BY <1>10, <2>1, <2>2 DEF Follow!Land
<1>11. CASE UNCHANGED Follow!vars
  BY <1>0, <1>11 DEF Follow!vars, FollowInv, FollowTypes, Follow!TypeOK, GridIsRead, RowsAreRead, Looked, Found
<1> QED BY <1>1, <1>2, <1>3, <1>4, <1>5, <1>6, <1>7, <1>8, <1>9, <1>10, <1>11 DEF Follow!Next

(* Whatever is refused, and in whatever order the checks are recorded: a    *)
(* seller's last check is a look that was made, one last seen live was on   *)
(* air in it, and the tab is told "ok" of a grid of its time only           *)
(* (following.ts, list and recordCheck).                                    *)
THEOREM ChecksAreLooks == Follow!FollowingAssumption => (Follow!Spec => [](Follow!TypeOK /\ Follow!ChecksWereMade))
<1> SUFFICES ASSUME Follow!FollowingAssumption PROVE Follow!Spec => [](Follow!TypeOK /\ Follow!ChecksWereMade)
  OBVIOUS
<1>1. Follow!Init => FollowInv
  BY DEF Follow!FollowingAssumption, Follow!Init, FollowInv, FollowTypes, GridIsRead, RowsAreRead, Follow!TypeOK,
     FollowRow, Follow!NotFollowed, Follow!Never
<1>2. FollowInv /\ [Follow!Next]_Follow!vars => FollowInv'
  BY FollowKept
<1>3. FollowInv => Follow!ChecksWereMade
  <2> SUFFICES ASSUME FollowInv PROVE Follow!ChecksWereMade
    OBVIOUS
  <2>1. ASSUME Follow!Told = "ok" PROVE \E t \in 1..lookTime, S \in SUBSET Handles : lookTime - t < GridTTL /\ <<t, S>> \in answers
    BY <2>1 DEF Follow!Told, Follow!fresh, Follow!Never, FollowInv, GridIsRead, FollowTypes, Follow!TypeOK
  <2> QED BY <2>1 DEF Follow!ChecksWereMade, FollowInv, RowsAreRead, Looked, Found, Follow!Never
<1>4. FollowInv => Follow!TypeOK
  BY DEF FollowInv, FollowTypes
<1> QED BY <1>1, <1>2, <1>3, <1>4, PTL DEF Follow!Spec

-----------------------------------------------------------------------------
(***************************************************************************)
(* What is live on what an operator sells.  The reads under way and the    *)
(* keys of their answers know each other, and a timer bounds how old such  *)
(* a read can be; so who waits for one waits for his own question, asked   *)
(* of the platform hardly before he asked.                                 *)
(***************************************************************************)
CONSTANTS Surfaces, Browsed, Askers, Polls, OkTTL, FailTTL, ReadTimeout, MaxPollTime, MaxScrapes

VARIABLES pollTime, kept, underWay, scrapes, polls

Live == INSTANCE Discovery WITH
  now <- pollTime, cache <- kept, inFlight <- underWay, reads <- scrapes, asks <- polls,
  Asks <- Polls, Timeout <- ReadTimeout, MaxTime <- MaxPollTime, MaxReads <- MaxScrapes

Answers == {<<>>} \cup {<<v>> : v \in Live!Values}
Scrape == [surface : Surfaces, of : Askers, began : 0..MaxPollTime, open : BOOLEAN,
           at : {"lock", "browser", "platform", "over"}]
Poll == [asked : BOOLEAN, of : Askers, at : 0..MaxPollTime, waits : [Surfaces -> Nat], got : [Surfaces -> Answers]]

LiveTypes ==
  /\ pollTime \in 0..MaxPollTime /\ kept \in [Live!Keys -> Answers] /\ underWay \in [Live!Keys -> Nat]
  /\ scrapes \in Seq(Scrape) /\ Len(scrapes) <= MaxScrapes /\ polls \in [Polls -> Poll]

(* A key and the read that answers it: one of the key's question, and the   *)
(* only one that is waited for; none of them is older than its timer.       *)
KeysAndReads ==
  /\ \A k \in Live!Keys : underWay[k] # 0 =>
       /\ underWay[k] \in 1..Len(scrapes) /\ scrapes[underWay[k]].open
       /\ k = <<scrapes[underWay[k]].surface, scrapes[underWay[k]].of>>
  /\ \A i \in 1..Len(scrapes) : scrapes[i].open =>
       /\ underWay[<<scrapes[i].surface, scrapes[i].of>>] = i
       /\ scrapes[i].began <= pollTime /\ pollTime <= scrapes[i].began + ReadTimeout

(* What is waited for answers what was asked, at about that time. *)
WaitsForIts(r, s) == polls[r].waits[s] # 0 =>
  /\ polls[r].waits[s] \in 1..Len(scrapes) /\ scrapes[polls[r].waits[s]].open
  /\ scrapes[polls[r].waits[s]].surface = s /\ scrapes[polls[r].waits[s]].of = polls[r].of
  /\ scrapes[polls[r].waits[s]].began + ReadTimeout >= polls[r].at

KeptIsOwn == \A k \in Live!Keys : kept[k] # <<>> =>
  kept[k][1].of = k[2] /\ kept[k][1].at <= kept[k][1].began + ReadTimeout

OneBrowser == \A i, j \in 1..Len(scrapes) : scrapes[i].at = "browser" /\ scrapes[j].at = "browser" => i = j

LiveInv ==
  /\ LiveTypes /\ KeysAndReads /\ (\A r \in Polls, s \in Surfaces : WaitsForIts(r, s)) /\ KeptIsOwn /\ OneBrowser
  /\ Live!AnswersItsQuestion

LEMMA LiveBegins == Live!DiscoveryAssumption /\ Live!Init => LiveInv
BY DEF Live!DiscoveryAssumption, Live!Init, LiveInv, LiveTypes, Live!Idle, Poll, Answers, KeysAndReads, WaitsForIts,
  KeptIsOwn, OneBrowser, Live!AnswersItsQuestion, Live!Keys

(* An answer of a read, given to who waits for it. *)
LEMMA SettledWell ==
  ASSUME Live!DiscoveryAssumption, LiveInv, NEW i \in 1..Len(scrapes), scrapes[i].open, NEW ok \in BOOLEAN,
         Live!Settle(i, ok), UNCHANGED pollTime,
         scrapes' \in Seq(Scrape), Len(scrapes') = Len(scrapes), OneBrowser',
         \A j \in 1..Len(scrapes) :
           /\ scrapes'[j].surface = scrapes[j].surface /\ scrapes'[j].of = scrapes[j].of
           /\ scrapes'[j].began = scrapes[j].began
           /\ scrapes'[j].open <=> scrapes[j].open /\ j # i
  PROVE  LiveInv'
<1> DEFINE k == <<scrapes[i].surface, scrapes[i].of>>
           v == [ok |-> ok, at |-> pollTime, of |-> scrapes[i].of, began |-> scrapes[i].began]
<1>1. /\ pollTime \in 0..MaxPollTime /\ kept \in [Live!Keys -> Answers] /\ underWay \in [Live!Keys -> Nat]
      /\ scrapes \in Seq(Scrape) /\ Len(scrapes) <= MaxScrapes /\ polls \in [Polls -> Poll]
      /\ scrapes[i] \in Scrape /\ ReadTimeout \in Nat /\ OkTTL \in Nat \ {0} /\ FailTTL \in Nat \ {0}
      /\ MaxPollTime \in Nat /\ Len(scrapes) \in Nat
  BY DEF LiveInv, LiveTypes, Live!DiscoveryAssumption
<1>2. k \in Live!Keys /\ v \in Live!Values /\ <<v>> \in Answers /\ <<v>> # <<>> /\ <<v>>[1] = v
  BY <1>1 DEF Live!Keys, Live!Values, Scrape, Answers
<1>3. /\ kept' = [kept EXCEPT ![k] = <<v>>] /\ underWay' = [underWay EXCEPT ![k] = 0]
      /\ polls' = [r \in Polls |-> [polls[r] EXCEPT
           !.got = [s \in Surfaces |-> IF polls[r].waits[s] = i THEN <<v>> ELSE polls[r].got[s]],
           !.waits = [s \in Surfaces |-> IF polls[r].waits[s] = i THEN 0 ELSE polls[r].waits[s]]]]
  BY DEF Live!Settle, Live!Key
<1>4. /\ v.of = scrapes[i].of /\ v.at = pollTime /\ v.began = scrapes[i].began /\ v.ok = ok
      /\ scrapes[i].began \in 0..MaxPollTime /\ scrapes[i].surface \in Surfaces /\ scrapes[i].of \in Askers
      /\ v.at <= v.began + ReadTimeout /\ k[2] = scrapes[i].of /\ k[1] = scrapes[i].surface
  BY <1>1 DEF Scrape, LiveInv, KeysAndReads
<1> HIDE DEF v, k
<1>5. ASSUME NEW r \in Polls
      PROVE  /\ polls[r] \in Poll /\ polls'[r] \in Poll /\ polls'[r].of = polls[r].of /\ polls'[r].at = polls[r].at
             /\ \A s \in Surfaces :
                  /\ polls'[r].got[s] = IF polls[r].waits[s] = i THEN <<v>> ELSE polls[r].got[s]
                  /\ polls'[r].waits[s] = IF polls[r].waits[s] = i THEN 0 ELSE polls[r].waits[s]
  <2> DEFINE G == [s \in Surfaces |-> IF polls[r].waits[s] = i THEN <<v>> ELSE polls[r].got[s]]
             W == [s \in Surfaces |-> IF polls[r].waits[s] = i THEN 0 ELSE polls[r].waits[s]]
  <2>1. polls[r] \in Poll
    BY <1>1
  <2>2. G \in [Surfaces -> Answers] /\ W \in [Surfaces -> Nat]
    BY <2>1, <1>2 DEF Poll
  <2>3. polls'[r] = [polls[r] EXCEPT !.got = G, !.waits = W]
    BY <1>3
  <2> HIDE DEF G, W
  <2>4. polls'[r] \in Poll /\ polls'[r].of = polls[r].of /\ polls'[r].at = polls[r].at /\ polls'[r].got = G /\ polls'[r].waits = W
    BY <2>1, <2>2, <2>3 DEF Poll
  <2> QED BY <2>1, <2>4 DEF G, W
<1>6. LiveTypes'
  <2>1. polls' \in [Polls -> Poll]
    BY <1>3, <1>5
  <2>2. kept' \in [Live!Keys -> Answers] /\ underWay' \in [Live!Keys -> Nat]
    BY <1>1, <1>2, <1>3
  <2> QED BY <1>1, <2>1, <2>2 DEF LiveTypes, Live!Keys, Answers, Live!Values, Scrape, Poll
<1>7. KeysAndReads'
  <2>1. ASSUME NEW l \in Live!Keys, underWay'[l] # 0
        PROVE  /\ underWay'[l] \in 1..Len(scrapes') /\ scrapes'[underWay'[l]].open
               /\ l = <<scrapes'[underWay'[l]].surface, scrapes'[underWay'[l]].of>>
    <3>1. l # k /\ underWay'[l] = underWay[l] /\ underWay[l] # 0
      BY <1>1, <1>2, <1>3, <2>1
    <3>2. /\ underWay[l] \in 1..Len(scrapes) /\ scrapes[underWay[l]].open
          /\ l = <<scrapes[underWay[l]].surface, scrapes[underWay[l]].of>>
      BY <3>1 DEF LiveInv, KeysAndReads
    <3>3. underWay[l] # i
      BY <3>1, <3>2 DEF k
    <3> QED BY <3>1, <3>2, <3>3
  <2>2. ASSUME NEW j \in 1..Len(scrapes'), scrapes'[j].open
        PROVE  /\ underWay'[<<scrapes'[j].surface, scrapes'[j].of>>] = j
               /\ scrapes'[j].began <= pollTime' /\ pollTime' <= scrapes'[j].began + ReadTimeout
    <3>1. j # i /\ scrapes[j].open /\ j \in 1..Len(scrapes) /\ scrapes[j] \in Scrape
      BY <1>1, <2>2
    <3> DEFINE l == <<scrapes[j].surface, scrapes[j].of>>
    <3>2. underWay[l] = j /\ scrapes[j].began <= pollTime /\ pollTime <= scrapes[j].began + ReadTimeout
      BY <3>1 DEF LiveInv, KeysAndReads
    <3>3. underWay[k] = i /\ l \in Live!Keys
      BY <3>1 DEF LiveInv, KeysAndReads, k, Live!Keys, Scrape
    <3>4. underWay'[l] = j
      BY <3>1, <3>2, <3>3, <1>1, <1>2, <1>3
    <3> QED BY <3>1, <3>2, <3>4
  <2> QED BY <2>1, <2>2 DEF KeysAndReads, Live!Keys
<1>8. ASSUME NEW r \in Polls, NEW s \in Surfaces PROVE WaitsForIts(r, s)'
  <2> SUFFICES ASSUME polls'[r].waits[s] # 0 PROVE WaitsForIts(r, s)'
    BY DEF WaitsForIts
  <2>1. polls[r].waits[s] # i /\ polls'[r].waits[s] = polls[r].waits[s] /\ polls[r].waits[s] # 0
    BY <1>5
  <2>2. /\ polls[r].waits[s] \in 1..Len(scrapes) /\ scrapes[polls[r].waits[s]].open
        /\ scrapes[polls[r].waits[s]].surface = s /\ scrapes[polls[r].waits[s]].of = polls[r].of
        /\ scrapes[polls[r].waits[s]].began + ReadTimeout >= polls[r].at
    BY <2>1 DEF LiveInv, WaitsForIts
  <2> QED BY <2>1, <2>2, <1>5 DEF WaitsForIts
<1>9. KeptIsOwn'
  <2>1. ASSUME NEW l \in Live!Keys, kept'[l] # <<>>
        PROVE  kept'[l][1].of = l[2] /\ kept'[l][1].at <= kept'[l][1].began + ReadTimeout
    <3>1. CASE l = k
      BY <3>1, <1>1, <1>2, <1>3, <1>4
    <3>2. CASE l # k
      BY <3>2, <2>1, <1>1, <1>2, <1>3 DEF LiveInv, KeptIsOwn
    <3> QED BY <3>1, <3>2
  <2> QED BY <2>1 DEF KeptIsOwn, Live!Keys
<1>10. Live!AnswersItsQuestion'
  <2> SUFFICES ASSUME NEW r \in Polls, NEW s \in Surfaces, polls'[r].got[s] # <<>>
               PROVE  /\ polls'[r].got[s][1].of = polls'[r].of
                      /\ polls'[r].got[s][1].began > polls'[r].at - (IF polls'[r].got[s][1].ok THEN OkTTL ELSE FailTTL) - ReadTimeout
    BY DEF Live!AnswersItsQuestion
  <2>1. CASE polls[r].waits[s] = i
    <3>1. scrapes[i].of = polls[r].of /\ scrapes[i].began + ReadTimeout >= polls[r].at
      BY <2>1 DEF LiveInv, WaitsForIts
    <3>2. polls[r].at \in 0..MaxPollTime
      BY <1>5 DEF Poll
    <3>3. polls'[r].got[s][1] = v /\ polls'[r].of = polls[r].of /\ polls'[r].at = polls[r].at
      BY <2>1, <1>2, <1>5
    <3>4. (IF v.ok THEN OkTTL ELSE FailTTL) \in Nat \ {0}
      BY <1>1
    <3>5. v.began > polls[r].at - (IF v.ok THEN OkTTL ELSE FailTTL) - ReadTimeout
      BY <3>1, <3>2, <3>4, <1>1, <1>4
    <3> QED BY <3>1, <3>3, <3>5, <1>4
  <2>2. CASE polls[r].waits[s] # i
    BY <2>2, <1>5 DEF LiveInv, Live!AnswersItsQuestion
  <2> QED BY <2>1, <2>2
<1> QED BY <1>6, <1>7, <1>8, <1>9, <1>10 DEF LiveInv

LEMMA SurfacesAreCounted == \A S : Live!Cardinality(S) = Cardinality(S) /\ (Live!IsFiniteSet(S) <=> IsFiniteSet(S))
BY DEF Live!Cardinality, Cardinality, Live!IsFiniteSet, IsFiniteSet

(* The new reads of a request: one of each surface, in some order. *)
Order(S) == CHOOSE q \in [1..Live!Cardinality(S) -> S] : \A i, j \in DOMAIN q : q[i] = q[j] => i = j

LEMMA InSomeOrder ==
  ASSUME Live!DiscoveryAssumption, NEW S \in SUBSET Surfaces
  PROVE  /\ Live!Cardinality(S) \in Nat /\ Order(S) \in [1..Live!Cardinality(S) -> S]
         /\ \A i, j \in 1..Live!Cardinality(S) : Order(S)[i] = Order(S)[j] => i = j
         /\ \A s \in S : \E i \in 1..Live!Cardinality(S) : Order(S)[i] = s
<1> DEFINE n == Cardinality(S)
           q == Order(S)
<1>1. IsFiniteSet(S) /\ Live!Cardinality(S) = n
  BY SurfacesAreCounted, FS_Subset DEF Live!DiscoveryAssumption
<1>2. n \in Nat /\ ExistsBijection(1..n, S)
  BY <1>1, FS_CardinalityType
<1> HIDE DEF n
<1>3. \E p \in [1..n -> S] : \A i, j \in DOMAIN p : p[i] = p[j] => i = j
  BY <1>2 DEF ExistsBijection, Bijection, Injection, IsInjective
<1>4. q \in [1..n -> S] /\ \A i, j \in DOMAIN q : q[i] = q[j] => i = j
  BY <1>1, <1>3 DEF Order
<1>5. q \in Injection(1..n, S)
  BY <1>4 DEF Injection, IsInjective
<1>6. Cardinality(1..n) = n
  BY <1>2, FS_Interval
<1>7. q \in Surjection(1..n, S)
  BY <1>1, <1>5, <1>6, FS_Injection DEF n
<1> QED BY <1>1, <1>2, <1>4, <1>7 DEF Surjection

LEMMA Behind ==
  ASSUME NEW S, NEW p \in Seq(S), NEW q \in Seq(S)
  PROVE  p \o q \in Seq(S) /\ Len(p \o q) = Len(p) + Len(q)
OBVIOUS

LEMMA Replaced ==
  ASSUME NEW S, NEW p \in Seq(S), NEW i \in 1..Len(p), NEW t \in S
  PROVE  /\ [p EXCEPT ![i] = t] \in Seq(S) /\ Len([p EXCEPT ![i] = t]) = Len(p) /\ [p EXCEPT ![i] = t][i] = t
         /\ \A j \in 1..Len(p) : j # i => [p EXCEPT ![i] = t][j] = p[j]
OBVIOUS

(* A request asks all surfaces at once. *)
LEMMA AskedWell ==
  ASSUME Live!DiscoveryAssumption, LiveInv, NEW r \in Polls, NEW a \in Askers, Live!Ask(r, a)
  PROVE  LiveInv'
<1> DEFINE key(s) == <<s, a>>
           New == {s \in Surfaces : ~Live!Fresh(key(s)) /\ underWay[key(s)] = 0}
           n == Live!Cardinality(New)
           order == Order(New)
           index(s) == CHOOSE i \in DOMAIN order : order[i] = s
           place(s) == Len(scrapes) + index(s)
           read(s) == [surface |-> s, of |-> a, began |-> pollTime, open |-> TRUE,
                       at |-> IF s \in Browsed THEN "lock" ELSE "platform"]
           fresh == [i \in 1..n |-> read(order[i])]
           W == [s \in Surfaces |-> IF Live!Fresh(key(s)) THEN 0 ELSE IF s \in New THEN place(s) ELSE underWay[key(s)]]
           G == [s \in Surfaces |-> IF Live!Fresh(key(s)) THEN kept[key(s)] ELSE <<>>]
           R == [asked |-> TRUE, of |-> a, at |-> pollTime, waits |-> W, got |-> G]
<1>1. /\ pollTime \in 0..MaxPollTime /\ kept \in [Live!Keys -> Answers] /\ underWay \in [Live!Keys -> Nat]
      /\ scrapes \in Seq(Scrape) /\ Len(scrapes) <= MaxScrapes /\ polls \in [Polls -> Poll]
      /\ ReadTimeout \in Nat /\ OkTTL \in Nat \ {0} /\ FailTTL \in Nat \ {0}
      /\ MaxPollTime \in Nat /\ Len(scrapes) \in Nat /\ MaxScrapes \in Nat
  BY DEF LiveInv, LiveTypes, Live!DiscoveryAssumption
<1>2. /\ n \in Nat /\ order \in [1..n -> New] /\ New \subseteq Surfaces
      /\ \A i, j \in 1..n : order[i] = order[j] => i = j
      /\ \A s \in New : \E i \in 1..n : order[i] = s
  <2>1. New \in SUBSET Surfaces
    OBVIOUS
  <2> HIDE DEF New
  <2> QED BY <2>1, InSomeOrder
<1>3. /\ polls' = [polls EXCEPT ![r] = R] /\ scrapes' = scrapes \o fresh
      /\ underWay' = [k \in Live!Keys |-> IF \E s \in New : k = key(s) THEN place(k[1]) ELSE underWay[k]]
      /\ kept' = kept /\ pollTime' = pollTime /\ Len(scrapes) + n <= MaxScrapes
  BY <1>2 DEF Live!Ask, Live!Key, Order
<1>4. \A s \in New : index(s) \in 1..n /\ order[index(s)] = s
  BY <1>2
<1>5. \A s \in Surfaces : key(s) \in Live!Keys /\ key(s)[1] = s /\ key(s)[2] = a
  BY DEF Live!Keys
<1>6. \A s \in Surfaces : read(s) \in Scrape /\ read(s).surface = s /\ read(s).of = a /\ read(s).began = pollTime
                          /\ read(s).open /\ read(s).at # "browser"
  BY <1>1 DEF Scrape
<1> HIDE DEF read, order, n, index
<1>7. fresh \in Seq(Scrape) /\ Len(fresh) = n
  <2>1. \A i \in 1..n : read(order[i]) \in Scrape
    BY <1>2, <1>6
  <2> QED BY <2>1, <1>2
<1>8. /\ scrapes' \in Seq(Scrape) /\ Len(scrapes') = Len(scrapes) + n
      /\ \A i \in 1..Len(scrapes) : scrapes'[i] = scrapes[i]
      /\ \A i \in 1..n : scrapes'[Len(scrapes) + i] = read(order[i])
  <2>1. \A i \in 1..n : fresh[i] = read(order[i])
    OBVIOUS
  <2> HIDE DEF fresh
  <2>2. scrapes' \in Seq(Scrape) /\ Len(scrapes') = Len(scrapes) + n
    BY <1>1, <1>3, <1>7, Behind
  <2>3. \A i \in 1..Len(scrapes) : scrapes'[i] = scrapes[i]
    BY <1>1, <1>2, <1>3, <1>7
  <2>4. ASSUME NEW i \in 1..n PROVE scrapes'[Len(scrapes) + i] = read(order[i])
    <3>1. Len(scrapes) + i \in 1..(Len(scrapes) + n) /\ ~(Len(scrapes) + i <= Len(scrapes)) /\ Len(scrapes) + i - Len(scrapes) = i
      BY <1>1, <1>2
    <3> QED BY <3>1, <2>1, <1>1, <1>2, <1>3, <1>7
  <2> QED BY <2>2, <2>3, <2>4
<1>9. \A s \in New : /\ place(s) \in 1..Len(scrapes') /\ place(s) > Len(scrapes) /\ place(s) # 0
                     /\ scrapes'[place(s)] = read(s)
  BY <1>1, <1>2, <1>4, <1>8
<1>10. \A j \in 1..Len(scrapes') : j \in 1..Len(scrapes) \/ \E s \in New : j = place(s)
  <2> SUFFICES ASSUME NEW j \in 1..Len(scrapes'), j \notin 1..Len(scrapes) PROVE \E s \in New : j = place(s)
    OBVIOUS
  <2> DEFINE i == j - Len(scrapes)
  <2>1. i \in 1..n /\ j = Len(scrapes) + i
    BY <1>1, <1>2, <1>8
  <2>2. order[i] \in New /\ index(order[i]) = i
    BY <2>1, <1>2, <1>4
  <2> QED BY <2>1, <2>2
<1> HIDE DEF place, fresh
<1>11. \A s \in New : underWay'[key(s)] = place(s)
  BY <1>2, <1>3, <1>5
<1>12. ASSUME NEW k \in Live!Keys, ~\E s \in New : k = key(s) PROVE underWay'[k] = underWay[k]
  BY <1>3, <1>12
<1>13. R \in Poll /\ R.of = a /\ R.at = pollTime /\ R.waits = W /\ R.got = G
  <2>1. W \in [Surfaces -> Nat]
    BY <1>1, <1>5, <1>9, <1>8
  <2>2. G \in [Surfaces -> Answers]
    BY <1>1, <1>5 DEF Answers
  <2> QED BY <1>1, <2>1, <2>2 DEF Poll
<1>14. polls' \in [Polls -> Poll] /\ polls'[r] = R /\ \A q \in Polls : q # r => polls'[q] = polls[q]
  BY <1>1, <1>3, <1>13
<1>15. \A s \in Surfaces : key(s) = <<s, a>>
  OBVIOUS
<1>16. LiveTypes'
  <2>1. underWay' \in [Live!Keys -> Nat]
    <3>1. ASSUME NEW k \in Live!Keys PROVE underWay'[k] \in Nat
      <4>1. CASE \E s \in New : k = key(s)
        BY <4>1, <1>1, <1>8, <1>9, <1>11
      <4>2. CASE ~\E s \in New : k = key(s)
        BY <4>2, <1>1, <1>12
      <4> QED BY <4>1, <4>2
    <3> QED BY <1>3, <3>1
  <2> QED BY <1>1, <1>2, <1>3, <1>8, <1>14, <2>1 DEF LiveTypes, Live!Keys, Answers, Live!Values, Scrape, Poll
<1>17. KeysAndReads'
  <2>1. ASSUME NEW k \in Live!Keys, underWay'[k] # 0
        PROVE  /\ underWay'[k] \in 1..Len(scrapes') /\ scrapes'[underWay'[k]].open
               /\ k = <<scrapes'[underWay'[k]].surface, scrapes'[underWay'[k]].of>>
    <3>1. ASSUME NEW s \in New, k = key(s)
          PROVE  /\ underWay'[k] \in 1..Len(scrapes') /\ scrapes'[underWay'[k]].open
                 /\ k = <<scrapes'[underWay'[k]].surface, scrapes'[underWay'[k]].of>>
      BY <3>1, <1>2, <1>6, <1>9, <1>11
    <3>2. CASE ~\E s \in New : k = key(s)
      <4>1. underWay'[k] = underWay[k]
        BY <3>2, <1>12
      <4>2. /\ underWay[k] \in 1..Len(scrapes) /\ scrapes[underWay[k]].open
            /\ k = <<scrapes[underWay[k]].surface, scrapes[underWay[k]].of>>
        BY <4>1, <2>1 DEF LiveInv, KeysAndReads
      <4> QED BY <4>1, <4>2, <1>1, <1>2, <1>8
    <3> QED BY <3>1, <3>2
  <2>2. ASSUME NEW j \in 1..Len(scrapes'), scrapes'[j].open
        PROVE  /\ underWay'[<<scrapes'[j].surface, scrapes'[j].of>>] = j
               /\ scrapes'[j].began <= pollTime' /\ pollTime' <= scrapes'[j].began + ReadTimeout
    <3>1. CASE j \in 1..Len(scrapes)
      <4> DEFINE k == <<scrapes[j].surface, scrapes[j].of>>
      <4>1. /\ underWay[k] = j /\ scrapes[j].began <= pollTime /\ pollTime <= scrapes[j].began + ReadTimeout
            /\ scrapes'[j] = scrapes[j]
        BY <3>1, <2>2, <1>8 DEF LiveInv, KeysAndReads
      <4>2. k \in Live!Keys
        <5>1. scrapes[j] \in Scrape
          BY <3>1, <1>1
        <5> QED BY <5>1 DEF Live!Keys, Scrape
      <4> HIDE DEF k
      <4>3. ~\E s \in New : k = key(s)
        <5>1. \A s \in New : underWay[key(s)] = 0
          OBVIOUS
        <5> HIDE DEF New, key
        <5> QED BY <3>1, <4>1, <5>1
      <4>4. underWay'[k] = j
        BY <4>1, <4>2, <4>3, <1>12
      <4>5. <<scrapes'[j].surface, scrapes'[j].of>> = k
        BY <4>1 DEF k
      <4>6. scrapes'[j].began = scrapes[j].began /\ pollTime' = pollTime
        BY <4>1, <1>3
      <4>7. underWay'[<<scrapes'[j].surface, scrapes'[j].of>>] = j
        BY <4>4, <4>5
      <4>8. scrapes[j].began <= pollTime /\ pollTime <= scrapes[j].began + ReadTimeout
        BY <4>1
      <4>9. scrapes'[j].began <= pollTime' /\ pollTime' <= scrapes'[j].began + ReadTimeout
        BY <4>6, <4>8
      <4> QED BY <4>7, <4>9
    <3>2. ASSUME NEW s \in New, j = place(s)
          PROVE  /\ underWay'[<<scrapes'[j].surface, scrapes'[j].of>>] = j
                 /\ scrapes'[j].began <= pollTime' /\ pollTime' <= scrapes'[j].began + ReadTimeout
      <4>1. s \in Surfaces /\ scrapes'[j] = read(s) /\ underWay'[key(s)] = j
        BY <3>2, <1>2, <1>9, <1>11
      <4>2. scrapes'[j].surface = s /\ scrapes'[j].of = a /\ scrapes'[j].began = pollTime
        BY <4>1, <1>6
      <4>3. <<scrapes'[j].surface, scrapes'[j].of>> = key(s)
        BY <4>2
      <4> HIDE DEF New, W, G, R, key
      <4>4. scrapes'[j].began <= pollTime' /\ pollTime' <= scrapes'[j].began + ReadTimeout
        BY <4>2, <1>1, <1>3
      <4> QED BY <4>1, <4>3, <4>4
    <3> QED BY <3>1, <3>2, <1>10
  <2> QED BY <2>1, <2>2 DEF KeysAndReads, Live!Keys
<1>18. ASSUME NEW q \in Polls, NEW s \in Surfaces PROVE WaitsForIts(q, s)'
  <2>1. CASE q # r
    <3> SUFFICES ASSUME polls'[q].waits[s] # 0 PROVE WaitsForIts(q, s)'
      BY DEF WaitsForIts
    <3>1. polls'[q] = polls[q]
      BY <2>1, <1>14
    <3>2. /\ polls[q].waits[s] \in 1..Len(scrapes) /\ scrapes[polls[q].waits[s]].open
          /\ scrapes[polls[q].waits[s]].surface = s /\ scrapes[polls[q].waits[s]].of = polls[q].of
          /\ scrapes[polls[q].waits[s]].began + ReadTimeout >= polls[q].at
      BY <3>1 DEF LiveInv, WaitsForIts
    <3>3. polls[q].waits[s] \in 1..Len(scrapes') /\ scrapes'[polls[q].waits[s]] = scrapes[polls[q].waits[s]]
      BY <3>2, <1>1, <1>2, <1>8
    <3> QED BY <3>1, <3>2, <3>3 DEF WaitsForIts
  <2>2. CASE q = r
    <3>1. polls'[q].of = a /\ polls'[q].at = pollTime
      BY <2>2, <1>13, <1>14
    <3>2. CASE Live!Fresh(key(s))
      <4>1. polls'[q].waits[s] = 0
        BY <2>2, <3>2, <1>13, <1>14
      <4> QED BY <4>1 DEF WaitsForIts
    <3>3. CASE ~Live!Fresh(key(s)) /\ s \in New
      <4>1. polls'[q].waits[s] = place(s)
        BY <2>2, <3>3, <1>13, <1>14
      <4>2. scrapes'[place(s)] = read(s) /\ place(s) \in 1..Len(scrapes')
        BY <3>3, <1>9
      <4>3. /\ read(s).surface = s /\ read(s).of = a /\ read(s).began = pollTime /\ read(s).open
        BY <1>6
      <4> QED BY <4>1, <4>2, <4>3, <3>1, <1>1 DEF WaitsForIts
    <3>4. CASE ~Live!Fresh(key(s)) /\ s \notin New
      <4> DEFINE w == underWay[key(s)]
      <4>1. polls'[q].waits[s] = w /\ w # 0
        BY <2>2, <3>4, <1>13, <1>14
      <4>2. w \in 1..Len(scrapes) /\ scrapes[w].open /\ scrapes[w].surface = s /\ scrapes[w].of = a
        BY <4>1, <1>5 DEF LiveInv, KeysAndReads
      <4>3. pollTime <= scrapes[w].began + ReadTimeout /\ scrapes[w].began \in 0..MaxPollTime
        <5>1. scrapes[w] \in Scrape
          BY <4>2, <1>1
        <5> QED BY <4>2, <5>1 DEF LiveInv, KeysAndReads, Scrape
      <4>4. w \in 1..Len(scrapes') /\ scrapes'[w] = scrapes[w]
        BY <4>2, <1>1, <1>2, <1>8
      <4> QED BY <4>1, <4>2, <4>3, <4>4, <3>1, <1>1 DEF WaitsForIts
    <3> QED BY <3>2, <3>3, <3>4
  <2> QED BY <2>1, <2>2
<1>19. KeptIsOwn'
  BY <1>3 DEF LiveInv, KeptIsOwn, Live!Keys
<1>20. OneBrowser'
  <2>1. \A j \in 1..Len(scrapes') : scrapes'[j].at = "browser" => j \in 1..Len(scrapes) /\ scrapes[j].at = "browser"
    <3> SUFFICES ASSUME NEW j \in 1..Len(scrapes'), scrapes'[j].at = "browser"
                 PROVE  j \in 1..Len(scrapes) /\ scrapes[j].at = "browser"
      OBVIOUS
    <3>1. ASSUME NEW s \in New, j = place(s) PROVE FALSE
      BY <3>1, <1>2, <1>6, <1>9
    <3>2. j \in 1..Len(scrapes)
      BY <3>1, <1>10
    <3> QED BY <3>2, <1>8
  <2> QED BY <2>1 DEF LiveInv, OneBrowser
<1>21. Live!AnswersItsQuestion'
  <2> SUFFICES ASSUME NEW q \in Polls, NEW s \in Surfaces, polls'[q].got[s] # <<>>
               PROVE  /\ polls'[q].got[s][1].of = polls'[q].of
                      /\ polls'[q].got[s][1].began > polls'[q].at - (IF polls'[q].got[s][1].ok THEN OkTTL ELSE FailTTL) - ReadTimeout
    BY DEF Live!AnswersItsQuestion
  <2>1. CASE q # r
    BY <2>1, <1>14 DEF LiveInv, Live!AnswersItsQuestion
  <2>2. CASE q = r
    <3> DEFINE v == kept[key(s)][1]
               T == IF v.ok THEN OkTTL ELSE FailTTL
    <3>1. Live!Fresh(key(s)) /\ polls'[q].got[s] = kept[key(s)] /\ polls'[q].of = a /\ polls'[q].at = pollTime
      BY <2>2, <1>13, <1>14
    <3>2. kept[key(s)] # <<>> /\ pollTime - v.at < T
      BY <3>1 DEF Live!Fresh, Live!TTL
    <3>3. v \in Live!Values
      <4>1. kept[key(s)] \in Answers
        BY <1>1, <1>5
      <4> QED BY <4>1, <3>2 DEF Answers
    <3>4. v.at \in 0..MaxPollTime /\ v.began \in 0..MaxPollTime /\ T \in Nat
      BY <3>3, <1>1 DEF Live!Values
    <3>5. v.of = a /\ v.at <= v.began + ReadTimeout
      BY <3>2, <1>5 DEF LiveInv, KeptIsOwn
    <3> HIDE DEF T, v
    <3>6. v.began > pollTime - T - ReadTimeout
      BY <3>2, <3>4, <3>5, <1>1
    <3> QED BY <3>1, <3>5, <3>6 DEF T, v
  <2> QED BY <2>1, <2>2
<1> QED BY <1>16, <1>17, <1>18, <1>19, <1>20, <1>21 DEF LiveInv

LEMMA LiveKept == ASSUME Live!DiscoveryAssumption, LiveInv, [Live!Next]_Live!vars PROVE LiveInv'
<1> USE DEF LiveInv
<1>0. /\ pollTime \in 0..MaxPollTime /\ scrapes \in Seq(Scrape) /\ Len(scrapes) \in Nat
      /\ ReadTimeout \in Nat /\ MaxPollTime \in Nat /\ DOMAIN scrapes = 1..Len(scrapes)
  BY DEF LiveTypes, Live!DiscoveryAssumption
<1>1. ASSUME NEW r \in Polls, NEW a \in Askers, Live!Ask(r, a) PROVE LiveInv'
  BY <1>1, AskedWell
<1>2. ASSUME NEW i \in DOMAIN scrapes, Live!Browse(i) PROVE LiveInv'
  <2>1. /\ i \in 1..Len(scrapes) /\ scrapes' = [scrapes EXCEPT ![i].at = "browser"] /\ scrapes[i] \in Scrape
        /\ pollTime' = pollTime /\ kept' = kept /\ underWay' = underWay /\ polls' = polls
        /\ \A j \in 1..Len(scrapes) : scrapes[j].at # "browser"
    BY <1>0, <1>2 DEF Live!Browse, Live!OpensBrowser
  <2>2. /\ scrapes' \in Seq(Scrape) /\ Len(scrapes') = Len(scrapes)
        /\ \A j \in 1..Len(scrapes) :
             /\ scrapes'[j].surface = scrapes[j].surface /\ scrapes'[j].of = scrapes[j].of
             /\ scrapes'[j].began = scrapes[j].began /\ scrapes'[j].open = scrapes[j].open
             /\ scrapes'[j].at = "browser" => j = i
    <3> DEFINE t == [scrapes[i] EXCEPT !.at = "browser"]
    <3>1. /\ t \in Scrape /\ t.surface = scrapes[i].surface /\ t.of = scrapes[i].of /\ t.began = scrapes[i].began
          /\ t.open = scrapes[i].open
      BY <2>1 DEF Scrape
    <3>2. scrapes' = [scrapes EXCEPT ![i] = t]
      BY <2>1
    <3> HIDE DEF t
    <3>3. scrapes' \in Seq(Scrape) /\ Len(scrapes') = Len(scrapes) /\ scrapes'[i] = t
      <4>1. scrapes \in Seq(Scrape) /\ i \in 1..Len(scrapes) /\ t \in Scrape
        BY <1>0, <2>1, <3>1
      <4> QED BY <4>1, <3>2, Replaced
    <3>4. \A j \in 1..Len(scrapes) : j # i => scrapes'[j] = scrapes[j]
      BY <1>0, <3>2
    <3> QED BY <2>1, <3>1, <3>3, <3>4
  <2>3. LiveTypes'
    BY <2>1, <2>2 DEF LiveTypes, Live!Keys, Answers, Live!Values, Scrape, Poll
  <2>4. KeysAndReads'
    BY <2>1, <2>2 DEF KeysAndReads, Live!Keys
  <2>5. ASSUME NEW r \in Polls, NEW s \in Surfaces PROVE WaitsForIts(r, s)'
    <3>1. WaitsForIts(r, s)
      OBVIOUS
    <3> QED BY <2>1, <2>2, <3>1 DEF WaitsForIts
  <2>6. KeptIsOwn' /\ Live!AnswersItsQuestion'
    BY <2>1 DEF KeptIsOwn, Live!AnswersItsQuestion, Live!Keys
  <2>7. OneBrowser'
    BY <2>2 DEF OneBrowser
  <2> QED BY <2>3, <2>4, <2>5, <2>6, <2>7
<1>3. ASSUME NEW i \in DOMAIN scrapes, NEW ok \in BOOLEAN, Live!Returns(i, ok) PROVE LiveInv'
  <2>1. /\ i \in 1..Len(scrapes) /\ scrapes' = [scrapes EXCEPT ![i].at = "over", ![i].open = FALSE]
        /\ scrapes[i] \in Scrape /\ pollTime' = pollTime
    BY <1>0, <1>3 DEF Live!Returns
  <2>2. /\ scrapes' \in Seq(Scrape) /\ Len(scrapes') = Len(scrapes)
        /\ \A j \in 1..Len(scrapes) :
             /\ scrapes'[j].surface = scrapes[j].surface /\ scrapes'[j].of = scrapes[j].of
             /\ scrapes'[j].began = scrapes[j].began
             /\ scrapes'[j].open <=> scrapes[j].open /\ j # i
    <3> DEFINE t == [scrapes[i] EXCEPT !.at = "over", !.open = FALSE]
    <3>1. /\ t \in Scrape /\ t.surface = scrapes[i].surface /\ t.of = scrapes[i].of /\ t.began = scrapes[i].began
          /\ t.open = FALSE /\ t.at = "over"
      BY <2>1 DEF Scrape
    <3>2. scrapes' = [scrapes EXCEPT ![i] = t]
      BY <2>1
    <3> HIDE DEF t
    <3>3. scrapes' \in Seq(Scrape) /\ Len(scrapes') = Len(scrapes) /\ scrapes'[i] = t
      <4>1. scrapes \in Seq(Scrape) /\ i \in 1..Len(scrapes) /\ t \in Scrape
        BY <1>0, <2>1, <3>1
      <4> QED BY <4>1, <3>2, Replaced
    <3>4. \A j \in 1..Len(scrapes) : j # i => scrapes'[j] = scrapes[j]
      BY <1>0, <3>2
    <3> QED BY <3>1, <3>3, <3>4
  <2>3. \A j \in 1..Len(scrapes) : scrapes'[j].at = "browser" => scrapes[j].at = "browser"
    BY <1>0, <2>1 DEF Scrape
  <2>4. OneBrowser'
    BY <2>2, <2>3 DEF OneBrowser
  <2>5. CASE scrapes[i].open
    BY <2>1, <2>2, <2>4, <2>5, <1>3, SettledWell DEF Live!Returns
  <2>6. CASE ~scrapes[i].open
    <3>1. kept' = kept /\ underWay' = underWay /\ polls' = polls
      BY <2>6, <1>3 DEF Live!Returns
    <3>2. \A j \in 1..Len(scrapes) : scrapes'[j].open <=> scrapes[j].open
      BY <2>2, <2>6
    <3>3. LiveTypes'
      BY <2>1, <2>2, <3>1 DEF LiveTypes, Live!Keys, Answers, Live!Values, Scrape, Poll
    <3>4. KeysAndReads'
      BY <2>1, <2>2, <3>1, <3>2 DEF KeysAndReads, Live!Keys
    <3>5. ASSUME NEW r \in Polls, NEW s \in Surfaces PROVE WaitsForIts(r, s)'
      <4>1. WaitsForIts(r, s)
        OBVIOUS
      <4> QED BY <2>2, <3>1, <3>2, <4>1 DEF WaitsForIts
    <3>6. KeptIsOwn' /\ Live!AnswersItsQuestion'
      BY <3>1 DEF KeptIsOwn, Live!AnswersItsQuestion, Live!Keys
    <3> QED BY <2>4, <3>3, <3>4, <3>5, <3>6
  <2> QED BY <2>5, <2>6
<1>4. ASSUME NEW i \in DOMAIN scrapes, Live!TimesOut(i) PROVE LiveInv'
  <2>1. /\ i \in 1..Len(scrapes) /\ scrapes' = [scrapes EXCEPT ![i].open = FALSE] /\ scrapes[i].open
        /\ scrapes[i] \in Scrape /\ pollTime' = pollTime /\ Live!Settle(i, FALSE)
    <3>1. /\ scrapes[i].open /\ scrapes' = [scrapes EXCEPT ![i].open = FALSE] /\ Live!Settle(i, FALSE)
          /\ UNCHANGED pollTime
      BY <1>4 DEF Live!TimesOut
    <3>2. i \in 1..Len(scrapes) /\ scrapes[i] \in Scrape
      BY <1>0
    <3> QED BY <3>1, <3>2
  <2>2. /\ scrapes' \in Seq(Scrape) /\ Len(scrapes') = Len(scrapes)
        /\ \A j \in 1..Len(scrapes) :
             /\ scrapes'[j].surface = scrapes[j].surface /\ scrapes'[j].of = scrapes[j].of
             /\ scrapes'[j].began = scrapes[j].began
             /\ scrapes'[j].open <=> scrapes[j].open /\ j # i
    <3> DEFINE t == [scrapes[i] EXCEPT !.open = FALSE]
    <3>1. /\ t \in Scrape /\ t.surface = scrapes[i].surface /\ t.of = scrapes[i].of /\ t.began = scrapes[i].began
          /\ t.open = FALSE
      BY <2>1 DEF Scrape
    <3>2. scrapes' = [scrapes EXCEPT ![i] = t]
      BY <2>1
    <3> HIDE DEF t
    <3>3. scrapes' \in Seq(Scrape) /\ Len(scrapes') = Len(scrapes) /\ scrapes'[i] = t
      <4>1. scrapes \in Seq(Scrape) /\ i \in 1..Len(scrapes) /\ t \in Scrape
        BY <1>0, <2>1, <3>1
      <4> QED BY <4>1, <3>2, Replaced
    <3>4. \A j \in 1..Len(scrapes) : j # i => scrapes'[j] = scrapes[j]
      BY <1>0, <3>2
    <3> QED BY <3>1, <3>3, <3>4
  <2>3. \A j \in 1..Len(scrapes) : scrapes'[j].at = scrapes[j].at
    BY <1>0, <2>1 DEF Scrape
  <2>4. OneBrowser'
    BY <2>2, <2>3 DEF OneBrowser
  <2> QED BY <2>1, <2>2, <2>4, SettledWell
<1>5. CASE Live!Tick
  <2>1. /\ pollTime' = pollTime + 1 /\ pollTime' \in 0..MaxPollTime /\ kept' = kept /\ underWay' = underWay
        /\ scrapes' = scrapes /\ polls' = polls
        /\ \A i \in 1..Len(scrapes) : scrapes[i].open => pollTime - scrapes[i].began < ReadTimeout
    BY <1>0, <1>5 DEF Live!Tick
  <2>2. \A i \in 1..Len(scrapes) : scrapes[i].began \in 0..MaxPollTime
    <3>1. \A i \in 1..Len(scrapes) : scrapes[i] \in Scrape
      BY <1>0
    <3> QED BY <3>1 DEF Scrape
  <2>3. LiveTypes'
    BY <2>1 DEF LiveTypes, Live!Keys, Answers, Live!Values, Scrape, Poll
  <2>4. KeysAndReads'
    BY <1>0, <2>1, <2>2 DEF KeysAndReads, Live!Keys
  <2> QED BY <2>1, <2>3, <2>4 DEF WaitsForIts, KeptIsOwn, OneBrowser, Live!AnswersItsQuestion, Live!Keys
<1>6. CASE UNCHANGED Live!vars
  BY <1>6 DEF Live!vars, LiveTypes, KeysAndReads, WaitsForIts, KeptIsOwn, OneBrowser, Live!AnswersItsQuestion,
     Live!Keys, Answers, Live!Values, Scrape, Poll
<1> QED BY <1>1, <1>2, <1>3, <1>4, <1>5, <1>6 DEF Live!Next

(* However many ask at once, for whom, and however long a platform hangs:   *)
(* the answer a request is given is to its own question and of a read that  *)
(* began at most a timeout before the life of such an answer; one read of a *)
(* question is waited for at a time, and one browser is open                *)
(* (discover/service.ts, live and withTimeout).                             *)
THEOREM ReadsServeTheirAskers ==
  Live!DiscoveryAssumption => (Live!Spec => [](Live!AnswersItsQuestion /\ Live!ReadsAreShared))
<1> SUFFICES ASSUME Live!DiscoveryAssumption PROVE Live!Spec => [](Live!AnswersItsQuestion /\ Live!ReadsAreShared)
  OBVIOUS
<1>1. LiveInv => Live!AnswersItsQuestion /\ Live!ReadsAreShared
  <2> SUFFICES ASSUME LiveInv PROVE Live!ReadsAreShared
    BY DEF LiveInv
  <2>1. DOMAIN scrapes = 1..Len(scrapes)
    BY DEF LiveInv, LiveTypes
  <2>2. \A i, j \in DOMAIN scrapes : scrapes[i].open /\ scrapes[j].open /\ i # j =>
          <<scrapes[i].surface, scrapes[i].of>> # <<scrapes[j].surface, scrapes[j].of>>
    <3> SUFFICES ASSUME NEW i \in 1..Len(scrapes), NEW j \in 1..Len(scrapes), scrapes[i].open, scrapes[j].open,
                        <<scrapes[i].surface, scrapes[i].of>> = <<scrapes[j].surface, scrapes[j].of>>
                 PROVE  i = j
      BY <2>1
    <3>1. /\ underWay[<<scrapes[i].surface, scrapes[i].of>>] = i
          /\ underWay[<<scrapes[j].surface, scrapes[j].of>>] = j
      BY DEF LiveInv, KeysAndReads
    <3> QED BY <3>1
  <2> DEFINE B == {i \in DOMAIN scrapes : scrapes[i].at = "browser"}
  <2>3. Cardinality(B) <= 1
    <3>1. CASE B = {}
      <4> HIDE DEF B
      <4> QED BY <3>1, FS_EmptySet
    <3>2. ASSUME NEW b \in B PROVE Cardinality(B) <= 1
      <4>1. B = {b}
        BY <2>1, <3>2 DEF LiveInv, OneBrowser
      <4> HIDE DEF B
      <4>2. Cardinality({b}) = 1
        BY FS_Singleton
      <4> QED BY <4>1, <4>2
    <3> QED BY <3>1, <3>2
  <2> QED BY <2>2, <2>3, SurfacesAreCounted DEF Live!ReadsAreShared
<1>2. LiveInv /\ [Live!Next]_Live!vars => LiveInv'
  BY LiveKept
<1> QED BY <1>1, <1>2, LiveBegins, PTL DEF Live!Spec

================================================================================
