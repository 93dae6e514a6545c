------------------------- MODULE ShowRegistryProofs -------------------------
(***************************************************************************)
(* For any number of attach requests, detaches, sellers and rooms, and     *)
(* whatever fails: the registry keeps its limits, loses no room, says that *)
(* a watched session is live, and after a crash leaves no session on air   *)
(* that nobody minds.                                                      *)
(*                                                                         *)
(* The argument.  An attach in flight and its runtime know each other      *)
(* (Attaches), an open runtime and the map do (Maps), and what an ender    *)
(* holds was in the map and is not built anew (Ends).  So two runtimes of  *)
(* one session need a request that was told to take a session another had  *)
(* just opened; Alone says there is none, because the session a lookup is  *)
(* given is the owner's live row or one nobody has taken, and a live row   *)
(* with a runtime would have been handed out.  That last step is where     *)
(* QuickLookups is used: no room opens between a request's look at the map *)
(* and its claim.  Counted bounds the sessions that are opening or open.   *)
(* OneEach says that before a crash a seller has one live session of a     *)
(* room; so a stray one (Strays) has no rival, and stays on the sweep's    *)
(* list, or with the sweep's own request, until it is watched or ended.    *)
(*                                                                         *)
(* The other parts are about what is around a show.  Its records: its row  *)
(* (ShowRow) and the lots a room is seen to sell (ObservedLots), while the *)
(* updates of one row do not overlap, its corpus (KbSync), its lineup      *)
(* (ShowCatalog) and its audio (AudioChunks).  What it is told by: the     *)
(* host (HostContext), a room read off its page (RoomWatch), Reddit        *)
(* (RedditWatch), and the browser it shares with other shows               *)
(* (SharedBrowser), while they take turns.                                 *)
(***************************************************************************)
EXTENDS ShowRegistry, Sequences, SequenceTheorems, FiniteSetTheorems, WellFoundedInduction, TLAPS

-----------------------------------------------------------------------------
Building == {"select", "write", "owner", "opening"}

(* Who is about to build, or is building, a runtime of session s. *)
Seekers(s) == {c \in Attachers : at[c].id = s /\ at[c].pc \in Building \cup {"claim"}}

Ended(s) == rows[s].status = "ended"

Active == (active = {} \/ \E s \in Sessions : active = {s}) /\ active \subseteq Watched

Rooted == \A c \in Attachers :
  at[c].pc \notin {"idle", "lookup", "lost"} => at[c].id[1] = at[c].room

(* Every session somebody has got hold of has its row. *)
Rowed ==
  /\ \A s \in Sessions : rows[s].status # "absent" => rows[s].owner \in Owners
  /\ \A c \in Attachers : at[c].pc \in {"owner", "opening"} => rows[at[c].id].status # "absent"
  /\ \A s \in Watched : rows[s].status # "absent"
  /\ \A d \in Enders : en[d].pc \in {"finish", "remove"} => rows[en[d].id].status # "absent"
  /\ \A s \in sweep.left : rows[s].status # "absent"
  /\ sweep.pc \in {"resume", "finish"} => rows[sweep.cur].status # "absent"

Shape == Active /\ Rooted /\ Rowed

Attaches ==
  /\ \A c \in Attachers :
       /\ at[c].pc \in Building \cup {"listing"} => attaching[at[c].id] = c
       /\ rt[c].phase = "building" <=> at[c].pc \in Building
       /\ at[c].pc = "joined" => at[c].id \in Starting
       /\ at[c].pc = "opening" => rt[c].owner = rows[at[c].id].owner
  /\ \A s \in Starting :
       at[attaching[s]].id = s /\ at[attaching[s]].pc \in Building \cup {"listing"}

Maps ==
  /\ \A c \in Attachers : rt[c].phase = "open" => runtimes[at[c].id] = c
  /\ \A s \in Watched : LET c == runtimes[s] IN
       /\ at[c].id = s /\ at[c].pc \in {"listing", "given"} /\ rt[c].phase = "open"
       /\ rt[c].owner = rows[s].owner

Alone ==
  /\ \A c \in Attachers :
       /\ at[c].pc = "lookup" => liveRuntime(at[c].room, at[c].owner) = {}
       /\ at[c].pc \in Building \cup {"claim"} => at[c].id \notin Watched
       /\ at[c].pc = "listing" =>
            /\ Seekers(at[c].id) = {} /\ runtimes[at[c].id] \in {c, None}
            /\ at[c].id \in Watched \/ Ended(at[c].id)

Ends == \A d \in Enders :
  /\ en[d].pc \in {"finish", "remove", "close"} =>
       /\ en[d].rt \in Attachers /\ at[en[d].rt].pc \in {"listing", "given"}
       /\ rt[en[d].rt].phase \in {"open", "closing", "closed"}
  /\ en[d].pc \in {"finish", "remove"} =>
       /\ at[en[d].rt].id = en[d].id
       /\ Seekers(en[d].id) = {} /\ runtimes[en[d].id] \in {en[d].rt, None}
       /\ en[d].id \in Watched \/ Ended(en[d].id)
  /\ en[d].pc = "remove" => Ended(en[d].id)
  /\ en[d].pc = "close" => rt[en[d].rt].phase \in {"closing", "closed"}

OnAir == sweep.pc = "never" =>
  /\ \A c \in Attachers : at[c].pc \in {"owner", "opening"} => at[c].id \in Live
  /\ \A s \in Watched : s \in Live \/ \E d \in Enders : en[d].pc = "remove" /\ en[d].id = s

OneEach == sweep.pc = "never" =>
  /\ \A s, t \in Live : s[1] = t[1] /\ rows[s].owner = rows[t].owner => s = t
  /\ \A c \in Attachers : at[c].pc \in {"claim", "select", "write"} =>
       /\ ~Ended(at[c].id)
       /\ rows[at[c].id].status = "absent" =>
            /\ \A s \in Live : s[1] = at[c].room => rows[s].owner # at[c].owner
            /\ \A s \in Sessions : s[1] = at[c].room /\ s[2] < at[c].id[2] => rows[s].status # "absent"

Minded(s) == s \in Watched \cup Starting \/ Asked(s)

Stray(s) == sweep.pc # "never" /\ s \in Live /\ ~Minded(s)

(* whose session t is, or will be when c has written its row *)
OwnerFor(c) == IF rows[at[c].id].status = "absent" THEN at[c].owner ELSE rows[at[c].id].owner

Strays ==
  /\ \A c \in Attachers : at[c].pc = "given" /\ sweep.pc # "never" => ~Stray(at[c].id)
  /\ \A s \in Sessions : Stray(s) =>
     /\ \A t \in Live : t # s /\ t[1] = s[1] => rows[t].owner # rows[s].owner
     /\ \A c \in Attachers : at[c].pc \notin {"idle", "lookup", "lost", "refused"} /\ at[c].id # s /\ at[c].id[1] = s[1]
            => OwnerFor(c) # rows[s].owner
     /\ s \in sweep.left \cup sweep.recent \/ (sweep.pc \in {"resume", "finish"} /\ sweep.cur = s)
     /\ sweep.pc = "resume" /\ sweep.cur = s /\ s \notin sweep.left \cup sweep.recent =>
          \/ at[Sweep].pc = "idle"
          \/ at[Sweep].pc = "lookup" /\ at[Sweep].room = s[1] /\ at[Sweep].owner = rows[s].owner

Through == sweep.pc = "done" => sweep.left = {}

IInv == Shape /\ Attaches /\ Maps /\ Alone /\ Ends /\ OnAir /\ OneEach /\ Strays /\ Through

-----------------------------------------------------------------------------
(* The set with a smallest number has a first session, and one with a       *)
(* largest has a last.                                                      *)
LEMMA SessionParts ==
  ASSUME NEW s \in Sessions
  PROVE  s[1] \in Rooms /\ s[2] \in 1..MaxSession /\ s[2] \in Nat /\ MaxSession - s[2] \in Nat
         /\ s = <<s[1], s[2]>>
BY RegistryAssumption DEF Sessions

LEMMA SmallestNat ==
  ASSUME NEW N \in SUBSET Nat, N # {}
  PROVE  \E m \in N : \A n \in N : m <= n
<1>1. PICK m \in N : \A n \in N : <<n, m>> \notin OpToRel(<, Nat)
  BY WFMin, NatLessThanWellFounded, Zenon
<1>2. \A n \in N : ~(n < m) BY <1>1, Zenon DEF OpToRel
<1> QED BY <1>2

LEMMA FirstSession ==
  ASSUME NEW S \in SUBSET Sessions, S # {}
  PROVE  \E s \in S : \A t \in S : s[2] <= t[2]
<1> DEFINE N == {s[2] : s \in S}
<1>1. N \in SUBSET Nat /\ N # {} BY SessionParts
<1>2. PICK m \in N : \A n \in N : m <= n BY <1>1, SmallestNat
<1> QED BY <1>2

LEMMA LastSession ==
  ASSUME NEW S \in SUBSET Sessions, S # {}
  PROVE  \E s \in S : \A t \in S : s[2] >= t[2]
<1> DEFINE N == {MaxSession - s[2] : s \in S}
<1>1. N \in SUBSET Nat /\ N # {} BY SessionParts
<1>2. PICK m \in N : \A n \in N : m <= n BY <1>1, SmallestNat
<1>3. PICK s \in S : m = MaxSession - s[2] BY <1>2
<1>4. \A t \in S : MaxSession - s[2] <= MaxSession - t[2] BY <1>2, <1>3
<1>5. \A t \in S : s[2] \in Int /\ t[2] \in Int /\ MaxSession \in Int
  BY SessionParts, RegistryAssumption
<1> QED BY <1>4, <1>5

(* The session a room comes back to: the owner's own live row, or else the  *)
(* first number nobody has taken.                                           *)
LEMMA SessionIdFor ==
  ASSUME NEW r \in Rooms, NEW o \in Owners, CanNumber(r, o)
  PROVE  LET s == sessionIdFor(r, o) IN
         /\ s \in Sessions /\ s[1] = r
         /\ \/ rows[s].status = "live" /\ rows[s].owner = o
            \/ /\ rows[s].status = "absent"
               /\ \A t \in Live : t[1] = r => rows[t].owner # o
               /\ \A t \in Sessions : t[1] = r /\ t[2] < s[2] => rows[t].status # "absent"
<1> DEFINE live == {s \in Sessions : s[1] = r /\ rows[s].status = "live" /\ rows[s].owner = o}
           free == {s \in Sessions : s[1] = r /\ rows[s].status = "absent"}
<1>1. CASE live # {}
  <2>1. \E s \in live : \A t \in live : s[2] >= t[2] BY <1>1, LastSession
  <2>2. sessionIdFor(r, o) = CHOOSE s \in live : \A t \in live : s[2] >= t[2]
    BY <1>1 DEF sessionIdFor
  <2>3. sessionIdFor(r, o) \in live BY <2>1, <2>2
  <2> QED BY <2>3
<1>2. CASE live = {}
  <2>1. free # {} BY <1>2 DEF CanNumber
  <2>2. \E s \in free : \A t \in free : s[2] <= t[2] BY <2>1, FirstSession
  <2>3. sessionIdFor(r, o) = CHOOSE s \in free : \A t \in free : s[2] <= t[2]
    BY <1>2 DEF sessionIdFor
  <2>4. sessionIdFor(r, o) \in free /\ \A t \in free : sessionIdFor(r, o)[2] <= t[2]
    BY <2>2, <2>3
  <2>5. \A t \in Sessions : t[2] < sessionIdFor(r, o)[2] => ~(sessionIdFor(r, o)[2] <= t[2])
    BY <2>4, SessionParts
  <2>6. \A t \in Sessions : t[1] = r /\ t[2] < sessionIdFor(r, o)[2] => rows[t].status # "absent"
    BY <2>4, <2>5
  <2>7. \A t \in Live : t[1] = r => rows[t].owner # o BY <1>2 DEF Live
  <2> QED BY <2>4, <2>6, <2>7
<1> QED BY <1>1, <1>2

LEMMA Blanks ==
  /\ anySession \in Sessions /\ NoAt \in At /\ NoRuntime \in Runtime /\ NoEnder \in Ender
  /\ NoAt.id = anySession /\ NoAt.pc = "idle" /\ NoEnder.pc = "idle" /\ NoRuntime.phase = "none"
<1>1. PICK r \in Rooms : TRUE BY RegistryAssumption
<1>2. <<r, 1>> \in Sessions /\ <<r, 1>>[2] = 1 BY RegistryAssumption DEF Sessions
<1>3. anySession \in Sessions BY <1>2 DEF anySession
<1>4. anySession[1] \in Rooms BY <1>3, SessionParts
<1>5. (CHOOSE o \in Owners : TRUE) \in Owners BY RegistryAssumption
<1> QED BY <1>3, <1>4, <1>5
      DEF NoAt, At, AttachPCs, NoRuntime, Runtime, NoEnder, Ender, None

-----------------------------------------------------------------------------
Types ==
  /\ rows \in [Sessions -> Row]
  /\ runtimes \in [Sessions -> Attachers \cup {None}] /\ attaching \in [Sessions -> Attachers \cup {None}]
  /\ active \subseteq Sessions
  /\ at \in [Attachers -> At] /\ rt \in [Attachers -> Runtime] /\ en \in [Enders -> Ender]
  /\ sweep \in [pc : {"never", "next", "resume", "finish", "done"}, left : SUBSET Sessions,
                cur : Sessions, recent : SUBSET Sessions]

LEMMA InitTypes == Init => Types
BY Blanks, RegistryAssumption DEF Init, Types, Row, None

(* The two endings every attach shares. *)
LEMMA AttachToTypes ==
  ASSUME Types, NEW c \in Attachers, NEW r \in Rooms, NEW o \in Owners, AttachTo(c, r, o)
  PROVE  at' \in [Attachers -> At]
<1> USE DEF Types
<1>1. [NoAt EXCEPT !.pc = "lookup", !.room = r, !.owner = o] \in At
  BY Blanks DEF At, AttachPCs
<1>2. CASE liveRuntime(r, o) = {} BY <1>1, <1>2 DEF AttachTo
<1>3. CASE liveRuntime(r, o) # {}
  <2> DEFINE s == CHOOSE s \in liveRuntime(r, o) : TRUE
  <2>1. s \in Sessions BY <1>3 DEF liveRuntime, Watched
  <2>2. at' = [at EXCEPT ![c] = [pc |-> "given", room |-> r, owner |-> o, id |-> s, got |-> runtimes[s]]]
    BY <1>3 DEF AttachTo
  <2> HIDE DEF s
  <2> QED BY <2>1, <2>2 DEF At, AttachPCs
<1> QED BY <1>2, <1>3

LEMMA SettleTypes ==
  ASSUME Types, NEW c \in Attachers, NEW p \in AttachPCs, NEW got \in Attachers \cup {None},
         SettleWith(c, p, got)
  PROVE  at' \in [Attachers -> At] /\ attaching' \in [Sessions -> Attachers \cup {None}]
<1>1. \A x \in Attachers : [at[x] EXCEPT !.pc = p, !.got = got] \in At BY DEF Types, At
<1>2. at' \in [Attachers -> At] BY <1>1 DEF Types, SettleWith
<1>3. attaching' \in [Sessions -> Attachers \cup {None}] BY DEF Types, SettleWith
<1> QED BY <1>2, <1>3

LEMMA TypesStep == Types /\ Shape /\ [Next]_vars => Types'
<1> SUFFICES ASSUME Types, Shape, [Next]_vars PROVE Types' OBVIOUS
<1> USE DEF Types
<1>0. \A s \in Sessions : s[1] \in Rooms BY SessionParts
<1>1. ASSUME NEW c \in Attachers, Attach(c) PROVE Types'
  BY <1>1, AttachToTypes DEF Attach, AttachTo
<1>2. ASSUME NEW c \in Attachers, NextSessionId(c) PROVE Types'
  <2>1. at[c].room \in Rooms /\ at[c].owner \in Owners BY DEF At
  <2>2. sessionIdFor(at[c].room, at[c].owner) \in Sessions
    BY <1>2, <2>1, SessionIdFor DEF NextSessionId
  <2>3. \A s \in Sessions : [at[c] EXCEPT !.pc = "claim", !.id = s] \in At BY DEF At, AttachPCs
  <2>4. at' = [at EXCEPT ![c] = [at[c] EXCEPT !.pc = "claim", !.id = sessionIdFor(at[c].room, at[c].owner)]]
    BY <1>2 DEF NextSessionId
  <2>5. at' \in [Attachers -> At] BY <2>2, <2>3, <2>4
  <2> QED BY <1>2, <2>5 DEF NextSessionId
<1>3. ASSUME NEW c \in Attachers, Claim(c) PROVE Types'
  <2>1. at' \in [Attachers -> At] BY <1>3 DEF Claim, Goto, At, AttachPCs
  <2>2. rt' \in [Attachers -> Runtime] BY <1>3 DEF Claim, At, Runtime
  <2> QED BY <1>3, <2>1, <2>2 DEF Claim, At
<1>4. ASSUME NEW c \in Attachers, InitReads(c) PROVE Types'
  BY <1>4 DEF InitReads, Goto, At, AttachPCs
<1>5. ASSUME NEW c \in Attachers, InitWrites(c) PROVE Types'
  <2>1. at' \in [Attachers -> At] BY <1>5 DEF InitWrites, Goto, At, AttachPCs
  <2>2. rows' \in [Sessions -> Row] BY <1>5 DEF InitWrites, At, Row
  <2> QED BY <1>5, <2>1, <2>2 DEF InitWrites
<1>6. ASSUME NEW c \in Attachers, LoadOwner(c) PROVE Types'
  <2>1. at' \in [Attachers -> At] BY <1>6 DEF LoadOwner, Goto, At, AttachPCs
  <2>2. rt' \in [Attachers -> Runtime]
    <3>1. rows[at[c].id].owner \in Owners \cup {None} BY DEF At, Row
    <3> QED BY <1>6, <3>1 DEF LoadOwner, Runtime
  <2> QED BY <1>6, <2>1, <2>2 DEF LoadOwner
<1>7. ASSUME NEW c \in Attachers, Opened(c) PROVE Types'
  <2>1. at' \in [Attachers -> At] BY <1>7 DEF Opened, Goto, At, AttachPCs
  <2>2. rt' \in [Attachers -> Runtime] BY <1>7 DEF Opened, Runtime
  <2> QED BY <1>7, <2>1, <2>2 DEF Opened
<1>8. ASSUME NEW c \in Attachers, Given(c) PROVE Types'
  BY <1>8, SettleTypes DEF Given, AttachPCs
<1>9. ASSUME NEW c \in Attachers, StartFails(c) PROVE Types'
  <2>1. rt' \in [Attachers -> Runtime] BY <1>9 DEF StartFails, Runtime
  <2> QED BY <1>9, <2>1, SettleTypes DEF StartFails, AttachPCs
<1>10. ASSUME NEW c \in Attachers, Activate(c) PROVE Types'
  <2> DEFINE S == {s \in Watched : runtimes[s] = at[c].got}
  <2>1. (CHOOSE s \in Watched : runtimes[s] = at[c].got) \in Sessions
    BY <1>10 DEF Activate, Watched
  <2> QED BY <1>10, <2>1 DEF Activate
<1>11. ASSUME NEW d \in Enders, Detach(d) PROVE Types'
  BY <1>11 DEF Detach, Ender
<1>12. ASSUME NEW d \in Enders, MarkEnded(d) PROVE Types'
  <2>1. en' \in [Enders -> Ender] BY <1>12 DEF MarkEnded, Ender
  <2>2. rows' \in [Sessions -> Row] BY <1>12 DEF MarkEnded, Row
  <2> QED BY <1>12, <2>1, <2>2 DEF MarkEnded
<1>13. ASSUME NEW d \in Enders, Remove(d) PROVE Types'
  <2>1. en' \in [Enders -> Ender] BY <1>13 DEF Remove, Ender
  <2>2. rt' \in [Attachers -> Runtime] BY <1>13 DEF Remove, Runtime
  <2> QED BY <1>13, <2>1, <2>2 DEF Remove
<1>14. ASSUME NEW d \in Enders, Closed(d) PROVE Types'
  <2>1. en' \in [Enders -> Ender] BY <1>14 DEF Closed, Ender
  <2>2. rt' \in [Attachers -> Runtime] BY <1>14 DEF Closed, Runtime
  <2> QED BY <1>14, <2>1, <2>2 DEF Closed
<1>15. ASSUME Crash PROVE Types'
  <2>1. at' \in [Attachers -> At]
    <3>1. [NoAt EXCEPT !.pc = "lost"] \in At BY Blanks DEF At, AttachPCs
    <3> QED BY <1>15, <3>1 DEF Crash
  <2>2. rt' \in [Attachers -> Runtime] BY <1>15 DEF Crash, Runtime
  <2>3. en' \in [Enders -> Ender]
    <3>1. [NoEnder EXCEPT !.pc = "done"] \in Ender BY Blanks DEF Ender
    <3> QED BY <1>15, <3>1 DEF Crash
  <2>4. /\ runtimes' = [s \in Sessions |-> None] /\ attaching' = [s \in Sessions |-> None]
        /\ active' = {} /\ rows' = rows
    BY <1>15 DEF Crash
  <2>5. PICK recent \in SUBSET Live :
          sweep' = [pc |-> "next", left |-> Live, cur |-> anySession, recent |-> recent]
    BY <1>15 DEF Crash
  <2>6. Live \subseteq Sessions BY DEF Live
  <2> QED BY <2>1, <2>2, <2>3, <2>4, <2>5, <2>6, Blanks
<1>16. ASSUME SweepPlans PROVE Types'
  <2>1. PICK s \in sweep.left, plan \in {"skip", "resume", "finish", "leave"} :
          sweep' = [sweep EXCEPT !.left = @ \ {s}, !.cur = s,
                      !.pc = IF plan \in {"resume", "finish"} THEN plan ELSE "next"]
    BY <1>16 DEF SweepPlans
  <2>2. s \in Sessions /\ (sweep.left \ {s}) \in SUBSET Sessions OBVIOUS
  <2>3. (IF plan \in {"resume", "finish"} THEN plan ELSE "next") \in {"next", "resume", "finish"} OBVIOUS
  <2> QED BY <1>16, <2>1, <2>2, <2>3 DEF SweepPlans
<1>17. ASSUME SweepAttaches PROVE Types'
  <2>1. sweep.cur \in Sessions /\ sweep.cur[1] \in Rooms /\ Sweep \in Attachers
    BY <1>0, RegistryAssumption
  <2>2. rows[sweep.cur].owner \in Owners BY <1>17, <2>1 DEF SweepAttaches, Shape, Rowed
  <2> QED BY <1>17, <2>1, <2>2, AttachToTypes DEF SweepAttaches, AttachTo
<1>18. ASSUME SweepAttached \/ SweepEnds PROVE Types'
  BY <1>18 DEF SweepAttached, SweepEnds, SweepAt
<1>19. ASSUME SweepFinishes PROVE Types'
  <2>1. rows' \in [Sessions -> Row] BY <1>19 DEF SweepFinishes, Row
  <2> QED BY <1>19, <2>1 DEF SweepFinishes, SweepAt
<1>20. ASSUME UNCHANGED vars PROVE Types' BY <1>20 DEF vars
<1> QED
  BY <1>1, <1>2, <1>3, <1>4, <1>5, <1>6, <1>7, <1>8, <1>9, <1>10, <1>11, <1>12, <1>13, <1>14,
     <1>15, <1>16, <1>17, <1>18, <1>19, <1>20 DEF Next, AttachStep, DetachStep, SweepStep

-----------------------------------------------------------------------------
(* A row, once there, stays and keeps its owner; it goes on air when an     *)
(* attach of it writes it, and off air when an ender or the sweep does.     *)
RowMoves ==
  /\ \A s \in Sessions : rows[s].status # "absent" =>
       rows'[s].status # "absent" /\ rows'[s].owner = rows[s].owner
  /\ \A s \in Sessions : rows'[s] # rows[s] =>
       \/ \E c \in Attachers : /\ InitWrites(c) /\ at[c].id = s /\ rows'[s].status = "live"
                               /\ rows[s].status = "absent" => rows'[s].owner = at[c].owner
       \/ rows'[s].status = "ended" /\ \E d \in Enders : MarkEnded(d) /\ en[d].id = s
       \/ rows'[s].status = "ended" /\ SweepFinishes /\ sweep.cur = s

LEMMA NoneIsNobody == None \notin Attachers /\ None \notin Owners
BY RegistryAssumption DEF None

LEMMA RowSteps == Types /\ [Next]_vars => RowMoves
<1> SUFFICES ASSUME Types, [Next]_vars PROVE RowMoves OBVIOUS
<1> USE DEF Types, RowMoves
<1>1. ASSUME NEW c \in Attachers, InitWrites(c) PROVE RowMoves
  <2>1. at[c].id \in Sessions BY DEF At
  <2>2. \A s \in Sessions : s # at[c].id => rows'[s] = rows[s] BY <1>1, <2>1 DEF InitWrites
  <2>3. rows'[at[c].id].status = "live" BY <1>1, <2>1 DEF InitWrites, Row
  <2>4. rows[at[c].id].status # "absent" => rows'[at[c].id].owner = rows[at[c].id].owner
    BY <1>1, <2>1 DEF InitWrites, Row
  <2>5. rows[at[c].id].status = "absent" => rows'[at[c].id].owner = at[c].owner
    BY <1>1, <2>1 DEF InitWrites
  <2> QED BY <1>1, <2>1, <2>2, <2>3, <2>4, <2>5
<1>2. ASSUME NEW d \in Enders, MarkEnded(d) PROVE RowMoves
  <2>1. en[d].id \in Sessions BY DEF Ender
  <2> QED BY <1>2, <2>1 DEF MarkEnded, Row
<1>3. ASSUME SweepFinishes PROVE RowMoves
  <2>1. sweep.cur \in Sessions OBVIOUS
  <2> QED BY <1>3, <2>1 DEF SweepFinishes, Row
<1>4. ASSUME UNCHANGED rows PROVE RowMoves BY <1>4
<1>5. ASSUME NEW c \in Attachers, Attach(c) \/ AttachStep(c) \/ StartFails(c) \/ Activate(c)
      PROVE  RowMoves
  BY <1>1, <1>4, <1>5
    DEF Attach, AttachTo, AttachStep, NextSessionId, Claim, InitReads, LoadOwner, Opened, Given,
        StartFails, Activate
<1>6. ASSUME NEW d \in Enders, Detach(d) \/ DetachStep(d) PROVE RowMoves
  BY <1>2, <1>4, <1>6 DEF Detach, DetachStep, Remove, Closed
<1>7. ASSUME Crash \/ SweepStep \/ UNCHANGED vars PROVE RowMoves
  BY <1>3, <1>4, <1>7
    DEF Crash, SweepStep, SweepPlans, SweepAttaches, SweepAttached, SweepEnds, AttachTo, vars
<1> QED BY <1>5, <1>6, <1>7 DEF Next

LEMMA ShapeInit == Init => Shape
<1> SUFFICES ASSUME Init PROVE Shape OBVIOUS
<1>1. \A c \in Attachers : at[c].pc = "idle" BY Blanks DEF Init
<1>2. \A d \in Enders : en[d].pc = "idle" BY Blanks DEF Init
<1>3. Active /\ Rooted BY <1>1 DEF Init, Active, Rooted, Watched
<1>4. Rowed BY <1>1, <1>2 DEF Init, Rowed, Watched
<1> QED BY <1>3, <1>4 DEF Shape

(* The attach that finds a live runtime is given it under its session. *)
LEMMA AttachToMoves ==
  ASSUME Types, NEW c \in Attachers, NEW r \in Rooms, NEW o \in Owners, AttachTo(c, r, o)
  PROVE  /\ \A x \in Attachers : x # c => at'[x] = at[x]
         /\ at'[c].room = r /\ at'[c].owner = o
         /\ \/ liveRuntime(r, o) = {} /\ at'[c].pc = "lookup"
            \/ at'[c].pc = "given" /\ at'[c].id \in liveRuntime(r, o)
<1>1. CASE liveRuntime(r, o) = {}
  <2>1. at' = [at EXCEPT ![c] = [NoAt EXCEPT !.pc = "lookup", !.room = r, !.owner = o]]
    BY <1>1 DEF AttachTo
  <2> QED BY <1>1, <2>1, Blanks DEF Types, At
<1>2. CASE liveRuntime(r, o) # {}
  <2> DEFINE s == CHOOSE s \in liveRuntime(r, o) : TRUE
  <2>1. s \in liveRuntime(r, o) BY <1>2
  <2>2. at' = [at EXCEPT ![c] = [pc |-> "given", room |-> r, owner |-> o, id |-> s, got |-> runtimes[s]]]
    BY <1>2 DEF AttachTo
  <2> HIDE DEF s
  <2> QED BY <2>1, <2>2 DEF Types
<1> QED BY <1>1, <1>2

(* What a settled attach changes. *)
LEMMA SettleMoves ==
  ASSUME Types, NEW c \in Attachers, NEW p, NEW got, SettleWith(c, p, got)
  PROVE  /\ \A x \in Attachers : at'[x].id = at[x].id /\ at'[x].room = at[x].room /\ at'[x].owner = at[x].owner
         /\ at'[c].pc = p
         /\ \A x \in Attachers : \/ at'[x].pc = at[x].pc /\ ~(at[x].pc = "joined" /\ at[x].id = at[c].id)
                                 \/ x = c /\ at'[x].pc = p
                                 \/ at[x].pc = "joined" /\ at[x].id = at[c].id /\ at'[x].pc = p
         /\ \A s \in Sessions : attaching'[s] = IF s = at[c].id THEN None ELSE attaching[s]
BY DEF Types, At, SettleWith

(* What the boot sweep has before it: nothing the database did not list. *)
SweepMoves ==
  /\ sweep'.left \subseteq sweep.left \cup Live
  /\ sweep'.pc \in {"resume", "finish"} =>
       \/ sweep'.cur = sweep.cur /\ sweep.pc \in {"resume", "finish"}
       \/ sweep'.cur \in sweep.left

LEMMA SweepSteps == Types /\ [Next]_vars => SweepMoves
<1> SUFFICES ASSUME Types, [Next]_vars PROVE SweepMoves OBVIOUS
<1> USE DEF Types, SweepMoves
<1>1. ASSUME UNCHANGED sweep PROVE SweepMoves BY <1>1
<1>2. ASSUME SweepPlans PROVE SweepMoves
  <2>1. PICK s \in sweep.left, plan \in {"skip", "resume", "finish", "leave"} :
          sweep' = [sweep EXCEPT !.left = @ \ {s}, !.cur = s,
                      !.pc = IF plan \in {"resume", "finish"} THEN plan ELSE "next"]
    BY <1>2 DEF SweepPlans
  <2>2. sweep'.left = sweep.left \ {s} /\ sweep'.cur = s BY <2>1
  <2> QED BY <2>2
<1>3. ASSUME Crash PROVE SweepMoves BY <1>3 DEF Crash
<1>4. ASSUME SweepAttached \/ SweepFinishes \/ SweepEnds PROVE SweepMoves
  BY <1>4 DEF SweepAttached, SweepFinishes, SweepEnds, SweepAt
<1>5. ASSUME NEW c \in Attachers, Attach(c) \/ AttachStep(c) \/ StartFails(c) \/ Activate(c)
      PROVE  SweepMoves
  BY <1>1, <1>5
    DEF Attach, AttachStep, NextSessionId, Claim, InitReads, InitWrites, LoadOwner, Opened, Given,
        StartFails, Activate
<1>6. ASSUME NEW d \in Enders, Detach(d) \/ DetachStep(d) PROVE SweepMoves
  BY <1>1, <1>6 DEF Detach, DetachStep, MarkEnded, Remove, Closed
<1>7. ASSUME SweepAttaches \/ UNCHANGED vars PROVE SweepMoves BY <1>1, <1>7 DEF SweepAttaches, vars
<1> QED BY <1>2, <1>3, <1>4, <1>5, <1>6, <1>7 DEF Next, SweepStep

(* How an attach, a session's runtime and an ender can come to change. *)
AttachMove(c) ==
  \/ at'[c] = at[c]
  \/ /\ at[c].pc = "idle" /\ at'[c].pc \in {"lookup", "given"} /\ UNCHANGED <<rows, runtimes, attaching, rt, en>>
     /\ IF liveRuntime(at'[c].room, at'[c].owner) = {} THEN at'[c].pc = "lookup"
        ELSE at'[c].pc = "given" /\ at'[c].id \in liveRuntime(at'[c].room, at'[c].owner)
  \/ /\ at'[c].id = at[c].id /\ at'[c].room = at[c].room /\ at'[c].owner = at[c].owner
     /\ \/ Claim(c) /\ at'[c].pc \in {"joined", "refused", "select"}
        \/ InitReads(c) /\ at'[c].pc = "write"
        \/ InitWrites(c) /\ at'[c].pc = "owner"
        \/ LoadOwner(c) /\ at'[c].pc = "opening"
        \/ Opened(c) /\ at'[c].pc = "listing"
        \/ Given(c) /\ at'[c].pc = "given"
        \/ StartFails(c) /\ at'[c].pc = "refused"
        \/ at[c].pc = "joined" /\ \E x \in Attachers :
             at[x].id = at[c].id /\ ((Given(x) /\ at'[c].pc = "given") \/ (StartFails(x) /\ at'[c].pc = "refused"))
  \/ /\ NextSessionId(c) /\ at'[c].pc = "claim" /\ at'[c].room = at[c].room /\ at'[c].owner = at[c].owner
     /\ at'[c].id = sessionIdFor(at[c].room, at[c].owner)
  \/ Crash /\ at'[c].pc \in {"idle", "lost"}

LEMMA AttachSteps == Types /\ Rowed /\ [Next]_vars => \A c \in Attachers : AttachMove(c)
<1> SUFFICES ASSUME Types, Rowed, [Next]_vars, NEW c \in Attachers PROVE AttachMove(c) OBVIOUS
<1>0. \A x \in Attachers : at[x] \in At BY DEF Types
<1>1. ASSUME UNCHANGED at PROVE AttachMove(c) BY <1>1 DEF AttachMove
<1>2. ASSUME NEW x \in Attachers, NEW r \in Rooms, NEW o \in Owners, at[x].pc = "idle", AttachTo(x, r, o)
      PROVE  AttachMove(c)
  <2>1. CASE x # c BY <1>2, <2>1, AttachToMoves DEF AttachMove
  <2>2. CASE x = c
    <3>1. UNCHANGED <<rows, runtimes, attaching, rt, en>> BY <1>2 DEF AttachTo
    <3> QED BY <1>2, <2>2, <3>1, AttachToMoves DEF AttachMove
  <2> QED BY <2>1, <2>2
<1>3. ASSUME NEW x \in Attachers, Attach(x) PROVE AttachMove(c) BY <1>2, <1>3 DEF Attach
<1>4. ASSUME SweepAttaches PROVE AttachMove(c)
  <2>1. sweep.cur[1] \in Rooms /\ rows[sweep.cur].owner \in Owners
    BY <1>4, SessionParts DEF SweepAttaches, Rowed, Types
  <2> QED BY <1>2, <1>4, <2>1, RegistryAssumption DEF SweepAttaches
<1>5. ASSUME NEW x \in Attachers, NextSessionId(x) PROVE AttachMove(c)
  <2>1. CASE x = c BY <1>0, <1>5, <2>1 DEF NextSessionId, AttachMove, At, Types
  <2>2. CASE x # c BY <1>5, <2>2 DEF NextSessionId, AttachMove, Types
  <2> QED BY <2>1, <2>2
<1>6. ASSUME NEW x \in Attachers, NEW p, Goto(x, p)
      PROVE  /\ x # c => at'[c] = at[c]
             /\ x = c => at'[c].pc = p /\ at'[c].id = at[c].id /\ at'[c].room = at[c].room
                      /\ at'[c].owner = at[c].owner
  BY <1>0, <1>6 DEF Goto, At, Types
<1>7. ASSUME NEW x \in Attachers, Claim(x) PROVE AttachMove(c)
  <2>1. PICK p \in {"joined", "refused", "select"} : Goto(x, p) BY <1>7 DEF Claim
  <2> QED BY <1>6, <1>7, <2>1 DEF AttachMove
<1>8. ASSUME NEW x \in Attachers, InitReads(x) PROVE AttachMove(c)
  <2>1. Goto(x, "write") BY <1>8 DEF InitReads
  <2> QED BY <1>6, <1>8, <2>1 DEF AttachMove
<1>9. ASSUME NEW x \in Attachers, InitWrites(x) PROVE AttachMove(c)
  <2>1. Goto(x, "owner") BY <1>9 DEF InitWrites
  <2> QED BY <1>6, <1>9, <2>1 DEF AttachMove
<1>10. ASSUME NEW x \in Attachers, LoadOwner(x) PROVE AttachMove(c)
  <2>1. Goto(x, "opening") BY <1>10 DEF LoadOwner
  <2> QED BY <1>6, <1>10, <2>1 DEF AttachMove
<1>11. ASSUME NEW x \in Attachers, Opened(x) PROVE AttachMove(c)
  <2>1. Goto(x, "listing") BY <1>11 DEF Opened
  <2> QED BY <1>6, <1>11, <2>1 DEF AttachMove
<1>12. ASSUME NEW x \in Attachers, NEW p, NEW got, SettleWith(x, p, got)
       PROVE  \/ at'[c] = at[c]
              \/ /\ at'[c].id = at[c].id /\ at'[c].room = at[c].room /\ at'[c].owner = at[c].owner
                 /\ at'[c].pc = p
                 /\ x = c \/ (at[c].pc = "joined" /\ at[x].id = at[c].id)
  BY <1>0, <1>12 DEF SettleWith, At
<1>13. ASSUME NEW x \in Attachers, Given(x) PROVE AttachMove(c)
  <2>1. SettleWith(x, "given", x) BY <1>13 DEF Given
  <2>2. CASE x = c BY <1>12, <1>13, <2>1, <2>2 DEF AttachMove
  <2>3. CASE x # c
    <3>1. \/ at'[c] = at[c]
          \/ /\ at'[c].id = at[c].id /\ at'[c].room = at[c].room /\ at'[c].owner = at[c].owner
             /\ at'[c].pc = "given" /\ at[c].pc = "joined" /\ at[x].id = at[c].id
      BY <1>12, <2>1, <2>3
    <3>2. CASE at[c].pc = "joined" /\ at[x].id = at[c].id
      <4>1. at'[c].pc = "given" => \E y \in Attachers : at[y].id = at[c].id /\ Given(y)
        BY <1>13, <3>2
      <4> QED BY <3>1, <3>2, <4>1 DEF AttachMove
    <3> QED BY <3>1, <3>2 DEF AttachMove
  <2> QED BY <2>2, <2>3
<1>14. ASSUME NEW x \in Attachers, StartFails(x) PROVE AttachMove(c)
  <2>1. SettleWith(x, "refused", None) BY <1>14 DEF StartFails
  <2> QED BY <1>12, <1>14, <2>1 DEF AttachMove
<1>15. ASSUME Crash PROVE AttachMove(c)
  <2>1. at'[c].pc \in {"idle", "lost"} BY <1>15, Blanks DEF Crash
  <2> QED BY <1>15, <2>1 DEF AttachMove
<1>16. ASSUME NEW x \in Attachers, Activate(x) PROVE AttachMove(c) BY <1>1, <1>16 DEF Activate
<1>17. ASSUME NEW d \in Enders, Detach(d) \/ DetachStep(d) PROVE AttachMove(c)
  BY <1>1, <1>17 DEF Detach, DetachStep, MarkEnded, Remove, Closed
<1>18. ASSUME SweepPlans \/ SweepAttached \/ SweepFinishes \/ SweepEnds \/ UNCHANGED vars
       PROVE  AttachMove(c)
  BY <1>1, <1>18 DEF SweepPlans, SweepAttached, SweepFinishes, SweepEnds, vars
<1> QED
  BY <1>3, <1>4, <1>5, <1>7, <1>8, <1>9, <1>10, <1>11, <1>13, <1>14, <1>15, <1>16, <1>17, <1>18
     DEF Next, AttachStep, SweepStep

MapMove(s) ==
  \/ runtimes'[s] = runtimes[s]
  \/ \E c \in Attachers : Opened(c) /\ at[c].id = s /\ runtimes'[s] = c
  \/ \E d \in Enders : Remove(d) /\ en[d].id = s /\ runtimes'[s] = None
  \/ Crash /\ runtimes'[s] = None

LEMMA MapSteps == Types /\ [Next]_vars => \A s \in Sessions : MapMove(s)
<1> SUFFICES ASSUME Types, [Next]_vars, NEW s \in Sessions PROVE MapMove(s) OBVIOUS
<1> USE DEF Types, MapMove
<1>1. ASSUME UNCHANGED runtimes PROVE MapMove(s) BY <1>1
<1>2. ASSUME NEW c \in Attachers, Opened(c) PROVE MapMove(s) BY <1>2 DEF Opened
<1>3. ASSUME NEW d \in Enders, Remove(d) PROVE MapMove(s) BY <1>3 DEF Remove
<1>4. ASSUME Crash PROVE MapMove(s) BY <1>4 DEF Crash
<1>5. ASSUME NEW c \in Attachers, Attach(c) \/ AttachStep(c) \/ StartFails(c) \/ Activate(c)
      PROVE  MapMove(s)
  BY <1>1, <1>2, <1>5
    DEF Attach, AttachTo, AttachStep, NextSessionId, Claim, InitReads, InitWrites, LoadOwner, Given,
        StartFails, Activate
<1>6. ASSUME NEW d \in Enders, Detach(d) \/ DetachStep(d) PROVE MapMove(s)
  BY <1>1, <1>3, <1>6 DEF Detach, DetachStep, MarkEnded, Closed
<1>7. ASSUME SweepStep \/ UNCHANGED vars PROVE MapMove(s)
  BY <1>1, <1>7
    DEF SweepStep, SweepPlans, SweepAttaches, AttachTo, SweepAttached, SweepFinishes, SweepEnds, vars
<1> QED BY <1>4, <1>5, <1>6, <1>7 DEF Next

EndMove(d) ==
  \/ en'[d] = en[d]
  \/ /\ Detach(d) /\ en'[d].pc = "finish" /\ en'[d].id \in Watched
     /\ en'[d].rt = runtimes[en'[d].id]
  \/ /\ en'[d].id = en[d].id /\ en'[d].rt = en[d].rt
     /\ \/ MarkEnded(d) /\ en'[d].pc = "remove"
        \/ Remove(d) /\ en'[d].pc = "close"
        \/ Closed(d) /\ en'[d].pc = "done"
  \/ Crash /\ en'[d].pc \in {"idle", "done"}

LEMMA EndSteps == Types /\ [Next]_vars => \A d \in Enders : EndMove(d)
<1> SUFFICES ASSUME Types, [Next]_vars, NEW d \in Enders PROVE EndMove(d) OBVIOUS
<1>0. \A e \in Enders : en[e] \in Ender BY DEF Types
<1> USE DEF EndMove
<1>1. ASSUME UNCHANGED en PROVE EndMove(d) BY <1>1
<1>2. ASSUME NEW e \in Enders, Detach(e) PROVE EndMove(d)
  <2>1. PICK s \in Sessions : runtimes[s] # None /\ en' = [en EXCEPT ![e] = [pc |-> "finish", id |-> s, rt |-> runtimes[s]]]
    BY <1>2 DEF Detach
  <2>2. CASE e = d
    <3>1. en'[d] = [pc |-> "finish", id |-> s, rt |-> runtimes[s]] BY <2>1, <2>2 DEF Types
    <3> QED BY <1>2, <2>1, <2>2, <3>1 DEF Watched
  <2>3. CASE e # d BY <2>1, <2>3 DEF Types
  <2> QED BY <2>2, <2>3
<1>3. ASSUME NEW e \in Enders, MarkEnded(e) PROVE EndMove(d)
  BY <1>0, <1>3 DEF MarkEnded, Types, Ender
<1>4. ASSUME NEW e \in Enders, Remove(e) PROVE EndMove(d)
  BY <1>0, <1>4 DEF Remove, Types, Ender
<1>5. ASSUME NEW e \in Enders, Closed(e) PROVE EndMove(d)
  BY <1>0, <1>5 DEF Closed, Types, Ender
<1>6. ASSUME Crash PROVE EndMove(d)
  <2>1. en'[d].pc \in {"idle", "done"} BY <1>6, Blanks DEF Crash, NoEnder
  <2> QED BY <1>6, <2>1
<1>7. ASSUME NEW c \in Attachers, Attach(c) \/ AttachStep(c) \/ StartFails(c) \/ Activate(c)
      PROVE  EndMove(d)
  BY <1>1, <1>7
    DEF Attach, AttachTo, AttachStep, NextSessionId, Claim, InitReads, InitWrites, LoadOwner, Opened,
        Given, StartFails, Activate
<1>8. ASSUME SweepStep \/ UNCHANGED vars PROVE EndMove(d)
  BY <1>1, <1>8
    DEF SweepStep, SweepPlans, SweepAttaches, AttachTo, SweepAttached, SweepFinishes, SweepEnds, vars
<1> QED BY <1>2, <1>3, <1>4, <1>5, <1>6, <1>7, <1>8 DEF Next, DetachStep

LEMMA ShapeStep ==
  ASSUME Types, Types', Shape, [Next]_vars
  PROVE  Shape'
<1>1. Active'
  <2> USE DEF Types
  <2>1. ASSUME UNCHANGED <<active, runtimes>> PROVE Active' BY <2>1 DEF Shape, Active, Watched
  <2>2. ASSUME NEW c \in Attachers, Opened(c) PROVE Active'
    BY <2>2, NoneIsNobody DEF Opened, Shape, Active, Watched, At
  <2>3. ASSUME NEW c \in Attachers, Activate(c) PROVE Active'
    <3>1. (CHOOSE s \in Watched : runtimes[s] = at[c].got) \in Watched BY <2>3 DEF Activate
    <3> QED BY <2>3, <3>1 DEF Activate, Active, Watched
  <2>4. ASSUME NEW d \in Enders, Remove(d) PROVE Active' BY <2>4 DEF Remove, Shape, Active, Watched
  <2>5. ASSUME Crash PROVE Active' BY <2>5 DEF Crash, Active
  <2> QED
    BY <2>1, <2>2, <2>3, <2>4, <2>5
      DEF Next, Attach, AttachTo, AttachStep, NextSessionId, Claim, InitReads, InitWrites, LoadOwner,
          Given, StartFails, Detach, DetachStep, MarkEnded, Closed, SweepStep, SweepPlans,
          SweepAttaches, SweepAttached, SweepFinishes, SweepEnds, vars
<1>2. Rooted'
  <2> SUFFICES ASSUME NEW c \in Attachers, at'[c].pc \notin {"idle", "lookup", "lost"}
               PROVE  at'[c].id[1] = at'[c].room
    BY DEF Rooted
  <2>1. AttachMove(c) BY AttachSteps DEF Shape
  <2>2. CASE at'[c].id = at[c].id /\ at'[c].room = at[c].room /\ at[c].pc \notin {"idle", "lookup", "lost"}
    BY <2>2 DEF Shape, Rooted
  <2>3. CASE at'[c].id \in liveRuntime(at'[c].room, at'[c].owner) BY <2>3 DEF liveRuntime
  <2>4. CASE NextSessionId(c) /\ at'[c].room = at[c].room /\ at'[c].id = sessionIdFor(at[c].room, at[c].owner)
    <3>1. at[c].room \in Rooms /\ at[c].owner \in Owners BY DEF Types, At
    <3> QED BY <2>4, <3>1, SessionIdFor DEF NextSessionId
  <2> QED
    BY <2>1, <2>2, <2>3, <2>4
       DEF AttachMove, Claim, InitReads, InitWrites, LoadOwner, Opened, Given, StartFails
<1>3. Rowed'
  <2> USE DEF Types
  <2>0. \A s \in Sessions : rows[s].status # "absent" =>
           rows'[s].status # "absent" /\ rows'[s].owner = rows[s].owner
    BY RowSteps DEF RowMoves
  <2>1. \A s \in Sessions : rows'[s].status # "absent" => rows'[s].owner \in Owners
    <3>1. \A c \in Attachers : at[c].owner \in Owners BY DEF At
    <3> SUFFICES ASSUME NEW s \in Sessions, rows'[s].status # "absent" PROVE rows'[s].owner \in Owners
      OBVIOUS
    <3>2. CASE rows[s].status # "absent" BY <2>0, <3>2 DEF Shape, Rowed
    <3>3. CASE rows[s].status = "absent"
      <4>1. rows'[s] # rows[s] BY <3>3
      <4>2. ~ \E d \in Enders : MarkEnded(d) /\ en[d].id = s
        BY <3>3 DEF Shape, Rowed, MarkEnded
      <4>3. ~(SweepFinishes /\ sweep.cur = s) BY <3>3 DEF Shape, Rowed, SweepFinishes
      <4> QED BY <3>1, <3>3, <4>1, <4>2, <4>3, RowSteps DEF RowMoves
    <3> QED BY <3>2, <3>3
  <2>2. \A s \in Live : s \in Sessions /\ rows[s].status # "absent" BY DEF Live
  <2>3. \A s \in sweep'.left : rows'[s].status # "absent"
    <3>1. \A s \in sweep.left \cup Live : s \in Sessions /\ rows[s].status # "absent"
      BY <2>2 DEF Shape, Rowed
    <3> QED BY <2>0, <3>1, SweepSteps DEF SweepMoves
  <2>4. sweep'.pc \in {"resume", "finish"} => rows'[sweep'.cur].status # "absent"
    <3>1. sweep'.pc \in {"resume", "finish"} => sweep'.cur \in Sessions /\ rows[sweep'.cur].status # "absent"
      BY SweepSteps DEF SweepMoves, Shape, Rowed
    <3> QED BY <2>0, <3>1
  <2>5. \A c \in Attachers : at'[c].pc \in {"owner", "opening"} => rows'[at'[c].id].status # "absent"
    <3>1. \A c \in Attachers : at'[c].pc \in {"owner", "opening"} =>
             \/ at[c].pc \in {"owner", "opening"} /\ at'[c].id = at[c].id
             \/ at[c].pc = "write" /\ InitWrites(c) /\ at'[c].id = at[c].id
      BY AttachSteps DEF AttachMove, LoadOwner, InitWrites, Shape
    <3>2. \A c \in Attachers : at[c].id \in Sessions BY DEF At
    <3>3. \A c \in Attachers : InitWrites(c) => rows'[at[c].id].status # "absent"
      BY <3>2 DEF InitWrites, Row
    <3> QED BY <2>0, <3>1, <3>2, <3>3 DEF Shape, Rowed
  <2>6. \A s \in Watched' : rows'[s].status # "absent"
    <3>1. \A s \in Watched' : s \in Watched \/ \E c \in Attachers : at[c].pc = "opening" /\ at[c].id = s
      BY MapSteps DEF MapMove, Opened, Watched
    <3>2. \A s \in Watched' : s \in Sessions /\ rows[s].status # "absent"
      BY <3>1 DEF Shape, Rowed, Watched
    <3> QED BY <2>0, <3>2
  <2>7. \A d \in Enders : en'[d].pc \in {"finish", "remove"} => rows'[en'[d].id].status # "absent"
    <3>1. \A d \in Enders : en'[d].pc \in {"finish", "remove"} =>
             \/ en[d].pc \in {"finish", "remove"} /\ en'[d].id = en[d].id
             \/ en'[d].id \in Watched
      BY EndSteps DEF EndMove, MarkEnded
    <3>2. \A d \in Enders : en'[d].pc \in {"finish", "remove"} =>
             en'[d].id \in Sessions /\ rows[en'[d].id].status # "absent"
      BY <3>1 DEF Shape, Rowed, Ender
    <3> QED BY <2>0, <3>2
  <2> QED BY <2>1, <2>3, <2>4, <2>5, <2>6, <2>7 DEF Rowed
<1> QED BY <1>1, <1>2, <1>3 DEF Shape

LEMMA CrashMoves ==
  ASSUME Types, Crash
  PROVE  /\ \A c \in Attachers : at'[c].pc \in {"idle", "lost"} /\ rt'[c].phase \in {"none", "closed"}
         /\ \A s \in Sessions : runtimes'[s] = None /\ attaching'[s] = None
         /\ \A d \in Enders : en'[d].pc \in {"idle", "done"}
         /\ rows' = rows
<1>1. \A c \in Attachers : at'[c].pc \in {"idle", "lost"} BY Blanks DEF Crash
<1>2. \A c \in Attachers : rt'[c].phase \in {"none", "closed"}
  BY DEF Crash, Types, Runtime
<1>3. \A d \in Enders : en'[d].pc \in {"idle", "done"} BY Blanks DEF Crash, NoEnder
<1> QED BY <1>1, <1>2, <1>3 DEF Crash

StartingMove(s) ==
  \/ attaching'[s] = attaching[s]
  \/ \E c \in Attachers : /\ Claim(c) /\ at[c].id = s /\ attaching[s] = None
                          /\ attaching'[s] = c /\ at'[c].pc = "select" /\ at'[c].id = s
  \/ \E c \in Attachers : /\ Given(c) \/ StartFails(c)
                          /\ at[c].id = s /\ attaching'[s] = None /\ at'[c].pc \in {"given", "refused"}
  \/ Crash /\ attaching'[s] = None

LEMMA StartingSteps == Types /\ [Next]_vars => \A s \in Sessions : StartingMove(s)
<1> SUFFICES ASSUME Types, [Next]_vars, NEW s \in Sessions PROVE StartingMove(s) OBVIOUS
<1> USE DEF StartingMove
<1>1. ASSUME UNCHANGED attaching PROVE StartingMove(s) BY <1>1
<1>2. ASSUME NEW c \in Attachers, Claim(c) PROVE StartingMove(s)
  <2>1. CASE UNCHANGED attaching BY <1>1, <2>1
  <2>2. CASE attaching' # attaching
    <3>1. /\ attaching[at[c].id] = None /\ Goto(c, "select")
          /\ attaching' = [attaching EXCEPT ![at[c].id] = c]
      BY <1>2, <2>2 DEF Claim
    <3>2. at'[c].pc = "select" /\ at'[c].id = at[c].id BY <3>1 DEF Goto, Types, At
    <3> QED BY <1>2, <3>1, <3>2 DEF Types
  <2> QED BY <2>1, <2>2
<1>3. ASSUME NEW c \in Attachers, Given(c) \/ StartFails(c) PROVE StartingMove(s)
  <2>1. PICK p \in {"given", "refused"} : \E got : SettleWith(c, p, got) BY <1>3 DEF Given, StartFails
  <2>2. at'[c].pc = p /\ attaching'[s] = IF s = at[c].id THEN None ELSE attaching[s]
    BY <2>1, SettleMoves
  <2> QED BY <1>3, <2>2
<1>4. ASSUME Crash PROVE StartingMove(s) BY <1>4, CrashMoves
<1>5. ASSUME NEW c \in Attachers, Attach(c) \/ AttachStep(c) \/ StartFails(c) \/ Activate(c)
      PROVE  StartingMove(s)
  BY <1>1, <1>2, <1>3, <1>5
    DEF Attach, AttachTo, AttachStep, NextSessionId, InitReads, InitWrites, LoadOwner, Opened, Activate
<1>6. ASSUME NEW d \in Enders, Detach(d) \/ DetachStep(d) PROVE StartingMove(s)
  BY <1>1, <1>6 DEF Detach, DetachStep, MarkEnded, Remove, Closed
<1>7. ASSUME SweepStep \/ UNCHANGED vars PROVE StartingMove(s)
  BY <1>1, <1>7
    DEF SweepStep, SweepPlans, SweepAttaches, AttachTo, SweepAttached, SweepFinishes, SweepEnds, vars
<1> QED BY <1>4, <1>5, <1>6, <1>7 DEF Next

RuntimeMove(c) ==
  \/ rt'[c] = rt[c]
  \/ Claim(c) /\ at'[c].pc = "select" /\ rt'[c] = [phase |-> "building", owner |-> at[c].owner]
  \/ /\ LoadOwner(c) /\ at'[c].pc = "opening" /\ rt'[c].phase = rt[c].phase
     /\ rt'[c].owner = IF rows[at[c].id].owner # None THEN rows[at[c].id].owner ELSE rt[c].owner
  \/ Opened(c) /\ at'[c].pc = "listing" /\ rt'[c].phase = "open" /\ rt'[c].owner = rt[c].owner
  \/ StartFails(c) /\ at'[c].pc = "refused" /\ rt'[c].phase = "closed"
  \/ \E d \in Enders : /\ Remove(d) /\ en[d].rt = c /\ rt'[c].owner = rt[c].owner
                       /\ rt'[c].phase = IF rt[c].phase = "open" THEN "closing" ELSE rt[c].phase
  \/ \E d \in Enders : /\ Closed(d) /\ en[d].rt = c /\ rt'[c].owner = rt[c].owner
                       /\ rt'[c].phase = "closed"
  \/ Crash /\ rt'[c].phase \in {"none", "closed"}

LEMMA RuntimeSteps == Types /\ [Next]_vars => \A c \in Attachers : RuntimeMove(c)
<1> SUFFICES ASSUME Types, [Next]_vars, NEW c \in Attachers PROVE RuntimeMove(c) OBVIOUS
<1>0. \A x \in Attachers : rt[x] \in Runtime /\ at[x] \in At BY DEF Types
<1>1. ASSUME UNCHANGED rt PROVE RuntimeMove(c) BY <1>1 DEF RuntimeMove
<1>2. ASSUME NEW x \in Attachers, NEW p, Goto(x, p) PROVE at'[x].pc = p
  BY <1>0, <1>2 DEF Goto, Types, At
<1>3. ASSUME NEW x \in Attachers, Claim(x) PROVE RuntimeMove(c)
  <2>1. CASE UNCHANGED rt BY <1>1, <2>1
  <2>2. CASE rt' # rt
    <3>1. Goto(x, "select") /\ rt' = [rt EXCEPT ![x] = [phase |-> "building", owner |-> at[x].owner]]
      BY <1>3, <2>2 DEF Claim
    <3>2. CASE x = c BY <1>2, <1>3, <3>1, <3>2 DEF RuntimeMove, Types
    <3>3. CASE x # c BY <3>1, <3>3 DEF RuntimeMove, Types
    <3> QED BY <3>2, <3>3
  <2> QED BY <2>1, <2>2
<1>4. ASSUME NEW x \in Attachers, LoadOwner(x) PROVE RuntimeMove(c)
  <2>1. Goto(x, "opening") BY <1>4 DEF LoadOwner
  <2>2. rt' = [rt EXCEPT ![x].owner = IF rows[at[x].id].owner # None THEN rows[at[x].id].owner ELSE @]
    BY <1>4 DEF LoadOwner
  <2>3. CASE x = c
    <3>1. /\ rt'[c].phase = rt[c].phase
          /\ rt'[c].owner = IF rows[at[c].id].owner # None THEN rows[at[c].id].owner ELSE rt[c].owner
      BY <1>0, <2>2, <2>3 DEF Types, Runtime
    <3> QED BY <1>2, <1>4, <2>1, <2>3, <3>1 DEF RuntimeMove
  <2>4. CASE x # c BY <2>2, <2>4 DEF RuntimeMove, Types
  <2> QED BY <2>3, <2>4
<1>5. ASSUME NEW x \in Attachers, Opened(x) PROVE RuntimeMove(c)
  <2>1. Goto(x, "listing") /\ rt' = [rt EXCEPT ![x].phase = "open"] BY <1>5 DEF Opened
  <2>2. CASE x = c
    <3>1. rt'[c].phase = "open" /\ rt'[c].owner = rt[c].owner BY <1>0, <2>1, <2>2 DEF Types, Runtime
    <3> QED BY <1>2, <1>5, <2>1, <2>2, <3>1 DEF RuntimeMove
  <2>3. CASE x # c BY <2>1, <2>3 DEF RuntimeMove, Types
  <2> QED BY <2>2, <2>3
<1>6. ASSUME NEW x \in Attachers, StartFails(x) PROVE RuntimeMove(c)
  <2>1. SettleWith(x, "refused", None) /\ rt' = [rt EXCEPT ![x].phase = "closed"] BY <1>6 DEF StartFails
  <2>2. CASE x = c
    <3>1. rt'[c].phase = "closed" BY <1>0, <2>1, <2>2 DEF Types, Runtime
    <3> QED BY <1>6, <2>1, <2>2, <3>1, SettleMoves DEF RuntimeMove
  <2>3. CASE x # c BY <2>1, <2>3 DEF RuntimeMove, Types
  <2> QED BY <2>2, <2>3
<1>7. ASSUME NEW d \in Enders, Remove(d) PROVE RuntimeMove(c)
  <2>1. rt' = [rt EXCEPT ![en[d].rt].phase = IF @ = "open" THEN "closing" ELSE @] BY <1>7 DEF Remove
  <2>2. CASE en[d].rt = c
    <3>1. /\ rt'[c].owner = rt[c].owner
          /\ rt'[c].phase = IF rt[c].phase = "open" THEN "closing" ELSE rt[c].phase
      BY <1>0, <2>1, <2>2 DEF Types, Runtime
    <3> QED BY <1>7, <2>2, <3>1 DEF RuntimeMove
  <2>3. CASE en[d].rt # c BY <2>1, <2>3 DEF RuntimeMove, Types
  <2> QED BY <2>2, <2>3
<1>8. ASSUME NEW d \in Enders, Closed(d) PROVE RuntimeMove(c)
  <2>1. rt' = [rt EXCEPT ![en[d].rt].phase = "closed"] BY <1>8 DEF Closed
  <2>2. CASE en[d].rt = c
    <3>1. rt'[c].owner = rt[c].owner /\ rt'[c].phase = "closed" BY <1>0, <2>1, <2>2 DEF Types, Runtime
    <3> QED BY <1>8, <2>2, <3>1 DEF RuntimeMove
  <2>3. CASE en[d].rt # c BY <2>1, <2>3 DEF RuntimeMove, Types
  <2> QED BY <2>2, <2>3
<1>9. ASSUME Crash PROVE RuntimeMove(c) BY <1>9, CrashMoves DEF RuntimeMove
<1>10. ASSUME NEW x \in Attachers, Attach(x) \/ AttachStep(x) \/ StartFails(x) \/ Activate(x)
       PROVE  RuntimeMove(c)
  BY <1>1, <1>3, <1>4, <1>5, <1>6, <1>10
    DEF Attach, AttachTo, AttachStep, NextSessionId, InitReads, InitWrites, Given, Activate
<1>11. ASSUME NEW d \in Enders, Detach(d) \/ DetachStep(d) PROVE RuntimeMove(c)
  BY <1>1, <1>7, <1>8, <1>11 DEF Detach, DetachStep, MarkEnded
<1>12. ASSUME SweepStep \/ UNCHANGED vars PROVE RuntimeMove(c)
  BY <1>1, <1>12
    DEF SweepStep, SweepPlans, SweepAttaches, AttachTo, SweepAttached, SweepFinishes, SweepEnds, vars
<1> QED BY <1>9, <1>10, <1>11, <1>12 DEF Next

-----------------------------------------------------------------------------
LEMMA AttachesStep ==
  ASSUME Types, Types', Shape, Attaches, Ends, [Next]_vars
  PROVE  Attaches'
<1> DEFINE Held == Building \cup {"listing"}
<1>0. \A c \in Attachers : at[c].id \in Sessions /\ at'[c].id \in Sessions /\ c # None
  BY NoneIsNobody DEF Types, At
<1>1. ASSUME NEW c \in Attachers, at'[c].pc \in Held PROVE attaching'[at'[c].id] = c
  <2>1. AttachMove(c) BY AttachSteps DEF Shape
  <2>2. CASE at'[c] = at[c]
    <3>1. attaching[at[c].id] = c BY <1>1, <2>2 DEF Attaches
    <3>2. StartingMove(at[c].id) BY <1>0, StartingSteps
    <3>3. ASSUME NEW x \in Attachers, Given(x) \/ StartFails(x), at[x].id = at[c].id,
                 at'[x].pc \in {"given", "refused"}
          PROVE  FALSE
      <4>1. attaching[at[x].id] = x BY <3>3 DEF Attaches, Given, StartFails, Building
      <4> QED BY <1>1, <2>2, <3>1, <3>3, <4>1 DEF Building
    <3>4. ~Crash BY <1>1, CrashMoves DEF Building
    <3> QED BY <1>0, <2>2, <3>1, <3>2, <3>3, <3>4 DEF StartingMove
  <2>3. CASE Claim(c) /\ at'[c].id = at[c].id
    <3>1. attaching' = [attaching EXCEPT ![at[c].id] = c]
      BY <1>1, <2>3 DEF Claim, Goto, Types, At, Building
    <3> QED BY <1>0, <2>3, <3>1 DEF Types
  <2>4. CASE (InitReads(c) \/ InitWrites(c) \/ LoadOwner(c) \/ Opened(c)) /\ at'[c].id = at[c].id
    BY <2>4 DEF InitReads, InitWrites, LoadOwner, Opened, Attaches, Building
  <2> QED BY <1>1, <2>1, <2>2, <2>3, <2>4 DEF AttachMove, Building
<1>2. ASSUME NEW c \in Attachers PROVE rt'[c].phase = "building" <=> at'[c].pc \in Building
  <2>1. AttachMove(c) BY AttachSteps DEF Shape
  <2>2. RuntimeMove(c) BY RuntimeSteps
  <2>3. rt[c].phase = "building" <=> at[c].pc \in Building BY DEF Attaches
  <2>4. ASSUME NEW d \in Enders, Closed(d), en[d].rt = c PROVE rt[c].phase # "building"
    BY <2>4 DEF Ends, Closed
  <2>5. CASE at'[c] = at[c]
    BY <2>2, <2>3, <2>4, <2>5, CrashMoves
       DEF RuntimeMove, Claim, LoadOwner, Opened, StartFails, Building
  <2>6. CASE Claim(c) /\ at'[c].pc \in {"joined", "refused", "select"}
    BY <1>0, <2>3, <2>6 DEF Claim, Goto, Types, At, Building
  <2>7. CASE \/ InitReads(c) /\ at'[c].pc = "write"
             \/ InitWrites(c) /\ at'[c].pc = "owner"
             \/ Given(c) /\ at'[c].pc = "given"
             \/ NextSessionId(c) /\ at'[c].pc = "claim"
             \/ at[c].pc = "idle" /\ at'[c].pc \in {"lookup", "given"} /\ UNCHANGED rt
    BY <2>3, <2>7 DEF InitReads, InitWrites, Given, NextSessionId, Building
  <2>8. CASE \/ LoadOwner(c) /\ at'[c].pc = "opening"
             \/ Opened(c) /\ at'[c].pc = "listing"
             \/ StartFails(c) /\ at'[c].pc = "refused"
    BY <2>3, <2>8 DEF LoadOwner, Opened, StartFails, Building, Types, Runtime
  <2>9. CASE at[c].pc = "joined" /\ at'[c].pc \in {"given", "refused"}
             /\ \E x \in Attachers : Given(x) \/ StartFails(x)
    <3>1. PICK x \in Attachers : Given(x) \/ StartFails(x) BY <2>9
    <3>2. x # c BY <2>9, <3>1 DEF Given, StartFails
    <3> QED BY <2>3, <2>9, <3>1, <3>2 DEF Given, StartFails, Building, Types
  <2>10. CASE Crash BY <2>10, CrashMoves DEF Building
  <2> QED BY <2>1, <2>5, <2>6, <2>7, <2>8, <2>9, <2>10 DEF AttachMove
<1>3. ASSUME NEW c \in Attachers, at'[c].pc = "joined" PROVE at'[c].id \in Starting'
  <2>1. AttachMove(c) BY AttachSteps DEF Shape
  <2>2. CASE at'[c] = at[c]
    <3>1. attaching[at[c].id] # None BY <1>3, <2>2 DEF Attaches, Starting
    <3>2. StartingMove(at[c].id) BY <1>0, StartingSteps
    <3>3. ASSUME NEW x \in Attachers, Given(x) \/ StartFails(x), at[x].id = at[c].id PROVE FALSE
      <4>1. PICK p \in {"given", "refused"} : \E got : SettleWith(x, p, got)
        BY <3>3 DEF Given, StartFails
      <4>2. at'[c].pc = p BY <1>3, <2>2, <3>3, <4>1, SettleMoves
      <4> QED BY <1>3, <4>2
    <3>4. ~Crash BY <1>3, CrashMoves
    <3> QED BY <1>0, <2>2, <3>1, <3>2, <3>3, <3>4 DEF StartingMove, Starting
  <2>3. CASE Claim(c) /\ at'[c].id = at[c].id
    <3>1. attaching[at[c].id] # None /\ UNCHANGED attaching
      BY <1>3, <2>3 DEF Claim, Goto, Types, At
    <3> QED BY <1>0, <2>3, <3>1 DEF Starting
  <2> QED BY <1>3, <2>1, <2>2, <2>3 DEF AttachMove
<1>4. ASSUME NEW c \in Attachers, at'[c].pc = "opening" PROVE rt'[c].owner = rows'[at'[c].id].owner
  <2>1. AttachMove(c) BY AttachSteps DEF Shape
  <2>2. CASE at'[c] = at[c]
    <3>1. rt[c].owner = rows[at[c].id].owner /\ rows[at[c].id].status # "absent"
      BY <1>4, <2>2 DEF Attaches, Shape, Rowed
    <3>2. rows'[at[c].id].owner = rows[at[c].id].owner BY <1>0, <3>1, RowSteps DEF RowMoves
    <3>3. RuntimeMove(c) BY RuntimeSteps
    <3>4. rt'[c].owner = rt[c].owner
      BY <1>4, <2>2, <3>3, CrashMoves DEF RuntimeMove, Claim, LoadOwner
    <3> QED BY <2>2, <3>1, <3>2, <3>4
  <2>3. CASE LoadOwner(c) /\ at'[c].id = at[c].id
    <3>1. rows[at[c].id].owner \in Owners BY <1>0, <2>3 DEF LoadOwner, Shape, Rowed
    <3>2. rows[at[c].id].owner # None BY <3>1, NoneIsNobody
    <3> QED BY <2>3, <3>2 DEF LoadOwner, Types, Runtime
  <2> QED BY <1>4, <2>1, <2>2, <2>3 DEF AttachMove
<1>5. ASSUME NEW s \in Starting'
      PROVE  at'[attaching'[s]].id = s /\ at'[attaching'[s]].pc \in Held
  <2>0. s \in Sessions /\ attaching'[s] # None BY DEF Starting
  <2>1. StartingMove(s) BY <2>0, StartingSteps
  <2>2. CASE attaching'[s] = attaching[s]
    <3> DEFINE x == attaching[s]
    <3>1. x \in Attachers /\ at[x].id = s /\ at[x].pc \in Held
      BY <2>0, <2>2 DEF Attaches, Starting, Types
    <3>2. AttachMove(x) BY <3>1, AttachSteps DEF Shape
    <3>3. ~(Given(x) \/ StartFails(x))
      <4> SUFFICES ASSUME Given(x) \/ StartFails(x) PROVE FALSE OBVIOUS
      <4>1. PICK p \in {"given", "refused"} : \E got : SettleWith(x, p, got) BY DEF Given, StartFails
      <4>2. attaching'[s] = None BY <2>0, <3>1, <4>1, SettleMoves
      <4> QED BY <2>0, <4>2
    <3>4. ~Crash BY <2>0, CrashMoves
    <3> HIDE DEF x
    <3>5. at'[x].id = s /\ at'[x].pc \in Held
      BY <3>1, <3>2, <3>3, <3>4 DEF AttachMove, Building, Claim, NextSessionId
    <3> QED BY <2>2, <3>5 DEF x
  <2> QED BY <2>0, <2>1, <2>2 DEF StartingMove, Building
<1> QED BY <1>1, <1>2, <1>3, <1>4, <1>5 DEF Attaches

(* What becomes of a runtime that is in the map, and of its attach. *)
LEMMA WatchedMoves ==
  ASSUME Types, Shape, Attaches, Maps, [Next]_vars, NEW s \in Watched
  PROVE  LET c == runtimes[s] IN
         /\ c \in Attachers /\ at[c].id = s
         /\ \/ Crash
            \/ /\ at'[c].id = s /\ at'[c].pc \in {"listing", "given"}
               /\ at'[c].room = at[c].room /\ at'[c].owner = at[c].owner
               /\ ~Opened(c) /\ ~LoadOwner(c) /\ ~Claim(c) /\ ~StartFails(c)
               /\ rows'[s].owner = rows[s].owner /\ rows[s].status # "absent"
<1> DEFINE c == runtimes[s]
<1>1. /\ s \in Sessions /\ c \in Attachers /\ at[c].id = s /\ at[c].pc \in {"listing", "given"}
  BY DEF Maps, Watched, Types
<1>2. AttachMove(c) BY <1>1, AttachSteps DEF Shape
<1> HIDE DEF c
<1>3. \/ Crash
      \/ /\ at'[c].id = s /\ at'[c].pc \in {"listing", "given"}
         /\ at'[c].room = at[c].room /\ at'[c].owner = at[c].owner
         /\ ~Opened(c) /\ ~LoadOwner(c) /\ ~Claim(c) /\ ~StartFails(c)
  BY <1>1, <1>2
     DEF AttachMove, Claim, InitReads, InitWrites, LoadOwner, Opened, Given, StartFails, NextSessionId
<1>4. rows[s].status # "absent" BY DEF Shape, Rowed
<1>5. rows'[s].owner = rows[s].owner BY <1>1, <1>4, RowSteps DEF RowMoves
<1> QED BY <1>1, <1>3, <1>4, <1>5 DEF c

LEMMA MapsStep ==
  ASSUME Types, Types', Shape, Attaches, Maps, Alone, Ends, [Next]_vars
  PROVE  Maps'
<1>0. \A c \in Attachers : at[c].id \in Sessions /\ at'[c].id \in Sessions /\ c # None
  BY NoneIsNobody DEF Types, At
<1>1. ASSUME NEW c \in Attachers, rt'[c].phase = "open" PROVE runtimes'[at'[c].id] = c
  <2>1. RuntimeMove(c) BY RuntimeSteps
  <2>2. CASE Opened(c) /\ at'[c].pc = "listing"
    <3>1. at'[c].id = at[c].id BY <2>2 DEF Opened, Goto, Types, At
    <3> QED BY <1>0, <2>2, <3>1 DEF Opened, Types
  <2>3. CASE rt[c].phase = "open"
    <3> DEFINE s == at[c].id
    <3>1. s \in Watched /\ runtimes[s] = c BY <1>0, <2>3 DEF Maps, Watched
    <3>2. ~Crash BY <1>1, CrashMoves
    <3>3. at'[c].id = s BY <3>1, <3>2, WatchedMoves
    <3>4. MapMove(s) BY <1>0, MapSteps
    <3>5. ASSUME NEW x \in Attachers, Opened(x), at[x].id = s PROVE FALSE
      BY <3>1, <3>5 DEF Opened, Alone, Building
    <3>6. ASSUME NEW d \in Enders, Remove(d), en[d].id = s PROVE FALSE
      <4>1. en[d].rt = c BY <1>0, <3>1, <3>6 DEF Ends, Remove
      <4>2. rt'[c].phase # "open" BY <3>6, <4>1 DEF Remove, Types, Runtime
      <4> QED BY <1>1, <4>2
    <3> QED BY <3>1, <3>2, <3>3, <3>4, <3>5, <3>6 DEF MapMove
  <2>4. LoadOwner(c) => rt[c].phase = "building" BY DEF LoadOwner, Attaches, Building
  <2> QED BY <1>1, <2>1, <2>2, <2>3, <2>4 DEF RuntimeMove
<1>2. ASSUME NEW s \in Watched'
      PROVE  LET c == runtimes'[s] IN
             /\ at'[c].id = s /\ at'[c].pc \in {"listing", "given"} /\ rt'[c].phase = "open"
             /\ rt'[c].owner = rows'[s].owner
  <2>0. s \in Sessions /\ runtimes'[s] # None BY DEF Watched
  <2>1. MapMove(s) BY <2>0, MapSteps
  <2>2. CASE runtimes'[s] = runtimes[s]
    <3> DEFINE c == runtimes[s]
    <3>1. s \in Watched BY <2>0, <2>2 DEF Watched
    <3>2. rt[c].phase = "open" /\ rt[c].owner = rows[s].owner BY <3>1 DEF Maps
    <3>3. ~Crash BY <2>0, CrashMoves
    <3>4. /\ c \in Attachers /\ at[c].id = s
          /\ at'[c].id = s /\ at'[c].pc \in {"listing", "given"}
          /\ ~Opened(c) /\ ~LoadOwner(c) /\ ~Claim(c) /\ ~StartFails(c)
          /\ rows'[s].owner = rows[s].owner
      BY <3>1, <3>3, WatchedMoves
    <3>5. RuntimeMove(c) BY <3>4, RuntimeSteps
    <3>6. ASSUME NEW d \in Enders, Remove(d), en[d].rt = c PROVE FALSE
      <4>1. en[d].id = s BY <3>4, <3>6 DEF Ends, Remove
      <4> QED BY <2>0, <3>6, <4>1 DEF Remove, Types
    <3>7. ASSUME NEW d \in Enders, Closed(d), en[d].rt = c PROVE FALSE
      BY <3>2, <3>7 DEF Ends, Closed
    <3> HIDE DEF c
    <3>8. rt'[c] = rt[c] BY <3>3, <3>4, <3>5, <3>6, <3>7 DEF RuntimeMove
    <3> QED BY <2>2, <3>2, <3>4, <3>8 DEF c
  <2>3. CASE \E c \in Attachers : Opened(c) /\ at[c].id = s /\ runtimes'[s] = c
    <3>1. PICK c \in Attachers : Opened(c) /\ at[c].id = s /\ runtimes'[s] = c BY <2>3
    <3>2. at'[c].id = s /\ at'[c].pc = "listing" BY <3>1 DEF Opened, Goto, Types, At
    <3>3. rt'[c].phase = "open" /\ rt'[c].owner = rt[c].owner BY <3>1 DEF Opened, Types, Runtime
    <3>4. rt[c].owner = rows[s].owner /\ rows' = rows BY <3>1 DEF Opened, Attaches
    <3> QED BY <3>1, <3>2, <3>3, <3>4
  <2> QED BY <2>0, <2>1, <2>2, <2>3 DEF MapMove
<1> QED BY <1>1, <1>2 DEF Maps

-----------------------------------------------------------------------------
(* The session an attach is told to take is watched by nobody, and has not  *)
(* ended: had it a runtime, the request would have been handed that.        *)
LEMMA PickedIsFree ==
  ASSUME Types, Shape, Maps, Alone, NEW c \in Attachers, NextSessionId(c)
  PROVE  LET s == sessionIdFor(at[c].room, at[c].owner) IN
         s \in Sessions /\ s \notin Watched /\ ~Ended(s)
<1> DEFINE s == sessionIdFor(at[c].room, at[c].owner)
<1>1. at[c].room \in Rooms /\ at[c].owner \in Owners BY DEF Types, At
<1>2. /\ s \in Sessions /\ s[1] = at[c].room
      /\ rows[s].status = "absent" \/ (rows[s].status = "live" /\ rows[s].owner = at[c].owner)
  BY <1>1, SessionIdFor DEF NextSessionId
<1>3. at[c].pc = "lookup" BY DEF NextSessionId
<1> HIDE DEF s
<1>4. ASSUME s \in Watched PROVE FALSE
  <2>1. rows[s].owner = at[c].owner BY <1>2, <1>4 DEF Shape, Rowed
  <2>2. rt[runtimes[s]].owner = at[c].owner BY <1>4, <2>1 DEF Maps
  <2>3. s \in liveRuntime(at[c].room, at[c].owner) BY <1>2, <1>4, <2>2 DEF liveRuntime
  <2> QED BY <1>3, <2>3 DEF Alone
<1> QED BY <1>2, <1>4 DEF s, Ended

(* A session that is watched or has ended, and that nobody is building,     *)
(* stays so until the process crashes.                                      *)
LEMMA TakenStaysTaken ==
  ASSUME Types, Types', Shape, Maps, Alone, Ends, [Next]_vars, ~Crash,
         NEW s \in Sessions, Seekers(s) = {}, s \in Watched \/ Ended(s)
  PROVE  /\ \A c \in Attachers : ~(at'[c].id = s /\ at'[c].pc \in Building \cup {"claim"})
         /\ runtimes'[s] \in {runtimes[s], None}
         /\ s \in Watched' \/ rows'[s].status = "ended"
         /\ Ended(s) => rows'[s].status = "ended"
<1>1. \A c \in Attachers : ~(at'[c].id = s /\ at'[c].pc \in Building \cup {"claim"})
  <2> SUFFICES ASSUME NEW c \in Attachers, at'[c].id = s, at'[c].pc \in Building \cup {"claim"}
               PROVE  FALSE
    OBVIOUS
  <2>1. AttachMove(c) BY AttachSteps DEF Shape
  <2>2. ~(at[c].id = s /\ at[c].pc \in Building \cup {"claim"}) BY DEF Seekers
  <2>3. CASE NextSessionId(c) /\ at'[c].id = sessionIdFor(at[c].room, at[c].owner)
    BY <2>3, PickedIsFree
  <2> QED BY <2>1, <2>2, <2>3 DEF AttachMove, Building, Claim, InitReads, InitWrites, LoadOwner
<1>2. ASSUME NEW c \in Attachers, at[c].id = s, at[c].pc \in Building PROVE FALSE
  BY <1>2 DEF Seekers
<1>3. MapMove(s) BY MapSteps
<1>4. runtimes'[s] \in {runtimes[s], None} BY <1>2, <1>3 DEF MapMove, Opened, Building
<1>5. ASSUME Ended(s) PROVE rows'[s].status = "ended"
  <2>1. rows'[s] = rows[s] \/ rows'[s].status = "ended" \/ \E c \in Attachers : InitWrites(c) /\ at[c].id = s
    BY RowSteps DEF RowMoves
  <2> QED BY <1>2, <1>5, <2>1 DEF InitWrites, Building, Ended
<1>6. ASSUME s \in Watched PROVE s \in Watched' \/ rows'[s].status = "ended"
  <2>1. CASE \E d \in Enders : Remove(d) /\ en[d].id = s
    <3>1. Ended(s) BY <2>1 DEF Remove, Ends
    <3> QED BY <1>5, <3>1
  <2>2. CASE runtimes'[s] = runtimes[s] BY <1>6, <2>2 DEF Watched
  <2>3. CASE \E c \in Attachers : Opened(c) /\ at[c].id = s BY <1>2, <2>3 DEF Opened, Building
  <2> QED BY <1>3, <2>1, <2>2, <2>3 DEF MapMove
<1> QED BY <1>1, <1>4, <1>5, <1>6

LEMMA AloneStep ==
  ASSUME QuickLookups, Types, Types', Shape, Attaches, Maps, Alone, Ends, [Next]_vars
  PROVE  Alone'
<1>0. \A c \in Attachers : at[c].id \in Sessions /\ at'[c].id \in Sessions /\ c # None
  BY NoneIsNobody DEF Types, At
<1>1. ASSUME NEW x \in Attachers, Opened(x)
      PROVE  \A c \in Attachers : at[c].pc \in {"lookup", "claim"} => at[c].room # at[x].id[1]
  <2>1. at[x].id[1] = at[x].room BY <1>1 DEF Shape, Rooted, Opened
  <2> QED BY <1>1, <2>1 DEF Opened, LookingUp
<1>2. ASSUME NEW c \in Attachers, at'[c].pc = "lookup",
             NEW s \in Watched', s[1] = at'[c].room, rt'[runtimes'[s]].owner = at'[c].owner
      PROVE  FALSE
  <2>1. AttachMove(c) BY AttachSteps DEF Shape
  <2>2. s \in Sessions /\ runtimes'[s] # None BY DEF Watched
  <2>3. CASE at'[c] = at[c]
    <3>1. \A x \in Attachers : Opened(x) => at[x].id # s BY <1>1, <1>2, <2>3
    <3>2. ~Crash BY <2>2, CrashMoves
    <3>3. runtimes'[s] = runtimes[s] BY <2>2, <3>1, <3>2, MapSteps DEF MapMove
    <3> DEFINE x == runtimes[s]
    <3>4. s \in Watched BY <2>2, <3>3 DEF Watched
    <3>5. x \in Attachers /\ ~LoadOwner(x) /\ ~Claim(x) /\ ~StartFails(x) /\ ~Opened(x)
      BY <3>2, <3>4, WatchedMoves
    <3> HIDE DEF x
    <3>6. rt'[x].owner = rt[x].owner BY <3>2, <3>5, RuntimeSteps DEF RuntimeMove
    <3>7. s \in liveRuntime(at[c].room, at[c].owner) BY <1>2, <2>3, <3>3, <3>4, <3>6 DEF liveRuntime, x
    <3> QED BY <1>2, <2>3, <3>7 DEF Alone
  <2>4. CASE /\ UNCHANGED <<rows, runtimes, attaching, rt, en>>
             /\ liveRuntime(at'[c].room, at'[c].owner) = {}
    BY <1>2, <2>4 DEF liveRuntime, Watched
  <2> QED BY <1>2, <2>1, <2>3, <2>4 DEF AttachMove
<1>3. ASSUME NEW c \in Attachers, at'[c].pc \in Building \cup {"claim"} PROVE at'[c].id \notin Watched'
  <2>1. AttachMove(c) BY AttachSteps DEF Shape
  <2>2. CASE NextSessionId(c) /\ at'[c].id = sessionIdFor(at[c].room, at[c].owner)
    <3>1. UNCHANGED runtimes BY <2>2 DEF NextSessionId
    <3> QED BY <2>2, <3>1, PickedIsFree DEF Watched
  <2>3. CASE at'[c].id = at[c].id /\ at[c].pc \in Building \cup {"claim"}
    <3>1. at[c].id \notin Watched BY <2>3 DEF Alone
    <3>2. ASSUME NEW x \in Attachers, Opened(x), at[x].id = at[c].id PROVE FALSE
      <4>1. CASE at[c].pc = "claim"
        BY <1>1, <3>2, <4>1 DEF Shape, Rooted
      <4>2. CASE at[c].pc \in Building
        <5>1. x = c BY <3>2, <4>2 DEF Attaches, Opened, Building
        <5>2. at'[c].pc = "listing" BY <3>2, <5>1 DEF Opened, Goto, Types, At
        <5> QED BY <1>3, <5>2 DEF Building
      <4> QED BY <2>3, <4>1, <4>2
    <3>3. MapMove(at[c].id) BY <1>0, MapSteps
    <3> QED BY <1>0, <2>3, <3>1, <3>2, <3>3 DEF MapMove, Watched
  <2> QED BY <1>3, <2>1, <2>2, <2>3 DEF AttachMove, Building, Claim, InitReads, InitWrites, LoadOwner
<1>4. ASSUME NEW c \in Attachers, at'[c].pc = "listing"
      PROVE  /\ \A x \in Attachers : ~(at'[x].id = at'[c].id /\ at'[x].pc \in Building \cup {"claim"})
             /\ runtimes'[at'[c].id] \in {c, None}
             /\ at'[c].id \in Watched' \/ rows'[at'[c].id].status = "ended"
  <2>1. AttachMove(c) BY AttachSteps DEF Shape
  <2>2. CASE at'[c] = at[c]
    <3>1. ~Crash BY <1>4, CrashMoves
    <3>2. /\ Seekers(at[c].id) = {} /\ runtimes[at[c].id] \in {c, None}
          /\ at[c].id \in Watched \/ Ended(at[c].id)
      BY <1>4, <2>2 DEF Alone
    <3> DEFINE s == at[c].id
    <3>3. s \in Sessions /\ at'[c].id = s BY <1>0, <2>2
    <3> HIDE DEF s
    <3>4. Seekers(s) = {} /\ runtimes[s] \in {c, None} /\ (s \in Watched \/ Ended(s)) BY <3>2 DEF s
    <3>5. /\ \A x \in Attachers : ~(at'[x].id = s /\ at'[x].pc \in Building \cup {"claim"})
          /\ runtimes'[s] \in {runtimes[s], None}
          /\ s \in Watched' \/ rows'[s].status = "ended"
      BY <3>1, <3>3, <3>4, TakenStaysTaken
    <3> QED BY <3>3, <3>4, <3>5
  <2>3. CASE Opened(c) /\ at'[c].id = at[c].id
    <3>1. runtimes'[at[c].id] = c BY <1>0, <2>3 DEF Opened, Types
    <3>2. at[c].id \in Watched' BY <1>0, <3>1 DEF Watched
    <3>3. ASSUME NEW x \in Attachers, at'[x].id = at[c].id, at'[x].pc \in Building \cup {"claim"}
          PROVE  FALSE
      <4>1. at'[c].pc = "listing" /\ (x # c => at'[x] = at[x]) BY <2>3 DEF Opened, Goto, Types, At
      <4>2. x # c BY <3>3, <4>1 DEF Building
      <4>3. CASE at[x].pc = "claim" BY <1>1, <2>3, <3>3, <4>1, <4>2, <4>3 DEF Shape, Rooted
      <4>4. CASE at[x].pc \in Building
        <5>1. attaching[at[x].id] = x BY <4>4 DEF Attaches
        <5>2. attaching[at[c].id] = c BY <2>3 DEF Attaches, Opened, Building
        <5> QED BY <3>3, <4>1, <4>2, <5>1, <5>2
      <4> QED BY <3>3, <4>1, <4>2, <4>3, <4>4
    <3> QED BY <2>3, <3>1, <3>2, <3>3
  <2> QED BY <1>4, <2>1, <2>2, <2>3 DEF AttachMove
<1>5. \A c \in Attachers : at'[c].pc = "lookup" =>
        {s \in Watched' : s[1] = at'[c].room /\ rt'[runtimes'[s]].owner = at'[c].owner} = {}
  BY <1>2
<1> QED BY <1>3, <1>4, <1>5 DEF Alone, liveRuntime, Seekers, Ended

LEMMA EndsStep ==
  ASSUME Types, Types', Shape, Attaches, Maps, Alone, Ends, [Next]_vars
  PROVE  Ends'
<1> SUFFICES ASSUME NEW d \in Enders, en'[d].pc \in {"finish", "remove", "close"}
             PROVE  /\ en'[d].rt \in Attachers /\ at'[en'[d].rt].pc \in {"listing", "given"}
                    /\ rt'[en'[d].rt].phase \in {"open", "closing", "closed"}
                    /\ en'[d].pc \in {"finish", "remove"} =>
                         /\ at'[en'[d].rt].id = en'[d].id
                         /\ \A x \in Attachers : ~(at'[x].id = en'[d].id /\ at'[x].pc \in Building \cup {"claim"})
                         /\ runtimes'[en'[d].id] \in {en'[d].rt, None}
                         /\ en'[d].id \in Watched' \/ rows'[en'[d].id].status = "ended"
                    /\ en'[d].pc = "remove" => rows'[en'[d].id].status = "ended"
                    /\ en'[d].pc = "close" => rt'[en'[d].rt].phase \in {"closing", "closed"}
  BY DEF Ends, Seekers, Ended
<1> DEFINE c == en'[d].rt
           s == en'[d].id
<1>1. ~Crash BY CrashMoves
<1>2. EndMove(d) BY EndSteps
<1>3. s \in Sessions BY DEF Types, Ender
(* The runtime an ender holds was in the map when it took it. *)
<1>4. /\ c \in Attachers /\ at[c].pc \in {"listing", "given"}
      /\ rt[c].phase \in {"open", "closing", "closed"}
      /\ en'[d].pc \in {"finish", "remove"} =>
           at[c].id = s /\ Seekers(s) = {} /\ runtimes[s] \in {c, None} /\ (s \in Watched \/ Ended(s))
  <2>1. CASE Detach(d) /\ en'[d].id \in Watched /\ en'[d].rt = runtimes[en'[d].id]
    <3> HIDE DEF c, s
    <3>1. s \in Watched /\ c = runtimes[s] BY <2>1 DEF c, s
    <3>2. c \in Attachers /\ at[c].id = s /\ at[c].pc \in {"listing", "given"} /\ rt[c].phase = "open"
      BY <3>1 DEF Maps, Watched, Types
    <3>3. Seekers(s) = {} BY <3>1 DEF Alone, Seekers
    <3> QED BY <3>1, <3>2, <3>3
  <2>2. CASE /\ en'[d].id = en[d].id /\ en'[d].rt = en[d].rt
             /\ en[d].pc \in {"finish", "remove", "close"}
             /\ en'[d].pc \in {"finish", "remove"} => en[d].pc \in {"finish", "remove"}
    BY <2>2 DEF Ends
  <2> QED BY <1>1, <1>2, <2>1, <2>2 DEF EndMove, MarkEnded, Remove, Closed
<1>5. c \in Attachers /\ at'[c].pc \in {"listing", "given"} /\ at'[c].id = at[c].id
  <2> HIDE DEF c
  <2>1. AttachMove(c) BY <1>4, AttachSteps DEF Shape
  <2> QED BY <1>1, <1>4, <2>1
     DEF AttachMove, Claim, InitReads, InitWrites, LoadOwner, Opened, Given, StartFails, NextSessionId
<1>6. /\ rt'[c].phase \in {"open", "closing", "closed"}
      /\ rt[c].phase \in {"closing", "closed"} => rt'[c].phase \in {"closing", "closed"}
  <2> HIDE DEF c
  <2>1. RuntimeMove(c) BY <1>4, RuntimeSteps
  <2> QED BY <1>1, <1>4, <2>1 DEF RuntimeMove, Claim, LoadOwner, Opened, StartFails
<1>7. ASSUME en'[d].pc \in {"finish", "remove"}
      PROVE  /\ \A x \in Attachers : ~(at'[x].id = s /\ at'[x].pc \in Building \cup {"claim"})
             /\ runtimes'[s] \in {c, None}
             /\ s \in Watched' \/ rows'[s].status = "ended"
             /\ Ended(s) => rows'[s].status = "ended"
  <2> HIDE DEF c, s
  <2>1. Seekers(s) = {} /\ runtimes[s] \in {c, None} /\ (s \in Watched \/ Ended(s)) BY <1>4, <1>7
  <2>2. /\ \A x \in Attachers : ~(at'[x].id = s /\ at'[x].pc \in Building \cup {"claim"})
        /\ runtimes'[s] \in {runtimes[s], None}
        /\ s \in Watched' \/ rows'[s].status = "ended"
        /\ Ended(s) => rows'[s].status = "ended"
    BY <1>1, <1>3, <2>1, TakenStaysTaken
  <2> QED BY <2>1, <2>2
<1>8. ASSUME en'[d].pc = "remove" PROVE rows'[s].status = "ended"
  <2>1. CASE MarkEnded(d) /\ en'[d].id = en[d].id
    BY <1>3, <2>1 DEF MarkEnded, Ended, Types, Row
  <2>2. CASE en'[d] = en[d] BY <1>7, <1>8, <2>2 DEF Ends
  <2> QED BY <1>1, <1>2, <1>8, <2>1, <2>2 DEF EndMove
<1>9. ASSUME en'[d].pc = "close" PROVE rt'[c].phase \in {"closing", "closed"}
  <2>1. CASE Remove(d) /\ en'[d].rt = en[d].rt
    <3>1. rt'[c].phase = IF rt[c].phase = "open" THEN "closing" ELSE rt[c].phase
      BY <1>4, <2>1 DEF Remove, Types, Runtime
    <3> QED BY <1>4, <3>1
  <2>2. CASE en'[d] = en[d] BY <1>6, <1>9, <2>2 DEF Ends
  <2> QED BY <1>1, <1>2, <1>9, <2>1, <2>2 DEF EndMove
<1> HIDE DEF c, s
<1>10. /\ c \in Attachers /\ at'[c].pc \in {"listing", "given"}
       /\ rt'[c].phase \in {"open", "closing", "closed"}
       /\ en'[d].pc \in {"finish", "remove"} =>
            /\ at'[c].id = s
            /\ \A x \in Attachers : ~(at'[x].id = s /\ at'[x].pc \in Building \cup {"claim"})
            /\ runtimes'[s] \in {c, None}
            /\ s \in Watched' \/ rows'[s].status = "ended"
       /\ en'[d].pc = "remove" => rows'[s].status = "ended"
       /\ en'[d].pc = "close" => rt'[c].phase \in {"closing", "closed"}
  BY <1>4, <1>5, <1>6, <1>7, <1>8, <1>9
<1> QED BY <1>10 DEF c, s

(* Before the crash there is no sweep. *)
LEMMA NeverStays ==
  ASSUME Types, [Next]_vars, sweep'.pc = "never"
  PROVE  sweep.pc = "never" /\ ~Crash /\ ~SweepFinishes
<1>1. ASSUME SweepPlans PROVE FALSE
  <2>1. PICK s \in sweep.left, plan \in {"skip", "resume", "finish", "leave"} :
          sweep' = [sweep EXCEPT !.left = @ \ {s}, !.cur = s,
                      !.pc = IF plan \in {"resume", "finish"} THEN plan ELSE "next"]
    BY <1>1 DEF SweepPlans
  <2>2. sweep'.pc \in {"resume", "finish", "next"} BY <2>1 DEF Types
  <2> QED BY <2>2
<1>2. ~SweepAttached /\ ~SweepFinishes /\ ~SweepEnds
  BY DEF SweepAttached, SweepFinishes, SweepEnds, SweepAt, Types
<1>3. ~Crash BY DEF Crash
<1>4. ASSUME NEW c \in Attachers, Attach(c) \/ AttachStep(c) \/ StartFails(c) \/ Activate(c)
      PROVE  sweep' = sweep
  BY <1>4
    DEF Attach, AttachStep, NextSessionId, Claim, InitReads, InitWrites, LoadOwner, Opened, Given,
        StartFails, Activate
<1>5. ASSUME NEW d \in Enders, Detach(d) \/ DetachStep(d) PROVE sweep' = sweep
  BY <1>5 DEF Detach, DetachStep, MarkEnded, Remove, Closed
<1>6. SweepAttaches \/ UNCHANGED vars => sweep' = sweep BY DEF SweepAttaches, vars
<1> QED BY <1>1, <1>2, <1>3, <1>4, <1>5, <1>6 DEF Next, SweepStep

(* A session that is being built is not ended under its attach, until the   *)
(* sweep runs.                                                              *)
LEMMA SoughtIsNotEnded ==
  ASSUME Types, Ends, [Next]_vars, ~SweepFinishes, NEW c \in Attachers,
         at[c].pc \in Building \cup {"claim"}
  PROVE  rows'[at[c].id].status = rows[at[c].id].status \/ rows'[at[c].id].status = "live"
<1>1. at[c].id \in Sessions BY DEF Types, At
<1>2. ~ \E d \in Enders : MarkEnded(d) /\ en[d].id = at[c].id BY DEF Ends, MarkEnded, Seekers
<1> QED BY <1>1, <1>2, RowSteps DEF RowMoves

LEMMA OnAirStep ==
  ASSUME Types, Types', Shape, Ends, OnAir, [Next]_vars
  PROVE  OnAir'
<1> SUFFICES ASSUME sweep'.pc = "never"
             PROVE  /\ \A c \in Attachers : at'[c].pc \in {"owner", "opening"} => at'[c].id \in Live'
                    /\ \A s \in Watched' : s \in Live' \/ \E d \in Enders : en'[d].pc = "remove" /\ en'[d].id = s
  BY DEF OnAir
<1>0. /\ sweep.pc = "never" /\ ~Crash /\ ~SweepFinishes BY NeverStays
<1>1. \A c \in Attachers : at[c].id \in Sessions /\ at'[c].id \in Sessions BY DEF Types, At
<1>2. ASSUME NEW c \in Attachers, at'[c].pc \in {"owner", "opening"} PROVE at'[c].id \in Live'
  <2>1. AttachMove(c) BY AttachSteps DEF Shape
  <2>2. CASE InitWrites(c) /\ at'[c].id = at[c].id
    BY <1>1, <2>2 DEF InitWrites, Live, Types, Row
  <2>3. CASE at[c].pc \in {"owner", "opening"} /\ at'[c].id = at[c].id
    <3>1. rows[at[c].id].status = "live" BY <1>0, <2>3 DEF OnAir, Live
    <3>2. rows'[at[c].id].status = "live"
      BY <1>0, <2>3, <3>1, SoughtIsNotEnded DEF Building
    <3> QED BY <1>1, <2>3, <3>2 DEF Live
  <2> QED BY <1>2, <2>1, <2>2, <2>3 DEF AttachMove, LoadOwner
<1>3. ASSUME NEW s \in Watched' PROVE s \in Live' \/ \E d \in Enders : en'[d].pc = "remove" /\ en'[d].id = s
  <2>0. s \in Sessions /\ runtimes'[s] # None BY DEF Watched
  <2>1. MapMove(s) BY <2>0, MapSteps
  <2>2. CASE runtimes'[s] = runtimes[s]
    <3>1. CASE s \in Live
      <4>1. CASE rows'[s] = rows[s] BY <2>0, <3>1, <4>1 DEF Live
      <4>2. CASE \E d \in Enders : MarkEnded(d) /\ en[d].id = s
        <5>1. PICK d \in Enders : MarkEnded(d) /\ en[d].id = s BY <4>2
        <5>2. en'[d].pc = "remove" /\ en'[d].id = s BY <5>1 DEF MarkEnded, Types, Ender
        <5> QED BY <5>2
      <4>3. CASE rows'[s].status = "live" BY <2>0, <4>3 DEF Live
      <4> QED BY <1>0, <2>0, <4>1, <4>2, <4>3, RowSteps DEF RowMoves
    <3>2. CASE \E d \in Enders : en[d].pc = "remove" /\ en[d].id = s
      <4>1. PICK d \in Enders : en[d].pc = "remove" /\ en[d].id = s BY <3>2
      <4>2. ~Remove(d) BY <2>0, <4>1 DEF Remove, Types
      <4>3. EndMove(d) BY EndSteps
      <4>4. en'[d] = en[d] BY <1>0, <4>1, <4>2, <4>3 DEF EndMove, Detach, MarkEnded, Closed
      <4> QED BY <4>1, <4>4
    <3>3. s \in Watched BY <2>0, <2>2 DEF Watched
    <3> QED BY <1>0, <3>1, <3>2, <3>3 DEF OnAir
  <2>3. CASE \E c \in Attachers : Opened(c) /\ at[c].id = s
    BY <1>0, <2>3 DEF Opened, OnAir, Live
  <2> QED BY <1>0, <2>0, <2>1, <2>2, <2>3 DEF MapMove
<1> QED BY <1>2, <1>3

LEMMA OneEachStep ==
  ASSUME Types, Types', Shape, Ends, OneEach, [Next]_vars
  PROVE  OneEach'
<1> SUFFICES ASSUME sweep'.pc = "never"
             PROVE  /\ \A s, t \in Live' : s[1] = t[1] /\ rows'[s].owner = rows'[t].owner => s = t
                    /\ \A c \in Attachers : at'[c].pc \in {"claim", "select", "write"} =>
                       /\ rows'[at'[c].id].status # "ended"
                       /\ rows'[at'[c].id].status = "absent" =>
                          /\ \A s \in Live' : s[1] = at'[c].room => rows'[s].owner # at'[c].owner
                          /\ \A s \in Sessions :
                               s[1] = at'[c].room /\ s[2] < at'[c].id[2] => rows'[s].status # "absent"
  BY DEF OneEach, Ended
<1>0. /\ sweep.pc = "never" /\ ~Crash /\ ~SweepFinishes BY NeverStays
<1>1. \A c \in Attachers : at[c].id \in Sessions /\ at'[c].id \in Sessions BY DEF Types, At
<1>2. \A s \in Sessions : rows[s].status # "absent" =>
        rows'[s].status # "absent" /\ rows'[s].owner = rows[s].owner
  BY RowSteps DEF RowMoves
(* The row that goes on air. *)
<1>3. ASSUME NEW s \in Live', s \notin Live
      PROVE  \E c \in Attachers : /\ InitWrites(c) /\ at[c].id = s /\ s[1] = at[c].room
                                  /\ rows[s].status = "absent" /\ rows'[s].owner = at[c].owner
  <2>1. s \in Sessions /\ rows'[s].status = "live" /\ rows[s].status # "live" BY <1>3 DEF Live
  <2>2. PICK c \in Attachers : /\ InitWrites(c) /\ at[c].id = s
                               /\ rows[s].status = "absent" => rows'[s].owner = at[c].owner
    BY <2>1, RowSteps DEF RowMoves
  <2>3. at[c].pc = "write" BY <2>2 DEF InitWrites
  <2>4. rows[s].status # "ended" BY <1>0, <2>2, <2>3 DEF OneEach, Ended
  <2>5. rows[s].status = "absent" BY <2>1, <2>4 DEF Types, Row
  <2>6. s[1] = at[c].room BY <2>2, <2>3 DEF Shape, Rooted
  <2> QED BY <2>2, <2>5, <2>6
<1>4. ASSUME NEW s \in Live', NEW t \in Live', s[1] = t[1], rows'[s].owner = rows'[t].owner PROVE s = t
  <2>0. \A u \in Live : u \in Sessions /\ rows'[u].owner = rows[u].owner BY <1>2 DEF Live
  <2>1. CASE s \in Live /\ t \in Live BY <1>0, <1>4, <2>0, <2>1 DEF OneEach
  <2>2. ASSUME NEW u \in Live', NEW v \in Live', u \in Live, v \notin Live, u[1] = v[1],
               rows'[u].owner = rows'[v].owner
        PROVE  FALSE
    <3>1. PICK c \in Attachers : /\ InitWrites(c) /\ at[c].id = v /\ v[1] = at[c].room
                                 /\ rows[v].status = "absent" /\ rows'[v].owner = at[c].owner
      BY <1>3, <2>2
    <3> QED BY <1>0, <2>0, <2>2, <3>1 DEF OneEach, InitWrites
  <2>3. CASE s \notin Live /\ t \notin Live
    <3>1. PICK c \in Attachers : InitWrites(c) /\ at[c].id = s BY <1>3, <2>3
    <3>2. \A u \in Sessions : u # s => rows'[u] = rows[u] BY <1>1, <3>1 DEF InitWrites
    <3> QED BY <2>3, <3>2 DEF Live
  <2> QED BY <1>4, <2>1, <2>2, <2>3
<1>5. ASSUME NEW c \in Attachers, at'[c].pc \in {"claim", "select", "write"}
      PROVE  /\ rows'[at'[c].id].status # "ended"
             /\ rows'[at'[c].id].status = "absent" =>
                /\ \A s \in Live' : s[1] = at'[c].room => rows'[s].owner # at'[c].owner
                /\ \A s \in Sessions :
                     s[1] = at'[c].room /\ s[2] < at'[c].id[2] => rows'[s].status # "absent"
  <2>1. AttachMove(c) BY AttachSteps DEF Shape
  <2>2. CASE /\ at'[c].id = at[c].id /\ at'[c].room = at[c].room /\ at'[c].owner = at[c].owner
             /\ at[c].pc \in {"claim", "select", "write"}
    <3>1. /\ rows[at[c].id].status # "ended"
          /\ rows[at[c].id].status = "absent" =>
               /\ \A s \in Live : s[1] = at[c].room => rows[s].owner # at[c].owner
               /\ \A s \in Sessions :
                    s[1] = at[c].room /\ s[2] < at[c].id[2] => rows[s].status # "absent"
      BY <1>0, <2>2 DEF OneEach, Ended
    <3>2. rows'[at[c].id].status # "ended"
      BY <1>0, <2>2, <3>1, SoughtIsNotEnded DEF Building
    <3>3. ASSUME rows'[at[c].id].status = "absent" PROVE rows[at[c].id].status = "absent"
      BY <1>1, <1>2, <3>3
    <3>4. ASSUME rows'[at[c].id].status = "absent", NEW s \in Live', s[1] = at[c].room
          PROVE  rows'[s].owner # at[c].owner
      <4>1. CASE s \in Live BY <1>2, <3>1, <3>3, <3>4, <4>1 DEF Live
      <4>2. CASE s \notin Live
        <5>1. PICK x \in Attachers : /\ InitWrites(x) /\ at[x].id = s /\ s[1] = at[x].room
                                     /\ rows[s].status = "absent" /\ rows'[s].owner = at[x].owner
          BY <1>3, <4>2
        <5>2. \A t \in Sessions : t[1] = at[x].room /\ t[2] < s[2] => rows[t].status # "absent"
          BY <1>0, <5>1 DEF OneEach, InitWrites
        <5>3. at[c].id[1] = at[c].room BY <2>2 DEF Shape, Rooted
        <5>4. ~(at[c].id[2] < s[2]) BY <1>1, <3>3, <3>4, <5>1, <5>2, <5>3
        <5>5. s \in Sessions BY DEF Live
        <5>6. ~(s[2] < at[c].id[2]) BY <3>1, <3>3, <3>4, <5>1, <5>5
        <5>7. s[2] \in Nat /\ at[c].id[2] \in Nat BY <1>1, <5>5, SessionParts
        <5>8. s[2] = at[c].id[2] BY <5>4, <5>6, <5>7
        <5>9. s = <<s[1], s[2]>> /\ at[c].id = <<at[c].id[1], at[c].id[2]>> BY <1>1, <5>5, SessionParts
        <5>10. s = at[c].id BY <3>4, <5>3, <5>8, <5>9
        <5>11. rows'[s].status = "live" BY <3>4 DEF Live
        <5> QED BY <3>4, <5>10, <5>11
      <4> QED BY <4>1, <4>2
    <3>5. ASSUME rows'[at[c].id].status = "absent", NEW s \in Sessions, s[1] = at[c].room,
                 s[2] < at[c].id[2]
          PROVE  rows'[s].status # "absent"
      BY <1>2, <3>1, <3>3, <3>5
    <3> QED BY <2>2, <3>2, <3>4, <3>5
  <2>3. CASE /\ NextSessionId(c) /\ at'[c].room = at[c].room /\ at'[c].owner = at[c].owner
             /\ at'[c].id = sessionIdFor(at[c].room, at[c].owner)
    <3>1. at[c].room \in Rooms /\ at[c].owner \in Owners BY DEF Types, At
    <3>2. rows' = rows /\ CanNumber(at[c].room, at[c].owner) BY <2>3 DEF NextSessionId
    <3> DEFINE s == sessionIdFor(at[c].room, at[c].owner)
    <3>3. \/ rows[s].status = "live"
          \/ /\ rows[s].status = "absent"
             /\ \A t \in Live : t[1] = at[c].room => rows[t].owner # at[c].owner
             /\ \A t \in Sessions : t[1] = at[c].room /\ t[2] < s[2] => rows[t].status # "absent"
      BY <3>1, <3>2, SessionIdFor
    <3> HIDE DEF s
    <3>4. at'[c].id = s /\ Live' = Live BY <2>3, <3>2 DEF s, Live
    <3> QED BY <2>3, <3>2, <3>3, <3>4
  <2> QED BY <1>0, <1>5, <2>1, <2>2, <2>3 DEF AttachMove, Claim, InitReads
<1> QED BY <1>4, <1>5

-----------------------------------------------------------------------------
(* What the boot sweep does to its list, and to the session it holds.       *)
SweepTurn ==
  \/ sweep' = sweep /\ sweep.pc # "never"
  \/ sweep.pc = "next" /\ sweep'.recent = sweep.recent /\ UNCHANGED <<rows, at>>
     /\ \E s \in sweep.left :
          /\ sweep'.left = sweep.left \ {s} /\ sweep'.cur = s
          /\ \/ sweep'.pc = "next" /\ s \in Watched \cup sweep.recent
             \/ sweep'.pc = "resume" /\ at[Sweep].pc = "idle"
             \/ sweep'.pc = "finish"
  \/ /\ sweep.pc = "resume" /\ at[Sweep].pc \in {"given", "refused"} /\ sweep'.pc \in {"next", "finish"}
     /\ sweep'.left = sweep.left /\ sweep'.recent = sweep.recent /\ sweep'.cur = sweep.cur
  \/ /\ sweep.pc = "finish" /\ sweep'.pc = "next" /\ rows'[sweep.cur].status = "ended"
     /\ sweep'.left = sweep.left /\ sweep'.recent = sweep.recent
  \/ /\ sweep.pc = "next" /\ sweep'.pc = "done" /\ sweep.left = {}
     /\ sweep'.left = sweep.left /\ sweep'.recent = sweep.recent

LEMMA SweepTurns ==
  ASSUME Types, [Next]_vars, ~Crash, sweep'.pc # "never"
  PROVE  SweepTurn
<1>1. ASSUME sweep' = sweep PROVE SweepTurn BY <1>1 DEF SweepTurn
<1>2. ASSUME SweepPlans PROVE SweepTurn
  <2>1. PICK s \in sweep.left, plan \in {"skip", "resume", "finish", "leave"} :
          /\ plan = "skip" <=> s \in Watched
          /\ plan = "leave" => s \in sweep.recent
          /\ plan = "resume" => at[Sweep].pc = "idle"
          /\ sweep' = [sweep EXCEPT !.left = @ \ {s}, !.cur = s,
                         !.pc = IF plan \in {"resume", "finish"} THEN plan ELSE "next"]
    BY <1>2 DEF SweepPlans
  <2>2. /\ sweep'.left = sweep.left \ {s} /\ sweep'.cur = s /\ sweep'.recent = sweep.recent
        /\ sweep'.pc = IF plan \in {"resume", "finish"} THEN plan ELSE "next"
    BY <2>1 DEF Types
  <2>3. sweep.pc = "next" /\ UNCHANGED <<rows, at>> BY <1>2 DEF SweepPlans
  <2>4. \/ sweep'.pc = "next" /\ s \in Watched \cup sweep.recent
        \/ sweep'.pc = "resume" /\ at[Sweep].pc = "idle"
        \/ sweep'.pc = "finish"
    BY <2>1, <2>2
  <2> QED BY <2>2, <2>3, <2>4 DEF SweepTurn
<1>3. ASSUME SweepAttached PROVE SweepTurn
  <2>1. PICK p \in {"next", "finish"} : sweep' = [sweep EXCEPT !.pc = p]
    BY <1>3 DEF SweepAttached, SweepAt
  <2>2. /\ sweep'.pc = p /\ sweep'.left = sweep.left /\ sweep'.recent = sweep.recent
        /\ sweep'.cur = sweep.cur
    BY <2>1 DEF Types
  <2> QED BY <1>3, <2>2 DEF SweepTurn, SweepAttached
<1>4. ASSUME SweepFinishes PROVE SweepTurn
  <2>1. sweep' = [sweep EXCEPT !.pc = "next"] BY <1>4 DEF SweepFinishes, SweepAt
  <2>2. sweep'.pc = "next" /\ sweep'.left = sweep.left /\ sweep'.recent = sweep.recent
    BY <2>1 DEF Types
  <2>3. rows'[sweep.cur].status = "ended" BY <1>4 DEF SweepFinishes, Types, Row
  <2> QED BY <1>4, <2>2, <2>3 DEF SweepTurn, SweepFinishes
<1>5. ASSUME SweepEnds PROVE SweepTurn
  <2>1. sweep' = [sweep EXCEPT !.pc = "done"] BY <1>5 DEF SweepEnds, SweepAt
  <2>2. sweep'.pc = "done" /\ sweep'.left = sweep.left /\ sweep'.recent = sweep.recent
    BY <2>1 DEF Types
  <2> QED BY <1>5, <2>2 DEF SweepTurn, SweepEnds
<1>6. ASSUME NEW c \in Attachers, Attach(c) \/ AttachStep(c) \/ StartFails(c) \/ Activate(c)
      PROVE  sweep' = sweep
  BY <1>6
    DEF Attach, AttachStep, NextSessionId, Claim, InitReads, InitWrites, LoadOwner, Opened, Given,
        StartFails, Activate
<1>7. ASSUME NEW d \in Enders, Detach(d) \/ DetachStep(d) PROVE sweep' = sweep
  BY <1>7 DEF Detach, DetachStep, MarkEnded, Remove, Closed
<1>8. SweepAttaches \/ UNCHANGED vars => sweep' = sweep BY DEF SweepAttaches, vars
<1> QED BY <1>1, <1>2, <1>3, <1>4, <1>5, <1>6, <1>7, <1>8 DEF Next, SweepStep

(* The sweep's own request is made by the sweep, of the room and the owner  *)
(* of the session it holds.                                                 *)
LEMMA SweepAsks ==
  ASSUME Types, [Next]_vars, ~Crash, at[Sweep].pc = "idle"
  PROVE  at'[Sweep] = at[Sweep] \/ SweepAttaches
<1>0. Sweep \in Attachers BY RegistryAssumption
<1>1. ASSUME UNCHANGED at PROVE at'[Sweep] = at[Sweep] BY <1>1
<1>2. ASSUME NEW c \in Attachers, Attach(c) PROVE at'[Sweep] = at[Sweep]
  BY <1>0, <1>2, AttachToMoves DEF Attach
<1>3. ASSUME NEW c \in Attachers, NEW p, Goto(c, p), at[c].pc # "idle" PROVE at'[Sweep] = at[Sweep]
  BY <1>0, <1>3 DEF Goto, Types
<1>4. ASSUME NEW c \in Attachers, NEW p, NEW got, SettleWith(c, p, got), at[c].pc # "idle"
      PROVE  at'[Sweep] = at[Sweep]
  BY <1>0, <1>4 DEF SettleWith
<1>5. ASSUME NEW c \in Attachers, NextSessionId(c) PROVE at'[Sweep] = at[Sweep]
  BY <1>0, <1>5 DEF NextSessionId, Types
<1>6. ASSUME NEW c \in Attachers, AttachStep(c) \/ StartFails(c) \/ Activate(c)
      PROVE  at'[Sweep] = at[Sweep]
  <2>1. CASE NextSessionId(c) BY <1>5, <2>1
  <2>2. CASE Claim(c) \/ InitReads(c) \/ InitWrites(c) \/ LoadOwner(c) \/ Opened(c)
    <3>1. at[c].pc # "idle" /\ \E p : Goto(c, p)
      BY <2>2 DEF Claim, InitReads, InitWrites, LoadOwner, Opened
    <3> QED BY <1>3, <3>1
  <2>3. CASE Given(c) \/ StartFails(c)
    <3>1. at[c].pc # "idle" /\ \E p, got : SettleWith(c, p, got) BY <2>3 DEF Given, StartFails
    <3> QED BY <1>4, <3>1
  <2>4. CASE Activate(c) BY <2>4 DEF Activate
  <2> QED BY <1>6, <2>1, <2>2, <2>3, <2>4 DEF AttachStep
<1>7. ASSUME NEW d \in Enders, Detach(d) \/ DetachStep(d) PROVE at'[Sweep] = at[Sweep]
  BY <1>1, <1>7 DEF Detach, DetachStep, MarkEnded, Remove, Closed
<1>8. ASSUME SweepPlans \/ SweepAttached \/ SweepFinishes \/ SweepEnds \/ UNCHANGED vars
      PROVE  at'[Sweep] = at[Sweep]
  BY <1>1, <1>8 DEF SweepPlans, SweepAttached, SweepFinishes, SweepEnds, vars
<1> QED BY <1>2, <1>6, <1>7, <1>8 DEF Next, SweepStep

(* No session goes astray but by the crash: whoever lets go of one has      *)
(* ended it, or is there to be asked.                                       *)
LEMMA StraysOnlyGo ==
  ASSUME Types, Types', Shape, Attaches, Alone, Ends, [Next]_vars, ~Crash, sweep'.pc # "never",
         NEW s \in Sessions, Stray(s)'
  PROVE  Stray(s)
<1>0. /\ rows'[s].status = "live" /\ runtimes'[s] = None /\ attaching'[s] = None
      /\ \A c \in Attachers : ~(at'[c].id = s /\ at'[c].pc \in {"claim", "refused"})
  BY DEF Stray, Minded, Asked, Live, Watched, Starting
<1>1. \A c \in Attachers : at[c].id \in Sessions /\ c # None BY NoneIsNobody DEF Types, At
<1>2. sweep.pc # "never" BY SweepTurns DEF SweepTurn
<1>3. rows[s].status = "live"
  <2>1. ASSUME NEW c \in Attachers, InitWrites(c), at[c].id = s PROVE FALSE
    <3>1. attaching[s] = c /\ attaching' = attaching BY <2>1 DEF InitWrites, Attaches, Building
    <3> QED BY <1>0, <1>1, <3>1
  <2> QED BY <1>0, <2>1, RowSteps DEF RowMoves
<1>4. runtimes[s] = None
  <2>1. MapMove(s) BY MapSteps
  <2>2. ASSUME NEW d \in Enders, Remove(d), en[d].id = s PROVE FALSE
    BY <1>3, <2>2 DEF Remove, Ends, Ended
  <2> QED BY <1>0, <1>1, <2>1, <2>2 DEF MapMove
<1>5. attaching[s] = None
  <2>1. StartingMove(s) BY StartingSteps
  <2>2. ASSUME NEW c \in Attachers, Given(c), at[c].id = s PROVE FALSE
    BY <1>3, <1>4, <2>2 DEF Given, Alone, Watched, Ended
  <2>3. ASSUME NEW c \in Attachers, StartFails(c), at[c].id = s PROVE FALSE
    <3>1. SettleWith(c, "refused", None) BY <2>3 DEF StartFails
    <3>2. at'[c].id = s /\ at'[c].pc = "refused" BY <2>3, <3>1, SettleMoves
    <3> QED BY <1>0, <3>2
  <2> QED BY <1>0, <1>1, <2>1, <2>2, <2>3 DEF StartingMove
<1>6. ASSUME NEW c \in Attachers, at[c].id = s, at[c].pc \in {"claim", "refused"} PROVE FALSE
  <2>1. AttachMove(c) BY AttachSteps DEF Shape
  <2>2. ASSUME Claim(c) PROVE at'[c].id = s /\ (at'[c].pc = "refused" \/ attaching'[s] = c)
    <3>1. attaching[at[c].id] = None BY <1>5, <1>6
    <3>2. \/ Goto(c, "refused")
          \/ Goto(c, "select") /\ attaching' = [attaching EXCEPT ![at[c].id] = c]
      BY <2>2, <3>1 DEF Claim
    <3> QED BY <1>6, <3>2 DEF Goto, Types, At
  <2> QED
    BY <1>0, <1>1, <1>6, <2>1, <2>2
       DEF AttachMove, InitReads, InitWrites, LoadOwner, Opened, Given, StartFails, NextSessionId
<1> QED BY <1>2, <1>3, <1>4, <1>5, <1>6 DEF Stray, Minded, Asked, Live, Watched, Starting

(* What holds of a session that has gone astray, before and after.          *)
Lost(s) ==
  /\ \A t \in Live : t # s /\ t[1] = s[1] => rows[t].owner # rows[s].owner
  /\ \A c \in Attachers : at[c].pc \notin {"idle", "lookup", "lost", "refused"} /\ at[c].id # s /\ at[c].id[1] = s[1]
         => OwnerFor(c) # rows[s].owner
  /\ s \in sweep.left \cup sweep.recent \/ (sweep.pc \in {"resume", "finish"} /\ sweep.cur = s)
  /\ sweep.pc = "resume" /\ sweep.cur = s /\ s \notin sweep.left \cup sweep.recent =>
       \/ at[Sweep].pc = "idle"
       \/ at[Sweep].pc = "lookup" /\ at[Sweep].room = s[1] /\ at[Sweep].owner = rows[s].owner

LEMMA StraysCrash ==
  ASSUME Types, Types', OneEach, Crash
  PROVE  Strays'
<1>1. sweep.pc = "never" /\ sweep'.pc = "next" /\ sweep'.left = Live BY DEF Crash
<1>2. rows' = rows /\ \A c \in Attachers : at'[c].pc \in {"idle", "lost"} BY CrashMoves
<1>3. Live' = Live BY <1>2 DEF Live
<1>4. \A s, t \in Live : s[1] = t[1] /\ rows[s].owner = rows[t].owner => s = t BY <1>1 DEF OneEach
<1>5. ASSUME NEW s \in Sessions, Stray(s)' PROVE Lost(s)'
  <2>1. s \in Live BY <1>3, <1>5 DEF Stray
  <2>2. \A t \in Live' : t # s /\ t[1] = s[1] => rows'[t].owner # rows'[s].owner
    BY <1>2, <1>3, <1>4, <2>1
  <2> QED BY <1>1, <1>2, <2>1, <2>2 DEF Lost
<1> QED BY <1>2, <1>5 DEF Strays, Lost

(* A runtime of the stray session's room belongs to somebody else. *)
LEMMA StrayIsAlone ==
  ASSUME Types, Shape, Maps, NEW s \in Sessions, Stray(s), Lost(s),
         NEW t \in Watched, t[1] = s[1]
  PROVE  rows[t].owner # rows[s].owner /\ rt[runtimes[t]].owner # rows[s].owner /\ rows[t].status # "absent"
<1>1. t # s BY DEF Stray, Minded
<1> DEFINE c == runtimes[t]
<1>2. c \in Attachers /\ at[c].id = t /\ at[c].pc \in {"listing", "given"} /\ rt[c].owner = rows[t].owner
  BY DEF Maps, Watched, Types
<1>3. rows[t].status # "absent" BY DEF Shape, Rowed
<1> HIDE DEF c
<1>4. OwnerFor(c) = rows[t].owner BY <1>2, <1>3 DEF OwnerFor
<1>5. OwnerFor(c) # rows[s].owner BY <1>1, <1>2 DEF Lost
<1> QED BY <1>2, <1>3, <1>4, <1>5 DEF c

LEMMA StraysStep ==
  ASSUME Types, Types', Shape, Attaches, Maps, Alone, Ends, OneEach, Strays, [Next]_vars
  PROVE  Strays'
<1>a. CASE Crash BY <1>a, StraysCrash
<1>b. CASE ~Crash /\ sweep'.pc = "never" BY <1>b DEF Strays, Stray
<1>c. CASE ~Crash /\ sweep'.pc # "never"
  <2>0. \A c \in Attachers : at[c].id \in Sessions /\ at'[c].id \in Sessions BY DEF Types, At
  <2>1. SweepTurn BY <1>c, SweepTurns
  <2>2. sweep.pc # "never" BY <2>1 DEF SweepTurn
  <2>3. ASSUME NEW s \in Sessions, Stray(s)' PROVE Stray(s) BY <1>c, <2>3, StraysOnlyGo
  <2>4. \A s \in Sessions : rows[s].status # "absent" =>
          rows'[s].status # "absent" /\ rows'[s].owner = rows[s].owner
    BY RowSteps DEF RowMoves
  <2>5. ASSUME NEW c \in Attachers, at'[c].pc = "given", NEW s \in Sessions, Stray(s)', at'[c].id = s
        PROVE  FALSE
    <3>1. s \notin Watched /\ s \notin Starting /\ Stray(s) BY <2>3, <2>5 DEF Stray, Minded
    <3>2. AttachMove(c) BY AttachSteps DEF Shape
    <3>3. CASE at'[c] = at[c] BY <2>2, <2>5, <3>1, <3>3 DEF Strays
    <3>4. CASE at'[c].id \in liveRuntime(at'[c].room, at'[c].owner)
      BY <2>5, <3>1, <3>4 DEF liveRuntime
    <3>5. CASE at'[c].id = at[c].id /\ at[c].pc \in {"listing", "joined"}
      <4>1. CASE at[c].pc = "joined" BY <2>5, <3>1, <3>5, <4>1 DEF Attaches
      <4>2. CASE at[c].pc = "listing"
        <5>1. attaching[s] = c BY <2>5, <3>5, <4>2 DEF Attaches
        <5> QED BY <3>1, <5>1, NoneIsNobody DEF Starting
      <4> QED BY <3>5, <4>1, <4>2
    <3> QED BY <1>c, <2>5, <3>2, <3>3, <3>4, <3>5 DEF AttachMove, Given
  <2>6. ASSUME NEW s \in Sessions, Stray(s)' PROVE Lost(s)'
    <3>0. Stray(s) /\ Lost(s) BY <2>3, <2>6 DEF Strays, Lost
    <3>1. /\ rows[s].status = "live" /\ rows'[s].status = "live" /\ rows'[s].owner = rows[s].owner
          /\ s \notin Watched /\ s \notin Starting /\ s \notin Starting' /\ s \in Live
      BY <2>4, <2>6, <3>0 DEF Stray, Minded, Live
    <3>2. ASSUME NEW x \in Attachers, InitWrites(x), at[x].id # s, at[x].id[1] = s[1]
          PROVE  rows'[at[x].id].owner # rows[s].owner
      <4>1. OwnerFor(x) # rows[s].owner BY <3>0, <3>2 DEF Lost, InitWrites
      <4>2. rows[at[x].id].status = "absent" => rows'[at[x].id].owner = at[x].owner
        BY <2>0, <3>2 DEF InitWrites, Types
      <4> QED BY <2>0, <2>4, <4>1, <4>2 DEF OwnerFor
    <3>3. ASSUME NEW t \in Live', t # s, t[1] = s[1] PROVE rows'[t].owner # rows'[s].owner
      <4>1. t \in Sessions /\ rows'[t].status = "live" BY DEF Live
      <4>2. CASE t \in Live BY <2>4, <3>0, <3>1, <3>3, <4>1, <4>2 DEF Lost, Live
      <4>3. CASE t \notin Live
        <5>1. rows'[t] # rows[t] BY <4>1, <4>3 DEF Live
        <5>2. PICK x \in Attachers : InitWrites(x) /\ at[x].id = t
          BY <4>1, <5>1, RowSteps DEF RowMoves
        <5> QED BY <3>1, <3>2, <3>3, <5>2
      <4> QED BY <4>2, <4>3
    <3>4. ASSUME NEW c \in Attachers, at'[c].pc \notin {"idle", "lookup", "lost", "refused"},
                 at'[c].id # s, at'[c].id[1] = s[1]
          PROVE  (IF rows'[at'[c].id].status = "absent" THEN at'[c].owner ELSE rows'[at'[c].id].owner)
                   # rows'[s].owner
      <4>1. AttachMove(c) BY AttachSteps DEF Shape
      <4>2. CASE /\ at[c].pc \notin {"idle", "lookup", "lost", "refused"}
                 /\ at'[c].id = at[c].id /\ at'[c].owner = at[c].owner
        <5>1. OwnerFor(c) # rows[s].owner BY <3>0, <3>4, <4>2 DEF Lost
        <5>2. CASE rows[at[c].id].status # "absent"
          BY <2>0, <2>4, <3>1, <4>2, <5>1, <5>2 DEF OwnerFor
        <5>3. CASE rows'[at[c].id].status = "absent"
          BY <2>0, <2>4, <3>1, <4>2, <5>1, <5>3 DEF OwnerFor
        <5>4. CASE rows[at[c].id].status = "absent" /\ rows'[at[c].id].status # "absent"
          <6>1. rows'[at[c].id] # rows[at[c].id] BY <5>4
          <6>2. ~ \E d \in Enders : MarkEnded(d) /\ en[d].id = at[c].id
            BY <5>4 DEF Shape, Rowed, MarkEnded
          <6>3. ~(SweepFinishes /\ sweep.cur = at[c].id) BY <5>4 DEF Shape, Rowed, SweepFinishes
          <6>4. PICK x \in Attachers : InitWrites(x) /\ at[x].id = at[c].id
            BY <2>0, <6>1, <6>2, <6>3, RowSteps DEF RowMoves
          <6> QED BY <3>1, <3>2, <3>4, <4>2, <5>4, <6>4
        <5> QED BY <5>2, <5>3, <5>4
      <4>3. CASE rows' = rows /\ at'[c].id \in liveRuntime(at'[c].room, at'[c].owner)
        <5> DEFINE t == at'[c].id
        <5>1. t \in Watched BY <4>3 DEF liveRuntime
        <5>2. rows[t].owner # rows[s].owner /\ rows[t].status # "absent"
          BY <3>0, <3>4, <5>1, StrayIsAlone
        <5> QED BY <3>1, <4>3, <5>2
      <4>4. CASE /\ NextSessionId(c) /\ at'[c].room = at[c].room /\ at'[c].owner = at[c].owner
                 /\ at'[c].pc = "claim" /\ at'[c].id = sessionIdFor(at[c].room, at[c].owner)
        <5>1. at[c].room \in Rooms /\ at[c].owner \in Owners BY DEF Types, At
        <5>2. rows' = rows /\ CanNumber(at[c].room, at[c].owner) BY <4>4 DEF NextSessionId
        <5> DEFINE t == sessionIdFor(at[c].room, at[c].owner)
        <5>3. /\ t \in Sessions /\ t[1] = at[c].room
              /\ \/ rows[t].status = "live" /\ rows[t].owner = at[c].owner
                 \/ /\ rows[t].status = "absent"
                    /\ \A u \in Live : u[1] = at[c].room => rows[u].owner # at[c].owner
          BY <5>1, <5>2, SessionIdFor
        <5> HIDE DEF t
        <5>4. at'[c].id = t BY <4>4 DEF t
        <5>5. CASE rows[t].status = "live" /\ rows[t].owner = at[c].owner
          <6>1. t \in Live BY <5>3, <5>5 DEF Live
          <6>2. rows[t].owner # rows[s].owner BY <3>0, <3>4, <5>4, <6>1 DEF Lost
          <6> QED BY <3>1, <5>2, <5>4, <5>5, <6>2
        <5>6. CASE rows[t].status = "absent" /\ \A u \in Live : u[1] = at[c].room => rows[u].owner # at[c].owner
          BY <3>1, <3>4, <4>4, <5>2, <5>3, <5>4, <5>6
        <5> QED BY <5>3, <5>5, <5>6
      <4>5. CASE at[c].pc = "refused" /\ at'[c] = at[c] BY <3>4, <4>5
      <4> QED
        BY <1>c, <3>4, <4>1, <4>2, <4>3, <4>4
           DEF AttachMove, Claim, InitReads, InitWrites, LoadOwner, Opened, Given, StartFails
    <3>5. s \in sweep'.left \cup sweep'.recent \/ (sweep'.pc \in {"resume", "finish"} /\ sweep'.cur = s)
      <4>1. s \in sweep.left \cup sweep.recent \/ (sweep.pc \in {"resume", "finish"} /\ sweep.cur = s)
        BY <3>0 DEF Lost
      <4>2. CASE sweep.pc = "resume" /\ at[Sweep].pc \in {"given", "refused"} /\ sweep'.pc = "next"
                 /\ sweep'.left = sweep.left /\ sweep'.recent = sweep.recent
        BY <3>0, <4>1, <4>2 DEF Lost
      <4> QED BY <2>1, <3>1, <4>1, <4>2 DEF SweepTurn
    <3>6. ASSUME sweep'.pc = "resume", sweep'.cur = s, s \notin sweep'.left \cup sweep'.recent
          PROVE  \/ at'[Sweep].pc = "idle"
                 \/ at'[Sweep].pc = "lookup" /\ at'[Sweep].room = s[1] /\ at'[Sweep].owner = rows'[s].owner
      <4>0. Sweep \in Attachers BY RegistryAssumption
      <4>1. CASE sweep.pc = "next" /\ UNCHANGED <<rows, at>> /\ at[Sweep].pc = "idle" BY <4>1
      <4>2. CASE sweep' = sweep
        <5>1. \/ at[Sweep].pc = "idle"
              \/ at[Sweep].pc = "lookup" /\ at[Sweep].room = s[1] /\ at[Sweep].owner = rows[s].owner
          BY <3>0, <3>6, <4>2 DEF Lost
        <5>2. CASE SweepAttaches
          <6> DEFINE o == rows[s].owner
          <6>1. s[1] \in Rooms /\ o \in Owners /\ AttachTo(Sweep, s[1], o)
            BY <3>1, <3>6, <4>2, <5>2, SessionParts DEF SweepAttaches, Shape, Rowed
          <6>2. liveRuntime(s[1], o) = {}
            <7> SUFFICES ASSUME NEW t \in liveRuntime(s[1], o) PROVE FALSE OBVIOUS
            <7>1. t \in Watched /\ t[1] = s[1] /\ rt[runtimes[t]].owner = o BY DEF liveRuntime
            <7> QED BY <3>0, <7>1, StrayIsAlone
          <6> HIDE DEF o
          <6>3. at'[Sweep].pc = "lookup" /\ at'[Sweep].room = s[1] /\ at'[Sweep].owner = o
            BY <4>0, <6>1, <6>2, AttachToMoves
          <6> QED BY <3>1, <6>3 DEF o
        <5>3. CASE at[Sweep].pc = "idle" /\ ~SweepAttaches BY <1>c, <5>3, SweepAsks
        <5>4. CASE at[Sweep].pc = "lookup" /\ at[Sweep].room = s[1] /\ at[Sweep].owner = rows[s].owner
          <6>1. AttachMove(Sweep) BY <4>0, AttachSteps DEF Shape
          <6>2. CASE at'[Sweep] = at[Sweep] BY <3>1, <5>4, <6>2
          <6>3. CASE /\ NextSessionId(Sweep) /\ at'[Sweep].pc = "claim"
                     /\ at'[Sweep].id = sessionIdFor(at[Sweep].room, at[Sweep].owner)
            <7>1. at[Sweep].room \in Rooms /\ at[Sweep].owner \in Owners BY <4>0 DEF Types, At
            <7> DEFINE t == sessionIdFor(at[Sweep].room, at[Sweep].owner)
            <7>2. /\ t \in Sessions /\ t[1] = s[1]
                  /\ \/ rows[t].status = "live" /\ rows[t].owner = rows[s].owner
                     \/ \A u \in Live : u[1] = s[1] => rows[u].owner # rows[s].owner
              BY <5>4, <6>3, <7>1, SessionIdFor DEF NextSessionId
            <7> HIDE DEF t
            <7>3. rows[t].status = "live" /\ rows[t].owner = rows[s].owner BY <3>1, <7>2
            <7>4. t = s BY <3>0, <7>2, <7>3 DEF Lost, Live
            <7>5. at'[Sweep].id = s BY <6>3, <7>4 DEF t
            <7>6. at'[Sweep].pc = "claim" BY <6>3
            <7> QED BY <2>6, <4>0, <7>5, <7>6 DEF Stray, Minded, Asked
          <6> QED
            BY <1>c, <5>4, <6>1, <6>2, <6>3
               DEF AttachMove, Claim, InitReads, InitWrites, LoadOwner, Opened, Given, StartFails
        <5> QED BY <5>1, <5>2, <5>3, <5>4
      <4> QED BY <2>1, <3>6, <4>1, <4>2 DEF SweepTurn
    <3>7. \A c \in Attachers :
            at'[c].pc \notin {"idle", "lookup", "lost", "refused"} /\ at'[c].id # s /\ at'[c].id[1] = s[1]
              => OwnerFor(c)' # rows'[s].owner
      BY <3>4 DEF OwnerFor
    <3>8. \A t \in Live' : t # s /\ t[1] = s[1] => rows'[t].owner # rows'[s].owner BY <3>3
    <3>9. sweep'.pc = "resume" /\ sweep'.cur = s /\ s \notin sweep'.left \cup sweep'.recent =>
            \/ at'[Sweep].pc = "idle"
            \/ at'[Sweep].pc = "lookup" /\ at'[Sweep].room = s[1] /\ at'[Sweep].owner = rows'[s].owner
      BY <3>6
    <3> QED BY <3>5, <3>7, <3>8, <3>9, Zenon DEF Lost
  <2>7. ASSUME NEW c \in Attachers, at'[c].pc = "given" PROVE ~Stray(at[c].id)'
    <3>1. PICK s \in Sessions : s = at'[c].id BY <2>0
    <3>2. ~Stray(s)' BY <2>5, <2>7, <3>1
    <3> QED BY <3>1, <3>2 DEF Stray, Minded, Asked
  <2>8. \A c \in Attachers : at'[c].pc = "given" /\ sweep'.pc # "never" => ~Stray(at[c].id)' BY <2>7
  <2>9. \A s \in Sessions : Stray(s)' => Lost(s)' BY <2>6
  <2> QED BY <2>8, <2>9 DEF Strays, Lost
<1> QED BY <1>a, <1>b, <1>c

LEMMA ThroughStep ==
  ASSUME Types, Types', Through, [Next]_vars
  PROVE  Through'
<1>1. CASE Crash BY <1>1 DEF Crash, Through
<1>2. CASE ~Crash /\ sweep'.pc = "done"
  <2>1. SweepTurn BY <1>2, SweepTurns
  <2> QED BY <1>2, <2>1 DEF SweepTurn, Through
<1> QED BY <1>1, <1>2 DEF Through

-----------------------------------------------------------------------------
(* A room is counted once for its session, opening or open: the map counts  *)
(* a session twice while its attach is returning, and never too little.     *)
Taken == Watched \cup Starting

OnScraped(S) == {s \in S : s[1] \in Scraped}

Counted ==
  /\ IsFiniteSet(Watched) /\ IsFiniteSet(Starting)
  /\ Cardinality(Taken) <= MaxWatchedShows /\ Cardinality(OnScraped(Taken)) <= MaxScrapedRooms

LEMMA FewerAreFewer ==
  ASSUME NEW S, NEW T, IsFiniteSet(S), T \subseteq S
  PROVE  /\ IsFiniteSet(T) /\ Cardinality(T) <= Cardinality(S)
         /\ IsFiniteSet(OnScraped(S)) /\ Cardinality(OnScraped(T)) <= Cardinality(OnScraped(S))
<1>1. T \in SUBSET S /\ OnScraped(S) \in SUBSET S /\ OnScraped(T) \in SUBSET OnScraped(S)
  BY DEF OnScraped
<1>2. IsFiniteSet(T) /\ Cardinality(T) <= Cardinality(S) BY <1>1, FS_Subset
<1>3. IsFiniteSet(OnScraped(S)) BY <1>1, FS_Subset
<1>4. Cardinality(OnScraped(T)) <= Cardinality(OnScraped(S)) BY <1>1, <1>3, FS_Subset
<1> QED BY <1>2, <1>3, <1>4

LEMMA TogetherAreFew ==
  ASSUME NEW S, NEW T, IsFiniteSet(S), IsFiniteSet(T)
  PROVE  /\ IsFiniteSet(S \cup T) /\ Cardinality(S \cup T) \in Nat
         /\ Cardinality(S) \in Nat /\ Cardinality(T) \in Nat
         /\ Cardinality(S \cup T) <= Cardinality(S) + Cardinality(T)
<1>1. IsFiniteSet(S \cup T) /\ IsFiniteSet(S \cap T)
      /\ Cardinality(S \cup T) = Cardinality(S) + Cardinality(T) - Cardinality(S \cap T)
  BY FS_Union, FS_Intersection
<1>2. /\ Cardinality(S \cup T) \in Nat /\ Cardinality(S \cap T) \in Nat
      /\ Cardinality(S) \in Nat /\ Cardinality(T) \in Nat
  BY <1>1, FS_CardinalityType
<1> QED BY <1>1, <1>2

LEMMA CountedInit == Init => Counted
<1> SUFFICES ASSUME Init PROVE Counted OBVIOUS
<1>1. Watched = {} /\ Starting = {} BY DEF Init, Watched, Starting
<1>2. Taken = {} /\ OnScraped(Taken) = {} BY <1>1 DEF Taken, OnScraped
<1> QED BY <1>1, <1>2, FS_EmptySet, RegistryAssumption DEF Counted

LEMMA CountedStep ==
  ASSUME Types, Types', Shape, Attaches, Counted, [Next]_vars
  PROVE  Counted'
<1>0. /\ \A s \in Sessions : MapMove(s) /\ StartingMove(s)
      /\ \A c \in Attachers : at[c].id \in Sessions /\ c # None
  BY MapSteps, StartingSteps, NoneIsNobody DEF Types, At
<1>f. IsFiniteSet(Taken) BY TogetherAreFew DEF Counted, Taken
<1>1. ASSUME Watched' \subseteq Watched \cup Starting, Starting' \subseteq Starting PROVE Counted'
  <2>1. Taken' \subseteq Taken BY <1>1 DEF Taken
  <2>2. IsFiniteSet(Taken') /\ Cardinality(Taken') <= Cardinality(Taken)
        /\ Cardinality(OnScraped(Taken')) <= Cardinality(OnScraped(Taken))
        /\ IsFiniteSet(OnScraped(Taken)) /\ IsFiniteSet(OnScraped(Taken'))
    BY <1>f, <2>1, FewerAreFewer
  <2>3. IsFiniteSet(Watched') /\ IsFiniteSet(Starting')
    <3>1. Watched' \subseteq Taken' /\ Starting' \subseteq Taken' BY DEF Taken
    <3> QED BY <2>2, <3>1, FewerAreFewer
  <2>4. /\ Cardinality(Taken) \in Nat /\ Cardinality(Taken') \in Nat
        /\ Cardinality(OnScraped(Taken)) \in Nat /\ Cardinality(OnScraped(Taken')) \in Nat
    BY <1>f, <2>2, FS_CardinalityType
  <2>5. OnScraped(Taken') = OnScraped(Taken)' BY DEF OnScraped
  <2> QED BY <2>2, <2>3, <2>4, <2>5, RegistryAssumption DEF Counted
<1>2. ASSUME NEW c \in Attachers, Claim(c), attaching' # attaching PROVE Counted'
  <2> DEFINE s == at[c].id
  <2>1. /\ attaching[s] = None /\ attaching' = [attaching EXCEPT ![s] = c] /\ ~LimitReached(c)
        /\ runtimes' = runtimes /\ at[c].pc = "claim"
    BY <1>2 DEF Claim
  <2>2. s \in Sessions BY <1>0
  <2>3. s[1] = at[c].room BY <2>1 DEF Shape, Rooted
  <2> HIDE DEF s
  <2>4. Watched' = Watched /\ Starting' = Starting \cup {s} /\ Taken' = Taken \cup {s}
    BY <1>0, <2>1, <2>2 DEF Watched, Starting, Taken, Types
  <2>5. IsFiniteSet(Watched') /\ IsFiniteSet(Starting') BY <2>4, FS_AddElement DEF Counted
  <2>6. Cardinality(Taken') <= MaxWatchedShows
    <3>1. watching < MaxWatchedShows
      <4>1. ~(watching >= MaxWatchedShows) BY <2>1 DEF LimitReached
      <4> QED BY <4>1, TogetherAreFew, RegistryAssumption DEF watching, Counted
    <3>2. Cardinality(Taken) \in Nat /\ Cardinality(Taken) <= watching /\ watching \in Nat
      BY TogetherAreFew DEF Counted, Taken, watching
    <3>3. Cardinality(Taken') <= Cardinality(Taken) + 1 BY <1>f, <2>4, <3>2, FS_AddElement
    <3>4. Cardinality(Taken') \in Nat BY <1>f, <2>4, FS_AddElement, FS_CardinalityType
    <3> QED BY <3>1, <3>2, <3>3, <3>4, RegistryAssumption
  <2>7. Cardinality(OnScraped(Taken')) <= MaxScrapedRooms
    <3>1. CASE s[1] \notin Scraped
      <4>1. OnScraped(Taken') = OnScraped(Taken) BY <2>4, <3>1 DEF OnScraped
      <4> QED BY <4>1 DEF Counted
    <3>2. CASE s[1] \in Scraped
      <4>1. IsFiniteSet(OnScraped(Watched)) /\ IsFiniteSet(OnScraped(Starting))
        BY FewerAreFewer DEF Counted
      <4>2. scrapedRoomCount = Cardinality(OnScraped(Watched)) + Cardinality(OnScraped(Starting))
        BY DEF scrapedRoomCount, OnScraped
      <4>3. OnScraped(Taken) = OnScraped(Watched) \cup OnScraped(Starting) BY DEF OnScraped, Taken
      <4>4. /\ IsFiniteSet(OnScraped(Taken)) /\ Cardinality(OnScraped(Taken)) \in Nat
            /\ scrapedRoomCount \in Nat /\ Cardinality(OnScraped(Taken)) <= scrapedRoomCount
        BY <4>1, <4>2, <4>3, TogetherAreFew
      <4>5. scrapedRoomCount < MaxScrapedRooms
        <5>1. ~(scrapedRoomCount >= MaxScrapedRooms) BY <2>1, <2>3, <3>2 DEF LimitReached
        <5> QED BY <4>4, <5>1, RegistryAssumption
      <4>6. OnScraped(Taken') = OnScraped(Taken) \cup {s} BY <2>4, <3>2 DEF OnScraped
      <4> DEFINE S == OnScraped(Taken)
      <4>7. Cardinality(OnScraped(Taken')) <= Cardinality(S) + 1
        <5>1. IsFiniteSet(S) /\ Cardinality(S) \in Nat /\ OnScraped(Taken') = S \cup {s} BY <4>4, <4>6
        <5> HIDE DEF S
        <5>2. Cardinality(S \cup {s}) = IF s \in S THEN Cardinality(S) ELSE Cardinality(S) + 1
          BY <5>1, FS_AddElement
        <5> QED BY <5>1, <5>2
      <4>8. Cardinality(OnScraped(Taken')) \in Nat BY <4>4, <4>6, FS_AddElement, FS_CardinalityType
      <4> QED BY <4>4, <4>5, <4>7, <4>8, RegistryAssumption
    <3> QED BY <3>1, <3>2
  <2>8. OnScraped(Taken') = OnScraped(Taken)' BY DEF OnScraped
  <2> QED BY <2>5, <2>6, <2>7, <2>8 DEF Counted
<1>3. CASE \A c \in Attachers : Claim(c) => attaching' = attaching
  <2>1. ASSUME NEW s \in Watched' PROVE s \in Watched \cup Starting
    <3>1. s \in Sessions /\ runtimes'[s] # None /\ MapMove(s) BY <1>0 DEF Watched
    <3>2. ASSUME NEW c \in Attachers, Opened(c), at[c].id = s PROVE s \in Starting
      <4>1. attaching[s] = c BY <3>2 DEF Opened, Attaches, Building
      <4> QED BY <1>0, <3>1, <4>1 DEF Starting
    <3> QED BY <3>1, <3>2 DEF MapMove, Watched
  <2>2. ASSUME NEW s \in Starting' PROVE s \in Starting
    <3>1. s \in Sessions /\ attaching'[s] # None /\ StartingMove(s) BY <1>0 DEF Starting
    <3> QED BY <1>3, <3>1 DEF StartingMove, Starting
  <2>3. Watched' \subseteq Watched \cup Starting /\ Starting' \subseteq Starting BY <2>1, <2>2
  <2> QED BY <1>1, <2>3
<1> QED BY <1>2, <1>3

-----------------------------------------------------------------------------
LEMMA InvInit == Init => IInv /\ Counted
<1> SUFFICES ASSUME Init PROVE IInv /\ Counted OBVIOUS
<1>1. \A c \in Attachers : at[c].pc = "idle" /\ rt[c].phase = "none" BY Blanks DEF Init
<1>2. \A d \in Enders : en[d].pc = "idle" BY Blanks DEF Init
<1>3. /\ \A s \in Sessions : runtimes[s] = None /\ attaching[s] = None /\ rows[s].status = "absent"
      /\ sweep.pc = "never"
  BY DEF Init
<1>4. Watched = {} /\ Starting = {} /\ Live = {} BY <1>3 DEF Watched, Starting, Live
<1>5. Attaches BY <1>1, <1>4 DEF Attaches, Building
<1>6. Maps BY <1>1, <1>4 DEF Maps
<1>7. Alone BY <1>1, <1>4 DEF Alone, Building
<1>8. Ends BY <1>2 DEF Ends
<1>9. OnAir /\ OneEach BY <1>1, <1>4 DEF OnAir, OneEach
<1>10. Strays /\ Through BY <1>3 DEF Strays, Stray, Through
<1> QED BY <1>5, <1>6, <1>7, <1>8, <1>9, <1>10, ShapeInit, CountedInit DEF IInv

LEMMA InvStep ==
  ASSUME QuickLookups, Types, IInv, Counted, [Next]_vars
  PROVE  Types' /\ IInv' /\ Counted'
<1>1. Types' BY TypesStep DEF IInv
<1>2. Shape' BY <1>1, ShapeStep DEF IInv
<1>3. Attaches' BY <1>1, AttachesStep DEF IInv
<1>4. Maps' BY <1>1, MapsStep DEF IInv
<1>5. Alone' BY <1>1, AloneStep DEF IInv
<1>6. Ends' BY <1>1, EndsStep DEF IInv
<1>7. OnAir' BY <1>1, OnAirStep DEF IInv
<1>8. OneEach' BY <1>1, OneEachStep DEF IInv
<1>9. Through' BY <1>1, ThroughStep DEF IInv
<1>10. Strays' BY <1>1, StraysStep DEF IInv
<1>11. Counted' BY <1>1, CountedStep DEF IInv
<1> QED BY <1>1, <1>2, <1>3, <1>4, <1>5, <1>6, <1>7, <1>8, <1>9, <1>10, <1>11 DEF IInv

(* The registry's invariant, for any number of requests, rooms, sellers and *)
(* enders, and whatever fails: given that one SELECT returns before a room  *)
(* that is opening has opened (registry.ts, line 213).                      *)
THEOREM RegistryInvariant == QuickLookups => (Spec => [](Types /\ IInv /\ Counted))
<1> SUFFICES ASSUME QuickLookups PROVE Spec => [](Types /\ IInv /\ Counted) OBVIOUS
<1>1. Init => Types /\ IInv /\ Counted BY InitTypes, InvInit
<1>2. Types /\ IInv /\ Counted /\ [Next]_vars => Types' /\ IInv' /\ Counted' BY InvStep
<1> QED BY <1>1, <1>2, PTL DEF Spec

(* Every variable keeps its type, and the active show is at most one of     *)
(* those that are watched (registry.ts, activeShowId).                      *)
THEOREM RegistryTypeCorrect == QuickLookups => (Spec => []TypeOK)
<1>1. ASSUME Types, IInv PROVE TypeOK
  <2>1. active \subseteq Watched /\ (active = {} \/ \E s : active = {s})
    BY <1>1 DEF IInv, Shape, Active
  <2>2. Cardinality(active) <= 1
    <3>1. Cardinality(active) = 0 \/ Cardinality(active) = 1
      BY <2>1, FS_EmptySet, FS_Singleton
    <3> QED BY <3>1
  <2> QED BY <1>1, <2>1, <2>2 DEF Types, TypeOK
<1> QED BY <1>1, RegistryInvariant, PTL

(* attach and detach, registry.ts: a room that is open or opening is in a   *)
(* map under its session, and nobody else's runtime watches that session,   *)
(* however many requests and detaches cross.                                *)
THEOREM RoomsAreReachable == QuickLookups => (Spec => []EveryRoomIsReachable)
<1>1. ASSUME Types, IInv PROVE EveryRoomIsReachable
  <2> SUFFICES ASSUME NEW c \in Attachers, Running(c)
               PROVE  /\ runtimes[at[c].id] = c \/ attaching[at[c].id] = c
                      /\ \A x \in Attachers : Running(x) /\ at[x].id = at[c].id => x = c
    BY DEF EveryRoomIsReachable
  <2>1. \A x \in Attachers : at[x].id \in Sessions /\ x # None
    BY <1>1, NoneIsNobody DEF Types, At
  <2>2. \A x \in Attachers : Running(x) =>
          \/ rt[x].phase = "open" /\ runtimes[at[x].id] = x
          \/ at[x].pc \in Building /\ attaching[at[x].id] = x /\ at[x].id \notin Watched
    BY <1>1 DEF IInv, Attaches, Maps, Alone, Running
  <2>3. ASSUME NEW x \in Attachers, Running(x), at[x].id = at[c].id PROVE x = c
    BY <2>1, <2>2, <2>3 DEF Watched
  <2> QED BY <2>2, <2>3
<1> QED BY <1>1, RegistryInvariant, PTL

LEMMA RunningAreFew ==
  ASSUME Types, IInv, EveryRoomIsReachable, NEW C \in SUBSET Attachers, NEW T,
         IsFiniteSet(T), \A c \in C : Running(c) /\ at[c].id \in T
  PROVE  IsFiniteSet(C) /\ Cardinality(C) <= Cardinality(T)
<1> DEFINE f == [c \in C |-> at[c].id]
<1>1. f \in [C -> T] OBVIOUS
<1>2. \A c, x \in C : f[c] = f[x] => c = x BY DEF EveryRoomIsReachable
<1>3. f \in Injection(C, T)
  BY <1>1, <1>2 DEF Injection, IsInjective
<1> QED BY <1>3, FS_Injection

(* attach, registry.ts: the rooms open or opening never exceed what the     *)
(* settings allow, in all or of those that need a browser, though every     *)
(* request counts before the others' rooms have opened.                     *)
THEOREM LimitsAreKept == QuickLookups => (Spec => []LimitsHold)
<1>1. ASSUME Types, IInv, Counted, EveryRoomIsReachable PROVE LimitsHold
  <2> DEFINE C == {c \in Attachers : Running(c)}
             D == {c \in Attachers : Running(c) /\ at[c].room \in Scraped}
  <2>1. ASSUME NEW c \in C PROVE at[c].id \in Taken /\ at[c].id[1] = at[c].room
    <3>1. at[c].id \in Sessions /\ c # None BY <1>1, NoneIsNobody DEF Types, At
    <3>2. at[c].id \in Taken
      BY <1>1, <2>1, <3>1 DEF EveryRoomIsReachable, Taken, Watched, Starting
    <3>3. at[c].pc \notin {"idle", "lookup", "lost"}
      BY <1>1, <2>1, <3>1 DEF IInv, Attaches, Maps, Running, Watched, Building
    <3> QED BY <1>1, <3>2, <3>3 DEF IInv, Shape, Rooted
  <2>2. IsFiniteSet(Taken) /\ IsFiniteSet(OnScraped(Taken))
    BY <1>1, TogetherAreFew, FewerAreFewer DEF Counted, Taken
  <2>3. IsFiniteSet(C) /\ Cardinality(C) <= Cardinality(Taken) BY <1>1, <2>1, <2>2, RunningAreFew
  <2>4. IsFiniteSet(D) /\ Cardinality(D) <= Cardinality(OnScraped(Taken))
    <3>1. \A c \in D : Running(c) /\ at[c].id \in OnScraped(Taken) BY <2>1 DEF OnScraped
    <3> QED BY <1>1, <2>2, <3>1, RunningAreFew
  <2>5. /\ Cardinality(C) \in Nat /\ Cardinality(D) \in Nat
        /\ Cardinality(Taken) \in Nat /\ Cardinality(OnScraped(Taken)) \in Nat
    BY <2>2, <2>3, <2>4, FS_CardinalityType
  <2>6. Cardinality(C) <= MaxWatchedShows /\ Cardinality(D) <= MaxScrapedRooms
    BY <1>1, <2>3, <2>4, <2>5, RegistryAssumption DEF Counted
  <2> QED BY <2>6 DEF LimitsHold
<1> QED BY <1>1, RegistryInvariant, RoomsAreReachable, PTL

(* detach and finishSession: until the process has crashed a session that   *)
(* is watched reads live, up to the end somebody has begun of it.           *)
THEOREM WatchedIsOnAir == QuickLookups => (Spec => []WatchedIsLive)
<1>1. IInv => WatchedIsLive BY DEF IInv, OnAir, WatchedIsLive, Live
<1> QED BY <1>1, RegistryInvariant, PTL

(* The boot sweep (context.ts `start`, resume.ts): when it is through, no   *)
(* row the crash left live is nobody's business, whatever requests came in  *)
(* while it worked.                                                         *)
THEOREM StrandedAreReconciled == QuickLookups => (Spec => []StrandedIsReconciled)
<1>1. IInv => StrandedIsReconciled
  BY DEF IInv, Strays, Stray, Minded, Through, StrandedIsReconciled, Live
<1> QED BY <1>1, RegistryInvariant, PTL

-----------------------------------------------------------------------------
(***************************************************************************)
(* The row of a show.  While no update begins between the read and the     *)
(* write of another, what a writer is about to write back is the row as it *)
(* is, and the rung it has written is the row's until its entry is         *)
(* appended; a failed entry is remembered.                                 *)
(***************************************************************************)
CONSTANTS Writers, Levels, MaxUpdates, MaxFaults, Overlaps

VARIABLES row, writer, audited, onAir, updates, faults, unsaid

Shown == INSTANCE ShowRow

Patched == [pc : {"previous", "read", "audit"}, patch : Shown!Patches]
Holding == [pc : {"write"}, patch : Shown!Patches, next : Shown!Row]

ShownTypes ==
  /\ row \in Shown!Row /\ audited \in Levels /\ onAir \in BOOLEAN /\ unsaid \in BOOLEAN
  /\ updates \in 0..MaxUpdates /\ faults \in 0..MaxFaults
  /\ writer \in [Writers -> {Shown!Idle} \cup Patched \cup Holding]

(* One at a time is between its statements, and what it read is the row. *)
OneAtATime == \A v, w \in Shown!Between : v = w
HoldsTheRow == \A w \in Writers : writer[w].pc = "write" =>
  writer[w].next = [row EXCEPT ![writer[w].patch.column] = writer[w].patch.value]

(* The entry names the rung, or is about to. *)
RungIsNamed == \/ unsaid \/ row.level = audited
               \/ \E w \in Writers : writer[w].pc = "audit"
RungIsAudited == \A w \in Writers : writer[w].pc = "audit" =>
  writer[w].patch.column = "level" /\ writer[w].patch.value = row.level

ShownInv == ShownTypes /\ OneAtATime /\ HoldsTheRow /\ RungIsNamed /\ RungIsAudited /\ Shown!EndedIsEnded

LEMMA PatchedRow ==
  ASSUME NEW r \in Shown!Row, NEW p \in Shown!Patches
  PROVE  /\ [r EXCEPT ![p.column] = p.value] \in Shown!Row
         /\ [r EXCEPT ![p.column] = p.value].status = r.status
         /\ [r EXCEPT ![p.column] = p.value].level = IF p.column = "level" THEN p.value ELSE r.level
<1>1. CASE p \in [column : {"page", "pin"}, value : {1}]
  <2>1. CASE p.column = "page"
    BY <1>1, <2>1 DEF Shown!Row
  <2>2. CASE p.column = "pin"
    BY <1>1, <2>2 DEF Shown!Row
  <2> QED BY <1>1, <2>1, <2>2
<1>2. CASE p \in [column : {"level"}, value : Levels]
  BY <1>2 DEF Shown!Row
<1> QED BY <1>1, <1>2 DEF Shown!Patches

LEMMA ShownInit == Shown!RowAssumption /\ Shown!Init => ShownInv
<1> SUFFICES ASSUME Shown!RowAssumption, Shown!Init PROVE ShownInv
  OBVIOUS
<1>1. (CHOOSE l \in Levels : TRUE) \in Levels
  BY DEF Shown!RowAssumption
<1>2. row \in Shown!Row /\ row.status = "live" /\ row.level \in Levels
  BY <1>1 DEF Shown!Init, Shown!Row
<1>3. ShownTypes
  <2>1. writer \in [Writers -> {Shown!Idle} \cup Patched \cup Holding]
    BY DEF Shown!Init
  <2>2. audited \in Levels /\ onAir \in BOOLEAN /\ unsaid \in BOOLEAN
    BY <1>2 DEF Shown!Init
  <2>3. updates \in 0..MaxUpdates /\ faults \in 0..MaxFaults
    BY DEF Shown!Init, Shown!RowAssumption
  <2> QED BY <1>2, <2>1, <2>2, <2>3 DEF ShownTypes
<1>4. \A w \in Writers : writer[w].pc = "idle"
  BY DEF Shown!Init, Shown!Idle
<1> QED BY <1>2, <1>3, <1>4 DEF Shown!Init, ShownInv, OneAtATime, HoldsTheRow, RungIsNamed, RungIsAudited,
   Shown!EndedIsEnded, Shown!Between

(* A step of one writer that leaves the row alone. *)
LEMMA WriterMoves ==
  ASSUME ShownInv, NEW w \in Writers, NEW x \in {Shown!Idle} \cup Patched \cup Holding,
         writer' = [writer EXCEPT ![w] = x], UNCHANGED <<row, onAir>>,
         audited' \in Levels, unsaid' \in BOOLEAN, updates' \in 0..MaxUpdates, faults' \in 0..MaxFaults,
         x.pc \in {"write", "audit"} => w \in Shown!Between \/ Shown!Between = {},
         x.pc = "write" => x.next = [row EXCEPT ![x.patch.column] = x.patch.value],
         x.pc = "audit" => x.patch.column = "level" /\ x.patch.value = row.level,
         RungIsNamed'
  PROVE  ShownInv'
<1>1. writer' \in [Writers -> {Shown!Idle} \cup Patched \cup Holding] /\ writer'[w] = x
      /\ \A v \in Writers \ {w} : writer'[v] = writer[v]
  BY DEF ShownInv, ShownTypes
<1>2. ShownTypes' /\ Shown!EndedIsEnded'
  BY <1>1 DEF ShownInv, ShownTypes, Shown!EndedIsEnded
<1>3. HoldsTheRow' /\ RungIsAudited'
  BY <1>1 DEF ShownInv, HoldsTheRow, RungIsAudited
<1>4. \A v \in Shown!Between' : v = w \/ v \in Shown!Between
  BY <1>1 DEF Shown!Between
<1>5. w \in Shown!Between' => w \in Shown!Between \/ Shown!Between = {}
  BY <1>1 DEF Shown!Between
<1>6. OneAtATime'
  BY <1>4, <1>5 DEF ShownInv, OneAtATime
<1> QED BY <1>2, <1>3, <1>6 DEF ShownInv

LEMMA ShownKept == Shown!RowAssumption /\ ~Overlaps /\ ShownInv /\ [Shown!Next]_Shown!vars => ShownInv'
<1> SUFFICES ASSUME Shown!RowAssumption, ~Overlaps, ShownInv, [Shown!Next]_Shown!vars PROVE ShownInv'
  OBVIOUS
<1>0. ShownTypes /\ OneAtATime /\ HoldsTheRow /\ RungIsNamed /\ RungIsAudited /\ Shown!EndedIsEnded
  BY DEF ShownInv
<1> USE DEF Shown!RowAssumption
<1>1. ASSUME NEW w \in Writers, NEW p \in Shown!Patches, Shown!Update(w, p) PROVE ShownInv'
  <2> DEFINE x == [pc |-> IF p.column = "level" THEN "previous" ELSE "read", patch |-> p]
  <2>1. /\ writer[w] = Shown!Idle /\ writer' = [writer EXCEPT ![w] = x]
        /\ UNCHANGED <<row, audited, onAir, faults, unsaid>>
        /\ updates < MaxUpdates /\ updates' = updates + 1
    BY <1>1 DEF Shown!Update
  <2>2. x \in Patched /\ x.pc \in {"previous", "read"}
    BY DEF Patched
  <2> HIDE DEF x
  <2>3. updates' \in 0..MaxUpdates
    BY <1>0, <2>1 DEF ShownTypes
  <2>4. RungIsNamed'
    BY <1>0, <2>1 DEF RungIsNamed, ShownTypes, Shown!Idle
  <2> QED BY <1>0, <2>1, <2>2, <2>3, <2>4, WriterMoves DEF ShownTypes
<1>2. ASSUME NEW w \in Writers, Shown!ReadPrevious(w) PROVE ShownInv'
  <2> DEFINE x == [writer[w] EXCEPT !.pc = "read"]
  <2>1. /\ writer[w].pc = "previous" /\ writer' = [writer EXCEPT ![w] = x]
        /\ UNCHANGED <<row, audited, onAir, updates, faults, unsaid>>
    BY <1>2 DEF Shown!ReadPrevious, Shown!At
  <2>2. writer[w] \in Patched
    BY <1>0, <2>1 DEF ShownTypes, Shown!Idle, Holding
  <2>3. x \in Patched /\ x.pc = "read"
    BY <2>2 DEF Patched
  <2> HIDE DEF x
  <2>4. RungIsNamed'
    BY <1>0, <2>1 DEF RungIsNamed, ShownTypes
  <2> QED BY <1>0, <2>1, <2>3, <2>4, WriterMoves DEF ShownTypes
<1>3. ASSUME NEW w \in Writers, Shown!ReadRow(w) PROVE ShownInv'
  <2> DEFINE p == writer[w].patch
             n == [row EXCEPT ![p.column] = p.value]
             x == [pc |-> "write", patch |-> p, next |-> n]
  <2>1. /\ writer[w].pc = "read" /\ Shown!Between = {} /\ writer' = [writer EXCEPT ![w] = x]
        /\ UNCHANGED <<row, audited, onAir, updates, faults, unsaid>>
    BY <1>3 DEF Shown!ReadRow, Shown!At
  <2>2. p \in Shown!Patches
    BY <1>0, <2>1 DEF ShownTypes, Shown!Idle, Holding, Patched
  <2>3. n \in Shown!Row
    BY <1>0, <2>2, PatchedRow DEF ShownTypes
  <2>4. x \in Holding /\ x.pc = "write" /\ x.next = [row EXCEPT ![x.patch.column] = x.patch.value]
    <3> HIDE DEF p, n
    <3>1. x \in Holding /\ x.pc = "write" /\ x.next = n /\ x.patch = p
      BY <2>2, <2>3 DEF Holding
    <3> QED BY <3>1 DEF n
  <2> HIDE DEF x
  <2>5. RungIsNamed'
    BY <1>0, <2>1 DEF RungIsNamed, ShownTypes, Shown!Between
  <2> QED BY <1>0, <2>1, <2>4, <2>5, WriterMoves DEF ShownTypes
<1>4. ASSUME NEW w \in Writers, Shown!WriteRow(w) PROVE ShownInv'
  <2> DEFINE p == writer[w].patch
             y == [pc |-> "audit", patch |-> p]
             x == IF p.column = "level" THEN y ELSE Shown!Idle
  <2>1. /\ writer[w].pc = "write" /\ row' = writer[w].next /\ writer' = [writer EXCEPT ![w] = x]
        /\ UNCHANGED <<audited, onAir, updates, faults, unsaid>>
    BY <1>4 DEF Shown!WriteRow, Shown!At, Shown!Done
  <2>2. p \in Shown!Patches /\ row \in Shown!Row
    BY <1>0, <2>1 DEF ShownTypes, Shown!Idle, Holding, Patched
  <2>3. row' \in Shown!Row /\ row'.status = row.status /\ row'.level = IF p.column = "level" THEN p.value ELSE row.level
    BY <1>0, <2>1, <2>2, PatchedRow DEF HoldsTheRow
  <2>4. /\ x \in {Shown!Idle} \cup Patched /\ x.pc # "write"
        /\ x.pc = "audit" => p.column = "level" /\ x.patch.column = "level" /\ x.patch.value = p.value
        /\ p.column = "level" => x.pc = "audit" /\ x.patch.value = p.value
    <3> HIDE DEF p
    <3>1. y \in Patched /\ y.pc = "audit" /\ y.patch = p
      BY <2>2 DEF Patched
    <3> HIDE DEF y
    <3> QED BY <3>1 DEF Shown!Idle
  <2> HIDE DEF p, x
  <2>5. /\ writer' \in [Writers -> {Shown!Idle} \cup Patched \cup Holding] /\ writer'[w] = x
        /\ \A v \in Writers \ {w} : writer'[v] = writer[v]
    BY <1>0, <2>1, <2>4 DEF ShownTypes
  <2>6. w \in Shown!Between /\ \A v \in Shown!Between : v = w
    BY <1>0, <2>1 DEF Shown!Between, OneAtATime
  <2>7. \A v \in Writers \ {w} : writer[v].pc \notin {"write", "audit"}
    BY <2>6 DEF Shown!Between
  <2>8. ShownTypes' /\ Shown!EndedIsEnded'
    BY <1>0, <2>1, <2>3, <2>5 DEF ShownTypes, Shown!EndedIsEnded
  <2>9. OneAtATime' /\ HoldsTheRow' /\ RungIsAudited'
    BY <2>3, <2>4, <2>5, <2>7 DEF OneAtATime, HoldsTheRow, RungIsAudited, Shown!Between
  <2>10. RungIsNamed'
    <3>1. CASE p.column = "level"
      BY <2>3, <2>4, <2>5, <3>1 DEF RungIsNamed
    <3>2. CASE p.column # "level"
      BY <1>0, <2>1, <2>3, <2>7, <3>2 DEF RungIsNamed
    <3> QED BY <3>1, <3>2
  <2> QED BY <2>8, <2>9, <2>10 DEF ShownInv
<1>5. ASSUME NEW w \in Writers, Shown!AppendEntry(w) PROVE ShownInv'
  <2>1. /\ writer[w].pc = "audit" /\ audited' = writer[w].patch.value /\ writer' = [writer EXCEPT ![w] = Shown!Idle]
        /\ UNCHANGED <<row, onAir, updates, faults, unsaid>>
    BY <1>5 DEF Shown!AppendEntry, Shown!At, Shown!Done
  <2>2. writer[w].patch \in Shown!Patches /\ writer[w].patch.column = "level"
    BY <1>0, <2>1 DEF ShownTypes, Shown!Idle, Holding, Patched, RungIsAudited
  <2>3. audited' \in Levels
    BY <2>1, <2>2 DEF Shown!Patches
  <2>4. row'.level = audited'
    BY <1>0, <2>1 DEF RungIsAudited
  <2>5. RungIsNamed'
    BY <2>4 DEF RungIsNamed
  <2> QED BY <1>0, <2>1, <2>3, <2>5, WriterMoves DEF ShownTypes, Shown!Idle
<1>6. ASSUME NEW w \in Writers, Shown!StatementFails(w) PROVE ShownInv'
  <2>1. /\ writer' = [writer EXCEPT ![w] = Shown!Idle] /\ faults < MaxFaults /\ faults' = faults + 1
        /\ unsaid' = (unsaid \/ writer[w].pc = "audit")
        /\ UNCHANGED <<row, audited, onAir, updates>>
    BY <1>6 DEF Shown!StatementFails, Shown!At, Shown!Done
  <2>2. faults' \in 0..MaxFaults /\ unsaid' \in BOOLEAN
    BY <1>0, <2>1 DEF ShownTypes
  <2>3. RungIsNamed'
    <3>1. CASE writer[w].pc = "audit"
      BY <2>1, <3>1 DEF RungIsNamed
    <3>2. CASE writer[w].pc # "audit"
      BY <1>0, <2>1, <3>2 DEF RungIsNamed, ShownTypes
    <3> QED BY <3>1, <3>2
  <2> QED BY <1>0, <2>1, <2>2, <2>3, WriterMoves DEF ShownTypes, Shown!Idle
<1>7. CASE Shown!Finish \/ Shown!AttachAgain
  <2>1. /\ Shown!Between = {} /\ UNCHANGED <<writer, audited, updates, faults, unsaid>>
    BY <1>7 DEF Shown!Finish, Shown!AttachAgain
  <2>2. row \in Shown!Row /\ onAir \in BOOLEAN
    BY <1>0 DEF ShownTypes
  <2>3. /\ row' \in Shown!Row /\ row'.level = row.level /\ onAir' \in BOOLEAN
        /\ row'.status = "live" <=> onAir'
    <3>1. CASE Shown!Finish
      BY <2>2, <3>1 DEF Shown!Finish, Shown!Row
    <3>2. CASE Shown!AttachAgain
      BY <1>0, <2>2, <3>2 DEF Shown!AttachAgain, Shown!Row, Shown!EndedIsEnded
    <3> QED BY <1>7, <3>1, <3>2
  <2>4. \A w \in Writers : writer[w].pc \notin {"write", "audit"}
    BY <2>1 DEF Shown!Between
  <2>5. ShownTypes' /\ Shown!EndedIsEnded'
    BY <1>0, <2>1, <2>3 DEF ShownTypes, Shown!EndedIsEnded
  <2>6. OneAtATime' /\ HoldsTheRow' /\ RungIsAudited'
    BY <2>1, <2>4 DEF OneAtATime, HoldsTheRow, RungIsAudited, Shown!Between
  <2>7. RungIsNamed'
    BY <1>0, <2>1, <2>3, <2>4 DEF RungIsNamed
  <2> QED BY <2>5, <2>6, <2>7 DEF ShownInv
<1>8. CASE UNCHANGED Shown!vars
  <2>1. Shown!Between' = Shown!Between
    BY <1>8 DEF Shown!vars, Shown!Between
  <2> QED BY <1>0, <1>8, <2>1 DEF Shown!vars, ShownInv, ShownTypes, OneAtATime, HoldsTheRow, RungIsNamed,
     RungIsAudited, Shown!EndedIsEnded
<1> QED BY <1>1, <1>2, <1>3, <1>4, <1>5, <1>6, <1>7, <1>8 DEF Shown!Next

(* As long as no update begins between the two statements of another: the   *)
(* rung is the one the record names, and an ended session reads as ended    *)
(* (Repo.updateShow, setAutonomy, finishSession).                           *)
THEOREM RowIsKept ==
  Shown!RowAssumption /\ ~Overlaps =>
    (Shown!Spec => [](Shown!TypeOK /\ Shown!RungIsOnRecord /\ Shown!EndedIsEnded))
<1> SUFFICES ASSUME Shown!RowAssumption, ~Overlaps
             PROVE  Shown!Spec => [](Shown!TypeOK /\ Shown!RungIsOnRecord /\ Shown!EndedIsEnded)
  OBVIOUS
<1>1. ShownInv => Shown!TypeOK
  <2> SUFFICES ASSUME ShownTypes, NEW w \in Writers PROVE writer[w].pc \in {"idle", "previous", "read", "write", "audit"}
    BY DEF ShownInv, ShownTypes, Shown!TypeOK
  <2> QED BY DEF ShownTypes, Shown!Idle, Patched, Holding
<1>2. ShownInv => Shown!RungIsOnRecord
  <2> SUFFICES ASSUME ShownInv, \A w \in Writers : writer[w] # Shown!Idle => writer[w].patch.column # "level"
               PROVE  row.level = audited \/ unsaid
    BY DEF Shown!RungIsOnRecord
  <2>1. \A w \in Writers : writer[w].pc # "audit"
    BY DEF ShownInv, RungIsAudited, Shown!Idle
  <2> QED BY <2>1 DEF ShownInv, RungIsNamed
<1>3. ShownInv => Shown!EndedIsEnded
  BY DEF ShownInv
<1>4. ShownInv /\ [Shown!Next]_Shown!vars => ShownInv'
  BY ShownKept
<1>5. Shown!Init => ShownInv
  BY ShownInit
<1> QED BY <1>1, <1>2, <1>3, <1>4, <1>5, PTL DEF Shown!Spec

-----------------------------------------------------------------------------
(***************************************************************************)
(* The lots of a stream we do not own.  While no lot is written by two     *)
(* handlers at once, each handler knows the row of its lot (Knows), and    *)
(* only between the sale and the write of the row is a sale booked that    *)
(* the row does not show (Counts); what is cut short is remembered.        *)
(***************************************************************************)
CONSTANTS Lots, AskedPrices, MaxObservations, MaxAtOnce

VARIABLES shown, handlers, count, listings, sales, latest, closings, hurt

Observed == INSTANCE ObservedLots WITH rows <- listings

Prices == {0} \cup UNION {AskedPrices[l] : l \in Lots}
Seen == [lot : Lots, price : Prices, live : BOOLEAN]
Listing == [there : BOOLEAN, price : Prices, floor : Prices, live : BOOLEAN, pinned : BOOLEAN]
HandlerPCs == {"find", "insert", "floor", "sale", "mutate", "pin", "index"}
Handler == [n : Nat, seen : Seen, was : Listing, pc : HandlerPCs]

ObservedTypes ==
  /\ count \in 0..MaxObservations /\ faults \in 0..MaxFaults
  /\ listings \in [Lots -> Listing] /\ \A l \in Lots : listings[l].price \in AskedPrices[l] \cup {0}
  /\ handlers \subseteq Handler /\ \A h \in handlers : h.seen.price \in AskedPrices[h.seen.lot]
  /\ sales \in [Lots -> Nat] /\ closings \in [Lots -> Nat] /\ hurt \in [Lots -> BOOLEAN]
  /\ DOMAIN latest = Lots

OneALot == \A g, h \in handlers : g.seen.lot = h.seen.lot => g = h

AsSeen(l, x) == listings[l].price = x.price /\ listings[l].live = x.live /\ listings[l].floor = x.price
Even(l) == hurt[l] \/ sales[l] = closings[l]
Plain(l) == hurt[l] \/ ~listings[l].there \/ listings[l].floor = listings[l].price

(* The sale is booked, and the row does not say so yet. *)
Ahead(h) == h.pc = "mutate" /\ h.was.live /\ ~h.seen.live

(* What a handler knows of its lot, which no other touches. *)
Knows(h) ==
  /\ latest[h.seen.lot] = h.seen
  /\ h.pc = "insert" => ~listings[h.seen.lot].there
  /\ h.pc \in {"floor", "sale", "mutate"} => listings[h.seen.lot].live = h.was.live
  /\ h.pc = "sale" => h.was.live /\ ~h.seen.live
  /\ h.pc \in {"sale", "mutate"} => listings[h.seen.lot].floor = h.seen.price
  /\ h.pc \in {"pin", "index"} => AsSeen(h.seen.lot, h.seen)
  /\ h.pc \in {"find", "insert", "floor"} => Plain(h.seen.lot)
Counts(h) ==
  /\ Ahead(h) => /\ sales[h.seen.lot] > closings[h.seen.lot]
                 /\ hurt[h.seen.lot] \/ sales[h.seen.lot] = closings[h.seen.lot] + 1
  /\ ~Ahead(h) => Even(h.seen.lot)
Abreast(h) == Knows(h) /\ Counts(h)

Rest(l) == Even(l) /\ Plain(l) /\ (hurt[l] \/ latest[l] = Observed!None \/ AsSeen(l, latest[l]))
Settled(l) == sales[l] >= closings[l] /\ (~Observed!Writing(l) => Rest(l))

ObservedInv == ObservedTypes /\ OneALot /\ (\A h \in handlers : Abreast(h)) /\ (\A l \in Lots : Settled(l))

(* What is left alone of a lot. *)
SameRow(l) ==
  /\ listings'[l].there = listings[l].there /\ listings'[l].price = listings[l].price
  /\ listings'[l].floor = listings[l].floor /\ listings'[l].live = listings[l].live
Same(l) ==
  /\ SameRow(l)
  /\ sales'[l] = sales[l]
  /\ closings'[l] = closings[l]
  /\ hurt'[l] = hurt[l]
  /\ latest'[l] = latest[l]

LEMMA SameIsGood ==
  ASSUME ObservedTypes, NEW l \in Lots, Same(l)
  PROVE  /\ Rest(l) => Rest(l)'
         /\ sales[l] >= closings[l] => (sales[l] >= closings[l])'
         /\ \A h \in handlers : h.seen.lot = l /\ Abreast(h) => Abreast(h)'
<1>1. Rest(l) => Rest(l)'
  BY DEF Same, SameRow, Rest, Even, Plain, AsSeen
<1>2. ASSUME NEW h \in handlers, h.seen.lot = l, Abreast(h) PROVE Abreast(h)'
  <2>1. Knows(h)'
    BY <1>2 DEF Same, SameRow, Abreast, Knows, Plain, AsSeen
  <2>2. Counts(h)'
    BY <1>2 DEF Same, Abreast, Counts, Ahead, Even
  <2> QED BY <2>1, <2>2 DEF Abreast
<1> QED BY <1>1, <1>2 DEF Same

LEMMA NoRowIsARow == Observed!NoRow \in Listing
<1>1. 0 \in Prices
  BY DEF Prices
<1> QED BY <1>1 DEF Observed!NoRow, Listing

LEMMA ObservedInit == Observed!LotsAssumption /\ Observed!Init => ObservedInv
<1> SUFFICES ASSUME Observed!LotsAssumption, Observed!Init PROVE ObservedInv
  OBVIOUS
<1>1. Observed!NoRow \in Listing
  BY NoRowIsARow
<1>2. listings \in [Lots -> Listing] /\ \A l \in Lots : listings[l].price \in AskedPrices[l] \cup {0}
  BY <1>1 DEF Observed!Init, Observed!NoRow
<1>3. ObservedTypes
  BY <1>2 DEF Observed!Init, ObservedTypes, Observed!LotsAssumption
<1>4. \A l \in Lots : Settled(l)
  BY DEF Observed!Init, Settled, Rest, Even, Plain, Observed!NoRow
<1> QED BY <1>3, <1>4 DEF Observed!Init, ObservedInv, OneALot

(* A handler takes a step, or is through. *)
LEMMA HandlerMoves ==
  ASSUME ObservedInv, NEW h \in handlers, NEW x \in Handler, x.seen = h.seen,
         handlers' = (handlers \ {h}) \cup {x}, \A l \in Lots \ {h.seen.lot} : Same(l),
         ObservedTypes', Abreast(x)', (sales[h.seen.lot] >= closings[h.seen.lot])'
  PROVE  ObservedInv'
<1>1. /\ ObservedTypes
      /\ OneALot
      /\ (\A g \in handlers : Abreast(g) /\ g.seen.lot \in Lots)
      /\ (\A l \in Lots : Settled(l))
  BY DEF ObservedInv, ObservedTypes, Handler, Seen
<1>2. \A g \in handlers \ {h} : g.seen.lot # h.seen.lot
  BY <1>1 DEF OneALot
<1>3. OneALot'
  BY <1>1, <1>2 DEF OneALot
<1>4. \A g \in handlers' : Abreast(g)'
  <2> TAKE g \in handlers'
  <2>1. CASE g = x
    BY <2>1
  <2>2. CASE g # x
    <3>1. g \in handlers /\ g.seen.lot # h.seen.lot
      BY <1>2, <2>2
    <3> QED BY <1>1, <3>1, SameIsGood
  <2> QED BY <2>1, <2>2
<1>5. \A l \in Lots : Settled(l)'
  <2> TAKE l \in Lots
  <2>1. CASE l = h.seen.lot
    BY <2>1 DEF Settled, Observed!Writing
  <2>2. CASE l # h.seen.lot
    <3>1. Observed!Writing(l)' => Observed!Writing(l)
      BY <2>2 DEF Observed!Writing
    <3>2. Observed!Writing(l) => Observed!Writing(l)'
      BY <2>2 DEF Observed!Writing
    <3>3. Rest(l) => Rest(l)'
      BY <1>1, <2>2, SameIsGood
    <3>4. (sales[l] >= closings[l])'
      BY <1>1, <2>2, SameIsGood DEF Settled
    <3> QED BY <1>1, <3>2, <3>3, <3>4 DEF Settled
  <2> QED BY <2>1, <2>2
<1> QED BY <1>3, <1>4, <1>5 DEF ObservedInv

LEMMA HandlerIsThrough ==
  ASSUME ObservedInv, NEW h \in handlers, handlers' = handlers \ {h},
         \A l \in Lots \ {h.seen.lot} : Same(l),
         ObservedTypes', Rest(h.seen.lot)', (sales[h.seen.lot] >= closings[h.seen.lot])'
  PROVE  ObservedInv'
<1>1. /\ ObservedTypes
      /\ OneALot
      /\ (\A g \in handlers : Abreast(g) /\ g.seen.lot \in Lots)
      /\ (\A l \in Lots : Settled(l))
  BY DEF ObservedInv, ObservedTypes, Handler, Seen
<1>2. \A g \in handlers \ {h} : g.seen.lot # h.seen.lot
  BY <1>1 DEF OneALot
<1>3. OneALot'
  BY <1>1 DEF OneALot
<1>4. \A g \in handlers' : Abreast(g)'
  BY <1>1, <1>2, SameIsGood
<1>5. \A l \in Lots : Settled(l)'
  <2> TAKE l \in Lots
  <2>1. CASE l = h.seen.lot
    BY <2>1 DEF Settled
  <2>2. CASE l # h.seen.lot
    <3>1. Observed!Writing(l) => Observed!Writing(l)'
      BY <2>2 DEF Observed!Writing
    <3>2. Rest(l) => Rest(l)'
      BY <1>1, <2>2, SameIsGood
    <3>3. (sales[l] >= closings[l])'
      BY <1>1, <2>2, SameIsGood DEF Settled
    <3> QED BY <1>1, <3>1, <3>2, <3>3 DEF Settled
  <2> QED BY <2>1, <2>2
<1> QED BY <1>3, <1>4, <1>5 DEF ObservedInv

LEMMA Unchanged == ASSUME UNCHANGED <<listings, sales, closings, hurt, latest>>, NEW l \in Lots PROVE Same(l)
  BY DEF Same, SameRow

LEMMA ObservedKept ==
  Observed!LotsAssumption /\ ~Overlaps /\ ObservedInv /\ [Observed!Next]_Observed!vars => ObservedInv'
<1> SUFFICES ASSUME Observed!LotsAssumption, ~Overlaps, ObservedInv, [Observed!Next]_Observed!vars
             PROVE  ObservedInv'
  OBVIOUS
<1>0. ObservedTypes /\ OneALot /\ (\A h \in handlers : Abreast(h)) /\ (\A l \in Lots : Settled(l))
  BY DEF ObservedInv
<1>h. ASSUME NEW h \in handlers
      PROVE  h \in Handler /\ h.seen \in Seen /\ h.seen.lot \in Lots /\ Knows(h) /\ Counts(h)
                                       /\ Settled(h.seen.lot) /\ listings[h.seen.lot] \in Listing
                                       /\ h.seen.price \in AskedPrices[h.seen.lot] /\ h.seen.price \in Prices
  <2>1. h \in Handler /\ h.seen.price \in AskedPrices[h.seen.lot] /\ Abreast(h)
    BY <1>0 DEF ObservedTypes
  <2>2. h.seen \in Seen
    BY <2>1 DEF Handler
  <2>3. h.seen.lot \in Lots /\ h.seen.price \in Prices
    BY <2>2 DEF Seen
  <2>4. listings[h.seen.lot] \in Listing /\ Settled(h.seen.lot)
    BY <1>0, <2>3 DEF ObservedTypes
  <2> QED BY <2>1, <2>2, <2>3, <2>4 DEF Abreast
<1>1. CASE Observed!Observe
  <2>a. PICK lot \in Lots : \E live \in BOOLEAN : \E price \in AskedPrices[lot] :
           LET seen == [lot |-> lot, price |-> price, live |-> live] IN
           /\ ~Observed!Writing(lot) /\ count < MaxObservations /\ count' = count + 1
           /\ handlers' = handlers \cup {[n |-> count, seen |-> seen, was |-> Observed!NoRow, pc |-> "find"]}
           /\ latest' = [latest EXCEPT ![lot] = seen]
           /\ UNCHANGED <<listings, sales, faults, closings, hurt>>
    BY <1>1 DEF Observed!Observe
  <2>1. PICK live \in BOOLEAN, price \in AskedPrices[lot] :
           LET seen == [lot |-> lot, price |-> price, live |-> live] IN
           /\ ~Observed!Writing(lot) /\ count < MaxObservations /\ count' = count + 1
           /\ handlers' = handlers \cup {[n |-> count, seen |-> seen, was |-> Observed!NoRow, pc |-> "find"]}
           /\ latest' = [latest EXCEPT ![lot] = seen]
           /\ UNCHANGED <<listings, sales, faults, closings, hurt>>
    BY <2>a
  <2>2. PICK h : h = [n |-> count, seen |-> [lot |-> lot, price |-> price, live |-> live],
                      was |-> Observed!NoRow, pc |-> "find"]
    OBVIOUS
  <2>3. /\ handlers' = handlers \cup {h}
        /\ latest' = [latest EXCEPT ![lot] = h.seen]
        /\ h.seen.lot = lot
        /\ h.pc = "find"
    BY <2>1, <2>2
  <2>4. h \in Handler /\ h.seen.price \in AskedPrices[lot]
    <3>1. price \in Prices /\ count \in Nat
      BY <1>0 DEF Prices, ObservedTypes
    <3>2. h.seen \in Seen /\ h.seen.price \in AskedPrices[lot]
      BY <2>2, <3>1 DEF Seen
    <3> QED BY <2>2, <3>1, <3>2, NoRowIsARow DEF Handler, HandlerPCs
  <2>5. ObservedTypes'
    <3>1. count' \in 0..MaxObservations
      BY <1>0, <2>1 DEF ObservedTypes, Observed!LotsAssumption
    <3> QED BY <1>0, <2>1, <2>3, <2>4, <3>1 DEF ObservedTypes
  <2>6. \A g \in handlers : g.seen.lot # lot
    BY <2>1 DEF Observed!Writing
  <2>7. OneALot'
    BY <1>0, <2>3, <2>6 DEF OneALot
  <2>8. \A l \in Lots \ {lot} : Same(l)
    BY <1>0, <2>1, <2>3 DEF Same, SameRow, ObservedTypes
  <2>9. \A g \in handlers : Abreast(g)'
    BY <1>0, <1>h, <2>6, <2>8, SameIsGood
  <2>10. Abreast(h)'
    <3>1. Rest(lot)
      BY <1>0, <2>1 DEF Settled
    <3>2. latest'[lot] = h.seen
      BY <1>0, <2>3 DEF ObservedTypes
    <3> QED BY <2>1, <2>3, <3>1, <3>2 DEF Abreast, Knows, Counts, Ahead, Rest, Even, Plain
  <2>11. \A l \in Lots : Settled(l)'
    <3> TAKE l \in Lots
    <3>1. CASE l = lot
      BY <1>0, <2>1, <2>3, <3>1 DEF Settled, Observed!Writing
    <3>2. CASE l # lot
      <4>1. Observed!Writing(l) => Observed!Writing(l)'
        BY <2>3 DEF Observed!Writing
      <4> QED BY <1>0, <2>8, <3>2, <4>1, SameIsGood DEF Settled
    <3> QED BY <3>1, <3>2
  <2> QED BY <2>3, <2>5, <2>7, <2>9, <2>10, <2>11 DEF ObservedInv
<1>2. CASE Observed!Restart
  <2>1. /\ handlers' = {}
        /\ UNCHANGED <<count, listings, sales, latest, closings>>
        /\ faults < MaxFaults
        /\ faults' = faults + 1
        /\ hurt' = [l \in Lots |-> hurt[l] \/ \E h \in handlers : h.seen.lot = l]
    BY <1>2 DEF Observed!Restart
  <2>2. hurt' \in [Lots -> BOOLEAN] /\ \A l \in Lots : hurt'[l] = (hurt[l] \/ Observed!Writing(l))
    BY <1>0, <2>1 DEF ObservedTypes, Observed!Writing
  <2>3. ObservedTypes'
    BY <1>0, <2>1, <2>2 DEF ObservedTypes, Observed!LotsAssumption
  <2>4. \A l \in Lots : Settled(l)'
    BY <1>0, <2>1, <2>2 DEF Settled, Rest, Even, Plain, AsSeen
  <2> QED BY <2>1, <2>3, <2>4 DEF ObservedInv, OneALot
<1>3. ASSUME NEW h \in handlers, Observed!Find(h) PROVE ObservedInv'
  <2>1. UNCHANGED <<count, listings, sales, faults, latest, closings, hurt>> /\ h.pc = "find"
    BY <1>3 DEF Observed!Find, Observed!history
  <2>2. \A l \in Lots : Same(l)
    BY <2>1, Unchanged
  <2>3. PICK was \in Listing : was = listings[h.seen.lot]
    BY <1>h
  <2>4. CASE was.there /\ ~Observed!Differs(was, h.seen)
    <3>1. handlers' = handlers \ {h}
      BY <1>3, <2>3, <2>4 DEF Observed!Find, Observed!Gone
    <3>2. ObservedTypes'
      BY <1>0, <2>1, <3>1 DEF ObservedTypes
    <3>3. Rest(h.seen.lot)
      BY <1>h, <2>1, <2>3, <2>4 DEF Observed!Differs, Rest, Even, Plain, AsSeen, Knows, Counts, Ahead
    <3> QED BY <1>0, <1>h, <2>2, <3>1, <3>2, <3>3, SameIsGood, HandlerIsThrough DEF Settled
  <2>5. CASE ~(was.there /\ ~Observed!Differs(was, h.seen))
    <3>1. PICK x : x = [h EXCEPT !.was = was, !.pc = IF was.there THEN "floor" ELSE "insert"]
      OBVIOUS
    <3>2. handlers' = (handlers \ {h}) \cup {x}
      BY <1>3, <2>3, <2>5, <3>1 DEF Observed!Find
    <3>3. /\ x \in Handler /\ x.seen = h.seen /\ x.was = was
          /\ x.pc = IF was.there THEN "floor" ELSE "insert"
      BY <1>h, <2>3, <3>1 DEF Handler, HandlerPCs
    <3>4. ObservedTypes'
      BY <1>0, <2>1, <3>2, <3>3 DEF ObservedTypes
    <3>5. Abreast(x)'
      BY <1>h, <2>1, <2>3, <3>3 DEF Abreast, Knows, Counts, Ahead, Even, Plain
    <3> QED BY <1>0, <1>h, <2>1, <2>2, <3>2, <3>3, <3>4, <3>5, HandlerMoves DEF Settled
  <2> QED BY <2>4, <2>5
<1>4. ASSUME NEW h \in handlers, Observed!Insert(h) PROVE ObservedInv'
  <2>1. /\ h.pc = "insert"
        /\ UNCHANGED <<count, sales, faults, latest, closings, hurt>>
        /\ ~listings[h.seen.lot].there
    BY <1>4, <1>h DEF Observed!Insert, Observed!history, Knows
  <2>2. PICK x : x = [h EXCEPT !.pc = "pin"]
    OBVIOUS
  <2>3. x \in Handler /\ x.seen = h.seen /\ x.was = h.was /\ x.pc = "pin"
    BY <1>h, <2>2 DEF Handler, HandlerPCs
  <2>4. PICK r : r = [there |-> TRUE, price |-> h.seen.price, floor |-> h.seen.price,
                      live |-> h.seen.live, pinned |-> TRUE]
    OBVIOUS
  <2>5. handlers' = (handlers \ {h}) \cup {x} /\ listings' = [listings EXCEPT ![h.seen.lot] = r]
    BY <1>4, <2>1, <2>2, <2>4 DEF Observed!Insert, Observed!To
  <2>6. r \in Listing /\ r.price = h.seen.price /\ r.floor = h.seen.price /\ r.live = h.seen.live
    BY <1>h, <2>4 DEF Listing, Seen
  <2>7. /\ listings' \in [Lots -> Listing]
        /\ listings'[h.seen.lot] = r
        /\ \A l \in Lots \ {h.seen.lot} : listings'[l] = listings[l]
    BY <1>0, <1>h, <2>5, <2>6 DEF ObservedTypes
  <2>8. ObservedTypes'
    BY <1>0, <1>h, <2>1, <2>3, <2>5, <2>6, <2>7 DEF ObservedTypes
  <2>9. \A l \in Lots \ {h.seen.lot} : Same(l)
    BY <2>1, <2>7 DEF Same, SameRow
  <2>10. Abreast(x)'
    BY <1>h, <2>1, <2>3, <2>6, <2>7 DEF Abreast, Knows, Counts, Ahead, Even, AsSeen
  <2> QED BY <1>h, <2>1, <2>3, <2>5, <2>8, <2>9, <2>10, HandlerMoves DEF Settled
<1>5. ASSUME NEW h \in handlers, Observed!Floor(h) PROVE ObservedInv'
  <2>1. /\ h.pc = "floor" /\ UNCHANGED <<count, sales, faults, latest, closings, hurt>>
        /\ listings' = [listings EXCEPT ![h.seen.lot].floor = h.seen.price]
    BY <1>5 DEF Observed!Floor, Observed!history
  <2>2. PICK x : x = [h EXCEPT !.pc = IF h.was.live /\ ~h.seen.live THEN "sale" ELSE "mutate"]
    OBVIOUS
  <2>3. /\ x \in Handler /\ x.seen = h.seen /\ x.was = h.was
        /\ x.pc = IF h.was.live /\ ~h.seen.live THEN "sale" ELSE "mutate"
    BY <1>h, <2>2 DEF Handler, HandlerPCs
  <2>4. handlers' = (handlers \ {h}) \cup {x}
    BY <1>5, <2>2 DEF Observed!Floor, Observed!To
  <2>5. PICK r : r = [listings[h.seen.lot] EXCEPT !.floor = h.seen.price]
    OBVIOUS
  <2>6. /\ r \in Listing /\ r.floor = h.seen.price /\ r.price = listings[h.seen.lot].price
        /\ r.live = listings[h.seen.lot].live /\ r.there = listings[h.seen.lot].there
    BY <1>h, <2>5 DEF Listing
  <2>7. /\ listings' \in [Lots -> Listing]
        /\ listings'[h.seen.lot] = r
        /\ \A l \in Lots \ {h.seen.lot} : listings'[l] = listings[l]
    BY <1>0, <1>h, <2>1, <2>5, <2>6 DEF ObservedTypes
  <2>8. ObservedTypes'
    BY <1>0, <1>h, <2>1, <2>3, <2>4, <2>6, <2>7 DEF ObservedTypes
  <2>9. \A l \in Lots \ {h.seen.lot} : Same(l)
    BY <2>1, <2>7 DEF Same, SameRow
  <2>10. Abreast(x)'
    BY <1>h, <2>1, <2>3, <2>6, <2>7 DEF Abreast, Knows, Counts, Ahead, Even
  <2> QED BY <1>h, <2>1, <2>3, <2>4, <2>8, <2>9, <2>10, HandlerMoves DEF Settled
<1>6. ASSUME NEW h \in handlers, Observed!RecordSale(h) PROVE ObservedInv'
  <2>1. /\ h.pc = "sale" /\ UNCHANGED <<count, listings, faults, latest, closings, hurt>>
        /\ sales' = [sales EXCEPT ![h.seen.lot] = sales[h.seen.lot] + 1]
    BY <1>6 DEF Observed!RecordSale, Observed!history
  <2>2. PICK x : x = [h EXCEPT !.pc = "mutate"]
    OBVIOUS
  <2>3. x \in Handler /\ x.seen = h.seen /\ x.was = h.was /\ x.pc = "mutate"
    BY <1>h, <2>2 DEF Handler, HandlerPCs
  <2>4. handlers' = (handlers \ {h}) \cup {x}
    BY <1>6, <2>2 DEF Observed!RecordSale, Observed!To
  <2>5. /\ sales' \in [Lots -> Nat] /\ sales'[h.seen.lot] = sales[h.seen.lot] + 1
        /\ \A l \in Lots \ {h.seen.lot} : sales'[l] = sales[l]
    BY <1>0, <1>h, <2>1 DEF ObservedTypes
  <2>6. ObservedTypes'
    BY <1>0, <2>1, <2>3, <2>4, <2>5 DEF ObservedTypes
  <2>7. \A l \in Lots \ {h.seen.lot} : Same(l)
    BY <2>1, <2>5 DEF Same, SameRow
  <2>8. sales[h.seen.lot] \in Nat /\ closings[h.seen.lot] \in Nat
    BY <1>0, <1>h DEF ObservedTypes
  <2>9. Abreast(x)'
    <3>1. Knows(x)'
      BY <1>h, <2>1, <2>3 DEF Knows
    <3>2. Counts(x)'
      BY <1>h, <2>1, <2>3, <2>5, <2>8 DEF Counts, Knows, Ahead, Even, Settled
    <3> QED BY <3>1, <3>2 DEF Abreast
  <2>10. (sales[h.seen.lot] >= closings[h.seen.lot])'
    BY <1>h, <2>1, <2>5, <2>8 DEF Settled
  <2> QED BY <2>3, <2>4, <2>6, <2>7, <2>9, <2>10, HandlerMoves
<1>7. ASSUME NEW h \in handlers, Observed!Mutate(h) PROVE ObservedInv'
  <2>1. /\ h.pc = "mutate" /\ UNCHANGED <<count, sales, faults, latest, hurt>>
        /\ listings' = [listings EXCEPT ![h.seen.lot] =
                          [listings[h.seen.lot] EXCEPT !.price = h.seen.price, !.live = h.seen.live]]
        /\ closings' = [closings EXCEPT ![h.seen.lot] =
                          IF listings[h.seen.lot].live /\ ~h.seen.live
                          THEN closings[h.seen.lot] + 1 ELSE closings[h.seen.lot]]
    BY <1>7 DEF Observed!Mutate
  <2>2. PICK x : x = [h EXCEPT !.pc = IF h.seen.live /\ ~h.was.pinned THEN "pin" ELSE "index"]
    OBVIOUS
  <2>3. x \in Handler /\ x.seen = h.seen /\ x.was = h.was /\ x.pc \in {"pin", "index"}
    BY <1>h, <2>2 DEF Handler, HandlerPCs
  <2>4. handlers' = (handlers \ {h}) \cup {x}
    BY <1>7, <2>2 DEF Observed!Mutate, Observed!To
  <2>5. PICK r : r = [listings[h.seen.lot] EXCEPT !.price = h.seen.price, !.live = h.seen.live]
    OBVIOUS
  <2>6. /\ r \in Listing /\ r.floor = listings[h.seen.lot].floor /\ r.price = h.seen.price /\ r.live = h.seen.live
    BY <1>h, <2>5 DEF Listing, Seen
  <2>7. /\ listings' \in [Lots -> Listing]
        /\ listings'[h.seen.lot] = r
        /\ \A l \in Lots \ {h.seen.lot} : listings'[l] = listings[l]
    BY <1>0, <1>h, <2>1, <2>5, <2>6 DEF ObservedTypes
  <2>8. sales[h.seen.lot] \in Nat /\ closings[h.seen.lot] \in Nat
    BY <1>0, <1>h DEF ObservedTypes
  <2>9. /\ closings' \in [Lots -> Nat] /\ \A l \in Lots \ {h.seen.lot} : closings'[l] = closings[l]
        /\ closings'[h.seen.lot] = IF listings[h.seen.lot].live /\ ~h.seen.live
                                   THEN closings[h.seen.lot] + 1 ELSE closings[h.seen.lot]
    BY <1>0, <1>h, <2>1, <2>8 DEF ObservedTypes
  <2>10. ObservedTypes'
    BY <1>0, <1>h, <2>1, <2>3, <2>4, <2>6, <2>7, <2>9 DEF ObservedTypes
  <2>11. \A l \in Lots \ {h.seen.lot} : Same(l)
    BY <2>1, <2>7, <2>9 DEF Same, SameRow
  <2>12. Abreast(x)'
    <3>1. Knows(x)'
      BY <1>h, <2>1, <2>3, <2>6, <2>7 DEF Knows, AsSeen
    <3>2. Counts(x)'
      BY <1>h, <2>1, <2>3, <2>8, <2>9 DEF Counts, Knows, Ahead, Even, Settled
    <3> QED BY <3>1, <3>2 DEF Abreast
  <2>13. (sales[h.seen.lot] >= closings[h.seen.lot])'
    BY <1>h, <2>1, <2>8, <2>9 DEF Settled, Counts, Knows, Ahead
  <2> QED BY <2>3, <2>4, <2>10, <2>11, <2>12, <2>13, HandlerMoves
<1>8. ASSUME NEW h \in handlers, Observed!SetPinned(h) PROVE ObservedInv'
  <2>1. /\ h.pc = "pin" /\ UNCHANGED <<count, sales, faults, latest, closings, hurt>>
        /\ listings' = [l \in Lots |-> IF listings[l].pinned \/ l = h.seen.lot
                                   THEN [listings[l] EXCEPT !.pinned = (l = h.seen.lot)] ELSE listings[l]]
    BY <1>8 DEF Observed!SetPinned, Observed!history
  <2>2. PICK x : x = [h EXCEPT !.pc = "index"]
    OBVIOUS
  <2>3. x \in Handler /\ x.seen = h.seen /\ x.was = h.was /\ x.pc = "index"
    BY <1>h, <2>2 DEF Handler, HandlerPCs
  <2>4. handlers' = (handlers \ {h}) \cup {x}
    BY <1>8, <2>2 DEF Observed!SetPinned, Observed!To
  <2>5. \A l \in Lots : listings'[l] \in Listing /\ SameRow(l)
    <3> TAKE l \in Lots
    <3>1. listings[l] \in Listing
      BY <1>0 DEF ObservedTypes
    <3>2. listings'[l] = listings[l] \/ listings'[l] = [listings[l] EXCEPT !.pinned = (l = h.seen.lot)]
      BY <2>1
    <3> QED BY <3>1, <3>2 DEF Listing, SameRow
  <2>6. ObservedTypes'
    BY <1>0, <2>1, <2>3, <2>4, <2>5 DEF ObservedTypes, SameRow
  <2>7. \A l \in Lots : Same(l)
    BY <2>1, <2>5 DEF Same
  <2>8. Abreast(x)'
    BY <1>h, <2>1, <2>3, <2>7 DEF Abreast, Knows, Counts, Ahead, Even, AsSeen, Same, SameRow
  <2> QED BY <1>h, <2>1, <2>3, <2>4, <2>6, <2>7, <2>8, HandlerMoves DEF Settled
<1>9. ASSUME NEW h \in handlers, Observed!Index(h) PROVE ObservedInv'
  <2>1. /\ h.pc = "index"
        /\ handlers' = handlers \ {h}
        /\ UNCHANGED <<count, listings, sales, faults, latest, closings, hurt>>
    BY <1>9 DEF Observed!Index, Observed!Gone, Observed!history
  <2>2. \A l \in Lots : Same(l)
    BY <2>1, Unchanged
  <2>3. ObservedTypes'
    BY <1>0, <2>1 DEF ObservedTypes
  <2>4. Rest(h.seen.lot)
    BY <1>h, <2>1 DEF Rest, Even, Plain, AsSeen, Knows, Counts, Ahead
  <2> QED BY <1>0, <1>h, <2>1, <2>2, <2>3, <2>4, SameIsGood, HandlerIsThrough DEF Settled
<1>10. ASSUME NEW h \in handlers, Observed!StatementFails(h) PROVE ObservedInv'
  <2>1. /\ handlers' = handlers \ {h} /\ UNCHANGED <<count, listings, sales, latest, closings>>
        /\ faults < MaxFaults /\ faults' = faults + 1 /\ hurt' = [hurt EXCEPT ![h.seen.lot] = TRUE]
    BY <1>10 DEF Observed!StatementFails, Observed!Gone
  <2>2. /\ hurt' \in [Lots -> BOOLEAN]
        /\ hurt'[h.seen.lot] = TRUE
        /\ \A l \in Lots \ {h.seen.lot} : hurt'[l] = hurt[l]
    BY <1>0, <1>h, <2>1 DEF ObservedTypes
  <2>3. ObservedTypes'
    BY <1>0, <2>1, <2>2 DEF ObservedTypes, Observed!LotsAssumption
  <2>4. \A l \in Lots \ {h.seen.lot} : Same(l)
    BY <2>1, <2>2 DEF Same, SameRow
  <2>5. Rest(h.seen.lot)'
    BY <2>2 DEF Rest, Even, Plain
  <2> QED BY <1>h, <2>1, <2>3, <2>4, <2>5, HandlerIsThrough DEF Settled
<1>11. CASE UNCHANGED Observed!vars
  <2>1. UNCHANGED <<handlers, count, faults, listings, sales, closings, hurt, latest>>
    BY <1>11 DEF Observed!vars
  <2>2. ObservedTypes' /\ OneALot'
    BY <1>0, <2>1 DEF ObservedTypes, OneALot
  <2>3. \A l \in Lots : Same(l)
    BY <2>1, Unchanged
  <2>4. \A h \in handlers' : Abreast(h)'
    BY <1>0, <1>h, <2>1, <2>3, SameIsGood
  <2>5. \A l \in Lots : Settled(l)'
    BY <1>0, <2>1, <2>3, SameIsGood DEF Settled, Observed!Writing
  <2> QED BY <2>2, <2>4, <2>5 DEF ObservedInv
<1> QED BY <1>1, <1>2, <1>3, <1>4, <1>5, <1>6, <1>7, <1>8, <1>9, <1>10, <1>11 DEF Observed!Next

(* While no two observations of one lot are written at once: a lot that went *)
(* from live to ended has been booked, whatever fails, and once if nothing   *)
(* does; and its row is what was last seen (Repo.upsertObservedLot).         *)
THEOREM SoldIsBooked ==
  Observed!LotsAssumption /\ ~Overlaps =>
    (Observed!Spec => [](Observed!TypeOK /\ Observed!SalesAreBooked /\ Observed!NewestIsKept))
<1> SUFFICES ASSUME Observed!LotsAssumption, ~Overlaps
             PROVE  Observed!Spec => [](Observed!TypeOK /\ Observed!SalesAreBooked /\ Observed!NewestIsKept)
  OBVIOUS
<1>1. ObservedInv => Observed!TypeOK
  BY DEF ObservedInv, ObservedTypes, Observed!TypeOK, Handler, HandlerPCs
<1>2. ObservedInv => Observed!SalesAreBooked
  BY DEF ObservedInv, Settled, Rest, Even, Observed!SalesAreBooked
<1>3. ObservedInv => Observed!NewestIsKept
  BY DEF ObservedInv, Settled, Rest, AsSeen, Observed!NewestIsKept
<1>4. Observed!Init => ObservedInv
  BY ObservedInit
<1>5. ObservedInv /\ [Observed!Next]_Observed!vars => ObservedInv'
  BY ObservedKept
<1> QED BY <1>1, <1>2, <1>3, <1>4, <1>5, PTL DEF Observed!Spec

-----------------------------------------------------------------------------
(***************************************************************************)
(* The corpus of a show.  A call of syncShow never has a document of its   *)
(* own show on the list it deletes (Spares), and records a signature only  *)
(* after the lineup it stands for was uploaded (Uploads).                  *)
(***************************************************************************)
CONSTANTS Shows, Gone, Agents, First, Requests, MaxLineup

VARIABLES lineup, agent, kb, onWatch, purged, lastSignature, sync, made, uploaded, emptied

Corpus == INSTANCE KbSync WITH watching <- onWatch

CallPCs == {"idle", "listing", "purge", "purging", "deciding", "replace", "replacing",
            "uploading", "recording", "done"}
Docs == [show : Shows \cup Gone, n : Nat]
Call == [pc : CallPCs, show : Shows, agent : Agents, signature : 0..MaxLineup \cup {Corpus!None},
         keep : SUBSET Shows, todo : SUBSET Docs]

CorpusTypes ==
  /\ lineup \in [Shows -> 0..MaxLineup] /\ agent \in [Shows -> Agents]
  /\ kb \in [Agents -> SUBSET Docs]
  /\ onWatch \subseteq Shows /\ purged \subseteq Shows
  /\ lastSignature \in [Shows -> 0..MaxLineup \cup {Corpus!None}]
  /\ sync \in [Requests -> Call]
  /\ made \in Nat /\ faults \in 0..MaxFaults
  /\ uploaded \in [Shows -> SUBSET (0..MaxLineup \cup {Corpus!None})] /\ emptied \subseteq Shows \X Shows

(* A call keeps the documents of its own show. *)
Spares(x) ==
  /\ x.pc \in {"purge", "replace"} => x.show \in x.keep
  /\ \A d \in x.todo : d.show # x.show
(* And records only what it has uploaded. *)
Uploads(x) == x.pc = "recording" => x.signature \in uploaded[x.show]

Careful(x) == Spares(x) /\ Uploads(x)
CorpusInv ==
  /\ CorpusTypes
  /\ (\A r \in Requests : Careful(sync[r]))
  /\ Corpus!NeverMissing
  /\ Corpus!SkippedIsUploaded

LEMMA IdleIsACall ==
  Corpus!SyncAssumption => Corpus!Idle \in Call /\ Corpus!Idle.pc = "idle" /\ Corpus!Idle.todo = {}
<1> SUFFICES ASSUME Corpus!SyncAssumption
             PROVE  Corpus!Idle \in Call /\ Corpus!Idle.pc = "idle" /\ Corpus!Idle.todo = {}
  OBVIOUS
<1>1. (CHOOSE s \in Shows : TRUE) \in Shows /\ (CHOOSE a \in Agents : TRUE) \in Agents
  BY DEF Corpus!SyncAssumption
<1> QED BY <1>1 DEF Corpus!Idle, Call, CallPCs

LEMMA CorpusInit == Corpus!SyncAssumption /\ Corpus!Init => CorpusInv
<1> SUFFICES ASSUME Corpus!SyncAssumption, Corpus!Init PROVE CorpusInv
  OBVIOUS
<1>1. Corpus!Idle \in Call /\ Careful(Corpus!Idle)
  BY IdleIsACall DEF Careful, Spares, Uploads
<1>2. \A a \in Agents : kb[a] \subseteq Docs
  BY DEF Corpus!Init, Corpus!Doc, Docs
<1>3. kb \in [Agents -> SUBSET Docs]
  BY <1>2 DEF Corpus!Init
<1>4. CorpusTypes
  BY <1>1, <1>3 DEF Corpus!Init, CorpusTypes, Corpus!SyncAssumption
<1>5. Corpus!NeverMissing /\ Corpus!SkippedIsUploaded
  BY DEF Corpus!Init, Corpus!NeverMissing, Corpus!SkippedIsUploaded
<1> QED BY <1>1, <1>4, <1>5 DEF CorpusInv, Corpus!Init

(* A call moves on; nothing else changes that the others rely on. *)
LEMMA CallMoves ==
  ASSUME CorpusInv, NEW r \in Requests, NEW x \in Call, sync' = [sync EXCEPT ![r] = x],
         UNCHANGED <<lineup, agent, uploaded>>, Careful(x),
         kb' \in [Agents -> SUBSET Docs], onWatch' \subseteq Shows, purged' \subseteq Shows,
         lastSignature' \in [Shows -> 0..MaxLineup \cup {Corpus!None}],
         made' \in Nat, faults' \in 0..MaxFaults, emptied' \subseteq Shows \X Shows,
         Corpus!NeverMissing', Corpus!SkippedIsUploaded'
  PROVE  CorpusInv'
<1>1. sync' \in [Requests -> Call] /\ \A q \in Requests : sync'[q] = IF q = r THEN x ELSE sync[q]
  BY DEF CorpusInv, CorpusTypes
<1>2. CorpusTypes'
  BY <1>1 DEF CorpusInv, CorpusTypes
<1>3. \A q \in Requests : Careful(sync'[q])
  BY <1>1 DEF CorpusInv
<1>4. \A q \in Requests : Careful(sync[q])'
  BY <1>3 DEF Careful, Spares, Uploads
<1> QED BY <1>2, <1>4 DEF CorpusInv

LEMMA CorpusKept == Corpus!SyncAssumption /\ CorpusInv /\ [Corpus!Next]_Corpus!vars => CorpusInv'
<1> SUFFICES ASSUME Corpus!SyncAssumption, CorpusInv, [Corpus!Next]_Corpus!vars PROVE CorpusInv'
  OBVIOUS
<1>0. /\ CorpusTypes
      /\ (\A r \in Requests : sync[r] \in Call /\ Careful(sync[r]))
      /\ Corpus!NeverMissing
      /\ Corpus!SkippedIsUploaded
  BY DEF CorpusInv, CorpusTypes
<1>1. ASSUME NEW s \in Shows, Corpus!Grow(s) \/ Corpus!Cancel(s) \/ \E a \in Agents : Corpus!UseAgent(s, a)
      PROVE  CorpusInv'
  <2>1. UNCHANGED <<kb, sync, made, faults, uploaded, emptied>>
    BY <1>1 DEF Corpus!Grow, Corpus!Cancel, Corpus!UseAgent
  <2>2. lineup' \in [Shows -> 0..MaxLineup]
    <3>1. lineup' = lineup \/ (lineup[s] < MaxLineup /\ lineup' = [lineup EXCEPT ![s] = lineup[s] + 1])
      BY <1>1 DEF Corpus!Grow, Corpus!Cancel, Corpus!UseAgent
    <3>2. lineup[s] < MaxLineup => lineup[s] + 1 \in 0..MaxLineup
      BY <1>0 DEF CorpusTypes, Corpus!SyncAssumption
    <3> QED BY <1>0, <3>1, <3>2 DEF CorpusTypes
  <2>3. agent' \in [Shows -> Agents]
    BY <1>0, <1>1 DEF Corpus!Grow, Corpus!Cancel, Corpus!UseAgent, CorpusTypes
  <2>4. onWatch' \subseteq Shows /\ purged' \subseteq Shows
    BY <1>0, <1>1 DEF Corpus!Grow, Corpus!Cancel, Corpus!UseAgent, CorpusTypes
  <2>5. /\ lastSignature' \in [Shows -> 0..MaxLineup \cup {Corpus!None}]
        /\ \A t \in Shows : lastSignature'[t] \in {lastSignature[t], Corpus!None}
    BY <1>0, <1>1 DEF Corpus!Grow, Corpus!Cancel, Corpus!UseAgent, CorpusTypes
  <2>6. CorpusTypes'
    BY <1>0, <2>1, <2>2, <2>3, <2>4, <2>5 DEF CorpusTypes
  <2>7. Corpus!SkippedIsUploaded' /\ Corpus!NeverMissing'
    BY <1>0, <2>1, <2>5 DEF Corpus!SkippedIsUploaded, Corpus!NeverMissing
  <2>8. \A r \in Requests : Careful(sync[r])'
    BY <1>0, <2>1 DEF Careful, Spares, Uploads
  <2> QED BY <2>6, <2>7, <2>8 DEF CorpusInv
<1>2. ASSUME NEW r \in Requests, NEW s \in Shows, Corpus!Begin(r, s) PROVE CorpusInv'
  <2> DEFINE x == [Corpus!Idle EXCEPT !.pc = "listing", !.show = s, !.agent = agent[s]]
  <2>1. x \in Call /\ Careful(x)
    <3>1. Corpus!Idle \in Call /\ Corpus!Idle.todo = {} /\ agent[s] \in Agents
      BY <1>0, IdleIsACall DEF CorpusTypes
    <3>2. x \in Call /\ x.pc = "listing" /\ x.todo = {}
      BY <3>1 DEF Call, CallPCs
    <3> QED BY <3>2 DEF Careful, Spares, Uploads
  <2>2. /\ sync' = [sync EXCEPT ![r] = x] /\ onWatch' = onWatch \cup {s}
        /\ UNCHANGED <<lineup, agent, kb, purged, lastSignature, made, faults, uploaded, emptied>>
    BY <1>2 DEF Corpus!Begin
  <2> HIDE DEF x
  <2>3. Corpus!NeverMissing' /\ Corpus!SkippedIsUploaded'
    BY <1>0, <2>2 DEF Corpus!NeverMissing, Corpus!SkippedIsUploaded
  <2> QED BY <1>0, <2>1, <2>2, <2>3, CallMoves DEF CorpusTypes
<1>3. ASSUME NEW r \in Requests, Corpus!Listed(r) PROVE CorpusInv'
  <2> DEFINE s == sync[r].show
             p == IF s \in purged THEN "deciding" ELSE "purge"
             k == onWatch \cup {s}
             x == [sync[r] EXCEPT !.signature = lineup[s], !.keep = k, !.pc = p]
  <2>1. s \in Shows /\ k \subseteq Shows /\ p \in {"deciding", "purge"} /\ s \in k
    BY <1>0 DEF Call, CorpusTypes
  <2>2. /\ sync' = [sync EXCEPT ![r] = x] /\ purged' = purged \cup {s}
        /\ UNCHANGED <<lineup, agent, kb, onWatch, lastSignature, made, faults, uploaded, emptied>>
    BY <1>0, <1>3 DEF Corpus!Listed, CorpusTypes
  <2>3. lineup[s] \in 0..MaxLineup
    BY <1>0, <2>1 DEF CorpusTypes
  <2>4. x \in Call /\ Careful(x)
    <3> HIDE DEF p, k
    <3> QED BY <1>0, <2>1, <2>3 DEF Call, CallPCs, Careful, Spares, Uploads
  <2> HIDE DEF x
  <2>5. Corpus!NeverMissing' /\ Corpus!SkippedIsUploaded'
    BY <1>0, <2>2 DEF Corpus!NeverMissing, Corpus!SkippedIsUploaded
  <2> QED BY <1>0, <2>1, <2>2, <2>4, <2>5, CallMoves DEF CorpusTypes
<1>4. ASSUME NEW r \in Requests, Corpus!Fetch(r) PROVE CorpusInv'
  <2>1. /\ sync[r].pc \in {"purge", "replace"}
        /\ UNCHANGED <<lineup, agent, kb, onWatch, purged, lastSignature, made, uploaded, emptied>>
    BY <1>4 DEF Corpus!Fetch
  <2>2. faults' \in 0..MaxFaults
    BY <1>0, <1>4 DEF Corpus!Fetch, Corpus!Fault, CorpusTypes, Corpus!SyncAssumption
  <2>3. PICK x : x \in Call /\ Careful(x) /\ sync' = [sync EXCEPT ![r] = x]
    <3>1. CASE /\ UNCHANGED faults
               /\ sync' = [sync EXCEPT ![r].pc = IF @ = "purge" THEN "purging" ELSE "replacing",
                                       ![r].todo = {d \in kb[sync[r].agent] : d.show \notin sync[r].keep}]
      <4> DEFINE p == IF sync[r].pc = "purge" THEN "purging" ELSE "replacing"
                 t == {d \in kb[sync[r].agent] : d.show \notin sync[r].keep}
                 x == [sync[r] EXCEPT !.pc = p, !.todo = t]
      <4>1. sync' = [sync EXCEPT ![r] = x]
        BY <1>0, <3>1 DEF CorpusTypes
      <4>2. p \in CallPCs /\ p \notin {"purge", "replace", "recording"}
        BY DEF CallPCs
      <4>3. t \subseteq Docs /\ \A d \in t : d.show # sync[r].show
        BY <1>0, <2>1 DEF CorpusTypes, Call, Careful, Spares
      <4>4. x \in Call /\ Careful(x)
        <5> HIDE DEF p, t
        <5> QED BY <1>0, <4>2, <4>3 DEF Call, Careful, Spares, Uploads
      <4> QED BY <4>1, <4>4
    <3>2. CASE Corpus!Goto(r, IF sync[r].pc = "purge" THEN "deciding" ELSE "uploading")
      <4> DEFINE p == IF sync[r].pc = "purge" THEN "deciding" ELSE "uploading"
                 x == [sync[r] EXCEPT !.pc = p]
      <4>1. sync' = [sync EXCEPT ![r] = x]
        BY <1>0, <3>2 DEF CorpusTypes, Corpus!Goto
      <4>2. p \in CallPCs /\ p \notin {"purge", "replace", "recording"}
        BY DEF CallPCs
      <4>3. x \in Call /\ Careful(x)
        <5> HIDE DEF p
        <5> QED BY <1>0, <4>2 DEF Call, Careful, Spares, Uploads
      <4> QED BY <4>1, <4>3
    <3> QED BY <1>4, <3>1, <3>2 DEF Corpus!Fetch
  <2>4. Corpus!NeverMissing' /\ Corpus!SkippedIsUploaded'
    BY <1>0, <2>1 DEF Corpus!NeverMissing, Corpus!SkippedIsUploaded
  <2> QED BY <1>0, <2>1, <2>2, <2>3, <2>4, CallMoves DEF CorpusTypes
<1>5. ASSUME NEW r \in Requests, NEW d \in sync[r].todo, Corpus!Delete(r, d) PROVE CorpusInv'
  <2> DEFINE x == [sync[r] EXCEPT !.todo = @ \ {d}]
  <2>1. /\ sync[r].pc \in {"purging", "replacing"} /\ sync' = [sync EXCEPT ![r] = x]
        /\ UNCHANGED <<lineup, agent, onWatch, purged, lastSignature, made, uploaded>>
    BY <1>0, <1>5 DEF Corpus!Delete, CorpusTypes
  <2>2. sync[r].agent \in Agents /\ sync[r].show \in Shows /\ d.show # sync[r].show
    BY <1>0, <1>5 DEF Call, Careful, Spares
  <2>3. faults' \in 0..MaxFaults /\ kb' \in [Agents -> SUBSET Docs]
    <3>1. kb[sync[r].agent] \ {d} \in SUBSET Docs
      BY <1>0, <2>2 DEF CorpusTypes
    <3>2. kb' = [kb EXCEPT ![sync[r].agent] = kb[sync[r].agent] \ {d}] \/ UNCHANGED kb
      BY <1>5 DEF Corpus!Delete
    <3>3. faults' \in 0..MaxFaults
      BY <1>0, <1>5 DEF Corpus!Delete, Corpus!Fault, CorpusTypes, Corpus!SyncAssumption
    <3> QED BY <1>0, <3>1, <3>2, <3>3 DEF CorpusTypes
  <2>4. emptied' = emptied \/ (d.show \in Shows /\ emptied' = emptied \cup {<<d.show, sync[r].show>>})
    BY <1>5 DEF Corpus!Delete
  <2>5. emptied' \subseteq Shows \X Shows /\ Corpus!NeverMissing'
    BY <1>0, <2>2, <2>4 DEF CorpusTypes, Corpus!NeverMissing
  <2>6. x \in Call /\ Careful(x)
    BY <1>0, <2>1 DEF Call, Careful, Spares, Uploads
  <2>7. Corpus!SkippedIsUploaded'
    BY <1>0, <2>1 DEF Corpus!SkippedIsUploaded
  <2> HIDE DEF x
  <2> QED BY <1>0, <2>1, <2>3, <2>5, <2>6, <2>7, CallMoves DEF CorpusTypes
<1>6. ASSUME NEW r \in Requests, Corpus!Removed(r) \/ Corpus!Decide(r) PROVE CorpusInv'
  <2>1. UNCHANGED <<lineup, agent, kb, onWatch, purged, lastSignature, made, faults, uploaded, emptied>>
    BY <1>6 DEF Corpus!Removed, Corpus!Decide
  <2>2. PICK x : x \in Call /\ Careful(x) /\ sync' = [sync EXCEPT ![r] = x]
    <3>1. CASE Corpus!Removed(r)
      <4> DEFINE p == IF Corpus!At(r, "purging") THEN "deciding" ELSE "uploading"
                 x == [sync[r] EXCEPT !.pc = p]
      <4>1. sync' = [sync EXCEPT ![r] = x]
        BY <1>0, <3>1 DEF CorpusTypes, Corpus!Goto, Corpus!Removed
      <4>2. p \in CallPCs /\ p \notin {"purge", "replace", "recording"}
        BY DEF CallPCs
      <4>3. x \in Call /\ Careful(x)
        <5> HIDE DEF p
        <5> QED BY <1>0, <4>2 DEF Call, Careful, Spares, Uploads
      <4> QED BY <4>1, <4>3
    <3>2. CASE Corpus!Decide(r)
      <4> DEFINE y == [sync[r] EXCEPT !.pc = "done"]
                 z == [sync[r] EXCEPT !.pc = "replace", !.keep = {sync[r].show}]
      <4>1. sync' = [sync EXCEPT ![r] = y] \/ sync' = [sync EXCEPT ![r] = z]
        BY <1>0, <3>2 DEF CorpusTypes, Corpus!Decide
      <4>2. y \in Call /\ Careful(y)
        BY <1>0 DEF Call, CallPCs, Careful, Spares, Uploads
      <4>3. z \in Call /\ Careful(z)
        BY <1>0 DEF Call, CallPCs, Careful, Spares, Uploads
      <4> HIDE DEF y, z
      <4> QED BY <4>1, <4>2, <4>3
    <3> QED BY <1>6, <3>1, <3>2
  <2>3. Corpus!NeverMissing' /\ Corpus!SkippedIsUploaded'
    BY <1>0, <2>1 DEF Corpus!NeverMissing, Corpus!SkippedIsUploaded
  <2> QED BY <1>0, <2>1, <2>2, <2>3, CallMoves DEF CorpusTypes
<1>7. ASSUME NEW r \in Requests, Corpus!Upload(r) PROVE CorpusInv'
  <2> DEFINE s == sync[r].show
             n == sync[r].signature
             new == [uploaded EXCEPT ![s] = @ \cup {n}]
  <2>1. UNCHANGED <<lineup, agent, onWatch, purged, lastSignature, emptied>>
    BY <1>7 DEF Corpus!Upload
  <2>2. s \in Shows /\ n \in 0..MaxLineup \cup {Corpus!None} /\ agent[s] \in Agents
    BY <1>0 DEF Call, CorpusTypes
  <2>3. faults' \in 0..MaxFaults /\ made' \in Nat
    BY <1>0, <1>7 DEF Corpus!Upload, Corpus!Fault, CorpusTypes, Corpus!SyncAssumption
  <2>4. kb' \in [Agents -> SUBSET Docs]
    <3>1. Corpus!Doc(s, made + 1) \in Docs
      BY <1>0, <2>2 DEF Corpus!Doc, Docs, CorpusTypes
    <3>2. kb' = [kb EXCEPT ![agent[s]] = @ \cup {Corpus!Doc(s, made + 1)}] \/ UNCHANGED kb
      BY <1>7 DEF Corpus!Upload
    <3> QED BY <1>0, <2>2, <3>1, <3>2 DEF CorpusTypes
  <2>5. uploaded' = new \/ UNCHANGED uploaded
    BY <1>7 DEF Corpus!Upload
  <2>6. /\ uploaded' \in [Shows -> SUBSET (0..MaxLineup \cup {Corpus!None})]
        /\ \A t \in Shows : uploaded[t] \subseteq uploaded'[t]
    BY <1>0, <2>2, <2>5 DEF CorpusTypes
  <2>7. PICK p \in {"recording", "done"} : Corpus!Goto(r, p) /\ (p = "recording" => uploaded' = new)
    BY <1>7 DEF Corpus!Upload
  <2> DEFINE x == [sync[r] EXCEPT !.pc = p]
  <2>8. x \in Call /\ sync' = [sync EXCEPT ![r] = x]
    BY <1>0, <2>7 DEF CorpusTypes, Call, CallPCs, Corpus!Goto
  <2>9. Spares(x) /\ (x.pc = "recording" => x.signature \in uploaded'[x.show])
    <3>1. Spares(x) /\ x.pc = p /\ x.show = s /\ x.signature = n
      BY <1>0 DEF Call, Careful, Spares
    <3> QED BY <1>0, <2>2, <2>7, <3>1 DEF CorpusTypes
  <2> HIDE DEF x, new, s, n
  <2>10. sync' \in [Requests -> Call] /\ \A q \in Requests : sync'[q] = IF q = r THEN x ELSE sync[q]
    BY <1>0, <2>8 DEF CorpusTypes
  <2>11. CorpusTypes'
    BY <1>0, <2>1, <2>3, <2>4, <2>6, <2>10 DEF CorpusTypes
  <2>12. \A q \in Requests : Careful(sync[q])'
    <3> TAKE q \in Requests
    <3>1. CASE q = r
      BY <2>9, <2>10, <3>1 DEF Careful, Spares, Uploads
    <3>2. CASE q # r
      BY <1>0, <2>6, <2>10, <3>2 DEF Careful, Spares, Uploads, Call
    <3> QED BY <3>1, <3>2
  <2>13. Corpus!NeverMissing' /\ Corpus!SkippedIsUploaded'
    BY <1>0, <2>1, <2>6 DEF Corpus!NeverMissing, Corpus!SkippedIsUploaded
  <2> QED BY <2>11, <2>12, <2>13 DEF CorpusInv
<1>8. ASSUME NEW r \in Requests, Corpus!Record(r) PROVE CorpusInv'
  <2> DEFINE x == [sync[r] EXCEPT !.pc = "done"]
  <2>1. /\ sync[r].pc = "recording" /\ sync' = [sync EXCEPT ![r] = x]
        /\ lastSignature' = [lastSignature EXCEPT ![sync[r].show] = sync[r].signature]
        /\ UNCHANGED <<lineup, agent, kb, onWatch, purged, made, faults, uploaded, emptied>>
    BY <1>0, <1>8 DEF Corpus!Record, Corpus!Goto, Corpus!At, CorpusTypes
  <2>2. x \in Call /\ Careful(x)
    BY <1>0 DEF Call, CallPCs, Careful, Spares, Uploads
  <2>3. /\ sync[r].show \in Shows
        /\ sync[r].signature \in 0..MaxLineup \cup {Corpus!None}
        /\ sync[r].signature \in uploaded[sync[r].show]
    BY <1>0, <2>1 DEF Call, Careful, Uploads
  <2> HIDE DEF x
  <2>4. /\ lastSignature' \in [Shows -> 0..MaxLineup \cup {Corpus!None}]
        /\ Corpus!SkippedIsUploaded'
        /\ Corpus!NeverMissing'
    BY <1>0, <2>1, <2>3 DEF CorpusTypes, Corpus!SkippedIsUploaded, Corpus!NeverMissing
  <2> QED BY <1>0, <2>1, <2>2, <2>4, CallMoves DEF CorpusTypes
<1>9. CASE UNCHANGED Corpus!vars
  BY <1>0, <1>9 DEF Corpus!vars, CorpusInv, CorpusTypes, Careful, Spares, Uploads, Corpus!NeverMissing,
     Corpus!SkippedIsUploaded
<1> QED BY <1>1, <1>2, <1>3, <1>4, <1>5, <1>6, <1>7, <1>8, <1>9 DEF Corpus!Next

(* However the syncs of several shows on several agents cross and fail: a   *)
(* show's own sync never deletes its last document, and a lineup is skipped *)
(* only if it was uploaded (kbSync.ts, syncShow and removeShowDocs).        *)
THEOREM CorpusIsKept ==
  Corpus!SyncAssumption =>
    (Corpus!Spec => [](Corpus!TypeOK /\ Corpus!NeverMissing /\ Corpus!SkippedIsUploaded))
<1> SUFFICES ASSUME Corpus!SyncAssumption
             PROVE  Corpus!Spec => [](Corpus!TypeOK /\ Corpus!NeverMissing /\ Corpus!SkippedIsUploaded)
  OBVIOUS
<1>1. CorpusInv => Corpus!TypeOK
  <2> SUFFICES ASSUME CorpusTypes PROVE Corpus!TypeOK
    BY DEF CorpusInv
  <2>1. \A r \in Requests : sync[r].pc \in CallPCs
    BY DEF CorpusTypes, Call
  <2>2. DOMAIN kb = Agents /\ \A a \in Agents : \A d \in kb[a] : d.show \in Shows \cup Gone
    BY DEF CorpusTypes, Docs
  <2> QED BY <2>1, <2>2 DEF CorpusTypes, Corpus!TypeOK, CallPCs
<1>2. CorpusInv => Corpus!NeverMissing /\ Corpus!SkippedIsUploaded
  BY DEF CorpusInv
<1>3. Corpus!Init => CorpusInv
  BY CorpusInit
<1>4. CorpusInv /\ [Corpus!Next]_Corpus!vars => CorpusInv'
  BY CorpusKept
<1> QED BY <1>1, <1>2, <1>3, <1>4, PTL DEF Corpus!Spec

-----------------------------------------------------------------------------
(***************************************************************************)
(* What the host is on.  Segments are pushed in the order of time, so that *)
(* the window that is summed up ends at the newest of them; and the one    *)
(* summary under way knows of no less than the one that stands.            *)
(***************************************************************************)
CONSTANTS Named, SpeechWindow, VoiceTTL, ScreenTTL, FrameGap, MaxSaid, MaxFrames, MaxSpeechTime

VARIABLES speechTime, said, counted, calls, summary, voice, screen, frames, read, lastRead, ticking, started,
          naming, called

Host == INSTANCE HostContext WITH
  now <- speechTime, Lots <- Named, Window <- SpeechWindow, Gap <- FrameGap, MaxTime <- MaxSpeechTime

InTurn ==
  /\ said \in Seq(Nat)
  /\ \A i \in 1..Len(said) : said[i] <= speechTime
  /\ \A i, j \in 1..Len(said) : i <= j => said[i] <= said[j]

OneIsAsked ==
  /\ \A c, d \in calls : c = d
  /\ \A c \in calls : summary <= c

HostTypes ==
  /\ Host!TypeOK /\ DOMAIN naming = Named /\ DOMAIN called = Named /\ Len(said) <= MaxSaid
  /\ frames <= read

HostInv == HostTypes /\ InTurn /\ OneIsAsked

LEMMA SegmentsAreCounted == \A S : Host!Cardinality(S) = Cardinality(S)
BY DEF Host!Cardinality, Cardinality

LEMMA WindowEndsNow ==
  ASSUME Host!ContextAssumption, HostInv, Host!InWindow # {}
  PROVE  /\ (CHOOSE i \in Host!InWindow : \A j \in Host!InWindow : j <= i) = Len(said)
         /\ Len(said) \in 1..Len(said)
         /\ Host!Cardinality(Host!InWindow) \in 0..MaxSaid
<1>0. speechTime \in Nat /\ Len(said) \in Nat /\ said \in Seq(Nat) /\ SpeechWindow \in Nat /\ DOMAIN said = 1..Len(said)
      /\ Len(said) <= MaxSaid /\ MaxSaid \in Nat
  BY DEF Host!ContextAssumption, HostInv, HostTypes, InTurn, Host!TypeOK
<1>1. PICK i \in 1..Len(said) : speechTime - said[i] <= SpeechWindow
  BY <1>0 DEF Host!InWindow
<1>2. Len(said) \in 1..Len(said) /\ said[i] <= said[Len(said)] /\ said[i] \in Nat /\ said[Len(said)] \in Nat
  BY <1>0, <1>1 DEF HostInv, InTurn
<1>3. Len(said) \in Host!InWindow
  BY <1>0, <1>1, <1>2 DEF Host!InWindow
<1>4. \A j \in Host!InWindow : j \in 1..Len(said)
  BY <1>0 DEF Host!InWindow
<1>5. (CHOOSE k \in Host!InWindow : \A j \in Host!InWindow : j <= k) = Len(said)
  <2>1. \A j \in Host!InWindow : j <= Len(said)
    BY <1>4
  <2> DEFINE last == CHOOSE k \in Host!InWindow : \A j \in Host!InWindow : j <= k
  <2>2. last \in Host!InWindow /\ \A j \in Host!InWindow : j <= last
    BY <1>3, <2>1
  <2>3. last \in 1..Len(said) /\ Len(said) <= last
    BY <1>3, <1>4, <2>2
  <2> HIDE DEF last
  <2>4. last = Len(said)
    <3>1. Len(said) \in Int /\ last \in Int /\ last <= Len(said)
      BY <1>0, <2>3
    <3> QED BY <2>3, <3>1
  <2> QED BY <2>4 DEF last
<1>6. Cardinality(Host!InWindow) \in Nat /\ Cardinality(Host!InWindow) <= Cardinality(1..Len(said)) /\ Cardinality(1..Len(said)) = Len(said)
  <2>1. IsFiniteSet(1..Len(said)) /\ Cardinality(1..Len(said)) = Len(said)
    <3>1. 1 \in Int /\ Len(said) \in Int
      BY <1>0
    <3>2. IsFiniteSet(1..Len(said)) /\ Cardinality(1..Len(said)) = (IF 1 > Len(said) THEN 0 ELSE Len(said) - 1 + 1)
      BY <3>1, FS_Interval
    <3> QED BY <1>0, <3>2
  <2>2. Host!InWindow \in SUBSET (1..Len(said))
    BY <1>4
  <2>3. IsFiniteSet(Host!InWindow) /\ Cardinality(Host!InWindow) <= Cardinality(1..Len(said))
    BY <2>1, <2>2, FS_Subset
  <2> QED BY <2>1, <2>3, FS_CardinalityType
<1> QED BY <1>0, <1>2, <1>5, <1>6, SegmentsAreCounted

LEMMA HostKept == ASSUME Host!ContextAssumption, HostInv, [Host!Next]_Host!vars PROVE HostInv' /\ summary' >= summary
<1>0. /\ speechTime \in 0..MaxSpeechTime /\ counted \in 0..MaxSaid /\ calls \subseteq 1..Len(said)
      /\ summary \in 0..Len(said) /\ frames \in 0..MaxFrames /\ read \in 0..MaxFrames /\ frames <= read
      /\ (\A l \in Named : naming[l] \in {"unseen", "written", "waits", "asked", "done"})
      /\ (\A l \in Named : called[l] \in {"title", "guess", "operator"})
      /\ DOMAIN naming = Named /\ DOMAIN called = Named /\ said \in Seq(Nat) /\ Len(said) <= MaxSaid
      /\ MaxSaid \in Nat /\ MaxFrames \in Nat /\ MaxSpeechTime \in Nat /\ Len(said) \in Nat
  BY DEF HostInv, HostTypes, InTurn, Host!TypeOK, Host!ContextAssumption
<1>1. CASE Host!Tick
  BY <1>0, <1>1 DEF Host!Tick, Host!speech, Host!signals, Host!life, HostInv, HostTypes, Host!TypeOK, InTurn, OneIsAsked
<1>2. CASE Host!Refresh
  <2>1. /\ counted' \in 0..MaxSaid /\ calls' = {Len(said)} /\ Len(said) \in 1..Len(said) /\ summary' = summary
        /\ UNCHANGED <<speechTime, said>>
    BY <1>2, WindowEndsNow DEF Host!Refresh
  <2> QED BY <1>0, <1>2, <2>1 DEF Host!Refresh, Host!signals, Host!life, HostInv, HostTypes, Host!TypeOK, InTurn, OneIsAsked
<1>3. CASE Host!ReadFrame
  <2>1. read' \in 0..MaxFrames /\ frames' \in 0..MaxFrames /\ frames' <= read'
    BY <1>0, <1>3 DEF Host!ReadFrame
  <2> QED BY <1>0, <1>3, <2>1 DEF Host!ReadFrame, Host!speech, Host!life, HostInv, HostTypes, Host!TypeOK, InTurn, OneIsAsked
<1>4. CASE Host!FrameRead
  <2>1. read' \in 0..MaxFrames /\ frames' \in 0..MaxFrames /\ frames' <= read'
    BY <1>0, <1>4 DEF Host!FrameRead
  <2> QED BY <1>0, <1>4, <2>1 DEF Host!FrameRead, Host!speech, Host!life, HostInv, HostTypes, Host!TypeOK, InTurn, OneIsAsked
<1>5. CASE Host!FrameFails
  <2>1. read' \in 0..MaxFrames /\ frames' \in 0..MaxFrames /\ frames' <= read'
    BY <1>0, <1>5 DEF Host!FrameFails
  <2> QED BY <1>0, <1>5, <2>1 DEF Host!FrameFails, Host!speech, Host!life, HostInv, HostTypes, Host!TypeOK, InTurn, OneIsAsked
<1>6. CASE Host!Current
  BY <1>0, <1>6 DEF Host!Current, Host!speech, Host!life, HostInv, HostTypes, Host!TypeOK, InTurn, OneIsAsked
<1>7. CASE Host!Stop
  BY <1>0, <1>7 DEF Host!Stop, Host!speech, Host!signals, HostInv, HostTypes, Host!TypeOK, InTurn, OneIsAsked
<1>8. CASE Host!StopContext
  BY <1>0, <1>8 DEF Host!StopContext, Host!speech, Host!signals, HostInv, HostTypes, Host!TypeOK, InTurn, OneIsAsked
<1>9. ASSUME NEW reading, Host!Push(reading) PROVE HostInv' /\ summary' >= summary
  <2>1. said' = Append(said, speechTime) /\ Len(said') = Len(said) + 1 /\ Len(said') <= MaxSaid /\ said' \in Seq(Nat)
    BY <1>0, <1>9 DEF Host!Push
  <2>2. /\ \A i \in 1..Len(said) : said'[i] = said[i] /\ said[i] \in Nat
        /\ said'[Len(said')] = speechTime
    BY <1>0, <2>1
  <2>3. InTurn'
    <3>1. speechTime' = speechTime /\ \A i \in 1..Len(said') : i = Len(said') \/ i \in 1..Len(said)
      BY <1>0, <1>9, <2>1 DEF Host!Push
    <3>2. \A i \in 1..Len(said') : said'[i] <= speechTime
      BY <1>0, <2>1, <2>2, <3>1 DEF HostInv, InTurn
    <3>3. ASSUME NEW i \in 1..Len(said'), NEW j \in 1..Len(said'), i <= j PROVE said'[i] <= said'[j]
      <4>1. CASE j = Len(said')
        BY <2>2, <3>2, <4>1
      <4>2. CASE j # Len(said')
        <5>1. i \in 1..Len(said) /\ j \in 1..Len(said)
          BY <1>0, <2>1, <3>3, <4>2
        <5> QED BY <2>2, <3>3, <5>1 DEF HostInv, InTurn
      <4> QED BY <4>1, <4>2
    <3> QED BY <2>1, <3>1, <3>2, <3>3 DEF InTurn
  <2>4. calls' \subseteq DOMAIN said' /\ summary' \in 0..Len(said') /\ summary' = summary /\ calls' = calls
    BY <1>0, <1>9, <2>1 DEF Host!Push
  <2> QED BY <1>0, <1>9, <2>1, <2>3, <2>4 DEF Host!Push, Host!life, HostInv, HostTypes, Host!TypeOK, OneIsAsked
<1>10. ASSUME NEW c \in calls, Host!Summarised(c) PROVE HostInv' /\ summary' >= summary
  <2>1. summary' = c /\ calls' = {} /\ said' = said /\ c \in 1..Len(said) /\ summary <= c
    BY <1>0, <1>10 DEF Host!Summarised, HostInv, OneIsAsked
  <2> QED BY <1>0, <1>10, <2>1 DEF Host!Summarised, Host!signals, Host!life, HostInv, HostTypes, Host!TypeOK, InTurn, OneIsAsked
<1>11. ASSUME NEW c \in calls, Host!SummaryFails(c) PROVE HostInv' /\ summary' >= summary
  BY <1>0, <1>11 DEF Host!SummaryFails, Host!signals, Host!life, HostInv, HostTypes, Host!TypeOK, InTurn, OneIsAsked
<1>12. ASSUME NEW l \in Named, Host!Created(l) \/ Host!Waits(l) \/ Host!Ask(l) \/ Host!Answered(l) \/ Host!Rename(l)
       PROVE  HostInv' /\ summary' >= summary
  <2>1. UNCHANGED <<speechTime, said, counted, calls, summary, frames, read>>
    BY <1>12 DEF Host!Created, Host!Waits, Host!Ask, Host!Answered, Host!Rename, Host!speech, Host!signals
  <2>2. DOMAIN naming' = Named /\ \A k \in Named : naming'[k] \in {"unseen", "written", "waits", "asked", "done"}
    BY <1>0, <1>12 DEF Host!Created, Host!Waits, Host!Ask, Host!Answered, Host!Rename
  <2>3. DOMAIN called' = Named /\ \A k \in Named : called'[k] \in {"title", "guess", "operator"}
    BY <1>0, <1>12 DEF Host!Created, Host!Waits, Host!Ask, Host!Answered, Host!Rename
  <2>4. HostTypes'
    BY <1>0, <2>1, <2>2, <2>3 DEF HostTypes, Host!TypeOK
  <2>5. InTurn' /\ OneIsAsked' /\ summary' >= summary
    BY <1>0, <2>1 DEF HostInv, InTurn, OneIsAsked
  <2> QED BY <2>4, <2>5 DEF HostInv
<1>13. CASE UNCHANGED Host!vars
  BY <1>0, <1>13 DEF Host!vars, HostInv, HostTypes, Host!TypeOK, InTurn, OneIsAsked
<1> QED BY <1>1, <1>2, <1>3, <1>4, <1>5, <1>6, <1>7, <1>8, <1>9, <1>10, <1>11, <1>12, <1>13 DEF Host!Next

LEMMA HostBegins == Host!ContextAssumption /\ Host!Init => HostInv
BY DEF Host!ContextAssumption, Host!Init, HostInv, HostTypes, Host!TypeOK, InTurn, OneIsAsked

(* However slow the model is: what the host is on is never replaced by what *)
(* they were on before (ShowContext.maybeRefresh, one call at a time).      *)
THEOREM SummariesRise == Host!ContextAssumption => (Host!Spec => []Host!TypeOK /\ Host!SummariesInOrder)
<1> SUFFICES ASSUME Host!ContextAssumption PROVE Host!Spec => []Host!TypeOK /\ Host!SummariesInOrder
  OBVIOUS
<1>1. HostInv /\ [Host!Next]_Host!vars => HostInv' /\ summary' >= summary
  BY HostKept
<1>2. HostInv => Host!TypeOK
  BY DEF HostInv, HostTypes
<1>3. HostInv /\ [Host!Next]_Host!vars => [summary' >= summary]_Host!vars
  BY <1>1
<1> QED BY <1>1, <1>2, <1>3, HostBegins, PTL DEF Host!Spec, Host!SummariesInOrder

(* A show that was stopped asks the model for no name any more, whatever    *)
(* was being written when it stopped (ShowRuntime.nameLot).                 *)
THEOREM StoppedIsSilent == Host!ContextAssumption => (Host!Spec => Host!StoppedAsksNothing)
<1> SUFFICES ASSUME Host!ContextAssumption PROVE Host!Spec => Host!StoppedAsksNothing
  OBVIOUS
<1> DEFINE Silent == \A l \in Named : naming'[l] = "asked" /\ naming[l] # "asked" => started
<1>1. HostInv /\ [Host!Next]_Host!vars => Silent
  <2> SUFFICES ASSUME HostInv, [Host!Next]_Host!vars PROVE Silent
    OBVIOUS
  <2>0. DOMAIN naming = Named
    BY DEF HostInv, HostTypes
  <2>1. CASE naming' = naming
    BY <2>1
  <2>2. CASE Host!Stop
    BY <2>0, <2>2 DEF Host!Stop
  <2>3. ASSUME NEW l \in Named, Host!Created(l) \/ Host!Waits(l) \/ Host!Ask(l) \/ Host!Answered(l) PROVE Silent
    BY <2>0, <2>3 DEF Host!Created, Host!Waits, Host!Ask, Host!Answered
  <2>4. \/ naming' = naming \/ Host!Stop
        \/ \E l \in Named : Host!Created(l) \/ Host!Waits(l) \/ Host!Ask(l) \/ Host!Answered(l)
    <3>1. CASE UNCHANGED Host!life \/ UNCHANGED Host!vars
      BY <3>1 DEF Host!life, Host!vars
    <3>2. CASE Host!StopContext \/ \E l \in Named : Host!Rename(l)
      BY <3>2 DEF Host!StopContext, Host!Rename
    <3>3. Host!Tick \/ Host!Refresh \/ Host!ReadFrame \/ Host!FrameRead \/ Host!FrameFails \/ Host!Current => UNCHANGED Host!life
      BY DEF Host!Tick, Host!Refresh, Host!ReadFrame, Host!FrameRead, Host!FrameFails, Host!Current
    <3>4. ASSUME NEW reading, Host!Push(reading) PROVE UNCHANGED Host!life
      BY <3>4 DEF Host!Push, Host!life
    <3>5. ASSUME NEW c \in calls, Host!Summarised(c) \/ Host!SummaryFails(c) PROVE UNCHANGED Host!life
      BY <3>5 DEF Host!Summarised, Host!SummaryFails
    <3> QED BY <3>1, <3>2, <3>3, <3>4, <3>5 DEF Host!Next
  <2> QED BY <2>1, <2>2, <2>3, <2>4
<1>2. HostInv /\ [Host!Next]_Host!vars => HostInv'
  BY HostKept
<1>3. HostInv /\ [Host!Next]_Host!vars => [Silent]_Host!vars
  BY <1>1
<1> QED BY <1>2, <1>3, HostBegins, PTL DEF Host!Spec, Host!StoppedAsksNothing

-----------------------------------------------------------------------------
(***************************************************************************)
(* The budget that Reddit grants.  What is left of it, with the requests   *)
(* that went unread and were not yet one too many, is a slack that only a  *)
(* paced request takes from.  An answer that was read says no more than    *)
(* the slack, but for the request under way; and when it is of a window    *)
(* that is over, nearly the whole budget of the next is there - unless a   *)
(* mint was under way while the windows changed, and overtook the answer   *)
(* of a request that had been queued before it.  There is one such at most.*)
(***************************************************************************)
CONSTANTS RedditPage, KnownCap, Budget, MaxPosts, MaxTakenDown, MaxWindowsOfReddit, MaxBlind

VARIABLES posts, takenDown, known, primed, watchOver, handed, base, asking, token, minted, lane, rate,
          left, window, over, blind

Reddit == INSTANCE RedditWatch WITH
  posted <- posts, removed <- takenDown, seen <- known, stopped <- watchOver, emitted <- handed,
  reader <- asking, queue <- lane,
  Page <- RedditPage, SeenCap <- KnownCap, MaxRemoved <- MaxTakenDown, MaxWindows <- MaxWindowsOfReddit

Stages == {"idle", "tokenless", "queued", "sent", "answered", "failed"}
Said == [left : Nat, window : Nat \ {0}, ok : BOOLEAN] \cup {Reddit!NoAnswer}
IsAsking(x) == x = [pc |-> x.pc, answer |-> x.answer, page |-> x.page] /\ x.pc \in Stages /\ x.answer \in Said

BudgetTypes ==
  /\ left \in Nat /\ over \in Nat /\ blind \in Nat /\ window \in Nat \ {0} /\ over <= blind
  /\ rate \in Said /\ minted \in Said /\ token \in {"none", "minting", "held"}
  /\ DOMAIN asking = Reddit!Readers /\ \A c \in Reddit!Readers : IsAsking(asking[c])

(* One at a time: who is asking is at the head of the queue. *)
InLane(c) == \E i \in DOMAIN lane : lane[i] = c
LaneIsOrderly ==
  /\ lane \in Reddit!Queues
  /\ \A c \in Reddit!Readers :
       /\ InLane(c) <=> asking[c].pc \in {"queued", "sent"}
       /\ asking[c].pc = "sent" => lane[1] = c

Slack == left + blind - over
Sent(c) == asking[c].pc = "sent" /\ asking[c].answer.window = window
UnderWay == IF \E c \in Reddit!Readers : Sent(c) THEN 1 ELSE 0
SomeQueued == \E c \in Reddit!Readers : asking[c].pc = "queued"

RateIsTrue ==
  /\ rate.window <= window
  /\ rate.window = window => rate.left <= Slack + UnderWay
  /\ rate.window < window => Budget <= Slack + UnderWay + 1

AnswersAreTrue == \A c \in Reddit!Readers : asking[c].pc = "sent" =>
  /\ asking[c].answer.window <= window
  /\ asking[c].answer.window = window => asking[c].answer.left <= Slack
  /\ asking[c].answer.window < window => Budget <= Slack

MintIsTrue == token = "minting" =>
  /\ minted.window <= window /\ minted.window \in Nat \ {0}
  /\ \E c \in Reddit!Readers : asking[c].pc = "tokenless"
  /\ minted.window < window => Budget <= Slack + (IF SomeQueued THEN 0 ELSE 1)
  /\ minted.window = window => minted.left <= Slack /\ (SomeQueued => minted.left + 1 <= Slack \/ Slack = 0)

BudgetInv == BudgetTypes /\ LaneIsOrderly /\ RateIsTrue /\ AnswersAreTrue /\ MintIsTrue

LEMMA SaidFields ==
  ASSUME NEW x \in Said
  PROVE  /\ x.left \in Int /\ x.window \in Nat /\ x.ok \in BOOLEAN /\ (x.window # 0 => x.left \in Nat)
<1>1. CASE x = Reddit!NoAnswer
  BY <1>1 DEF Reddit!NoAnswer
<1>2. CASE x \in [left : Nat, window : Nat \ {0}, ok : BOOLEAN]
  BY <1>2
<1> QED BY <1>1, <1>2 DEF Said

LEMMA NextStage ==
  ASSUME NEW x, IsAsking(x), NEW p \in Stages
  PROVE  LET y == [x EXCEPT !.pc = p] IN IsAsking(y) /\ y.pc = p /\ y.answer = x.answer
<1>1. x = [pc |-> x.pc, answer |-> x.answer, page |-> x.page] /\ x.answer \in Said
  BY DEF IsAsking
<1> DEFINE y == [x EXCEPT !.pc = p]
<1>2. y = [pc |-> p, answer |-> x.answer, page |-> x.page]
  BY <1>1
<1>3. y.pc = p /\ y.answer = x.answer /\ y.page = x.page
  BY <1>2
<1> HIDE DEF y
<1>4. IsAsking(y)
  BY <1>1, <1>2, <1>3 DEF IsAsking
<1> QED BY <1>3, <1>4 DEF y

LEMMA IdleIsAsking == IsAsking(Reddit!Idle) /\ Reddit!Idle.pc = "idle" /\ Reddit!NoAnswer \in Said
BY DEF IsAsking, Reddit!Idle, Stages, Said

(* A reader moves and the budget does not. *)
LEMMA ReaderMoves ==
  ASSUME BudgetInv, NEW c \in Reddit!Readers, NEW y, IsAsking(y), asking' = [asking EXCEPT ![c] = y]
  PROVE  /\ DOMAIN asking' = Reddit!Readers /\ \A d \in Reddit!Readers : IsAsking(asking'[d])
         /\ asking'[c] = y /\ \A d \in Reddit!Readers : d # c => asking'[d] = asking[d]
BY DEF BudgetInv, BudgetTypes

LEMMA OneAndAnother == \A a, b : <<a>> \o <<b>> = <<a, b>> /\ Append(<<a>>, b) = <<a, b>>
<1> SUFFICES ASSUME NEW a, NEW b PROVE <<a>> \o <<b>> = <<a, b>> /\ Append(<<a>>, b) = <<a, b>>
  OBVIOUS
<1> DEFINE S == {a, b}
<1>1. <<a>> \in Seq(S) /\ <<b>> \in Seq(S) /\ <<a, b>> \in Seq(S)
  OBVIOUS
<1>2. <<a>> \o <<b>> \in Seq(S) /\ Len(<<a>> \o <<b>>) = 2 /\ (<<a>> \o <<b>>)[1] = a /\ (<<a>> \o <<b>>)[2] = b
  OBVIOUS
<1>3. Append(<<a>>, b) \in Seq(S) /\ Len(Append(<<a>>, b)) = 2 /\ Append(<<a>>, b)[1] = a /\ Append(<<a>>, b)[2] = b
  OBVIOUS
<1>4. Len(<<a, b>>) = 2 /\ <<a, b>>[1] = a /\ <<a, b>>[2] = b /\ \A i \in 1..2 : i = 1 \/ i = 2
  OBVIOUS
<1> HIDE DEF S
<1>5. <<a>> \o <<b>> = <<a, b>>
  BY <1>1, <1>2, <1>4, SeqEqual
<1>6. Append(<<a>>, b) = <<a, b>>
  BY <1>1, <1>3, <1>4, SeqEqual
<1> QED BY <1>5, <1>6

LEMMA WithoutTheFirst ==
  /\ \A a : Reddit!RemoveAt(<<a>>, 1) = <<>>
  /\ \A a, b : Reddit!RemoveAt(<<a, b>>, 1) = <<b>>
<1>1. ASSUME NEW a PROVE Reddit!RemoveAt(<<a>>, 1) = <<>>
  <2>1. SubSeq(<<a>>, 1, 0) = <<>> /\ SubSeq(<<a>>, 2, 1) = <<>> /\ Len(<<a>>) = 1
    BY SubSeqEmpty
  <2>2. <<>> \o <<>> = <<>>
    BY EmptySeq, ConcatEmptySeq
  <2> QED BY <2>1, <2>2 DEF Reddit!RemoveAt
<1>2. ASSUME NEW a, NEW b PROVE Reddit!RemoveAt(<<a, b>>, 1) = <<b>>
  <2> DEFINE S == {a, b}
  <2>1. SubSeq(<<a, b>>, 1, 0) = <<>> /\ Len(<<a, b>>) = 2 /\ <<b>> \in Seq(S) /\ Len(<<b>>) = 1 /\ <<b>>[1] = b
    BY SubSeqEmpty
  <2>2. SubSeq(<<a, b>>, 2, 2) \in Seq(S) /\ Len(SubSeq(<<a, b>>, 2, 2)) = 1 /\ SubSeq(<<a, b>>, 2, 2)[1] = b
    OBVIOUS
  <2> HIDE DEF S
  <2>3. SubSeq(<<a, b>>, 2, 2) = <<b>>
    <3>1. \A i \in 1..1 : SubSeq(<<a, b>>, 2, 2)[i] = <<b>>[i]
      BY <2>1, <2>2
    <3> QED BY <2>1, <2>2, <3>1, SeqEqual
  <2>4. <<>> \o <<b>> = <<b>>
    BY <2>1, ConcatEmptySeq
  <2>5. Reddit!RemoveAt(<<a, b>>, 1) = SubSeq(<<a, b>>, 1, 0) \o SubSeq(<<a, b>>, 2, 2)
    <3>1. 1 - 1 = 0 /\ 1 + 1 = 2
      OBVIOUS
    <3> QED BY <2>1, <3>1, Zenon DEF Reddit!RemoveAt
  <2> QED BY <2>1, <2>3, <2>4, <2>5
<1> QED BY <1>1, <1>2
(* The queue of two readers. *)
LEMMA QueuesAreSeqs == \A s \in Reddit!Queues : s \in Seq(Reddit!Readers)
<1>1. /\ <<>> \in Seq(Reddit!Readers) /\ <<"poll">> \in Seq(Reddit!Readers) /\ <<"other">> \in Seq(Reddit!Readers)
      /\ <<"poll", "other">> \in Seq(Reddit!Readers) /\ <<"other", "poll">> \in Seq(Reddit!Readers)
  BY DEF Reddit!Readers
<1> QED BY <1>1 DEF Reddit!Queues

LEMMA LanesJoin ==
  ASSUME NEW p \in Reddit!Queues, NEW q \in Reddit!Queues,
         \A i \in DOMAIN p, j \in DOMAIN q : p[i] # q[j]
  PROVE  /\ p \o q \in Reddit!Queues
         /\ \A c : (\E i \in DOMAIN (p \o q) : (p \o q)[i] = c) <=> (\E i \in DOMAIN p : p[i] = c) \/ (\E i \in DOMAIN q : q[i] = c)
         /\ p # <<>> => (p \o q)[1] = p[1]
<1>0. p \in Seq(Reddit!Readers) /\ q \in Seq(Reddit!Readers)
  BY QueuesAreSeqs
<1>1. CASE p = <<>>
  <2>1. p \o q = q
    BY <1>0, <1>1, ConcatEmptySeq
  <2> QED BY <1>1, <2>1
<1>2. CASE q = <<>>
  <2>1. p \o q = p
    BY <1>0, <1>2, ConcatEmptySeq
  <2> QED BY <1>2, <2>1
<1>3. CASE p = <<"poll">> /\ q = <<"other">>
  <2>1. p \o q = <<"poll", "other">>
    BY <1>3, OneAndAnother
  <2>2. \A c : (\E i \in DOMAIN <<"poll", "other">> : <<"poll", "other">>[i] = c) <=> c \in {"poll", "other"}
    OBVIOUS
  <2>3. \A c : (\E i \in DOMAIN <<"poll">> : <<"poll">>[i] = c) <=> c = "poll"
    OBVIOUS
  <2>4. \A c : (\E i \in DOMAIN <<"other">> : <<"other">>[i] = c) <=> c = "other"
    OBVIOUS
  <2>5. p[1] = "poll" /\ <<"poll", "other">>[1] = "poll" /\ p \o q \in Reddit!Queues
    BY <1>3, <2>1 DEF Reddit!Queues
  <2> HIDE DEF Reddit!Queues
  <2> QED BY <1>3, <2>1, <2>2, <2>3, <2>4, <2>5
<1>4. CASE p = <<"other">> /\ q = <<"poll">>
  <2>1. p \o q = <<"other", "poll">>
    BY <1>4, OneAndAnother
  <2>2. \A c : (\E i \in DOMAIN <<"other", "poll">> : <<"other", "poll">>[i] = c) <=> c \in {"other", "poll"}
    OBVIOUS
  <2>3. \A c : (\E i \in DOMAIN <<"other">> : <<"other">>[i] = c) <=> c = "other"
    OBVIOUS
  <2>4. \A c : (\E i \in DOMAIN <<"poll">> : <<"poll">>[i] = c) <=> c = "poll"
    OBVIOUS
  <2>5. p[1] = "other" /\ <<"other", "poll">>[1] = "other" /\ p \o q \in Reddit!Queues
    BY <1>4, <2>1 DEF Reddit!Queues
  <2> HIDE DEF Reddit!Queues
  <2> QED BY <1>4, <2>1, <2>2, <2>3, <2>4, <2>5
<1>5. p # <<>> => 1 \in DOMAIN p
  BY DEF Reddit!Queues
<1>6. q # <<>> => 1 \in DOMAIN q
  BY DEF Reddit!Queues
<1>7. CASE p \in {<<"poll", "other">>, <<"other", "poll">>} /\ q # <<>>
  <2>1. 1 \in DOMAIN p /\ 2 \in DOMAIN p /\ 1 \in DOMAIN q /\ p[1] # q[1] /\ p[2] # q[1]
    BY <1>6, <1>7
  <2> QED BY <1>7, <2>1 DEF Reddit!Queues
<1>8. CASE q \in {<<"poll", "other">>, <<"other", "poll">>} /\ p # <<>>
  <2>1. 1 \in DOMAIN q /\ 2 \in DOMAIN q /\ 1 \in DOMAIN p /\ p[1] # q[1] /\ p[1] # q[2]
    BY <1>5, <1>8
  <2> QED BY <1>8, <2>1 DEF Reddit!Queues
<1>9. CASE p = q /\ p # <<>>
  BY <1>5, <1>9
<1> QED BY <1>1, <1>2, <1>3, <1>4, <1>7, <1>8, <1>9 DEF Reddit!Queues

LEMMA FirstLeaves ==
  ASSUME NEW p \in Reddit!Queues, NEW i \in DOMAIN p, p[i] = p[1]
  PROVE  /\ Reddit!RemoveAt(p, i) \in Reddit!Queues
         /\ \A c : (\E j \in DOMAIN Reddit!RemoveAt(p, i) : Reddit!RemoveAt(p, i)[j] = c) <=> (\E j \in DOMAIN p : p[j] = c) /\ c # p[1]
<1>1. ASSUME NEW a \in Reddit!Readers, p = <<a>>
      PROVE  /\ i = 1 /\ Reddit!RemoveAt(p, i) = <<>>
             /\ \A c : (\E j \in DOMAIN p : p[j] = c) <=> c = a
  BY <1>1, WithoutTheFirst
<1>2. ASSUME NEW a \in Reddit!Readers, NEW b \in Reddit!Readers, a # b, p = <<a, b>>
      PROVE  /\ i = 1 /\ Reddit!RemoveAt(p, i) = <<b>> /\ p[1] = a
             /\ \A c : (\E j \in DOMAIN p : p[j] = c) <=> c \in {a, b}
             /\ \A c : (\E j \in DOMAIN <<b>> : <<b>>[j] = c) <=> c = b
  BY <1>2, WithoutTheFirst
<1>3. <<>> \in Reddit!Queues /\ \A b \in Reddit!Readers : <<b>> \in Reddit!Queues
  BY DEF Reddit!Queues, Reddit!Readers
<1>4. \/ p = <<>>
      \/ \E a \in Reddit!Readers : p = <<a>>
      \/ \E a, b \in Reddit!Readers : a # b /\ p = <<a, b>>
  BY DEF Reddit!Queues, Reddit!Readers
<1>5. ASSUME NEW a \in Reddit!Readers, p = <<a>>
      PROVE  /\ Reddit!RemoveAt(p, i) \in Reddit!Queues
             /\ \A c : (\E j \in DOMAIN Reddit!RemoveAt(p, i) : Reddit!RemoveAt(p, i)[j] = c) <=> (\E j \in DOMAIN p : p[j] = c) /\ c # p[1]
  BY <1>1, <1>3, <1>5
<1>6. ASSUME NEW a \in Reddit!Readers, NEW b \in Reddit!Readers, a # b, p = <<a, b>>
      PROVE  /\ Reddit!RemoveAt(p, i) \in Reddit!Queues
             /\ \A c : (\E j \in DOMAIN Reddit!RemoveAt(p, i) : Reddit!RemoveAt(p, i)[j] = c) <=> (\E j \in DOMAIN p : p[j] = c) /\ c # p[1]
  <2>1. /\ i = 1 /\ Reddit!RemoveAt(p, i) = <<b>> /\ p[1] = a
        /\ \A c : (\E j \in DOMAIN p : p[j] = c) <=> c \in {a, b}
        /\ \A c : (\E j \in DOMAIN <<b>> : <<b>>[j] = c) <=> c = b
    BY <1>2, <1>6
  <2>2. \A c : (\E j \in DOMAIN Reddit!RemoveAt(p, i) : Reddit!RemoveAt(p, i)[j] = c) <=> c = b
    BY <2>1, Zenon
  <2> QED BY <1>3, <1>6, <2>1, <2>2, Zenon
<1>7. p # <<>>
  OBVIOUS
<1> QED BY <1>4, <1>5, <1>6, <1>7

(* What the budget's invariant says of the kinds of things. *)
LEMMA BudgetNumbers ==
  ASSUME BudgetInv
  PROVE  /\ left \in Nat /\ over \in Nat /\ blind \in Nat /\ window \in Nat \ {0} /\ over <= blind
         /\ Slack \in Nat /\ left <= Slack /\ UnderWay \in {0, 1}
         /\ rate.window \in Nat /\ rate.left \in Int /\ (rate.window # 0 => rate.left \in Nat)
         /\ minted.window \in Nat /\ minted.left \in Int
         /\ \A c \in Reddit!Readers : asking[c].answer.window \in Nat /\ asking[c].answer.left \in Int
<1>1. left \in Nat /\ over \in Nat /\ blind \in Nat /\ window \in Nat \ {0} /\ over <= blind
  BY DEF BudgetInv, BudgetTypes
<1>2. Slack \in Nat /\ left <= Slack /\ UnderWay \in {0, 1}
  BY <1>1 DEF Slack, UnderWay
<1>3. rate \in Said /\ minted \in Said /\ \A c \in Reddit!Readers : asking[c].answer \in Said
  BY DEF BudgetInv, BudgetTypes, IsAsking
<1> QED BY <1>1, <1>2, <1>3, SaidFields

LEMMA WindowRollsKeeps == ASSUME Reddit!RedditAssumption, BudgetInv, Reddit!WindowRolls PROVE BudgetInv'
<1>0. /\ window \in Nat /\ rate.window \in Nat /\ rate.window <= window /\ Budget \in Nat
      /\ \A c \in Reddit!Readers : asking[c].answer.window \in Nat /\ (asking[c].pc = "sent" => asking[c].answer.window <= window)
  BY BudgetNumbers DEF BudgetInv, RateIsTrue, AnswersAreTrue, Reddit!RedditAssumption
<1>1. /\ window' = window + 1 /\ left' = Budget /\ over' = 0 /\ blind' = 0
      /\ asking' = asking /\ token' = token /\ minted' = minted /\ lane' = lane /\ rate' = rate
  BY DEF Reddit!WindowRolls, Reddit!client
<1>2. BudgetTypes'
  BY <1>0, <1>1 DEF BudgetInv, BudgetTypes
<1>3. LaneIsOrderly'
  BY <1>1 DEF BudgetInv, LaneIsOrderly, InLane
<1>4. Slack' = Budget /\ UnderWay' \in {0, 1} /\ window' > window
  BY <1>0, <1>1 DEF Slack, UnderWay
<1>5. RateIsTrue'
  <2>1. rate'.window < window'
    BY <1>0, <1>1
  <2>2. Budget <= Slack' + UnderWay' + 1
    BY <1>0, <1>4
  <2> QED BY <2>1, <2>2, <1>0, <1>1 DEF RateIsTrue
<1>6. AnswersAreTrue'
  BY <1>0, <1>1, <1>4 DEF AnswersAreTrue
<1>7. MintIsTrue'
  <2> SUFFICES ASSUME token = "minting" PROVE MintIsTrue'
    BY <1>1 DEF MintIsTrue
  <2>1. minted.window <= window /\ minted.window \in Nat \ {0} /\ \E c \in Reddit!Readers : asking[c].pc = "tokenless"
    BY DEF BudgetInv, MintIsTrue
  <2>2. minted.window \in Nat /\ minted.window < window'
    BY <2>1, <1>0, <1>1, BudgetNumbers
  <2>3. minted'.window < window'
    BY <2>2, <1>1
  <2>4. Slack' \in Nat /\ Budget <= Slack' + 1 /\ Budget <= Slack' + 0
    BY <1>0, <1>4
  <2>5. Budget <= Slack' + (IF SomeQueued' THEN 0 ELSE 1)
    BY <2>4
  <2>6. minted'.window # window' /\ minted'.window <= window' /\ minted'.window \in Nat \ {0}
    BY <2>1, <2>2, <1>0, <1>1
  <2> QED BY <2>1, <2>3, <2>5, <2>6, <1>1 DEF MintIsTrue
<1> QED BY <1>2, <1>3, <1>5, <1>6, <1>7 DEF BudgetInv

(* A reader that waits for nothing is done, or has not begun. *)
Aside(x) == x.pc \in {"idle", "answered", "failed"}

LEMMA AsideKeeps ==
  ASSUME BudgetInv, NEW c \in Reddit!Readers, NEW y, IsAsking(y), Aside(asking[c]), Aside(y),
         asking' = [asking EXCEPT ![c] = y], token' = token, minted' = minted, lane' = lane, rate' = rate,
         left' = left, window' = window, over' = over, blind' = blind
  PROVE  BudgetInv'
<1>1. /\ DOMAIN asking' = Reddit!Readers /\ \A d \in Reddit!Readers : IsAsking(asking'[d])
      /\ asking'[c] = y /\ \A d \in Reddit!Readers : d # c => asking'[d] = asking[d]
  BY ReaderMoves
<1>2. \A d \in Reddit!Readers :
        /\ asking'[d].pc \in {"tokenless", "queued", "sent"} => asking'[d] = asking[d]
        /\ asking[d].pc \in {"tokenless", "queued", "sent"} => asking'[d] = asking[d]
  BY <1>1 DEF Aside
<1>3. BudgetTypes'
  BY <1>1 DEF BudgetInv, BudgetTypes
<1>4. LaneIsOrderly'
  BY <1>2 DEF BudgetInv, LaneIsOrderly, InLane
<1>5. UnderWay' = UnderWay /\ Slack' = Slack /\ (SomeQueued' <=> SomeQueued)
  <2>1. (\E d \in Reddit!Readers : Sent(d)') <=> \E d \in Reddit!Readers : Sent(d)
    BY <1>2 DEF Sent
  <2>2. SomeQueued' <=> SomeQueued
    BY <1>2 DEF SomeQueued
  <2>3. UnderWay' = UnderWay
    BY <2>1 DEF UnderWay
  <2>4. Slack' = Slack
    BY DEF Slack
  <2> QED BY <2>2, <2>3, <2>4
<1>6. RateIsTrue'
  BY <1>5 DEF BudgetInv, RateIsTrue
<1>7. AnswersAreTrue'
  BY <1>2, <1>5 DEF BudgetInv, AnswersAreTrue
<1>8. MintIsTrue'
  BY <1>2, <1>5 DEF BudgetInv, MintIsTrue
<1> QED BY <1>3, <1>4, <1>6, <1>7, <1>8 DEF BudgetInv

(* Who asks without a token. *)
LEMMA GetKeeps == ASSUME BudgetInv, NEW c \in Reddit!Readers, Reddit!Get(c) PROVE BudgetInv'
<1>0. /\ left \in Nat /\ over \in Nat /\ blind \in Nat /\ window \in Nat \ {0} /\ over <= blind /\ Slack \in Nat
      /\ left <= Slack /\ asking[c].pc = "idle" /\ IsAsking(asking[c]) /\ UnderWay \in {0, 1}
  BY BudgetNumbers DEF BudgetInv, BudgetTypes, Reddit!Get
<1>1. window' = window /\ rate' = rate
  BY DEF Reddit!Get, Reddit!Spend, Reddit!reddit, Reddit!Join
<1>2. CASE token = "held" /\ Reddit!Join(c) /\ UNCHANGED <<token, minted, Reddit!reddit>>
  <2> DEFINE y == [asking[c] EXCEPT !.pc = "queued"]
  <2>1. IsAsking(y) /\ y.pc = "queued"
    BY <1>0, NextStage DEF Stages
  <2>2. /\ asking' = [asking EXCEPT ![c] = y] /\ lane' = Append(lane, c) /\ token' = "held" /\ minted' = minted
        /\ left' = left /\ over' = over /\ blind' = blind
    BY <1>2 DEF Reddit!Join, Reddit!reddit
  <2> HIDE DEF y
  <2>3. /\ DOMAIN asking' = Reddit!Readers /\ \A d \in Reddit!Readers : IsAsking(asking'[d])
        /\ asking'[c] = y /\ \A d \in Reddit!Readers : d # c => asking'[d] = asking[d]
    BY <2>1, <2>2, ReaderMoves
  <2>4. BudgetTypes'
    BY <1>1, <2>2, <2>3 DEF BudgetInv, BudgetTypes
  <2>5. LaneIsOrderly'
    <3>1. lane \in Reddit!Queues /\ ~InLane(c)
      BY <1>0 DEF BudgetInv, LaneIsOrderly
    <3>2. <<c>> \in Reddit!Queues /\ \A i \in DOMAIN <<c>> : <<c>>[i] = c
      BY DEF Reddit!Queues, Reddit!Readers
    <3>3. lane' = lane \o <<c>>
      <4>1. lane \in Seq(Reddit!Readers)
        BY <3>1, QueuesAreSeqs
      <4> QED BY <2>2, <4>1, AppendIsConcat
    <3>4. /\ lane' \in Reddit!Queues /\ (lane # <<>> => lane'[1] = lane[1])
          /\ \A d : (\E i \in DOMAIN lane' : lane'[i] = d) <=> (\E i \in DOMAIN lane : lane[i] = d) \/ d = c
      <4>1. \A i \in DOMAIN lane, j \in DOMAIN <<c>> : lane[i] # <<c>>[j]
        BY <3>1, <3>2 DEF InLane
      <4>2. \A d : (\E i \in DOMAIN <<c>> : <<c>>[i] = d) <=> d = c
        OBVIOUS
      <4>3. /\ lane \o <<c>> \in Reddit!Queues /\ (lane # <<>> => (lane \o <<c>>)[1] = lane[1])
            /\ \A d : (\E i \in DOMAIN (lane \o <<c>>) : (lane \o <<c>>)[i] = d)
                      <=> (\E i \in DOMAIN lane : lane[i] = d) \/ (\E i \in DOMAIN <<c>> : <<c>>[i] = d)
        BY <3>1, <3>2, <4>1, LanesJoin
      <4> HIDE DEF Reddit!Queues
      <4> QED BY <3>3, <4>2, <4>3
    <3>5. \A d \in Reddit!Readers : asking'[d].pc = "sent" => asking[d].pc = "sent" /\ lane # <<>>
      BY <2>1, <2>3 DEF BudgetInv, LaneIsOrderly, InLane
    <3> QED BY <2>1, <2>3, <3>4, <3>5 DEF BudgetInv, LaneIsOrderly, InLane
  <2>6. UnderWay' = UnderWay /\ Slack' = Slack
    <3>1. (\E d \in Reddit!Readers : Sent(d)') <=> \E d \in Reddit!Readers : Sent(d)
      BY <1>0, <1>1, <2>1, <2>3 DEF Sent
    <3> QED BY <3>1, <1>1, <2>2 DEF UnderWay, Slack
  <2>7. RateIsTrue'
    BY <1>1, <2>6 DEF BudgetInv, RateIsTrue
  <2>8. AnswersAreTrue'
    BY <1>1, <2>1, <2>3, <2>6 DEF BudgetInv, AnswersAreTrue
  <2>9. MintIsTrue'
    BY <2>2 DEF MintIsTrue
  <2> QED BY <2>4, <2>5, <2>7, <2>8, <2>9 DEF BudgetInv
<1>3. CASE token # "held" \/ ~Reddit!Join(c) \/ ~UNCHANGED <<token, minted, Reddit!reddit>>
  <2> DEFINE y == [asking[c] EXCEPT !.pc = "tokenless"]
  <2>1. IsAsking(y) /\ y.pc = "tokenless"
    BY <1>0, NextStage DEF Stages
  <2>2. asking' = [asking EXCEPT ![c] = y] /\ lane' = lane /\ token' = "minting"
    BY <1>3 DEF Reddit!Get
  <2> HIDE DEF y
  <2>3. /\ DOMAIN asking' = Reddit!Readers /\ \A d \in Reddit!Readers : IsAsking(asking'[d])
        /\ asking'[c] = y /\ \A d \in Reddit!Readers : d # c => asking'[d] = asking[d]
    BY <2>1, <2>2, ReaderMoves
  <2>4. \A d \in Reddit!Readers :
          /\ asking'[d].pc \in {"queued", "sent"} => asking'[d] = asking[d]
          /\ asking[d].pc \in {"tokenless", "queued", "sent"} => asking'[d] = asking[d]
    BY <1>0, <2>1, <2>3
  <2>5. LaneIsOrderly'
    BY <2>2, <2>4 DEF BudgetInv, LaneIsOrderly, InLane
  <2>6. UnderWay' = UnderWay /\ (SomeQueued' <=> SomeQueued)
    <3>1. (\E d \in Reddit!Readers : Sent(d)') <=> \E d \in Reddit!Readers : Sent(d)
      BY <1>1, <2>4 DEF Sent
    <3>2. SomeQueued' <=> SomeQueued
      BY <2>4 DEF SomeQueued
    <3> QED BY <3>1, <3>2 DEF UnderWay
  <2>7. CASE token = "minting" /\ UNCHANGED <<minted, Reddit!reddit>>
    <3>1. minted' = minted /\ left' = left /\ over' = over /\ blind' = blind /\ Slack' = Slack
      BY <2>7, <1>1 DEF Reddit!reddit, Slack
    <3>2. BudgetTypes'
      BY <1>1, <2>2, <2>3, <3>1 DEF BudgetInv, BudgetTypes
    <3>3. RateIsTrue'
      BY <1>1, <2>6, <3>1 DEF BudgetInv, RateIsTrue
    <3>4. AnswersAreTrue'
      BY <1>1, <2>4, <3>1 DEF BudgetInv, AnswersAreTrue
    <3>5. MintIsTrue'
      BY <1>1, <2>1, <2>3, <2>6, <2>7, <3>1 DEF BudgetInv, MintIsTrue
    <3> QED BY <2>5, <3>2, <3>3, <3>4, <3>5 DEF BudgetInv
  <2>8. CASE token = "none" /\ blind' = blind + 1 /\ Reddit!Spend /\ minted' = Reddit!Answered
    <3>1. /\ left' = (IF left > 0 THEN left - 1 ELSE 0) /\ over' = (IF left > 0 THEN over ELSE over + 1)
          /\ minted' = [left |-> left', window |-> window, ok |-> left > 0]
      BY <2>8 DEF Reddit!Spend, Reddit!Answered
    <3>2. left' \in Nat /\ over' \in Nat /\ blind' \in Nat /\ over' <= blind' /\ Slack' = Slack
      BY <1>0, <2>8, <3>1 DEF Slack
    <3>3. minted'.left = left' /\ minted'.window = window /\ minted' \in Said
      BY <1>0, <3>1, <3>2 DEF Said
    <3>4. BudgetTypes'
      BY <1>0, <1>1, <2>2, <2>3, <3>2, <3>3 DEF BudgetInv, BudgetTypes
    <3>5. RateIsTrue'
      BY <1>1, <2>6, <3>2 DEF BudgetInv, RateIsTrue
    <3>6. AnswersAreTrue'
      BY <1>1, <2>4, <3>2 DEF BudgetInv, AnswersAreTrue
    <3>7. left' <= Slack /\ (left' + 1 <= Slack \/ Slack = 0)
      BY <1>0, <3>1
    <3>8. MintIsTrue'
      <4>1. minted'.window = window' /\ minted'.window \in Nat \ {0} /\ ~(minted'.window < window') /\ minted'.window <= window'
        BY <1>0, <1>1, <3>3
      <4>2. minted'.left <= Slack' /\ (minted'.left + 1 <= Slack' \/ Slack' = 0)
        BY <3>2, <3>3, <3>7
      <4>3. \E d \in Reddit!Readers : asking'[d].pc = "tokenless"
        BY <2>1, <2>3
      <4> QED BY <4>1, <4>2, <4>3, Zenon DEF MintIsTrue
    <3> QED BY <2>5, <3>4, <3>5, <3>6, <3>8 DEF BudgetInv
  <2> QED BY <1>3, <2>7, <2>8 DEF Reddit!Get
<1> QED BY <1>2, <1>3

(* The mint is answered: whoever waited for it is queued, or fails. *)
LEMMA MintReturnsKeeps == ASSUME Reddit!RedditAssumption, BudgetInv, Reddit!MintReturns PROVE BudgetInv'
<1>0. /\ left \in Nat /\ over \in Nat /\ blind \in Nat /\ window \in Nat \ {0} /\ over <= blind /\ Slack \in Nat
      /\ minted.window \in Nat /\ minted.left \in Int /\ UnderWay \in {0, 1} /\ minted \in Said /\ rate \in Said
      /\ \A c \in Reddit!Readers : IsAsking(asking[c])
  BY BudgetNumbers DEF BudgetInv, BudgetTypes
<1>1. /\ token = "minting" /\ rate' \in {minted, rate} /\ minted' = Reddit!NoAnswer
      /\ left' = left /\ window' = window /\ over' = over /\ blind' = blind
  BY DEF Reddit!MintReturns, Reddit!reddit
<1> DEFINE After(p) == asking' = [c \in Reddit!Readers |-> IF asking[c].pc = "tokenless" THEN [Reddit!Idle EXCEPT !.pc = p] ELSE asking[c]]
<1>2. ASSUME NEW p \in {"queued", "failed"}, After(p)
      PROVE  /\ DOMAIN asking' = Reddit!Readers
             /\ \A c \in Reddit!Readers :
                  /\ IsAsking(asking'[c])
                  /\ IF asking[c].pc = "tokenless" THEN asking'[c].pc = p ELSE asking'[c] = asking[c]
             /\ token' # "minting" /\ LaneIsOrderly' => BudgetInv'
  <2>1. IsAsking([Reddit!Idle EXCEPT !.pc = p]) /\ [Reddit!Idle EXCEPT !.pc = p].pc = p
    BY IdleIsAsking, NextStage DEF Stages
  <2>2. /\ DOMAIN asking' = Reddit!Readers
        /\ \A c \in Reddit!Readers :
             /\ IsAsking(asking'[c])
             /\ IF asking[c].pc = "tokenless" THEN asking'[c].pc = p ELSE asking'[c] = asking[c]
    BY <1>0, <1>2, <2>1
  <2>3. \A c \in Reddit!Readers : asking'[c].pc = "sent" \/ asking[c].pc = "sent" => asking'[c] = asking[c]
    BY <2>2
  <2>4. UnderWay' = UnderWay /\ Slack' = Slack
    <3>1. (\E d \in Reddit!Readers : Sent(d)') <=> \E d \in Reddit!Readers : Sent(d)
      BY <1>1, <2>3 DEF Sent
    <3> QED BY <3>1, <1>1 DEF UnderWay, Slack
  <2>5. ASSUME token' # "minting", LaneIsOrderly', token' \in {"none", "held"} PROVE BudgetInv'
    <3>1. BudgetTypes'
      BY <1>0, <1>1, <2>2, <2>5, IdleIsAsking DEF BudgetTypes
    <3>2. RateIsTrue'
      <4>0. CASE rate' = rate
        BY <4>0, <1>1, <2>4 DEF BudgetInv, RateIsTrue
      <4>1. /\ minted.window <= window
            /\ minted.window < window => Budget <= Slack + (IF SomeQueued THEN 0 ELSE 1)
            /\ minted.window = window => minted.left <= Slack
        BY <1>1 DEF BudgetInv, MintIsTrue
      <4>2. CASE rate' = minted /\ minted.window = window
        <5>1. rate'.left <= Slack' + UnderWay'
          BY <1>0, <1>1, <2>4, <4>1, <4>2
        <5> QED BY <1>0, <1>1, <4>1, <4>2, <5>1 DEF RateIsTrue
      <4> Budget \in Nat
        BY DEF Reddit!RedditAssumption
      <4>3. CASE rate' = minted /\ minted.window # window
        <5>1. Budget <= Slack' + UnderWay' + 1
          BY <1>0, <2>4, <4>1, <4>3
        <5> QED BY <1>0, <1>1, <4>1, <4>3, <5>1 DEF RateIsTrue
      <4> QED BY <1>1, <4>0, <4>2, <4>3
    <3>3. AnswersAreTrue'
      BY <1>1, <2>3, <2>4 DEF BudgetInv, AnswersAreTrue
    <3>4. MintIsTrue'
      BY <2>5 DEF MintIsTrue
    <3> QED BY <2>5, <3>1, <3>2, <3>3, <3>4 DEF BudgetInv
  <2>6. token' \in {"none", "held"}
    BY DEF Reddit!MintReturns
  <2> QED BY <2>2, <2>5, <2>6
<1>3. ASSUME token' = "held", After("queued"), NEW waiting \in Reddit!Queues,
             {waiting[i] : i \in DOMAIN waiting} = {c \in Reddit!Readers : asking[c].pc = "tokenless"},
             lane' = lane \o waiting
      PROVE  BudgetInv'
  <2>1. \A c : (\E i \in DOMAIN waiting : waiting[i] = c) <=> c \in Reddit!Readers /\ asking[c].pc = "tokenless"
    BY <1>3
  <2>2. lane \in Reddit!Queues /\ \A c \in Reddit!Readers : InLane(c) <=> asking[c].pc \in {"queued", "sent"}
    BY DEF BudgetInv, LaneIsOrderly
  <2>3. \A i \in DOMAIN lane, j \in DOMAIN waiting : lane[i] # waiting[j]
    <3> SUFFICES ASSUME NEW i \in DOMAIN lane, NEW j \in DOMAIN waiting, lane[i] = waiting[j] PROVE FALSE
      OBVIOUS
    <3>1. waiting[j] \in Reddit!Readers /\ asking[waiting[j]].pc = "tokenless"
      BY <2>1
    <3>2. asking[waiting[j]].pc \in {"queued", "sent"}
      BY <2>2, <3>1 DEF InLane
    <3> QED BY <3>1, <3>2
  <2>4. /\ lane \o waiting \in Reddit!Queues /\ (lane # <<>> => (lane \o waiting)[1] = lane[1])
        /\ \A c : (\E i \in DOMAIN (lane \o waiting) : (lane \o waiting)[i] = c)
                  <=> (\E i \in DOMAIN lane : lane[i] = c) \/ (\E i \in DOMAIN waiting : waiting[i] = c)
    BY <1>3, <2>2, <2>3, LanesJoin
  <2>5. \A c \in Reddit!Readers : IF asking[c].pc = "tokenless" THEN asking'[c].pc = "queued" ELSE asking'[c] = asking[c]
    BY <1>2, <1>3
  <2>6. \A c \in Reddit!Readers : InLane(c)' <=> asking'[c].pc \in {"queued", "sent"}
    <3> SUFFICES ASSUME NEW c \in Reddit!Readers PROVE InLane(c)' <=> asking'[c].pc \in {"queued", "sent"}
      OBVIOUS
    <3>1. InLane(c)' <=> InLane(c) \/ asking[c].pc = "tokenless"
      BY <1>3, <2>1, <2>4, Zenon DEF InLane
    <3>2. InLane(c) <=> asking[c].pc \in {"queued", "sent"}
      BY <2>2
    <3>3. asking[c].pc \in {"queued", "sent", "tokenless"} <=> asking'[c].pc \in {"queued", "sent"}
      BY <2>5
    <3> QED BY <3>1, <3>2, <3>3
  <2>7. ASSUME NEW c \in Reddit!Readers, asking'[c].pc = "sent" PROVE lane'[1] = c
    <3>1. asking[c].pc = "sent"
      BY <2>5, <2>7
    <3>2. lane[1] = c /\ InLane(c)
      BY <2>2, <3>1 DEF BudgetInv, LaneIsOrderly
    <3>3. lane # <<>>
      BY <3>2 DEF InLane
    <3> QED BY <1>3, <2>4, <3>2, <3>3
  <2>8. lane' \in Reddit!Queues
    BY <1>3, <2>4
  <2>9. LaneIsOrderly'
    BY <2>6, <2>7, <2>8 DEF LaneIsOrderly
  <2> QED BY <1>2, <1>3, <2>9
<1>4. ASSUME token' = "none", After("failed"), lane' = lane PROVE BudgetInv'
  <2>1. \A c \in Reddit!Readers : IF asking[c].pc = "tokenless" THEN asking'[c].pc = "failed" ELSE asking'[c] = asking[c]
    BY <1>2, <1>4
  <2>2. LaneIsOrderly'
    BY <1>4, <2>1 DEF BudgetInv, LaneIsOrderly, InLane
  <2> QED BY <1>2, <1>4, <2>2
<1> QED BY <1>3, <1>4 DEF Reddit!MintReturns

(* A paced request finds a slack, for nothing else is under way. *)
LEMMA SendKeeps ==
  ASSUME Reddit!RedditAssumption, BudgetInv, NEW c \in Reddit!Readers, Reddit!Send(c)
  PROVE  BudgetInv'
<1>0. /\ left \in Nat /\ over \in Nat /\ blind \in Nat /\ window \in Nat \ {0} /\ over <= blind /\ Slack \in Nat
      /\ left <= Slack /\ Budget \in Nat /\ Budget >= 2
      /\ rate.window \in Nat /\ rate.left \in Int /\ (rate.window # 0 => rate.left \in Nat)
      /\ minted.window \in Nat /\ minted.left \in Int
  BY BudgetNumbers DEF Reddit!RedditAssumption
<1>1. /\ asking[c].pc = "queued" /\ lane # <<>> /\ lane[1] = c /\ Reddit!Paced
      /\ lane' = lane /\ token' = token /\ minted' = minted /\ rate' = rate /\ blind' = blind /\ window' = window
      /\ left' = (IF left > 0 THEN left - 1 ELSE 0) /\ over' = (IF left > 0 THEN over ELSE over + 1)
  BY DEF Reddit!Send, Reddit!Spend
<1>2. \A d \in Reddit!Readers : asking[d].pc # "sent"
  BY <1>1 DEF BudgetInv, LaneIsOrderly
<1>3. UnderWay = 0
  BY <1>2 DEF UnderWay, Sent
<1>4. Slack >= 1
  <2>1. CASE rate.window = window
    <3>1. rate.left <= Slack /\ rate.left # 0 /\ rate.left \in Nat
      BY <1>0, <1>1, <1>3, <2>1 DEF BudgetInv, RateIsTrue, Reddit!Paced
    <3> QED BY <1>0, <3>1
  <2>2. CASE rate.window # window
    <3>1. Budget <= Slack + 1
      BY <1>0, <1>3, <2>2 DEF BudgetInv, RateIsTrue
    <3> QED BY <1>0, <3>1
  <2> QED BY <2>1, <2>2
<1>5. left' \in Nat /\ over' \in Nat /\ over' <= blind' /\ Slack' = Slack - 1 /\ left' <= Slack'
  BY <1>0, <1>1, <1>4 DEF Slack
<1>6. PICK page : asking' = [asking EXCEPT ![c] = [pc |-> "sent", answer |-> Reddit!Answered, page |-> page]]
  BY DEF Reddit!Send
<1> DEFINE y == [pc |-> "sent", answer |-> Reddit!Answered, page |-> page]
<1>7. y.pc = "sent" /\ y.answer = [left |-> left', window |-> window, ok |-> left > 0]
  BY DEF Reddit!Answered
<1>8. IsAsking(y) /\ y.answer.left = left' /\ y.answer.window = window
  <2>1. y.answer \in Said /\ y.answer.left = left' /\ y.answer.window = window
    <3> HIDE DEF y
    <3> QED BY <1>0, <1>5, <1>7 DEF Said
  <2>2. y = [pc |-> y.pc, answer |-> y.answer, page |-> y.page]
    OBVIOUS
  <2> HIDE DEF y
  <2> QED BY <1>7, <2>1, <2>2 DEF IsAsking, Stages
<1>9. asking' = [asking EXCEPT ![c] = y]
  BY <1>6
<1> HIDE DEF y
<1>10. /\ DOMAIN asking' = Reddit!Readers /\ \A d \in Reddit!Readers : IsAsking(asking'[d])
       /\ asking'[c] = y /\ \A d \in Reddit!Readers : d # c => asking'[d] = asking[d]
  BY <1>8, <1>9, ReaderMoves
<1>11. BudgetTypes'
  BY <1>1, <1>5, <1>10 DEF BudgetInv, BudgetTypes
<1>12. LaneIsOrderly'
  <2>1. \A d \in Reddit!Readers : asking'[d].pc \in {"queued", "sent"} <=> asking[d].pc \in {"queued", "sent"}
    BY <1>1, <1>7, <1>10
  <2>2. \A d \in Reddit!Readers : asking'[d].pc = "sent" => d = c
    BY <1>2, <1>10
  <2> QED BY <1>1, <2>1, <2>2 DEF BudgetInv, LaneIsOrderly, InLane
<1>13. UnderWay' = 1
  <2>1. Sent(c)'
    BY <1>1, <1>7, <1>8, <1>10 DEF Sent
  <2> QED BY <2>1 DEF UnderWay
<1>14. RateIsTrue'
  <2>1. Slack' + UnderWay' = Slack /\ Slack' + UnderWay' + 1 = Slack + 1
    BY <1>0, <1>5, <1>13
  <2>2. /\ rate.window <= window
        /\ rate.window = window => rate.left <= Slack
        /\ rate.window < window => Budget <= Slack + 1
    BY <1>0, <1>3 DEF BudgetInv, RateIsTrue
  <2> QED BY <1>1, <2>1, <2>2 DEF RateIsTrue
<1>15. AnswersAreTrue'
  <2> SUFFICES ASSUME NEW d \in Reddit!Readers, asking'[d].pc = "sent"
               PROVE  /\ asking'[d].answer.window <= window'
                      /\ asking'[d].answer.window = window' => asking'[d].answer.left <= Slack'
                      /\ asking'[d].answer.window < window' => Budget <= Slack'
    BY DEF AnswersAreTrue
  <2>1. asking'[d] = y
    BY <1>2, <1>10
  <2> QED BY <1>0, <1>1, <1>5, <1>8, <2>1
<1>16. MintIsTrue'
  <2> SUFFICES ASSUME token = "minting" PROVE MintIsTrue'
    BY <1>1 DEF MintIsTrue
  <2>1. /\ minted.window <= window /\ minted.window \in Nat \ {0}
        /\ minted.window < window => Budget <= Slack + (IF SomeQueued THEN 0 ELSE 1)
        /\ minted.window = window => minted.left <= Slack /\ (SomeQueued => minted.left + 1 <= Slack \/ Slack = 0)
    BY DEF BudgetInv, MintIsTrue
  <2>2. PICK d \in Reddit!Readers : asking[d].pc = "tokenless"
    BY DEF BudgetInv, MintIsTrue
  <2>3. SomeQueued /\ d # c /\ asking'[d].pc = "tokenless"
    BY <1>1, <1>10, <2>2 DEF SomeQueued
  <2>4. \A e \in Reddit!Readers : e = c \/ e = d
    BY <2>3 DEF Reddit!Readers
  <2>5. ~SomeQueued'
    BY <1>7, <1>10, <2>3, <2>4 DEF SomeQueued
  <2>6. minted.window < window => Budget <= Slack' + 1
    BY <1>0, <1>5, <2>1, <2>3
  <2>7. minted.window = window => minted.left <= Slack'
    BY <1>0, <1>4, <1>5, <2>1, <2>3
  <2>8. minted.window < window => Budget <= Slack' + (IF SomeQueued' THEN 0 ELSE 1)
    BY <2>5, <2>6
  <2> QED BY <1>1, <2>1, <2>3, <2>5, <2>7, <2>8 DEF MintIsTrue
<1> QED BY <1>11, <1>12, <1>14, <1>15, <1>16 DEF BudgetInv

(* The answer is read, or lost; and the next may go. *)
LEMMA AnswerKeeps ==
  ASSUME Reddit!RedditAssumption, BudgetInv, NEW c \in Reddit!Readers, Reddit!Answer(c)
  PROVE  BudgetInv'
<1>0. /\ left \in Nat /\ over \in Nat /\ blind \in Nat /\ window \in Nat \ {0} /\ over <= blind /\ Slack \in Nat
      /\ left <= Slack /\ Budget \in Nat /\ UnderWay \in {0, 1}
      /\ rate.window \in Nat /\ rate.left \in Int /\ minted.window \in Nat /\ minted.left \in Int
      /\ asking[c].answer.window \in Nat /\ asking[c].answer.left \in Int
  BY BudgetNumbers DEF Reddit!RedditAssumption
<1>1. /\ asking[c].pc = "sent" /\ token' = token /\ minted' = minted /\ left' = left /\ window' = window /\ over' = over
      /\ asking[c].answer \in Said
  BY DEF Reddit!Answer, BudgetInv, BudgetTypes, IsAsking
<1>2. PICK y : /\ IsAsking(y) /\ y.pc \in {"answered", "failed"} /\ asking' = [asking EXCEPT ![c] = y]
  <2>1. CASE asking' = [asking EXCEPT ![c].pc = "answered"]
    <3>1. asking' = [asking EXCEPT ![c] = [asking[c] EXCEPT !.pc = "answered"]] /\ IsAsking(asking[c])
      BY <2>1 DEF BudgetInv, BudgetTypes
    <3> QED BY <3>1, NextStage DEF Stages
  <2>2. CASE asking' = [asking EXCEPT ![c] = [Reddit!Idle EXCEPT !.pc = "failed"]]
    BY <2>2, IdleIsAsking, NextStage DEF Stages
  <2> QED BY <2>1, <2>2 DEF Reddit!Answer
<1>3. /\ DOMAIN asking' = Reddit!Readers /\ \A d \in Reddit!Readers : IsAsking(asking'[d])
      /\ asking'[c] = y /\ \A d \in Reddit!Readers : d # c => asking'[d] = asking[d]
  BY <1>2, ReaderMoves
<1>4. \A d \in Reddit!Readers : d # c => asking[d].pc # "sent"
  BY <1>1 DEF BudgetInv, LaneIsOrderly
<1>5. UnderWay' = 0 /\ \A d \in Reddit!Readers : asking'[d].pc # "sent"
  <2>1. \A d \in Reddit!Readers : asking'[d].pc # "sent"
    BY <1>2, <1>3, <1>4
  <2> QED BY <2>1 DEF UnderWay, Sent
<1>6. SomeQueued' <=> SomeQueued
  BY <1>1, <1>2, <1>3 DEF SomeQueued
<1>7. LaneIsOrderly'
  <2>1. PICK i \in DOMAIN lane : lane[i] = c /\ lane' = Reddit!RemoveAt(lane, i)
    BY DEF Reddit!Answer
  <2>2. lane \in Reddit!Queues /\ lane[1] = c
    BY <1>1 DEF BudgetInv, LaneIsOrderly
  <2>3. /\ lane' \in Reddit!Queues
        /\ \A d : (\E j \in DOMAIN lane' : lane'[j] = d) <=> (\E j \in DOMAIN lane : lane[j] = d) /\ d # c
    <3>1. lane[i] = lane[1]
      BY <2>1, <2>2
    <3>2. /\ Reddit!RemoveAt(lane, i) \in Reddit!Queues
          /\ \A d : (\E j \in DOMAIN Reddit!RemoveAt(lane, i) : Reddit!RemoveAt(lane, i)[j] = d)
                    <=> (\E j \in DOMAIN lane : lane[j] = d) /\ d # lane[1]
      BY <2>2, <3>1, FirstLeaves
    <3> QED BY <2>1, <2>2, <3>2, Zenon
  <2> QED BY <1>2, <1>3, <1>5, <2>3 DEF BudgetInv, LaneIsOrderly, InLane
<1>8. AnswersAreTrue'
  BY <1>5 DEF AnswersAreTrue
<1>9. CASE rate' = asking[c].answer /\ blind' = blind
  <2>1. Slack' = Slack
    BY <1>1, <1>9 DEF Slack
  <2>2. BudgetTypes'
    BY <1>0, <1>1, <1>3, <1>9 DEF BudgetInv, BudgetTypes
  <2>3. RateIsTrue'
    <3>1. /\ asking[c].answer.window <= window
          /\ asking[c].answer.window = window => asking[c].answer.left <= Slack
          /\ asking[c].answer.window < window => Budget <= Slack
      BY <1>1 DEF BudgetInv, AnswersAreTrue
    <3>2. Slack' + UnderWay' = Slack /\ Slack' + UnderWay' + 1 = Slack + 1
      BY <1>0, <1>5, <2>1
    <3>3. asking[c].answer.window < window => Budget <= Slack + 1
      BY <1>0, <3>1
    <3> QED BY <1>1, <1>9, <3>1, <3>2, <3>3 DEF RateIsTrue
  <2>4. MintIsTrue'
    <3> SUFFICES ASSUME token = "minting" PROVE MintIsTrue'
      BY <1>1 DEF MintIsTrue
    <3>1. \E d \in Reddit!Readers : asking'[d].pc = "tokenless"
      BY <1>1, <1>3 DEF BudgetInv, MintIsTrue
    <3> QED BY <1>1, <1>6, <2>1, <3>1 DEF BudgetInv, MintIsTrue
  <2> QED BY <1>7, <1>8, <2>2, <2>3, <2>4 DEF BudgetInv
<1>10. CASE rate' = rate /\ blind' = blind + 1
  <2>1. Slack' = Slack + 1 /\ over' <= blind' /\ blind' \in Nat
    BY <1>0, <1>1, <1>10 DEF Slack
  <2>2. BudgetTypes'
    BY <1>0, <1>1, <1>3, <1>10, <2>1 DEF BudgetInv, BudgetTypes
  <2>3. RateIsTrue'
    <3>1. /\ rate.window <= window
          /\ rate.window = window => rate.left <= Slack + UnderWay
          /\ rate.window < window => Budget <= Slack + UnderWay + 1
      BY DEF BudgetInv, RateIsTrue
    <3>2. Slack' + UnderWay' = Slack + 1 /\ Slack' + UnderWay' + 1 = Slack + 2
      BY <1>0, <1>5, <2>1
    <3>3. rate.window = window => rate.left <= Slack + 1
      BY <1>0, <3>1
    <3>4. rate.window < window => Budget <= Slack + 2
      BY <1>0, <3>1
    <3> QED BY <1>1, <1>10, <3>1, <3>2, <3>3, <3>4 DEF RateIsTrue
  <2>4. MintIsTrue'
    <3> SUFFICES ASSUME token = "minting" PROVE MintIsTrue'
      BY <1>1 DEF MintIsTrue
    <3>1. /\ minted.window <= window /\ minted.window \in Nat \ {0}
          /\ minted.window < window => Budget <= Slack + (IF SomeQueued THEN 0 ELSE 1)
          /\ minted.window = window => minted.left <= Slack /\ (SomeQueued => minted.left + 1 <= Slack \/ Slack = 0)
      BY DEF BudgetInv, MintIsTrue
    <3>2. \E d \in Reddit!Readers : asking'[d].pc = "tokenless"
      BY <1>1, <1>3 DEF BudgetInv, MintIsTrue
    <3>3. minted.window < window => Budget <= Slack' + (IF SomeQueued' THEN 0 ELSE 1)
      <4>1. minted.window < window => Budget <= Slack' + (IF SomeQueued THEN 0 ELSE 1)
        BY <1>0, <2>1, <3>1
      <4> QED BY <4>1, <1>6
    <3>4. minted.window = window => minted.left <= Slack' /\ minted.left + 1 <= Slack'
      BY <1>0, <2>1, <3>1
    <3> QED BY <1>1, <3>1, <3>2, <3>3, <3>4 DEF MintIsTrue
  <2> QED BY <1>7, <1>8, <2>2, <2>3, <2>4 DEF BudgetInv
<1> QED BY <1>9, <1>10 DEF Reddit!Answer

(* Reddit is not asked for more than it grants in a window, except for as   *)
(* many requests as went unread in it: whatever windows end while a token   *)
(* is minted or an answer is late (api.ts, lines 14 to 25).                 *)
THEOREM RedditIsSpared == Reddit!RedditAssumption => (Reddit!Spec => []Reddit!WithinBudget)
<1> SUFFICES ASSUME Reddit!RedditAssumption PROVE Reddit!Spec => []Reddit!WithinBudget
  OBVIOUS
<1>1. Reddit!Init => BudgetInv
  <2> SUFFICES ASSUME Reddit!Init PROVE BudgetInv
    OBVIOUS
  <2>1. /\ asking = [c \in Reddit!Readers |-> Reddit!Idle] /\ token = "none" /\ minted = Reddit!NoAnswer /\ lane = <<>>
        /\ rate = Reddit!NoAnswer /\ left = Budget /\ window = 1 /\ over = 0 /\ blind = 0 /\ Budget \in Nat
    BY DEF Reddit!Init, Reddit!RedditAssumption
  <2>2. /\ Reddit!NoAnswer \in Said /\ Reddit!NoAnswer.window = 0
        /\ \A c \in Reddit!Readers : IsAsking(asking[c]) /\ asking[c].pc = "idle"
    BY <2>1, IdleIsAsking DEF Reddit!NoAnswer
  <2>3. BudgetTypes /\ Slack = Budget
    BY <2>1, <2>2 DEF BudgetTypes, Slack
  <2>4. LaneIsOrderly
    BY <2>1, <2>2 DEF LaneIsOrderly, InLane, Reddit!Queues
  <2>5. RateIsTrue
    BY <2>1, <2>2, <2>3 DEF RateIsTrue, UnderWay
  <2>6. AnswersAreTrue /\ MintIsTrue
    BY <2>1, <2>2 DEF AnswersAreTrue, MintIsTrue
  <2> QED BY <2>3, <2>4, <2>5, <2>6 DEF BudgetInv
<1>2. BudgetInv /\ [Reddit!Next]_Reddit!vars => BudgetInv'
  <2> SUFFICES ASSUME BudgetInv, [Reddit!Next]_Reddit!vars PROVE BudgetInv'
    OBVIOUS
  <2> DEFINE Quiet == /\ token' = token /\ minted' = minted /\ lane' = lane /\ rate' = rate
                      /\ left' = left /\ window' = window /\ over' = over /\ blind' = blind
  <2>1. CASE Quiet /\ asking' = asking
    BY <2>1 DEF BudgetInv, BudgetTypes, LaneIsOrderly, InLane, RateIsTrue, AnswersAreTrue, MintIsTrue, Slack, UnderWay, Sent, SomeQueued
  <2>2. CASE Reddit!Post \/ Reddit!TakeDown \/ Reddit!Stop \/ UNCHANGED Reddit!vars
    BY <2>1, <2>2 DEF Reddit!Post, Reddit!TakeDown, Reddit!Stop, Reddit!vars, Reddit!client, Reddit!reddit
  <2>3. CASE Reddit!TokenExpires
    <3>1. /\ token' = "none" /\ asking' = asking /\ minted' = minted /\ lane' = lane /\ rate' = rate
          /\ left' = left /\ window' = window /\ over' = over /\ blind' = blind
      BY <2>3 DEF Reddit!TokenExpires, Reddit!reddit
    <3>2. MintIsTrue'
      BY <3>1 DEF MintIsTrue
    <3> QED BY <3>1, <3>2 DEF BudgetInv, BudgetTypes, LaneIsOrderly, InLane, RateIsTrue, AnswersAreTrue, Slack, UnderWay, Sent
  <2>4. ASSUME NEW c \in Reddit!Readers, Quiet, asking[c].pc \in {"answered", "failed"},
               asking' = [asking EXCEPT ![c] = Reddit!Idle]
        PROVE  BudgetInv'
    BY <2>4, AsideKeeps, IdleIsAsking DEF Aside
  <2>5. CASE Reddit!OtherDone \/ Reddit!Polled \/ Reddit!PollFails
    <3>1. "poll" \in Reddit!Readers /\ "other" \in Reddit!Readers
      BY DEF Reddit!Readers
    <3> QED BY <2>4, <2>5, <3>1 DEF Reddit!OtherDone, Reddit!Polled, Reddit!PollFails, Reddit!reddit
  <2> QED BY <2>2, <2>3, <2>5, WindowRollsKeeps, MintReturnsKeeps, GetKeeps, SendKeeps, AnswerKeeps DEF Reddit!Next
<1>3. BudgetInv => Reddit!WithinBudget
  BY DEF BudgetInv, BudgetTypes, Reddit!WithinBudget
<1> QED BY <1>1, <1>2, <1>3, PTL DEF Reddit!Spec

-----------------------------------------------------------------------------
(***************************************************************************)
(* Where a lineup comes from.  A request that has the show and its catalog *)
(* to itself is the only one under way: whoever begins, writes or answers  *)
(* drops the others from the writers.  So what it has read of the          *)
(* inventory, or of the lots, is so until it is through.                   *)
(***************************************************************************)
CONSTANTS Catalogs, Skus, Sellers, Hosts, Items, Inventory, Mine, Page, Limit, MaxTerms, MaxAnswers, MaxTasks, MaxSlips

VARIABLES file, cache, inventory, lots, answers, show, req, given, tasks, slips, writers

Lineup == INSTANCE ShowCatalog WITH faults <- slips, Shows <- Hosts, MaxFaults <- MaxSlips

Sheet == [items : [Skus -> 0..MaxTerms], qa : 0..MaxAnswers, agent : {"none", "shared"}]
Steps == {"idle", "answer", "items", "offers", "file", "imported", "apply", "applied"}
Job == [pc : Steps, kind : {"none", "import", "attach", "swap", "resume"}, id : Catalogs \cup {"none"}, cat : Sheet,
        had : [Skus -> 0..MaxTerms], todo : SUBSET Skus, n : 0..MaxAnswers, items : Seq(Skus), offers : SUBSET Skus,
        offset : Nat, skipped : SUBSET Skus]

StoreTypes ==
  /\ file \in [Catalogs -> Sheet] /\ (cache = <<>> \/ \E v \in [Catalogs -> Sheet] : cache = <<v>>)
  /\ inventory \in Seq(Skus) /\ lots \in [Skus -> [terms : 0..MaxTerms, version : Nat]]
  /\ answers \in 0..MaxAnswers /\ given \in 0..MaxAnswers
  /\ show \in [row : Catalogs \cup {"none"}, catalog : Catalogs \cup {"none"}, agent : {"none", "own", "shared"}]

(* What a request that was alone may rely on, by where it is. *)
Importing(x) ==
  /\ x.pc = "items" => /\ Len(x.items) = x.offset /\ x.offset <= Len(inventory)
                       /\ \A i \in 1..Len(x.items) : x.items[i] = inventory[i]
  /\ x.pc \in {"offers", "file"} => \A i \in 1..Len(inventory) : i <= Limit =>
       i \in 1..Len(x.items) /\ x.items[i] = inventory[i]
  /\ x.pc = "imported" => \A i \in 1..Len(inventory) : i <= Limit =>
       file[Mine].items[inventory[i]] # 0 \/ inventory[i] \in x.skipped
Applying(x) ==
  /\ x.pc = "apply" => \A k \in Skus : x.cat.items[k] # 0 =>
       lots[k].terms = IF k \in x.todo THEN x.had[k] ELSE x.cat.items[k]
  /\ x.pc = "applied" => \A k \in Skus : x.cat.items[k] # 0 => lots[k].terms = x.cat.items[k]

GivenAnswers == \A c \in Catalogs : file[c].qa <= given
Undisturbed == \A r \in writers : \A o \in Lineup!Requests : o # r => req[o].pc = "idle"
Followed == \A r \in writers : Importing(req[r]) /\ Applying(req[r])

LineupInv ==
  /\ StoreTypes /\ req \in [Lineup!Requests -> Job] /\ writers \subseteq Lineup!Requests
  /\ GivenAnswers /\ Lineup!ServedIsWritten /\ Undisturbed /\ Followed

LEMMA JobFields ==
  ASSUME NEW x \in Job
  PROVE  /\ x.pc \in Steps /\ x.kind \in {"none", "import", "attach", "swap", "resume"} /\ x.id \in Catalogs \cup {"none"}
         /\ x.cat \in Sheet /\ x.had \in [Skus -> 0..MaxTerms] /\ x.todo \subseteq Skus /\ x.n \in 0..MaxAnswers
         /\ x.items \in Seq(Skus) /\ x.offers \subseteq Skus /\ x.offset \in Nat /\ x.skipped \subseteq Skus
BY DEF Job

LEMMA JobIs ==
  ASSUME NEW x \in Job
  PROVE  x = [pc |-> x.pc, kind |-> x.kind, id |-> x.id, cat |-> x.cat, had |-> x.had, todo |-> x.todo, n |-> x.n,
              items |-> x.items, offers |-> x.offers, offset |-> x.offset, skipped |-> x.skipped]
BY DEF Job

LEMMA NextStep ==
  ASSUME NEW y \in Job, NEW p \in Steps
  PROVE  LET x == [y EXCEPT !.pc = p] IN
         /\ x \in Job /\ x.pc = p /\ x.items = y.items /\ x.offset = y.offset /\ x.offers = y.offers /\ x.skipped = y.skipped
         /\ x.cat = y.cat /\ x.had = y.had /\ x.todo = y.todo
<1> DEFINE x == [y EXCEPT !.pc = p]
<1>1. x = [pc |-> p, kind |-> y.kind, id |-> y.id, cat |-> y.cat, had |-> y.had, todo |-> y.todo, n |-> y.n,
           items |-> y.items, offers |-> y.offers, offset |-> y.offset, skipped |-> y.skipped]
  BY JobIs
<1> HIDE DEF x
<1> QED BY <1>1, JobFields DEF Job, x

LEMMA NextOffset ==
  ASSUME NEW y \in Job, NEW n \in Nat
  PROVE  LET x == [y EXCEPT !.offset = n] IN
         /\ x \in Job /\ x.pc = y.pc /\ x.items = y.items /\ x.offset = n /\ x.offers = y.offers /\ x.skipped = y.skipped
<1> DEFINE x == [y EXCEPT !.offset = n]
<1>1. x = [pc |-> y.pc, kind |-> y.kind, id |-> y.id, cat |-> y.cat, had |-> y.had, todo |-> y.todo, n |-> y.n,
           items |-> y.items, offers |-> y.offers, offset |-> n, skipped |-> y.skipped]
  BY JobIs
<1> HIDE DEF x
<1> QED BY <1>1, JobFields DEF Job, x

LEMMA NextItems ==
  ASSUME NEW y \in Job, NEW s \in Seq(Skus)
  PROVE  LET x == [y EXCEPT !.items = s] IN
         /\ x \in Job /\ x.pc = y.pc /\ x.items = s /\ x.offset = y.offset /\ x.offers = y.offers /\ x.skipped = y.skipped
<1> DEFINE x == [y EXCEPT !.items = s]
<1>1. x = [pc |-> y.pc, kind |-> y.kind, id |-> y.id, cat |-> y.cat, had |-> y.had, todo |-> y.todo, n |-> y.n,
           items |-> s, offers |-> y.offers, offset |-> y.offset, skipped |-> y.skipped]
  BY JobIs
<1> HIDE DEF x
<1> QED BY <1>1, JobFields DEF Job, x

PagedTo(x, y, s, p, n) == x = [y EXCEPT !.items = s, !.pc = p, !.offset = n]

LEMMA Paged ==
  ASSUME NEW y \in Job, NEW s \in Seq(Skus), NEW p \in Steps, NEW n \in Nat, NEW x, PagedTo(x, y, s, p, n)
  PROVE  x \in Job /\ x.pc = p /\ x.items = s /\ x.offset = n
<1> DEFINE a == [y EXCEPT !.items = s]
           b == [a EXCEPT !.pc = p]
<1>1. a \in Job /\ a.items = s
  BY NextItems
<1>2. x = [b EXCEPT !.offset = n]
  BY Zenon DEF PagedTo
<1> HIDE DEF a
<1>3. b \in Job /\ b.items = s /\ b.pc = p
  BY <1>1, NextStep
<1> HIDE DEF b
<1>4. LET z == [b EXCEPT !.offset = n] IN z \in Job /\ z.pc = p /\ z.items = s /\ z.offset = n
  BY <1>3, NextOffset
<1> QED BY <1>2, <1>4, Zenon

(* A request moves, and whoever had something to itself is it, or is not. *)
LEMMA RequestMoves ==
  ASSUME LineupInv, NEW r \in Lineup!Requests, NEW x \in Job, req' = [req EXCEPT ![r] = x], writers' \subseteq {r},
         r \in writers' => (\A o \in Lineup!Requests : o # r => req[o].pc = "idle") /\ Importing(x)' /\ Applying(x)',
         StoreTypes', GivenAnswers', Lineup!ServedIsWritten'
  PROVE  LineupInv'
<1>1. /\ req' \in [Lineup!Requests -> Job] /\ req'[r] = x
      /\ \A o \in Lineup!Requests : o # r => req'[o] = req[o]
  BY DEF LineupInv
<1>2. writers' \subseteq Lineup!Requests
  OBVIOUS
<1>3. Undisturbed'
  BY <1>1 DEF Undisturbed
<1>4. Followed'
  <2> SUFFICES ASSUME NEW w \in writers' PROVE Importing(req[w])' /\ Applying(req[w])'
    BY DEF Followed
  <2>1. w = r /\ req'[w] = x
    BY <1>1
  <2> QED BY <2>1 DEF Importing, Applying
<1> QED BY <1>1, <1>2, <1>3, <1>4 DEF LineupInv

Shelves == <<file, cache, inventory, lots, answers, show, given>>

(* It was under way, and moves, and nothing else does. *)
LEMMA RequestSteps ==
  ASSUME LineupInv, NEW r \in Lineup!Requests, NEW x \in Job, req' = [req EXCEPT ![r] = x], writers' \subseteq writers,
         req[r].pc # "idle", r \in writers' => Importing(x) /\ Applying(x),
         file' = file, cache' = cache, inventory' = inventory, lots' = lots, answers' = answers, show' = show, given' = given
  PROVE  LineupInv'
<1>1. writers \subseteq {r} /\ (r \in writers => \A o \in Lineup!Requests : o # r => req[o].pc = "idle")
  BY DEF LineupInv, Undisturbed
<1>2. StoreTypes' /\ GivenAnswers' /\ Lineup!ServedIsWritten'
  BY DEF LineupInv, StoreTypes, GivenAnswers, Lineup!ServedIsWritten
<1>3. r \in writers' => Importing(x)' /\ Applying(x)'
  BY DEF Importing, Applying
<1> QED BY <1>1, <1>2, <1>3, RequestMoves

(* Nobody has anything to himself. *)
LEMMA NobodyAlone ==
  ASSUME LineupInv, writers' = {}, req' = req \/ req' = [r \in Lineup!Requests |-> Lineup!Idle], Lineup!Idle \in Job,
         StoreTypes', GivenAnswers', Lineup!ServedIsWritten'
  PROVE  LineupInv'
<1>1. req' \in [Lineup!Requests -> Job]
  BY DEF LineupInv
<1> QED BY <1>1 DEF LineupInv, Undisturbed, Followed

LEMMA IdleIsJob ==
  ASSUME Lineup!LineupAssumption
  PROVE  Lineup!Idle \in Job /\ Lineup!Idle.pc = "idle" /\ Lineup!Blank \in Sheet
<1>1. Lineup!Blank \in Sheet
  BY DEF Lineup!LineupAssumption, Lineup!Blank, Lineup!Empty, Lineup!None, Sheet
<1>2. Lineup!Empty \in [Skus -> 0..MaxTerms] /\ <<>> \in Seq(Skus)
  BY DEF Lineup!LineupAssumption, Lineup!Empty
<1> HIDE DEF Sheet
<1> QED BY <1>1, <1>2 DEF Lineup!LineupAssumption, Lineup!Idle, Lineup!None, Job, Steps

(* A page of what is there. *)
IsPage(batch, n) ==
  /\ batch \in Seq(Skus) /\ Len(batch) \in Nat
  /\ n <= Len(inventory) =>
       /\ n + Len(batch) <= Len(inventory) /\ Len(batch) <= Page
       /\ \A i \in 1..Len(batch) : batch[i] = inventory[n + i]
       /\ Len(batch) < Page => n + Len(batch) = Len(inventory)

LEMMA PageOf ==
  ASSUME Lineup!LineupAssumption, LineupInv, NEW n \in Nat
  PROVE  IsPage(Lineup!PageAt(n), n)
<1> DEFINE batch == Lineup!PageAt(n)
<1> DEFINE m == Lineup!Upto(n + Page)
<1>1. inventory \in Seq(Skus) /\ Len(inventory) \in Nat /\ Page \in Nat /\ Page # 0
  BY DEF LineupInv, StoreTypes, Lineup!LineupAssumption
<1>2. m \in Nat /\ m <= Len(inventory) /\ (n <= Len(inventory) => n <= m) /\ m <= n + Page /\ (m < n + Page => m = Len(inventory))
  BY <1>1 DEF Lineup!Upto
<1> HIDE DEF m
<1>3. \A i \in (n + 1)..m : inventory[i] \in Skus
  BY <1>1, <1>2
<1>4. batch = SubSeq(inventory, n + 1, m)
  BY DEF Lineup!PageAt, m
<1> HIDE DEF batch
<1>5. /\ batch \in Seq(Skus) /\ Len(batch) = (IF n + 1 <= m THEN m - (n + 1) + 1 ELSE 0)
      /\ \A i \in 1..(m - (n + 1) + 1) : batch[i] = inventory[(n + 1) + i - 1]
  <2>1. n + 1 \in Int /\ m \in Int
    BY <1>2
  <2> QED BY <1>3, <1>4, <2>1, SubSeqProperties
<1>6. \A i \in 1..(m - n) : (n + 1) + i - 1 = n + i
  BY <1>2
<1>7. Len(batch) \in Nat /\ (n <= Len(inventory) => Len(batch) = m - n)
  BY <1>2, <1>5
<1>8. IsPage(batch, n)
  BY <1>1, <1>2, <1>5, <1>6, <1>7 DEF IsPage
<1> QED BY <1>8 DEF batch

LEMMA ImportItemsKeeps ==
  ASSUME Lineup!LineupAssumption, LineupInv, NEW r \in Sellers, Lineup!ImportItems(r)
  PROVE  LineupInv'
<1> DEFINE y == req[r]
           batch == Lineup!PageAt(y.offset)
           enough == Len(batch) < Page \/ Len(y.items) + Len(batch) >= Limit
           s == y.items \o batch
           p == IF enough THEN "offers" ELSE "items"
           n == IF enough THEN 0 ELSE y.offset + Page
           x == [y EXCEPT !.items = s, !.pc = p, !.offset = n]
<1>1. r \in Lineup!Requests /\ y \in Job /\ y.pc = "items" /\ req \in [Lineup!Requests -> Job] /\ Page \in Nat /\ Limit \in Nat
  BY DEF Lineup!ImportItems, Lineup!At, Lineup!Requests, LineupInv, Lineup!LineupAssumption
<1>2. /\ req' = [req EXCEPT ![r] = x] /\ writers' = writers
      /\ file' = file /\ cache' = cache /\ inventory' = inventory /\ lots' = lots /\ answers' = answers /\ show' = show /\ given' = given
  <2>1. req' = [req EXCEPT ![r] = x]
    BY Zenon DEF Lineup!ImportItems
  <2> QED BY <2>1 DEF Lineup!ImportItems, Lineup!bounds
<1>3. y.items \in Seq(Skus) /\ y.offset \in Nat
  BY <1>1, JobFields
<1>4. /\ batch \in Seq(Skus) /\ Len(batch) \in Nat /\ y.items \o batch \in Seq(Skus) /\ Len(y.items) \in Nat
      /\ y.offset <= Len(inventory) =>
           /\ y.offset + Len(batch) <= Len(inventory) /\ Len(batch) <= Page
           /\ \A i \in 1..Len(batch) : batch[i] = inventory[y.offset + i]
           /\ Len(batch) < Page => y.offset + Len(batch) = Len(inventory)
  <2>1. IsPage(batch, y.offset)
    BY <1>3, PageOf
  <2> HIDE DEF y, batch
  <2>2. /\ batch \in Seq(Skus) /\ Len(batch) \in Nat
        /\ y.offset <= Len(inventory) =>
             /\ y.offset + Len(batch) <= Len(inventory) /\ Len(batch) <= Page
             /\ \A i \in 1..Len(batch) : batch[i] = inventory[y.offset + i]
             /\ Len(batch) < Page => y.offset + Len(batch) = Len(inventory)
    BY <2>1 DEF IsPage
  <2> QED BY <1>3, <2>2, ConcatProperties
<1> HIDE DEF batch
<1>5. p \in Steps /\ n \in Nat
  BY <1>1, <1>3, <1>4 DEF Steps
<1>6. x \in Job /\ x.pc = p /\ x.items = y.items \o batch /\ x.offset = n
  <2>1. s \in Seq(Skus)
    BY <1>4 DEF s
  <2> HIDE DEF y, p, n, s
  <2>3. PagedTo(x, y, s, p, n) /\ y \in Job
    BY <1>1, Zenon DEF PagedTo
  <2> HIDE DEF x
  <2>2. x \in Job /\ x.pc = p /\ x.items = s /\ x.offset = n
    BY <1>5, <2>1, <2>3, Paged
  <2> QED BY <2>2 DEF s
<1> HIDE DEF x
<1>7. ASSUME r \in writers PROVE Importing(x) /\ Applying(x)
  <2>1. Len(y.items) = y.offset /\ y.offset <= Len(inventory) /\ \A i \in 1..Len(y.items) : y.items[i] = inventory[i]
    BY <1>1, <1>7 DEF LineupInv, Followed, Importing
  <2>2. /\ y.offset + Len(batch) <= Len(inventory) /\ Len(batch) <= Page
        /\ \A i \in 1..Len(batch) : batch[i] = inventory[y.offset + i]
        /\ Len(batch) < Page => y.offset + Len(batch) = Len(inventory)
    BY <1>4, <2>1
  <2>3. /\ Len(x.items) = y.offset + Len(batch) /\ Len(inventory) \in Nat
        /\ \A i \in 1..Len(x.items) : x.items[i] = IF i <= y.offset THEN y.items[i] ELSE batch[i - y.offset]
    <3> DEFINE t == y.items \o batch
    <3>1. /\ Len(t) = Len(y.items) + Len(batch)
          /\ \A i \in 1..Len(y.items) + Len(batch) : t[i] = IF i <= Len(y.items) THEN y.items[i] ELSE batch[i - Len(y.items)]
      <4> HIDE DEF y
      <4> QED BY <1>3, <1>4, ConcatProperties
    <3>2. Len(inventory) \in Nat
      BY DEF LineupInv, StoreTypes
    <3> HIDE DEF t
    <3> QED BY <1>4, <1>6, <2>1, <3>1, <3>2 DEF t
  <2>4. \A i \in 1..Len(x.items) : x.items[i] = inventory[i]
    <3> SUFFICES ASSUME NEW i \in 1..Len(x.items) PROVE x.items[i] = inventory[i]
      OBVIOUS
    <3>1. CASE i <= y.offset
      BY <1>3, <1>4, <2>1, <2>3, <3>1
    <3>2. CASE ~(i <= y.offset)
      <4>1. i - y.offset \in 1..Len(batch) /\ y.offset + (i - y.offset) = i
        BY <1>3, <1>4, <2>3, <3>2
      <4> QED BY <2>2, <2>3, <3>2, <4>1
    <3> QED BY <3>1, <3>2
  <2>5. CASE enough
    <3>1. \A i \in 1..Len(inventory) : i <= Limit => i \in 1..Len(x.items)
      BY <1>1, <1>3, <1>4, <2>1, <2>2, <2>3, <2>5
    <3> QED BY <1>6, <2>4, <2>5, <3>1 DEF Importing, Applying
  <2>6. CASE ~enough
    <3>1. Len(x.items) = x.offset /\ x.offset <= Len(inventory)
      BY <1>1, <1>3, <1>4, <1>6, <2>1, <2>2, <2>3, <2>6
    <3> QED BY <1>6, <2>4, <2>6, <3>1 DEF Importing, Applying
  <2> QED BY <2>5, <2>6
<1> QED BY <1>1, <1>2, <1>6, <1>7, RequestSteps

LEMMA NextOffers ==
  ASSUME NEW y \in Job, NEW o \in SUBSET Skus
  PROVE  LET x == [y EXCEPT !.offers = o] IN
         /\ x \in Job /\ x.pc = y.pc /\ x.items = y.items /\ x.offset = y.offset /\ x.offers = o /\ x.skipped = y.skipped
<1> DEFINE x == [y EXCEPT !.offers = o]
<1>1. x = [pc |-> y.pc, kind |-> y.kind, id |-> y.id, cat |-> y.cat, had |-> y.had, todo |-> y.todo, n |-> y.n,
           items |-> y.items, offers |-> o, offset |-> y.offset, skipped |-> y.skipped]
  BY JobIs
<1> HIDE DEF x
<1> QED BY <1>1, JobFields DEF Job, x

LEMMA NextSkipped ==
  ASSUME NEW y \in Job, NEW o \in SUBSET Skus
  PROVE  LET x == [y EXCEPT !.skipped = o] IN x \in Job /\ x.pc = y.pc /\ x.skipped = o
<1> DEFINE x == [y EXCEPT !.skipped = o]
<1>1. x = [pc |-> y.pc, kind |-> y.kind, id |-> y.id, cat |-> y.cat, had |-> y.had, todo |-> y.todo, n |-> y.n,
           items |-> y.items, offers |-> y.offers, offset |-> y.offset, skipped |-> o]
  BY JobIs
<1> HIDE DEF x
<1> QED BY <1>1, JobFields DEF Job, x

LEMMA NextTodo ==
  ASSUME NEW y \in Job, NEW o \in SUBSET Skus
  PROVE  LET x == [y EXCEPT !.todo = o] IN
         x \in Job /\ x.pc = y.pc /\ x.todo = o /\ x.cat = y.cat /\ x.had = y.had
<1> DEFINE x == [y EXCEPT !.todo = o]
<1>1. x = [pc |-> y.pc, kind |-> y.kind, id |-> y.id, cat |-> y.cat, had |-> y.had, todo |-> o, n |-> y.n,
           items |-> y.items, offers |-> y.offers, offset |-> y.offset, skipped |-> y.skipped]
  BY JobIs
<1> HIDE DEF x
<1> QED BY <1>1, JobFields DEF Job, x

OfferedTo(x, y, o, p, n) == x = [y EXCEPT !.offers = o, !.pc = p, !.offset = n]
SentTo(x, y, p, n) == x = [y EXCEPT !.pc = p, !.offset = n]
WrittenTo(x, y, p, o) == x = [y EXCEPT !.pc = p, !.skipped = o]

LEMMA Offered ==
  ASSUME NEW y \in Job, NEW o \in SUBSET Skus, NEW p \in Steps, NEW n \in Nat, NEW x, OfferedTo(x, y, o, p, n)
  PROVE  x \in Job /\ x.pc = p /\ x.items = y.items
<1> DEFINE a == [y EXCEPT !.offers = o]
           b == [a EXCEPT !.pc = p]
<1>1. a \in Job /\ a.items = y.items
  BY NextOffers
<1>2. x = [b EXCEPT !.offset = n]
  BY Zenon DEF OfferedTo
<1> HIDE DEF a
<1>3. b \in Job /\ b.items = y.items /\ b.pc = p
  BY <1>1, NextStep
<1> HIDE DEF b
<1>4. LET z == [b EXCEPT !.offset = n] IN z \in Job /\ z.pc = p /\ z.items = y.items
  BY <1>3, NextOffset
<1> QED BY <1>2, <1>4, Zenon

LEMMA SentOn ==
  ASSUME NEW y \in Job, NEW p \in Steps, NEW n \in Nat, NEW x, SentTo(x, y, p, n)
  PROVE  x \in Job
<1> DEFINE b == [y EXCEPT !.pc = p]
<1>2. x = [b EXCEPT !.offset = n]
  BY Zenon DEF SentTo
<1>3. b \in Job
  BY NextStep
<1> HIDE DEF b
<1> QED BY <1>2, <1>3, NextOffset

LEMMA Written ==
  ASSUME NEW y \in Job, NEW o \in SUBSET Skus, NEW p \in Steps, NEW x, WrittenTo(x, y, p, o)
  PROVE  x \in Job /\ x.pc = p /\ x.skipped = o
<1> DEFINE b == [y EXCEPT !.pc = p]
<1>2. x = [b EXCEPT !.skipped = o]
  BY Zenon DEF WrittenTo
<1>3. b \in Job /\ b.pc = p
  BY NextStep
<1> HIDE DEF b
<1> QED BY <1>2, <1>3, NextSkipped

LEMMA ImportOffersKeeps ==
  ASSUME Lineup!LineupAssumption, LineupInv, NEW r \in Sellers, Lineup!ImportOffers(r)
  PROVE  LineupInv'
<1> DEFINE y == req[r]
           batch == Lineup!PageAt(y.offset)
           o == y.offers \cup {batch[i] : i \in DOMAIN batch}
           p == IF Len(batch) < Page THEN "file" ELSE "offers"
           n == y.offset + Page
           x == [y EXCEPT !.offers = o, !.pc = p, !.offset = n]
<1>1. r \in Lineup!Requests /\ y \in Job /\ y.pc = "offers" /\ Page \in Nat
  BY DEF Lineup!ImportOffers, Lineup!At, Lineup!Requests, LineupInv, Lineup!LineupAssumption
<1>2. /\ req' = [req EXCEPT ![r] = x] /\ writers' = writers
      /\ file' = file /\ cache' = cache /\ inventory' = inventory /\ lots' = lots /\ answers' = answers /\ show' = show /\ given' = given
  <2>1. req' = [req EXCEPT ![r] = x]
    BY Zenon DEF Lineup!ImportOffers
  <2> QED BY <2>1 DEF Lineup!ImportOffers, Lineup!bounds
<1>3. y.offset \in Nat /\ y.offers \subseteq Skus
  BY <1>1, JobFields
<1>4. batch \in Seq(Skus)
  <2>1. IsPage(batch, y.offset)
    BY <1>3, PageOf
  <2> HIDE DEF y, batch
  <2> QED BY <2>1 DEF IsPage
<1> HIDE DEF batch
<1>5. o \in SUBSET Skus /\ p \in Steps /\ n \in Nat
  BY <1>1, <1>3, <1>4 DEF Steps
<1>6. x \in Job /\ x.pc = p /\ x.items = y.items
  <2> HIDE DEF y, p, n, o
  <2>1. OfferedTo(x, y, o, p, n) /\ y \in Job
    BY <1>1, Zenon DEF OfferedTo
  <2> HIDE DEF x
  <2> QED BY <1>5, <2>1, Offered
<1> HIDE DEF x
<1>7. ASSUME r \in writers PROVE Importing(x) /\ Applying(x)
  <2>1. Importing(y)
    BY <1>7 DEF LineupInv, Followed
  <2> QED BY <1>1, <1>6, <2>1 DEF Importing, Applying
<1> QED BY <1>1, <1>2, <1>6, <1>7, RequestSteps

(* A page of offers that fails, a page of items, an apply; a report; the   *)
(* answer on a show that runs.                                             *)
LEMMA EndsKeep ==
  ASSUME Lineup!LineupAssumption, LineupInv, NEW r \in Lineup!Requests,
         Lineup!OffersFail(r) \/ Lineup!ItemsFail(r) \/ Lineup!ApplyFails(r) \/ Lineup!Reported(r)
  PROVE  LineupInv'
<1> DEFINE y == req[r]
           x == [y EXCEPT !.pc = "file", !.offset = 0]
<1>1. y \in Job /\ y.pc # "idle"
  BY DEF Lineup!OffersFail, Lineup!ItemsFail, Lineup!ApplyFails, Lineup!Reported, Lineup!At, LineupInv
<1>2. /\ writers' = writers \ {r}
      /\ file' = file /\ cache' = cache /\ inventory' = inventory /\ lots' = lots /\ answers' = answers /\ show' = show /\ given' = given
  BY DEF Lineup!OffersFail, Lineup!ItemsFail, Lineup!ApplyFails, Lineup!Reported, Lineup!Fault, Lineup!bounds
<1>3. CASE Lineup!OffersFail(r)
  <2>1. req' = [req EXCEPT ![r] = x]
    BY <1>3, Zenon DEF Lineup!OffersFail, Lineup!Goto
  <2>2. x \in Job
    <3> HIDE DEF y
    <3>1. SentTo(x, y, "file", 0)
      BY Zenon DEF SentTo
    <3> HIDE DEF x
    <3> QED BY <1>1, <3>1, SentOn DEF Steps
  <2> HIDE DEF x
  <2> QED BY <1>1, <1>2, <2>1, <2>2, RequestSteps
<1>4. CASE ~Lineup!OffersFail(r)
  <2>1. req' = [req EXCEPT ![r] = Lineup!Idle]
    BY <1>4 DEF Lineup!ItemsFail, Lineup!ApplyFails, Lineup!Reported
  <2> QED BY <1>1, <1>2, <2>1, IdleIsJob, RequestSteps
<1> QED BY <1>3, <1>4

LEMMA AnswerLiveKeeps ==
  ASSUME Lineup!LineupAssumption, LineupInv, NEW r \in Lineup!Requests, Lineup!AnswerLive(r)
  PROVE  LineupInv'
<1>1. /\ req[r] \in Job /\ req[r].pc # "idle" /\ writers' = writers \cap {r} /\ req' = [req EXCEPT ![r] = Lineup!Idle]
      /\ file' = file /\ cache' = cache /\ inventory' = inventory /\ lots' = lots /\ answers' = req[r].n /\ show' = show /\ given' = given
  BY DEF Lineup!AnswerLive, Lineup!At, Lineup!Met, Lineup!bounds, LineupInv
<1>2. req[r].n \in 0..MaxAnswers
  BY <1>1, JobFields
<1>3. StoreTypes' /\ GivenAnswers' /\ Lineup!ServedIsWritten'
  BY <1>1, <1>2 DEF LineupInv, StoreTypes, GivenAnswers, Lineup!ServedIsWritten
<1>4. r \in writers' => \A o \in Lineup!Requests : o # r => req[o].pc = "idle"
  BY <1>1 DEF LineupInv, Undisturbed
<1>5. Importing(Lineup!Idle)' /\ Applying(Lineup!Idle)'
  BY IdleIsJob DEF Importing, Applying, Lineup!Idle
<1> QED BY <1>1, <1>3, <1>4, <1>5, IdleIsJob, RequestMoves

LEMMA AnswersKeep ==
  ASSUME Lineup!LineupAssumption, LineupInv, NEW r \in Sellers, NEW c \in Catalogs, Lineup!Answer(r, c)
  PROVE  LineupInv'
<1> DEFINE p == IF show.catalog = "none" THEN "idle" ELSE "answer"
           x == [Lineup!Idle EXCEPT !.pc = p, !.n = given + 1]
<1>1. /\ given < MaxAnswers /\ given' = given + 1 /\ writers' = writers \cap {r} /\ cache' = <<>>
      /\ file' = [file EXCEPT ![c].qa = given + 1]
      /\ inventory' = inventory /\ lots' = lots /\ answers' = answers /\ show' = show
  BY DEF Lineup!Answer, Lineup!addCatalogQa, Lineup!Met
<1>2. req' = [req EXCEPT ![r] = x]
  BY Zenon DEF Lineup!Answer, Lineup!None
<1>3. given \in 0..MaxAnswers /\ MaxAnswers \in Nat /\ given + 1 \in 0..MaxAnswers
  BY <1>1 DEF LineupInv, StoreTypes, Lineup!LineupAssumption
<1>4. x \in Job /\ x.pc = p
  BY <1>3, IdleIsJob, JobFields DEF Lineup!Idle, Job, Steps
<1>5. file' \in [Catalogs -> Sheet] /\ GivenAnswers'
  <2>1. /\ file \in [Catalogs -> Sheet] /\ (\A d \in Catalogs : file[d].qa <= given)
    BY DEF LineupInv, StoreTypes, GivenAnswers
  <2>2. \A d \in Catalogs : file'[d] = IF d = c THEN [file[c] EXCEPT !.qa = given + 1] ELSE file[d]
    BY <1>1, <2>1
  <2>3. [file[c] EXCEPT !.qa = given + 1] \in Sheet /\ [file[c] EXCEPT !.qa = given + 1].qa = given + 1
    BY <1>3, <2>1 DEF Sheet
  <2>4. \A d \in Catalogs : file'[d] \in Sheet /\ file'[d].qa <= given + 1
    <3>1. \A d \in Catalogs : file[d].qa \in Nat
      BY <1>3, <2>1 DEF Sheet
    <3> DEFINE e == [file[c] EXCEPT !.qa = given + 1]
    <3>2. e \in Sheet /\ e.qa = given + 1 /\ \A d \in Catalogs : file'[d] = IF d = c THEN e ELSE file[d]
      BY <2>2, <2>3
    <3> HIDE DEF e
    <3> QED BY <1>3, <2>1, <3>1, <3>2
  <2> QED BY <1>1, <2>1, <2>4 DEF GivenAnswers
<1>6. StoreTypes' /\ Lineup!ServedIsWritten'
  BY <1>1, <1>3, <1>5 DEF LineupInv, StoreTypes, Lineup!ServedIsWritten
<1>7. r \in writers' => \A o \in Lineup!Requests : o # r => req[o].pc = "idle"
  BY <1>1 DEF LineupInv, Undisturbed
<1> HIDE DEF x
<1>8. PICK z \in Job : z = x
  BY <1>4
<1>9. Importing(z)' /\ Applying(z)'
  BY <1>4, <1>8 DEF Importing, Applying
<1>10. r \in Lineup!Requests /\ req' = [req EXCEPT ![r] = z] /\ writers' \subseteq {r}
  BY <1>1, <1>2, <1>8 DEF Lineup!Requests
<1> QED BY <1>5, <1>6, <1>7, <1>9, <1>10, RequestMoves

LEMMA ImportStartKeeps ==
  ASSUME Lineup!LineupAssumption, LineupInv, NEW r \in Sellers, Lineup!ImportStart(r)
  PROVE  LineupInv'
<1> DEFINE x == [Lineup!Idle EXCEPT !.pc = "items", !.kind = "import", !.id = Mine]
<1>1. /\ file' = file /\ cache' = cache /\ inventory' = inventory /\ lots' = lots /\ answers' = answers /\ show' = show /\ given' = given
      /\ writers' = IF \A o \in Lineup!Requests \ {r} : req[o].pc = "idle" THEN {r} ELSE {}
  BY DEF Lineup!ImportStart, Lineup!Task, Lineup!Alone, Lineup!At
<1>2. req' = [req EXCEPT ![r] = x]
  BY Zenon DEF Lineup!ImportStart
<1>3. x \in Job /\ x.pc = "items" /\ x.items = <<>> /\ x.offset = 0
  BY IdleIsJob, JobFields DEF Lineup!LineupAssumption, Lineup!Idle, Job, Steps
<1>4. StoreTypes' /\ GivenAnswers' /\ Lineup!ServedIsWritten'
  BY <1>1 DEF LineupInv, StoreTypes, GivenAnswers, Lineup!ServedIsWritten
<1> HIDE DEF x
<1>5. Importing(x)' /\ Applying(x)'
  <2>1. Len(inventory) \in Nat /\ Len(x.items) = 0
    BY <1>3 DEF LineupInv, StoreTypes
  <2> QED BY <1>1, <1>3, <2>1 DEF Importing, Applying
<1> QED BY <1>1, <1>2, <1>3, <1>4, <1>5, RequestMoves DEF Lineup!Requests

LEMMA ImportWriteKeeps ==
  ASSUME Lineup!LineupAssumption, LineupInv, NEW r \in Sellers, Lineup!ImportWrite(r)
  PROVE  LineupInv' /\ req[r].pc = "file" /\ req'[r].pc = "imported" /\ \A c \in Catalogs : c # Mine => file'[c] = file[c]
<1> DEFINE y == req[r]
           b == Lineup!Brought(r)
           t == [k \in Skus |-> IF k \in b \cap y.offers THEN 3 ELSE 0]
           f == [Lineup!Blank EXCEPT !.items = t]
           o == b \ y.offers
           x == [y EXCEPT !.pc = "imported", !.skipped = o]
<1>1. /\ r \in Lineup!Requests /\ y \in Job /\ y.pc = "file"
      /\ writers' = writers /\ cache' = <<>> /\ file' = [file EXCEPT ![Mine] = f]
      /\ inventory' = inventory /\ lots' = lots /\ answers' = answers /\ show' = show /\ given' = given
  BY DEF Lineup!ImportWrite, Lineup!At, Lineup!bounds, Lineup!Requests, LineupInv
<1>2. req' = [req EXCEPT ![r] = x]
  BY Zenon DEF Lineup!ImportWrite
<1>3. y.items \in Seq(Skus) /\ y.offers \subseteq Skus
  BY <1>1, JobFields
<1>4. /\ b \subseteq Skus
      /\ \A i \in 1..Len(y.items) : i <= Limit => y.items[i] \in b
  BY <1>3 DEF Lineup!Brought
<1>5. f \in Sheet /\ f.items = t /\ f.qa = 0
  BY DEF Lineup!LineupAssumption, Lineup!Blank, Lineup!Empty, Lineup!None, Sheet
<1>6. /\ file \in [Catalogs -> Sheet] /\ Mine \in Catalogs
      /\ file' \in [Catalogs -> Sheet] /\ file'[Mine] = f /\ \A c \in Catalogs : c # Mine => file'[c] = file[c]
  <2> HIDE DEF f
  <2> QED BY <1>1, <1>5 DEF LineupInv, StoreTypes, Lineup!LineupAssumption
<1> HIDE DEF f
<1>7. StoreTypes' /\ GivenAnswers' /\ Lineup!ServedIsWritten'
  <2>1. GivenAnswers'
    <3>1. given \in Nat /\ \A c \in Catalogs : file[c].qa <= given
      BY DEF LineupInv, StoreTypes, GivenAnswers, Lineup!LineupAssumption
    <3> QED BY <1>1, <1>5, <1>6, <3>1 DEF GivenAnswers
  <2> QED BY <1>1, <1>6, <2>1 DEF LineupInv, StoreTypes, Lineup!ServedIsWritten
<1>8. x \in Job /\ x.pc = "imported" /\ x.skipped = o
  <2> HIDE DEF b
  <2>1. o \in SUBSET Skus
    BY <1>4
  <2>2. y \in Job
    BY <1>1
  <2> HIDE DEF y, o
  <2>3. WrittenTo(x, y, "imported", o) /\ "imported" \in Steps
    BY Zenon DEF WrittenTo, Steps
  <2> HIDE DEF x
  <2> QED BY <2>1, <2>2, <2>3, Written
<1> HIDE DEF x, b
<1>13. PICK z \in Job : z = x
  BY <1>8
<1>9. ASSUME r \in writers' PROVE Importing(z)' /\ Applying(z)'
  <2>1. Importing(y)
    BY <1>1, <1>9 DEF LineupInv, Followed
  <2>2. \A i \in 1..Len(inventory) : i <= Limit => inventory[i] \in b
    BY <1>1, <1>4, <2>1 DEF Importing
  <2>3. \A i \in 1..Len(inventory) : inventory[i] \in Skus
    BY DEF LineupInv, StoreTypes
  <2>4. \A k \in Skus : k \in b => t[k] # 0 \/ k \in o
    OBVIOUS
  <2>5. \A i \in 1..Len(inventory) : i <= Limit => file'[Mine].items[inventory[i]] # 0 \/ inventory[i] \in o
    <3> HIDE DEF t, o
    <3> QED BY <1>5, <1>6, <2>2, <2>3, <2>4
  <2> HIDE DEF o
  <2> QED BY <1>1, <1>8, <1>13, <2>5 DEF Importing, Applying
<1>10. r \in writers' => \A q \in Lineup!Requests : q # r => req[q].pc = "idle"
  BY <1>1 DEF LineupInv, Undisturbed
<1>11. writers' \subseteq {r}
  BY <1>1 DEF LineupInv, Undisturbed
<1>12. r \in Lineup!Requests /\ req' = [req EXCEPT ![r] = z]
  BY <1>1, <1>2, <1>13
<1>14. LineupInv'
  BY <1>7, <1>9, <1>10, <1>11, <1>12, RequestMoves
<1>15. req'[r] = z /\ z.pc = "imported"
  BY <1>8, <1>12, <1>13 DEF LineupInv
<1> QED BY <1>1, <1>6, <1>14, <1>15

LEMMA DelistKeeps ==
  ASSUME Lineup!LineupAssumption, LineupInv, Lineup!Delist
  PROVE  LineupInv'
<1>1. /\ inventory' = Tail(inventory) /\ writers' = {} /\ inventory # <<>> /\ file' = file /\ cache' = cache
      /\ lots' = lots /\ answers' = answers /\ show' = show /\ req' = req /\ given' = given
  BY DEF Lineup!Delist, Lineup!Fault
<1>2. inventory' \in Seq(Skus)
  BY <1>1, HeadTailProperties DEF LineupInv, StoreTypes
<1>3. StoreTypes' /\ GivenAnswers' /\ Lineup!ServedIsWritten'
  BY <1>1, <1>2 DEF LineupInv, StoreTypes, GivenAnswers, Lineup!ServedIsWritten
<1> QED BY <1>1, <1>3, IdleIsJob, NobodyAlone

LEMMA SellKeeps ==
  ASSUME Lineup!LineupAssumption, LineupInv, NEW k \in Skus, Lineup!Sell(k)
  PROVE  LineupInv'
<1>1. /\ lots' = [lots EXCEPT ![k] = [terms |-> MaxTerms, version |-> lots[k].version + 1]] /\ writers' = {}
      /\ file' = file /\ cache' = cache /\ inventory' = inventory /\ answers' = answers /\ show' = show /\ req' = req /\ given' = given
  BY DEF Lineup!Sell, Lineup!bounds
<1>2. lots' \in [Skus -> [terms : 0..MaxTerms, version : Nat]]
  BY <1>1 DEF LineupInv, StoreTypes, Lineup!LineupAssumption
<1>3. StoreTypes' /\ GivenAnswers' /\ Lineup!ServedIsWritten'
  BY <1>1, <1>2 DEF LineupInv, StoreTypes, GivenAnswers, Lineup!ServedIsWritten
<1> QED BY <1>1, <1>3, IdleIsJob, NobodyAlone

LEMMA RestartKeeps ==
  ASSUME Lineup!LineupAssumption, LineupInv, Lineup!Restart
  PROVE  LineupInv'
<1>1. /\ cache' = <<>> /\ writers' = {} /\ req' = [r \in Lineup!Requests |-> Lineup!Idle]
      /\ show' = [row |-> show.row, catalog |-> "none", agent |-> "none"]
      /\ file' = file /\ inventory' = inventory /\ lots' = lots /\ answers' = answers /\ given' = given
  BY DEF Lineup!Restart, Lineup!Fault, Lineup!None
<1>2. StoreTypes' /\ GivenAnswers' /\ Lineup!ServedIsWritten'
  BY <1>1 DEF LineupInv, StoreTypes, GivenAnswers, Lineup!ServedIsWritten
<1> QED BY <1>1, <1>2, IdleIsJob, NobodyAlone

(* Only the directory moves, and what a catalog lists and answers does not. *)
LEMMA DirectoryKeeps ==
  ASSUME Lineup!LineupAssumption, LineupInv,
         (\E c \in Catalogs : Lineup!SeedAgent(c)) \/ Lineup!reloadCatalogs
  PROVE  LineupInv'
<1>1. /\ inventory' = inventory /\ lots' = lots /\ answers' = answers /\ show' = show /\ req' = req /\ given' = given /\ writers' = writers
      /\ cache' = cache \/ cache' = <<>>
  BY DEF Lineup!SeedAgent, Lineup!reloadCatalogs, Lineup!bounds
<1>2. /\ file' \in [Catalogs -> Sheet]
      /\ \A d \in Catalogs : file'[d].items = file[d].items /\ file'[d].qa = file[d].qa
  <2>1. file \in [Catalogs -> Sheet]
    BY DEF LineupInv, StoreTypes
  <2>2. CASE file' = file
    BY <2>1, <2>2
  <2>3. ASSUME NEW c \in Catalogs, file' = [file EXCEPT ![c].agent = "shared"]
        PROVE  /\ file' \in [Catalogs -> Sheet]
               /\ \A d \in Catalogs : file'[d].items = file[d].items /\ file'[d].qa = file[d].qa
    <3> DEFINE e == [file[c] EXCEPT !.agent = "shared"]
    <3>1. e \in Sheet /\ e.items = file[c].items /\ e.qa = file[c].qa
      BY <2>1 DEF Sheet
    <3>2. file' = [file EXCEPT ![c] = e]
      BY <2>3
    <3> HIDE DEF e
    <3> QED BY <2>1, <3>1, <3>2
  <2> QED BY <2>2, <2>3 DEF Lineup!SeedAgent, Lineup!reloadCatalogs
<1>3. StoreTypes' /\ GivenAnswers'
  BY <1>1, <1>2 DEF LineupInv, StoreTypes, GivenAnswers
<1>4. Lineup!ServedIsWritten'
  BY <1>1, <1>2 DEF LineupInv, Lineup!ServedIsWritten
<1>5. Undisturbed'
  BY <1>1 DEF LineupInv, Undisturbed
<1>6. Followed'
  <2> SUFFICES ASSUME NEW r \in writers' PROVE Importing(req[r])' /\ Applying(req[r])'
    BY DEF Followed
  <2>1. r \in writers /\ Importing(req[r]) /\ Applying(req[r])
    BY <1>1 DEF LineupInv, Followed
  <2>2. Mine \in Catalogs
    BY DEF Lineup!LineupAssumption
  <2> QED BY <1>1, <1>2, <2>1, <2>2 DEF Importing, Applying
<1> QED BY <1>1, <1>3, <1>4, <1>5, <1>6 DEF LineupInv

LEMMA Loads ==
  ASSUME LineupInv
  PROVE  /\ Lineup!load \in [Catalogs -> Sheet]
         /\ \A c \in Catalogs : Lineup!load[c].items = file[c].items /\ Lineup!load[c].qa = file[c].qa
         /\ \A c \in Catalogs : Lineup!getCatalog(c) = Lineup!load[c]
BY DEF LineupInv, StoreTypes, Lineup!ServedIsWritten, Lineup!load, Lineup!getCatalog

LEMMA ApplyStartKeeps ==
  ASSUME Lineup!LineupAssumption, LineupInv, NEW r \in Hosts, NEW kind \in {"attach", "swap", "resume"}, NEW c \in Catalogs,
         Lineup!ApplyStart(r, kind, c)
  PROVE  LineupInv'
<1> DEFINE l == Lineup!load
           g == Lineup!getCatalog(c)
           h == [k \in Skus |-> lots[k].terms]
           t == {k \in Skus : g.items[k] # 0}
           x == [Lineup!Idle EXCEPT !.pc = "apply", !.kind = kind, !.id = c, !.cat = g, !.had = h, !.todo = t]
<1>1. /\ cache' = <<l>> /\ (show' = show \/ show' = [show EXCEPT !.agent = "own"])
      /\ file' = file /\ inventory' = inventory /\ lots' = lots /\ answers' = answers /\ given' = given
      /\ writers' = IF \A o \in Lineup!Requests \ {r} : req[o].pc = "idle" THEN {r} ELSE {}
  BY DEF Lineup!ApplyStart, Lineup!Task, Lineup!Alone, Lineup!At
<1>2. req' = [req EXCEPT ![r] = x]
  BY Zenon DEF Lineup!ApplyStart
<1>3. /\ l \in [Catalogs -> Sheet] /\ g \in Sheet /\ h \in [Skus -> 0..MaxTerms] /\ t \subseteq Skus
      /\ \A d \in Catalogs : l[d].items = file[d].items /\ l[d].qa = file[d].qa
  BY Loads DEF LineupInv, StoreTypes
<1> HIDE DEF l
<1>4. x \in Job /\ x.pc = "apply" /\ x.cat = g /\ x.had = h /\ x.todo = t
  <2> HIDE DEF g, h, t
  <2> QED BY <1>3, IdleIsJob, JobFields DEF Lineup!Idle, Job, Steps
<1> HIDE DEF x
<1>5. StoreTypes' /\ GivenAnswers' /\ Lineup!ServedIsWritten'
  <2>1. show' \in [row : Catalogs \cup {"none"}, catalog : Catalogs \cup {"none"}, agent : {"none", "own", "shared"}]
    BY <1>1 DEF LineupInv, StoreTypes
  <2> QED BY <1>1, <1>3, <2>1 DEF LineupInv, StoreTypes, GivenAnswers, Lineup!ServedIsWritten
<1>6. PICK z \in Job : z = x
  BY <1>4
<1>7. Importing(z)' /\ Applying(z)'
  <2>1. \A k \in Skus : h[k] = lots[k].terms /\ (g.items[k] # 0 => k \in t)
    OBVIOUS
  <2> HIDE DEF g, h, t
  <2> QED BY <1>1, <1>4, <1>6, <2>1 DEF Importing, Applying
<1>8. r \in Lineup!Requests /\ req' = [req EXCEPT ![r] = z]
  BY <1>2, <1>6 DEF Lineup!Requests
<1>9. writers' \subseteq {r} /\ (r \in writers' => \A o \in Lineup!Requests : o # r => req[o].pc = "idle")
  BY <1>1
<1> QED BY <1>5, <1>7, <1>8, <1>9, RequestMoves

LEMMA ApplyItemKeeps ==
  ASSUME Lineup!LineupAssumption, LineupInv, NEW r \in Hosts, NEW k \in Skus, Lineup!ApplyItem(r, k)
  PROVE  LineupInv' /\ \A j \in Skus : lots'[j].terms # lots[j].terms => lots'[j].version > lots[j].version
<1> DEFINE y == req[r]
           m == y.cat.items[k]
           x == [y EXCEPT !.todo = y.todo \ {k}]
<1>1. /\ y \in Job /\ y.pc = "apply" /\ k \in y.todo /\ writers' = writers \cap {r}
      /\ lots' = IF y.had[k] = m THEN lots ELSE [lots EXCEPT ![k] = [terms |-> m, version |-> lots[k].version + 1]]
      /\ file' = file /\ cache' = cache /\ inventory' = inventory /\ answers' = answers /\ show' = show /\ given' = given
  BY DEF Lineup!ApplyItem, Lineup!At, Lineup!Met, Lineup!bounds, Lineup!Requests, LineupInv
<1>2. req' = [req EXCEPT ![r] = x]
  BY Zenon DEF Lineup!ApplyItem
<1>3. y.cat \in Sheet /\ y.had \in [Skus -> 0..MaxTerms] /\ y.todo \subseteq Skus /\ m \in 0..MaxTerms
  <2>1. y.cat \in Sheet /\ y.had \in [Skus -> 0..MaxTerms] /\ y.todo \subseteq Skus
    BY <1>1, JobFields
  <2>2. y.cat.items \in [Skus -> 0..MaxTerms]
    BY <2>1 DEF Sheet
  <2> QED BY <2>1, <2>2
<1>4. x \in Job /\ x.pc = "apply" /\ x.todo = y.todo \ {k} /\ x.cat = y.cat /\ x.had = y.had
  <2>1. y \in Job /\ y.todo \ {k} \in SUBSET Skus /\ y.pc = "apply"
    BY <1>1, <1>3
  <2> HIDE DEF y
  <2> QED BY <2>1, NextTodo
<1> HIDE DEF x
<1>5. /\ lots' \in [Skus -> [terms : 0..MaxTerms, version : Nat]]
      /\ lots'[k].terms = IF y.had[k] = m THEN lots[k].terms ELSE m
      /\ \A j \in Skus : j # k => lots'[j] = lots[j]
      /\ \A j \in Skus : lots'[j].terms # lots[j].terms => lots'[j].version > lots[j].version
  <2>1. lots \in [Skus -> [terms : 0..MaxTerms, version : Nat]]
    BY DEF LineupInv, StoreTypes
  <2> HIDE DEF m
  <2> QED BY <1>1, <1>3, <2>1
<1>6. StoreTypes' /\ GivenAnswers' /\ Lineup!ServedIsWritten'
  BY <1>1, <1>5 DEF LineupInv, StoreTypes, GivenAnswers, Lineup!ServedIsWritten
<1>7. PICK z \in Job : z = x
  BY <1>4
<1>8. ASSUME r \in writers' PROVE Importing(z)' /\ Applying(z)'
  <2>1. Applying(y) /\ r \in writers
    BY <1>1, <1>8 DEF LineupInv, Followed
  <2>2. \A j \in Skus : y.cat.items[j] # 0 => lots[j].terms = IF j \in y.todo THEN y.had[j] ELSE y.cat.items[j]
    BY <1>1, <2>1 DEF Applying
  <2>3. \A j \in Skus : y.cat.items[j] # 0 => lots'[j].terms = IF j \in y.todo \ {k} THEN y.had[j] ELSE y.cat.items[j]
    BY <1>1, <1>5, <2>2
  <2> QED BY <1>4, <1>7, <2>3 DEF Importing, Applying
<1>9. r \in Lineup!Requests /\ req' = [req EXCEPT ![r] = z] /\ writers' \subseteq {r}
  BY <1>1, <1>2, <1>7 DEF Lineup!Requests
<1>10. r \in writers' => \A o \in Lineup!Requests : o # r => req[o].pc = "idle"
  BY <1>1 DEF LineupInv, Undisturbed
<1>11. LineupInv'
  BY <1>6, <1>8, <1>9, <1>10, RequestMoves
<1> QED BY <1>5, <1>11

LEMMA ApplyAnswersKeeps ==
  ASSUME Lineup!LineupAssumption, LineupInv, NEW r \in Hosts, Lineup!ApplyAnswers(r)
  PROVE  LineupInv'
<1> DEFINE y == req[r]
           x == [y EXCEPT !.pc = "applied"]
<1>1. /\ y \in Job /\ y.pc = "apply" /\ y.todo = {} /\ writers' = writers \cap {r}
      /\ answers' = IF y.cat.qa # 0 THEN y.cat.qa ELSE answers
      /\ show' = [row |-> IF y.kind = "attach" THEN y.id ELSE show.row, catalog |-> y.id,
                  agent |-> IF y.kind # "attach" /\ y.cat.agent # "none" THEN y.cat.agent ELSE show.agent]
      /\ file' = file /\ cache' = cache /\ inventory' = inventory /\ lots' = lots /\ given' = given
  BY DEF Lineup!ApplyAnswers, Lineup!At, Lineup!Met, Lineup!bounds, Lineup!Requests, Lineup!None, LineupInv
<1>2. req' = [req EXCEPT ![r] = x]
  BY Zenon DEF Lineup!ApplyAnswers
<1>3. y.cat.qa \in 0..MaxAnswers /\ y.cat.agent \in {"none", "shared"} /\ y.id \in Catalogs \cup {"none"}
  <2>1. y.cat \in Sheet /\ y.id \in Catalogs \cup {"none"}
    BY <1>1, JobFields
  <2> HIDE DEF y
  <2> QED BY <2>1 DEF Sheet
<1>4. x \in Job /\ x.pc = "applied" /\ x.cat = y.cat
  <2>1. y \in Job /\ "applied" \in Steps
    BY <1>1 DEF Steps
  <2> HIDE DEF y
  <2> QED BY <2>1, NextStep
<1> HIDE DEF x
<1>5. StoreTypes' /\ GivenAnswers' /\ Lineup!ServedIsWritten'
  <2>1. show' \in [row : Catalogs \cup {"none"}, catalog : Catalogs \cup {"none"}, agent : {"none", "own", "shared"}]
    BY <1>1, <1>3 DEF LineupInv, StoreTypes
  <2>2. answers' \in 0..MaxAnswers
    BY <1>1, <1>3 DEF LineupInv, StoreTypes
  <2> QED BY <1>1, <2>1, <2>2 DEF LineupInv, StoreTypes, GivenAnswers, Lineup!ServedIsWritten
<1>6. PICK z \in Job : z = x
  BY <1>4
<1>7. ASSUME r \in writers' PROVE Importing(z)' /\ Applying(z)'
  <2>1. Applying(y) /\ r \in writers
    BY <1>1, <1>7 DEF LineupInv, Followed
  <2> QED BY <1>1, <1>4, <1>6, <2>1 DEF Importing, Applying
<1>8. r \in Lineup!Requests /\ req' = [req EXCEPT ![r] = z] /\ writers' \subseteq {r}
  BY <1>1, <1>2, <1>6 DEF Lineup!Requests
<1>9. r \in writers' => \A o \in Lineup!Requests : o # r => req[o].pc = "idle"
  BY <1>1 DEF LineupInv, Undisturbed
<1> QED BY <1>5, <1>7, <1>8, <1>9, RequestMoves

LEMMA LineupKept ==
  ASSUME Lineup!LineupAssumption, LineupInv, [Lineup!Next]_Lineup!vars
  PROVE  LineupInv'
<1>1. CASE UNCHANGED Lineup!vars
  BY <1>1 DEF Lineup!vars, Lineup!bounds, LineupInv, StoreTypes, GivenAnswers, Undisturbed, Followed, Importing, Applying,
              Lineup!ServedIsWritten
<1>2. CASE Lineup!reloadCatalogs \/ \E c \in Catalogs : Lineup!SeedAgent(c)
  BY <1>2, DirectoryKeeps
<1>3. CASE Lineup!Delist
  BY <1>3, DelistKeeps
<1>4. CASE Lineup!Restart
  BY <1>4, RestartKeeps
<1>5. CASE \E k \in Skus : Lineup!Sell(k)
  BY <1>5, SellKeeps
<1>6. CASE \E r \in Lineup!Requests : Lineup!Reported(r)
  BY <1>6, EndsKeep
<1>7. ASSUME NEW r \in Sellers,
             \/ Lineup!ImportStart(r) \/ Lineup!ImportItems(r) \/ Lineup!ImportOffers(r) \/ Lineup!OffersFail(r)
             \/ Lineup!ItemsFail(r) \/ Lineup!ImportWrite(r) \/ Lineup!AnswerLive(r) \/ \E c \in Catalogs : Lineup!Answer(r, c)
      PROVE  LineupInv'
  <2>1. r \in Lineup!Requests
    BY DEF Lineup!Requests
  <2> QED BY <1>7, <2>1, ImportStartKeeps, ImportItemsKeeps, ImportOffersKeeps, EndsKeep, ImportWriteKeeps, AnswerLiveKeeps, AnswersKeep
<1>8. ASSUME NEW r \in Hosts,
             \/ Lineup!ApplyAnswers(r) \/ Lineup!ApplyFails(r) \/ \E k \in Skus : Lineup!ApplyItem(r, k)
             \/ \E c \in Catalogs, kind \in {"attach", "swap", "resume"} : Lineup!ApplyStart(r, kind, c)
      PROVE  LineupInv'
  <2>1. r \in Lineup!Requests
    BY DEF Lineup!Requests
  <2> QED BY <1>8, <2>1, ApplyAnswersKeeps, EndsKeep, ApplyItemKeeps, ApplyStartKeeps
<1> QED BY <1>1, <1>2, <1>3, <1>4, <1>5, <1>6, <1>7, <1>8 DEF Lineup!Next

LEMMA LineupBegins ==
  ASSUME Lineup!LineupAssumption, Lineup!Init
  PROVE  LineupInv
<1>1. ASSUME NEW c \in Catalogs
      PROVE  [Lineup!Blank EXCEPT !.items = Items[c]] \in Sheet /\ [Lineup!Blank EXCEPT !.items = Items[c]].qa = 0
  <2> DEFINE t == Items[c]
  <2>1. t \in [Skus -> 0..MaxTerms] /\ 0 \in 0..MaxAnswers
    BY DEF Lineup!LineupAssumption
  <2>2. [Lineup!Blank EXCEPT !.items = t] = [items |-> t, qa |-> 0, agent |-> "none"]
    BY DEF Lineup!Blank, Lineup!None
  <2> HIDE DEF t
  <2>3. [Lineup!Blank EXCEPT !.items = t] \in Sheet /\ [Lineup!Blank EXCEPT !.items = t].qa = 0
    BY <2>1, <2>2 DEF Sheet
  <2> QED BY <2>3 DEF t
<1>2. file \in [Catalogs -> Sheet] /\ \A c \in Catalogs : file[c].qa = 0
  <2> DEFINE f(c) == [Lineup!Blank EXCEPT !.items = Items[c]]
  <2>1. file = [c \in Catalogs |-> f(c)]
    BY DEF Lineup!Init
  <2>2. \A c \in Catalogs : f(c) \in Sheet /\ f(c).qa = 0
    BY <1>1
  <2> HIDE DEF f
  <2> QED BY <2>1, <2>2
<1>3. StoreTypes
  BY <1>2 DEF Lineup!LineupAssumption, Lineup!Init, Lineup!None, StoreTypes
<1>4. req \in [Lineup!Requests -> Job]
  BY IdleIsJob DEF Lineup!Init
<1>5. GivenAnswers /\ Lineup!ServedIsWritten /\ writers = {}
  BY <1>2 DEF Lineup!Init, GivenAnswers, Lineup!ServedIsWritten
<1> QED BY <1>3, <1>4, <1>5 DEF LineupInv, Undisturbed, Followed

(* However requests, ends of listings and restarts fall: what is served of  *)
(* a catalog is what was last written of it (catalogs.ts), an import that   *)
(* was alone has every listing or reports it (importEbayCatalog), and a     *)
(* catalog that was applied alone is what the show lists (applyCatalog).    *)
THEOREM LineupIsServed ==
  Lineup!LineupAssumption => (Lineup!Spec => [](/\ Lineup!TypeOK /\ Lineup!ServedIsWritten
                                                /\ Lineup!ImportIsWhole /\ Lineup!ListedAsApplied))
<1> SUFFICES ASSUME Lineup!LineupAssumption
             PROVE  Lineup!Spec => [](/\ Lineup!TypeOK /\ Lineup!ServedIsWritten
                                      /\ Lineup!ImportIsWhole /\ Lineup!ListedAsApplied)
  OBVIOUS
<1>1. LineupInv => /\ Lineup!TypeOK /\ Lineup!ServedIsWritten /\ Lineup!ImportIsWhole /\ Lineup!ListedAsApplied
  <2> SUFFICES ASSUME LineupInv
               PROVE  /\ Lineup!TypeOK /\ Lineup!ServedIsWritten /\ Lineup!ImportIsWhole /\ Lineup!ListedAsApplied
    OBVIOUS
  <2>1. Lineup!TypeOK
    <3>1. \A c \in Catalogs : file[c].qa \in 0..MaxAnswers /\ file[c].agent \in {"none", "shared"}
                             /\ file[c].items \in [Skus -> 0..MaxTerms]
      BY DEF LineupInv, StoreTypes, Sheet
    <3>2. Len(cache) \in 0..1
      BY DEF LineupInv, StoreTypes
    <3>3. \A k \in Skus : lots[k].terms \in 0..MaxTerms /\ lots[k].version \in Nat
      BY DEF LineupInv, StoreTypes
    <3> QED BY <3>1, <3>2, <3>3 DEF LineupInv, StoreTypes, Lineup!TypeOK, Lineup!None
  <2>2. Lineup!ImportIsWhole
    <3>1. DOMAIN inventory = 1..Len(inventory)
      BY DEF LineupInv, StoreTypes
    <3>2. \A r \in writers : Importing(req[r])
      BY DEF LineupInv, Followed
    <3> QED BY <3>1, <3>2 DEF Importing, Lineup!ImportIsWhole, Lineup!At
  <2>3. Lineup!ListedAsApplied
    BY DEF LineupInv, Followed, Applying, Lineup!ListedAsApplied, Lineup!At
  <2> QED BY <2>1, <2>2, <2>3 DEF LineupInv
<1>2. Lineup!Init => LineupInv
  BY LineupBegins
<1>3. LineupInv /\ [Lineup!Next]_Lineup!vars => LineupInv'
  BY LineupKept
<1> QED BY <1>1, <1>2, <1>3, PTL DEF Lineup!Spec

(* A lot's terms do not move under its version, whoever moves them          *)
(* (applyCatalog's updateListing and the sales that run beside it).         *)
THEOREM TermsCarryTheirVersion == Lineup!LineupAssumption => (Lineup!Spec => Lineup!TermsMoveWithVersion)
<1> SUFFICES ASSUME Lineup!LineupAssumption PROVE Lineup!Spec => Lineup!TermsMoveWithVersion
  OBVIOUS
<1> DEFINE Moves == \A k \in Skus : lots'[k].terms # lots[k].terms => lots'[k].version > lots[k].version
<1>1. LineupInv /\ [Lineup!Next]_Lineup!vars => [Moves]_Lineup!vars
  <2> SUFFICES ASSUME LineupInv, [Lineup!Next]_Lineup!vars PROVE Moves
    OBVIOUS
  <2>1. CASE lots' = lots
    BY <2>1
  <2>2. ASSUME NEW k \in Skus, Lineup!Sell(k) PROVE Moves
    <3>1. /\ lots \in [Skus -> [terms : 0..MaxTerms, version : Nat]]
          /\ lots' = [lots EXCEPT ![k] = [terms |-> MaxTerms, version |-> lots[k].version + 1]]
      BY <2>2 DEF Lineup!Sell, LineupInv, StoreTypes
    <3> QED BY <3>1
  <2>3. ASSUME NEW r \in Hosts, NEW k \in Skus, Lineup!ApplyItem(r, k) PROVE Moves
    BY <2>3, ApplyItemKeeps
  <2>4. lots' = lots \/ (\E k \in Skus : Lineup!Sell(k)) \/ (\E r \in Hosts, k \in Skus : Lineup!ApplyItem(r, k))
    BY DEF Lineup!Next, Lineup!vars, Lineup!reloadCatalogs, Lineup!Delist, Lineup!Restart, Lineup!SeedAgent, Lineup!Reported,
           Lineup!ImportStart, Lineup!ImportItems, Lineup!ImportOffers, Lineup!OffersFail, Lineup!ItemsFail, Lineup!ImportWrite,
           Lineup!AnswerLive, Lineup!Answer, Lineup!ApplyAnswers, Lineup!ApplyFails, Lineup!ApplyStart
  <2> QED BY <2>1, <2>2, <2>3, <2>4
<1>2. Lineup!Init => LineupInv
  BY LineupBegins
<1>3. LineupInv /\ [Lineup!Next]_Lineup!vars => LineupInv'
  BY LineupKept
<1> QED BY <1>1, <1>2, <1>3, PTL DEF Lineup!Spec, Lineup!TermsMoveWithVersion

(* What a seller has answered, and the agent that was seeded, stay in a     *)
(* catalog's file, but for an import of it (addCatalogQa, setCatalogAgent). *)
THEOREM FilesAreKept == Lineup!LineupAssumption => (Lineup!Spec => Lineup!FilesKeep)
<1> SUFFICES ASSUME Lineup!LineupAssumption PROVE Lineup!Spec => Lineup!FilesKeep
  OBVIOUS
<1> DEFINE Kept == \A c \in Catalogs :
             (c # Mine \/ \A r \in Lineup!Requests : req'[r].pc # "imported" \/ Lineup!At(r, "imported")) =>
               /\ file'[c].qa >= file[c].qa
               /\ file[c].agent # Lineup!None => file'[c].agent = file[c].agent
<1>1. LineupInv /\ [Lineup!Next]_Lineup!vars => [Kept]_Lineup!vars
  <2> SUFFICES ASSUME LineupInv, [Lineup!Next]_Lineup!vars PROVE Kept
    OBVIOUS
  <2>0. /\ file \in [Catalogs -> Sheet] /\ given \in Nat
        /\ \A c \in Catalogs : file[c].qa \in Nat /\ file[c].qa <= given
    BY DEF LineupInv, StoreTypes, GivenAnswers, Sheet, Lineup!LineupAssumption
  <2>1. CASE file' = file
    BY <2>0, <2>1
  <2>2. ASSUME NEW c \in Catalogs, Lineup!SeedAgent(c) PROVE Kept
    <3>1. file[c].agent = "none" /\ file' = [file EXCEPT ![c].agent = "shared"]
      BY <2>2 DEF Lineup!SeedAgent, Lineup!None
    <3>2. \A d \in Catalogs : file'[d].qa = file[d].qa /\ (d # c => file'[d] = file[d])
      BY <2>0, <3>1 DEF Sheet
    <3> QED BY <2>0, <3>1, <3>2 DEF Lineup!None
  <2>3. ASSUME NEW r \in Sellers, NEW c \in Catalogs, Lineup!Answer(r, c) PROVE Kept
    <3>1. file' = [file EXCEPT ![c].qa = given + 1]
      BY <2>3 DEF Lineup!Answer, Lineup!addCatalogQa
    <3>2. file'[c].qa = given + 1 /\ (\A d \in Catalogs : file'[d].agent = file[d].agent /\ (d # c => file'[d] = file[d]))
      BY <2>0, <3>1 DEF Sheet
    <3> QED BY <2>0, <3>2
  <2>4. ASSUME NEW r \in Sellers, Lineup!ImportWrite(r) PROVE Kept
    <3>1. /\ r \in Lineup!Requests /\ req[r].pc = "file" /\ req'[r].pc = "imported"
          /\ \A c \in Catalogs : c # Mine => file'[c] = file[c]
      BY <2>4, ImportWriteKeeps DEF Lineup!Requests
    <3> QED BY <2>0, <3>1 DEF Lineup!At
  <2>5. \/ file' = file
        \/ \E c \in Catalogs : Lineup!SeedAgent(c)
        \/ \E r \in Sellers : Lineup!ImportWrite(r) \/ \E c \in Catalogs : Lineup!Answer(r, c)
    BY DEF Lineup!Next, Lineup!vars, Lineup!reloadCatalogs, Lineup!Delist, Lineup!Restart, Lineup!Sell, Lineup!Reported,
           Lineup!ImportStart, Lineup!ImportItems, Lineup!ImportOffers, Lineup!OffersFail, Lineup!ItemsFail,
           Lineup!AnswerLive, Lineup!ApplyAnswers, Lineup!ApplyFails, Lineup!ApplyItem, Lineup!ApplyStart
  <2> QED BY <2>1, <2>2, <2>3, <2>4, <2>5
<1>2. Lineup!Init => LineupInv
  BY LineupBegins
<1>3. LineupInv /\ [Lineup!Next]_Lineup!vars => LineupInv'
  BY LineupKept
<1> QED BY <1>1, <1>2, <1>3, PTL DEF Lineup!Spec, Lineup!FilesKeep

-----------------------------------------------------------------------------
(***************************************************************************)
(* The host's audio.  The files and the rows are two writes of an upload,  *)
(* and other uploads write between them; but only one that holds the same  *)
(* number reaches the same file or row, and two chunks that were given one *)
(* number are both noted in `taken`, whichever of them came first.         *)
(***************************************************************************)
CONSTANTS Chunks, Uploaders, MaxAttempts, MaxLosses

VARIABLES attempts, acked, uploads, table, bytes, taken, losses

Audio == INSTANCE AudioChunks WITH tries <- attempts, req <- uploads, files <- bytes, Requests <- Uploaders

Upload == [pc : {"idle", "find", "number", "write", "store"}, chunk : Chunks \cup {Audio!NoChunk}, seq : Audio!Seqs]
Holds(x) == x.pc \in {"write", "store"}

AudioTypes ==
  /\ Audio!TypeOK /\ uploads \in [Uploaders -> Upload]
  /\ \A r \in Uploaders : uploads[r].pc # "idle" => uploads[r].chunk \in Chunks

(* Who holds a number with another, or one whose row is another's. *)
SharesNumber ==
  /\ \A r, q \in Uploaders :
       Holds(uploads[r]) /\ Holds(uploads[q]) /\ uploads[r].seq = uploads[q].seq /\ uploads[r].chunk # uploads[q].chunk =>
         uploads[r].chunk \in taken
  /\ \A r \in Uploaders :
       Holds(uploads[r]) /\ table[uploads[r].seq] # Audio!NoChunk /\ table[uploads[r].seq] # uploads[r].chunk =>
         uploads[r].chunk \in taken /\ table[uploads[r].seq] \in taken

(* A row, and an upload that is about to write one, has its bytes. *)
HasBytes ==
  /\ \A r \in Uploaders : uploads[r].pc = "store" => bytes[uploads[r].seq] = uploads[r].chunk \/ uploads[r].chunk \in taken
  /\ \A n \in Audio!Seqs : table[n] = Audio!NoChunk \/ bytes[n] = table[n] \/ table[n] \in taken

HasRow == \A c \in acked : c \in taken \/ \E n \in Audio!Seqs : table[n] = c

AudioInv == AudioTypes /\ SharesNumber /\ HasBytes /\ HasRow

LEMMA ChunksAreCounted == \A S : Audio!Cardinality(S) = Cardinality(S) /\ (Audio!IsFiniteSet(S) <=> IsFiniteSet(S))
BY DEF Audio!Cardinality, Cardinality, Audio!IsFiniteSet, IsFiniteSet

LEMMA ChunkIsNamed ==
  ASSUME Audio!AudioAssumption
  PROVE  Audio!NoChunk \notin Chunks /\ 0 \in Audio!Seqs /\ Audio!Idle \in Upload
<1>1. Audio!NoChunk \notin Chunks
  BY DEF Audio!AudioAssumption, Audio!NoChunk
<1>2. 0 \in Audio!Seqs
  <2>1. IsFiniteSet(Chunks) /\ Audio!Cardinality(Chunks) = Cardinality(Chunks) /\ MaxAttempts \in Nat
    BY ChunksAreCounted DEF Audio!AudioAssumption
  <2>2. Cardinality(Chunks) \in Nat
    BY <2>1, FS_CardinalityType
  <2>3. Audio!Cardinality(Chunks) * MaxAttempts \in Nat
    BY <2>1, <2>2
  <2> QED BY <2>3 DEF Audio!Seqs
<1> QED BY <1>1, <1>2 DEF Audio!Idle, Upload

(* An upload is given a number. *)
LEMMA GiveKeeps ==
  ASSUME Audio!AudioAssumption, AudioInv, NEW r \in Uploaders, NEW n \in Audio!Seqs, uploads[r].pc \in {"find", "number"},
         Audio!Give(r, n, "write"), attempts' = attempts, acked' = acked, table' = table, bytes' = bytes, losses' = losses
  PROVE  AudioInv'
<1> DEFINE c == uploads[r].chunk
           others == {d \in Chunks \ {c} :
                        table[n] = d \/ \E q \in Uploaders : uploads[q] = [pc |-> "store", chunk |-> d, seq |-> n]
                                                          \/ uploads[q] = [pc |-> "write", chunk |-> d, seq |-> n]}
<1>1. /\ uploads' = [uploads EXCEPT ![r] = [pc |-> "write", chunk |-> c, seq |-> n]]
      /\ taken' = IF others = {} THEN taken ELSE taken \cup others \cup {c}
  BY DEF Audio!Give
<1>2. c \in Chunks /\ uploads \in [Uploaders -> Upload] /\ taken \subseteq Chunks
  BY DEF AudioInv, AudioTypes, Audio!TypeOK
<1>3. /\ uploads' \in [Uploaders -> Upload]
      /\ uploads'[r].pc = "write" /\ uploads'[r].chunk = c /\ uploads'[r].seq = n
      /\ \A q \in Uploaders : q # r => uploads'[q] = uploads[q]
  BY <1>1, <1>2 DEF Upload
<1>4. taken \subseteq taken' /\ taken' \subseteq Chunks
  BY <1>1, <1>2
<1>5. ASSUME NEW d \in Chunks, d # c, table[n] = d PROVE c \in taken' /\ d \in taken'
  BY <1>1, <1>5
<1>6. ASSUME NEW q \in Uploaders, Holds(uploads[q]), uploads[q].seq = n, uploads[q].chunk # c
      PROVE  c \in taken' /\ uploads[q].chunk \in taken'
  <2>1. uploads[q].chunk \in Chunks /\ uploads[q] \in Upload
    BY <1>2, <1>6 DEF AudioInv, AudioTypes, Holds
  <2>2. \/ uploads[q] = [pc |-> "store", chunk |-> uploads[q].chunk, seq |-> n]
        \/ uploads[q] = [pc |-> "write", chunk |-> uploads[q].chunk, seq |-> n]
    BY <1>6, <2>1 DEF Upload, Holds
  <2>3. uploads[q].chunk \in others
    BY <1>6, <2>1, <2>2
  <2> HIDE DEF others
  <2> QED BY <1>1, <2>3
<1> HIDE DEF others
<1>7. AudioTypes'
  BY <1>2, <1>3, <1>4 DEF AudioInv, AudioTypes, Audio!TypeOK
<1>8. SharesNumber'
  <2>1. ASSUME NEW p \in Uploaders, NEW q \in Uploaders, Holds(uploads'[p]), Holds(uploads'[q]), uploads'[p].seq = uploads'[q].seq,
               uploads'[p].chunk # uploads'[q].chunk
        PROVE  uploads'[p].chunk \in taken'
    <3>1. CASE p # r /\ q # r
      BY <1>3, <1>4, <2>1, <3>1 DEF AudioInv, SharesNumber
    <3>2. CASE p = r /\ q # r
      BY <1>3, <1>6, <2>1, <3>2
    <3>3. CASE p # r /\ q = r
      BY <1>3, <1>6, <2>1, <3>3
    <3> QED BY <2>1, <3>1, <3>2, <3>3
  <2>2. ASSUME NEW p \in Uploaders, Holds(uploads'[p]), table[uploads'[p].seq] # Audio!NoChunk,
               table[uploads'[p].seq] # uploads'[p].chunk
        PROVE  uploads'[p].chunk \in taken' /\ table[uploads'[p].seq] \in taken'
    <3>1. CASE p # r
      BY <1>3, <1>4, <2>2, <3>1 DEF AudioInv, SharesNumber
    <3>2. CASE p = r
      <4>1. table[n] \in Chunks
        BY <1>3, <2>2, <3>2 DEF AudioInv, AudioTypes, Audio!TypeOK
      <4> QED BY <1>3, <1>5, <2>2, <3>2, <4>1
    <3> QED BY <3>1, <3>2
  <2> QED BY <2>1, <2>2 DEF SharesNumber
<1>9. HasBytes' /\ HasRow'
  BY <1>3, <1>4 DEF AudioInv, HasBytes, HasRow
<1> QED BY <1>7, <1>8, <1>9 DEF AudioInv

LEMMA UploadsKeep ==
  ASSUME Audio!AudioAssumption, AudioInv, NEW r \in Uploaders,
         Audio!Post(r) \/ Audio!Find(r) \/ Audio!Number(r) \/ Audio!WriteFile(r) \/ Audio!Store(r)
  PROVE  AudioInv'
<1> DEFINE x == uploads[r]
<1>0. /\ uploads \in [Uploaders -> Upload] /\ x \in Upload /\ (x.pc # "idle" => x.chunk \in Chunks) /\ taken \subseteq Chunks
      /\ table \in [Audio!Seqs -> Chunks \cup {Audio!NoChunk}] /\ bytes \in [Audio!Seqs -> Chunks \cup {Audio!NoChunk}]
      /\ x.seq \in Audio!Seqs
  BY DEF AudioInv, AudioTypes, Audio!TypeOK, Upload
<1>1. ASSUME NEW c \in Chunks, attempts[c] < MaxAttempts, attempts' = [attempts EXCEPT ![c] = attempts[c] + 1],
             uploads' = [uploads EXCEPT ![r] = [pc |-> "find", chunk |-> c, seq |-> 0]],
             acked' = acked, table' = table, bytes' = bytes, taken' = taken, losses' = losses
      PROVE  AudioInv'
  <2>1. attempts' \in [Chunks -> 0..MaxAttempts]
    BY <1>1 DEF AudioInv, AudioTypes, Audio!TypeOK, Audio!AudioAssumption
  <2>2. /\ uploads' \in [Uploaders -> Upload] /\ uploads'[r].pc = "find" /\ uploads'[r].chunk = c
        /\ \A q \in Uploaders : q # r => uploads'[q] = uploads[q]
    BY <1>0, <1>1, ChunkIsNamed DEF Upload
  <2>3. AudioTypes'
    BY <1>1, <2>1, <2>2 DEF AudioInv, AudioTypes, Audio!TypeOK
  <2>4. SharesNumber'
    BY <1>1, <2>2 DEF AudioInv, SharesNumber, Holds
  <2> QED BY <1>1, <2>2, <2>3, <2>4 DEF AudioInv, HasBytes, HasRow
<1>2. CASE Audio!Post(r)
  BY <1>1, <1>2 DEF Audio!Post
<1>3. CASE Audio!Find(r) /\ Audio!RowsOf(x.chunk) # {}
  BY <1>3, GiveKeeps DEF Audio!Find, Audio!RowsOf, Audio!Taken
<1>4. CASE Audio!Find(r) /\ Audio!RowsOf(x.chunk) = {}
  <2>1. /\ x.pc = "find" /\ uploads' = [uploads EXCEPT ![r].pc = "number"] /\ taken' = taken
        /\ attempts' = attempts /\ acked' = acked /\ table' = table /\ bytes' = bytes /\ losses' = losses
    BY <1>4 DEF Audio!Find
  <2>2. /\ uploads' \in [Uploaders -> Upload] /\ uploads'[r].pc = "number" /\ uploads'[r].chunk = x.chunk
        /\ \A q \in Uploaders : q # r => uploads'[q] = uploads[q]
    BY <1>0, <2>1 DEF Upload
  <2>3. AudioTypes'
    BY <1>0, <2>1, <2>2 DEF AudioInv, AudioTypes, Audio!TypeOK
  <2>4. SharesNumber'
    BY <2>1, <2>2 DEF AudioInv, SharesNumber, Holds
  <2> QED BY <2>1, <2>2, <2>3, <2>4 DEF AudioInv, HasBytes, HasRow
<1>5. CASE Audio!Number(r)
  BY <1>5, GiveKeeps DEF Audio!Number
<1>6. CASE Audio!WriteFile(r)
  <2>1. /\ x.pc = "write" /\ uploads' = [uploads EXCEPT ![r].pc = "store"] /\ bytes' = [bytes EXCEPT ![x.seq] = x.chunk]
        /\ taken' = taken /\ attempts' = attempts /\ acked' = acked /\ table' = table /\ losses' = losses
    BY <1>6 DEF Audio!WriteFile
  <2>2. /\ uploads' \in [Uploaders -> Upload] /\ uploads'[r].pc = "store" /\ uploads'[r].chunk = x.chunk /\ uploads'[r].seq = x.seq
        /\ \A q \in Uploaders : q # r => uploads'[q] = uploads[q]
    BY <1>0, <2>1 DEF Upload
  <2>3. /\ bytes' \in [Audio!Seqs -> Chunks \cup {Audio!NoChunk}]
        /\ bytes'[x.seq] = x.chunk /\ \A n \in Audio!Seqs : n # x.seq => bytes'[n] = bytes[n]
    BY <1>0, <2>1
  <2>4. AudioTypes'
    BY <1>0, <2>1, <2>2, <2>3 DEF AudioInv, AudioTypes, Audio!TypeOK
  <2>5. SharesNumber'
    BY <2>1, <2>2 DEF AudioInv, SharesNumber, Holds
  <2>6. HasBytes'
    <3>1. ASSUME NEW q \in Uploaders, uploads'[q].pc = "store" PROVE bytes'[uploads'[q].seq] = uploads'[q].chunk \/ uploads'[q].chunk \in taken
      <4>1. CASE q = r
        BY <2>2, <2>3, <4>1
      <4>2. CASE q # r /\ uploads[q].seq = x.seq /\ uploads[q].chunk # x.chunk
        BY <2>1, <2>2, <3>1, <4>2 DEF AudioInv, SharesNumber, Holds
      <4>3. CASE q # r /\ uploads[q].seq # x.seq
        <5>1. uploads[q].seq \in Audio!Seqs
          BY <1>0 DEF Upload
        <5> QED BY <2>2, <2>3, <3>1, <4>3, <5>1 DEF AudioInv, HasBytes
      <4>4. CASE q # r /\ uploads[q].seq = x.seq /\ uploads[q].chunk = x.chunk
        BY <2>2, <2>3, <4>4
      <4> QED BY <4>1, <4>2, <4>3, <4>4
    <3>2. ASSUME NEW n \in Audio!Seqs PROVE table[n] = Audio!NoChunk \/ bytes'[n] = table[n] \/ table[n] \in taken
      <4>1. CASE n # x.seq
        BY <2>3, <4>1 DEF AudioInv, HasBytes
      <4>2. CASE n = x.seq
        BY <2>1, <2>3, <4>2 DEF AudioInv, SharesNumber, Holds
      <4> QED BY <4>1, <4>2
    <3> QED BY <2>1, <3>1, <3>2 DEF HasBytes
  <2> QED BY <2>1, <2>4, <2>5, <2>6 DEF AudioInv, HasRow
<1>7. CASE Audio!Store(r)
  <2>1. /\ x.pc = "store" /\ uploads' = [uploads EXCEPT ![r] = Audio!Idle]
        /\ taken' = taken /\ attempts' = attempts /\ bytes' = bytes /\ losses' = losses
        /\ \/ table' = table /\ acked' = acked
           \/ table' = [table EXCEPT ![x.seq] = x.chunk] /\ acked' = acked \cup {x.chunk}
    BY <1>7 DEF Audio!Store
  <2>2. /\ uploads' \in [Uploaders -> Upload] /\ uploads'[r].pc = "idle"
        /\ \A q \in Uploaders : q # r => uploads'[q] = uploads[q]
    BY <1>0, <2>1, ChunkIsNamed DEF Upload, Audio!Idle
  <2>3. CASE table' = table /\ acked' = acked
    <3>1. AudioTypes'
      BY <2>1, <2>2, <2>3 DEF AudioInv, AudioTypes, Audio!TypeOK
    <3>2. SharesNumber'
      BY <2>1, <2>2, <2>3 DEF AudioInv, SharesNumber, Holds
    <3> QED BY <2>1, <2>2, <2>3, <3>1, <3>2 DEF AudioInv, HasBytes, HasRow
  <2>4. CASE table' = [table EXCEPT ![x.seq] = x.chunk] /\ acked' = acked \cup {x.chunk}
    <3>1. /\ table' \in [Audio!Seqs -> Chunks \cup {Audio!NoChunk}] /\ acked' \subseteq Chunks
          /\ table'[x.seq] = x.chunk /\ \A n \in Audio!Seqs : n # x.seq => table'[n] = table[n]
      BY <1>0, <2>1, <2>4 DEF AudioInv, AudioTypes, Audio!TypeOK
    <3>2. AudioTypes'
      BY <2>1, <2>2, <3>1 DEF AudioInv, AudioTypes, Audio!TypeOK
    <3>3. \A q \in Uploaders : uploads[q].seq \in Audio!Seqs
      BY <1>0 DEF Upload
    <3>4. SharesNumber'
      <4>1. ASSUME NEW q \in Uploaders, Holds(uploads'[q]), table'[uploads'[q].seq] # Audio!NoChunk,
                   table'[uploads'[q].seq] # uploads'[q].chunk
            PROVE  uploads'[q].chunk \in taken /\ table'[uploads'[q].seq] \in taken
        <5>1. q # r /\ uploads'[q] = uploads[q]
          BY <2>2, <4>1 DEF Holds
        <5>2. CASE uploads[q].seq = x.seq
          BY <2>1, <3>1, <4>1, <5>1, <5>2 DEF AudioInv, SharesNumber, Holds
        <5>3. CASE uploads[q].seq # x.seq
          BY <3>1, <3>3, <4>1, <5>1, <5>3 DEF AudioInv, SharesNumber
        <5> QED BY <5>2, <5>3
      <4>2. \A p, q \in Uploaders :
              Holds(uploads'[p]) /\ Holds(uploads'[q]) /\ uploads'[p].seq = uploads'[q].seq /\ uploads'[p].chunk # uploads'[q].chunk =>
                uploads'[p].chunk \in taken
        BY <2>2 DEF AudioInv, SharesNumber, Holds
      <4> QED BY <2>1, <4>1, <4>2 DEF SharesNumber
    <3>5. HasBytes'
      BY <1>0, <2>1, <2>2, <3>1, <3>3 DEF AudioInv, HasBytes
    <3>6. HasRow'
      <4> SUFFICES ASSUME NEW c \in acked', c \notin taken PROVE \E n \in Audio!Seqs : table'[n] = c
        BY <2>1 DEF HasRow
      <4>1. CASE c = x.chunk
        BY <1>0, <3>1, <4>1
      <4>2. CASE c # x.chunk
        <5>1. PICK n \in Audio!Seqs : table[n] = c
          BY <2>4, <4>2 DEF AudioInv, HasRow
        <5>2. c # Audio!NoChunk
          BY <2>4, <4>2, ChunkIsNamed DEF AudioInv, AudioTypes, Audio!TypeOK
        <5>3. n # x.seq
          BY <2>1, <4>2, <5>1, <5>2 DEF AudioInv, SharesNumber, Holds
        <5> QED BY <3>1, <5>1, <5>3
      <4> QED BY <4>1, <4>2
    <3> QED BY <3>2, <3>4, <3>5, <3>6 DEF AudioInv
  <2> QED BY <2>1, <2>3, <2>4
<1> QED BY <1>2, <1>3, <1>4, <1>5, <1>6, <1>7

(* However uploads overlap and are retried: a chunk the page was told of    *)
(* has its row and its bytes, unless it and another were given one number   *)
(* (shows/signals.ts, recordAudio).                                         *)
THEOREM AckedIsKept == Audio!AudioAssumption => (Audio!Spec => [](Audio!TypeOK /\ Audio!AckedUnlessTaken))
<1> SUFFICES ASSUME Audio!AudioAssumption PROVE Audio!Spec => [](Audio!TypeOK /\ Audio!AckedUnlessTaken)
  OBVIOUS
<1>1. Audio!Init => AudioInv
  <2> SUFFICES ASSUME Audio!Init PROVE AudioInv
    OBVIOUS
  <2>1. \A r \in Uploaders : uploads[r] = Audio!Idle /\ uploads[r].pc = "idle"
    BY DEF Audio!Init, Audio!Idle
  <2>2. AudioTypes
    BY <2>1, ChunkIsNamed DEF Audio!Init, AudioTypes, Audio!TypeOK, Audio!AudioAssumption
  <2>3. \A n \in Audio!Seqs : table[n] = Audio!NoChunk
    BY DEF Audio!Init
  <2> QED BY <2>1, <2>2, <2>3 DEF Audio!Init, AudioInv, SharesNumber, Holds, HasBytes, HasRow
<1>2. AudioInv /\ [Audio!Next]_Audio!vars => AudioInv'
  <2> SUFFICES ASSUME AudioInv, [Audio!Next]_Audio!vars PROVE AudioInv'
    OBVIOUS
  <2>1. CASE UNCHANGED Audio!vars
    BY <2>1 DEF Audio!vars, AudioInv, AudioTypes, Audio!TypeOK, SharesNumber, HasBytes, HasRow
  <2>2. CASE Audio!Lose
    BY <2>2 DEF Audio!Lose, AudioInv, AudioTypes, Audio!TypeOK, SharesNumber, HasBytes, HasRow, Audio!AudioAssumption
  <2> QED BY <2>1, <2>2, UploadsKeep DEF Audio!Next
<1>3. AudioInv => Audio!TypeOK /\ Audio!AckedUnlessTaken
  <2> SUFFICES ASSUME AudioInv PROVE Audio!TypeOK /\ Audio!AckedUnlessTaken
    OBVIOUS
  <2>1. ASSUME NEW c \in acked \ taken PROVE Audio!Kept(c)
    <3>1. PICK n \in Audio!Seqs : table[n] = c
      BY DEF AudioInv, HasRow
    <3>2. c # Audio!NoChunk
      BY ChunkIsNamed DEF AudioInv, AudioTypes, Audio!TypeOK
    <3> QED BY <3>1, <3>2 DEF AudioInv, HasBytes, Audio!Kept
  <2> QED BY <2>1 DEF AudioInv, AudioTypes, Audio!AckedUnlessTaken
<1> QED BY <1>1, <1>2, <1>3, PTL DEF Audio!Spec

-----------------------------------------------------------------------------
(***************************************************************************)
(* The browser that shows share, while they take turns at opening,         *)
(* recovering and stopping.  The handle is that of a Chrome that runs, and *)
(* a Chrome that runs is the handle's or one that somebody is launching.   *)
(* Who counts on it holds it, so the last to let go finds the count at     *)
(* one; and a slot in excess of the closes that are owed and the launches  *)
(* that threw is the lease of the one that is open or being launched.      *)
(***************************************************************************)
CONSTANTS Watchers, MaxBrowsers, MaxLaunches, LaunchFails, BrowserDies, PageDies, TakingTurns

VARIABLES chrome, shared, refCount, lease, slots, owed, station

Browser == INSTANCE SharedBrowser WITH at <- station, OneAtATime <- TakingTurns

BusyPCs == {"launching", "relaunching", "opening", "reopen", "releasing"}
Station == [pc : {"off", "watching", "refused"} \cup BusyPCs, on : Browser!Chromes \cup {0}, holding : BOOLEAN,
            crashed : BOOLEAN, stopped : BOOLEAN]
Busy(x) == station[x].pc \in BusyPCs
Launches(x) == station[x].pc \in Browser!Launching
Seated == {x \in Watchers : station[x].holding}
Broken == {b \in Browser!Chromes : chrome[b] = "failed"}

BrowserTypes ==
  /\ chrome \in [Browser!Chromes -> {"none", "running", "closing", "gone", "failed"}]
  /\ shared \in Browser!Chromes \cup {0} /\ refCount \in Nat /\ lease \in BOOLEAN
  /\ owed \subseteq Browser!Chromes /\ slots \in 0..MaxBrowsers /\ station \in [Watchers -> Station]

AtTheDesk ==
  /\ \A x, y \in Watchers : Busy(x) /\ Busy(y) => x = y
  /\ \A x \in Watchers : station[x].pc \in {"off", "launching", "relaunching", "reopen", "refused"} => ~station[x].holding
  /\ \A x \in Watchers : Launches(x) => station[x].on # 0 /\ chrome[station[x].on] = "running" /\ shared = 0
  /\ \A x, y \in Watchers : Launches(x) /\ x # y => station[x].on # station[y].on
  /\ \A x \in Watchers : station[x].on # 0 => chrome[station[x].on] # "none"

OfChromes ==
  /\ \A b \in Browser!Chromes : chrome[b] = "closing" => shared = 0 /\ \A x \in Watchers : Busy(x) => station[x].pc = "reopen"
  /\ shared # 0 => chrome[shared] = "running" /\ refCount >= 1
  /\ \A b \in Browser!Chromes : chrome[b] = "running" => b = shared \/ \E x \in Watchers : Launches(x) /\ station[x].on = b
  /\ \E n \in 0..MaxLaunches : \A b \in Browser!Chromes : chrome[b] # "none" <=> b <= n

InUse == lease /\ (shared # 0 \/ \E x \in Watchers : Launches(x))

BrowserCounts ==
  /\ \A b \in owed : chrome[b] = "closing"
  /\ refCount <= Cardinality(Seated)
  /\ (IF lease THEN 1 ELSE 0) + Cardinality(owed) <= slots
  /\ slots <= Cardinality(owed) + Cardinality(Broken) + (IF InUse THEN 1 ELSE 0)

BrowserInv == BrowserTypes /\ AtTheDesk /\ OfChromes /\ BrowserCounts

-----------------------------------------------------------------------------
LEMMA BrowsersAreCounted == \A S : Browser!Cardinality(S) = Cardinality(S) /\ (Browser!IsFiniteSet(S) <=> IsFiniteSet(S))
BY DEF Browser!Cardinality, Cardinality, Browser!IsFiniteSet, IsFiniteSet

LEMMA FewChromes ==
  ASSUME Browser!BrowserAssumption, NEW S \in SUBSET Browser!Chromes
  PROVE  IsFiniteSet(S) /\ Cardinality(S) \in Nat
<1>1. MaxLaunches \in Nat
  BY DEF Browser!BrowserAssumption
<1>2. IsFiniteSet(1..MaxLaunches)
  BY <1>1, FS_Interval
<1>3. IsFiniteSet(S)
  BY <1>2, FS_Subset DEF Browser!Chromes
<1> QED BY <1>3, FS_CardinalityType

LEMMA FewWatchers ==
  ASSUME Browser!BrowserAssumption, NEW S \in SUBSET Watchers
  PROVE  IsFiniteSet(S) /\ Cardinality(S) \in Nat /\ Cardinality(Watchers) \in Nat /\ Cardinality(S) <= Cardinality(Watchers)
<1>1. IsFiniteSet(Watchers)
  BY BrowsersAreCounted DEF Browser!BrowserAssumption
<1>2. IsFiniteSet(S) /\ Cardinality(S) <= Cardinality(Watchers)
  BY <1>1, FS_Subset
<1> QED BY <1>1, <1>2, FS_CardinalityType

LEMMA OneMore ==
  ASSUME NEW S, IsFiniteSet(S), NEW x, x \notin S
  PROVE  Cardinality(S \cup {x}) = Cardinality(S) + 1
BY FS_AddElement

LEMMA OneLess ==
  ASSUME NEW S, IsFiniteSet(S), NEW x \in S
  PROVE  Cardinality(S \ {x}) = Cardinality(S) - 1
BY FS_RemoveElement

(* The next Chrome is one that was not launched before. *)
LEMMA NextChrome ==
  ASSUME Browser!BrowserAssumption, BrowserInv, Browser!Launched < MaxLaunches
  PROVE  /\ Browser!Launched \in 0..MaxLaunches /\ Browser!Launched + 1 \in Browser!Chromes /\ Browser!Launched + 1 # 0
         /\ \A b \in Browser!Chromes : chrome[b] # "none" <=> b <= Browser!Launched
<1>1. PICK n \in 0..MaxLaunches : \A b \in Browser!Chromes : chrome[b] # "none" <=> b <= n
  BY DEF BrowserInv, OfChromes
<1>2. MaxLaunches \in Nat /\ n \in Nat /\ n <= MaxLaunches
  BY <1>1 DEF Browser!BrowserAssumption
<1>3. {b \in Browser!Chromes : chrome[b] # "none"} = 1..n
  BY <1>1, <1>2 DEF Browser!Chromes
<1>4. Browser!Launched = Cardinality(1..n)
  BY <1>3, BrowsersAreCounted DEF Browser!Launched
<1>5. Cardinality(1..n) = n
  BY <1>2, FS_Interval
<1>6. Browser!Launched = n
  BY <1>4, <1>5
<1> HIDE DEF Browser!Launched
<1> QED BY <1>1, <1>2, <1>6 DEF Browser!Chromes

LEMMA Went ==
  ASSUME BrowserTypes, NEW x \in Watchers, NEW s \in Station, station' = [station EXCEPT ![x] = s]
  PROVE  /\ station' \in [Watchers -> Station] /\ station'[x] = s
         /\ \A y \in Watchers : y # x => station'[y] = station[y]
         /\ s.holding /\ ~station[x].holding => Seated' = Seated \cup {x} /\ x \notin Seated
         /\ ~s.holding /\ station[x].holding => Seated' = Seated \ {x} /\ x \in Seated
         /\ (s.holding <=> station[x].holding) => Seated' = Seated
BY DEF BrowserTypes, Seated

LEMMA GoesTo ==
  ASSUME BrowserTypes, NEW x \in Watchers, NEW p \in {"off", "watching", "refused"} \cup BusyPCs, NEW b \in Browser!Chromes \cup {0},
         NEW h \in BOOLEAN, Browser!Goes(x, p, b, h)
  PROVE  /\ station' \in [Watchers -> Station] /\ station'[x].pc = p /\ station'[x].on = b /\ station'[x].holding = h
         /\ \A y \in Watchers : y # x => station'[y] = station[y]
         /\ h /\ ~station[x].holding => Seated' = Seated \cup {x} /\ x \notin Seated
         /\ (h <=> station[x].holding) => Seated' = Seated
<1> DEFINE s == [pc |-> p, on |-> b, holding |-> h, crashed |-> station[x].crashed, stopped |-> station[x].stopped]
<1>1. station[x] \in Station
  BY DEF BrowserTypes
<1>2. s \in Station /\ s.pc = p /\ s.on = b /\ s.holding = h
  BY <1>1 DEF Station
<1>3. station' = [station EXCEPT ![x] = s]
  BY DEF Browser!Goes
<1> HIDE DEF s
<1> QED BY <1>2, <1>3, Went

(* Who has the desk to himself. *)
LEMMA HasTurn ==
  ASSUME TakingTurns, NEW x \in Watchers, Browser!Alone(x)
  PROVE  /\ \A y \in Watchers : y # x => ~Busy(y) /\ ~Launches(y)
         /\ \A b \in Browser!Chromes : chrome[b] # "closing"
BY DEF Browser!Alone, Busy, BusyPCs, Launches, Browser!Launching

LEMMA AcquireKeeps ==
  ASSUME Browser!BrowserAssumption, TakingTurns, BrowserInv, NEW x \in Watchers, Browser!Acquire(x)
  PROVE  BrowserInv'
<1> DEFINE p == station[x].pc
<1>0. /\ BrowserTypes /\ AtTheDesk /\ OfChromes /\ BrowserCounts /\ station[x] \in Station /\ p \in {"off", "reopen"} /\ Browser!Alone(x)
      /\ shared' = shared /\ owed' = owed /\ ~station[x].holding
  BY DEF BrowserInv, BrowserTypes, AtTheDesk, Browser!Acquire
<1>1. /\ \A y \in Watchers : y # x => ~Busy(y) /\ ~Launches(y)
      /\ \A b \in Browser!Chromes : chrome[b] # "closing"
      /\ ~Launches(x)
  BY <1>0, HasTurn DEF Launches, Browser!Launching
<1>2. /\ IsFiniteSet(Seated) /\ Cardinality(Seated) \in Nat /\ Cardinality(owed) \in Nat /\ Cardinality(Broken) \in Nat
      /\ slots \in Nat /\ MaxBrowsers \in Nat /\ slots <= MaxBrowsers /\ refCount \in Nat
  BY <1>0, FewChromes, FewWatchers DEF BrowserTypes, Seated, Broken, Browser!BrowserAssumption
<1>3. CASE shared # 0
  <2>1. /\ refCount' = refCount + 1 /\ Browser!Goes(x, "opening", shared, TRUE)
        /\ chrome' = chrome /\ lease' = lease /\ slots' = slots
    BY <1>3 DEF Browser!Acquire, Browser!NoChrome
  <2>2. /\ station' \in [Watchers -> Station] /\ station'[x].pc = "opening" /\ station'[x].on = shared /\ station'[x].holding = TRUE
        /\ \A y \in Watchers : y # x => station'[y] = station[y]
        /\ Seated' = Seated \cup {x} /\ x \notin Seated
    BY <1>0, <2>1, GoesTo DEF BrowserTypes, BusyPCs
  <2>3. BrowserTypes'
    BY <1>0, <2>1, <2>2 DEF BrowserTypes
  <2>4. chrome[shared] = "running"
    BY <1>0, <1>3 DEF OfChromes
  <2>5. \A y \in Watchers : ~Launches(y)' /\ (Busy(y)' => y = x)
    BY <1>1, <2>2 DEF Busy, Launches, Browser!Launching
  <2>6. AtTheDesk'
    BY <1>0, <2>1, <2>2, <2>4, <2>5 DEF AtTheDesk
  <2>7. OfChromes'
    BY <1>0, <1>1, <1>2, <1>3, <2>1, <2>4, <2>5 DEF OfChromes
  <2>8. Cardinality(Seated') = Cardinality(Seated) + 1
    BY <1>2, <2>2, OneMore
  <2>9. BrowserCounts'
    <3>1. InUse' <=> InUse
      BY <1>0, <1>3, <2>1 DEF InUse
    <3>2. Broken' = Broken
      BY <2>1 DEF Broken
    <3> QED BY <1>0, <1>2, <2>1, <2>8, <3>1, <3>2 DEF BrowserCounts
  <2> QED BY <2>3, <2>6, <2>7, <2>9 DEF BrowserInv
<1>4. CASE shared = 0 /\ slots >= MaxBrowsers
  <2>1. /\ Browser!Goes(x, IF p = "off" THEN "refused" ELSE "watching", 0, station[x].holding)
        /\ chrome' = chrome /\ lease' = lease /\ slots' = slots /\ refCount' = refCount
    BY <1>2, <1>4 DEF Browser!Acquire, Browser!NoChrome
  <2>2. /\ station' \in [Watchers -> Station] /\ station'[x].pc \in {"refused", "watching"} /\ station'[x].on = 0
        /\ station'[x].holding = station[x].holding
        /\ \A y \in Watchers : y # x => station'[y] = station[y]
        /\ Seated' = Seated
    <3>1. station[x].holding \in BOOLEAN
      BY <1>0 DEF Station
    <3> QED BY <1>0, <2>1, <3>1, GoesTo
  <2>3. BrowserTypes'
    BY <1>0, <2>1, <2>2 DEF BrowserTypes
  <2>5. \A y \in Watchers : ~Launches(y)' /\ ~Busy(y)'
    BY <1>1, <2>2 DEF Busy, Launches, Browser!Launching, BusyPCs
  <2>6. AtTheDesk'
    BY <1>0, <2>1, <2>2, <2>5 DEF AtTheDesk
  <2>7. OfChromes'
    BY <1>0, <1>1, <1>4, <2>1, <2>5 DEF OfChromes
  <2>9. BrowserCounts'
    <3>1. InUse' <=> InUse
      BY <1>0, <1>1, <2>1, <2>5 DEF InUse
    <3>2. Broken' = Broken
      BY <2>1 DEF Broken
    <3> QED BY <1>0, <1>2, <2>1, <2>2, <3>1, <3>2 DEF BrowserCounts
  <2> QED BY <2>3, <2>6, <2>7, <2>9 DEF BrowserInv
<1>5. CASE shared = 0 /\ slots < MaxBrowsers
  <2> DEFINE n == Browser!Launched + 1
             q == IF p = "off" THEN "launching" ELSE "relaunching"
  <2>1. /\ Browser!Launched < MaxLaunches /\ slots' = slots + 1 /\ lease' = TRUE
        /\ chrome' = [chrome EXCEPT ![n] = "running"] /\ refCount' = refCount
        /\ Browser!Goes(x, q, n, station[x].holding)
    BY <1>2, <1>5 DEF Browser!Acquire, Browser!NoChrome
  <2>2. /\ n \in Browser!Chromes /\ n # 0 /\ n \in 1..MaxLaunches /\ chrome[n] = "none"
        /\ \A b \in Browser!Chromes : chrome[b] # "none" <=> b < n
    BY <2>1, NextChrome DEF Browser!Chromes
  <2> HIDE DEF n
  <2>3. /\ chrome' \in [Browser!Chromes -> {"none", "running", "closing", "gone", "failed"}]
        /\ chrome'[n] = "running" /\ \A b \in Browser!Chromes : b # n => chrome'[b] = chrome[b]
    BY <1>0, <2>1, <2>2 DEF BrowserTypes
  <2>4. /\ station' \in [Watchers -> Station] /\ station'[x].pc = q /\ station'[x].on = n /\ ~station'[x].holding
        /\ \A y \in Watchers : y # x => station'[y] = station[y]
        /\ Seated' = Seated
    <3>1. station[x].holding \in BOOLEAN /\ q \in BusyPCs /\ station[x].holding = FALSE
      BY <1>0 DEF Station, BusyPCs
    <3> HIDE DEF q
    <3>2. Browser!Goes(x, q, n, FALSE)
      BY <2>1, <3>1
    <3> QED BY <1>0, <2>2, <3>1, <3>2, GoesTo
  <2>5. BrowserTypes'
    BY <1>0, <1>2, <1>5, <2>1, <2>3, <2>4 DEF BrowserTypes
  <2>6. Launches(x)' /\ \A y \in Watchers : y # x => ~Launches(y)' /\ ~Busy(y)'
    BY <1>1, <2>4 DEF Busy, Launches, Browser!Launching
  <2>7. AtTheDesk'
    <3>1. \A y \in Watchers : station[y].on # n
      BY <1>0, <2>2 DEF AtTheDesk
    <3>2. \A y \in Watchers : y # x => station[y].on \in Browser!Chromes \cup {0}
      BY <1>0 DEF BrowserTypes, Station
    <3> HIDE DEF q
    <3>3. \A y, z \in Watchers : Busy(y)' /\ Busy(z)' => y = z
      BY <2>6
    <3>4. \A y \in Watchers : station'[y].pc \in {"off", "launching", "relaunching", "reopen", "refused"} => ~station'[y].holding
      BY <1>0, <2>4 DEF AtTheDesk
    <3>5. \A y \in Watchers : Launches(y)' => station'[y].on # 0 /\ chrome'[station'[y].on] = "running" /\ shared' = 0
      BY <1>0, <1>5, <2>2, <2>3, <2>4, <2>6
    <3>6. \A y, z \in Watchers : Launches(y)' /\ y # z => station'[y].on # station'[z].on
      BY <2>4, <2>6, <3>1
    <3>7. \A y \in Watchers : station'[y].on # 0 => chrome'[station'[y].on] # "none"
      <4> SUFFICES ASSUME NEW y \in Watchers, station'[y].on # 0 PROVE chrome'[station'[y].on] # "none"
        OBVIOUS
      <4>1. CASE y = x
        BY <2>3, <2>4, <4>1
      <4>2. CASE y # x
        <5>1. station[y].on \in Browser!Chromes /\ station[y].on # n /\ chrome[station[y].on] # "none"
          BY <1>0, <2>4, <3>1, <3>2, <4>2 DEF AtTheDesk
        <5> QED BY <2>3, <2>4, <4>2, <5>1
      <4> QED BY <4>1, <4>2
    <3> QED BY <3>3, <3>4, <3>5, <3>6, <3>7 DEF AtTheDesk
  <2>8. OfChromes'
    <3>1. \A b \in Browser!Chromes : chrome'[b] # "closing"
      BY <1>1, <2>3
    <3>2. \A b \in Browser!Chromes : chrome'[b] = "running" => b = n
      <4>1. \A y \in Watchers : ~Launches(y)
        BY <1>1
      <4>2. \A b \in Browser!Chromes : chrome[b] # "running"
        BY <1>0, <1>5, <4>1 DEF OfChromes, Browser!Chromes
      <4> QED BY <2>3, <4>2
    <3>3. n \in 0..MaxLaunches /\ \A b \in Browser!Chromes : chrome'[b] # "none" <=> b <= n
      BY <2>2, <2>3 DEF Browser!Chromes
    <3> QED BY <1>0, <1>5, <2>4, <2>6, <3>1, <3>2, <3>3 DEF OfChromes
  <2>9. BrowserCounts'
    <3>1. InUse' /\ ~InUse
      BY <1>1, <1>5, <2>1, <2>6 DEF InUse
    <3>2. Broken' = Broken
      BY <2>2, <2>3 DEF Broken
    <3>3. \A b \in owed' : chrome'[b] = "closing"
      BY <1>0, <2>2, <2>3 DEF BrowserCounts, BrowserTypes
    <3> QED BY <1>0, <1>2, <2>1, <2>4, <3>1, <3>2, <3>3 DEF BrowserCounts, BrowserTypes
  <2> QED BY <2>5, <2>7, <2>8, <2>9 DEF BrowserInv
<1> QED BY <1>2, <1>3, <1>4, <1>5

LEMMA SoleBusy ==
  ASSUME BrowserInv, NEW x \in Watchers, Busy(x)
  PROVE  \A y \in Watchers : y # x => ~Busy(y) /\ ~Launches(y)
BY DEF BrowserInv, AtTheDesk, Busy, BusyPCs, Launches, Browser!Launching

LEMMA BrowserNumbers ==
  ASSUME Browser!BrowserAssumption, BrowserInv
  PROVE  /\ IsFiniteSet(Seated) /\ Cardinality(Seated) \in Nat
         /\ IsFiniteSet(owed) /\ Cardinality(owed) \in Nat
         /\ IsFiniteSet(Broken) /\ Cardinality(Broken) \in Nat
         /\ slots \in Nat /\ MaxBrowsers \in Nat /\ slots <= MaxBrowsers /\ refCount \in Nat
BY FewChromes, FewWatchers DEF BrowserInv, BrowserTypes, Seated, Broken, Browser!BrowserAssumption

LEMMA LaunchKeeps ==
  ASSUME Browser!BrowserAssumption, TakingTurns, BrowserInv, NEW x \in Watchers, Browser!LaunchReturns(x) \/ Browser!LaunchThrows(x)
  PROVE  BrowserInv'
<1> DEFINE c == station[x].on
<1>0. /\ BrowserTypes /\ AtTheDesk /\ OfChromes /\ BrowserCounts /\ station[x] \in Station /\ Launches(x) /\ Busy(x)
      /\ lease' = lease /\ slots' = slots /\ owed' = owed
      /\ station[x].holding = FALSE /\ station[x].pc \in {"launching", "relaunching"}
  BY DEF BrowserInv, BrowserTypes, AtTheDesk, Browser!LaunchReturns, Browser!LaunchThrows, Launches, Busy, BusyPCs, Browser!Launching, Station
<1>1. \A y \in Watchers : y # x => ~Busy(y) /\ ~Launches(y)
  BY <1>0, SoleBusy
<1>2. /\ c \in Browser!Chromes /\ c # 0 /\ chrome[c] = "running" /\ shared = 0 /\ \A y \in Watchers : y # x => station[y].on # c
  BY <1>0 DEF AtTheDesk, Station
<1>3. \A b \in Browser!Chromes : chrome[b] # "closing" /\ (chrome[b] = "running" => b = c)
  <2>1. 0 \notin Browser!Chromes
    BY DEF Browser!Chromes
  <2> QED BY <1>0, <1>1, <1>2, <2>1 DEF OfChromes
<1>4. CASE Browser!LaunchReturns(x)
  <2>1. /\ shared' = c /\ refCount' = refCount + 1 /\ chrome' = chrome /\ Browser!Goes(x, "opening", c, TRUE)
    BY <1>4 DEF Browser!LaunchReturns
  <2>2. /\ station' \in [Watchers -> Station] /\ station'[x].pc = "opening" /\ station'[x].on = c /\ station'[x].holding = TRUE
        /\ \A y \in Watchers : y # x => station'[y] = station[y]
        /\ Seated' = Seated \cup {x} /\ x \notin Seated
    <3> HIDE DEF c
    <3> QED BY <1>0, <1>2, <2>1, GoesTo DEF BusyPCs
  <2>3. BrowserTypes'
    BY <1>0, <1>2, <2>1, <2>2, BrowserNumbers DEF BrowserTypes
  <2>4. \A y \in Watchers : ~Launches(y)' /\ (Busy(y)' => y = x)
    BY <1>1, <2>2 DEF Busy, Launches, Browser!Launching
  <2>5. AtTheDesk'
    BY <1>0, <1>2, <2>1, <2>2, <2>4 DEF AtTheDesk
  <2>6. OfChromes'
    BY <1>0, <1>2, <1>3, <2>1, <2>4, BrowserNumbers DEF OfChromes
  <2>7. Cardinality(Seated') = Cardinality(Seated) + 1
    BY <2>2, BrowserNumbers, OneMore
  <2>8. BrowserCounts'
    <3>1. InUse' <=> InUse
      BY <1>0, <1>2, <2>1 DEF InUse
    <3>2. Broken' = Broken
      BY <2>1 DEF Broken
    <3> QED BY <1>0, <2>1, <2>7, <3>1, <3>2, BrowserNumbers DEF BrowserCounts
  <2> QED BY <2>3, <2>5, <2>6, <2>8 DEF BrowserInv
<1>5. CASE Browser!LaunchThrows(x)
  <2> DEFINE q == IF station[x].pc = "launching" THEN "refused" ELSE "watching"
  <2>1. /\ shared' = shared /\ refCount' = refCount /\ chrome' = [chrome EXCEPT ![c] = "failed"]
        /\ Browser!Goes(x, q, 0, FALSE)
    BY <1>0, <1>5 DEF Browser!LaunchThrows, Browser!NoChrome
  <2>2. /\ station' \in [Watchers -> Station] /\ station'[x].pc \in {"refused", "watching"} /\ station'[x].on = 0
        /\ station'[x].holding = FALSE
        /\ \A y \in Watchers : y # x => station'[y] = station[y]
        /\ Seated' = Seated
    BY <1>0, <2>1, GoesTo
  <2>3. /\ chrome' \in [Browser!Chromes -> {"none", "running", "closing", "gone", "failed"}]
        /\ chrome'[c] = "failed" /\ \A b \in Browser!Chromes : b # c => chrome'[b] = chrome[b]
    BY <1>0, <1>2, <2>1 DEF BrowserTypes
  <2>4. BrowserTypes'
    BY <1>0, <2>1, <2>2, <2>3 DEF BrowserTypes
  <2>5. \A y \in Watchers : ~Launches(y)' /\ ~Busy(y)'
    BY <1>1, <2>2 DEF Busy, Launches, Browser!Launching, BusyPCs
  <2> HIDE DEF c
  <2>6. AtTheDesk'
    <3>1. \A y \in Watchers : y # x => station[y].on \in Browser!Chromes \cup {0}
      BY <1>0 DEF BrowserTypes, Station
    <3> QED BY <1>0, <1>2, <2>2, <2>3, <2>5, <3>1 DEF AtTheDesk
  <2>7. OfChromes'
    <3>1. \A b \in Browser!Chromes : chrome'[b] # "closing" /\ chrome'[b] # "running"
      BY <1>3, <2>3
    <3>2. \A b \in Browser!Chromes : chrome'[b] # "none" <=> chrome[b] # "none"
      BY <1>2, <2>3
    <3> QED BY <1>0, <1>2, <2>1, <3>1, <3>2 DEF OfChromes
  <2>8. Broken' = Broken \cup {c} /\ c \notin Broken /\ Cardinality(Broken') = Cardinality(Broken) + 1
    <3>1. Broken' = Broken \cup {c} /\ c \notin Broken
      BY <1>2, <2>3 DEF Broken
    <3> QED BY <3>1, BrowserNumbers, OneMore
  <2>9. BrowserCounts'
    <3>1. ~InUse'
      BY <1>2, <2>1, <2>5 DEF InUse
    <3>2. \A b \in owed' : chrome'[b] = "closing"
      BY <1>0, <1>2, <2>3 DEF BrowserCounts, BrowserTypes
    <3> QED BY <1>0, <2>1, <2>2, <2>8, <3>1, <3>2, BrowserNumbers DEF BrowserCounts
  <2> QED BY <2>4, <2>6, <2>7, <2>9 DEF BrowserInv
<1> QED BY <1>4, <1>5

LEMMA ReleaseKeeps ==
  ASSUME Browser!BrowserAssumption, BrowserInv, NEW x \in Watchers, NEW q \in {"off", "reopen"}, Browser!Release(x, q),
         \A y \in Watchers : ~Launches(y) /\ (y # x => ~Busy(y)), \A b \in Browser!Chromes : chrome[b] # "closing"
  PROVE  BrowserInv'
<1> DEFINE s == [pc |-> q, on |-> 0, holding |-> FALSE, crashed |-> FALSE, stopped |-> station[x].stopped]
<1>0. BrowserTypes /\ AtTheDesk /\ OfChromes /\ BrowserCounts /\ station[x] \in Station
  BY DEF BrowserInv, BrowserTypes
<1>1. /\ s \in Station /\ s.pc = q /\ s.on = 0 /\ s.holding = FALSE /\ station' = [station EXCEPT ![x] = s]
  BY <1>0 DEF Browser!Release, Browser!NoChrome, Station, BusyPCs
<1> HIDE DEF s
<1>2. /\ station' \in [Watchers -> Station] /\ station'[x].pc = q /\ station'[x].on = 0 /\ ~station'[x].holding
      /\ \A y \in Watchers : y # x => station'[y] = station[y]
      /\ station[x].holding => Seated' = Seated \ {x} /\ x \in Seated
      /\ ~station[x].holding => Seated' = Seated
  BY <1>0, <1>1, Went
<1>3. /\ \A y \in Watchers : ~Launches(y)' /\ (Busy(y)' => y = x /\ station'[y].pc = "reopen")
  BY <1>2 DEF Busy, Launches, Browser!Launching, BusyPCs
<1>4. ASSUME \A b \in Browser!Chromes : chrome'[b] # "none" <=> chrome[b] # "none"
      PROVE  AtTheDesk'
  <2>1. \A y \in Watchers : y # x => station[y].on \in Browser!Chromes \cup {0}
    BY <1>0 DEF BrowserTypes, Station
  <2> QED BY <1>0, <1>2, <1>3, <1>4, <2>1 DEF AtTheDesk
<1>5. CASE ~station[x].holding
  <2>1. chrome' = chrome /\ shared' = shared /\ refCount' = refCount /\ lease' = lease /\ slots' = slots /\ owed' = owed
    BY <1>5 DEF Browser!Release
  <2>2. BrowserTypes' /\ AtTheDesk'
    BY <1>0, <1>2, <1>4, <2>1 DEF BrowserTypes
  <2>3. OfChromes'
    BY <1>0, <1>3, <2>1 DEF OfChromes
  <2>4. BrowserCounts'
    <3>1. InUse' <=> InUse
      BY <1>3, <2>1 DEF InUse
    <3>2. Broken' = Broken
      BY <2>1 DEF Broken
    <3> QED BY <1>0, <1>2, <1>5, <2>1, <3>1, <3>2 DEF BrowserCounts
  <2> QED BY <2>2, <2>3, <2>4 DEF BrowserInv
<1>6. CASE station[x].holding
  <2>1. /\ slots' = slots /\ refCount' = IF refCount > 0 THEN refCount - 1 ELSE 0
        /\ Cardinality(Seated') = Cardinality(Seated) - 1 /\ refCount' \in Nat
    BY <1>2, <1>6, BrowserNumbers, OneLess DEF Browser!Release
  <2>2. Cardinality(Seated') \in Nat
    BY FewWatchers DEF Seated
  <2>3. refCount' <= Cardinality(Seated')
    BY <1>0, <2>1, <2>2, BrowserNumbers DEF BrowserCounts
  <2>4. CASE refCount <= 1 /\ shared # 0
    <3>1. /\ chrome[shared] = "running" /\ shared \in Browser!Chromes /\ shared \notin owed
      BY <1>0, <2>4 DEF OfChromes, BrowserTypes, BrowserCounts
    <3>2. /\ chrome' = [chrome EXCEPT ![shared] = "closing"] /\ shared' = 0 /\ lease' = FALSE
          /\ owed' = IF lease THEN owed \cup {shared} ELSE owed
      BY <1>6, <2>4, <3>1 DEF Browser!Release, Browser!NoChrome
    <3>3. /\ chrome' \in [Browser!Chromes -> {"none", "running", "closing", "gone", "failed"}]
          /\ chrome'[shared] = "closing" /\ \A b \in Browser!Chromes : b # shared => chrome'[b] = chrome[b]
      BY <1>0, <3>1, <3>2 DEF BrowserTypes
    <3>4. \A b \in Browser!Chromes : chrome'[b] # "none" <=> chrome[b] # "none"
      BY <3>1, <3>3
    <3>5. BrowserTypes' /\ AtTheDesk'
      BY <1>0, <1>2, <1>4, <2>1, <3>1, <3>2, <3>3, <3>4 DEF BrowserTypes
    <3>6. OfChromes'
      <4>1. \A b \in Browser!Chromes : chrome'[b] # "running"
        BY <1>0, <3>3 DEF OfChromes
      <4> QED BY <1>0, <1>3, <3>2, <3>4, <4>1 DEF OfChromes
    <3>7. BrowserCounts'
      <4>1. ~InUse'
        BY <3>2 DEF InUse
      <4>2. Broken' = Broken
        BY <3>1, <3>3 DEF Broken
      <4>3. \A b \in owed' : chrome'[b] = "closing"
        BY <1>0, <3>2, <3>3 DEF BrowserCounts, BrowserTypes
      <4>4. Cardinality(owed') = Cardinality(owed) + (IF lease THEN 1 ELSE 0)
        BY <3>1, <3>2, BrowserNumbers, OneMore
      <4>5. /\ (IF lease THEN 1 ELSE 0) + Cardinality(owed) <= slots
            /\ slots <= Cardinality(owed) + Cardinality(Broken) + (IF lease THEN 1 ELSE 0)
        BY <1>0, BrowserNumbers DEF BrowserCounts, InUse
      <4> QED BY <2>1, <2>3, <3>2, <4>1, <4>2, <4>3, <4>4, <4>5, BrowserNumbers DEF BrowserCounts
    <3> QED BY <3>5, <3>6, <3>7 DEF BrowserInv
  <2>5. CASE ~(refCount <= 1 /\ shared # 0)
    <3>1. chrome' = chrome /\ shared' = shared /\ lease' = lease /\ owed' = owed
      BY <1>6, <2>5 DEF Browser!Release, Browser!NoChrome
    <3>2. BrowserTypes' /\ AtTheDesk'
      BY <1>0, <1>2, <1>4, <2>1, <3>1 DEF BrowserTypes
    <3>3. OfChromes'
      BY <1>0, <1>3, <2>1, <2>5, <3>1, BrowserNumbers DEF OfChromes
    <3>4. BrowserCounts'
      <4>1. InUse' <=> InUse
        BY <1>3, <3>1 DEF InUse
      <4>2. Broken' = Broken
        BY <3>1 DEF Broken
      <4> QED BY <1>0, <2>1, <2>3, <3>1, <4>1, <4>2 DEF BrowserCounts
    <3> QED BY <3>2, <3>3, <3>4 DEF BrowserInv
  <2> QED BY <2>4, <2>5
<1> QED BY <1>5, <1>6

(* A Chrome that ends: the handle's, or one that was being closed. *)
LEMMA DisconnectedKeeps ==
  ASSUME Browser!BrowserAssumption, BrowserInv, NEW b \in Browser!Chromes, Browser!Disconnected(b)
  PROVE  BrowserInv'
<1>0. BrowserTypes /\ AtTheDesk /\ OfChromes /\ BrowserCounts
  BY DEF BrowserInv
<1>1. /\ chrome' = [chrome EXCEPT ![b] = "gone"] /\ shared' = 0 /\ refCount' = 0 /\ lease' = FALSE
      /\ slots' = slots - (IF lease THEN 1 ELSE 0) - (IF b \in owed THEN 1 ELSE 0)
      /\ owed' = owed \ {b} /\ station' = station
  BY DEF Browser!Disconnected, Browser!NoChrome
<1>2. /\ chrome' \in [Browser!Chromes -> {"none", "running", "closing", "gone", "failed"}]
      /\ chrome'[b] = "gone" /\ \A a \in Browser!Chromes : a # b => chrome'[a] = chrome[a]
  BY <1>0, <1>1 DEF BrowserTypes
<1>3. /\ chrome[b] \in {"closing", "running"}
      /\ \A x \in Watchers : Launches(x) => station[x].on # b
      /\ shared # 0 => shared = b
  <2>1. CASE chrome[b] = "closing"
    <3>1. \A x \in Watchers : Launches(x) => chrome[station[x].on] = "running"
      BY <1>0 DEF AtTheDesk
    <3> QED BY <1>0, <2>1, <3>1 DEF OfChromes
  <2>2. CASE chrome[b] = "running" /\ \E x \in Watchers : station[x].on = b /\ station[x].pc \notin Browser!Launching
    <3>1. PICK x \in Watchers : station[x].on = b /\ ~Launches(x)
      BY <2>2 DEF Launches
    <3>2. \A y \in Watchers : Launches(y) => station[y].on # b
      BY <1>0, <3>1 DEF AtTheDesk
    <3>3. shared = b
      BY <1>0, <2>2, <3>2 DEF OfChromes
    <3> QED BY <2>2, <3>2, <3>3
  <2> QED BY <2>1, <2>2 DEF Browser!Disconnected
<1>4. Cardinality(owed') = Cardinality(owed) - (IF b \in owed THEN 1 ELSE 0)
  <2>1. CASE b \in owed
    BY <1>1, <2>1, BrowserNumbers, OneLess
  <2>2. CASE b \notin owed
    <3>1. owed' = owed
      BY <1>1, <2>2
    <3> QED BY <2>2, <3>1, BrowserNumbers
  <2> QED BY <2>1, <2>2
<1>5. /\ (IF lease THEN 1 ELSE 0) + Cardinality(owed) <= slots
      /\ slots <= Cardinality(owed) + Cardinality(Broken) + (IF lease THEN 1 ELSE 0)
      /\ b \in owed => Cardinality(owed) >= 1
  <2>1. Cardinality(owed') \in Nat
    <3>1. owed' \in SUBSET Browser!Chromes
      BY <1>0, <1>1 DEF BrowserTypes
    <3> QED BY <3>1, FewChromes
  <2> QED BY <1>0, <1>4, <2>1, BrowserNumbers DEF BrowserCounts, InUse
<1>6. BrowserTypes'
  <2>1. slots' \in 0..MaxBrowsers
    BY <1>1, <1>5, BrowserNumbers
  <2> QED BY <1>0, <1>1, <1>2, <2>1 DEF BrowserTypes
<1>7. \A x \in Watchers : (Launches(x)' <=> Launches(x)) /\ (Busy(x)' <=> Busy(x))
  BY <1>1 DEF Launches, Busy
<1>8. \A a \in Browser!Chromes : chrome'[a] # "none" <=> chrome[a] # "none"
  BY <1>2, <1>3
<1>9. AtTheDesk'
  <2>1. \A x \in Watchers : station[x].on \in Browser!Chromes \cup {0}
    BY <1>0 DEF BrowserTypes, Station
  <2> QED BY <1>0, <1>1, <1>2, <1>3, <1>7, <1>8, <2>1 DEF AtTheDesk
<1>10. OfChromes'
  <2>1. \A a \in Browser!Chromes : chrome'[a] = "closing" => \A x \in Watchers : Busy(x)' => station'[x].pc = "reopen"
    BY <1>0, <1>1, <1>2, <1>7 DEF OfChromes
  <2>2. \A a \in Browser!Chromes : chrome'[a] = "running" => \E x \in Watchers : Launches(x)' /\ station'[x].on = a
    <3> SUFFICES ASSUME NEW a \in Browser!Chromes, chrome'[a] = "running"
                 PROVE  \E x \in Watchers : Launches(x)' /\ station'[x].on = a
      OBVIOUS
    <3>1. a # b /\ chrome[a] = "running" /\ a # 0
      BY <1>2 DEF Browser!Chromes
    <3>2. PICK x \in Watchers : Launches(x) /\ station[x].on = a
      BY <1>0, <1>3, <3>1 DEF OfChromes
    <3> QED BY <1>1, <1>7, <3>2
  <2> QED BY <1>0, <1>1, <1>8, <2>1, <2>2 DEF OfChromes
<1>11. BrowserCounts'
  <2>1. ~InUse'
    BY <1>1 DEF InUse
  <2>2. Broken' = Broken
    BY <1>2, <1>3 DEF Broken
  <2>3. \A a \in owed' : chrome'[a] = "closing"
    BY <1>0, <1>1, <1>2 DEF BrowserCounts, BrowserTypes
  <2>4. refCount' <= Cardinality(Seated')
    <3>1. Seated' = Seated
      BY <1>1 DEF Seated
    <3> QED BY <1>1, <3>1, BrowserNumbers
  <2> QED BY <1>1, <1>4, <1>5, <2>1, <2>2, <2>3, <2>4, BrowserNumbers DEF BrowserCounts
<1> QED BY <1>6, <1>9, <1>10, <1>11 DEF BrowserInv

(* What a watcher does with its page leaves the Chromes as they are. *)
LEMMA PageKeeps ==
  ASSUME Browser!BrowserAssumption, BrowserInv, NEW x \in Watchers, NEW s \in Station, station' = [station EXCEPT ![x] = s],
         s.on = station[x].on, s.holding = station[x].holding, ~Launches(x),
         \/ s.pc = "watching" /\ station[x].pc \in {"opening", "watching"}
         \/ s.pc = "releasing" /\ \A y \in Watchers : ~Busy(y) /\ \A b \in Browser!Chromes : chrome[b] # "closing",
         UNCHANGED <<chrome, shared, refCount, lease, slots, owed>>
  PROVE  BrowserInv'
<1>0. /\ BrowserTypes /\ AtTheDesk /\ OfChromes /\ BrowserCounts
      /\ chrome' = chrome /\ shared' = shared /\ refCount' = refCount /\ lease' = lease /\ slots' = slots /\ owed' = owed
  BY DEF BrowserInv
<1>1. /\ station' \in [Watchers -> Station] /\ station'[x] = s /\ \A y \in Watchers : y # x => station'[y] = station[y]
      /\ Seated' = Seated
  BY <1>0, Went
<1>2. \A y \in Watchers : (Launches(y)' <=> Launches(y)) /\ station'[y].on = station[y].on /\ station'[y].holding = station[y].holding
  BY <1>1 DEF Launches, Browser!Launching
<1>3. BrowserTypes'
  BY <1>0, <1>1 DEF BrowserTypes
<1>4. /\ \A y, z \in Watchers : Busy(y)' /\ Busy(z)' => y = z
      /\ (\E b \in Browser!Chromes : chrome[b] = "closing") => \A y \in Watchers : Busy(y)' => station'[y].pc = "reopen"
  <2>1. CASE s.pc = "watching"
    <3>1. \A y \in Watchers : Busy(y)' => Busy(y) /\ y # x
      BY <1>1, <2>1 DEF Busy, BusyPCs
    <3> QED BY <1>0, <1>1, <3>1 DEF AtTheDesk, OfChromes
  <2>2. CASE s.pc # "watching"
    <3>1. (\A y \in Watchers : ~Busy(y)) /\ \A b \in Browser!Chromes : chrome[b] # "closing"
      BY <2>2
    <3>2. \A y \in Watchers : Busy(y)' => y = x
      BY <1>1, <3>1 DEF Busy
    <3> QED BY <3>1, <3>2
  <2> QED BY <2>1, <2>2
<1>5. AtTheDesk'
  <2>1. \A y \in Watchers : station'[y].pc \in {"off", "launching", "relaunching", "reopen", "refused"} => ~station'[y].holding
    BY <1>0, <1>1 DEF AtTheDesk
  <2> QED BY <1>0, <1>2, <1>4, <2>1 DEF AtTheDesk
<1>6. OfChromes'
  BY <1>0, <1>2, <1>4 DEF OfChromes
<1>7. BrowserCounts'
  <2>1. InUse' <=> InUse
    BY <1>0, <1>2 DEF InUse
  <2>2. Broken' = Broken
    BY <1>0 DEF Broken
  <2> QED BY <1>0, <1>1, <2>1, <2>2 DEF BrowserCounts
<1> QED BY <1>3, <1>5, <1>6, <1>7 DEF BrowserInv

LEMMA PagesKeep ==
  ASSUME Browser!BrowserAssumption, TakingTurns, BrowserInv, NEW x \in Watchers,
         Browser!Opened(x) \/ Browser!OpenFails(x) \/ Browser!PageCrashes(x) \/ Browser!Stop(x)
  PROVE  BrowserInv'
<1>0. station \in [Watchers -> Station] /\ station[x] \in Station
  BY DEF BrowserInv, BrowserTypes
<1>1. CASE Browser!Opened(x) \/ Browser!OpenFails(x)
  <2> DEFINE s == [station[x] EXCEPT !.pc = "watching"]
  <2>1. station' = [station EXCEPT ![x] = s] /\ station[x].pc = "opening" /\ UNCHANGED <<chrome, shared, refCount, lease, slots, owed>>
    BY <1>1 DEF Browser!Opened, Browser!OpenFails
  <2>2. s \in Station /\ s.pc = "watching" /\ s.on = station[x].on /\ s.holding = station[x].holding
    BY <1>0 DEF Station
  <2> HIDE DEF s
  <2>3. ~Launches(x)
    BY <2>1 DEF Launches, Browser!Launching
  <2> QED BY <2>1, <2>2, <2>3, PageKeeps
<1>2. CASE Browser!PageCrashes(x)
  <2> DEFINE s == [station[x] EXCEPT !.crashed = TRUE]
  <2>1. station' = [station EXCEPT ![x] = s] /\ station[x].pc = "watching" /\ UNCHANGED <<chrome, shared, refCount, lease, slots, owed>>
    BY <1>2 DEF Browser!PageCrashes
  <2>2. s \in Station /\ s.pc = "watching" /\ s.on = station[x].on /\ s.holding = station[x].holding
    BY <1>0, <2>1 DEF Station
  <2> HIDE DEF s
  <2>3. ~Launches(x)
    BY <2>1 DEF Launches, Browser!Launching
  <2> QED BY <2>1, <2>2, <2>3, PageKeeps
<1>3. CASE Browser!Stop(x)
  <2> DEFINE s == [pc |-> "releasing", on |-> station[x].on, holding |-> station[x].holding,
                   crashed |-> station[x].crashed, stopped |-> TRUE]
  <2>1. /\ station' = [station EXCEPT ![x] = s] /\ station[x].pc = "watching" /\ Browser!Alone(x)
        /\ UNCHANGED <<chrome, shared, refCount, lease, slots, owed>>
    BY <1>3 DEF Browser!Stop
  <2>2. s \in Station /\ s.pc = "releasing" /\ s.on = station[x].on /\ s.holding = station[x].holding
    BY <1>0, <2>1 DEF Station, BusyPCs
  <2> HIDE DEF s
  <2>3. ~Launches(x) /\ \A y \in Watchers : ~Busy(y)
    BY <2>1, HasTurn DEF Launches, Busy, BusyPCs, Browser!Launching
  <2>4. \A b \in Browser!Chromes : chrome[b] # "closing"
    BY <2>1, HasTurn
  <2> QED BY <2>1, <2>2, <2>3, <2>4, PageKeeps
<1> QED BY <1>1, <1>2, <1>3

LEMMA GivenBackKeeps ==
  ASSUME Browser!BrowserAssumption, TakingTurns, BrowserInv, NEW x \in Watchers, Browser!Recover(x) \/ Browser!Released(x)
  PROVE  BrowserInv'
<1>1. CASE Browser!Recover(x)
  <2>1. Browser!Release(x, "reopen") /\ Browser!Alone(x) /\ station[x].pc = "watching"
    BY <1>1 DEF Browser!Recover
  <2>2. /\ \A y \in Watchers : ~Launches(y) /\ (y # x => ~Busy(y))
        /\ \A b \in Browser!Chromes : chrome[b] # "closing"
    BY <2>1, HasTurn DEF Launches, Busy, BusyPCs, Browser!Launching
  <2> QED BY <2>1, <2>2, ReleaseKeeps
<1>2. CASE Browser!Released(x)
  <2>1. Browser!Release(x, "off") /\ station[x].pc = "releasing"
    BY <1>2 DEF Browser!Released
  <2>2. /\ \A y \in Watchers : ~Launches(y) /\ (y # x => ~Busy(y))
        /\ \A b \in Browser!Chromes : chrome[b] # "closing"
    <3>1. Busy(x) /\ ~Launches(x)
      BY <2>1 DEF Busy, BusyPCs, Launches, Browser!Launching
    <3>2. OfChromes
      BY DEF BrowserInv
    <3> QED BY <2>1, <3>1, <3>2, SoleBusy DEF OfChromes
  <2> QED BY <2>1, <2>2, ReleaseKeeps
<1> QED BY <1>1, <1>2

LEMMA BrowserStep ==
  ASSUME Browser!BrowserAssumption, TakingTurns, BrowserInv, [Browser!Next]_Browser!vars
  PROVE  BrowserInv'
<1>1. CASE \E x \in Watchers : Browser!Acquire(x) \/ Browser!Step(x) \/ Browser!PageCrashes(x) \/ Browser!Stop(x)
  <2>1. PICK x \in Watchers : Browser!Acquire(x) \/ Browser!Step(x) \/ Browser!PageCrashes(x) \/ Browser!Stop(x)
    BY <1>1
  <2> QED BY <2>1, AcquireKeeps, LaunchKeeps, PagesKeep, GivenBackKeeps DEF Browser!Step
<1>2. CASE \E b \in Browser!Chromes : Browser!Disconnected(b)
  BY <1>2, DisconnectedKeeps
<1>3. CASE UNCHANGED Browser!vars
  <2>1. /\ chrome' = chrome /\ shared' = shared /\ refCount' = refCount /\ lease' = lease /\ slots' = slots
        /\ owed' = owed /\ station' = station
    BY <1>3 DEF Browser!vars
  <2> QED BY <2>1 DEF BrowserInv, BrowserTypes, AtTheDesk, OfChromes, BrowserCounts, Busy, Launches, Seated, Broken, InUse
<1> QED BY <1>1, <1>2, <1>3 DEF Browser!Next

LEMMA BrowserStart ==
  ASSUME Browser!BrowserAssumption, Browser!Init
  PROVE  BrowserInv
<1>1. /\ chrome = [b \in Browser!Chromes |-> "none"] /\ shared = 0 /\ refCount = 0 /\ lease = FALSE /\ slots = 0 /\ owed = {}
      /\ station = [x \in Watchers |-> [pc |-> "off", on |-> 0, holding |-> FALSE, crashed |-> FALSE, stopped |-> FALSE]]
      /\ MaxBrowsers \in Nat /\ MaxLaunches \in Nat
  BY DEF Browser!Init, Browser!NoChrome, Browser!BrowserAssumption
<1>2. BrowserTypes
  <2>1. [pc |-> "off", on |-> 0, holding |-> FALSE, crashed |-> FALSE, stopped |-> FALSE] \in Station
    BY DEF Station
  <2>2. station \in [Watchers -> Station]
    BY <1>1, <2>1
  <2>3. chrome \in [Browser!Chromes -> {"none", "running", "closing", "gone", "failed"}]
    BY <1>1
  <2>4. slots \in 0..MaxBrowsers /\ refCount \in Nat
    BY <1>1
  <2>5. shared \in Browser!Chromes \cup {0} /\ lease \in BOOLEAN /\ owed \subseteq Browser!Chromes
    BY <1>1
  <2> QED BY <2>2, <2>3, <2>4, <2>5 DEF BrowserTypes
<1>3. \A x \in Watchers : ~Busy(x) /\ ~Launches(x)
  BY <1>1 DEF Busy, BusyPCs, Launches, Browser!Launching
<1>4. AtTheDesk
  BY <1>1, <1>3 DEF AtTheDesk
<1>5. OfChromes
  <2>1. 0 \in 0..MaxLaunches /\ \A b \in Browser!Chromes : chrome[b] # "none" <=> b <= 0
    BY <1>1 DEF Browser!Chromes
  <2> QED BY <1>1, <2>1 DEF OfChromes
<1>6. BrowserCounts
  <2>1. Cardinality(owed) = 0 /\ Seated = {} /\ Broken = {} /\ Cardinality({}) = 0
    BY <1>1, FS_EmptySet DEF Seated, Broken
  <2> QED BY <1>1, <2>1 DEF BrowserCounts, InUse
<1> QED BY <1>2, <1>4, <1>5, <1>6 DEF BrowserInv

LEMMA BrowserShows ==
  ASSUME Browser!BrowserAssumption, BrowserInv
  PROVE  Browser!TypeOK /\ Browser!LastOutCloses
<1>0. BrowserTypes /\ AtTheDesk /\ OfChromes /\ BrowserCounts
  BY DEF BrowserInv
<1>1. Browser!TypeOK
  <2>1. refCount \in 0..Browser!Cardinality(Watchers)
    <3>1. Seated \in SUBSET Watchers
      BY DEF Seated
    <3>2. Cardinality(Seated) <= Cardinality(Watchers) /\ Cardinality(Seated) \in Nat /\ Cardinality(Watchers) \in Nat
      BY <3>1, FewWatchers
    <3>3. refCount \in 0..Cardinality(Watchers)
      BY <1>0, <3>2 DEF BrowserTypes, BrowserCounts
    <3> QED BY <3>3, BrowsersAreCounted
  <2> QED BY <1>0, <2>1 DEF Browser!TypeOK, Browser!NoChrome, BrowserTypes, Station, BusyPCs
<1>2. Browser!LastOutCloses
  <2> SUFFICES ASSUME \A x \in Watchers : station[x].pc \in {"off", "refused"}
               PROVE  /\ shared = 0 /\ \A b \in Browser!Chromes : chrome[b] # "running"
                      /\ slots - Cardinality(owed) <= Cardinality(Broken)
    BY BrowsersAreCounted DEF Browser!LastOutCloses, Browser!NoChrome, Broken
  <2>1. \A x \in Watchers : ~station[x].holding /\ ~Launches(x)
    BY <1>0 DEF AtTheDesk, Launches, Browser!Launching
  <2>2. Seated = {} /\ Cardinality(Seated) = 0
    <3>1. Seated = {}
      BY <2>1 DEF Seated
    <3> QED BY <3>1, FS_EmptySet
  <2>3. shared = 0
    BY <1>0, <2>2, BrowserNumbers DEF BrowserCounts, OfChromes
  <2>4. ~InUse
    BY <2>1, <2>3 DEF InUse
  <2>5. \A b \in Browser!Chromes : chrome[b] # "running"
    BY <1>0, <2>1, <2>3 DEF OfChromes, Browser!Chromes
  <2> QED BY <1>0, <2>3, <2>4, <2>5, BrowserNumbers DEF BrowserCounts
<1> QED BY <1>1, <1>2

(* While watchers take turns at opening, recovering and stopping (and no    *)
(* turn overlaps a close), however many pages and Chromes die: once the     *)
(* last show has let go nothing runs, the handle is dropped, and a slot of  *)
(* the budget that is still taken is one that a close will give back or     *)
(* that a launch that threw took (watcher.ts, acquireBrowser and            *)
(* releaseBrowser).                                                         *)
THEOREM LastOutClosesIt ==
  Browser!BrowserAssumption /\ TakingTurns => (Browser!Spec => [](Browser!TypeOK /\ Browser!LastOutCloses))
<1> SUFFICES ASSUME Browser!BrowserAssumption, TakingTurns
             PROVE  Browser!Spec => [](Browser!TypeOK /\ Browser!LastOutCloses)
  OBVIOUS
<1>1. Browser!Init => BrowserInv
  BY BrowserStart
<1>2. BrowserInv /\ [Browser!Next]_Browser!vars => BrowserInv'
  BY BrowserStep
<1>3. BrowserInv => Browser!TypeOK /\ Browser!LastOutCloses
  BY BrowserShows
<1> QED BY <1>1, <1>2, <1>3, PTL DEF Browser!Spec

-----------------------------------------------------------------------------
(***************************************************************************)
(* A room read off its page.  What was seen is kept in the order it was    *)
(* said, and of the newest of it so much that a screen, which never shows  *)
(* older messages than it did, has nothing but what was seen and what is   *)
(* newer than all of that.                                                 *)
(***************************************************************************)
CONSTANTS MaxMessages, MaxRoomFaults, OnScreen, SeenKept, SeenMost, MaxReloads, CommentSilence, ActivityWindow, EndSilence

VARIABLES scrapedRoom, roomFaults, keeper, timesGiven

Room == INSTANCE RoomWatch WITH
  room <- scrapedRoom, faults <- roomFaults, w <- keeper, given <- timesGiven,
  MaxFaults <- MaxRoomFaults, Window <- OnScreen, SeenKeep <- SeenKept, SeenCap <- SeenMost

(* A sequence of numbers that rises has a gap of at least d over d places.  *)
Rising(s) == \A i, j \in 1..Len(s) : i < j => s[i] < s[j]

LEMMA RisingIsSpaced ==
  ASSUME NEW s \in Seq(Nat), Rising(s)
  PROVE  \A i, j \in 1..Len(s) : i <= j => s[j] >= s[i] + (j - i)
<1> SUFFICES ASSUME NEW i \in 1..Len(s), NEW k \in 1..Len(s), i <= k, ~(s[k] >= s[i] + (k - i)) PROVE FALSE
  OBVIOUS
<1> DEFINE Bad == {d \in Nat : i + d \in 1..Len(s) /\ ~(s[i + d] >= s[i] + d)}
<1>1. Bad \subseteq Nat /\ k - i \in Bad
  OBVIOUS
<1>2. PICK d \in Bad : \A e \in Bad : <<e, d>> \notin OpToRel(<, Nat)
  BY <1>1, WFMin, NatLessThanWellFounded
<1>3. \A e \in Bad : ~(e < d)
  BY <1>2 DEF OpToRel
<1>4. d # 0
  OBVIOUS
<1>5. d - 1 \in Nat /\ i + (d - 1) \in 1..Len(s) /\ d - 1 \notin Bad
  BY <1>3, <1>4
<1>6. s[i + (d - 1)] >= s[i] + (d - 1)
  BY <1>5
<1>7. d \in Nat /\ i + d \in 1..Len(s) /\ ~(s[i + d] >= s[i] + d)
  BY <1>1
<1>8. PICK p \in 1..Len(s), q \in 1..Len(s) : p = i + (d - 1) /\ q = i + d
  BY <1>5, <1>7
<1>9. s[p] < s[q]
  <2>1. p < q
    BY <1>7, <1>8
  <2> QED BY <2>1 DEF Rising
<1>10. s[i] \in Nat /\ s[p] \in Nat /\ s[q] \in Nat
  BY ElementOfSeq
<1>11. s[p] >= s[i] + (d - 1) /\ ~(s[q] >= s[i] + d)
  BY <1>6, <1>7, <1>8
<1>12. PICK x \in Nat, y \in Nat, z \in Nat, e \in Nat : x = s[i] /\ y = s[p] /\ z = s[q] /\ e = d
  BY <1>7, <1>10
<1>13. y < z /\ y >= x + (e - 1) /\ ~(z >= x + e)
  BY <1>9, <1>11, <1>12
<1> HIDE DEF Bad
<1> QED BY <1>13

(* A finite set of numbers can be put in order.                             *)
OrderOf(S) == {s \in [1..Cardinality(S) -> S] : \A i, j \in 1..Cardinality(S) : i < j => s[i] < s[j]}

LEMMA OrderExists ==
  ASSUME NEW S \in SUBSET Nat, IsFiniteSet(S)
  PROVE  OrderOf(S) # {}
<1> SUFFICES ASSUME OrderOf(S) = {} PROVE FALSE
  OBVIOUS
<1> DEFINE Bad == {n \in Nat : \E T \in SUBSET Nat : IsFiniteSet(T) /\ Cardinality(T) = n /\ OrderOf(T) = {}}
<1>1. Bad \subseteq Nat /\ Cardinality(S) \in Bad
  BY FS_CardinalityType
<1>2. PICK n \in Bad : \A e \in Bad : <<e, n>> \notin OpToRel(<, Nat)
  BY <1>1, WFMin, NatLessThanWellFounded
<1>3. \A e \in Bad : ~(e < n)
  BY <1>2 DEF OpToRel
<1>4. PICK T \in SUBSET Nat : IsFiniteSet(T) /\ Cardinality(T) = n /\ OrderOf(T) = {}
  BY <1>2
<1>5. T # {}
  <2> SUFFICES ASSUME T = {} PROVE FALSE
    OBVIOUS
  <2>1. Cardinality(T) = 0
    BY FS_EmptySet
  <2>2. [i \in 1..0 |-> i] \in OrderOf(T)
    BY <2>1 DEF OrderOf
  <2> QED BY <1>4, <2>2
<1>6. PICK m \in T : \A x \in T : ~(x < m)
  <2>1. PICK m \in T : \A x \in T : <<x, m>> \notin OpToRel(<, Nat)
    BY <1>5, WFMin, NatLessThanWellFounded
  <2> QED BY <2>1 DEF OpToRel
<1> DEFINE U == T \ {m}
<1>7. IsFiniteSet(U) /\ Cardinality(U) = n - 1 /\ n \in Nat /\ n - 1 \in Nat
  <2>1. IsFiniteSet(U) /\ Cardinality(U) = n - 1
    BY <1>4, FS_RemoveElement
  <2> QED BY <1>1, <2>1, FS_CardinalityType
<1>8. n - 1 \notin Bad
  BY <1>3, <1>7
<1>9. PICK s : s \in OrderOf(U)
  BY <1>7, <1>8
<1> DEFINE r == [i \in 1..n |-> IF i = 1 THEN m ELSE s[i - 1]]
<1>10. s \in [1..(n - 1) -> U] /\ \A i, j \in 1..(n - 1) : i < j => s[i] < s[j]
  BY <1>7, <1>9 DEF OrderOf
<1>11. r \in [1..n -> T]
  BY <1>7, <1>10
<1>12. \A i, j \in 1..n : i < j => r[i] < r[j]
  <2> SUFFICES ASSUME NEW i \in 1..n, NEW j \in 1..n, i < j PROVE r[i] < r[j]
    OBVIOUS
  <2>1. j - 1 \in 1..(n - 1) /\ r[j] = s[j - 1]
    BY <1>7
  <2>2. CASE i = 1
    <3>1. r[i] = m /\ s[j - 1] \in U
      BY <1>10, <2>1, <2>2
    <3>2. s[j - 1] \in Nat /\ m \in Nat /\ s[j - 1] # m /\ ~(s[j - 1] < m)
      BY <1>4, <1>6, <3>1
    <3> HIDE DEF r
    <3> QED BY <2>1, <3>1, <3>2
  <2>3. CASE i # 1
    <3>1. i - 1 \in 1..(n - 1) /\ r[i] = s[i - 1] /\ i - 1 < j - 1
      BY <1>7, <2>3
    <3>2. s[i - 1] < s[j - 1]
      BY <1>10, <2>1, <3>1
    <3> HIDE DEF r
    <3> QED BY <2>1, <3>1, <3>2
  <2> QED BY <2>2, <2>3
<1>13. r \in OrderOf(T)
  BY <1>4, <1>11, <1>12 DEF OrderOf
<1> QED BY <1>4, <1>13

Has(s) == {s[i] : i \in DOMAIN s}

(* Put in order, a set of numbers is a rising sequence of just its members. *)
LEMMA InOrderIsOrder ==
  ASSUME NEW S \in SUBSET Nat, IsFiniteSet(S)
  PROVE  Room!InOrder(S) \in Seq(Nat) /\ Rising(Room!InOrder(S)) /\ Has(Room!InOrder(S)) = S
<1> DEFINE s == Room!InOrder(S)
           n == Cardinality(S)
<1>1. n \in Nat
  BY FS_CardinalityType
<1>2. Room!Cardinality(S) = n
  BY DEF Room!Cardinality, Cardinality
<1>3. s \in [1..n -> S] /\ \A i, j \in 1..n : i < j => s[i] < s[j]
  BY <1>2, OrderExists DEF OrderOf, Room!InOrder
<1> HIDE DEF s, n
<1>4. s \in Seq(Nat) /\ Len(s) = n /\ DOMAIN s = 1..n
  <2>1. s \in [1..n -> Nat] /\ DOMAIN s = 1..n
    BY <1>3
  <2>2. s \in Seq(Nat)
    BY <1>1, <2>1, SeqDef
  <2>3. Len(s) \in Nat /\ 1..Len(s) = 1..n
    BY <2>1, <2>2, LenProperties
  <2> QED BY <1>1, <2>1, <2>2, <2>3
<1>5. Rising(s)
  BY <1>3, <1>4 DEF Rising
<1>6. s \in Injection(1..n, S)
  <2>1. \A i, j \in 1..n : s[i] = s[j] => i = j
    <3> SUFFICES ASSUME NEW i \in 1..n, NEW j \in 1..n, s[i] = s[j], i # j PROVE FALSE
      OBVIOUS
    <3>1. s[i] \in Nat /\ s[j] \in Nat
      BY <1>3
    <3>2. i < j \/ j < i
      BY <1>1
    <3> QED BY <1>3, <3>1, <3>2
  <2> QED BY <1>3, <2>1 DEF Injection, IsInjective
<1>7. IsFiniteSet(1..n) /\ Cardinality(1..n) = n
  <2>1. 1 - 1 <= n
    BY <1>1
  <2>2. IsFiniteSet(1..n)
    BY <1>1, FS_Interval
  <2> QED BY <1>1, <2>2, FS_Interval
<1>8. s \in Surjection(1..n, S)
  BY <1>6, <1>7, FS_Injection DEF n
<1>9. Has(s) = S
  BY <1>3, <1>4, <1>8 DEF Has, Surjection
<1> QED BY <1>4, <1>5, <1>9 DEF s

Newest(s) == IF Len(s) = 0 THEN 0 ELSE s[Len(s)]

(* The newest is no older than any, and what is put behind it rises.        *)
LEMMA NewestIsNewest ==
  ASSUME NEW s \in Seq(Nat), Rising(s)
  PROVE  Newest(s) \in Nat /\ \A m \in Has(s) : m <= Newest(s)
<1>1. Len(s) \in Nat /\ DOMAIN s = 1..Len(s)
  BY LenProperties
<1>2. \A i \in 1..Len(s) : s[i] \in Nat
  BY ElementOfSeq
<1>3. Newest(s) \in Nat
  BY <1>1, <1>2 DEF Newest
<1>4. ASSUME NEW m \in Has(s) PROVE m <= Newest(s)
  <2>1. PICK i \in 1..Len(s) : m = s[i]
    BY <1>1 DEF Has
  <2>2. Newest(s) = s[Len(s)] /\ Len(s) \in 1..Len(s)
    BY <1>1, <2>1 DEF Newest
  <2>3. CASE i = Len(s)
    BY <1>2, <2>1, <2>2, <2>3
  <2>4. CASE i # Len(s)
    <3>1. i < Len(s)
      <4>1. Len(s) \in Nat
        BY <1>1
      <4> QED BY <2>4, <4>1
    <3>2. s[i] < s[Len(s)]
      BY <2>1, <2>2, <3>1 DEF Rising
    <3> QED BY <1>2, <2>1, <2>2, <3>2
  <2> QED BY <2>3, <2>4
<1> QED BY <1>3, <1>4

LEMMA PlaceIsInOne == \A a, b \in Nat : \A k \in 1..(a + b) : k \in 1..a \/ \E c \in 1..b : k = a + c
<1> SUFFICES ASSUME NEW a \in Nat, NEW b \in Nat, NEW k \in 1..(a + b), k \notin 1..a PROVE \E c \in 1..b : k = a + c
  OBVIOUS
<1>1. k - a \in 1..b /\ k = a + (k - a)
  OBVIOUS
<1> QED BY <1>1

LEMMA RisingAppend ==
  ASSUME NEW s \in Seq(Nat), NEW t \in Seq(Nat), Rising(s), Rising(t), \A m \in Has(t) : m > Newest(s)
  PROVE  /\ s \o t \in Seq(Nat) /\ Rising(s \o t) /\ Has(s \o t) = Has(s) \cup Has(t)
         /\ Newest(s \o t) = IF Has(t) = {} THEN Newest(s) ELSE Newest(t)
<1> DEFINE r == s \o t
<1>1. /\ r \in Seq(Nat) /\ Len(r) = Len(s) + Len(t) /\ Len(s) \in Nat /\ Len(t) \in Nat
      /\ DOMAIN s = 1..Len(s) /\ DOMAIN t = 1..Len(t) /\ DOMAIN r = 1..Len(r)
  BY ConcatProperties, LenProperties
<1>2. /\ \A i \in 1..Len(s) : r[i] = s[i] /\ r[i] \in Nat /\ r[i] \in Has(s)
      /\ \A i \in 1..Len(t) : r[Len(s) + i] = t[i] /\ t[i] \in Nat /\ t[i] \in Has(t)
  <2>1. \A i \in 1..Len(s) : r[i] = s[i]
    BY <1>1, ConcatProperties
  <2>2. \A i \in 1..Len(t) : r[Len(s) + i] = t[i]
    BY <1>1
  <2>3. \A i \in 1..Len(s) : s[i] \in Nat
    BY ElementOfSeq
  <2>4. \A i \in 1..Len(t) : t[i] \in Nat
    BY ElementOfSeq
  <2> HIDE DEF r
  <2> QED BY <1>1, <2>1, <2>2, <2>3, <2>4 DEF Has
<1> HIDE DEF r
<1>3. \A k \in 1..Len(r) : k \in 1..Len(s) \/ \E b \in 1..Len(t) : k = Len(s) + b
  <2>1. Len(s) \in Nat /\ Len(t) \in Nat /\ Len(r) = Len(s) + Len(t)
    BY <1>1
  <2>2. \A k \in 1..(Len(s) + Len(t)) : k \in 1..Len(s) \/ \E b \in 1..Len(t) : k = Len(s) + b
    BY <2>1, PlaceIsInOne
  <2>3. 1..Len(r) = 1..(Len(s) + Len(t))
    BY <2>1
  <2> QED BY <2>2, <2>3, Zenon
<1>4. Rising(r)
  <2> SUFFICES ASSUME NEW i \in 1..Len(r), NEW j \in 1..Len(r), i < j PROVE r[i] < r[j]
    BY DEF Rising
  <2>1. CASE j \in 1..Len(s)
    <3>1. i \in 1..Len(s)
      BY <1>1, <2>1
    <3>2. s[i] < s[j]
      BY <2>1, <3>1 DEF Rising
    <3> QED BY <1>2, <2>1, <3>1, <3>2
  <2>2. CASE i \in 1..Len(s) /\ \E b \in 1..Len(t) : j = Len(s) + b
    <3>1. r[i] \in Has(s) /\ r[i] \in Nat
      BY <1>2, <2>2
    <3>2. r[j] \in Has(t) /\ r[j] \in Nat
      BY <1>2, <2>2
    <3>3. r[j] > Newest(s)
      BY <3>2
    <3>4. r[i] <= Newest(s) /\ Newest(s) \in Nat
      BY <3>1, NewestIsNewest
    <3> QED BY <3>1, <3>2, <3>3, <3>4
  <2>3. CASE (\E a \in 1..Len(t) : i = Len(s) + a) /\ (\E b \in 1..Len(t) : j = Len(s) + b)
    <3>1. PICK a \in 1..Len(t), b \in 1..Len(t) : i = Len(s) + a /\ j = Len(s) + b
      BY <2>3
    <3>2. a < b
      BY <1>1, <3>1
    <3>3. t[a] < t[b]
      BY <3>2 DEF Rising
    <3> QED BY <1>2, <3>1, <3>3
  <2>4. ~(j \in 1..Len(s) /\ i \notin 1..Len(s))
    BY <1>1
  <2> QED BY <1>3, <2>1, <2>2, <2>3, <2>4
<1>5. Has(r) = Has(s) \cup Has(t)
  <2>1. ASSUME NEW m \in Has(r) PROVE m \in Has(s) \cup Has(t)
    <3>1. PICK k \in 1..Len(r) : m = r[k]
      BY <1>1 DEF Has
    <3>2. CASE k \in 1..Len(s)
      BY <1>2, <3>1, <3>2
    <3>3. CASE \E b \in 1..Len(t) : k = Len(s) + b
      BY <1>2, <3>1, <3>3
    <3> QED BY <1>3, <3>2, <3>3
  <2>2. ASSUME NEW m \in Has(s) PROVE m \in Has(r)
    <3>1. PICK i \in 1..Len(s) : m = s[i]
      BY <1>1 DEF Has
    <3>2. i \in 1..Len(r) /\ r[i] = m
      BY <1>1, <1>2, <3>1
    <3> QED BY <1>1, <3>2 DEF Has
  <2>3. ASSUME NEW m \in Has(t) PROVE m \in Has(r)
    <3>1. PICK i \in 1..Len(t) : m = t[i]
      BY <1>1 DEF Has
    <3>2. Len(s) + i \in 1..Len(r) /\ r[Len(s) + i] = m
      BY <1>1, <1>2, <3>1
    <3> QED BY <1>1, <3>2 DEF Has
  <2> QED BY <2>1, <2>2, <2>3
<1>6. Newest(r) = IF Has(t) = {} THEN Newest(s) ELSE Newest(t)
  <2>1. Len(t) = 0 <=> Has(t) = {}
    <3>1. Len(t) # 0 => 1 \in 1..Len(t)
      BY <1>1
    <3>2. Len(t) = 0 => DOMAIN t = {}
      BY <1>1
    <3> QED BY <1>1, <3>1, <3>2 DEF Has
  <2>2. CASE Len(t) = 0
    <3>1. Len(r) = Len(s)
      BY <1>1, <2>2
    <3>2. Len(s) # 0 => r[Len(s)] = s[Len(s)]
      BY <1>1, <1>2
    <3> QED BY <2>1, <2>2, <3>1, <3>2 DEF Newest
  <2>3. CASE Len(t) # 0
    <3>1. Len(r) # 0 /\ Len(t) \in 1..Len(t)
      BY <1>1, <2>3
    <3>2. r[Len(r)] = t[Len(t)]
      BY <1>1, <1>2, <3>1
    <3> QED BY <2>1, <2>3, <3>1, <3>2 DEF Newest
  <2> QED BY <2>2, <2>3
<1> QED BY <1>1, <1>4, <1>5, <1>6 DEF r

(* Of what was seen, all is there that a screen could still show.           *)
Covers(s) == \A m \in Room!Numbers : (m <= Newest(s) /\ m > Newest(s) - OnScreen) => m \in Has(s)

KeptSeen(s, upto) == s \in Seq(Nat) /\ Rising(s) /\ Newest(s) <= upto /\ Covers(s)

OnPage(upto) == {m \in Room!Numbers : m <= upto /\ m > upto - OnScreen}

LEMMA PageIsFinite ==
  ASSUME Room!WatchAssumption, NEW S, S \subseteq Room!Numbers
  PROVE  IsFiniteSet(S) /\ S \in SUBSET Nat
<1>1. MaxMessages \in Nat /\ Room!Numbers = 1..MaxMessages
  BY DEF Room!WatchAssumption, Room!Numbers
<1>2. IsFiniteSet(1..MaxMessages)
  BY <1>1, FS_Interval
<1>3. IsFiniteSet(S)
  BY <1>1, <1>2, FS_Subset
<1>4. 1..MaxMessages \subseteq Nat
  BY <1>1
<1> QED BY <1>1, <1>3, <1>4

(* What a page shows and was not seen is newer than all that was; with it,  *)
(* what was seen reaches up to what is shown.                               *)
LEMMA ReadsOn ==
  ASSUME Room!WatchAssumption, NEW s, NEW upto \in Nat, upto <= MaxMessages, KeptSeen(s, upto),
         NEW S, S = OnPage(upto) \ Has(s)
  PROVE  /\ \A m \in S : m > Newest(s) /\ m <= upto
         /\ KeptSeen(s \o Room!InOrder(S), upto) /\ Newest(s \o Room!InOrder(S)) = upto
<1> DEFINE t == Room!InOrder(S)
<1>1. s \in Seq(Nat) /\ Rising(s) /\ Newest(s) <= upto /\ Covers(s)
  BY DEF KeptSeen
<1>2. MaxMessages \in Nat /\ Room!Numbers = 1..MaxMessages /\ OnScreen \in Nat \ {0}
  BY DEF Room!WatchAssumption, Room!Numbers
<1>3. Newest(s) \in Nat /\ \A m \in Has(s) : m <= Newest(s)
  BY <1>1, NewestIsNewest
<1>4. ASSUME NEW m \in S PROVE m > Newest(s) /\ m <= upto
  <2>1. m \in Room!Numbers /\ m \in Nat /\ m <= upto /\ m > upto - OnScreen /\ m \notin Has(s)
    BY <1>2 DEF OnPage
  <2>2. ~(m <= Newest(s) /\ m > Newest(s) - OnScreen)
    BY <1>1, <2>1 DEF Covers
  <2> QED BY <1>1, <1>2, <1>3, <2>1, <2>2
<1>5. IsFiniteSet(S) /\ S \in SUBSET Nat
  BY PageIsFinite DEF OnPage
<1>6. t \in Seq(Nat) /\ Rising(t) /\ Has(t) = S
  BY <1>5, InOrderIsOrder
<1> HIDE DEF t
<1>7. \A m \in Has(t) : m > Newest(s)
  BY <1>4, <1>6
<1>8. /\ s \o t \in Seq(Nat) /\ Rising(s \o t) /\ Has(s \o t) = Has(s) \cup S
      /\ Newest(s \o t) = IF S = {} THEN Newest(s) ELSE Newest(t)
  BY <1>1, <1>6, <1>7, RisingAppend
<1>9. Newest(s \o t) = upto
  <2>1. CASE S = {}
    <3>1. upto # 0 => upto \in OnPage(upto)
      BY <1>2 DEF OnPage
    <3>2. upto # 0 => upto \in Has(s)
      BY <2>1, <3>1
    <3> QED BY <1>1, <1>3, <1>8, <2>1, <3>2
  <2>2. CASE S # {}
    <3>1. PICK m \in S : TRUE
      BY <2>2
    <3>2. upto # 0 /\ upto > Newest(s)
      BY <1>3, <1>4, <1>5, <3>1
    <3>3. upto \in OnPage(upto) /\ upto \notin Has(s)
      BY <1>2, <1>3, <3>2 DEF OnPage
    <3>4. upto \in Has(t)
      BY <1>6, <3>3
    <3>5. Newest(t) \in Nat /\ upto <= Newest(t)
      BY <1>6, <3>4, NewestIsNewest
    <3>6. Newest(t) \in Has(t)
      <4>1. Len(t) \in Nat
        BY <1>6, LenProperties
      <4>2. Len(t) # 0
        <5> SUFFICES ASSUME Len(t) = 0 PROVE FALSE
          OBVIOUS
        <5>1. DOMAIN t = 1..Len(t)
          BY <1>6, LenProperties
        <5>2. 1..Len(t) = {}
          OBVIOUS
        <5> QED BY <3>4, <5>1, <5>2 DEF Has
      <4>3. Len(t) \in 1..Len(t)
        BY <4>1, <4>2
      <4>4. DOMAIN t = 1..Len(t)
        BY <1>6, LenProperties
      <4> QED BY <4>2, <4>3, <4>4 DEF Has, Newest
    <3>7. Newest(t) <= upto
      BY <1>4, <1>6, <3>6
    <3> QED BY <1>8, <2>2, <3>5, <3>7
  <2> QED BY <2>1, <2>2
<1>10. Covers(s \o t)
  BY <1>8, <1>9 DEF Covers, OnPage
<1>11. KeptSeen(s \o t, upto)
  BY <1>8, <1>9, <1>10 DEF KeptSeen
<1> QED BY <1>4, <1>9, <1>11 DEF t

(* The cut leaves the newest, and of the rest all that matters.             *)
LEMMA TrimKeeps ==
  ASSUME Room!WatchAssumption, NEW upto \in Nat, NEW s, KeptSeen(s, upto)
  PROVE  KeptSeen(Room!Trim(s), upto) /\ Newest(Room!Trim(s)) = Newest(s)
<1>1. s \in Seq(Nat) /\ Rising(s) /\ Newest(s) <= upto /\ Covers(s)
  BY DEF KeptSeen
<1>2. OnScreen \in Nat \ {0} /\ SeenKept \in Nat /\ SeenMost \in Nat /\ OnScreen <= SeenKept /\ SeenKept <= SeenMost
  BY DEF Room!WatchAssumption
<1>3. CASE ~(Len(s) > SeenMost)
  BY <1>3 DEF Room!Trim
<1>4. CASE Len(s) > SeenMost
  <2> DEFINE d == Len(s) - SeenKept
             t == SubSeq(s, d + 1, Len(s))
  <2>1. Room!Trim(s) = t
    <3>1. Room!Trim(s) = SubSeq(s, Len(s) - SeenKept + 1, Len(s))
      BY <1>4 DEF Room!Trim
    <3> QED BY <3>1
  <2>2. Len(s) \in Nat
    BY <1>1, LenProperties
  <2>3. d \in Nat /\ d + 1 \in 1..Len(s) /\ Len(s) - (d + 1) + 1 = SeenKept /\ d + SeenKept = Len(s)
    BY <1>2, <1>4, <2>2
  <2>4. t \in Seq(Nat) /\ Len(t) = SeenKept /\ \A i \in 1..SeenKept : t[i] = s[d + i]
    <3>1. \A i \in (d + 1)..Len(s) : i \in 1..Len(s)
      BY <2>2, <2>3
    <3>2. \A i \in (d + 1)..Len(s) : s[i] \in Nat
      BY <1>1, <3>1, ElementOfSeq
    <3>3. d + 1 \in Int /\ Len(s) \in Int
      BY <2>2, <2>3
    <3> HIDE DEF d
    <3>4. /\ t \in Seq(Nat)
          /\ Len(t) = IF d + 1 <= Len(s) THEN Len(s) - (d + 1) + 1 ELSE 0
          /\ \A i \in 1..(Len(s) - (d + 1) + 1) : t[i] = s[(d + 1) + i - 1]
      BY <3>2, <3>3, SubSeqProperties
    <3>5. \A i \in 1..SeenKept : (d + 1) + i - 1 = d + i
      BY <1>2, <2>3
    <3> QED BY <2>2, <2>3, <3>4, <3>5
  <2> HIDE DEF t
  <2>5. \A i \in 1..SeenKept : d + i \in 1..Len(s)
    BY <1>2, <2>2, <2>3
  <2>6. \A i \in 1..Len(s) : s[i] \in Nat
    BY <1>1, ElementOfSeq
  <2>7. SeenKept \in 1..SeenKept /\ SeenKept # 0 /\ Len(s) # 0
    BY <1>2, <1>4, <2>2
  <2>8. Newest(t) = Newest(s)
    <3>1. t[SeenKept] = s[Len(s)]
      BY <2>3, <2>4, <2>7
    <3> QED BY <2>4, <2>7, <3>1 DEF Newest
  <2>9. Rising(t)
    <3> SUFFICES ASSUME NEW i \in 1..SeenKept, NEW j \in 1..SeenKept, i < j PROVE t[i] < t[j]
      BY <2>4 DEF Rising
    <3>1. d + i < d + j /\ d + i \in 1..Len(s) /\ d + j \in 1..Len(s)
      BY <1>2, <2>3, <2>5
    <3>2. s[d + i] < s[d + j]
      BY <1>1, <3>1 DEF Rising
    <3> QED BY <2>4, <3>2
  <2>10. Covers(t)
    <3> SUFFICES ASSUME NEW m \in Room!Numbers, m <= Newest(s), m > Newest(s) - OnScreen PROVE m \in Has(t)
      BY <2>8 DEF Covers
    <3>1. m \in Has(s)
      BY <1>1 DEF Covers
    <3>2. PICK i \in 1..Len(s) : m = s[i]
      <4>1. DOMAIN s = 1..Len(s)
        BY <1>1, LenProperties
      <4> QED BY <3>1, <4>1 DEF Has
    <3>3. s[Len(s)] >= s[i] + (Len(s) - i)
      <4>1. Len(s) \in 1..Len(s) /\ i <= Len(s)
        BY <2>2, <2>7
      <4> QED BY <1>1, <4>1, RisingIsSpaced
    <3>4. Newest(s) = s[Len(s)] /\ s[Len(s)] \in Nat /\ m \in Nat
      <4>1. Len(s) \in 1..Len(s)
        BY <2>2, <2>7
      <4> QED BY <2>6, <2>7, <3>2, <4>1 DEF Newest
    <3>5. Len(s) - i < OnScreen
      <4>1. PICK x \in Nat, l \in Nat, n \in Nat : x = m /\ l = Len(s) /\ n = Newest(s)
        BY <2>2, <3>4
      <4>2. n >= x + (l - i) /\ x > n - OnScreen
        BY <3>2, <3>3, <3>4, <4>1
      <4> QED BY <1>2, <4>1, <4>2
    <3>6. i - d \in 1..SeenKept /\ i = d + (i - d)
      BY <1>2, <2>2, <2>3, <3>5
    <3>7. t[i - d] = m
      BY <2>4, <3>2, <3>6
    <3>8. DOMAIN t = 1..SeenKept
      BY <2>4, LenProperties
    <3> QED BY <3>6, <3>7, <3>8 DEF Has
  <2> QED BY <1>1, <2>1, <2>4, <2>8, <2>9, <2>10 DEF KeptSeen
<1> QED BY <1>3, <1>4

NoneGiven == [m \in Room!Numbers |-> 0]

RoomTyped ==
  /\ scrapedRoom \in [said : 0..MaxMessages, shown : Nat, feed : {"on", "dead"}, page : {"none", "open", "wall", "dead"}]
  /\ scrapedRoom.shown <= scrapedRoom.said

WatcherTypes ==
  [pc : {"off", "opening", "first", "polling", "reloading", "recovering", "absorbing"}, stopped : BOOLEAN,
   seen : Seq(Nat), first : Nat, reloads : Nat, gaveUp : BOOLEAN, ended : BOOLEAN, blocked : BOOLEAN,
   quiet : Nat, idle : Nat]

(* The watcher has read nothing yet.                                        *)
NotYetRead(x) == (x.pc = "off" /\ ~x.stopped) \/ x.pc \in {"opening", "first"}

(* Nothing was handed over but once, after the backlog, and it is no newer  *)
(* than the newest that was seen.                                           *)
Handed(x, g) ==
  /\ g \in [Room!Numbers -> Nat]
  /\ \A m \in Room!Numbers : g[m] # 0 => g[m] = 1 /\ x.first < m /\ m <= Newest(x.seen)
  /\ x.first <= Newest(x.seen)
  /\ NotYetRead(x) => x.first = 0 /\ x.seen = <<>> /\ g = NoneGiven

SeenKeepsUp == KeptSeen(keeper.seen, scrapedRoom.shown)

RoomInv == RoomTyped /\ keeper \in WatcherTypes /\ SeenKeepsUp /\ Handed(keeper, timesGiven)

LEMMA NothingSeen == ASSUME NEW n \in Nat PROVE KeptSeen(<<>>, n) /\ Newest(<<>>) = 0
<1>1. <<>> \in Seq(Nat) /\ Len(<<>>) = 0 /\ DOMAIN <<>> = {}
  BY EmptySeq
<1>2. Rising(<<>>)
  BY <1>1 DEF Rising
<1>3. Newest(<<>>) = 0
  BY <1>1 DEF Newest
<1>4. Covers(<<>>)
  <2> SUFFICES ASSUME NEW m \in Room!Numbers, m <= 0 PROVE FALSE
    BY <1>3 DEF Covers
  <2>1. m \in 1..MaxMessages
    BY DEF Room!Numbers
  <2> QED BY <2>1
<1> QED BY <1>1, <1>2, <1>3, <1>4 DEF KeptSeen

(* More is shown, and nothing is forgotten.                                 *)
LEMMA ShowsMore ==
  ASSUME NEW s, NEW n \in Nat, NEW k \in Nat, n <= k, KeptSeen(s, n)
  PROVE  KeptSeen(s, k)
<1>1. s \in Seq(Nat) /\ Rising(s) /\ Newest(s) <= n
  BY DEF KeptSeen
<1>2. Newest(s) \in Nat
  BY <1>1, NewestIsNewest
<1>3. Newest(s) <= k
  BY <1>1, <1>2
<1> QED BY <1>1, <1>3 DEF KeptSeen

LEMMA TickingKeeps ==
  ASSUME NEW x \in WatcherTypes
  PROVE  /\ Room!Ticking(x) \in WatcherTypes /\ ~NotYetRead(Room!Ticking(x))
         /\ Room!Ticking(x).seen = x.seen /\ Room!Ticking(x).first = x.first
<1>1. Room!Ticking(x) = [x EXCEPT !.pc = IF x.stopped THEN "off" ELSE "polling"]
  BY DEF Room!Ticking
<1>2. (IF x.stopped THEN "off" ELSE "polling") \in {"off", "polling"}
  OBVIOUS
<1> QED BY <1>1, <1>2 DEF WatcherTypes, NotYetRead

LEMMA WatchdogKeeps ==
  ASSUME NEW x \in WatcherTypes
  PROVE  /\ Room!Watchdog(x) \in WatcherTypes /\ ~NotYetRead(Room!Watchdog(x))
         /\ Room!Watchdog(x).seen = x.seen /\ Room!Watchdog(x).first = x.first
<1> DEFINE y == [x EXCEPT !.ended = TRUE]
           z == [x EXCEPT !.gaveUp = TRUE]
           u == [x EXCEPT !.pc = "reloading", !.reloads = @ + 1]
<1>1. Room!Watchdog(x) \in {Room!Ticking(x), Room!Ticking(y), Room!Ticking(z), u}
  BY DEF Room!Watchdog
<1>2. y \in WatcherTypes /\ y.seen = x.seen /\ y.first = x.first
  BY DEF WatcherTypes
<1>3. z \in WatcherTypes /\ z.seen = x.seen /\ z.first = x.first
  BY DEF WatcherTypes
<1>4. u \in WatcherTypes /\ ~NotYetRead(u) /\ u.seen = x.seen /\ u.first = x.first
  <2>1. x.reloads + 1 \in Nat
    BY DEF WatcherTypes
  <2>2. u \in WatcherTypes
    BY <2>1 DEF WatcherTypes
  <2>3. u.pc = "reloading" /\ u.seen = x.seen /\ u.first = x.first
    BY DEF WatcherTypes
  <2> QED BY <2>2, <2>3 DEF NotYetRead
<1> HIDE DEF y, z, u
<1> QED BY <1>1, <1>2, <1>3, <1>4, TickingKeeps

(* Nothing is handed over or seen, and the watcher goes on as it was.       *)
LEMMA NothingRead ==
  ASSUME RoomInv, NEW x \in WatcherTypes, x.seen = keeper.seen, x.first = keeper.first, NotYetRead(x) => NotYetRead(keeper)
  PROVE  Handed(x, timesGiven)
BY DEF RoomInv, Handed

(* The room: what is shown only grows.                                      *)
LEMMA RoomMoves ==
  ASSUME Room!WatchAssumption, RoomInv, Room!Say \/ Room!Fault \/ Room!WallFalls
  PROVE  RoomInv'
<1>1. keeper' = keeper /\ timesGiven' = timesGiven
  BY DEF Room!Say, Room!Fault, Room!WallFalls
<1>2. MaxMessages \in Nat
  BY DEF Room!WatchAssumption
<1>3. RoomTyped' /\ scrapedRoom'.shown \in Nat /\ scrapedRoom.shown <= scrapedRoom'.shown
  <2>1. CASE Room!Say
    <3>1. PICK n \in {scrapedRoom.said + 1, scrapedRoom.shown} : scrapedRoom' = [scrapedRoom EXCEPT !.said = scrapedRoom.said + 1, !.shown = n]
      BY <2>1 DEF Room!Say
    <3>2. scrapedRoom.said + 1 \in 0..MaxMessages /\ n \in Nat /\ n <= scrapedRoom.said + 1 /\ scrapedRoom.shown <= n
      BY <1>2, <2>1 DEF Room!Say, RoomInv, RoomTyped
    <3> QED BY <3>1, <3>2 DEF RoomInv, RoomTyped
  <2>2. CASE Room!Fault
    BY <2>2 DEF Room!Fault, RoomInv, RoomTyped
  <2>3. CASE Room!WallFalls
    BY <2>3 DEF Room!WallFalls, RoomInv, RoomTyped
  <2> QED BY <2>1, <2>2, <2>3
<1>4. scrapedRoom.shown \in Nat
  BY DEF RoomInv, RoomTyped
<1>5. SeenKeepsUp'
  BY <1>1, <1>3, <1>4, ShowsMore DEF RoomInv, SeenKeepsUp
<1> QED BY <1>1, <1>3, <1>5 DEF RoomInv, Handed, NotYetRead

(* A page just opened or reloaded.                                          *)
LEMMA FreshKeeps ==
  ASSUME RoomInv, NEW feed \in {"on", "dead"}
  PROVE  /\ Room!Fresh(feed) \in [said : 0..MaxMessages, shown : Nat, feed : {"on", "dead"},
                                  page : {"none", "open", "wall", "dead"}]
         /\ Room!Fresh(feed).shown <= Room!Fresh(feed).said /\ scrapedRoom.shown <= Room!Fresh(feed).shown
<1>1. PICK n \in {scrapedRoom.said, scrapedRoom.shown}, p \in {scrapedRoom.page, "open"} :
        Room!Fresh(feed) = [scrapedRoom EXCEPT !.feed = feed, !.shown = n, !.page = p]
  BY DEF Room!Fresh
<1>2. n \in Nat /\ n <= scrapedRoom.said /\ scrapedRoom.shown <= n
  BY DEF RoomInv, RoomTyped
<1> QED BY <1>1, <1>2 DEF RoomInv, RoomTyped

LEMMA Opens ==
  ASSUME Room!WatchAssumption, RoomInv, Room!Opened \/ Room!Reloads
  PROVE  RoomInv'
<1>1. PICK feed \in {"on", "dead"} : scrapedRoom' = Room!Fresh(feed)
  BY DEF Room!Opened, Room!Reloads, RoomInv, RoomTyped
<1>2. RoomTyped' /\ scrapedRoom'.shown \in Nat /\ scrapedRoom.shown \in Nat /\ scrapedRoom.shown <= scrapedRoom'.shown
  BY <1>1, FreshKeeps DEF RoomTyped, RoomInv
<1>3. timesGiven' = timesGiven
  BY DEF Room!Opened, Room!Reloads
<1>4. /\ keeper' \in WatcherTypes /\ keeper'.seen = keeper.seen /\ keeper'.first = keeper.first
      /\ NotYetRead(keeper') => NotYetRead(keeper)
  <2>1. CASE Room!Opened
    BY <2>1 DEF Room!Opened, RoomInv, WatcherTypes, NotYetRead
  <2>2. CASE Room!Reloads
    BY <2>2 DEF Room!Reloads, RoomInv, WatcherTypes, NotYetRead
  <2> QED BY <2>1, <2>2
<1>5. SeenKeepsUp'
  BY <1>2, <1>4, ShowsMore DEF RoomInv, SeenKeepsUp
<1>6. Handed(keeper', timesGiven')
  BY <1>3, <1>4, NothingRead
<1> QED BY <1>2, <1>4, <1>5, <1>6 DEF RoomInv, Handed, NotYetRead

(* Steps of the watcher in which nothing is read.                           *)
LEMMA Waits ==
  ASSUME Room!WatchAssumption, RoomInv,
         Room!Start \/ Room!AttachFails \/ Room!PollThrows \/ Room!GoesWrong \/ Room!Stop
  PROVE  RoomInv'
<1>1. timesGiven' = timesGiven
  BY DEF Room!Start, Room!AttachFails, Room!PollThrows, Room!GoesWrong, Room!Stop
<1>2. RoomTyped' /\ scrapedRoom'.shown = scrapedRoom.shown
  <2>1. CASE scrapedRoom' = scrapedRoom
    BY <2>1 DEF RoomInv, RoomTyped
  <2>2. CASE scrapedRoom' # scrapedRoom
    <3>1. PICK p \in {scrapedRoom.page, "none", "dead"} : scrapedRoom' = [scrapedRoom EXCEPT !.page = p]
      BY <2>2 DEF Room!Start, Room!AttachFails, Room!PollThrows, Room!GoesWrong, Room!Stop
    <3> QED BY <3>1 DEF RoomInv, RoomTyped
  <2> QED BY <2>1, <2>2
<1>3. /\ keeper' \in WatcherTypes /\ keeper'.seen = keeper.seen /\ keeper'.first = keeper.first
      /\ NotYetRead(keeper') => NotYetRead(keeper)
  <2>1. CASE Room!Start
    BY <2>1 DEF Room!Start, RoomInv, WatcherTypes, NotYetRead
  <2>2. CASE Room!AttachFails
    BY <2>2 DEF Room!AttachFails, RoomInv, WatcherTypes, NotYetRead
  <2>3. CASE Room!PollThrows
    BY <2>3 DEF Room!PollThrows, RoomInv, WatcherTypes, NotYetRead
  <2>4. CASE Room!GoesWrong
    <3>1. keeper' = Room!Ticking(keeper) /\ keeper.pc \in {"reloading", "absorbing", "recovering"}
      BY <2>4 DEF Room!GoesWrong
    <3>2. ~NotYetRead(keeper)
      BY <3>1 DEF NotYetRead
    <3> QED BY <3>1, <3>2, TickingKeeps DEF RoomInv
  <2>5. CASE Room!Stop
    BY <2>5 DEF Room!Stop, RoomInv, WatcherTypes, NotYetRead
  <2> QED BY <2>1, <2>2, <2>3, <2>4, <2>5
<1>4. SeenKeepsUp'
  BY <1>2, <1>3 DEF RoomInv, SeenKeepsUp
<1>5. Handed(keeper', timesGiven')
  BY <1>1, <1>3, NothingRead
<1> QED BY <1>2, <1>3, <1>4, <1>5 DEF RoomInv, Handed, NotYetRead

(* What a read leaves as seen.                                              *)
LEMMA WhatIsRead ==
  ASSUME Room!WatchAssumption, RoomInv, NEW S, S = Room!scrape \ Room!SeenSet
  PROVE  /\ KeptSeen(keeper.seen \o Room!InOrder(S), scrapedRoom.shown)
         /\ Newest(keeper.seen) \in Nat
         /\ Newest(keeper.seen) <= Newest(keeper.seen \o Room!InOrder(S))
         /\ \A m \in S : m > Newest(keeper.seen) /\ m <= Newest(keeper.seen \o Room!InOrder(S))
         /\ scrapedRoom.page # "wall" => Newest(keeper.seen \o Room!InOrder(S)) = scrapedRoom.shown
         /\ S \subseteq Room!Numbers
<1> DEFINE s == keeper.seen
<1>1. KeptSeen(s, scrapedRoom.shown) /\ scrapedRoom.shown \in Nat /\ scrapedRoom.shown <= MaxMessages
  <2>1. MaxMessages \in Nat
    BY DEF Room!WatchAssumption
  <2> QED BY <2>1 DEF RoomInv, SeenKeepsUp, RoomTyped
<1>2. s \in Seq(Nat) /\ Rising(s) /\ Newest(s) <= scrapedRoom.shown
  BY <1>1 DEF KeptSeen
<1>3. Newest(s) \in Nat
  BY <1>2, NewestIsNewest
<1>4. Room!SeenSet = Has(s)
  BY DEF Room!SeenSet, Room!ToSet, Has
<1>5. CASE scrapedRoom.page = "wall"
  <2>1. S = {}
    BY <1>5 DEF Room!scrape
  <2>2. IsFiniteSet({}) /\ {} \in SUBSET Nat
    BY FS_EmptySet
  <2>3. Room!InOrder({}) \in Seq(Nat) /\ Has(Room!InOrder({})) = {}
    BY <2>2, InOrderIsOrder
  <2>4. Room!InOrder({}) = <<>>
    <3>1. DOMAIN Room!InOrder({}) = {}
      BY <2>3 DEF Has
    <3>2. Len(Room!InOrder({})) = 0
      <4>1. Len(Room!InOrder({})) \in Nat /\ 1..Len(Room!InOrder({})) = {}
        BY <2>3, <3>1, LenProperties
      <4> QED BY <4>1
    <3> QED BY <2>3, <3>2, EmptySeq
  <2>5. s \o <<>> = s
    BY <1>2, ConcatEmptySeq
  <2>6. keeper.seen \o Room!InOrder(S) = s
    BY <2>1, <2>4, <2>5
  <2>7. KeptSeen(keeper.seen \o Room!InOrder(S), scrapedRoom.shown)
    BY <1>1, <2>6
  <2>8. Newest(keeper.seen \o Room!InOrder(S)) = Newest(keeper.seen)
    BY <2>6
  <2>9. Newest(keeper.seen) <= Newest(keeper.seen \o Room!InOrder(S))
    BY <1>3, <2>8
  <2> HIDE DEF s
  <2> QED BY <1>3, <1>5, <2>1, <2>7, <2>9 DEF s
<1>6. CASE scrapedRoom.page # "wall"
  <2>1. S = OnPage(scrapedRoom.shown) \ Has(s)
    BY <1>4, <1>6 DEF Room!scrape, Room!screen, OnPage
  <2>2. S \subseteq Room!Numbers
    BY <2>1 DEF OnPage
  <2> HIDE DEF s
  <2>3. /\ \A m \in S : m > Newest(s) /\ m <= scrapedRoom.shown
        /\ KeptSeen(s \o Room!InOrder(S), scrapedRoom.shown) /\ Newest(s \o Room!InOrder(S)) = scrapedRoom.shown
    BY <1>1, <2>1, ReadsOn
  <2> QED BY <1>2, <1>3, <1>6, <2>2, <2>3 DEF s
<1> QED BY <1>5, <1>6

(* What is read as history, at first or after a reload.                     *)
LEMMA AbsorbKeeps ==
  ASSUME Room!WatchAssumption, RoomInv, Room!Backlog \/ Room!Absorb
  PROVE  RoomInv'
<1> DEFINE S == Room!scrape \ Room!SeenSet
           s == keeper.seen
           t == s \o Room!InOrder(S)
<1>1. scrapedRoom' = scrapedRoom /\ timesGiven' = timesGiven
  BY DEF Room!Backlog, Room!Absorb
<1>2. Room!Absorbed = t
  BY DEF Room!Absorbed
<1>3. KeptSeen(t, scrapedRoom.shown) /\ Newest(s) \in Nat /\ Newest(s) <= Newest(t) /\ (scrapedRoom.page # "wall" => Newest(t) = scrapedRoom.shown)
  BY WhatIsRead
<1>4. t \in Seq(Nat) /\ Rising(t)
  BY <1>3 DEF KeptSeen
<1>5. Newest(t) \in Nat
  BY <1>4, NewestIsNewest
<1>6. scrapedRoom.shown \in Nat /\ keeper \in WatcherTypes
  BY DEF RoomInv, RoomTyped
<1>7. Handed(keeper, timesGiven)
  BY DEF RoomInv
<1> HIDE DEF t, S
<1>8. PICK x \in WatcherTypes : /\ keeper' = Room!Ticking(x) /\ x.seen = t /\ x.first <= Newest(t)
                                /\ timesGiven = NoneGiven \/ x.first = keeper.first
  <2>1. CASE Room!Backlog
    <3> DEFINE n == IF scrapedRoom.page = "wall" THEN 0 ELSE scrapedRoom.shown
               b == scrapedRoom.page = "wall"
               x == [keeper EXCEPT !.seen = t, !.first = n, !.blocked = b]
    <3>1. keeper' = Room!Ticking(x)
      BY <1>2, <2>1 DEF Room!Backlog
    <3>2. n \in Nat /\ b \in BOOLEAN /\ n <= Newest(t)
      BY <1>3, <1>5, <1>6
    <3> HIDE DEF n, b
    <3>3. x \in WatcherTypes /\ x.seen = t /\ x.first = n
      BY <1>4, <1>6, <3>2 DEF WatcherTypes
    <3>4. NotYetRead(keeper)
      BY <2>1 DEF NotYetRead, Room!Backlog
    <3>5. timesGiven = NoneGiven
      BY <1>7, <3>4 DEF Handed
    <3> HIDE DEF x
    <3> QED BY <3>1, <3>2, <3>3, <3>5
  <2>2. CASE Room!Absorb
    <3> DEFINE x == [keeper EXCEPT !.seen = t, !.quiet = 0]
    <3>1. keeper' = Room!Ticking(x)
      BY <1>2, <2>2 DEF Room!Absorb
    <3>2. x \in WatcherTypes /\ x.seen = t /\ x.first = keeper.first
      BY <1>4, <1>6 DEF WatcherTypes
    <3>3. keeper.first <= Newest(t)
      <4>1. keeper.first \in Nat /\ keeper.first <= Newest(s)
        BY <1>6, <1>7 DEF WatcherTypes, Handed
      <4> QED BY <1>3, <1>5, <4>1
    <3> HIDE DEF x
    <3> QED BY <3>1, <3>2, <3>3
  <2> QED BY <2>1, <2>2
<1>9. keeper' \in WatcherTypes /\ ~NotYetRead(keeper') /\ keeper'.seen = t /\ keeper'.first = x.first
  BY <1>8, TickingKeeps
<1>10. Handed(keeper', timesGiven')
  <2>1. ASSUME NEW m \in Room!Numbers, timesGiven[m] # 0
        PROVE  timesGiven[m] = 1 /\ x.first < m /\ m <= Newest(t)
    <3>1. timesGiven # NoneGiven
      BY <2>1 DEF NoneGiven
    <3>2. timesGiven[m] = 1 /\ keeper.first < m /\ m <= Newest(s)
      BY <1>7, <2>1 DEF Handed
    <3>3. m \in Int
      BY DEF Room!Numbers
    <3> QED BY <1>3, <1>5, <1>8, <3>1, <3>2, <3>3
  <2> QED BY <1>1, <1>7, <1>8, <1>9, <2>1 DEF Handed
<1>11. RoomTyped' /\ SeenKeepsUp'
  BY <1>1, <1>3, <1>9 DEF RoomInv, RoomTyped, SeenKeepsUp
<1> QED BY <1>9, <1>10, <1>11 DEF RoomInv, Handed, NotYetRead

(* A poll: what was not seen is handed over, and is seen from now on.       *)
LEMMA PollKeeps ==
  ASSUME Room!WatchAssumption, RoomInv, Room!Poll
  PROVE  RoomInv'
<1> DEFINE S == Room!scrape \ Room!SeenSet
           s == keeper.seen
           t == s \o Room!InOrder(S)
           u == Room!Trim(t)
<1>1. scrapedRoom' = scrapedRoom /\ keeper.pc = "polling"
  BY DEF Room!Poll
<1>2. /\ KeptSeen(t, scrapedRoom.shown) /\ Newest(s) \in Nat /\ Newest(s) <= Newest(t)
      /\ \A m \in S : m > Newest(s) /\ m <= Newest(t)
  BY WhatIsRead
<1>3. scrapedRoom.shown \in Nat /\ keeper \in WatcherTypes
  BY DEF RoomInv, RoomTyped
<1>4. Handed(keeper, timesGiven)
  BY DEF RoomInv
<1>5. KeptSeen(u, scrapedRoom.shown) /\ Newest(u) = Newest(t)
  <2> HIDE DEF t
  <2> QED BY <1>2, <1>3, TrimKeeps
<1>6. u \in Seq(Nat) /\ Newest(t) \in Nat
  <2>1. u \in Seq(Nat) /\ t \in Seq(Nat) /\ Rising(t)
    BY <1>2, <1>5 DEF KeptSeen
  <2> QED BY <2>1, NewestIsNewest
<1>7. timesGiven' = [m \in Room!Numbers |-> IF m \in S THEN timesGiven[m] + 1 ELSE timesGiven[m]]
  BY DEF Room!Poll
<1>8. PICK x \in WatcherTypes : keeper' = Room!Watchdog(x) /\ x.seen = u /\ x.first = keeper.first
  <2>1. PICK b, q, i : keeper' = Room!Watchdog([keeper EXCEPT !.seen = u, !.blocked = b, !.quiet = q, !.idle = i])
                       /\ b \in BOOLEAN /\ q \in Nat /\ i \in Nat
    <3> DEFINE b == scrapedRoom.page = "wall"
               q == IF S # {} THEN 0 ELSE Room!Later(keeper.quiet)
    <3>1. PICK moved \in BOOLEAN :
            keeper' = Room!Watchdog([keeper EXCEPT !.seen = u, !.blocked = b, !.quiet = q,
                                                   !.idle = IF moved THEN 0 ELSE Room!Later(keeper.idle)])
      BY DEF Room!Poll
    <3>2. \A n \in Nat : Room!Later(n) \in Nat
      BY DEF Room!Later
    <3>3. keeper.quiet \in Nat /\ keeper.idle \in Nat
      BY <1>3 DEF WatcherTypes
    <3>4. q \in Nat /\ (IF moved THEN 0 ELSE Room!Later(keeper.idle)) \in Nat /\ b \in BOOLEAN
      BY <3>2, <3>3
    <3> HIDE DEF b, q, u
    <3> QED BY <3>1, <3>4
  <2> DEFINE x == [keeper EXCEPT !.seen = u, !.blocked = b, !.quiet = q, !.idle = i]
  <2> HIDE DEF u
  <2>2. x \in WatcherTypes /\ x.seen = u /\ x.first = keeper.first
    BY <1>3, <1>6, <2>1 DEF WatcherTypes
  <2> HIDE DEF x
  <2> QED BY <2>1, <2>2 DEF x
<1> HIDE DEF u, t, S
<1>9. keeper' \in WatcherTypes /\ ~NotYetRead(keeper') /\ keeper'.seen = u /\ keeper'.first = keeper.first
  BY <1>8, WatchdogKeeps
<1>10. Handed(keeper', timesGiven')
  <2>1. ASSUME NEW m \in Room!Numbers
        PROVE  timesGiven'[m] \in Nat /\ (timesGiven'[m] # 0 => timesGiven'[m] = 1 /\ keeper.first < m /\ m <= Newest(u))
    <3>1. m \in Int /\ timesGiven[m] \in Nat /\ keeper.first \in Nat /\ keeper.first <= Newest(s)
      BY <1>3, <1>4 DEF Room!Numbers, Handed, WatcherTypes
    <3>2. timesGiven[m] # 0 => timesGiven[m] = 1 /\ keeper.first < m /\ m <= Newest(s)
      BY <1>4 DEF Handed
    <3>3. CASE m \in S
      <4>1. m > Newest(s) /\ m <= Newest(t)
        BY <1>2, <3>3
      <4>2. timesGiven[m] = 0
        BY <1>2, <3>1, <3>2, <4>1
      <4>3. timesGiven'[m] = 1
        BY <1>7, <3>3, <4>2
      <4> QED BY <1>2, <1>5, <3>1, <4>1, <4>3
    <3>4. CASE m \notin S
      <4>1. timesGiven'[m] = timesGiven[m]
        BY <1>7, <3>4
      <4> QED BY <1>2, <1>5, <1>6, <3>1, <3>2, <4>1
    <3> QED BY <3>3, <3>4
  <2>2. timesGiven' \in [Room!Numbers -> Nat]
    BY <1>7, <2>1
  <2>3. keeper.first <= Newest(u)
    <3>1. keeper.first \in Nat /\ keeper.first <= Newest(s)
      BY <1>3, <1>4 DEF Handed, WatcherTypes
    <3> QED BY <1>2, <1>5, <1>6, <3>1
  <2> QED BY <1>9, <2>1, <2>2, <2>3 DEF Handed
<1>11. RoomTyped' /\ SeenKeepsUp'
  BY <1>1, <1>5, <1>9 DEF RoomInv, RoomTyped, SeenKeepsUp
<1> QED BY <1>9, <1>10, <1>11 DEF RoomInv, Handed, NotYetRead

LEMMA RoomBegins == Room!WatchAssumption /\ Room!Init => RoomInv
<1> SUFFICES ASSUME Room!WatchAssumption, Room!Init PROVE RoomInv
  OBVIOUS
<1>1. RoomTyped /\ scrapedRoom.shown = 0
  BY DEF Room!WatchAssumption, Room!Init, RoomTyped
<1>2. <<>> \in Seq(Nat)
  BY EmptySeq
<1>3. /\ keeper \in WatcherTypes /\ keeper.pc = "off" /\ keeper.stopped = FALSE
      /\ keeper.seen = <<>> /\ keeper.first = 0
  BY <1>2 DEF Room!Init, WatcherTypes
<1>4. KeptSeen(<<>>, 0) /\ Newest(<<>>) = 0
  BY NothingSeen
<1>5. timesGiven = NoneGiven
  BY DEF Room!Init, NoneGiven
<1>6. Handed(keeper, timesGiven)
  BY <1>3, <1>4, <1>5 DEF Handed, NoneGiven
<1> QED BY <1>1, <1>3, <1>4, <1>6 DEF RoomInv, SeenKeepsUp

(* scrapeWatcher.ts: whatever is said, however the page, its feed and its   *)
(* browser fail, and whenever what was seen is cut, no message is handed to *)
(* the reply pipeline twice, and none of a backlog that was read.           *)
THEOREM RoomIsHeardOnce == Room!WatchAssumption => (Room!Spec => []Room!HandedOverOnce)
<1> SUFFICES ASSUME Room!WatchAssumption PROVE Room!Spec => []Room!HandedOverOnce
  OBVIOUS
<1>1. Room!Init => RoomInv
  BY RoomBegins
<1>2. RoomInv /\ [Room!Next]_Room!vars => RoomInv'
  <2> SUFFICES ASSUME RoomInv, [Room!Next]_Room!vars PROVE RoomInv'
    OBVIOUS
  <2>1. CASE Room!Next
    BY <2>1, RoomMoves, Opens, Waits, AbsorbKeeps, PollKeeps DEF Room!Next, Room!Step
  <2>2. CASE UNCHANGED Room!vars
    BY <2>2 DEF Room!vars, RoomInv, RoomTyped, SeenKeepsUp, Handed, NotYetRead
  <2> QED BY <2>1, <2>2
<1>3. RoomInv => Room!HandedOverOnce
  <2> SUFFICES ASSUME RoomInv, NEW m \in Room!Numbers
               PROVE  timesGiven[m] <= (IF m <= keeper.first THEN 0 ELSE 1)
    BY DEF Room!HandedOverOnce
  <2>1. m \in Int /\ keeper.first \in Nat /\ timesGiven[m] \in Nat
    BY DEF RoomInv, Room!Numbers, WatcherTypes, Handed
  <2>2. timesGiven[m] # 0 => timesGiven[m] = 1 /\ keeper.first < m
    BY DEF RoomInv, Handed
  <2> QED BY <2>1, <2>2
<1> QED BY <1>1, <1>2, <1>3, PTL DEF Room!Spec
================================================================================
