------------------------------ MODULE DraftQueue ------------------------------
(***************************************************************************)
(* The drafts that wait for the operator, and the two pages that count     *)
(* them (api/drafts.ts, api/home.ts, the routes of /api/drafts and         *)
(* /api/home): one session of an asynchronous surface, whose runtime holds *)
(* drafts in memory and writes each settled one to reply_proposals; what a *)
(* detach or a restart leaves of them; and the account's follow-ups.       *)
(*                                                                         *)
(* A draft is under way, then open or blocked; a press marks it sent or    *)
(* dismisses it.  Texts, filters and the page of two hundred rows are left *)
(* out, and so is the streaming of a draft, which its end overwrites.      *)
(***************************************************************************)
EXTENDS Integers, FiniteSets

CONSTANTS
  Drafts,           \* the comments the session drafts for
  FollowUps,        \* the rows of the inbox
  Requests,         \* presses on a draft
  MaxRegenerated,   \* bound: drafts asked for again
  MaxPages,         \* bound: requests of a page
  MaxFaults         \* bound: restarts, writes and ledger entries that fail

(* An id is of a draft or of a follow-up.                                   *)
DraftsAssumption ==
  IsFiniteSet(Drafts) /\ IsFiniteSet(FollowUps) /\ Drafts \cap FollowUps = {}

VARIABLES
  session,  \* live | draining | reporting (detaching), ended (so says its row), gone; down
  held,     \* what the runtime holds: draft -> none, or its status; away: of an earlier runtime
  writing,  \* drafts the model is writing
  writes,   \* upserts under way: <<draft, status, who sent it>>
  rows,     \* reply_proposals: draft -> its row
  inbox,    \* followups: follow-up -> its status
  press,    \* request -> how far
  entries,  \* reply_sent entries: <<request, draft>>
  page,     \* a request of one of the pages
  spent     \* of the bounds

vars == <<session, held, writing, writes, rows, inbox, press, entries, page, spent>>

None == "none"
Watched == {"live", "draining", "reporting", "ended"}   \* in the registry's map
OnAir == {"live", "draining", "reporting"}              \* and live, by its row
Card == {"open", "blocked", "sent", "dismissed"}        \* STATUS: drafting is not a draft yet
isWaiting(status) == status = "open"

Idle == [kind |-> None, of |-> None, pc |-> "idle", retry |-> FALSE]
NoPage == [pc |-> "idle", live |-> {}, stored |-> {}, waiting |-> {}, before |-> {}, steady |-> FALSE, count |-> 0]

Init ==
  /\ session = "live"
  /\ held = [d \in Drafts |-> None] /\ writing = {} /\ writes = {}
  /\ rows = [d \in Drafts |-> [status |-> None, sentAt |-> None]]
  /\ inbox = [f \in FollowUps |-> "open"]
  /\ press = [r \in Requests |-> Idle] /\ entries = {}
  /\ page = NoPage
  /\ spent = [again |-> 0, pages |-> 0, faults |-> 0, spoiled |-> {}]

Fault == spent.faults < MaxFaults
Faulted(ds) == spent' = [spent EXCEPT !.faults = @ + 1, !.spoiled = @ \cup ds]
Writes(d) == {w \in writes : w[1] = d}

---------------------------- (* the session's runtime *) --------------------
Draft(d) ==
  /\ session \in Watched /\ held[d] = None
  /\ held' = [held EXCEPT ![d] = "drafting"] /\ writing' = writing \cup {d}
  /\ UNCHANGED <<session, writes, rows, inbox, press, entries, page, spent>>

(* Asked of whatever the runtime holds, a draft that was sent as well.      *)
Regenerate(d) ==
  /\ session \in Watched /\ held[d] \in Card \cup {"drafting"} /\ spent.again < MaxRegenerated
  /\ spent' = [spent EXCEPT !.again = @ + 1, !.spoiled = @ \cup {d}]
  /\ held' = [held EXCEPT ![d] = "drafting"] /\ writing' = writing \cup {d}
  /\ UNCHANGED <<session, writes, rows, inbox, press, entries, page>>

(* The draft ends, over whatever a press did meanwhile: recordProposal.     *)
(* Also after the runtime has left the map.                                 *)
Settle(d) == \E status \in {"open", "blocked"} :
  /\ d \in writing /\ writing' = writing \ {d}
  /\ held' = [held EXCEPT ![d] = status]
  /\ writes' = writes \cup {<<d, status, None>>}
  /\ UNCHANGED <<session, rows, inbox, press, entries, page>>
  /\ spent' = IF held[d] = "drafting" THEN spent ELSE [spent EXCEPT !.spoiled = @ \cup {d}]

(* An upsert lands, in any order; or it fails, which is logged.  The moment *)
(* of sending is stamped once.                                              *)
Land == \E w \in writes : LET d == w[1] IN
  /\ writes' = writes \ {w}
  /\ \/ /\ rows' = [rows EXCEPT ![d] = [status |-> w[2], sentAt |-> IF @.sentAt = None THEN w[3] ELSE @.sentAt]]
        /\ spent' = IF Writes(d) = {w} THEN spent ELSE [spent EXCEPT !.spoiled = @ \cup {d}]
     \/ Fault /\ Faulted({d}) /\ rows' = rows
  /\ UNCHANGED <<session, held, writing, inbox, press, entries, page>>

(* A detach: the writes are waited for, the report is built while drafts    *)
(* still come, the row says ended, and the runtime leaves the map.          *)
Detach ==
  /\ \/ session = "live" /\ session' = "draining"
     \/ session = "draining" /\ writes = {} /\ session' = "reporting"
     \/ session = "reporting" /\ session' = "ended"
     \/ session = "ended" /\ session' = "gone"
  /\ page' = [page EXCEPT !.steady = FALSE]
  /\ UNCHANGED <<held, writing, writes, rows, inbox, press, entries, spent>>

(* The process goes, and with it what it held and the requests under way.   *)
Restart ==
  /\ Fault /\ session # "down"
  /\ Faulted({w[1] : w \in writes} \cup {press[r].of : r \in {q \in Requests : press[q].pc \notin {"idle", "done"}}})
  /\ session' = IF session \in OnAir THEN "down" ELSE "gone"
  /\ held' = [d \in Drafts |-> IF held[d] = None THEN None ELSE "away"]
  /\ writing' = {} /\ writes' = {}
  /\ press' = [r \in Requests |-> IF press[r].pc = "idle" THEN Idle ELSE [press[r] EXCEPT !.pc = "done"]]
  /\ page' = NoPage
  /\ UNCHANGED <<rows, inbox, entries>>

(* A session whose row is live is resumed under its own id, with nothing in *)
(* memory; an old comment is not drafted again.                             *)
Resume ==
  /\ session = "down" /\ session' = "live" /\ page' = [page EXCEPT !.steady = FALSE]
  /\ UNCHANGED <<held, writing, writes, rows, inbox, press, entries, spent>>

------------------------------ (* presses: findDraft *) ---------------------
Goto(r, pc) == press' = [press EXCEPT ![r].pc = pc]

(* What a press found.  A retry: an earlier press on the draft has been     *)
(* answered and recorded, and nothing is being written.                     *)
Found(r, kind, d, pc) == press' = [press EXCEPT ![r] =
  [kind |-> kind, of |-> d, pc |-> pc, retry |->
     Writes(d) = {} /\ \E q \in Requests : press[q].pc = "done" /\ <<q, d>> \in entries]]

(* markSent asks that it was not dismissed; dismiss asks nothing.           *)
PressFollowUp(r) == \E f \in FollowUps, kind \in {"sent", "dismissed"} :
  /\ press[r].pc = "idle"
  /\ Found(r, kind, f, "done")
  /\ inbox' = [inbox EXCEPT ![f] = IF kind = "sent" /\ @ = "dismissed" THEN @ ELSE kind]
  /\ UNCHANGED <<session, held, writing, writes, rows, entries, page, spent>>

OfRuntime(d) == session \in OnAir /\ held[d] \in Card \cup {"drafting"}

PressLive_twice(r) ==  \* mutant: what went is sent again
  \E d \in Drafts : /\ press[r].pc = "idle" /\ OfRuntime(d)
                    /\ Found(r, "sent", d, IF held[d] = "blocked" THEN "done" ELSE "send")
                    /\ UNCHANGED <<session, held, writing, writes, rows, inbox, entries, page, spent>>

(* A live session's copy always wins.  Sending hands back what went, and    *)
(* refuses what was blocked.                                                *)
PressLive(r) == \E d \in Drafts :
  /\ press[r].pc = "idle" /\ OfRuntime(d)
  /\ Found(r, "sent", d, IF held[d] \in {"sent", "blocked"} THEN "done" ELSE "send")
  /\ UNCHANGED <<session, held, writing, writes, rows, inbox, entries, page, spent>>

DismissLive(r) == \E d \in Drafts :
  /\ press[r].pc = "idle" /\ OfRuntime(d)
  /\ Found(r, "dismissed", d, "done")
  /\ held' = [held EXCEPT ![d] = "dismissed"]
  /\ writes' = writes \cup {<<d, "dismissed", None>>}
  /\ spent' = [spent EXCEPT !.spoiled = @ \cup {d}]
  /\ UNCHANGED <<session, writing, rows, inbox, entries, page>>

Send(r) ==
  /\ press[r].pc = "send"
  /\ held' = [held EXCEPT ![press[r].of] = "sent"]
  /\ Goto(r, "ledger")
  /\ UNCHANGED <<session, writing, writes, rows, inbox, entries, page, spent>>

(* The entry is written, then the row; or it fails, and with it the press.  *)
Ledger(r) == LET d == press[r].of IN
  /\ press[r].pc = "ledger" /\ Goto(r, "done")
  /\ \/ entries' = entries \cup {<<r, d>>} /\ writes' = writes \cup {<<d, "sent", r>>} /\ spent' = spent
     \/ Fault /\ Faulted({d}) /\ UNCHANGED <<entries, writes>>
  /\ UNCHANGED <<session, held, writing, rows, inbox, page>>

(* No runtime holds it: markStoredSent and dismissStored read the row, and  *)
(* answer a draft that is settled as it is.                                 *)
Look(r) == \E d \in Drafts, kind \in {"sent", "dismissed"} :
  /\ press[r].pc = "idle" /\ ~OfRuntime(d) /\ rows[d].status \in Card
  /\ Found(r, kind, d, IF \/ rows[d].status = "sent"
                          \/ kind = "sent" /\ rows[d].status # "open" THEN "done" ELSE "write")
  /\ UNCHANGED <<session, held, writing, writes, rows, inbox, entries, page, spent>>

WriteSent_any(r) == LET d == press[r].of IN  \* mutant: the statement asks for no status
  /\ press[r].pc = "write" /\ press[r].kind = "sent"
  /\ rows' = [rows EXCEPT ![d] = [status |-> "sent", sentAt |-> IF @.sentAt = None THEN r ELSE @.sentAt]]
  /\ Goto(r, "record")
  /\ UNCHANGED <<session, held, writing, writes, inbox, entries, page, spent>>

WriteSent(r) == LET d == press[r].of IN
  /\ press[r].pc = "write" /\ press[r].kind = "sent"
  /\ rows' = IF rows[d].status \in {"blocked", "dismissed"} THEN rows
             ELSE [rows EXCEPT ![d] = [status |-> "sent", sentAt |-> IF @.sentAt = None THEN r ELSE @.sentAt]]
  /\ Goto(r, "record")
  /\ UNCHANGED <<session, held, writing, writes, inbox, entries, page, spent>>

(* The entry, by every press that found the draft open, whatever the        *)
(* statement did.  It may fail, and nobody is told.                         *)
Record(r) ==
  /\ press[r].pc = "record" /\ Goto(r, "done")
  /\ \/ entries' = entries \cup {<<r, press[r].of>>}
     \/ Fault /\ entries' = entries
  /\ spent' = IF entries' = entries THEN [spent EXCEPT !.faults = @ + 1] ELSE spent
  /\ UNCHANGED <<session, held, writing, writes, rows, inbox, page>>

WriteDismissed(r) == LET d == press[r].of IN
  /\ press[r].pc = "write" /\ press[r].kind = "dismissed" /\ Goto(r, "done")
  /\ rows' = [rows EXCEPT ![d].status = IF @ = "sent" THEN @ ELSE "dismissed"]
  /\ UNCHANGED <<session, held, writing, writes, inbox, entries, page, spent>>

----------------------- (* GET /api/drafts and /api/home *) -----------------
RowsOpen == {d \in Drafts : isWaiting(rows[d].status)}
Waiting == {f \in FollowUps : isWaiting(inbox[f])}

(* What the sessions on air hold that is a draft; home takes the waiting    *)
(* ones, counted by the registry.                                           *)
draftsFromSession == {<<d, held[d]>> : d \in {e \in Drafts : session \in OnAir /\ held[e] \in Card}}
persistedAsyncDrafts == {<<d, rows[d].status>> : d \in {e \in Drafts : rows[e].status \in Card}}
Of(cards) == {c[1] : c \in cards}

draftQueue_bySession(live, stored) ==  \* mutant: a session on air stands for all its rows
  live \cup IF session \in OnAir THEN {} ELSE stored

(* The durable half is everything the runtimes are not already holding.     *)
draftQueue(live, stored) == live \cup {c \in stored : c[1] \notin Of(live)}

Open(cards) == Cardinality({c \in cards : isWaiting(c[2])})
stillLive == {d \in Drafts : session \in Watched /\ held[d] \in Card \cup {"drafting"}}

(* nowBand: what the sessions on air wait for, the stored drafts no runtime *)
(* holds by now, and the inbox.                                             *)
nowBand(live, stored, waiting) ==
  Open(live) + Open({c \in stored : c[1] \notin stillLive}) + Cardinality(waiting)

Ask(kind) ==
  /\ page.pc = "idle" /\ spent.pages < MaxPages
  /\ page' = [NoPage EXCEPT !.pc = kind, !.steady = kind = "home",
                         !.before = IF kind = "list" THEN Of(persistedAsyncDrafts) ELSE {}]
  /\ spent' = [spent EXCEPT !.pages = @ + 1]
  /\ UNCHANGED <<session, held, writing, writes, rows, inbox, press, entries>>

(* The list reads both halves at once; home the sessions first.  A read of  *)
(* the stored drafts that fails reads as none.                              *)
ReadSessions ==
  /\ page.pc \in {"list", "home", "listStored"}
  /\ page' = [page EXCEPT !.live = draftsFromSession, !.waiting = Waiting,
       !.pc = CASE page.pc = "list" -> "listLive" [] page.pc = "home" -> "homeLive" [] OTHER -> "answerList"]
  /\ UNCHANGED <<session, held, writing, writes, rows, inbox, press, entries, spent>>

ReadStored ==
  /\ page.pc \in {"list", "listLive", "homeLive"}
  /\ \E failed \in BOOLEAN :
       /\ failed => Fault
       /\ spent' = IF failed THEN [spent EXCEPT !.faults = @ + 1] ELSE spent
       /\ page' = [page EXCEPT !.stored = IF failed THEN {} ELSE persistedAsyncDrafts,
            !.before = IF failed THEN {} ELSE @,
            !.pc = CASE page.pc = "list" -> "listStored" [] page.pc = "homeLive" -> "answerHome"
                     [] OTHER -> "answerList"]
  /\ UNCHANGED <<session, held, writing, writes, rows, inbox, press, entries>>

AnswerList ==
  /\ page.pc = "answerList"
  /\ LET cards == draftQueue(page.live, page.stored) IN
     page' = [NoPage EXCEPT !.pc = "listed", !.live = cards, !.before = page.before]
  /\ UNCHANGED <<session, held, writing, writes, rows, inbox, press, entries, spent>>

AnswerHome ==
  /\ page.pc = "answerHome"
  /\ page' = [NoPage EXCEPT !.pc = "told", !.steady = page.steady,
                         !.count = nowBand(page.live, page.stored, page.waiting)]
  /\ UNCHANGED <<session, held, writing, writes, rows, inbox, press, entries, spent>>

-----------------------------------------------------------------------------
Next ==
  \/ \E d \in Drafts : Draft(d) \/ Regenerate(d) \/ Settle(d)
  \/ Land \/ Detach \/ Restart \/ Resume
  \/ \E r \in Requests : \/ PressFollowUp(r) \/ PressLive(r) \/ DismissLive(r) \/ Send(r) \/ Ledger(r)
                         \/ Look(r) \/ WriteSent(r) \/ Record(r) \/ WriteDismissed(r)
  \/ Ask("list") \/ Ask("home")
  \/ ReadSessions \/ ReadStored \/ AnswerList \/ AnswerHome

Spec == Init /\ [][Next]_vars

-----------------------------------------------------------------------------
TypeOK ==
  /\ session \in Watched \cup {"gone", "down"}
  /\ held \in [Drafts -> Card \cup {None, "drafting", "away"}] /\ writing \subseteq Drafts
  /\ rows \in [Drafts -> [status : Card \cup {None}, sentAt : Requests \cup {None}]]
  /\ \A w \in writes : w[1] \in Drafts /\ w[2] \in Card
  /\ inbox \in [FollowUps -> {"open", "sent", "dismissed"}]
  /\ \A r \in Requests : press[r].pc \in {"idle", "send", "ledger", "write", "record", "done"}
  /\ page.count \in 0..2 * Cardinality(Drafts \cup FollowUps)

(* Presses that cross do not undo one another: the moment a draft was sent  *)
(* does not move once it is stamped, and a row that was sent or dismissed   *)
(* is changed by no press, only by what a runtime still wrote.              *)
DecisionsStand == [][\A e \in Drafts :
  /\ rows[e].sentAt # None => rows'[e].sentAt = rows[e].sentAt
  /\ rows[e].status \in {"sent", "dismissed"} /\ rows'[e].status # rows[e].status =>
       \E w \in writes \ writes' : w[1] = e]_vars

(* A retried press writes no second entry, be it answered by a runtime or   *)
(* from the row: unless the draft was asked for again, dismissed, or a      *)
(* write of it was lost or overtaken.                                       *)
RetriesAreQuiet == \A r \in Requests : LET d == press[r].of IN
  press[r].retry /\ d \notin spent.spoiled => <<r, d>> \notin entries

(* A draft whose row was there when the page was asked for is on the list,  *)
(* once: whatever detaches, restarts or resumes while the halves are read.  *)
ListIsWhole ==
  page.pc = "listed" =>
    /\ page.before \subseteq Of(page.live)
    /\ Cardinality(page.live) = Cardinality(Of(page.live))

(* Home counts no draft twice, if the session neither left nor came back    *)
(* while it read.                                                           *)
HomeCountsOnce ==
  page.pc = "told" /\ page.steady => page.count <= Cardinality(Drafts \cup FollowUps)

(* The count on home is the count of the list it links to, whatever was     *)
(* written so far: but while a draft is written again whose row is open,    *)
(* and while a session that ended is still in the map.                      *)
HomeAgrees ==
  session # "ended" /\ (\A d \in RowsOpen : held[d] # "drafting") =>
    nowBand(draftsFromSession, persistedAsyncDrafts, Waiting)
      = Open(draftQueue(draftsFromSession, persistedAsyncDrafts)) + Cardinality(Waiting)
=============================================================================
