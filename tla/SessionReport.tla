----------------------------- MODULE SessionReport -----------------------------
(***************************************************************************)
(* What a session leaves behind: the chat and the proposals written while  *)
(* it runs, fire and forget (shows/sessionRecord.ts), and the report that  *)
(* is built by counting those rows when the session ends (shows/runtime.ts *)
(* `finishSession`).                                                       *)
(*                                                                         *)
(* A finisher is one call of finishSession.  "close" is the registry's     *)
(* detach or its watchdog, on the runtime that wrote the record; "again"   *)
(* is a replay runtime (POST /report, or the sweep after a restart), whose *)
(* own record has written nothing.  One buyer per message.                 *)
(***************************************************************************)
EXTENDS Integers, FiniteSets, TLAPS

CONSTANTS
  Messages,   \* questions from buyers
  Closers,    \* finishers on the live runtime
  Again,      \* finishers on a replay of it
  MaxFinishes,\* bound: finishers that start
  WriteFails, \* may a write of the record fail?
  BuildFails  \* may building the report throw (a read, the audit chain)?

Finishers == Closers \cup Again

VARIABLES
  runtime,    \* the live runtime: "on", "closing", "closed"
  question,   \* message -> its proposal in memory
  pending,    \* SessionRecord.pending: writes started and not finished
  table,      \* what the database holds of the record
  lost,       \* writes that failed
  show,       \* the row of the show
  fin,        \* finisher -> where it is, and what it has read
  leads       \* the follow-ups selected at the end: none yet, or a set of messages

vars == <<runtime, question, pending, table, lost, show, fin, leads>>

None == "none"
Statuses == {"unseen", "drafting", "ready", "sent", "dismissed"}
Settled == {"ready", "sent", "dismissed"}

Write == [of : Messages, status : Statuses \ {"unseen"}]   \* "drafting": the chat row

Reader(pc) == [pc |-> pc, before |-> {}, chat |-> {}]
NoReport == [by |-> None, end |-> None]

Init ==
  /\ runtime = "on"
  /\ question = [m \in Messages |-> "unseen"]
  /\ pending = {} /\ lost = {}
  /\ table = [chat |-> {}, status |-> [m \in Messages |-> "unseen"]]
  /\ show = [status |-> "live", end |-> None, report |-> NoReport, error |-> FALSE, cost |-> FALSE]
  /\ fin = [f \in Finishers |-> Reader("idle")]
  /\ leads = [known |-> FALSE, who |-> {}]

--------------------------- (* the session runs *) --------------------------
(* onChat: the gate admitted it, a draft starts, and its row is on its way. *)
RecordChat(m) ==
  /\ runtime = "on" /\ question[m] = "unseen"
  /\ question' = [question EXCEPT ![m] = "drafting"]
  /\ pending' = pending \cup {[of |-> m, status |-> "drafting"]}
  /\ UNCHANGED <<runtime, table, lost, show, fin, leads>>

(* onProposal, once the draft has settled, and again for each decision of   *)
(* the operator: a write of its own, which does not wait for the one before.*)
RecordProposal(m) == \E s \in Settled :
  /\ runtime # "closed"
  /\ \/ question[m] = "drafting" /\ s = "ready"
     \/ question[m] = "ready" /\ s \in {"sent", "dismissed"}
  /\ question' = [question EXCEPT ![m] = s]
  /\ pending' = pending \cup {[of |-> m, status |-> s]}
  /\ UNCHANGED <<runtime, table, lost, show, fin, leads>>

(* The upserts: a row is written over whole, whichever write lands last.    *)
Lands(w) ==
  table' = IF w.status = "drafting" THEN [table EXCEPT !.chat = @ \cup {w.of}]
           ELSE [table EXCEPT !.status[w.of] = w.status]

WriteReturns == \E w \in pending :
  /\ pending' = pending \ {w}
  /\ \/ Lands(w) /\ lost' = lost
     \/ WriteFails /\ lost' = lost \cup {w.of} /\ table' = table
  /\ UNCHANGED <<runtime, question, show, fin, leads>>

------------------------- (* finishing a session *) -------------------------
At(f, pc) == fin[f].pc = pc
GoOn(f, pc) == fin' = [fin EXCEPT ![f] = Reader(pc)]
After(f) == IF f \in Closers THEN "close" ELSE "done"

Asked == {m \in Messages : question[m] # "unseen"}

(* A regeneration is refused while the session is on air.  The end of the   *)
(* session is stamped first, and once: COALESCE.                            *)
Stamp(f) ==
  /\ runtime = "on" \/ f \in Again
  /\ Cardinality({g \in Finishers : ~At(g, "idle")}) < MaxFinishes
  /\ At(f, "idle") /\ (f \in Again => show.status = "ended")
  /\ show' = [show EXCEPT !.end = IF @ = None THEN f ELSE @]
  /\ fin' = [fin EXCEPT ![f].pc = "drain", ![f].before = Asked]
  /\ UNCHANGED <<runtime, question, pending, table, lost, leads>>

Drain_not(f) ==  \* mutant: nothing waits for the writes
  /\ At(f, "drain")
  /\ fin' = [fin EXCEPT ![f].pc = "chat"]
  /\ UNCHANGED <<runtime, question, pending, table, lost, show, leads>>

(* Waits until none of this runtime's writes is pending.  A replay has a    *)
(* record of its own, and nothing in it.                                    *)
Drain(f) ==
  /\ At(f, "drain") /\ (f \in Closers => pending = {})
  /\ fin' = [fin EXCEPT ![f].pc = "chat"]
  /\ UNCHANGED <<runtime, question, pending, table, lost, show, leads>>

(* buildReport reads the tables one after another. *)
ReadChat(f) ==
  /\ At(f, "chat")
  /\ fin' = [fin EXCEPT ![f].pc = "store", ![f].chat = table.chat]
  /\ UNCHANGED <<runtime, question, pending, table, lost, show, leads>>

(* The report is stored, over one that is there; then the reason that an    *)
(* earlier one failed is cleared.                                           *)
Store(f) ==
  /\ At(f, "store")
  /\ show' = [show EXCEPT !.report = [by |-> f, end |-> show.end]]
  /\ GoOn(f, "clear")
  /\ UNCHANGED <<runtime, question, pending, table, lost, leads>>

Clear(f) ==
  /\ At(f, "clear")
  /\ show' = [show EXCEPT !.error = FALSE]
  /\ GoOn(f, "mark")
  /\ UNCHANGED <<runtime, question, pending, table, lost, leads>>

Throws(f) ==
  /\ BuildFails /\ fin[f].pc \in {"chat", "store"}
  /\ GoOn(f, "explain")
  /\ UNCHANGED <<runtime, question, pending, table, lost, show, leads>>

Explain_returns(f) ==  \* mutant: a report that fails ends the call there
  /\ At(f, "explain")
  /\ show' = [show EXCEPT !.error = TRUE]
  /\ GoOn(f, After(f))
  /\ UNCHANGED <<runtime, question, pending, table, lost, leads>>

Explain(f) ==
  /\ At(f, "explain")
  /\ show' = [show EXCEPT !.error = TRUE]
  /\ GoOn(f, "mark")
  /\ UNCHANGED <<runtime, question, pending, table, lost, leads>>

(* finally: report or none, the session is over, and what it cost is known. *)
MarkEnded(f) ==
  /\ At(f, "mark")
  /\ show' = [show EXCEPT !.status = "ended"]
  /\ GoOn(f, "cost")
  /\ UNCHANGED <<runtime, question, pending, table, lost, leads>>

RecordCost(f) ==
  /\ At(f, "cost")
  /\ show' = [show EXCEPT !.cost = TRUE]
  /\ GoOn(f, After(f))
  /\ UNCHANGED <<runtime, question, pending, table, lost, leads>>

(* stop: nothing more is taken in, and the drafts in flight are waited for. *)
Close(f) ==
  /\ At(f, "close")
  /\ IF \A m \in Messages : question[m] # "drafting"
       THEN /\ runtime' = "closed"
            /\ GoOn(f, IF runtime = "closed" THEN "done" ELSE "leads")
       ELSE /\ runtime = "on" /\ runtime' = "closing" /\ fin' = fin
  /\ UNCHANGED <<question, pending, table, lost, show, leads>>

(* selectFollowUps, over the rows as they are when the runtime has closed:  *)
(* everybody whose question got a draft that nobody sent or dismissed.      *)
SelectFollowUps(f) ==
  /\ At(f, "leads")
  /\ leads' = [known |-> TRUE, who |-> {m \in Messages : table.status[m] = "ready"}]
  /\ GoOn(f, "done")
  /\ UNCHANGED <<runtime, question, pending, table, lost, show>>

-----------------------------------------------------------------------------
FinishStep(f) ==
  \/ Drain(f) \/ ReadChat(f) \/ Store(f) \/ Clear(f) \/ Throws(f) \/ Explain(f)
  \/ MarkEnded(f) \/ RecordCost(f) \/ Close(f) \/ SelectFollowUps(f)

Next ==
  \/ \E m \in Messages : RecordChat(m) \/ RecordProposal(m)
  \/ WriteReturns
  \/ \E f \in Finishers : Stamp(f) \/ FinishStep(f)

Spec == Init /\ [][Next]_vars

(* Statements return and a draft settles (every call has a timeout).  That  *)
(* the drain ever ends takes more: here a show has finitely many messages.  *)
Fairness ==
  /\ WF_vars(WriteReturns)
  /\ \A m \in Messages : WF_vars(question[m] = "drafting" /\ RecordProposal(m))
  /\ \A f \in Finishers : WF_vars(FinishStep(f))

-----------------------------------------------------------------------------
TypeOK ==
  /\ runtime \in {"on", "closing", "closed"}
  /\ question \in [Messages -> Statuses]
  /\ pending \subseteq Write /\ lost \subseteq Messages
  /\ table \in [chat : SUBSET Messages, status : [Messages -> Statuses]]
  /\ show.status \in {"live", "ended"} /\ show.error \in BOOLEAN /\ show.cost \in BOOLEAN
  /\ show.status = "ended" => show.end \in Finishers
  /\ leads.who \subseteq Messages

Done(f) == fin[f].pc \in {"idle", "done"}

(* Every question that was asked before the session's end was stamped is in *)
(* the report of the runtime it was asked in, unless its write failed: "not *)
(* landed yet" is not counted as "did not happen" (sessionRecord.ts, lines  *)
(* 40 to 52).  And once nobody is finishing it, a stored report measures    *)
(* the session to the end that the row says: the two finishes of a race     *)
(* agree.                                                                   *)
ReportIsWhole ==
  /\ \A f \in Closers :
       At(f, "store") => fin[f].before \subseteq fin[f].chat \cup lost
  /\ (show.report # NoReport /\ \A f \in Finishers : Done(f)) => show.report.end = show.end

(* A session that has begun to end ends: its row says so, there is a report *)
(* or the reason there is none, and the cost is written; whatever throws.   *)
SessionEnds == \A f \in Finishers : ~Done(f) ~>
  (show.status = "ended" /\ show.cost /\ (show.report # NoReport \/ show.error))

----------------------------- (* its proofs *) ------------------------------
PCs == {"idle", "drain", "chat", "store", "clear", "explain", "mark", "cost", "close", "leads", "done"}

(* The shapes of the state: those of TypeOK, and where a finisher can be.   *)
Shapes ==
  /\ runtime \in {"on", "closing", "closed"}
  /\ question \in [Messages -> Statuses]
  /\ pending \subseteq Write /\ lost \subseteq Messages
  /\ table \in [chat : SUBSET Messages, status : [Messages -> Statuses]]
  /\ show \in [status : {"live", "ended"}, end : Finishers \cup {None}, error : BOOLEAN, cost : BOOLEAN,
               report : [by : Finishers \cup {None}, end : Finishers \cup {None}]]
  /\ fin \in [Finishers -> [pc : PCs, before : SUBSET Messages, chat : SUBSET Messages]]
  /\ leads \in [known : BOOLEAN, who : SUBSET Messages]

(* Nothing that was asked is forgotten: its row is in the table, or its     *)
(* write is still on its way, or it failed.                                 *)
Accounted == \A m \in Asked :
  m \in table.chat \cup lost \/ [of |-> m, status |-> "drafting"] \in pending

(* What a finisher on the live runtime has waited for is not lost from      *)
(* sight between the drain and the report.                                  *)
Waited == \A f \in Finishers :
  /\ At(f, "drain") => fin[f].before \subseteq Asked
  /\ f \in Closers /\ At(f, "chat") => fin[f].before \subseteq table.chat \cup lost
  /\ f \in Closers /\ At(f, "store") => fin[f].before \subseteq fin[f].chat \cup lost

(* The end is stamped before anything else is done, and is the one the      *)
(* report has.                                                              *)
Stamped ==
  /\ \A f \in Finishers : At(f, "idle") \/ show.end # None
  /\ show.status = "ended" => show.end # None
  /\ show.report # NoReport => show.end # None /\ show.report.end = show.end

Inv == Shapes /\ Accounted /\ Waited /\ Stamped

(* A finisher has a name that is not the word for nobody. *)
FinishersAreNamed == None \notin Finishers

(* Init is a state of the invariant. *)
LEMMA InitInv == FinishersAreNamed /\ Init => Inv
  BY DEF FinishersAreNamed, Init, Inv, Shapes, Accounted, Waited, Stamped, Reader, NoReport, Statuses,
         PCs, At, Asked, None

(* Most steps move one finisher on and touch neither the record nor its end.*)
LEMMA MoveOn ==
  ASSUME Inv, NEW f \in Finishers, ~At(f, "idle"),
         NEW pc \in PCs \ {"idle", "drain", "chat", "store"}, GoOn(f, pc),
         UNCHANGED <<question, pending, table, lost>>
  PROVE  /\ fin' \in [Finishers -> [pc : PCs, before : SUBSET Messages, chat : SUBSET Messages]]
         /\ Accounted' /\ Waited'
         /\ \A g \in Finishers : At(g, "idle")' => At(g, "idle")
<1>1. fin' \in [Finishers -> [pc : PCs, before : SUBSET Messages, chat : SUBSET Messages]]
  BY DEF Inv, Shapes, GoOn, Reader
<1>2. \A g \in Finishers : g # f => fin'[g] = fin[g]
  BY DEF Inv, Shapes, GoOn
<1>3. fin'[f].pc = pc
  BY DEF Inv, Shapes, GoOn, Reader
<1>4. Accounted'
  BY DEF Inv, Accounted, Asked
<1>5. Waited'
  <2> SUFFICES ASSUME NEW g \in Finishers
      PROVE /\ At(g, "drain")' => fin'[g].before \subseteq Asked'
            /\ g \in Closers /\ At(g, "chat")' => fin'[g].before \subseteq table'.chat \cup lost'
            /\ g \in Closers /\ At(g, "store")' => fin'[g].before \subseteq fin'[g].chat \cup lost'
    BY DEF Waited
  <2>1. CASE g = f
    BY <2>1, <1>3 DEF At
  <2>2. CASE g # f
    BY <2>2, <1>2 DEF Inv, Waited, At, Asked
  <2> QED BY <2>1, <2>2
<1>6. \A g \in Finishers : At(g, "idle")' => At(g, "idle")
  BY <1>2, <1>3 DEF At, PCs
<1> QED BY <1>1, <1>4, <1>5, <1>6

(* Asking a buyer's question and deciding a reply put a write on its way.   *)
LEMMA RecordKeeps ==
  ASSUME Inv, NEW m \in Messages, RecordChat(m) \/ RecordProposal(m)
  PROVE  Inv'
<1>1. Shapes'
  BY DEF RecordChat, RecordProposal, Inv, Shapes, Write, Statuses, Settled
<1>2. Asked \subseteq Asked' /\ UNCHANGED <<table, lost, fin, show>> /\ pending \subseteq pending'
  BY DEF RecordChat, RecordProposal, Asked, Inv, Shapes, Statuses, Settled
<1>3. Accounted'
  <2>1. CASE RecordChat(m)
    <3>1. Asked' = Asked \cup {m} /\ [of |-> m, status |-> "drafting"] \in pending'
      BY <2>1 DEF RecordChat, Asked, Inv, Shapes
    <3> QED BY <3>1, <1>2 DEF Inv, Accounted
  <2>2. CASE RecordProposal(m)
    <3>1. Asked' = Asked
      BY <2>2 DEF RecordProposal, Asked, Inv, Shapes, Settled
    <3> QED BY <3>1, <1>2 DEF Inv, Accounted
  <2> QED BY <2>1, <2>2
<1>4. Waited' /\ Stamped'
  BY <1>2 DEF Inv, Waited, Stamped, At
<1> QED BY <1>1, <1>3, <1>4 DEF Inv

(* A write that lands or fails takes its message from one side of Accounted *)
(* to the other.                                                            *)
LEMMA WriteKeeps == ASSUME Inv, WriteReturns PROVE Inv'
<1> PICK w \in pending :
      /\ pending' = pending \ {w}
      /\ \/ Lands(w) /\ lost' = lost
         \/ WriteFails /\ lost' = lost \cup {w.of} /\ table' = table
      /\ UNCHANGED <<runtime, question, show, fin, leads>>
  BY DEF WriteReturns
<1>w. w \in Write /\ w.of \in Messages /\ w.status \in Statuses
  BY DEF Inv, Shapes, Write
<1>1. Shapes'
  <2>1. table' \in [chat : SUBSET Messages, status : [Messages -> Statuses]] /\ lost' \subseteq Messages
    BY <1>w DEF Inv, Shapes, Lands
  <2> QED BY <2>1 DEF Inv, Shapes
<1>2. table.chat \subseteq table'.chat /\ lost \subseteq lost'
  BY DEF Lands, Inv, Shapes
<1>3. w.status = "drafting" => w.of \in table'.chat \cup lost'
  BY DEF Lands, Inv, Shapes
<1>4. Accounted'
  <2> SUFFICES ASSUME NEW m \in Asked
      PROVE m \in table'.chat \cup lost' \/ [of |-> m, status |-> "drafting"] \in pending'
    BY DEF Accounted, Asked
  <2>1. CASE m \in table.chat \cup lost
    BY <2>1, <1>2
  <2>2. CASE [of |-> m, status |-> "drafting"] \in pending
    <3>1. CASE w = [of |-> m, status |-> "drafting"]
      BY <3>1, <1>3
    <3>2. CASE w # [of |-> m, status |-> "drafting"]
      BY <2>2, <3>2
    <3> QED BY <3>1, <3>2
  <2> QED BY <2>1, <2>2 DEF Inv, Accounted
<1>5. Waited'
  BY <1>2 DEF Inv, Waited, At, Asked
<1>6. Stamped'
  BY DEF Inv, Stamped, At
<1> QED BY <1>1, <1>4, <1>5, <1>6 DEF Inv

(* A finisher begins: what was asked by then is what it will wait for.      *)
LEMMA StampKeeps == ASSUME Inv, FinishersAreNamed, NEW f \in Finishers, Stamp(f) PROVE Inv'
<1>1. Shapes'
  <2>1. show' \in [status : {"live", "ended"}, end : Finishers \cup {None}, error : BOOLEAN, cost : BOOLEAN,
                   report : [by : Finishers \cup {None}, end : Finishers \cup {None}]]
    BY DEF Stamp, Inv, Shapes
  <2>2. Asked \in SUBSET Messages
    BY DEF Asked
  <2>3. fin' \in [Finishers -> [pc : PCs, before : SUBSET Messages, chat : SUBSET Messages]]
    <3> DEFINE Mid == [fin EXCEPT ![f].pc = "drain"]
    <3>1. fin' = [Mid EXCEPT ![f].before = Asked]
      BY DEF Stamp
    <3>2. Mid \in [Finishers -> [pc : PCs, before : SUBSET Messages, chat : SUBSET Messages]]
      BY DEF Inv, Shapes, PCs
    <3> HIDE DEF Mid
    <3> QED BY <2>2, <3>1, <3>2
  <2> QED BY <2>1, <2>3 DEF Stamp, Inv, Shapes
<1>2. Accounted'
  BY DEF Stamp, Inv, Accounted, Asked
<1>3. Waited'
  BY DEF Stamp, Inv, Shapes, Waited, At, Asked
<1>4. Stamped'
  BY DEF Stamp, Inv, Shapes, Stamped, At, FinishersAreNamed, NoReport
<1> QED BY <1>1, <1>2, <1>3, <1>4 DEF Inv

(* Drain, on the live runtime, finds no write pending: by Accounted, what   *)
(* was asked is in the table or lost.  ReadChat takes the table as it is.   *)
LEMMA ReadKeeps ==
  ASSUME Inv, NEW f \in Finishers, Drain(f) \/ ReadChat(f)
  PROVE  Inv'
<1>1. Shapes'
  BY DEF Drain, ReadChat, Inv, Shapes, PCs
<1>2. Accounted' /\ Stamped'
  BY DEF Drain, ReadChat, Inv, Shapes, Accounted, Asked, Stamped, At
<1>3. \A g \in Finishers : g # f => fin'[g] = fin[g]
  BY DEF Drain, ReadChat, Inv, Shapes
<1>4. Waited'
  <2> SUFFICES ASSUME NEW g \in Finishers
      PROVE /\ At(g, "drain")' => fin'[g].before \subseteq Asked
            /\ g \in Closers /\ At(g, "chat")' => fin'[g].before \subseteq table.chat \cup lost
            /\ g \in Closers /\ At(g, "store")' => fin'[g].before \subseteq fin'[g].chat \cup lost
    BY DEF Waited, Drain, ReadChat, Asked
  <2>1. CASE g # f
    BY <2>1, <1>3 DEF Inv, Waited, At
  <2>2. CASE g = f /\ Drain(f)
    <3>1. fin'[f].pc = "chat" /\ fin'[f].before = fin[f].before
      BY <2>2 DEF Drain, Inv, Shapes
    <3>2. f \in Closers => Asked \subseteq table.chat \cup lost
      BY <2>2 DEF Drain, Inv, Accounted
    <3> QED BY <2>2, <3>1, <3>2 DEF Inv, Waited, Drain, At
  <2>3. CASE g = f /\ ReadChat(f)
    <3>1. fin'[f].pc = "store" /\ fin'[f].before = fin[f].before /\ fin'[f].chat = table.chat
      BY <2>3 DEF ReadChat, Inv, Shapes
    <3> QED BY <2>3, <3>1 DEF Inv, Waited, ReadChat, At
  <2> QED BY <2>1, <2>2, <2>3
<1> QED BY <1>1, <1>2, <1>4 DEF Inv

(* Everything after the reading: the row changes, never its end. *)
LEMMA RowKeeps ==
  ASSUME Inv, NEW f \in Finishers,
         Store(f) \/ Clear(f) \/ Throws(f) \/ Explain(f) \/ MarkEnded(f) \/ RecordCost(f) \/ Close(f) \/ SelectFollowUps(f)
  PROVE  Inv'
<1> DEFINE Moved == \E pc \in PCs \ {"idle", "drain", "chat", "store"} : GoOn(f, pc)
<1>1. ~At(f, "idle") /\ UNCHANGED <<question, pending, table, lost>> /\ (Moved \/ fin' = fin)
  BY DEF Store, Clear, Throws, Explain, MarkEnded, RecordCost, Close, SelectFollowUps, At, PCs, After
<1>2. /\ fin' \in [Finishers -> [pc : PCs, before : SUBSET Messages, chat : SUBSET Messages]]
      /\ Accounted' /\ Waited'
      /\ \A g \in Finishers : At(g, "idle")' => At(g, "idle")
  <2>1. CASE Moved
    BY <2>1, <1>1, MoveOn
  <2>2. CASE fin' = fin
    BY <2>2, <1>1 DEF Inv, Shapes, Accounted, Waited, Asked, At
  <2> QED BY <2>1, <2>2, <1>1
<1>3. show.end # None
  BY <1>1 DEF Inv, Stamped
<1>4. /\ show' \in [status : {"live", "ended"}, end : Finishers \cup {None}, error : BOOLEAN, cost : BOOLEAN,
                    report : [by : Finishers \cup {None}, end : Finishers \cup {None}]]
      /\ show'.end = show.end
      /\ show'.report = show.report \/ show'.report.end = show.end
  <2>1. CASE Store(f)
    BY <2>1 DEF Store, Inv, Shapes
  <2>2. CASE Clear(f) \/ Explain(f)
    BY <2>2 DEF Clear, Explain, Inv, Shapes
  <2>3. CASE MarkEnded(f) \/ RecordCost(f)
    BY <2>3 DEF MarkEnded, RecordCost, Inv, Shapes
  <2>4. CASE Throws(f) \/ Close(f) \/ SelectFollowUps(f)
    BY <2>4 DEF Throws, Close, SelectFollowUps, Inv, Shapes
  <2> QED BY <2>1, <2>2, <2>3, <2>4
<1>5. Stamped'
  BY <1>2, <1>3, <1>4 DEF Inv, Stamped, NoReport
<1>6. runtime' \in {"on", "closing", "closed"} /\ leads' \in [known : BOOLEAN, who : SUBSET Messages]
  <2>1. CASE Close(f)
    BY <2>1 DEF Close, Inv, Shapes
  <2>2. CASE SelectFollowUps(f)
    BY <2>2 DEF SelectFollowUps, Inv, Shapes
  <2>3. CASE Store(f) \/ Clear(f) \/ Throws(f) \/ Explain(f) \/ MarkEnded(f) \/ RecordCost(f)
    BY <2>3 DEF Store, Clear, Throws, Explain, MarkEnded, RecordCost, Inv, Shapes
  <2> QED BY <2>1, <2>2, <2>3
<1>7. Shapes'
  BY <1>1, <1>2, <1>4, <1>6 DEF Inv, Shapes
<1> QED BY <1>2, <1>5, <1>7 DEF Inv

(* Every step keeps the invariant. *)
LEMMA NextInv == FinishersAreNamed /\ Inv /\ [Next]_vars => Inv'
<1> SUFFICES ASSUME FinishersAreNamed, Inv, [Next]_vars PROVE Inv' OBVIOUS
<1>1. ASSUME NEW m \in Messages, RecordChat(m) \/ RecordProposal(m) PROVE Inv'
  BY <1>1, RecordKeeps
<1>2. CASE WriteReturns
  BY <1>2, WriteKeeps
<1>3. ASSUME NEW f \in Finishers, Stamp(f) PROVE Inv'
  BY <1>3, StampKeeps
<1>4. ASSUME NEW f \in Finishers, FinishStep(f) PROVE Inv'
  <2>1. CASE Drain(f) \/ ReadChat(f)
    BY <2>1, ReadKeeps
  <2>2. CASE \/ Store(f) \/ Clear(f) \/ Throws(f) \/ Explain(f)
             \/ MarkEnded(f) \/ RecordCost(f) \/ Close(f) \/ SelectFollowUps(f)
    BY <2>2, RowKeeps
  <2> QED BY <1>4, <2>1, <2>2 DEF FinishStep
<1>5. CASE UNCHANGED vars
  BY <1>5 DEF vars, Inv, Shapes, Accounted, Waited, Stamped, At, Asked
<1> QED BY <1>1, <1>2, <1>3, <1>4, <1>5 DEF Next

(* The record and the finishers keep the invariant in every behaviour. *)
THEOREM ReportInvariant == FinishersAreNamed => (Spec => []Inv)
<1> SUFFICES ASSUME FinishersAreNamed PROVE Spec => []Inv OBVIOUS
<1>1. Init => Inv BY InitInv
<1>2. Inv /\ [Next]_vars => Inv' BY NextInv
<1> QED BY <1>1, <1>2, PTL DEF Spec

(* The types of the variables (shows/sessionRecord.ts, shows/runtime.ts     *)
(* `finishSession`), and a session whose row says ended has an end.         *)
THEOREM ReportTypeCorrect == FinishersAreNamed => (Spec => []TypeOK)
<1> SUFFICES ASSUME FinishersAreNamed PROVE Spec => []TypeOK OBVIOUS
<1>1. Inv => TypeOK BY DEF Inv, Shapes, Stamped, TypeOK
<1> QED BY <1>1, ReportInvariant, PTL

(* However many questions, finishers and failures there are, the report of  *)
(* finishSession counts every question asked before the end was stamped     *)
(* whose write did not fail, and measures the session to the row's end.     *)
THEOREM ReportsAreWhole == FinishersAreNamed => (Spec => []ReportIsWhole)
<1> SUFFICES ASSUME FinishersAreNamed PROVE Spec => []ReportIsWhole OBVIOUS
<1>1. Inv => ReportIsWhole
  BY DEF Inv, Waited, Stamped, ReportIsWhole, Finishers
<1> QED BY <1>1, ReportInvariant, PTL
=============================================================================
