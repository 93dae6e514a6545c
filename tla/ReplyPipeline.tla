---------------------------- MODULE ReplyPipeline ----------------------------
(***************************************************************************)
(* The reply path of one show (pipeline/pipeline.ts): a buyer's message is *)
(* admitted, queued, drafted by at most Concurrency drafts at a time,      *)
(* checked by the guards and then suggested, held or sent; operators send, *)
(* dismiss and regenerate proposals meanwhile; and the show may be stopped *)
(* at any moment.                                                          *)
(*                                                                         *)
(* A process is either a message, whose draft `pump` starts, or an         *)
(* operator's request.  An action is the code between two awaits.  Every   *)
(* reply here quotes a price, the case the guards are hardest pressed by:  *)
(* a text is what it was grounded in, a version of the catalog, and        *)
(* whether the guards have seen it.                                        *)
(***************************************************************************)
EXTENDS Integers, Sequences, FiniteSets

CONSTANTS
  Messages,     \* the buyers' messages
  Question,     \* what each asks, as the reply cache's key has it
  Operators,    \* concurrent operator requests
  Commands,     \* subset of {"send", "edit", "dismiss", "regenerate", "stop"}
  Faults,       \* subset of {"db", "llm", "rate", "deliver", "audit"}
  Levels,       \* autonomy levels the seller sets: subset of 0 .. 4
  Deliverer,    \* the surface posts replies and a deliverer is wired
  Concurrency,  \* config.replyConcurrency
  MaxAttempts,  \* retries of a rate-limited draft (3 in the code)
  MaxVersion,   \* bound: the catalog stops moving at this version
  MaxRequests   \* bound: operator requests in a behaviour

ASSUME PipelineAssumption ==
  /\ Concurrency \in Nat \ {0} /\ MaxAttempts \in Nat
  /\ MaxVersion \in Nat \ {0} /\ MaxRequests \in Nat
  /\ Deliverer \in BOOLEAN
  /\ Levels \subseteq 0 .. 4
  /\ Messages \cap Operators = {} /\ Messages # {}

VARIABLES
  version,    \* the catalog's version
  queue,      \* admitted messages waiting for a slot
  inflight,   \* drafts counted against Concurrency
  cache,      \* ReplyCache: <<question, version>> of the replies the guards allowed
  proposals,  \* by message
  pc,         \* of every process
  d,          \* the local state of every process
  stop,       \* "no", "waiting" for the pending drafts, or "closed"
  waited,     \* the drafts stop() awaits
  ledger,     \* reply_sent entries in the audit log, by message
  delivered,  \* texts the deliverer has posted, by message
  told,       \* messages whose send() answered that the reply is sent
  started     \* operator requests so far

slots == <<queue, inflight>>
books == <<ledger, delivered, told>>
vars  == <<version, slots, cache, proposals, pc, d, stop, waited, books, started>>

-----------------------------------------------------------------------------
Procs == Messages \cup Operators

Verdicts == {"allow", "revise", "block"}

(* A text is grounded in a version, 0 if it is empty or an operator's own.  *)
Texts == [v : 0 .. MaxVersion, checked : BOOLEAN]

NoText == [v |-> 0, checked |-> FALSE]

Statuses == {"none", "drafting", "ready", "needs_review", "blocked", "dismissed",
             "sent", "auto_sent"}

(* text: the draft.  sent: sentText, what went out. *)
Proposals == [status : Statuses, text : Texts, verdict : Verdicts, sent : Texts]

Proposal(status, text, verdict) ==
  [status |-> status, text |-> text, verdict |-> verdict, sent |-> NoText]

(* What every draft opens with, and what a failed one leaves. *)
Opened == Proposal("drafting", NoText, "allow")

Failed == Proposal("needs_review", NoText, "revise")

(* again: a regenerate or a retry, which skips the cache and the stream.    *)
(* at: the catalog's version when the model answered.  seen, edited: what   *)
(* send() read, and whether the operator changed it.                        *)
Locals == [msg : Messages, v : 0 .. MaxVersion, again : BOOLEAN, attempt : 0 .. MaxAttempts,
           repaired : BOOLEAN, cached : BOOLEAN, verdict : Verdicts, at : 0 .. MaxVersion,
           seen : Proposals, edited : BOOLEAN]

Fresh(m) ==
  [msg |-> m, v |-> 0, again |-> FALSE, attempt |-> 0, repaired |-> FALSE, cached |-> FALSE,
   verdict |-> "allow", at |-> 0, seen |-> Opened, edited |-> FALSE]

(* What is left of a process that is over. *)
Forgotten(x) == Fresh(IF x \in Messages THEN x ELSE CHOOSE m \in Messages : TRUE)

DraftPCs == {"show", "retrieve", "compose", "backoff", "guard", "finish", "deliver",
             "auditSent", "auditBlocked"}

SendPCs == {"recheck", "source", "sendDeliver", "auditReply"}

Running(x) == pc[x] \in DraftPCs

Init ==
  /\ version = 1
  /\ queue = <<>> /\ inflight = 0 /\ cache = {}
  /\ proposals = [m \in Messages |-> Proposal("none", NoText, "allow")]
  /\ pc = [x \in Procs |-> IF x \in Messages THEN "new" ELSE "idle"]
  /\ d = [x \in Procs |-> Forgotten(x)]
  /\ stop = "no" /\ waited = {}
  /\ ledger = [m \in Messages |-> 0] /\ delivered = [m \in Messages |-> 0]
  /\ told = {} /\ started = 0

------------------------------- (* slots *) ---------------------------------
Goto(x, p) == pc' = [pc EXCEPT ![x] = p]

Put(m, p) == proposals' = [proposals EXCEPT ![m] = p]

Pump_onePastLimit(q, n, p) ==  \* mutant: <= where the loop has <
  LET free == Concurrency - n + 1
      k    == IF free < Len(q) THEN free ELSE Len(q) IN
  /\ queue' = SubSeq(q, k + 1, Len(q))
  /\ inflight' = n + k
  /\ pc' = [x \in Procs |-> IF \E i \in 1 .. k : q[i] = x THEN "show" ELSE p[x]]

(* pump: with queue q, n drafts in flight and the programs at p, start as   *)
(* many as there are slots for.                                             *)
Pump(q, n, p) ==
  LET free == Concurrency - n
      k    == IF free < Len(q) THEN free ELSE Len(q) IN
  /\ queue' = SubSeq(q, k + 1, Len(q))
  /\ inflight' = n + k
  /\ pc' = [x \in Procs |-> IF \E i \in 1 .. k : q[i] = x THEN "show" ELSE p[x]]

End_noPump(x) ==  \* mutant: a finished draft does not pump the queue
  /\ pc' = [pc EXCEPT ![x] = "idle"]
  /\ inflight' = IF x \in Messages THEN inflight - 1 ELSE inflight
  /\ d' = [d EXCEPT ![x] = Forgotten(x)]
  /\ UNCHANGED queue

End_keepsSlot(x) ==  \* mutant: a draft that ends keeps its slot
  /\ IF x \in Messages
     THEN Pump(queue, inflight, [pc EXCEPT ![x] = "idle"])
     ELSE Goto(x, "idle") /\ UNCHANGED slots
  /\ d' = [d EXCEPT ![x] = Forgotten(x)]

(* A draft is over, however it ended.  Only those pump started hold a slot. *)
End(x) ==
  /\ IF x \in Messages
     THEN Pump(queue, inflight - 1, [pc EXCEPT ![x] = "idle"])
     ELSE Goto(x, "idle") /\ UNCHANGED slots
  /\ d' = [d EXCEPT ![x] = Forgotten(x)]

Ingest_afterStop(m) ==  \* mutant: a draft does not ask whether the show was stopped
  /\ pc[m] = "new"
  /\ Pump(Append(queue, m), inflight, [pc EXCEPT ![m] = "queued"])
  /\ UNCHANGED <<version, cache, proposals, d, stop, waited, books, started>>

(* An admitted message.  One that arrives after stop() gets a draft that    *)
(* returns at once.                                                         *)
Ingest(m) ==
  /\ pc[m] = "new"
  /\ IF stop = "no"
     THEN Pump(Append(queue, m), inflight, [pc EXCEPT ![m] = "queued"])
     ELSE Goto(m, "idle") /\ UNCHANGED slots
  /\ UNCHANGED <<version, cache, proposals, d, stop, waited, books, started>>

------------------------------- (* draft *) ---------------------------------
Unchanged == UNCHANGED <<version, stop, waited, started>>

(* The show row is read and the proposal opened, over whatever it was.  A   *)
(* read that throws here is outside the draft's try: the draft is over and  *)
(* the proposal stays as it is.                                             *)
ShowRead(x) ==
  /\ pc[x] = "show"
  /\ \/ Put(d[x].msg, Opened) /\ Goto(x, "retrieve") /\ UNCHANGED <<slots, d>>
     \/ "db" \in Faults /\ End(x) /\ UNCHANGED proposals
  /\ UNCHANGED <<cache, books>> /\ Unchanged

(* Grounding.  A stale index is rebuilt first, but a write may land while   *)
(* the rows are read, so the evidence may be that of an older version.  A   *)
(* first attempt hits the cache, whose key holds the evidence, unless the   *)
(* entry has expired or was evicted.                                        *)
Retrieve(x) ==
  /\ pc[x] = "retrieve"
  /\ \/ /\ \E v \in 1 .. version :
             \/ /\ <<Question[d[x].msg], v>> \in cache /\ ~d[x].again
                /\ d' = [d EXCEPT ![x].v = v, ![x].cached = TRUE]
                /\ Goto(x, "finish")
             \/ d' = [d EXCEPT ![x].v = v] /\ Goto(x, "compose")
        /\ UNCHANGED slots
     \/ "db" \in Faults /\ End(x)
  /\ UNCHANGED <<proposals, cache, books>> /\ Unchanged

(* The answer streams into the card before anything has checked it. *)
Partial(x) ==
  /\ pc[x] = "compose" /\ ~d[x].again
  /\ Put(d[x].msg, Proposal("drafting", [v |-> d[x].v, checked |-> FALSE], "allow"))
  /\ UNCHANGED <<slots, pc, d, cache, books>> /\ Unchanged

Answer(x) ==
  /\ pc[x] = "compose"
  /\ d' = [d EXCEPT ![x].at = version]
  /\ Goto(x, "guard")
  /\ UNCHANGED <<slots, proposals, cache, books>> /\ Unchanged

(* What composing and repairing throw: the catch leaves a card to review,   *)
(* or, for a rate limit, sleeps and drafts again.                           *)
ModelFails(x) ==
  /\ pc[x] = "compose" \/ (pc[x] = "guard" /\ d[x].repaired)
  /\ \/ /\ "llm" \in Faults \/ ("rate" \in Faults /\ d[x].attempt = MaxAttempts)
        /\ Put(d[x].msg, Failed) /\ End(x)
     \/ /\ "rate" \in Faults /\ d[x].attempt < MaxAttempts
        /\ Goto(x, "backoff") /\ UNCHANGED <<slots, d, proposals>>
  /\ UNCHANGED <<cache, books>> /\ Unchanged

(* The retry is a new draft, which asks first whether the show has stopped. *)
Retry(x) ==
  /\ pc[x] = "backoff"
  /\ IF stop = "no"
     THEN /\ d' = [d EXCEPT ![x] = [Fresh(d[x].msg) EXCEPT !.again = TRUE, !.attempt = d[x].attempt + 1]]
          /\ Goto(x, "show") /\ UNCHANGED slots
     ELSE End(x)
  /\ UNCHANGED <<proposals, cache, books>> /\ Unchanged

GuardWith(x, current) ==
  \E verdict \in IF d[x].v = current THEN Verdicts ELSE {"block"} :
    IF verdict = "revise" /\ ~d[x].repaired
    THEN /\ d' = [d EXCEPT ![x].repaired = TRUE]
         /\ UNCHANGED <<slots, pc, cache>>
    ELSE /\ d' = [d EXCEPT ![x].verdict = verdict]
         /\ cache' = cache \cup (IF verdict = "allow" THEN {<<Question[d[x].msg], d[x].v>>} ELSE {})
         /\ Goto(x, "finish") /\ UNCHANGED slots

Guard_asRetrieved(x) ==  \* mutant: the guards compare with the facts retrieved
  /\ pc[x] = "guard"
  /\ GuardWith(x, d[x].v)
  /\ UNCHANGED <<proposals, books>> /\ Unchanged

(* The guards, against listings re-read now: a price quoted from another    *)
(* version blocks, and the other guards may say anything.  One repair of a  *)
(* `revise`, checked again; what they allow is cached.                      *)
Guard(x) ==
  /\ pc[x] = "guard"
  /\ \/ GuardWith(x, version) /\ UNCHANGED proposals
     \/ "db" \in Faults /\ Put(d[x].msg, Failed) /\ End(x) /\ UNCHANGED cache
  /\ UNCHANGED books /\ Unchanged

------------------------------- (* finish *) --------------------------------
(* decideReply, over every intent and confidence: what may become of a      *)
(* reply with this verdict at this autonomy level.                          *)
decideReply(level, verdict) ==
  CASE level = 0 -> {"dismissed"}
    [] level > 0 /\ verdict = "block" -> {"blocked"}
    [] level > 0 /\ verdict = "revise" -> {"needs_review"}
    [] level > 0 /\ verdict = "allow" ->
         {"needs_review", IF level >= 3 /\ Deliverer THEN "auto_sent" ELSE "ready"}

Text(x) == [v |-> d[x].v, checked |-> TRUE]

Finished(x, status) == Proposal(status, Text(x), d[x].verdict)

(* What finish throws: caught when the reply was composed; a cached one's   *)
(* finish is outside the try.                                               *)
FinishThrows(x) ==
  /\ IF d[x].cached THEN UNCHANGED proposals ELSE Put(d[x].msg, Failed)
  /\ End(x)

Decide(x) ==
  /\ pc[x] = "finish"
  /\ \/ \E level \in Levels : \E status \in decideReply(level, d[x].verdict) :
          CASE status = "auto_sent" -> Goto(x, "deliver") /\ UNCHANGED <<slots, d, proposals>>
            [] status = "blocked" -> Goto(x, "auditBlocked") /\ UNCHANGED <<slots, d, proposals>>
            [] OTHER -> Put(d[x].msg, Finished(x, status)) /\ End(x)
     \/ "db" \in Faults /\ FinishThrows(x)
  /\ UNCHANGED <<cache, books>> /\ Unchanged

Deliver_unheard(x) ==  \* mutant: a failed delivery is not heard of
  /\ pc[x] = "deliver"
  /\ \/ delivered' = [delivered EXCEPT ![d[x].msg] = @ + 1]
     \/ "deliver" \in Faults /\ UNCHANGED delivered
  /\ Goto(x, "auditSent")
  /\ UNCHANGED <<slots, proposals, d, cache, ledger, told>> /\ Unchanged

(* Auto-send: the text is posted ... *)
Deliver(x) ==
  /\ pc[x] = "deliver"
  /\ \/ /\ delivered' = [delivered EXCEPT ![d[x].msg] = @ + 1]
        /\ Goto(x, "auditSent") /\ UNCHANGED <<slots, d, proposals>>
     \/ /\ "deliver" \in Faults
        /\ Put(d[x].msg, Finished(x, "needs_review")) /\ End(x)
        /\ UNCHANGED delivered
  /\ UNCHANGED <<cache, ledger, told>> /\ Unchanged

(* ... recorded, which must succeed, and only then says it was sent. *)
AuditSent(x) ==
  /\ pc[x] = "auditSent"
  /\ \/ /\ ledger' = [ledger EXCEPT ![d[x].msg] = @ + 1]
        /\ Put(d[x].msg, [Finished(x, "auto_sent") EXCEPT !.sent = Text(x)])
        /\ End(x)
     \/ "audit" \in Faults /\ FinishThrows(x) /\ UNCHANGED ledger
  /\ UNCHANGED <<cache, delivered, told>> /\ Unchanged

(* A block is recorded if it can be; it holds either way. *)
AuditBlocked(x) ==
  /\ pc[x] = "auditBlocked"
  /\ Put(d[x].msg, Finished(x, "blocked")) /\ End(x)
  /\ UNCHANGED <<cache, books>> /\ Unchanged

------------------------------ (* operators *) ------------------------------
Request(o, m, command) ==
  /\ command \in Commands /\ started < MaxRequests
  /\ pc[o] = "idle" /\ proposals[m].status # "none"
  /\ started' = started + 1
  /\ UNCHANGED <<version, slots, cache, stop, waited, ledger, delivered>>

(* send: a reply that went out is handed back; a blocked one is refused as  *)
(* it stands; an edit is checked again.                                     *)
Send(o, m, edited) ==
  LET p == proposals[m] IN
  /\ Request(o, m, IF edited THEN "edit" ELSE "send")
  /\ IF p.status \in {"sent", "auto_sent"}
     THEN told' = told \cup {m} /\ UNCHANGED <<pc, d>>
     ELSE /\ edited \/ ~(p.status = "blocked" \/ p.verdict = "block")
          /\ d' = [d EXCEPT ![o] = [Fresh(m) EXCEPT !.seen = p, !.verdict = p.verdict, !.edited = edited]]
          /\ Goto(o, IF edited THEN "recheck" ELSE "source")
          /\ UNCHANGED told
  /\ UNCHANGED proposals

(* The request is answered, or refused. *)
Done(o) == Goto(o, "idle") /\ d' = [d EXCEPT ![o] = Forgotten(o)]

Recheck(o) ==
  /\ pc[o] = "recheck"
  /\ \/ \E verdict \in {"allow", "revise"} : d' = [d EXCEPT ![o].verdict = verdict] /\ Goto(o, "source")
     \/ Done(o)
  /\ UNCHANGED <<slots, proposals, cache, books>> /\ Unchanged

(* The proposal as send() read it, now sent. *)
MarkSent(o) ==
  /\ Put(d[o].msg, [d[o].seen EXCEPT !.status = "sent", !.verdict = d[o].verdict,
        !.sent = IF d[o].edited THEN [v |-> 0, checked |-> TRUE] ELSE d[o].seen.text])
  /\ Goto(o, "auditReply") /\ UNCHANGED d

(* Who sends it: a deliverer, or the operator by hand. *)
Source(o) ==
  /\ pc[o] = "source"
  /\ \/ IF Deliverer THEN Goto(o, "sendDeliver") /\ UNCHANGED <<proposals, d>> ELSE MarkSent(o)
     \/ "db" \in Faults /\ Done(o) /\ UNCHANGED proposals
  /\ UNCHANGED <<slots, cache, books>> /\ Unchanged

SendDeliver(o) ==
  /\ pc[o] = "sendDeliver"
  /\ \/ delivered' = [delivered EXCEPT ![d[o].msg] = @ + 1] /\ MarkSent(o)
     \/ "deliver" \in Faults /\ Done(o) /\ UNCHANGED <<proposals, delivered>>
  /\ UNCHANGED <<slots, cache, ledger, told>> /\ Unchanged

(* The entry that must be written before the seller is told. *)
AuditReply(o) ==
  /\ pc[o] = "auditReply"
  /\ \/ ledger' = [ledger EXCEPT ![d[o].msg] = @ + 1] /\ told' = told \cup {d[o].msg}
     \/ "audit" \in Faults /\ UNCHANGED <<ledger, told>>
  /\ Done(o)
  /\ UNCHANGED <<slots, proposals, cache, delivered>> /\ Unchanged

(* dismiss, whatever the proposal's status. *)
Dismiss(o, m) ==
  /\ Request(o, m, "dismiss")
  /\ proposals' = [proposals EXCEPT ![m].status = "dismissed"]
  /\ UNCHANGED <<pc, d, told>>

(* regenerate: a draft of its own, outside the queue, and a new one in full *)
(* when there was no text.                                                  *)
Regenerate(o, m) ==
  /\ Request(o, m, "regenerate") /\ stop = "no"
  /\ d' = [d EXCEPT ![o] = [Fresh(m) EXCEPT !.again = proposals[m].text # NoText]]
  /\ Goto(o, "show")
  /\ UNCHANGED <<proposals, told>>

-------------------------- (* the show around it *) -------------------------
(* stop: nothing new is accepted, and what pump started is awaited. *)
Stop ==
  /\ "stop" \in Commands /\ stop = "no"
  /\ stop' = "waiting"
  /\ waited' = {m \in Messages : Running(m)}
  /\ queue' = <<>>
  /\ pc' = [x \in Procs |-> IF pc[x] = "queued" THEN "idle" ELSE pc[x]]
  /\ UNCHANGED <<version, inflight, cache, proposals, d, books, started>>

Close ==
  /\ stop = "waiting" /\ \A m \in waited : ~Running(m)
  /\ stop' = "closed"
  /\ UNCHANGED <<version, slots, cache, proposals, pc, d, waited, books, started>>

(* Somebody writes a listing. *)
CatalogMoves ==
  /\ version < MaxVersion
  /\ version' = version + 1
  /\ UNCHANGED <<slots, cache, proposals, pc, d, stop, waited, books, started>>

-----------------------------------------------------------------------------
Draft(x) ==
  \/ ShowRead(x) \/ Retrieve(x) \/ Answer(x) \/ ModelFails(x) \/ Retry(x) \/ Guard(x)
  \/ Decide(x) \/ Deliver(x) \/ AuditSent(x) \/ AuditBlocked(x)

Sending(o) == Recheck(o) \/ Source(o) \/ SendDeliver(o) \/ AuditReply(o)

Command(o, m) ==
  \/ \E edited \in BOOLEAN : Send(o, m, edited)
  \/ Dismiss(o, m) \/ Regenerate(o, m)

Next ==
  \/ \E m \in Messages : Ingest(m)
  \/ \E x \in Procs : Draft(x) \/ Partial(x)
  \/ \E o \in Operators : Sending(o) \/ \E m \in Messages : Command(o, m)
  \/ Stop \/ Close \/ CatalogMoves

Spec == Init /\ [][Next]_vars

(* Node resumes every draft whose await has settled, and every call of the  *)
(* model, the database and the deliverer ends, if only by its timeout.      *)
FairSpec == Spec /\ \A x \in Procs : WF_vars(Draft(x))

-----------------------------------------------------------------------------
TypeOK ==
  /\ version \in 1 .. MaxVersion
  /\ queue \in Seq(Messages) /\ inflight \in 0 .. Concurrency
  /\ cache \subseteq {Question[m] : m \in Messages} \X (1 .. MaxVersion)
  /\ proposals \in [Messages -> Proposals]
  /\ pc \in [Procs -> DraftPCs \cup SendPCs \cup {"new", "queued", "idle"}]
  /\ d \in [Procs -> Locals]
  /\ stop \in {"no", "waiting", "closed"} /\ waited \subseteq Messages
  /\ ledger \in [Messages -> Nat] /\ delivered \in [Messages -> Nat]
  /\ told \subseteq Messages /\ started \in 0 .. MaxRequests

(* The fan-out bound counts the drafts that run, no more and no less, while *)
(* they end in any of a dozen ways; and no message waits beside a free slot.*)
SlotsHeld ==
  /\ inflight = Cardinality({m \in Messages : Running(m)})
  /\ queue # <<>> => inflight = Concurrency

(* A reply that reads auto-sent reached the buyer and is in the ledger,     *)
(* whatever dismissals, regenerations and sends ran into it.                *)
AutoSentOnRecord == \A m \in Messages :
  proposals[m].status = "auto_sent" => delivered[m] > 0 /\ ledger[m] > 0

(* A markdown that lands during the model's round trip is caught: no reply  *)
(* composed for this message is about to be suggested or sent with a price  *)
(* older than the catalog was when the model answered.                      *)
ComposeRaceIsCaught == \A x \in Procs :
  pc[x] \in {"finish", "deliver", "auditSent"} /\ ~d[x].cached /\ d[x].verdict # "block"
    => d[x].v >= d[x].at

(* When stop() returns, every draft the queue started is over.              *)
StopDrains == stop = "closed" => \A m \in Messages : ~Running(m)

(* Every admitted message gets its draft, or is dropped by stop().          *)
QueueDrains == \A m \in Messages : pc[m] = "queued" ~> pc[m] # "queued"

-----------------------------------------------------------------------------
(* What the repository says of the reply path and the code does not do.     *)

(* pipeline.ts, line 832: a double-clicked button, a retried request or a   *)
(* second operator does not send a second time.                             *)
OneReplySent == \A m \in Messages : ledger[m] <= 1
=============================================================================
