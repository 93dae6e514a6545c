------------------------ MODULE ReplyPipelineProofs ------------------------
(***************************************************************************)
(* For any messages, operators, faults and bounds: the slots of the reply  *)
(* pipeline are those of the drafts that run, stop() waits for all of      *)
(* them, what reads auto-sent was posted and recorded, and no composed     *)
(* reply goes on with a price older than the model's answer.               *)
(*                                                                         *)
(* Who holds a slot does not depend on what is drafted.  SlotInv is about  *)
(* the queue, the slots and the programs alone, and is carried over every  *)
(* step by the little that step does to these (Moves); the other           *)
(* invariants stand on it.                                                 *)
(*                                                                         *)
(* And of the drafts that wait for the operator (DraftQueue): what the two *)
(* pages say of them, that presses do not undo one another, and that a     *)
(* press that comes again writes no second entry.  Of the follow-ups of a  *)
(* session (FollowUpInbox): every buyer is reached, and what was decided   *)
(* about one stands.  Last, of a call to the gateway (GatewayTurn): it is  *)
(* counted once, and ends by its timer.                                    *)
(***************************************************************************)
EXTENDS ReplyPipeline, FiniteSetTheorems, SequenceTheorems, TLAPS

PCs == DraftPCs \cup SendPCs \cup {"new", "queued", "idle"}

(* The messages whose draft runs, were the programs at p. *)
Drafting(p) == {m \in Messages : p[m] \in DraftPCs}

(* A queue holds each message once, and each waits. *)
Waits(q, p) ==
  /\ \A i \in 1 .. Len(q) : p[q[i]] = "queued"
  /\ \A i, j \in 1 .. Len(q) : q[i] = q[j] => i = j

Counts(q, n, p) ==
  /\ IsFiniteSet(Drafting(p)) /\ n = Cardinality(Drafting(p))
  /\ q # <<>> => n = Concurrency

SlotTypes ==
  /\ queue \in Seq(Messages) /\ inflight \in 0 .. Concurrency
  /\ pc \in [Procs -> PCs]
  /\ stop \in {"no", "waiting", "closed"} /\ waited \subseteq Messages

(* Once stop() was called nothing starts: what runs it awaits. *)
Stopped ==
  stop # "no" =>
    /\ queue = <<>>
    /\ \A m \in Messages : Running(m) => stop = "waiting" /\ m \in waited

SlotInv == SlotTypes /\ Waits(queue, pc) /\ Counts(queue, inflight, pc) /\ Stopped

-----------------------------------------------------------------------------
(* As many messages as there are indices, in a queue without repetition. *)
LEMMA Heads ==
  ASSUME NEW q \in Seq(Messages), NEW k \in 0 .. Len(q),
         \A i, j \in 1 .. Len(q) : q[i] = q[j] => i = j
  PROVE  LET heads == {q[i] : i \in 1 .. k}
         IN  IsFiniteSet(heads) /\ Cardinality(heads) = k
<1> DEFINE heads == {q[i] : i \in 1 .. k}
           f == [i \in 1 .. k |-> q[i]]
<1>1. f \in Bijection(1 .. k, heads)
  BY DEF Bijection, Injection, Surjection, IsInjective
<1>2. IsFiniteSet(1 .. k) /\ Cardinality(1 .. k) = k
  BY FS_Interval
<1>3. ExistsBijection(1 .. k, heads)
  BY <1>1 DEF ExistsBijection
<1> QED BY <1>2, <1>3, FS_Bijection

(* pump() fills the free slots from the front of the queue, and no more. *)
LEMMA PumpCounts ==
  ASSUME NEW q \in Seq(Messages), NEW n \in 0 .. Concurrency, NEW p \in [Procs -> PCs],
         Waits(q, p), IsFiniteSet(Drafting(p)), n = Cardinality(Drafting(p)),
         Pump(q, n, p)
  PROVE  /\ queue' \in Seq(Messages) /\ inflight' \in 0 .. Concurrency /\ pc' \in [Procs -> PCs]
         /\ Waits(queue', pc') /\ Counts(queue', inflight', pc')
         /\ \A x \in Procs : pc'[x] # p[x] => p[x] = "queued" /\ pc'[x] = "show"
         /\ q = <<>> => queue' = <<>> /\ pc' = p
<1> DEFINE free == Concurrency - n
           k == IF free < Len(q) THEN free ELSE Len(q)
           heads == {q[i] : i \in 1 .. k}
<1>0. Len(q) \in Nat /\ (\A i \in 1 .. Len(q) : q[i] \in Messages) /\ free \in Nat
  BY PipelineAssumption, LenProperties, ElementOfSeq
<1>1. k \in 0 .. Len(q) /\ k <= free
  BY <1>0
<1>2. /\ queue' = SubSeq(q, k + 1, Len(q)) /\ inflight' = n + k
      /\ pc' = [x \in Procs |-> IF \E i \in 1 .. k : q[i] = x THEN "show" ELSE p[x]]
  BY DEF Pump
<1>3. /\ queue' \in Seq(Messages) /\ Len(queue') = Len(q) - k
      /\ \A i \in 1 .. Len(queue') : queue'[i] = q[k + i]
  <2>1. \A i \in k + 1 .. Len(q) : q[i] \in Messages BY <1>0, <1>1
  <2> HIDE DEF k
  <2>2. /\ SubSeq(q, k + 1, Len(q)) \in Seq(Messages)
        /\ Len(SubSeq(q, k + 1, Len(q))) = IF k + 1 <= Len(q) THEN Len(q) - (k + 1) + 1 ELSE 0
        /\ \A i \in 1 .. Len(q) - (k + 1) + 1 : SubSeq(q, k + 1, Len(q))[i] = q[k + 1 + i - 1]
    <3>1. k + 1 \in Int /\ Len(q) \in Int BY <1>0, <1>1
    <3> QED BY <2>1, <3>1, SubSeqProperties
  <2> QED BY <1>0, <1>1, <1>2, <2>2
<1>4. inflight' \in 0 .. Concurrency
  BY <1>0, <1>1, <1>2, PipelineAssumption
<1>5. pc' \in [Procs -> PCs]
  BY <1>2 DEF PCs, DraftPCs
<1>6. \A x \in Procs : pc'[x] = IF x \in heads THEN "show" ELSE p[x]
  BY <1>2
<1>7. heads \subseteq Messages /\ \A x \in heads : p[x] = "queued"
  BY <1>0, <1>1 DEF Waits
<1>8. Waits(queue', pc')
  <2> HIDE DEF k
  <2>1. ASSUME NEW i \in 1 .. Len(queue') PROVE pc'[queue'[i]] = "queued"
    <3>1. k + i \in 1 .. Len(q) /\ queue'[i] = q[k + i] BY <1>0, <1>1, <1>3
    <3>2. \A j \in 1 .. k : q[j] # q[k + i] BY <1>0, <1>1, <3>1 DEF Waits
    <3>3. q[k + i] \in Procs BY <1>0, <3>1 DEF Procs
    <3> QED BY <1>2, <3>1, <3>2, <3>3 DEF Waits
  <2>2. ASSUME NEW i \in 1 .. Len(queue'), NEW j \in 1 .. Len(queue'), queue'[i] = queue'[j] PROVE i = j
    <3>1. k + i \in 1 .. Len(q) /\ k + j \in 1 .. Len(q) BY <1>0, <1>1, <1>3
    <3>2. q[k + i] = q[k + j] BY <1>3, <2>2
    <3>3. k + i = k + j BY <3>1, <3>2 DEF Waits
    <3> QED BY <1>0, <1>1, <1>3, <3>3
  <2> QED BY <2>1, <2>2 DEF Waits
<1>9. Counts(queue', inflight', pc')
  <2>1. IsFiniteSet(heads) /\ Cardinality(heads) = k
    <3> HIDE DEF k
    <3> QED BY <1>1, Heads DEF Waits
  <2>2. Drafting(pc') = Drafting(p) \cup heads
    BY <1>6, <1>7 DEF Drafting, DraftPCs, Procs
  <2>3. Drafting(p) \cap heads = {}
    BY <1>7 DEF Drafting, DraftPCs
  <2>4. /\ IsFiniteSet(Drafting(p) \cup heads)
        /\ Cardinality(Drafting(p) \cup heads) = n + k
    <3>1. k \in Nat BY <1>0, <1>1
    <3> HIDE DEF k, heads
    <3>2. Cardinality(Drafting(p) \cup heads) = n + k - Cardinality({})
      BY <2>1, <2>3, FS_Union
    <3>3. IsFiniteSet(Drafting(p) \cup heads) BY <2>1, FS_Union
    <3> QED BY <3>1, <3>2, <3>3, FS_EmptySet
  <2>5. queue' # <<>> => n + k = Concurrency
    <3>1. k = Len(q) => queue' = <<>> BY <1>0, <1>3, EmptySeq
    <3>2. k # Len(q) => k = free OBVIOUS
    <3> QED BY <1>0, <3>1, <3>2, PipelineAssumption
  <2> QED BY <1>2, <2>2, <2>4, <2>5 DEF Counts
<1>10. \A x \in Procs : pc'[x] # p[x] => p[x] = "queued" /\ pc'[x] = "show"
  BY <1>6, <1>7
<1>11. q = <<>> => queue' = <<>> /\ pc' = p
  <2> SUFFICES ASSUME q = <<>> PROVE queue' = <<>> /\ pc' = p
    OBVIOUS
  <2>1. k = 0 /\ Len(queue') = 0 BY <1>0, <1>1, <1>3
  <2>2. queue' = <<>> BY <1>3, <2>1, EmptySeq
  <2>3. pc' = [x \in Procs |-> p[x]] BY <1>2, <2>1
  <2> QED BY <2>2, <2>3
<1> QED BY <1>3, <1>4, <1>5, <1>8, <1>9, <1>10, <1>11

(* The draft of x is over, or it goes on, to p, or it stands where it was.  *)
Ends(x) ==
  IF x \in Messages
  THEN Pump(queue, inflight - 1, [pc EXCEPT ![x] = "idle"])
  ELSE Goto(x, "idle") /\ UNCHANGED slots

GoesOn(x) == UNCHANGED slots /\ (UNCHANGED pc \/ \E p \in DraftPCs : Goto(x, p))

(* All that a step of a draft does to the slots. *)
LEMMA DraftMoves ==
  ASSUME NEW x \in Procs, Draft(x) \/ Partial(x)
  PROVE  /\ Running(x) /\ UNCHANGED <<stop, waited, started, version>>
         /\ Ends(x) \/ GoesOn(x)
<1> USE DEF Running, DraftPCs, Unchanged, Ends, GoesOn, Goto, slots, books
<1>1. CASE ShowRead(x) BY <1>1 DEF ShowRead, End
<1>2. CASE Retrieve(x) BY <1>2 DEF Retrieve, End
<1>3. CASE Answer(x) BY <1>3 DEF Answer
<1>4. CASE ModelFails(x) BY <1>4 DEF ModelFails, End
<1>5. CASE Retry(x) BY <1>5 DEF Retry, End
<1>6. CASE Guard(x) BY <1>6 DEF Guard, GuardWith, End
<1>7. CASE Decide(x)
  <2>1. ASSUME NEW level \in Levels, NEW status \in decideReply(level, d[x].verdict),
               CASE status = "auto_sent" -> Goto(x, "deliver") /\ UNCHANGED <<slots, d, proposals>>
                 [] status = "blocked" -> Goto(x, "auditBlocked") /\ UNCHANGED <<slots, d, proposals>>
                 [] OTHER -> Put(d[x].msg, Finished(x, status)) /\ End(x)
        PROVE  Ends(x) \/ GoesOn(x)
    <3>1. CASE status = "auto_sent" BY <2>1, <3>1
    <3>2. CASE status = "blocked" BY <2>1, <3>2
    <3>3. CASE status \notin {"auto_sent", "blocked"}
      <4>1. End(x) BY <2>1, <3>3
      <4> QED BY <4>1 DEF End
    <3> QED BY <3>1, <3>2, <3>3
  <2>2. FinishThrows(x) => Ends(x) BY DEF FinishThrows, End
  <2> QED BY <1>7, <2>1, <2>2 DEF Decide
<1>8. CASE Deliver(x) BY <1>8 DEF Deliver, End
<1>9. CASE AuditSent(x) BY <1>9 DEF AuditSent, FinishThrows, End
<1>10. CASE AuditBlocked(x) BY <1>10 DEF AuditBlocked, End
<1>11. CASE Partial(x) BY <1>11 DEF Partial
<1> QED BY <1>1, <1>2, <1>3, <1>4, <1>5, <1>6, <1>7, <1>8, <1>9, <1>10, <1>11 DEF Draft

(* A message's draft ends: its slot is free before pump() runs. *)
LEMMA SlotFreed ==
  ASSUME SlotInv, NEW x \in Messages, Running(x)
  PROVE  LET p == [pc EXCEPT ![x] = "idle"]
         IN  /\ p \in [Procs -> PCs] /\ Waits(queue, p) /\ inflight - 1 \in 0 .. Concurrency
             /\ IsFiniteSet(Drafting(p)) /\ inflight - 1 = Cardinality(Drafting(p))
<1> DEFINE p == [pc EXCEPT ![x] = "idle"]
<1>0. /\ queue \in Seq(Messages) /\ inflight \in 0 .. Concurrency /\ pc \in [Procs -> PCs]
      /\ Waits(queue, pc) /\ Counts(queue, inflight, pc) /\ x \in Procs
  BY DEF SlotInv, SlotTypes, Procs
<1>1. p \in [Procs -> PCs] BY <1>0 DEF PCs
<1>2. Waits(queue, p)
  <2>1. \A i \in 1 .. Len(queue) : queue[i] \in Procs
    BY <1>0, ElementOfSeq DEF Procs
  <2>2. pc[x] # "queued" BY DEF Running, DraftPCs
  <2> QED BY <1>0, <2>1, <2>2 DEF Waits
<1>3. Drafting(p) = Drafting(pc) \ {x} /\ x \in Drafting(pc)
  BY <1>0 DEF Drafting, DraftPCs, Running, Procs
<1>4. IsFiniteSet(Drafting(pc)) /\ inflight = Cardinality(Drafting(pc))
  BY <1>0 DEF Counts
<1>5. IsFiniteSet(Drafting(p)) /\ Cardinality(Drafting(p)) = inflight - 1
  BY <1>3, <1>4, FS_RemoveElement
<1>6. Cardinality(Drafting(p)) \in Nat BY <1>5, FS_CardinalityType
<1>7. inflight - 1 \in 0 .. Concurrency BY <1>0, <1>5, <1>6, PipelineAssumption
<1> QED BY <1>1, <1>2, <1>5, <1>7

(* A step that moves only who holds no slot, or within a slot, or ends a    *)
(* draft with pump(), keeps the slots in order.                             *)
LEMMA EndKeeps ==
  ASSUME SlotInv, NEW x \in Messages, Running(x), Ends(x), UNCHANGED <<stop, waited>>
  PROVE  /\ SlotInv' /\ pc'[x] = "idle"
         /\ \A y \in Procs \ {x} : pc'[y] = pc[y] \/ pc'[y] = "show"
<1> DEFINE p == [pc EXCEPT ![x] = "idle"]
<1>0. queue \in Seq(Messages) /\ pc \in [Procs -> PCs] /\ x \in Procs
  BY DEF SlotInv, SlotTypes, Procs
<1>1. /\ p \in [Procs -> PCs] /\ Waits(queue, p) /\ inflight - 1 \in 0 .. Concurrency
      /\ IsFiniteSet(Drafting(p)) /\ inflight - 1 = Cardinality(Drafting(p))
  BY SlotFreed
<1>2. Pump(queue, inflight - 1, p) BY DEF Ends
<1> HIDE DEF p
<1>3. /\ queue' \in Seq(Messages) /\ inflight' \in 0 .. Concurrency /\ pc' \in [Procs -> PCs]
      /\ Waits(queue', pc') /\ Counts(queue', inflight', pc')
      /\ \A y \in Procs : pc'[y] # p[y] => p[y] = "queued" /\ pc'[y] = "show"
      /\ queue = <<>> => queue' = <<>> /\ pc' = p
  BY <1>0, <1>1, <1>2, PumpCounts
<1>4. p[x] = "idle" /\ \A y \in Procs \ {x} : p[y] = pc[y] BY <1>0 DEF p
<1>5. Stopped'
  <2> SUFFICES ASSUME stop' # "no"
               PROVE  queue' = <<>> /\ \A m \in Messages : Running(m)' => stop' = "waiting" /\ m \in waited'
    BY DEF Stopped
  <2>1. queue = <<>> /\ \A m \in Messages : Running(m) => stop = "waiting" /\ m \in waited
    BY DEF SlotInv, Stopped
  <2>2. queue' = <<>> /\ pc' = p BY <1>3, <2>1
  <2>3. ASSUME NEW m \in Messages, Running(m)' PROVE Running(m)
    BY <1>4, <2>2, <2>3 DEF Running, DraftPCs, Procs
  <2> QED BY <2>1, <2>2, <2>3
<1>6. SlotTypes' BY <1>3 DEF SlotTypes, SlotInv
<1> QED BY <1>0, <1>3, <1>4, <1>5, <1>6 DEF SlotInv

LEMMA MoveKeeps ==
  ASSUME SlotInv, NEW x \in Procs, NEW p \in PCs, Goto(x, p), UNCHANGED <<slots, stop, waited>>,
         x \in Messages => Running(x) /\ p \in DraftPCs
  PROVE  SlotInv'
<1>0. /\ queue \in Seq(Messages) /\ pc \in [Procs -> PCs] /\ UNCHANGED <<queue, inflight>>
      /\ Waits(queue, pc) /\ Counts(queue, inflight, pc)
  BY DEF SlotInv, SlotTypes, slots
<1>1. pc' \in [Procs -> PCs] /\ \A y \in Procs : pc'[y] = IF y = x THEN p ELSE pc[y]
  BY <1>0 DEF Goto
<1>2. \A m \in Messages : Running(m) <=> Running(m)'
  BY <1>0, <1>1 DEF Running, Procs
<1>3. Drafting(pc') = Drafting(pc) BY <1>2 DEF Drafting, Running
<1>4. Waits(queue', pc')
  <2>1. \A i \in 1 .. Len(queue) : queue[i] \in Messages BY <1>0, ElementOfSeq
  <2>2. \A m \in Messages : pc[m] = "queued" => pc'[m] = "queued"
    BY <1>0, <1>1 DEF Running, DraftPCs, Procs
  <2> QED BY <1>0, <2>1, <2>2 DEF Waits
<1>5. Counts(queue', inflight', pc') BY <1>0, <1>3 DEF Counts
<1>6. Stopped' BY <1>0, <1>2 DEF SlotInv, Stopped
<1> QED BY <1>0, <1>1, <1>4, <1>5, <1>6 DEF SlotInv, SlotTypes

LEMMA StandKeeps ==
  ASSUME SlotInv, UNCHANGED <<slots, pc, stop, waited>>
  PROVE  SlotInv'
<1>1. UNCHANGED <<queue, inflight, pc, stop, waited>> BY DEF slots
<1> QED BY <1>1 DEF SlotInv, SlotTypes, Waits, Counts, Drafting, Stopped, Running

(* Every step of a draft keeps the slots, and moves no other program but    *)
(* those that pump() starts.                                                *)
LEMMA DraftKeeps ==
  ASSUME SlotInv, NEW x \in Procs, Draft(x) \/ Partial(x)
  PROVE  /\ SlotInv'
         /\ Ends(x) => pc'[x] = "idle"
         /\ \A y \in Procs \ {x} : pc'[y] = pc[y] \/ pc'[y] = "show"
<1>1. Running(x) /\ UNCHANGED <<stop, waited>> /\ (Ends(x) \/ GoesOn(x)) BY DraftMoves
<1>2. pc \in [Procs -> PCs] BY DEF SlotInv, SlotTypes
<1>3. CASE Ends(x) /\ x \in Messages BY <1>1, <1>3, EndKeeps
<1>4. CASE Ends(x) /\ x \notin Messages
  <2>1. Goto(x, "idle") /\ UNCHANGED slots BY <1>4 DEF Ends
  <2>2. "idle" \in PCs BY DEF PCs
  <2>3. SlotInv' BY <1>1, <1>4, <2>1, <2>2, MoveKeeps
  <2> QED BY <1>2, <2>1, <2>3 DEF Goto
<1>5. CASE ~Ends(x) /\ UNCHANGED slots /\ UNCHANGED pc
  BY <1>1, <1>5, StandKeeps
<1>6. ASSUME ~Ends(x), UNCHANGED slots, NEW p \in DraftPCs, Goto(x, p)
      PROVE  SlotInv' /\ \A y \in Procs \ {x} : pc'[y] = pc[y]
  <2>1. p \in PCs BY DEF PCs
  <2>2. SlotInv' BY <1>1, <1>6, <2>1, MoveKeeps
  <2> QED BY <1>2, <1>6, <2>2 DEF Goto
<1> QED BY <1>1, <1>3, <1>4, <1>5, <1>6 DEF GoesOn

(* An operator's request holds no slot. *)
LEMMA OperatorMoves ==
  ASSUME NEW o \in Operators, Sending(o) \/ \E m \in Messages : Command(o, m)
  PROVE  /\ pc[o] \notin DraftPCs /\ UNCHANGED <<slots, stop, waited, version>>
         /\ UNCHANGED pc \/ \E p \in PCs \ {"backoff", "finish", "deliver", "auditSent"} : Goto(o, p)
<1> USE DEF PCs, DraftPCs, SendPCs, Done, Unchanged
<1>1. CASE Recheck(o) BY <1>1 DEF Recheck
<1>2. CASE Source(o) BY <1>2 DEF Source, MarkSent
<1>3. CASE SendDeliver(o) BY <1>3 DEF SendDeliver, MarkSent
<1>4. CASE AuditReply(o) BY <1>4 DEF AuditReply
<1>5. ASSUME NEW m \in Messages, NEW edited \in BOOLEAN, Send(o, m, edited)
      PROVE  /\ pc[o] \notin DraftPCs /\ UNCHANGED <<slots, stop, waited, version>>
             /\ UNCHANGED pc \/ \E p \in PCs \ {"backoff", "finish", "deliver", "auditSent"} : Goto(o, p)
  BY <1>5 DEF Send, Request
<1>6. ASSUME NEW m \in Messages, Dismiss(o, m) \/ Regenerate(o, m)
      PROVE  /\ pc[o] \notin DraftPCs /\ UNCHANGED <<slots, stop, waited, version>>
             /\ UNCHANGED pc \/ \E p \in PCs \ {"backoff", "finish", "deliver", "auditSent"} : Goto(o, p)
  BY <1>6 DEF Dismiss, Regenerate, Request
<1> QED BY <1>1, <1>2, <1>3, <1>4, <1>5, <1>6 DEF Sending, Command

LEMMA OperatorKeeps ==
  ASSUME SlotInv, NEW o \in Operators, Sending(o) \/ \E m \in Messages : Command(o, m)
  PROVE  SlotInv'
<1>1. UNCHANGED <<slots, stop, waited>> /\ (UNCHANGED pc \/ \E p \in PCs : Goto(o, p))
  BY OperatorMoves
<1>2. o \in Procs /\ o \notin Messages BY PipelineAssumption DEF Procs
<1> QED BY <1>1, <1>2, MoveKeeps, StandKeeps

(* An admitted message queues, and starts at once if there is a slot. *)
LEMMA IngestKeeps ==
  ASSUME SlotInv, NEW m \in Messages, Ingest(m)
  PROVE  /\ SlotInv' /\ pc'[m] \in {"queued", "idle", "show"}
         /\ \A y \in Procs \ {m} : pc'[y] = pc[y] \/ pc'[y] = "show"
<1> DEFINE p == [pc EXCEPT ![m] = "queued"]
           q == Append(queue, m)
<1>0. /\ queue \in Seq(Messages) /\ inflight \in 0 .. Concurrency /\ pc \in [Procs -> PCs]
      /\ Waits(queue, pc) /\ Counts(queue, inflight, pc) /\ Stopped /\ m \in Procs
      /\ pc[m] = "new" /\ UNCHANGED <<stop, waited>>
  BY DEF SlotInv, SlotTypes, Procs, Ingest
<1>1. CASE stop = "no"
  <2>0. Pump(q, inflight, p) BY <1>1 DEF Ingest
  <2>1. q \in Seq(Messages) /\ p \in [Procs -> PCs] BY <1>0, AppendProperties DEF PCs
  <2>2. Drafting(p) = Drafting(pc) BY <1>0 DEF Drafting, DraftPCs, Procs
  <2>3. \A i \in 1 .. Len(queue) : queue[i] \in Messages /\ queue[i] # m
    BY <1>0, ElementOfSeq DEF Waits
  <2>4. /\ Len(q) = Len(queue) + 1 /\ q[Len(queue) + 1] = m
        /\ \A i \in 1 .. Len(queue) : q[i] = queue[i]
    BY <1>0, AppendProperties
  <2>5. Len(queue) \in Nat BY <1>0, LenProperties
  <2>6. Waits(q, p)
    <3>1. ASSUME NEW i \in 1 .. Len(q) PROVE p[q[i]] = "queued"
      <4>1. CASE i = Len(queue) + 1 BY <1>0, <2>4, <4>1
      <4>2. CASE i \in 1 .. Len(queue)
        BY <1>0, <2>3, <2>4, <4>2 DEF Waits, Procs
      <4> QED BY <2>4, <2>5, <4>1, <4>2
    <3>2. ASSUME NEW i \in 1 .. Len(q), NEW j \in 1 .. Len(q), q[i] = q[j] PROVE i = j
      <4>1. CASE i \in 1 .. Len(queue) /\ j \in 1 .. Len(queue)
        BY <1>0, <2>4, <3>2, <4>1 DEF Waits
      <4>2. CASE i = Len(queue) + 1 \/ j = Len(queue) + 1
        BY <2>3, <2>4, <2>5, <3>2, <4>2
      <4> QED BY <2>4, <2>5, <4>1, <4>2
    <3> QED BY <3>1, <3>2 DEF Waits
  <2>7. IsFiniteSet(Drafting(p)) /\ inflight = Cardinality(Drafting(p))
    BY <1>0, <2>2 DEF Counts
  <2> HIDE DEF p, q
  <2>8. /\ queue' \in Seq(Messages) /\ inflight' \in 0 .. Concurrency /\ pc' \in [Procs -> PCs]
        /\ Waits(queue', pc') /\ Counts(queue', inflight', pc')
        /\ \A x \in Procs : pc'[x] # p[x] => p[x] = "queued" /\ pc'[x] = "show"
    BY <1>0, <2>0, <2>1, <2>6, <2>7, PumpCounts
  <2>9. p[m] = "queued" /\ \A y \in Procs \ {m} : p[y] = pc[y] BY <1>0 DEF p
  <2>10. Stopped' BY <1>0, <1>1 DEF Stopped
  <2>11. SlotTypes' BY <1>0, <2>8 DEF SlotTypes, SlotInv
  <2> QED BY <1>0, <2>8, <2>9, <2>10, <2>11 DEF SlotInv
<1>2. CASE stop # "no"
  <2>1. Goto(m, "idle") /\ UNCHANGED <<queue, inflight>> BY <1>2 DEF Ingest, slots
  <2>2. pc' \in [Procs -> PCs] /\ \A y \in Procs : pc'[y] = IF y = m THEN "idle" ELSE pc[y]
    BY <1>0, <2>1 DEF Goto, PCs
  <2>3. \A n \in Messages : Running(n) <=> Running(n)'
    BY <1>0, <2>2 DEF Running, DraftPCs, Procs
  <2>4. Drafting(pc') = Drafting(pc) BY <2>3 DEF Drafting, Running
  <2>5. Waits(queue', pc')
    <3>1. \A i \in 1 .. Len(queue) : queue[i] \in Messages BY <1>0, ElementOfSeq
    <3>2. \A n \in Messages : pc[n] = "queued" => pc'[n] = "queued" BY <1>0, <2>2 DEF Procs
    <3> QED BY <1>0, <2>1, <3>1, <3>2 DEF Waits
  <2>6. Counts(queue', inflight', pc') BY <1>0, <2>1, <2>4 DEF Counts
  <2>7. Stopped' BY <1>0, <2>1, <2>3 DEF Stopped
  <2>8. SlotTypes' BY <1>0, <2>1, <2>2 DEF SlotTypes, SlotInv
  <2> QED BY <1>0, <2>2, <2>5, <2>6, <2>7, <2>8 DEF SlotInv
<1> QED BY <1>1, <1>2

(* stop() empties the queue and lists the drafts that run.                  *)
LEMMA StopKeeps ==
  ASSUME SlotInv, Stop
  PROVE  SlotInv'
<1>0. /\ queue \in Seq(Messages) /\ inflight \in 0 .. Concurrency /\ pc \in [Procs -> PCs]
      /\ Counts(queue, inflight, pc)
      /\ queue' = <<>> /\ inflight' = inflight /\ stop' = "waiting"
      /\ waited' = {m \in Messages : Running(m)}
      /\ pc' = [x \in Procs |-> IF pc[x] = "queued" THEN "idle" ELSE pc[x]]
  BY DEF SlotInv, SlotTypes, Stop
<1>1. pc' \in [Procs -> PCs] BY <1>0 DEF PCs
<1>2. \A m \in Messages : Running(m) <=> Running(m)'
  BY <1>0 DEF Running, DraftPCs, Procs
<1>3. Drafting(pc') = Drafting(pc) BY <1>2 DEF Drafting, Running
<1>4. Len(<<>>) = 0 OBVIOUS
<1>5. Waits(queue', pc') BY <1>0, <1>4 DEF Waits
<1>6. Counts(queue', inflight', pc') BY <1>0, <1>3 DEF Counts
<1>7. Stopped' BY <1>0, <1>2 DEF Stopped
<1>8. SlotTypes' BY <1>0, <1>1 DEF SlotTypes
<1> QED BY <1>5, <1>6, <1>7, <1>8 DEF SlotInv

LEMMA CloseKeeps ==
  ASSUME SlotInv, Close
  PROVE  SlotInv'
<1>1. /\ UNCHANGED <<queue, inflight, pc, waited>> /\ stop = "waiting" /\ stop' = "closed"
      /\ \A m \in waited : ~Running(m)
  BY DEF Close, slots
<1>2. \A m \in Messages : ~Running(m)' BY <1>1 DEF SlotInv, Stopped, Running
<1>3. Stopped' BY <1>1, <1>2 DEF SlotInv, Stopped
<1>4. SlotTypes' /\ Waits(queue', pc') /\ Counts(queue', inflight', pc')
  BY <1>1 DEF SlotInv, SlotTypes, Waits, Counts, Drafting
<1> QED BY <1>3, <1>4 DEF SlotInv

LEMMA SlotInit == Init => SlotInv
<1> SUFFICES ASSUME Init PROVE SlotInv
  OBVIOUS
<1>1. /\ queue = <<>> /\ inflight = 0 /\ stop = "no" /\ waited = {}
      /\ pc = [x \in Procs |-> IF x \in Messages THEN "new" ELSE "idle"]
  BY DEF Init
<1>2. queue \in Seq(Messages) /\ Len(<<>>) = 0 BY <1>1
<1>3. SlotTypes BY <1>1, <1>2, PipelineAssumption DEF SlotTypes, PCs
<1>4. Drafting(pc) = {} BY <1>1 DEF Drafting, DraftPCs, Procs
<1>5. Counts(queue, inflight, pc) BY <1>1, <1>4, FS_EmptySet DEF Counts
<1>6. Waits(queue, pc) /\ Stopped BY <1>1, <1>2 DEF Waits, Stopped
<1> QED BY <1>3, <1>5, <1>6 DEF SlotInv

(* The slots are in order after every step. *)
LEMMA SlotStep == SlotInv /\ [Next]_vars => SlotInv'
<1> SUFFICES ASSUME SlotInv, [Next]_vars PROVE SlotInv'
  OBVIOUS
<1>1. ASSUME NEW m \in Messages, Ingest(m) PROVE SlotInv' BY <1>1, IngestKeeps
<1>2. ASSUME NEW x \in Procs, Draft(x) \/ Partial(x) PROVE SlotInv' BY <1>2, DraftKeeps
<1>3. ASSUME NEW o \in Operators, Sending(o) \/ \E m \in Messages : Command(o, m) PROVE SlotInv'
  BY <1>3, OperatorKeeps
<1>4. CASE Stop BY <1>4, StopKeeps
<1>5. CASE Close BY <1>5, CloseKeeps
<1>6. CASE CatalogMoves \/ UNCHANGED vars
  <2>1. UNCHANGED <<slots, pc, stop, waited>> BY <1>6 DEF CatalogMoves, vars
  <2> QED BY <2>1, StandKeeps
<1> QED BY <1>1, <1>2, <1>3, <1>4, <1>5, <1>6 DEF Next

LEMMA SlotsInOrder == Spec => []SlotInv
<1> QED BY SlotInit, SlotStep, PTL DEF Spec

(* pump(), pipeline.ts: the fan-out bound counts exactly the drafts that    *)
(* run, however many messages, faults and operators there are, and no       *)
(* message waits beside a free slot.                                        *)
THEOREM SlotsAreHeld == Spec => []SlotsHeld
<1>1. SlotInv => SlotsHeld BY DEF SlotInv, Counts, Drafting, SlotsHeld, Running
<1> QED BY <1>1, SlotsInOrder, PTL

(* stop(), pipeline.ts: what it lists when it is called is all that has to  *)
(* end, for nothing the queue started later can be missing from the list.   *)
THEOREM StopIsDrained == Spec => []StopDrains
<1>1. SlotInv => StopDrains BY DEF SlotInv, Stopped, StopDrains
<1> QED BY <1>1, SlotsInOrder, PTL

-----------------------------------------------------------------------------
(* What the steps do to the data.                                           *)
DataTypes ==
  /\ version \in 1 .. MaxVersion
  /\ cache \subseteq {Question[m] : m \in Messages} \X (1 .. MaxVersion)
  /\ proposals \in [Messages -> Proposals]
  /\ d \in [Procs -> Locals]
  /\ ledger \in [Messages -> Nat] /\ delivered \in [Messages -> Nat]
  /\ told \subseteq Messages /\ started \in 0 .. MaxRequests

(* Only a draft with a retry left sleeps. *)
Backoff == \A x \in Procs : pc[x] = "backoff" => d[x].attempt < MaxAttempts

DataInv == DataTypes /\ Backoff

(* What a process remembers, when it begins and when it is over. *)
LEMMA FreshTypes ==
  /\ \A m \in Messages : Fresh(m) \in Locals /\ Fresh(m).attempt = 0 /\ Fresh(m).at = 0
  /\ \A x \in Procs : Forgotten(x) \in Locals /\ Forgotten(x).at = 0
<1>1. 0 \in 0 .. MaxVersion /\ 0 \in 0 .. MaxAttempts BY PipelineAssumption
<1>2. NoText \in Texts BY <1>1 DEF NoText, Texts
<1>3. Opened \in Proposals
  BY <1>2 DEF Opened, Proposal, Proposals, Statuses, Verdicts
<1>4. \A m \in Messages : Fresh(m) \in Locals /\ Fresh(m).attempt = 0 /\ Fresh(m).at = 0
  BY <1>1, <1>3 DEF Fresh, Locals, Verdicts
<1>5. \A x \in Procs : (IF x \in Messages THEN x ELSE CHOOSE m \in Messages : TRUE) \in Messages
  BY PipelineAssumption
<1> QED BY <1>4, <1>5 DEF Forgotten

LEMMA ProposalTypes ==
  /\ Opened \in Proposals /\ Failed \in Proposals
  /\ \A s \in Statuses, t \in Texts, v \in Verdicts : Proposal(s, t, v) \in Proposals
<1>1. NoText \in Texts BY PipelineAssumption DEF NoText, Texts
<1> QED BY <1>1 DEF Opened, Failed, Proposal, Proposals, Statuses, Verdicts

(* A draft step's own record, if it changes one field. *)
LEMMA FieldTypes ==
  ASSUME NEW l \in Locals
  PROVE  /\ \A v \in 0 .. MaxVersion : [l EXCEPT !.v = v] \in Locals /\ [l EXCEPT !.at = v] \in Locals
         /\ \A v \in 0 .. MaxVersion : [l EXCEPT !.v = v, !.cached = TRUE] \in Locals
         /\ [l EXCEPT !.repaired = TRUE] \in Locals
         /\ \A v \in Verdicts : [l EXCEPT !.verdict = v] \in Locals
  BY DEF Locals

LEMMA DataInit == Init => DataInv
<1> SUFFICES ASSUME Init PROVE DataInv
  OBVIOUS
<1>1. DataTypes
  <2>1. version \in 1 .. MaxVersion /\ started \in 0 .. MaxRequests
    BY PipelineAssumption DEF Init
  <2>2. cache \subseteq {Question[m] : m \in Messages} \X (1 .. MaxVersion) /\ told \subseteq Messages
    BY DEF Init
  <2>3. proposals \in [Messages -> Proposals]
    <3>1. NoText \in Texts BY PipelineAssumption DEF NoText, Texts
    <3>2. Proposal("none", NoText, "allow") \in Proposals
      BY <3>1, ProposalTypes DEF Statuses, Verdicts
    <3> QED BY <3>2 DEF Init
  <2>4. d \in [Procs -> Locals] BY FreshTypes DEF Init
  <2>5. ledger \in [Messages -> Nat] /\ delivered \in [Messages -> Nat] BY DEF Init
  <2> QED BY <2>1, <2>2, <2>3, <2>4, <2>5 DEF DataTypes
<1>2. Backoff BY DEF Init, Backoff, Procs
<1> QED BY <1>1, <1>2 DEF DataInv

(* A draft ends and forgets; what it leaves is the caller's concern. *)
LEMMA EndForgets ==
  ASSUME SlotInv, DataInv, NEW x \in Procs, Draft(x), End(x)
  PROVE  d' \in [Procs -> Locals] /\ Backoff' /\ pc'[x] = "idle"
<1>1. /\ pc'[x] = "idle" /\ \A y \in Procs \ {x} : pc'[y] = pc[y] \/ pc'[y] = "show"
  BY DraftKeeps DEF End, Ends
<1>2. d \in [Procs -> Locals] /\ Forgotten(x) \in Locals
  BY FreshTypes DEF DataInv, DataTypes
<1>3. d' = [d EXCEPT ![x] = Forgotten(x)] BY DEF End
<1>4. Backoff' BY <1>1, <1>2, <1>3 DEF DataInv, Backoff
<1> QED BY <1>1, <1>2, <1>3, <1>4

(* A draft goes on, and may have noted something. *)
LEMMA GoingOn ==
  ASSUME SlotInv, DataInv, NEW x \in Procs, NEW l \in Locals, d' = [d EXCEPT ![x] = l],
         UNCHANGED pc \/ \E p \in PCs : Goto(x, p),
         pc'[x] = "backoff" => l.attempt < MaxAttempts
  PROVE  d' \in [Procs -> Locals] /\ Backoff'
<1>1. d \in [Procs -> Locals] /\ pc \in [Procs -> PCs] BY DEF DataInv, DataTypes, SlotInv, SlotTypes
<1>2. \A y \in Procs \ {x} : pc'[y] = pc[y] /\ d'[y] = d[y] BY <1>1 DEF Goto
<1>3. d'[x] = l BY <1>1
<1> QED BY <1>1, <1>2, <1>3 DEF DataInv, Backoff

(* What decideReply() may answer is a status. *)
LEMMA StatusTypes ==
  ASSUME NEW level \in Levels, NEW verdict \in Verdicts, NEW s \in decideReply(level, verdict)
  PROVE  s \in Statuses
<1>0. level \in 0 .. 4 BY PipelineAssumption
<1>1. CASE level = 0 BY <1>1 DEF decideReply, Statuses
<1>2. CASE level > 0 /\ verdict = "block" BY <1>2 DEF decideReply, Statuses
<1>3. CASE level > 0 /\ verdict = "revise" BY <1>3 DEF decideReply, Statuses
<1>4. CASE level > 0 /\ verdict = "allow" BY <1>4 DEF decideReply, Statuses
<1> QED BY <1>0, <1>1, <1>2, <1>3, <1>4 DEF Verdicts

LEMMA OwnTypes ==
  ASSUME DataInv, NEW x \in Procs
  PROVE  /\ d[x] \in Locals /\ d[x].msg \in Messages /\ d[x].v \in 0 .. MaxVersion
         /\ d[x].attempt \in 0 .. MaxAttempts /\ d[x].verdict \in Verdicts
         /\ d[x].seen \in Proposals /\ d[x].at \in 0 .. MaxVersion
         /\ Text(x) \in Texts
         /\ \A s \in Statuses : Finished(x, s) \in Proposals
<1>1. d[x] \in Locals BY DEF DataInv, DataTypes
<1>2. /\ d[x].msg \in Messages /\ d[x].v \in 0 .. MaxVersion /\ d[x].attempt \in 0 .. MaxAttempts
      /\ d[x].verdict \in Verdicts /\ d[x].seen \in Proposals /\ d[x].at \in 0 .. MaxVersion
  BY <1>1 DEF Locals
<1>3. Text(x) \in Texts BY <1>2 DEF Text, Texts
<1> QED BY <1>1, <1>2, <1>3, ProposalTypes DEF Finished

LEMMA PutTypes ==
  ASSUME DataInv, NEW m \in Messages, NEW p \in Proposals, Put(m, p)
  PROVE  proposals' \in [Messages -> Proposals]
BY DEF DataInv, DataTypes, Put

LEMMA BooksTypes ==
  ASSUME DataInv, NEW m \in Messages
  PROVE  /\ [ledger EXCEPT ![m] = @ + 1] \in [Messages -> Nat]
         /\ [delivered EXCEPT ![m] = @ + 1] \in [Messages -> Nat]
BY DEF DataInv, DataTypes

LEMMA DraftTypes ==
  ASSUME SlotInv, DataInv, NEW x \in Procs, Draft(x) \/ Partial(x)
  PROVE  DataInv'
<1>0. /\ d[x] \in Locals /\ d[x].msg \in Messages /\ d[x].v \in 0 .. MaxVersion
      /\ d[x].attempt \in 0 .. MaxAttempts /\ d[x].verdict \in Verdicts
      /\ Text(x) \in Texts /\ \A s \in Statuses : Finished(x, s) \in Proposals
  BY OwnTypes
<1>1. DataTypes /\ Backoff /\ pc \in [Procs -> PCs] BY DEF DataInv, SlotInv, SlotTypes
<1>2. UNCHANGED <<version, started>> BY DraftMoves
<1>3. Draft(x) /\ End(x) => d' \in [Procs -> Locals] /\ Backoff' BY EndForgets
<1>4. UNCHANGED d => d' = [d EXCEPT ![x] = d[x]] BY <1>1 DEF DataTypes
<1>5. \A p \in DraftPCs : p \in PCs BY DEF PCs
<1>6. ASSUME UNCHANGED <<proposals, cache, books>>, d' \in [Procs -> Locals], Backoff'
      PROVE  DataInv'
  BY <1>1, <1>2, <1>6 DEF DataTypes, DataInv, books
<1>7. ASSUME NEW p \in Proposals, Put(d[x].msg, p), UNCHANGED <<cache, books>>,
             d' \in [Procs -> Locals], Backoff'
      PROVE  DataInv'
  <2>1. proposals' \in [Messages -> Proposals] BY <1>0, <1>7, PutTypes
  <2> QED BY <1>1, <1>2, <1>7, <2>1 DEF DataTypes, DataInv, books
<1>8. ASSUME UNCHANGED <<slots, d>>, NEW p \in DraftPCs, p = "backoff" => d[x].attempt < MaxAttempts, Goto(x, p)
      PROVE  d' \in [Procs -> Locals] /\ Backoff'
  <2>1. pc'[x] = p BY <1>1, <1>8 DEF Goto
  <2> QED BY <1>0, <1>4, <1>5, <1>8, <2>1, GoingOn
<1>9. CASE ShowRead(x)
  <2>1. Draft(x) BY <1>9 DEF Draft
  <2>2. CASE Put(d[x].msg, Opened) /\ Goto(x, "retrieve") /\ UNCHANGED <<slots, d>>
    <3>1. d' \in [Procs -> Locals] /\ Backoff' BY <1>8, <2>2 DEF DraftPCs
    <3> QED BY <1>7, <1>9, <2>2, <3>1, ProposalTypes DEF ShowRead
  <2>3. CASE End(x) /\ UNCHANGED proposals
    BY <1>3, <1>6, <1>9, <2>1, <2>3 DEF ShowRead
  <2> QED BY <1>9, <2>2, <2>3 DEF ShowRead
<1>10. CASE Retrieve(x)
  <2>1. Draft(x) BY <1>10 DEF Draft
  <2>2. ASSUME NEW v \in 1 .. version, NEW l \in Locals, d' = [d EXCEPT ![x] = l],
               Goto(x, "finish") \/ Goto(x, "compose")
        PROVE  d' \in [Procs -> Locals] /\ Backoff'
    <3>1. pc'[x] # "backoff" BY <1>1, <2>2 DEF Goto
    <3>2. "finish" \in PCs /\ "compose" \in PCs BY DEF PCs, DraftPCs
    <3>3. \E p \in PCs : Goto(x, p) BY <2>2, <3>2
    <3> QED BY <2>2, <3>1, <3>3, GoingOn
  <2>3. \A v \in 1 .. version : v \in 0 .. MaxVersion
    BY <1>1, PipelineAssumption DEF DataTypes
  <2>4. ASSUME NEW v \in 1 .. version,
               \/ d' = [d EXCEPT ![x].v = v, ![x].cached = TRUE] /\ Goto(x, "finish")
               \/ d' = [d EXCEPT ![x].v = v] /\ Goto(x, "compose")
        PROVE  d' \in [Procs -> Locals] /\ Backoff'
    <3>1. [d[x] EXCEPT !.v = v, !.cached = TRUE] \in Locals /\ [d[x] EXCEPT !.v = v] \in Locals
      BY <1>0, <2>3, FieldTypes
    <3>2. [d EXCEPT ![x].v = v, ![x].cached = TRUE] = [d EXCEPT ![x] = [d[x] EXCEPT !.v = v, !.cached = TRUE]]
      BY <1>1 DEF DataTypes
    <3> QED BY <2>2, <2>4, <3>1, <3>2
  <2> QED BY <1>3, <1>6, <1>10, <2>1, <2>4 DEF Retrieve
<1>11. CASE Answer(x)
  <2>1. [d[x] EXCEPT !.at = version] \in Locals
    <3>1. version \in 0 .. MaxVersion BY <1>1, PipelineAssumption DEF DataTypes
    <3> QED BY <1>0, <3>1, FieldTypes
  <2>2. pc'[x] = "guard" BY <1>1, <1>11 DEF Answer, Goto
  <2>3. "guard" \in PCs BY DEF PCs, DraftPCs
  <2>4. d' = [d EXCEPT ![x] = [d[x] EXCEPT !.at = version]] /\ Goto(x, "guard") BY <1>11 DEF Answer
  <2>5. d' \in [Procs -> Locals] /\ Backoff' BY <2>1, <2>2, <2>3, <2>4, GoingOn
  <2> QED BY <1>6, <1>11, <2>5 DEF Answer
<1>12. CASE ModelFails(x)
  <2>1. Draft(x) BY <1>12 DEF Draft
  <2>2. CASE Put(d[x].msg, Failed) /\ End(x)
    BY <1>3, <1>7, <1>12, <2>1, <2>2, ProposalTypes DEF ModelFails
  <2>3. CASE d[x].attempt < MaxAttempts /\ Goto(x, "backoff") /\ UNCHANGED <<slots, d, proposals>>
    <3>1. d' \in [Procs -> Locals] /\ Backoff' BY <1>8, <2>3 DEF DraftPCs
    <3> QED BY <1>6, <1>12, <2>3, <3>1 DEF ModelFails
  <2> QED BY <1>12, <2>2, <2>3 DEF ModelFails
<1>13. CASE Retry(x)
  <2>1. Draft(x) BY <1>13 DEF Draft
  <2>2. CASE stop = "no"
    <3> DEFINE l == [Fresh(d[x].msg) EXCEPT !.again = TRUE, !.attempt = d[x].attempt + 1]
    <3>1. d[x].attempt < MaxAttempts BY <1>1, <1>13 DEF Backoff, Retry
    <3>2. d[x].attempt + 1 \in 0 .. MaxAttempts BY <1>0, <3>1, PipelineAssumption
    <3>3. l \in Locals BY <1>0, <3>2, FreshTypes DEF Locals
    <3>4. d' = [d EXCEPT ![x] = l] /\ Goto(x, "show") BY <1>13, <2>2 DEF Retry
    <3>5. pc'[x] = "show" /\ "show" \in PCs BY <1>1, <3>4 DEF Goto, PCs, DraftPCs
    <3> HIDE DEF l
    <3>6. d' \in [Procs -> Locals] /\ Backoff' BY <3>3, <3>4, <3>5, GoingOn
    <3> QED BY <1>6, <1>13, <3>6 DEF Retry
  <2>3. CASE stop # "no" BY <1>3, <1>6, <1>13, <2>1, <2>3 DEF Retry
  <2> QED BY <2>2, <2>3
<1>14. CASE Guard(x)
  <2>1. Draft(x) BY <1>14 DEF Draft
  <2>2. CASE Put(d[x].msg, Failed) /\ End(x) /\ UNCHANGED cache
    BY <1>3, <1>7, <1>14, <2>1, <2>2, ProposalTypes DEF Guard
  <2>3. CASE GuardWith(x, version) /\ UNCHANGED proposals
    <3>1. PICK verdict \in IF d[x].v = version THEN Verdicts ELSE {"block"} :
            IF verdict = "revise" /\ ~d[x].repaired
            THEN d' = [d EXCEPT ![x].repaired = TRUE] /\ UNCHANGED <<slots, pc, cache>>
            ELSE /\ d' = [d EXCEPT ![x].verdict = verdict]
                 /\ cache' = cache \cup (IF verdict = "allow" THEN {<<Question[d[x].msg], d[x].v>>} ELSE {})
                 /\ Goto(x, "finish") /\ UNCHANGED slots
      BY <2>3 DEF GuardWith
    <3>2. verdict \in Verdicts /\ (verdict # "block" => d[x].v = version)
      BY <3>1 DEF Verdicts
    <3>3. CASE verdict = "revise" /\ ~d[x].repaired
      <4>1. [d[x] EXCEPT !.repaired = TRUE] \in Locals BY <1>0, FieldTypes
      <4>2. d' = [d EXCEPT ![x] = [d[x] EXCEPT !.repaired = TRUE]] /\ UNCHANGED <<pc, cache>>
        BY <3>1, <3>3
      <4>3. pc'[x] = "guard" BY <1>14, <4>2 DEF Guard
      <4>4. d' \in [Procs -> Locals] /\ Backoff' BY <4>1, <4>2, <4>3, GoingOn
      <4> QED BY <1>6, <1>14, <2>3, <4>2, <4>4 DEF Guard
    <3>4. CASE ~(verdict = "revise" /\ ~d[x].repaired)
      <4>1. [d[x] EXCEPT !.verdict = verdict] \in Locals BY <1>0, <3>2, FieldTypes
      <4>2. d' = [d EXCEPT ![x] = [d[x] EXCEPT !.verdict = verdict]] /\ Goto(x, "finish")
        BY <3>1, <3>4
      <4>3. pc'[x] = "finish" /\ "finish" \in PCs BY <1>1, <4>2 DEF Goto, PCs, DraftPCs
      <4>4. d' \in [Procs -> Locals] /\ Backoff' BY <4>1, <4>2, <4>3, GoingOn
      <4>5. cache' \subseteq {Question[m] : m \in Messages} \X (1 .. MaxVersion)
        BY <1>0, <1>1, <3>1, <3>2, <3>4 DEF DataTypes
      <4>6. UNCHANGED <<proposals, books>> BY <1>14, <2>3 DEF Guard
      <4> QED BY <1>1, <1>2, <4>4, <4>5, <4>6 DEF DataTypes, DataInv, books
    <3> QED BY <3>3, <3>4
  <2> QED BY <1>14, <2>2, <2>3 DEF Guard
<1>15. FinishThrows(x) /\ Draft(x) /\ UNCHANGED <<cache, books>> => DataInv'
  <2> SUFFICES ASSUME FinishThrows(x), Draft(x), UNCHANGED <<cache, books>> PROVE DataInv'
    OBVIOUS
  <2>1. d' \in [Procs -> Locals] /\ Backoff' BY <1>3 DEF FinishThrows
  <2>2. CASE d[x].cached BY <1>6, <2>1, <2>2 DEF FinishThrows
  <2>3. CASE ~d[x].cached BY <1>7, <2>1, <2>3, ProposalTypes DEF FinishThrows
  <2> QED BY <2>2, <2>3
<1>16. CASE Decide(x)
  <2>1. Draft(x) /\ UNCHANGED <<cache, books>> BY <1>16 DEF Draft, Decide
  <2>2. ASSUME NEW level \in Levels, NEW status \in decideReply(level, d[x].verdict),
               CASE status = "auto_sent" -> Goto(x, "deliver") /\ UNCHANGED <<slots, d, proposals>>
                 [] status = "blocked" -> Goto(x, "auditBlocked") /\ UNCHANGED <<slots, d, proposals>>
                 [] OTHER -> Put(d[x].msg, Finished(x, status)) /\ End(x)
        PROVE  DataInv'
    <3>1. CASE status = "auto_sent"
      <4>1. Goto(x, "deliver") /\ UNCHANGED <<slots, d, proposals>> BY <2>2, <3>1
      <4>2. d' \in [Procs -> Locals] /\ Backoff' BY <1>8, <4>1 DEF DraftPCs
      <4> QED BY <1>6, <2>1, <4>1, <4>2
    <3>2. CASE status = "blocked"
      <4>1. Goto(x, "auditBlocked") /\ UNCHANGED <<slots, d, proposals>> BY <2>2, <3>2
      <4>2. d' \in [Procs -> Locals] /\ Backoff' BY <1>8, <4>1 DEF DraftPCs
      <4> QED BY <1>6, <2>1, <4>1, <4>2
    <3>3. CASE status \notin {"auto_sent", "blocked"}
      <4>1. Put(d[x].msg, Finished(x, status)) /\ End(x) BY <2>2, <3>3
      <4>2. status \in Statuses BY <1>0, <2>2, StatusTypes
      <4> QED BY <1>0, <1>3, <1>7, <2>1, <4>1, <4>2
    <3> QED BY <3>1, <3>2, <3>3
  <2> QED BY <1>15, <1>16, <2>1, <2>2 DEF Decide
<1>17. CASE Deliver(x)
  <2>1. Draft(x) BY <1>17 DEF Draft
  <2>2. CASE /\ delivered' = [delivered EXCEPT ![d[x].msg] = @ + 1]
             /\ Goto(x, "auditSent") /\ UNCHANGED <<slots, d, proposals>>
    <3>1. d' \in [Procs -> Locals] /\ Backoff' BY <1>8, <2>2 DEF DraftPCs
    <3>2. delivered' \in [Messages -> Nat] BY <1>0, <2>2, BooksTypes
    <3> QED BY <1>1, <1>2, <1>17, <2>2, <3>1, <3>2 DEF DataTypes, DataInv, Deliver
  <2>3. CASE /\ Put(d[x].msg, Finished(x, "needs_review")) /\ End(x)
             /\ UNCHANGED delivered
    <3>1. "needs_review" \in Statuses BY DEF Statuses
    <3> QED BY <1>0, <1>3, <1>7, <1>17, <2>1, <2>3, <3>1 DEF Deliver, books
  <2> QED BY <1>17, <2>2, <2>3 DEF Deliver
<1>18. CASE AuditSent(x)
  <2>1. Draft(x) BY <1>18 DEF Draft
  <2>2. CASE /\ ledger' = [ledger EXCEPT ![d[x].msg] = @ + 1]
             /\ Put(d[x].msg, [Finished(x, "auto_sent") EXCEPT !.sent = Text(x)])
             /\ End(x)
    <3>1. [Finished(x, "auto_sent") EXCEPT !.sent = Text(x)] \in Proposals
      BY <1>0 DEF Proposals, Statuses
    <3>2. proposals' \in [Messages -> Proposals] BY <1>0, <2>2, <3>1, PutTypes
    <3>3. ledger' \in [Messages -> Nat] BY <1>0, <2>2, BooksTypes
    <3> QED BY <1>1, <1>2, <1>3, <1>18, <2>1, <2>2, <3>2, <3>3 DEF DataTypes, DataInv, AuditSent
  <2>3. CASE FinishThrows(x) /\ UNCHANGED ledger
    BY <1>15, <1>18, <2>1, <2>3 DEF AuditSent, books
  <2> QED BY <1>18, <2>2, <2>3 DEF AuditSent
<1>19. CASE AuditBlocked(x)
  <2>1. Draft(x) /\ "blocked" \in Statuses BY <1>19 DEF Draft, Statuses
  <2> QED BY <1>0, <1>3, <1>7, <1>19, <2>1 DEF AuditBlocked
<1>20. CASE Partial(x)
  <2>1. [v |-> d[x].v, checked |-> FALSE] \in Texts BY <1>0 DEF Texts
  <2>2. Proposal("drafting", [v |-> d[x].v, checked |-> FALSE], "allow") \in Proposals
    BY <2>1, ProposalTypes DEF Statuses, Verdicts
  <2>3. d' \in [Procs -> Locals] /\ Backoff' BY <1>1, <1>20 DEF Partial, DataTypes, Backoff
  <2> QED BY <1>7, <1>20, <2>2, <2>3 DEF Partial
<1> QED BY <1>9, <1>10, <1>11, <1>12, <1>13, <1>14, <1>16, <1>17, <1>18, <1>19, <1>20 DEF Draft

LEMMA OperatorTypes ==
  ASSUME SlotInv, DataInv, NEW o \in Operators, Sending(o) \/ \E m \in Messages : Command(o, m)
  PROVE  DataInv'
<1>0. o \in Procs BY DEF Procs
<1>1. /\ d[o] \in Locals /\ d[o].msg \in Messages /\ d[o].verdict \in Verdicts /\ d[o].seen \in Proposals
  BY <1>0, OwnTypes
<1>2. DataTypes /\ Backoff /\ pc \in [Procs -> PCs] BY DEF DataInv, SlotInv, SlotTypes
<1>3. /\ UNCHANGED version
      /\ UNCHANGED pc \/ \E p \in PCs \ {"backoff", "finish", "deliver", "auditSent"} : Goto(o, p)
      /\ pc[o] \notin DraftPCs
  BY OperatorMoves
<1>4. pc'[o] # "backoff" BY <1>0, <1>2, <1>3 DEF Goto, DraftPCs
<1>5. ASSUME NEW l \in Locals, d' = [d EXCEPT ![o] = l] PROVE d' \in [Procs -> Locals] /\ Backoff'
  <2>1. UNCHANGED pc \/ \E p \in PCs : Goto(o, p) BY <1>3
  <2> QED BY <1>0, <1>4, <1>5, <2>1, GoingOn
<1>6. UNCHANGED d => d' \in [Procs -> Locals] /\ Backoff'
  <2>1. UNCHANGED d => d' = [d EXCEPT ![o] = d[o]] BY <1>2 DEF DataTypes
  <2> QED BY <1>1, <1>5, <2>1
<1>7. Done(o) => d' \in [Procs -> Locals] /\ Backoff'
  BY <1>0, <1>5, FreshTypes DEF Done
<1>8. MarkSent(o) => UNCHANGED d /\ proposals' \in [Messages -> Proposals]
  <2> DEFINE text == IF d[o].edited THEN [v |-> 0, checked |-> TRUE] ELSE d[o].seen.text
             p == [d[o].seen EXCEPT !.status = "sent", !.verdict = d[o].verdict, !.sent = text]
  <2>1. text \in Texts BY <1>1, PipelineAssumption DEF Texts, Proposals
  <2> HIDE DEF text
  <2>2. p \in Proposals BY <1>1, <2>1 DEF Proposals, Statuses
  <2>3. MarkSent(o) => Put(d[o].msg, p) /\ UNCHANGED d BY DEF MarkSent, text
  <2> HIDE DEF p
  <2> QED BY <1>1, <2>2, <2>3, PutTypes
<1>9. CASE Recheck(o)
  <2>1. ASSUME NEW verdict \in {"allow", "revise"}, d' = [d EXCEPT ![o].verdict = verdict]
        PROVE  d' \in [Procs -> Locals] /\ Backoff'
    <3>1. [d[o] EXCEPT !.verdict = verdict] \in Locals BY <1>1, FieldTypes DEF Verdicts
    <3> QED BY <1>5, <2>1, <3>1
  <2>2. d' \in [Procs -> Locals] /\ Backoff' BY <1>7, <1>9, <2>1 DEF Recheck
  <2> QED BY <1>2, <1>9, <2>2 DEF Recheck, Unchanged, DataTypes, DataInv, books
<1>10. CASE Source(o)
  <2>1. /\ d' \in [Procs -> Locals] /\ Backoff' /\ proposals' \in [Messages -> Proposals]
    BY <1>2, <1>6, <1>7, <1>8, <1>10 DEF Source, DataTypes
  <2> QED BY <1>2, <1>10, <2>1 DEF Source, Unchanged, DataTypes, DataInv, books
<1>11. CASE SendDeliver(o)
  <2>1. d' \in [Procs -> Locals] /\ Backoff' /\ proposals' \in [Messages -> Proposals]
    BY <1>2, <1>6, <1>7, <1>8, <1>11 DEF SendDeliver, DataTypes
  <2>2. delivered' \in [Messages -> Nat] BY <1>1, <1>2, <1>11, BooksTypes DEF SendDeliver, DataTypes
  <2> QED BY <1>2, <1>11, <2>1, <2>2 DEF SendDeliver, Unchanged, DataTypes, DataInv
<1>12. CASE AuditReply(o)
  <2>1. d' \in [Procs -> Locals] /\ Backoff' BY <1>7, <1>12 DEF AuditReply
  <2>2. ledger' \in [Messages -> Nat] BY <1>1, <1>2, <1>12, BooksTypes DEF AuditReply, DataTypes
  <2>3. told' \subseteq Messages BY <1>1, <1>2, <1>12 DEF AuditReply, DataTypes
  <2> QED BY <1>2, <1>12, <2>1, <2>2, <2>3 DEF AuditReply, Unchanged, DataTypes, DataInv
<1>13. ASSUME NEW m \in Messages, NEW edited \in BOOLEAN, Send(o, m, edited) PROVE DataInv'
  <2>1. /\ started' \in 0 .. MaxRequests /\ UNCHANGED <<cache, ledger, delivered, proposals>>
    BY <1>2, <1>13, PipelineAssumption DEF Send, Request, DataTypes
  <2>2. told' \subseteq Messages
    <3>1. UNCHANGED told \/ told' = told \cup {m} BY <1>13 DEF Send
    <3> QED BY <1>2, <3>1 DEF DataTypes
  <2>3. d' \in [Procs -> Locals] /\ Backoff'
    <3> DEFINE p == proposals[m]
               l == [Fresh(m) EXCEPT !.seen = p, !.verdict = p.verdict, !.edited = edited]
    <3>1. p \in Proposals BY <1>2 DEF DataTypes
    <3>2. p.verdict \in Verdicts BY <3>1 DEF Proposals
    <3>3. Fresh(m) \in Locals BY FreshTypes
    <3>4. l \in Locals BY <3>1, <3>2, <3>3 DEF Locals
    <3>5. UNCHANGED d \/ d' = [d EXCEPT ![o] = l] BY <1>13 DEF Send
    <3> HIDE DEF l
    <3> QED BY <1>5, <1>6, <3>4, <3>5
  <2> QED BY <1>2, <1>3, <2>1, <2>2, <2>3 DEF DataTypes, DataInv
<1>14. ASSUME NEW m \in Messages, Dismiss(o, m) PROVE DataInv'
  <2>1. /\ started' \in 0 .. MaxRequests /\ UNCHANGED <<cache, ledger, delivered, d, told>>
    BY <1>2, <1>14, PipelineAssumption DEF Dismiss, Request, DataTypes
  <2>2. proposals' \in [Messages -> Proposals]
    <3>1. [proposals[m] EXCEPT !.status = "dismissed"] \in Proposals
      BY <1>2 DEF DataTypes, Proposals, Statuses
    <3>2. proposals' = [proposals EXCEPT ![m] = [proposals[m] EXCEPT !.status = "dismissed"]]
      BY <1>14 DEF Dismiss
    <3> QED BY <1>2, <3>1, <3>2 DEF DataTypes
  <2> QED BY <1>2, <1>3, <1>6, <2>1, <2>2 DEF DataTypes, DataInv
<1>15. ASSUME NEW m \in Messages, Regenerate(o, m) PROVE DataInv'
  <2>1. /\ started' \in 0 .. MaxRequests /\ UNCHANGED <<cache, ledger, delivered, proposals, told>>
    BY <1>2, <1>15, PipelineAssumption DEF Regenerate, Request, DataTypes
  <2>2. d' \in [Procs -> Locals] /\ Backoff'
    <3> DEFINE again == proposals[m].text # NoText
               l == [Fresh(m) EXCEPT !.again = again]
    <3>1. l \in Locals
      <4>1. again \in BOOLEAN OBVIOUS
      <4> HIDE DEF again
      <4>2. \A a \in BOOLEAN : [Fresh(m) EXCEPT !.again = a] \in Locals BY FreshTypes DEF Locals
      <4> QED BY <4>1, <4>2
    <3>2. d' = [d EXCEPT ![o] = l] BY <1>15 DEF Regenerate
    <3> HIDE DEF l
    <3> QED BY <1>5, <3>1, <3>2
  <2> QED BY <1>2, <1>3, <2>1, <2>2 DEF DataTypes, DataInv
<1> QED BY <1>9, <1>10, <1>11, <1>12, <1>13, <1>14, <1>15 DEF Sending, Command

LEMMA DataStep == SlotInv /\ DataInv /\ [Next]_vars => DataInv'
<1> SUFFICES ASSUME SlotInv, DataInv, [Next]_vars PROVE DataInv'
  OBVIOUS
<1>1. DataTypes /\ Backoff /\ pc \in [Procs -> PCs] BY DEF DataInv, SlotInv, SlotTypes
<1>2. ASSUME NEW m \in Messages, Ingest(m) PROVE DataInv'
  <2>1. pc'[m] # "backoff" /\ \A y \in Procs \ {m} : pc'[y] = pc[y] \/ pc'[y] = "show"
    BY <1>2, IngestKeeps
  <2>2. UNCHANGED <<version, cache, proposals, d, books, started>> BY <1>2 DEF Ingest
  <2>3. Backoff' BY <1>1, <2>1, <2>2 DEF Backoff
  <2> QED BY <1>1, <2>2, <2>3 DEF DataTypes, DataInv, books
<1>3. ASSUME NEW x \in Procs, Draft(x) \/ Partial(x) PROVE DataInv' BY <1>3, DraftTypes
<1>4. ASSUME NEW o \in Operators, Sending(o) \/ \E m \in Messages : Command(o, m) PROVE DataInv'
  BY <1>4, OperatorTypes
<1>5. CASE Stop
  <2>1. UNCHANGED <<version, cache, proposals, d, books, started>> BY <1>5 DEF Stop
  <2>2. \A x \in Procs : pc'[x] = pc[x] \/ pc'[x] = "idle" BY <1>5 DEF Stop
  <2>3. Backoff' BY <1>1, <2>1, <2>2 DEF Backoff
  <2> QED BY <1>1, <2>1, <2>3 DEF DataTypes, DataInv, books
<1>6. CASE CatalogMoves
  <2>1. UNCHANGED <<pc, cache, proposals, d, books, started>> BY <1>6 DEF CatalogMoves
  <2>2. version' \in 1 .. MaxVersion BY <1>1, <1>6, PipelineAssumption DEF CatalogMoves, DataTypes
  <2> QED BY <1>1, <2>1, <2>2 DEF DataTypes, DataInv, Backoff, books
<1>7. CASE Close \/ UNCHANGED vars
  <2>1. UNCHANGED <<version, pc, cache, proposals, d, books, started>> BY <1>7 DEF Close, vars
  <2> QED BY <1>1, <2>1 DEF DataTypes, DataInv, Backoff, books
<1> QED BY <1>2, <1>3, <1>4, <1>5, <1>6, <1>7 DEF Next

LEMMA PipelineInvariant == Spec => [](SlotInv /\ DataInv)
<1>1. Init => SlotInv /\ DataInv BY SlotInit, DataInit
<1>2. SlotInv /\ DataInv /\ [Next]_vars => (SlotInv /\ DataInv)' BY SlotStep, DataStep
<1> QED BY <1>1, <1>2, PTL DEF Spec

(* The state of the pipeline, whose retries stay within MaxAttempts and     *)
(* whose cache holds only replies checked against a version there was.      *)
THEOREM PipelineTypeCorrect == Spec => []TypeOK
<1>1. SlotInv /\ DataInv => TypeOK
  BY DEF SlotInv, SlotTypes, DataInv, DataTypes, TypeOK, PCs
<1> QED BY <1>1, PipelineInvariant, PTL

-----------------------------------------------------------------------------
(* What a process is about to do, and what it rests on: a reply about to be *)
(* recorded was posted; the model answered in the past; and what goes on    *)
(* unblocked was checked at a version no older than the answer.             *)
Late == {"finish", "deliver", "auditSent"}

Posted(x) == pc[x] = "auditSent" => delivered[d[x].msg] > 0

Timely(x) == d[x].at <= version

Caught(x) == pc[x] \in Late /\ ~d[x].cached /\ d[x].verdict # "block" => d[x].v >= d[x].at

Sound(x) == Posted(x) /\ Timely(x) /\ Caught(x)

DraftInv == (\A x \in Procs : Sound(x)) /\ AutoSentOnRecord

(* Nothing that was posted or recorded is taken back. *)
Grows ==
  /\ version' \in Int /\ version <= version'
  /\ \A m \in Messages : /\ delivered'[m] \in Int /\ delivered[m] <= delivered'[m]
                         /\ ledger'[m] \in Int /\ ledger[m] <= ledger'[m]

LEMMA OthersSound ==
  ASSUME DataInv, NEW y \in Procs, Sound(y), Grows, d'[y] = d[y],
         pc'[y] = pc[y] \/ pc'[y] \notin Late
  PROVE  Sound(y)'
<1>1. d[y].msg \in Messages /\ d[y].at \in Int BY OwnTypes
<1>2. version \in Int /\ delivered[d[y].msg] \in Int BY <1>1 DEF DataInv, DataTypes
<1>3. Posted(y)' BY <1>1, <1>2 DEF Sound, Posted, Grows, Late
<1>4. Timely(y)' BY <1>1, <1>2 DEF Sound, Timely, Grows
<1>5. Caught(y)' BY DEF Sound, Caught
<1> QED BY <1>3, <1>4, <1>5 DEF Sound

(* A proposal comes to read auto-sent in one place. *)
LEMMA RecordStands ==
  ASSUME DataInv, AutoSentOnRecord, Grows,
         \/ UNCHANGED proposals
         \/ \E m \in Messages, p \in Proposals : p.status # "auto_sent" /\ Put(m, p)
  PROVE  AutoSentOnRecord'
<1>1. /\ proposals \in [Messages -> Proposals]
      /\ \A m \in Messages : delivered[m] \in Int /\ ledger[m] \in Int
  BY DEF DataInv, DataTypes
<1>2. ASSUME NEW n \in Messages, proposals'[n].status = "auto_sent" PROVE proposals[n].status = "auto_sent"
  BY <1>1, <1>2 DEF Put
<1>3. ASSUME NEW n \in Messages, proposals'[n].status = "auto_sent"
      PROVE  delivered'[n] > 0 /\ ledger'[n] > 0
  <2>1. delivered[n] > 0 /\ ledger[n] > 0 BY <1>2, <1>3 DEF AutoSentOnRecord
  <2> QED BY <1>1, <2>1 DEF Grows
<1> QED BY <1>3 DEF AutoSentOnRecord

(* Who posts or records something: one more of one message. *)
LEMMA BooksGrow ==
  ASSUME DataInv, version' = version \/ CatalogMoves, NEW m \in Messages,
         UNCHANGED delivered \/ delivered' = [delivered EXCEPT ![m] = @ + 1],
         UNCHANGED ledger \/ ledger' = [ledger EXCEPT ![m] = @ + 1]
  PROVE  Grows
<1>1. /\ version \in Int /\ delivered \in [Messages -> Nat] /\ ledger \in [Messages -> Nat]
  BY DEF DataInv, DataTypes
<1>2. version' \in Int /\ version <= version' BY <1>1 DEF CatalogMoves
<1>3. ASSUME NEW n \in Messages
      PROVE  delivered'[n] \in Int /\ delivered[n] <= delivered'[n]
  BY <1>1
<1>4. ASSUME NEW n \in Messages
      PROVE  ledger'[n] \in Int /\ ledger[n] <= ledger'[n]
  BY <1>1
<1> QED BY <1>2, <1>3, <1>4 DEF Grows

LEMMA DraftGrows ==
  ASSUME SlotInv, DataInv, NEW x \in Procs, Draft(x) \/ Partial(x)
  PROVE  /\ Grows
         /\ \A y \in Procs \ {x} : d'[y] = d[y] /\ (pc'[y] = pc[y] \/ pc'[y] \notin Late)
<1>0. d \in [Procs -> Locals] /\ d[x].msg \in Messages BY OwnTypes DEF DataInv, DataTypes
<1>1. version' = version BY DraftMoves
<1>2. \A y \in Procs \ {x} : pc'[y] = pc[y] \/ pc'[y] \notin Late BY DraftKeeps DEF Late
<1>3. /\ UNCHANGED delivered \/ delivered' = [delivered EXCEPT ![d[x].msg] = @ + 1]
      /\ UNCHANGED ledger \/ ledger' = [ledger EXCEPT ![d[x].msg] = @ + 1]
  BY DEF Draft, ShowRead, Retrieve, Answer, ModelFails, Retry, Guard, Decide, Deliver, AuditSent,
         AuditBlocked, Partial, books
<1>4. Grows BY <1>0, <1>1, <1>3, BooksGrow
<1>5. \A y \in Procs \ {x} : d'[y] = d[y]
  <2>1. End(x) => \A y \in Procs \ {x} : d'[y] = d[y] BY <1>0 DEF End
  <2>2. CASE ShowRead(x) \/ Partial(x) BY <2>1, <2>2 DEF ShowRead, Partial
  <2>3. CASE Retrieve(x) BY <1>0, <2>1, <2>3 DEF Retrieve
  <2>4. CASE Answer(x) BY <1>0, <2>4 DEF Answer
  <2>5. CASE ModelFails(x) BY <2>1, <2>5 DEF ModelFails
  <2>6. CASE Retry(x) BY <1>0, <2>1, <2>6 DEF Retry
  <2>7. CASE Guard(x) BY <1>0, <2>1, <2>7 DEF Guard, GuardWith
  <2>8. CASE Decide(x)
    <3>1. ASSUME NEW level \in Levels, NEW status \in decideReply(level, d[x].verdict),
                 CASE status = "auto_sent" -> Goto(x, "deliver") /\ UNCHANGED <<slots, d, proposals>>
                   [] status = "blocked" -> Goto(x, "auditBlocked") /\ UNCHANGED <<slots, d, proposals>>
                   [] OTHER -> Put(d[x].msg, Finished(x, status)) /\ End(x)
          PROVE  UNCHANGED d \/ End(x)
      BY <3>1
    <3> QED BY <2>1, <2>8, <3>1 DEF Decide, FinishThrows
  <2>9. CASE Deliver(x) BY <2>1, <2>9 DEF Deliver
  <2>10. CASE AuditSent(x) BY <2>1, <2>10 DEF AuditSent, FinishThrows
  <2>11. CASE AuditBlocked(x) BY <2>1, <2>11 DEF AuditBlocked
  <2> QED BY <2>2, <2>3, <2>4, <2>5, <2>6, <2>7, <2>8, <2>9, <2>10, <2>11 DEF Draft
<1> QED BY <1>2, <1>4, <1>5

(* A draft that is over rests on nothing. *)
LEMMA EndSound ==
  ASSUME SlotInv, DataInv, NEW x \in Procs, Draft(x), End(x)
  PROVE  Sound(x)'
<1>1. pc'[x] = "idle" BY EndForgets
<1>2. d'[x] = Forgotten(x) /\ Forgotten(x).at = 0 BY FreshTypes DEF End, DataInv, DataTypes
<1>3. version' = version /\ version \in Nat BY DraftMoves DEF DataInv, DataTypes
<1> QED BY <1>1, <1>2, <1>3 DEF Sound, Posted, Timely, Caught, Late

(* The process that moves, action by action. *)
LEMMA OwnSound ==
  ASSUME SlotInv, DataInv, NEW x \in Procs, Sound(x), Draft(x) \/ Partial(x)
  PROVE  Sound(x)'
<1>0. /\ d \in [Procs -> Locals] /\ pc \in [Procs -> PCs] /\ version \in Nat
      /\ d[x].msg \in Messages /\ d[x].at \in Int /\ d[x].v \in Int
      /\ delivered \in [Messages -> Nat]
  BY OwnTypes DEF DataInv, DataTypes, SlotInv, SlotTypes
<1>1. version' = version BY DraftMoves
<1>2. Draft(x) /\ End(x) => Sound(x)' BY EndSound
<1>3. ASSUME d'[x].at = d[x].at, pc'[x] \notin Late PROVE Sound(x)'
  BY <1>1, <1>3 DEF Sound, Posted, Timely, Caught, Late
<1>4. CASE ShowRead(x)
  <2>1. CASE Goto(x, "retrieve") /\ UNCHANGED d BY <1>0, <1>3, <2>1 DEF Goto, Late
  <2> QED BY <1>2, <1>4, <2>1 DEF ShowRead, Draft
<1>5. CASE Retrieve(x)
  <2>1. ASSUME NEW v \in 1 .. version, d' = [d EXCEPT ![x].v = v, ![x].cached = TRUE], Goto(x, "finish")
        PROVE  Sound(x)'
    <3>1. d[x] \in Locals BY <1>0
    <3>2. d'[x] = [d[x] EXCEPT !.v = v, !.cached = TRUE] BY <1>0, <2>1
    <3>3. d'[x].cached /\ d'[x].at = d[x].at BY <3>1, <3>2 DEF Locals
    <3>4. pc'[x] = "finish" BY <1>0, <2>1 DEF Goto
    <3> QED BY <1>1, <3>3, <3>4 DEF Sound, Posted, Timely, Caught
  <2>2. ASSUME NEW v \in 1 .. version, d' = [d EXCEPT ![x].v = v], Goto(x, "compose")
        PROVE  Sound(x)'
    <3>1. d'[x].at = d[x].at BY <1>0, <2>2 DEF Locals
    <3> QED BY <1>0, <1>3, <2>2, <3>1 DEF Goto, Late
  <2> QED BY <1>2, <1>5, <2>1, <2>2 DEF Retrieve, Draft
<1>6. CASE Answer(x)
  <2>1. d'[x] = [d[x] EXCEPT !.at = version] /\ pc'[x] = "guard" BY <1>0, <1>6 DEF Answer, Goto
  <2>2. d'[x].at = version
    <3>1. d[x] \in Locals BY <1>0
    <3> QED BY <2>1, <3>1 DEF Locals
  <2> QED BY <1>0, <1>1, <2>1, <2>2 DEF Sound, Posted, Timely, Caught, Late
<1>7. CASE ModelFails(x)
  <2>1. CASE Goto(x, "backoff") /\ UNCHANGED d BY <1>0, <1>3, <2>1 DEF Goto, Late
  <2> QED BY <1>2, <1>7, <2>1 DEF ModelFails, Draft
<1>8. CASE Retry(x)
  <2> DEFINE l == [Fresh(d[x].msg) EXCEPT !.again = TRUE, !.attempt = d[x].attempt + 1]
  <2>1. CASE d' = [d EXCEPT ![x] = l] /\ Goto(x, "show")
    <3>1. l.at = 0 BY DEF Fresh
    <3> HIDE DEF l
    <3>2. d'[x].at = 0 /\ pc'[x] = "show" BY <1>0, <2>1, <3>1 DEF Goto
    <3> QED BY <1>0, <1>1, <3>2 DEF Sound, Posted, Timely, Caught, Late
  <2> QED BY <1>2, <1>8, <2>1 DEF Retry, Draft
<1>9. CASE Guard(x)
  <2>1. CASE GuardWith(x, version)
    <3>1. PICK verdict \in IF d[x].v = version THEN Verdicts ELSE {"block"} :
            IF verdict = "revise" /\ ~d[x].repaired
            THEN d' = [d EXCEPT ![x].repaired = TRUE] /\ UNCHANGED <<slots, pc, cache>>
            ELSE /\ d' = [d EXCEPT ![x].verdict = verdict]
                 /\ cache' = cache \cup (IF verdict = "allow" THEN {<<Question[d[x].msg], d[x].v>>} ELSE {})
                 /\ Goto(x, "finish") /\ UNCHANGED slots
      BY <2>1 DEF GuardWith
    <3>2. verdict # "block" => d[x].v = version BY <3>1
    <3>3. d[x] \in Locals BY <1>0
    <3>4. CASE verdict = "revise" /\ ~d[x].repaired
      <4>1. pc' = pc /\ pc[x] = "guard" BY <1>9, <3>1, <3>4 DEF Guard
      <4>2. d'[x] = [d[x] EXCEPT !.repaired = TRUE] BY <1>0, <3>1, <3>4
      <4>3. d'[x].at = d[x].at BY <3>3, <4>2 DEF Locals
      <4> QED BY <1>3, <4>1, <4>3 DEF Late
    <3>5. CASE ~(verdict = "revise" /\ ~d[x].repaired)
      <4>1. d'[x] = [d[x] EXCEPT !.verdict = verdict] /\ pc'[x] = "finish"
        BY <1>0, <3>1, <3>5 DEF Goto
      <4>2. /\ d'[x].at = d[x].at /\ d'[x].v = d[x].v /\ d'[x].verdict = verdict
        BY <3>3, <4>1 DEF Locals
      <4>3. d[x].at <= version BY DEF Sound, Timely
      <4> QED BY <1>0, <1>1, <3>2, <4>1, <4>2, <4>3 DEF Sound, Posted, Timely, Caught
    <3> QED BY <3>4, <3>5
  <2> QED BY <1>2, <1>9, <2>1 DEF Guard, Draft
<1>10. CASE Decide(x)
  <2>1. ASSUME NEW p \in {"deliver", "auditBlocked"}, Goto(x, p), UNCHANGED d PROVE Sound(x)'
    <3>1. pc[x] \in Late /\ pc'[x] = p BY <1>0, <1>10, <2>1 DEF Decide, Goto, Late
    <3> QED BY <1>1, <2>1, <3>1 DEF Sound, Posted, Timely, Caught
  <2>2. ASSUME NEW level \in Levels, NEW status \in decideReply(level, d[x].verdict),
               CASE status = "auto_sent" -> Goto(x, "deliver") /\ UNCHANGED <<slots, d, proposals>>
                 [] status = "blocked" -> Goto(x, "auditBlocked") /\ UNCHANGED <<slots, d, proposals>>
                 [] OTHER -> Put(d[x].msg, Finished(x, status)) /\ End(x)
        PROVE  End(x) \/ \E p \in {"deliver", "auditBlocked"} : Goto(x, p) /\ UNCHANGED d
    BY <2>2
  <2> QED BY <1>2, <1>10, <2>1, <2>2 DEF Decide, Draft, FinishThrows
<1>11. CASE Deliver(x)
  <2>1. CASE /\ delivered' = [delivered EXCEPT ![d[x].msg] = @ + 1]
             /\ Goto(x, "auditSent") /\ UNCHANGED <<slots, d, proposals>>
    <3>1. delivered'[d[x].msg] > 0 BY <1>0, <2>1
    <3>2. pc[x] \in Late /\ d' = d BY <1>11, <2>1 DEF Deliver, Late
    <3> QED BY <1>1, <3>1, <3>2 DEF Sound, Posted, Timely, Caught
  <2> QED BY <1>2, <1>11, <2>1 DEF Deliver, Draft
<1>12. CASE AuditSent(x) BY <1>2, <1>12 DEF AuditSent, FinishThrows, Draft
<1>13. CASE AuditBlocked(x) BY <1>2, <1>13 DEF AuditBlocked, Draft
<1>14. CASE Partial(x)
  <2>1. d' = d /\ pc' = pc /\ pc[x] = "compose" BY <1>14 DEF Partial
  <2> QED BY <1>3, <2>1 DEF Late
<1> QED BY <1>4, <1>5, <1>6, <1>7, <1>8, <1>9, <1>10, <1>11, <1>12, <1>13, <1>14 DEF Draft

(* What a draft writes into a proposal reads auto-sent only where AuditSent *)
(* writes it, after the post and with the entry.                            *)
LEMMA DraftRecords ==
  ASSUME SlotInv, DataInv, DraftInv, NEW x \in Procs, Draft(x) \/ Partial(x)
  PROVE  AutoSentOnRecord'
<1>0. /\ d[x].msg \in Messages /\ Opened \in Proposals /\ Failed \in Proposals
      /\ \A s \in Statuses : Finished(x, s) \in Proposals
      /\ Opened.status = "drafting" /\ Failed.status = "needs_review"
      /\ \A s \in Statuses : Finished(x, s).status = s
  BY OwnTypes, ProposalTypes DEF Opened, Failed, Finished, Proposal
<1>1. Grows BY DraftGrows
<1>2. \/ UNCHANGED proposals
      \/ \E m \in Messages, p \in Proposals : p.status # "auto_sent" /\ Put(m, p)
      \/ AuditSent(x) /\ delivered' = delivered /\ ledger' = [ledger EXCEPT ![d[x].msg] = @ + 1]
  <2>1. FinishThrows(x) => UNCHANGED proposals \/ Put(d[x].msg, Failed) BY DEF FinishThrows
  <2>2. CASE ShowRead(x) BY <1>0, <2>2 DEF ShowRead
  <2>3. CASE Retrieve(x) \/ Answer(x) \/ Retry(x) BY <2>3 DEF Retrieve, Answer, Retry
  <2>4. CASE ModelFails(x) BY <1>0, <2>4 DEF ModelFails
  <2>5. CASE Guard(x) BY <1>0, <2>5 DEF Guard
  <2>6. CASE Decide(x)
    <3>1. ASSUME NEW level \in Levels, NEW status \in decideReply(level, d[x].verdict),
                 CASE status = "auto_sent" -> Goto(x, "deliver") /\ UNCHANGED <<slots, d, proposals>>
                   [] status = "blocked" -> Goto(x, "auditBlocked") /\ UNCHANGED <<slots, d, proposals>>
                   [] OTHER -> Put(d[x].msg, Finished(x, status)) /\ End(x)
          PROVE  UNCHANGED proposals \/ \E m \in Messages, p \in Proposals : p.status # "auto_sent" /\ Put(m, p)
      <4>1. CASE status \in {"auto_sent", "blocked"} BY <3>1, <4>1
      <4>2. CASE status \notin {"auto_sent", "blocked"}
        <5>1. Put(d[x].msg, Finished(x, status)) BY <3>1, <4>2
        <5>2. status \in Statuses BY <3>1, OwnTypes, StatusTypes
        <5> QED BY <1>0, <4>2, <5>1, <5>2
      <4> QED BY <4>1, <4>2
    <3> QED BY <1>0, <2>1, <2>6, <3>1 DEF Decide
  <2>7. CASE Deliver(x)
    <3>1. "needs_review" \in Statuses BY DEF Statuses
    <3> QED BY <1>0, <2>7, <3>1 DEF Deliver
  <2>8. CASE AuditSent(x) BY <1>0, <2>1, <2>8 DEF AuditSent
  <2>9. CASE AuditBlocked(x)
    <3>1. "blocked" \in Statuses BY DEF Statuses
    <3> QED BY <1>0, <2>9, <3>1 DEF AuditBlocked
  <2>10. CASE Partial(x)
    <3> DEFINE p == Proposal("drafting", [v |-> d[x].v, checked |-> FALSE], "allow")
    <3>1. [v |-> d[x].v, checked |-> FALSE] \in Texts BY OwnTypes DEF Texts
    <3>2. p \in Proposals BY <3>1, ProposalTypes DEF Statuses, Verdicts
    <3>3. p.status = "drafting" BY DEF Proposal
    <3>4. Put(d[x].msg, p) BY <2>10 DEF Partial
    <3> HIDE DEF p
    <3> QED BY <1>0, <3>2, <3>3, <3>4
  <2> QED BY <2>2, <2>3, <2>4, <2>5, <2>6, <2>7, <2>8, <2>9, <2>10 DEF Draft
<1>3. AutoSentOnRecord BY DEF DraftInv
<1>4. CASE AuditSent(x) /\ delivered' = delivered /\ ledger' = [ledger EXCEPT ![d[x].msg] = @ + 1]
  <2>1. /\ proposals \in [Messages -> Proposals] /\ ledger \in [Messages -> Nat]
        /\ delivered \in [Messages -> Nat]
    BY DEF DataInv, DataTypes
  <2>2. delivered[d[x].msg] > 0 BY <1>4 DEF DraftInv, Sound, Posted, AuditSent
  <2>3. ledger'[d[x].msg] > 0 BY <1>0, <1>4, <2>1
  <2>4. \A m \in Messages \ {d[x].msg} : proposals'[m] = proposals[m] /\ ledger'[m] = ledger[m]
    BY <2>1, <1>4 DEF AuditSent, FinishThrows, Put
  <2> QED BY <1>3, <1>4, <2>2, <2>3, <2>4 DEF AutoSentOnRecord
<1> QED BY <1>1, <1>2, <1>3, <1>4, RecordStands

LEMMA DraftSound ==
  ASSUME SlotInv, DataInv, DraftInv, NEW x \in Procs, Draft(x) \/ Partial(x)
  PROVE  DraftInv'
<1>1. Grows /\ \A y \in Procs \ {x} : d'[y] = d[y] /\ (pc'[y] = pc[y] \/ pc'[y] \notin Late)
  BY DraftGrows
<1>2. ASSUME NEW y \in Procs \ {x} PROVE Sound(y)' BY <1>1, OthersSound DEF DraftInv
<1>3. Sound(x)' BY OwnSound DEF DraftInv
<1>4. AutoSentOnRecord' BY DraftRecords
<1> QED BY <1>2, <1>3, <1>4 DEF DraftInv

(* An operator's steps are not those of a draft: they may post or record    *)
(* once more, or write a status of their own.                               *)
LEMMA OperatorSound ==
  ASSUME SlotInv, DataInv, DraftInv, NEW o \in Operators, Sending(o) \/ \E m \in Messages : Command(o, m)
  PROVE  DraftInv'
<1>0. /\ o \in Procs /\ d \in [Procs -> Locals] /\ pc \in [Procs -> PCs]
      /\ proposals \in [Messages -> Proposals]
      /\ d[o] \in Locals /\ d[o].msg \in Messages /\ d[o].at \in Int /\ d[o].seen \in Proposals
      /\ d[o].verdict \in Verdicts /\ version \in Nat
  BY OwnTypes DEF DataInv, DataTypes, SlotInv, SlotTypes, Procs
<1>1. /\ UNCHANGED version /\ pc[o] \notin DraftPCs
      /\ UNCHANGED pc \/ \E p \in PCs \ {"backoff", "finish", "deliver", "auditSent"} : Goto(o, p)
  BY OperatorMoves
<1>2. pc'[o] \notin Late /\ \A y \in Procs \ {o} : pc'[y] = pc[y]
  BY <1>0, <1>1 DEF Goto, Late, DraftPCs
<1>3. Grows
  <2>1. /\ UNCHANGED delivered \/ \E m \in Messages : delivered' = [delivered EXCEPT ![m] = @ + 1]
        /\ UNCHANGED ledger \/ \E m \in Messages : ledger' = [ledger EXCEPT ![m] = @ + 1]
        /\ UNCHANGED delivered \/ UNCHANGED ledger
    BY <1>0 DEF Sending, Command, Recheck, Source, SendDeliver, AuditReply, Send, Dismiss, Regenerate,
                Request, books
  <2> QED BY <1>0, <1>1, <2>1, BooksGrow
<1>4. d' = d \/ \E l \in Locals : d' = [d EXCEPT ![o] = l] /\ l.at \in {0, d[o].at}
  <2>1. Done(o) => d' = [d EXCEPT ![o] = Forgotten(o)] BY DEF Done
  <2>2. CASE Recheck(o)
    <3>1. ASSUME NEW verdict \in {"allow", "revise"}, d' = [d EXCEPT ![o].verdict = verdict]
          PROVE  \E l \in Locals : d' = [d EXCEPT ![o] = l] /\ l.at \in {0, d[o].at}
      <4>1. [d[o] EXCEPT !.verdict = verdict] \in Locals BY <1>0, FieldTypes DEF Verdicts
      <4>2. [d[o] EXCEPT !.verdict = verdict].at = d[o].at BY <1>0 DEF Locals
      <4> QED BY <3>1, <4>1, <4>2
    <3> QED BY <1>0, <2>1, <2>2, <3>1, FreshTypes DEF Recheck
  <2>3. CASE Source(o) BY <1>0, <2>1, <2>3, FreshTypes DEF Source, MarkSent
  <2>4. CASE SendDeliver(o) BY <1>0, <2>1, <2>4, FreshTypes DEF SendDeliver, MarkSent
  <2>5. CASE AuditReply(o) BY <1>0, <2>1, <2>5, FreshTypes DEF AuditReply
  <2>6. ASSUME NEW m \in Messages, NEW edited \in BOOLEAN, Send(o, m, edited)
        PROVE  d' = d \/ \E l \in Locals : d' = [d EXCEPT ![o] = l] /\ l.at \in {0, d[o].at}
    <3> DEFINE p == proposals[m]
               l == [Fresh(m) EXCEPT !.seen = p, !.verdict = p.verdict, !.edited = edited]
    <3>1. p \in Proposals /\ p.verdict \in Verdicts BY <1>0 DEF Proposals
    <3>2. Fresh(m) \in Locals BY FreshTypes
    <3>3. l \in Locals BY <3>1, <3>2 DEF Locals
    <3>4. l.at = 0 BY DEF Fresh
    <3>5. d' = d \/ d' = [d EXCEPT ![o] = l] BY <2>6 DEF Send
    <3> HIDE DEF l
    <3> QED BY <3>3, <3>4, <3>5
  <2>7. ASSUME NEW m \in Messages, Dismiss(o, m) \/ Regenerate(o, m)
        PROVE  d' = d \/ \E l \in Locals : d' = [d EXCEPT ![o] = l] /\ l.at \in {0, d[o].at}
    <3> DEFINE again == proposals[m].text # NoText
               l == [Fresh(m) EXCEPT !.again = again]
    <3>1. l \in Locals
      <4>1. again \in BOOLEAN OBVIOUS
      <4> HIDE DEF again
      <4>2. \A a \in BOOLEAN : [Fresh(m) EXCEPT !.again = a] \in Locals BY FreshTypes DEF Locals
      <4> QED BY <4>1, <4>2
    <3>2. l.at = 0 BY DEF Fresh
    <3>3. d' = d \/ d' = [d EXCEPT ![o] = l] BY <2>7 DEF Dismiss, Regenerate
    <3> HIDE DEF l
    <3> QED BY <3>1, <3>2, <3>3
  <2> QED BY <2>2, <2>3, <2>4, <2>5, <2>6, <2>7 DEF Sending, Command
<1>5. \A y \in Procs \ {o} : d'[y] = d[y] BY <1>0, <1>4
<1>6. d'[o].at \in {0, d[o].at} BY <1>0, <1>4
<1>7. Sound(o)'
  <2>1. d[o].at <= version BY <1>0 DEF DraftInv, Sound, Timely
  <2> QED BY <1>0, <1>1, <1>2, <1>6, <2>1 DEF Sound, Posted, Timely, Caught, Late
<1>8. ASSUME NEW y \in Procs \ {o} PROVE Sound(y)'
  BY <1>2, <1>3, <1>5, OthersSound DEF DraftInv
<1>9. \/ UNCHANGED proposals
      \/ \E m \in Messages, p \in Proposals : p.status # "auto_sent" /\ Put(m, p)
  <2>1. MarkSent(o) => \E p \in Proposals : p.status # "auto_sent" /\ Put(d[o].msg, p)
    <3> DEFINE text == IF d[o].edited THEN [v |-> 0, checked |-> TRUE] ELSE d[o].seen.text
               p == [d[o].seen EXCEPT !.status = "sent", !.verdict = d[o].verdict, !.sent = text]
    <3>1. text \in Texts BY <1>0, PipelineAssumption DEF Texts, Proposals
    <3> HIDE DEF text
    <3>2. p \in Proposals BY <1>0, <3>1 DEF Proposals, Statuses
    <3>3. p.status = "sent" BY <1>0 DEF Proposals
    <3>4. MarkSent(o) => Put(d[o].msg, p) BY DEF MarkSent, text
    <3> HIDE DEF p
    <3> QED BY <3>2, <3>3, <3>4
  <2>2. CASE Sending(o)
    BY <1>0, <2>1, <2>2 DEF Sending, Recheck, Source, SendDeliver, AuditReply
  <2>3. ASSUME NEW m \in Messages, Dismiss(o, m)
        PROVE  \E p \in Proposals : p.status # "auto_sent" /\ Put(m, p)
    <3> DEFINE p == [proposals[m] EXCEPT !.status = "dismissed"]
    <3>1. p \in Proposals /\ p.status = "dismissed" BY <1>0 DEF Proposals, Statuses
    <3>2. Put(m, p) BY <2>3 DEF Dismiss, Put
    <3> HIDE DEF p
    <3> QED BY <3>1, <3>2
  <2>4. ASSUME NEW m \in Messages, Regenerate(o, m) \/ \E edited \in BOOLEAN : Send(o, m, edited)
        PROVE  UNCHANGED proposals
    BY <2>4 DEF Regenerate, Send
  <2> QED BY <2>2, <2>3, <2>4 DEF Command
<1>10. AutoSentOnRecord' BY <1>3, <1>9, RecordStands DEF DraftInv
<1> QED BY <1>7, <1>8, <1>10 DEF DraftInv

LEMMA SoundInit == Init => DraftInv
<1> SUFFICES ASSUME Init PROVE DraftInv
  OBVIOUS
<1>1. \A x \in Procs : d[x] = Forgotten(x) /\ d[x].at = 0 /\ pc[x] \in {"new", "idle"}
  BY FreshTypes DEF Init
<1>2. \A m \in Messages : proposals[m].status = "none" BY DEF Init, Proposal
<1> QED BY <1>1, <1>2 DEF Init, DraftInv, Sound, Posted, Timely, Caught, Late, AutoSentOnRecord

LEMMA SoundStep == SlotInv /\ DataInv /\ DraftInv /\ [Next]_vars => DraftInv'
<1> SUFFICES ASSUME SlotInv, DataInv, DraftInv, [Next]_vars PROVE DraftInv'
  OBVIOUS
<1>1. AutoSentOnRecord /\ \A x \in Procs : Sound(x) BY DEF DraftInv
<1>2. ASSUME UNCHANGED <<proposals, d, books>>, version' = version \/ CatalogMoves,
             \A x \in Procs : pc'[x] = pc[x] \/ pc'[x] \notin Late
      PROVE  DraftInv'
  <2>1. \E m \in Messages : TRUE BY PipelineAssumption
  <2>2. Grows BY <1>2, <2>1, BooksGrow DEF books
  <2> QED BY <1>1, <1>2, <2>2, OthersSound, RecordStands DEF DraftInv
<1>3. ASSUME NEW m \in Messages, Ingest(m) PROVE DraftInv'
  BY <1>2, <1>3, IngestKeeps DEF Ingest, Late
<1>4. ASSUME NEW x \in Procs, Draft(x) \/ Partial(x) PROVE DraftInv' BY <1>4, DraftSound
<1>5. ASSUME NEW o \in Operators, Sending(o) \/ \E m \in Messages : Command(o, m) PROVE DraftInv'
  BY <1>5, OperatorSound
<1>6. CASE Stop
  <2>1. \A x \in Procs : pc'[x] = pc[x] \/ pc'[x] = "idle" BY <1>6 DEF Stop
  <2> QED BY <1>2, <1>6, <2>1 DEF Stop, Late
<1>7. CASE Close \/ CatalogMoves \/ UNCHANGED vars
  BY <1>2, <1>7 DEF Close, CatalogMoves, vars
<1> QED BY <1>3, <1>4, <1>5, <1>6, <1>7 DEF Next

LEMMA RepliesAreSound == Spec => []DraftInv
<1>1. Init => SlotInv /\ DataInv /\ DraftInv BY SlotInit, DataInit, SoundInit
<1>2. SlotInv /\ DataInv /\ DraftInv /\ [Next]_vars => (SlotInv /\ DataInv /\ DraftInv)'
  BY SlotStep, DataStep, SoundStep
<1> QED BY <1>1, <1>2, PTL DEF Spec

(* finish(), pipeline.ts: whatever fails between the post, its entry in the *)
(* ledger and the proposal, and whatever operators do meanwhile, a reply    *)
(* that reads auto-sent was posted and is in the ledger.                    *)
THEOREM AutoSentIsRecorded == Spec => []AutoSentOnRecord
<1>1. DraftInv => AutoSentOnRecord BY DEF DraftInv
<1> QED BY <1>1, RepliesAreSound, PTL

(* draft(), pipeline.ts: the listings are read again for the guards, so a   *)
(* write that lands during the model's round trip is caught, on every path  *)
(* to a suggestion or a post, for any number of drafts and writes.          *)
THEOREM RaceIsCaught == Spec => []ComposeRaceIsCaught
<1>1. DraftInv => ComposeRaceIsCaught
  BY DEF DraftInv, Sound, Caught, ComposeRaceIsCaught, Late
<1> QED BY <1>1, RepliesAreSound, PTL

-----------------------------------------------------------------------------
(***************************************************************************)
(* The drafts that wait for an operator, and the pages that count them.    *)
(* PageInv says of each half of a page what it still owes the answer: a    *)
(* card was there when it was read, each draft has one, and what the       *)
(* sessions are counted for the stored half leaves out.  RetryInv says of  *)
(* a draft no step has spoiled where its entry can be and what its row     *)
(* reads by then, so that a press that comes again finds it settled.       *)
(***************************************************************************)
CONSTANTS Drafts, FollowUps, Requests, MaxRegenerated, MaxPages, MaxFaults

VARIABLES session, held, writing, writes, rows, inbox, press, entries, page, spent

Queue == INSTANCE DraftQueue

(* The instance counts as this module does. *)
LEMMA SameCount == \A S : Queue!Cardinality(S) = Cardinality(S)
  BY DEF Queue!Cardinality, Cardinality

LEMMA DraftsAreFinite ==
  Queue!DraftsAssumption => IsFiniteSet(Drafts) /\ IsFiniteSet(FollowUps) /\ Drafts \cap FollowUps = {}
<1>1. \A S : Queue!IsFiniteSet(S) <=> IsFiniteSet(S)
  BY DEF Queue!IsFiniteSet, IsFiniteSet
<1> QED BY <1>1 DEF Queue!DraftsAssumption

RowStatuses == {"none", "open", "blocked", "sent", "dismissed"}
HeldAs == RowStatuses \cup {"drafting", "away"}
Record0 == [status : RowStatuses, sentAt : Requests \cup {Queue!None}]
Pressing == [kind : {"none", "sent", "dismissed"}, of : Drafts \cup FollowUps \cup {Queue!None},
             pc : {"idle", "send", "ledger", "write", "record", "done"}, retry : BOOLEAN]
Cards == Drafts \X Queue!Card
Asked == [pc : {"idle", "list", "listLive", "listStored", "answerList", "listed",
                "home", "homeLive", "answerHome", "told"},
          live : SUBSET Cards, stored : SUBSET Cards, waiting : SUBSET FollowUps,
          before : SUBSET Drafts, steady : BOOLEAN, count : Nat]
Bounds == [again : Nat, pages : Nat, faults : Nat, spoiled : SUBSET Drafts]

AtDraft == {"send", "ledger", "write", "record"}

QueueTypes ==
  /\ session \in Queue!Watched \cup {"gone", "down"}
  /\ held \in [Drafts -> HeldAs] /\ writing \subseteq Drafts
  /\ rows \in [Drafts -> Record0]
  /\ writes \subseteq Drafts \X Queue!Card \X (Requests \cup {Queue!None})
  /\ inbox \in [FollowUps -> {"open", "sent", "dismissed"}]
  /\ press \in [Requests -> Pressing] /\ entries \subseteq Requests \X Drafts
  /\ page \in Asked /\ spent \in Bounds
  /\ \A r \in Requests : press[r].pc \in AtDraft => press[r].of \in Drafts

(* What no step takes back: a row that is written stays, and so does what   *)
(* a runtime holds, until its process goes.                                 *)
RowsStay == \A t \in Drafts : rows[t].status \in Queue!Card => rows'[t].status \in Queue!Card
HeldStays == \A t \in Drafts :
  held[t] \in Queue!Card \cup {"drafting"} => held'[t] \in Queue!Card \cup {"drafting"}

LEMMA TypesInit == Queue!Init => QueueTypes
<1> SUFFICES ASSUME Queue!Init PROVE QueueTypes
  OBVIOUS
<1>1. Queue!Idle \in Pressing /\ Queue!Idle.pc = "idle"
  BY DEF Queue!Idle, Pressing, Queue!None
<1>2. Queue!NoPage \in Asked
  BY DEF Queue!NoPage, Asked
<1>3. [status |-> Queue!None, sentAt |-> Queue!None] \in Record0
  BY DEF Record0, RowStatuses, Queue!None
<1>4. spent \in Bounds
  BY DEF Queue!Init, Bounds
<1>5. press \in [Requests -> Pressing] /\ \A r \in Requests : press[r].pc = "idle"
  BY <1>1 DEF Queue!Init
<1> QED BY <1>2, <1>3, <1>4, <1>5 DEF Queue!Init, QueueTypes, Queue!Watched, HeldAs, RowStatuses, Queue!None,
   AtDraft

(* A press goes on to another step, and a bound is used up. *)
LEMMA GotoType ==
  ASSUME QueueTypes, NEW r \in Requests, NEW to \in {"ledger", "record", "done"}, Queue!Goto(r, to),
         press[r].pc \in AtDraft
  PROVE  /\ press' \in [Requests -> Pressing]
         /\ \A q \in Requests : press'[q].pc \in AtDraft => press'[q].of \in Drafts
         /\ press'[r] = [press[r] EXCEPT !.pc = to]
         /\ \A q \in Requests \ {r} : press'[q] = press[q]
<1>1. press[r] \in Pressing /\ press \in [Requests -> Pressing] /\ press[r].of \in Drafts
  BY DEF QueueTypes
<1>2. [press[r] EXCEPT !.pc = to] \in Pressing /\ [press[r] EXCEPT !.pc = to].of \in Drafts
  BY <1>1 DEF Pressing
<1>3. press' = [press EXCEPT ![r] = [press[r] EXCEPT !.pc = to]]
  BY DEF Queue!Goto
<1> QED BY <1>1, <1>2, <1>3 DEF QueueTypes

LEMMA FoundType ==
  ASSUME QueueTypes, NEW r \in Requests, NEW kind \in {"sent", "dismissed"},
         NEW t \in Drafts \cup FollowUps, NEW to \in {"send", "write", "done"}, Queue!Found(r, kind, t, to),
         to = "done" \/ t \in Drafts
  PROVE  /\ press' \in [Requests -> Pressing]
         /\ \A q \in Requests : press'[q].pc \in AtDraft => press'[q].of \in Drafts
         /\ press'[r].kind = kind /\ press'[r].of = t /\ press'[r].pc = to
         /\ press'[r].retry =>
              Queue!Writes(t) = {} /\ \E q \in Requests : press[q].pc = "done" /\ <<q, t>> \in entries
         /\ \A q \in Requests \ {r} : press'[q] = press[q]
<1> DEFINE again == Queue!Writes(t) = {} /\ \E q \in Requests : press[q].pc = "done" /\ <<q, t>> \in entries
           p == [kind |-> kind, of |-> t, pc |-> to, retry |-> again]
<1>1. press' = [press EXCEPT ![r] = p]
  BY DEF Queue!Found
<1>2. again \in BOOLEAN
  OBVIOUS
<1>3. p \in Pressing /\ p.kind = kind /\ p.of = t /\ p.pc = to /\ p.retry = again
  <2> HIDE DEF again
  <2> QED BY <1>2 DEF Pressing
<1> HIDE DEF p
<1>4. press' \in [Requests -> Pressing] /\ press'[r] = p /\ \A q \in Requests \ {r} : press'[q] = press[q]
  BY <1>1, <1>3 DEF QueueTypes
<1>5. \A q \in Requests : press'[q].pc \in AtDraft => press'[q].of \in Drafts
  BY <1>3, <1>4 DEF QueueTypes, AtDraft
<1> QED BY <1>3, <1>4, <1>5

LEMMA SpoilType ==
  ASSUME QueueTypes, NEW ds \in SUBSET Drafts
  PROVE  /\ [spent EXCEPT !.spoiled = @ \cup ds] \in Bounds
         /\ [spent EXCEPT !.spoiled = @ \cup ds].spoiled = spent.spoiled \cup ds
         /\ [spent EXCEPT !.faults = @ + 1, !.spoiled = @ \cup ds] \in Bounds
         /\ [spent EXCEPT !.faults = @ + 1, !.spoiled = @ \cup ds].spoiled = spent.spoiled \cup ds
         /\ [spent EXCEPT !.again = @ + 1, !.spoiled = @ \cup ds] \in Bounds
         /\ [spent EXCEPT !.again = @ + 1, !.spoiled = @ \cup ds].spoiled = spent.spoiled \cup ds
         /\ [spent EXCEPT !.faults = @ + 1] \in Bounds
         /\ [spent EXCEPT !.faults = @ + 1].spoiled = spent.spoiled
         /\ [spent EXCEPT !.pages = @ + 1] \in Bounds
         /\ [spent EXCEPT !.pages = @ + 1].spoiled = spent.spoiled
<1>1. spent \in Bounds /\ ds \in SUBSET Drafts
  BY DEF QueueTypes
<1> DEFINE n == spent.faults + 1
           k == spent.again + 1
           sp == spent.spoiled \cup ds
<1>6. n \in Nat /\ k \in Nat /\ sp \in SUBSET Drafts
  BY <1>1 DEF Bounds
<1>2. /\ [spent EXCEPT !.spoiled = @ \cup ds] \in Bounds
      /\ [spent EXCEPT !.spoiled = @ \cup ds].spoiled = spent.spoiled \cup ds
  BY <1>1 DEF Bounds
<1>3. /\ [spent EXCEPT !.faults = @ + 1, !.spoiled = @ \cup ds] \in Bounds
      /\ [spent EXCEPT !.faults = @ + 1, !.spoiled = @ \cup ds].spoiled = spent.spoiled \cup ds
  <2>1. [spent EXCEPT !.faults = @ + 1, !.spoiled = @ \cup ds] = [spent EXCEPT !.faults = n, !.spoiled = sp]
    OBVIOUS
  <2>2. sp = spent.spoiled \cup ds
    OBVIOUS
  <2> HIDE DEF n, sp
  <2>3. [spent EXCEPT !.faults = n, !.spoiled = sp] \in Bounds /\ [spent EXCEPT !.faults = n, !.spoiled = sp].spoiled = sp
    BY <1>1, <1>6 DEF Bounds
  <2> QED BY <2>1, <2>2, <2>3
<1>4. /\ [spent EXCEPT !.again = @ + 1, !.spoiled = @ \cup ds] \in Bounds
      /\ [spent EXCEPT !.again = @ + 1, !.spoiled = @ \cup ds].spoiled = spent.spoiled \cup ds
  <2>1. [spent EXCEPT !.again = @ + 1, !.spoiled = @ \cup ds] = [spent EXCEPT !.again = k, !.spoiled = sp]
    OBVIOUS
  <2>2. sp = spent.spoiled \cup ds
    OBVIOUS
  <2> HIDE DEF k, sp
  <2>3. [spent EXCEPT !.again = k, !.spoiled = sp] \in Bounds /\ [spent EXCEPT !.again = k, !.spoiled = sp].spoiled = sp
    BY <1>1, <1>6 DEF Bounds
  <2> QED BY <2>1, <2>2, <2>3
<1>5. /\ [spent EXCEPT !.faults = @ + 1] \in Bounds
      /\ [spent EXCEPT !.faults = @ + 1].spoiled = spent.spoiled
      /\ [spent EXCEPT !.pages = @ + 1] \in Bounds
      /\ [spent EXCEPT !.pages = @ + 1].spoiled = spent.spoiled
  BY <1>1 DEF Bounds
<1> QED BY <1>2, <1>3, <1>4, <1>5

LEMMA HeldType ==
  ASSUME QueueTypes, NEW t \in Drafts, NEW s \in HeldAs, held' = [held EXCEPT ![t] = s]
  PROVE  /\ held' \in [Drafts -> HeldAs] /\ held'[t] = s
         /\ \A e \in Drafts \ {t} : held'[e] = held[e]
  BY DEF QueueTypes

-----------------------------------------------------------------------------
(* What each step does, as far as the invariants look at it. *)
LEMMA DraftDoes ==
  ASSUME QueueTypes, NEW t \in Drafts, Queue!Draft(t)
  PROVE  QueueTypes' /\ RowsStay /\ HeldStays
<1>1. held' \in [Drafts -> HeldAs] /\ held'[t] = "drafting" /\ \A e \in Drafts \ {t} : held'[e] = held[e]
  BY HeldType DEF Queue!Draft, HeldAs
<1>2. UNCHANGED <<session, writes, rows, inbox, press, entries, page, spent>> /\ writing' \subseteq Drafts
  BY DEF Queue!Draft, QueueTypes
<1> QED BY <1>1, <1>2 DEF QueueTypes, RowsStay, HeldStays

LEMMA RegenerateDoes ==
  ASSUME QueueTypes, NEW t \in Drafts, Queue!Regenerate(t)
  PROVE  /\ QueueTypes' /\ RowsStay /\ HeldStays /\ spent'.spoiled = spent.spoiled \cup {t}
         /\ \A e \in Drafts \ {t} : held'[e] = held[e]
<1>1. held' \in [Drafts -> HeldAs] /\ held'[t] = "drafting" /\ \A e \in Drafts \ {t} : held'[e] = held[e]
  BY HeldType DEF Queue!Regenerate, HeldAs
<1>2. UNCHANGED <<session, writes, rows, inbox, press, entries, page>> /\ writing' \subseteq Drafts
  BY DEF Queue!Regenerate, QueueTypes
<1>3. spent' \in Bounds /\ spent'.spoiled = spent.spoiled \cup {t}
  BY SpoilType DEF Queue!Regenerate
<1> QED BY <1>1, <1>2, <1>3 DEF QueueTypes, RowsStay, HeldStays

LEMMA SettleDoes ==
  ASSUME QueueTypes, NEW t \in Drafts, Queue!Settle(t)
  PROVE  /\ QueueTypes' /\ RowsStay /\ HeldStays
         /\ spent'.spoiled = spent.spoiled \cup (IF held[t] = "drafting" THEN {} ELSE {t})
         /\ \A e \in Drafts \ {t} : held'[e] = held[e]
<1>1. PICK status \in {"open", "blocked"} :
        /\ writing' = writing \ {t} /\ held' = [held EXCEPT ![t] = status]
        /\ writes' = writes \cup {<<t, status, Queue!None>>}
        /\ UNCHANGED <<session, rows, inbox, press, entries, page>>
        /\ spent' = IF held[t] = "drafting" THEN spent ELSE [spent EXCEPT !.spoiled = @ \cup {t}]
  BY DEF Queue!Settle
<1>2. held' \in [Drafts -> HeldAs] /\ held'[t] = status /\ \A e \in Drafts \ {t} : held'[e] = held[e]
  BY <1>1, HeldType DEF HeldAs, RowStatuses
<1>3. writes' \subseteq Drafts \X Queue!Card \X (Requests \cup {Queue!None})
  BY <1>1 DEF QueueTypes, Queue!Card
<1>4. spent' \in Bounds /\ spent'.spoiled = spent.spoiled \cup (IF held[t] = "drafting" THEN {} ELSE {t})
  BY <1>1, SpoilType DEF QueueTypes
<1> QED BY <1>1, <1>2, <1>3, <1>4 DEF QueueTypes, RowsStay, HeldStays, Queue!Card

LEMMA LandDoes ==
  ASSUME QueueTypes, Queue!Land
  PROVE  /\ QueueTypes' /\ RowsStay /\ HeldStays
         /\ \E w \in writes :
              /\ w[1] \in Drafts /\ w[2] \in Queue!Card /\ writes' = writes \ {w}
              /\ spent'.spoiled = spent.spoiled \cup (IF Queue!Writes(w[1]) = {w} /\ rows'[w[1]].status = w[2] THEN {} ELSE {w[1]})
                 \/ spent'.spoiled = spent.spoiled \cup {w[1]}
              /\ \A t \in Drafts \ {w[1]} : rows'[t] = rows[t]
              /\ rows'[w[1]] = rows[w[1]] \/ rows'[w[1]].status = w[2]
              /\ \A t \in Drafts : rows[t].sentAt # Queue!None => rows'[t].sentAt = rows[t].sentAt
<1>1. PICK w \in writes :
        /\ writes' = writes \ {w}
        /\ \/ /\ rows' = [rows EXCEPT ![w[1]] = [status |-> w[2], sentAt |-> IF @.sentAt = Queue!None THEN w[3] ELSE @.sentAt]]
              /\ spent' = IF Queue!Writes(w[1]) = {w} THEN spent ELSE [spent EXCEPT !.spoiled = @ \cup {w[1]}]
           \/ Queue!Faulted({w[1]}) /\ rows' = rows
        /\ UNCHANGED <<session, held, writing, inbox, press, entries, page>>
  BY DEF Queue!Land
<1>2. w[1] \in Drafts /\ w[2] \in Queue!Card /\ w[3] \in Requests \cup {Queue!None}
  BY DEF QueueTypes
<1> DEFINE t == w[1]
           row == [status |-> w[2], sentAt |-> IF rows[t].sentAt = Queue!None THEN w[3] ELSE rows[t].sentAt]
<1>3. row \in Record0 /\ row.status = w[2] /\ (rows[t].sentAt # Queue!None => row.sentAt = rows[t].sentAt)
  BY <1>2 DEF QueueTypes, Record0, RowStatuses, Queue!Card
<1>4. writes' \subseteq Drafts \X Queue!Card \X (Requests \cup {Queue!None})
  BY <1>1 DEF QueueTypes
<1>5. CASE rows' = [rows EXCEPT ![w[1]] = [status |-> w[2], sentAt |-> IF @.sentAt = Queue!None THEN w[3] ELSE @.sentAt]]
           /\ spent' = IF Queue!Writes(w[1]) = {w} THEN spent ELSE [spent EXCEPT !.spoiled = @ \cup {w[1]}]
  <2>1. rows' = [rows EXCEPT ![t] = row]
    BY <1>5
  <2> HIDE DEF row
  <2>2. rows' \in [Drafts -> Record0] /\ rows'[t] = row /\ \A e \in Drafts \ {t} : rows'[e] = rows[e]
    BY <1>2, <1>3, <2>1 DEF QueueTypes
  <2>3. spent' \in Bounds /\ spent'.spoiled = spent.spoiled \cup (IF Queue!Writes(t) = {w} THEN {} ELSE {t})
    BY <1>2, <1>5, SpoilType DEF QueueTypes
  <2>4. QueueTypes'
    BY <1>1, <1>4, <2>2, <2>3 DEF QueueTypes
  <2> QED BY <1>1, <1>2, <1>3, <2>2, <2>3, <2>4 DEF RowsStay, HeldStays
<1>6. CASE Queue!Faulted({w[1]}) /\ rows' = rows
  <2>1. spent' \in Bounds /\ spent'.spoiled = spent.spoiled \cup {t}
    BY <1>2, <1>6, SpoilType DEF Queue!Faulted
  <2>2. QueueTypes'
    BY <1>1, <1>4, <1>6, <2>1 DEF QueueTypes
  <2> QED BY <1>1, <1>2, <1>6, <2>1, <2>2 DEF RowsStay, HeldStays
<1> QED BY <1>1, <1>5, <1>6

LEMMA PageType ==
  ASSUME QueueTypes
  PROVE  /\ [page EXCEPT !.steady = FALSE] \in Asked
         /\ [page EXCEPT !.steady = FALSE].pc = page.pc /\ ~[page EXCEPT !.steady = FALSE].steady
         /\ [page EXCEPT !.steady = FALSE].live = page.live
         /\ [page EXCEPT !.steady = FALSE].stored = page.stored
         /\ [page EXCEPT !.steady = FALSE].before = page.before
         /\ [page EXCEPT !.steady = FALSE].waiting = page.waiting
         /\ [page EXCEPT !.steady = FALSE].count = page.count
  BY DEF QueueTypes, Asked

LEMMA DetachDoes ==
  ASSUME QueueTypes, Queue!Detach \/ Queue!Resume
  PROVE  /\ QueueTypes' /\ RowsStay /\ HeldStays /\ UNCHANGED <<held, writing, writes, rows, press, entries, spent>>
         /\ page' = [page EXCEPT !.steady = FALSE]
<1>1. /\ page' = [page EXCEPT !.steady = FALSE] /\ session' \in Queue!Watched \cup {"gone", "down"}
      /\ UNCHANGED <<held, writing, writes, rows, inbox, press, entries, spent>>
  BY DEF Queue!Detach, Queue!Resume, Queue!Watched
<1>2. page' \in Asked
  BY <1>1, PageType
<1> QED BY <1>1, <1>2 DEF QueueTypes, RowsStay, HeldStays

LEMMA RestartDoes ==
  ASSUME QueueTypes, Queue!Restart
  PROVE  /\ QueueTypes' /\ RowsStay /\ UNCHANGED <<rows, inbox, entries>> /\ page' = Queue!NoPage
         /\ session' \in {"gone", "down"} /\ (session \in {"ended", "gone"} => session' = "gone")
         /\ writes' = {} /\ writing' = {}
         /\ \A t \in Drafts : held'[t] = IF held[t] = Queue!None THEN Queue!None ELSE "away"
         /\ \A r \in Requests : /\ press'[r].pc = IF press[r].pc = "idle" THEN "idle" ELSE "done"
                                /\ press[r].pc = "idle" => press'[r] = Queue!Idle
                                /\ press[r].pc # "idle" => press'[r] = [press[r] EXCEPT !.pc = "done"]
         /\ spent.spoiled \subseteq spent'.spoiled
         /\ \A w \in writes : w[1] \in spent'.spoiled
         /\ \A r \in Requests : press[r].pc \in AtDraft => press[r].of \in spent'.spoiled
<1> DEFINE inFlight == {q \in Requests : press[q].pc \notin {"idle", "done"}}
           ds == {w[1] : w \in writes} \cup {press[r].of : r \in inFlight}
<1>1. ds \subseteq Drafts
  <2>1. \A w \in writes : w[1] \in Drafts
    BY DEF QueueTypes
  <2>2. \A r \in inFlight : press[r].of \in Drafts
    BY DEF QueueTypes, Pressing, AtDraft
  <2> QED BY <2>1, <2>2
<1>2. spent' \in Bounds /\ spent'.spoiled = spent.spoiled \cup ds
  <2>1. spent' = [spent EXCEPT !.faults = @ + 1, !.spoiled = @ \cup ds]
    BY DEF Queue!Restart, Queue!Faulted
  <2> HIDE DEF ds
  <2> QED BY <1>1, <2>1, SpoilType
<1>3. /\ \A w \in writes : w[1] \in ds
      /\ \A r \in Requests : press[r].pc \in AtDraft => press[r].of \in ds
  BY DEF AtDraft
<1> HIDE DEF ds
<1>4. /\ held' = [t \in Drafts |-> IF held[t] = Queue!None THEN Queue!None ELSE "away"]
      /\ writing' = {} /\ writes' = {} /\ page' = Queue!NoPage /\ UNCHANGED <<rows, inbox, entries>>
      /\ press' = [r \in Requests |-> IF press[r].pc = "idle" THEN Queue!Idle ELSE [press[r] EXCEPT !.pc = "done"]]
      /\ session' \in {"gone", "down"} /\ (session \in {"ended", "gone"} => session' = "gone")
  BY DEF Queue!Restart, Queue!OnAir
<1>5. held' \in [Drafts -> HeldAs] /\ \A t \in Drafts : held'[t] = IF held[t] = Queue!None THEN Queue!None ELSE "away"
  BY <1>4 DEF HeldAs, RowStatuses, Queue!None
<1>6. Queue!Idle \in Pressing /\ Queue!Idle.pc = "idle" /\ Queue!NoPage \in Asked
  BY DEF Queue!Idle, Pressing, Queue!None, Queue!NoPage, Asked
<1>7. \A r \in Requests : [press[r] EXCEPT !.pc = "done"] \in Pressing /\ [press[r] EXCEPT !.pc = "done"].pc = "done"
  <2> TAKE r \in Requests
  <2>1. press[r] \in Pressing
    BY DEF QueueTypes
  <2> QED BY <2>1 DEF Pressing
<1>8. /\ press' \in [Requests -> Pressing]
      /\ \A r \in Requests : /\ press[r].pc = "idle" => press'[r] = Queue!Idle
                             /\ press[r].pc # "idle" => press'[r] = [press[r] EXCEPT !.pc = "done"]
  BY <1>4, <1>6, <1>7
<1>9. \A r \in Requests : press'[r].pc = IF press[r].pc = "idle" THEN "idle" ELSE "done"
  BY <1>6, <1>7, <1>8
<1>10. QueueTypes'
  BY <1>2, <1>4, <1>5, <1>6, <1>8, <1>9 DEF QueueTypes, AtDraft, Queue!Watched
<1> QED BY <1>2, <1>3, <1>4, <1>5, <1>8, <1>9, <1>10 DEF RowsStay

LEMMA PressFollowUpDoes ==
  ASSUME QueueTypes, NEW r \in Requests, Queue!PressFollowUp(r)
  PROVE  /\ QueueTypes' /\ RowsStay /\ HeldStays /\ press[r].pc = "idle"
         /\ press'[r].pc = "done" /\ \A q \in Requests \ {r} : press'[q] = press[q]
         /\ UNCHANGED <<session, held, writing, writes, rows, entries, page, spent>>
<1>1. PICK f \in FollowUps, kind \in {"sent", "dismissed"} :
        /\ press[r].pc = "idle" /\ Queue!Found(r, kind, f, "done")
        /\ inbox' = [inbox EXCEPT ![f] = IF kind = "sent" /\ @ = "dismissed" THEN @ ELSE kind]
        /\ UNCHANGED <<session, held, writing, writes, rows, entries, page, spent>>
  BY DEF Queue!PressFollowUp
<1>2. /\ press' \in [Requests -> Pressing] /\ press'[r].pc = "done"
      /\ \A q \in Requests : press'[q].pc \in AtDraft => press'[q].of \in Drafts
      /\ \A q \in Requests \ {r} : press'[q] = press[q]
  BY <1>1, FoundType
<1>3. inbox' \in [FollowUps -> {"open", "sent", "dismissed"}]
  BY <1>1 DEF QueueTypes
<1> QED BY <1>1, <1>2, <1>3 DEF QueueTypes, RowsStay, HeldStays

LEMMA PressLiveDoes ==
  ASSUME QueueTypes, NEW r \in Requests, Queue!PressLive(r)
  PROVE  /\ QueueTypes' /\ RowsStay /\ HeldStays /\ press[r].pc = "idle"
         /\ UNCHANGED <<session, held, writing, writes, rows, inbox, entries, page, spent>>
         /\ \A q \in Requests \ {r} : press'[q] = press[q]
         /\ \E t \in Drafts :
              /\ Queue!OfRuntime(t) /\ press'[r].of = t
              /\ press'[r].pc = IF held[t] \in {"sent", "blocked"} THEN "done" ELSE "send"
              /\ press'[r].retry => Queue!Writes(t) = {} /\ \E q \in Requests : <<q, t>> \in entries
<1>1. PICK t \in Drafts :
        /\ press[r].pc = "idle" /\ Queue!OfRuntime(t)
        /\ Queue!Found(r, "sent", t, IF held[t] \in {"sent", "blocked"} THEN "done" ELSE "send")
        /\ UNCHANGED <<session, held, writing, writes, rows, inbox, entries, page, spent>>
  BY DEF Queue!PressLive
<1> DEFINE to == IF held[t] \in {"sent", "blocked"} THEN "done" ELSE "send"
<1>2. to \in {"send", "write", "done"}
  OBVIOUS
<1>3. Queue!Found(r, "sent", t, to)
  BY <1>1
<1> HIDE DEF to
<1>4. /\ press' \in [Requests -> Pressing] /\ press'[r].pc = to /\ press'[r].of = t
      /\ \A q \in Requests : press'[q].pc \in AtDraft => press'[q].of \in Drafts
      /\ press'[r].retry => Queue!Writes(t) = {} /\ \E q \in Requests : <<q, t>> \in entries
      /\ \A q \in Requests \ {r} : press'[q] = press[q]
  <2>1. t \in Drafts \cup FollowUps /\ t \in Drafts
    OBVIOUS
  <2> QED BY <1>2, <1>3, <2>1, FoundType
<1>5. QueueTypes'
  BY <1>1, <1>4 DEF QueueTypes
<1> QED BY <1>1, <1>4, <1>5 DEF QueueTypes, RowsStay, HeldStays, to

LEMMA DismissLiveDoes ==
  ASSUME QueueTypes, NEW r \in Requests, Queue!DismissLive(r)
  PROVE  /\ QueueTypes' /\ RowsStay /\ HeldStays /\ press[r].pc = "idle"
         /\ UNCHANGED <<session, writing, rows, inbox, entries, page>>
         /\ \A q \in Requests \ {r} : press'[q] = press[q]
         /\ \E t \in Drafts :
              /\ Queue!OfRuntime(t) /\ press'[r].of = t /\ press'[r].pc = "done"
              /\ \A e \in Drafts \ {t} : held'[e] = held[e]
              /\ held'[t] = "dismissed"
              /\ writes' = writes \cup {<<t, "dismissed", Queue!None>>}
              /\ spent'.spoiled = spent.spoiled \cup {t}
<1>1. PICK t \in Drafts :
        /\ press[r].pc = "idle" /\ Queue!OfRuntime(t)
        /\ Queue!Found(r, "dismissed", t, "done")
        /\ held' = [held EXCEPT ![t] = "dismissed"]
        /\ writes' = writes \cup {<<t, "dismissed", Queue!None>>}
        /\ spent' = [spent EXCEPT !.spoiled = @ \cup {t}]
        /\ UNCHANGED <<session, writing, rows, inbox, entries, page>>
  BY DEF Queue!DismissLive
<1>2. /\ press' \in [Requests -> Pressing] /\ press'[r].pc = "done" /\ press'[r].of = t
      /\ \A q \in Requests : press'[q].pc \in AtDraft => press'[q].of \in Drafts
      /\ \A q \in Requests \ {r} : press'[q] = press[q]
  BY <1>1, FoundType
<1>3. spent' \in Bounds /\ spent'.spoiled = spent.spoiled \cup {t}
  BY <1>1, SpoilType
<1>4. held' \in [Drafts -> HeldAs] /\ held'[t] = "dismissed" /\ \A e \in Drafts \ {t} : held'[e] = held[e]
  BY <1>1, HeldType DEF HeldAs, RowStatuses
<1>5. writes' \subseteq Drafts \X Queue!Card \X (Requests \cup {Queue!None})
  BY <1>1 DEF QueueTypes, Queue!Card
<1>6. QueueTypes'
  BY <1>1, <1>2, <1>3, <1>4, <1>5 DEF QueueTypes
<1> QED BY <1>1, <1>2, <1>3, <1>4, <1>6 DEF RowsStay, HeldStays, Queue!Card

LEMMA SendDoes ==
  ASSUME QueueTypes, NEW r \in Requests, Queue!Send(r)
  PROVE  /\ QueueTypes' /\ RowsStay /\ HeldStays /\ press[r].pc = "send"
         /\ UNCHANGED <<session, writing, writes, rows, inbox, entries, page, spent>>
         /\ press'[r] = [press[r] EXCEPT !.pc = "ledger"] /\ press[r].of \in Drafts
         /\ \A q \in Requests \ {r} : press'[q] = press[q]
         /\ held'[press[r].of] = "sent" /\ \A e \in Drafts \ {press[r].of} : held'[e] = held[e]
<1> DEFINE t == press[r].of
<1>1. /\ press[r].pc = "send" /\ held' = [held EXCEPT ![t] = "sent"] /\ Queue!Goto(r, "ledger")
      /\ UNCHANGED <<session, writing, writes, rows, inbox, entries, page, spent>>
  BY DEF Queue!Send
<1>2. t \in Drafts
  BY <1>1 DEF QueueTypes, AtDraft
<1>3. /\ press' \in [Requests -> Pressing] /\ press'[r] = [press[r] EXCEPT !.pc = "ledger"]
      /\ \A q \in Requests : press'[q].pc \in AtDraft => press'[q].of \in Drafts
      /\ \A q \in Requests \ {r} : press'[q] = press[q]
  BY <1>1, GotoType DEF AtDraft
<1>4. held' \in [Drafts -> HeldAs] /\ held'[t] = "sent" /\ \A e \in Drafts \ {t} : held'[e] = held[e]
  BY <1>1, <1>2, HeldType DEF HeldAs, RowStatuses
<1>5. QueueTypes'
  BY <1>1, <1>3, <1>4 DEF QueueTypes
<1> QED BY <1>1, <1>2, <1>3, <1>4, <1>5 DEF RowsStay, HeldStays, Queue!Card

LEMMA LedgerDoes ==
  ASSUME QueueTypes, NEW r \in Requests, Queue!Ledger(r)
  PROVE  /\ QueueTypes' /\ RowsStay /\ HeldStays /\ press[r].pc = "ledger"
         /\ UNCHANGED <<session, held, writing, rows, inbox, page>>
         /\ press'[r] = [press[r] EXCEPT !.pc = "done"] /\ press[r].of \in Drafts
         /\ \A q \in Requests \ {r} : press'[q] = press[q]
         /\ \/ /\ entries' = entries \cup {<<r, press[r].of>>}
               /\ writes' = writes \cup {<<press[r].of, "sent", r>>} /\ spent' = spent
            \/ UNCHANGED <<entries, writes>> /\ spent'.spoiled = spent.spoiled \cup {press[r].of}
<1> DEFINE t == press[r].of
<1>1. /\ press[r].pc = "ledger" /\ Queue!Goto(r, "done")
      /\ \/ entries' = entries \cup {<<r, t>>} /\ writes' = writes \cup {<<t, "sent", r>>} /\ spent' = spent
         \/ Queue!Faulted({t}) /\ UNCHANGED <<entries, writes>>
      /\ UNCHANGED <<session, held, writing, rows, inbox, page>>
  BY DEF Queue!Ledger
<1>2. t \in Drafts
  BY <1>1 DEF QueueTypes, AtDraft
<1>3. /\ press' \in [Requests -> Pressing] /\ press'[r] = [press[r] EXCEPT !.pc = "done"]
      /\ \A q \in Requests : press'[q].pc \in AtDraft => press'[q].of \in Drafts
      /\ \A q \in Requests \ {r} : press'[q] = press[q]
  BY <1>1, GotoType DEF AtDraft
<1>4. CASE entries' = entries \cup {<<r, t>>} /\ writes' = writes \cup {<<t, "sent", r>>} /\ spent' = spent
  <2>1. entries' \subseteq Requests \X Drafts /\ writes' \subseteq Drafts \X Queue!Card \X (Requests \cup {Queue!None})
    BY <1>2, <1>4 DEF QueueTypes, Queue!Card
  <2>2. QueueTypes'
    BY <1>1, <1>3, <1>4, <2>1 DEF QueueTypes
  <2> QED BY <1>1, <1>2, <1>3, <1>4, <2>2 DEF RowsStay, HeldStays
<1>5. CASE Queue!Faulted({t}) /\ UNCHANGED <<entries, writes>>
  <2>1. spent' \in Bounds /\ spent'.spoiled = spent.spoiled \cup {t}
    BY <1>2, <1>5, SpoilType DEF Queue!Faulted
  <2>2. QueueTypes'
    BY <1>1, <1>3, <1>5, <2>1 DEF QueueTypes
  <2> QED BY <1>1, <1>2, <1>3, <1>5, <2>1, <2>2 DEF RowsStay, HeldStays
<1> QED BY <1>1, <1>4, <1>5

LEMMA LookDoes ==
  ASSUME QueueTypes, NEW r \in Requests, Queue!Look(r)
  PROVE  /\ QueueTypes' /\ RowsStay /\ HeldStays /\ press[r].pc = "idle"
         /\ UNCHANGED <<session, held, writing, writes, rows, inbox, entries, page, spent>>
         /\ \A q \in Requests \ {r} : press'[q] = press[q]
         /\ \E t \in Drafts :
              /\ ~Queue!OfRuntime(t) /\ rows[t].status \in Queue!Card
              /\ press'[r].of = t /\ press'[r].pc \in {"write", "done"}
              /\ rows[t].status # "open" => press'[r].pc = "done" \/ press'[r].kind = "dismissed"
              /\ press'[r].retry => Queue!Writes(t) = {} /\ \E q \in Requests : <<q, t>> \in entries
<1>1. PICK t \in Drafts, kind \in {"sent", "dismissed"} :
        /\ press[r].pc = "idle" /\ ~Queue!OfRuntime(t) /\ rows[t].status \in Queue!Card
        /\ Queue!Found(r, kind, t, IF \/ rows[t].status = "sent"
                                      \/ kind = "sent" /\ rows[t].status # "open" THEN "done" ELSE "write")
        /\ UNCHANGED <<session, held, writing, writes, rows, inbox, entries, page, spent>>
  BY DEF Queue!Look
<1>2. PICK to \in {"write", "done"} :
        Queue!Found(r, kind, t, to) /\ (rows[t].status # "open" => to = "done" \/ kind = "dismissed")
  BY <1>1
<1>3. Queue!Found(r, kind, t, to)
  BY <1>2
<1>4. /\ press' \in [Requests -> Pressing] /\ press'[r].pc = to /\ press'[r].of = t /\ press'[r].kind = kind
      /\ \A q \in Requests : press'[q].pc \in AtDraft => press'[q].of \in Drafts
      /\ press'[r].retry => Queue!Writes(t) = {} /\ \E q \in Requests : <<q, t>> \in entries
      /\ \A q \in Requests \ {r} : press'[q] = press[q]
  <2>1. t \in Drafts \cup FollowUps /\ t \in Drafts /\ to \in {"send", "write", "done"}
    BY <1>2
  <2>2. /\ press' \in [Requests -> Pressing]
        /\ \A q \in Requests : press'[q].pc \in AtDraft => press'[q].of \in Drafts
        /\ press'[r].kind = kind /\ press'[r].of = t /\ press'[r].pc = to
        /\ press'[r].retry =>
             Queue!Writes(t) = {} /\ \E q \in Requests : press[q].pc = "done" /\ <<q, t>> \in entries
        /\ \A q \in Requests \ {r} : press'[q] = press[q]
    BY <1>3, <2>1, FoundType, SMTT(60)
  <2> QED BY <2>2
<1>5. QueueTypes'
  BY <1>1, <1>4 DEF QueueTypes
<1> QED BY <1>1, <1>2, <1>4, <1>5 DEF QueueTypes, RowsStay, HeldStays

LEMMA WriteSentDoes ==
  ASSUME QueueTypes, NEW r \in Requests, Queue!WriteSent(r)
  PROVE  /\ QueueTypes' /\ RowsStay /\ HeldStays /\ press[r].pc = "write" /\ press[r].kind = "sent"
         /\ UNCHANGED <<session, held, writing, writes, inbox, entries, page, spent>>
         /\ press'[r] = [press[r] EXCEPT !.pc = "record"] /\ press[r].of \in Drafts
         /\ \A q \in Requests \ {r} : press'[q] = press[q]
         /\ \A e \in Drafts \ {press[r].of} : rows'[e] = rows[e]
         /\ IF rows[press[r].of].status \in {"blocked", "dismissed"} THEN rows' = rows
            ELSE rows'[press[r].of].status = "sent"
         /\ \A e \in Drafts : rows[e].sentAt # Queue!None => rows'[e].sentAt = rows[e].sentAt
<1> DEFINE t == press[r].of
           row == [status |-> "sent", sentAt |-> IF rows[t].sentAt = Queue!None THEN r ELSE rows[t].sentAt]
<1>1. /\ press[r].pc = "write" /\ press[r].kind = "sent" /\ Queue!Goto(r, "record")
      /\ rows' = IF rows[t].status \in {"blocked", "dismissed"} THEN rows ELSE [rows EXCEPT ![t] = row]
      /\ UNCHANGED <<session, held, writing, writes, inbox, entries, page, spent>>
  BY DEF Queue!WriteSent
<1>2. t \in Drafts
  BY <1>1 DEF QueueTypes, AtDraft
<1>3. /\ press' \in [Requests -> Pressing] /\ press'[r] = [press[r] EXCEPT !.pc = "record"]
      /\ \A q \in Requests : press'[q].pc \in AtDraft => press'[q].of \in Drafts
      /\ \A q \in Requests \ {r} : press'[q] = press[q]
  BY <1>1, GotoType DEF AtDraft
<1>4. row \in Record0 /\ row.status = "sent" /\ (rows[t].sentAt # Queue!None => row.sentAt = rows[t].sentAt)
  BY <1>2 DEF QueueTypes, Record0, RowStatuses
<1> HIDE DEF row
<1>5. /\ rows' \in [Drafts -> Record0] /\ \A e \in Drafts \ {t} : rows'[e] = rows[e]
      /\ IF rows[t].status \in {"blocked", "dismissed"} THEN rows' = rows ELSE rows'[t] = row
  BY <1>1, <1>2, <1>4 DEF QueueTypes
<1>6. QueueTypes'
  BY <1>1, <1>3, <1>5 DEF QueueTypes
<1> QED BY <1>1, <1>2, <1>3, <1>4, <1>5, <1>6 DEF RowsStay, HeldStays, Queue!Card

LEMMA RecordDoes ==
  ASSUME QueueTypes, NEW r \in Requests, Queue!Record(r)
  PROVE  /\ QueueTypes' /\ RowsStay /\ HeldStays /\ press[r].pc = "record"
         /\ UNCHANGED <<session, held, writing, writes, rows, inbox, page>> /\ spent'.spoiled = spent.spoiled
         /\ press'[r] = [press[r] EXCEPT !.pc = "done"] /\ press[r].of \in Drafts
         /\ \A q \in Requests \ {r} : press'[q] = press[q]
         /\ entries' = entries \cup {<<r, press[r].of>>} \/ entries' = entries
<1> DEFINE t == press[r].of
<1>1. /\ press[r].pc = "record" /\ Queue!Goto(r, "done")
      /\ entries' = entries \cup {<<r, t>>} \/ entries' = entries
      /\ spent' = IF entries' = entries THEN [spent EXCEPT !.faults = @ + 1] ELSE spent
      /\ UNCHANGED <<session, held, writing, writes, rows, inbox, page>>
  BY DEF Queue!Record
<1>2. t \in Drafts
  BY <1>1 DEF QueueTypes, AtDraft
<1>3. /\ press' \in [Requests -> Pressing] /\ press'[r] = [press[r] EXCEPT !.pc = "done"]
      /\ \A q \in Requests : press'[q].pc \in AtDraft => press'[q].of \in Drafts
      /\ \A q \in Requests \ {r} : press'[q] = press[q]
  BY <1>1, GotoType DEF AtDraft
<1>4. entries' \subseteq Requests \X Drafts
  BY <1>1, <1>2 DEF QueueTypes
<1>5. spent' \in Bounds /\ spent'.spoiled = spent.spoiled
  BY <1>1, SpoilType DEF QueueTypes
<1>6. QueueTypes'
  BY <1>1, <1>3, <1>4, <1>5 DEF QueueTypes
<1> QED BY <1>1, <1>2, <1>3, <1>5, <1>6 DEF RowsStay, HeldStays

LEMMA WriteDismissedDoes ==
  ASSUME QueueTypes, NEW r \in Requests, Queue!WriteDismissed(r)
  PROVE  /\ QueueTypes' /\ RowsStay /\ HeldStays /\ press[r].pc = "write" /\ press[r].kind = "dismissed"
         /\ UNCHANGED <<session, held, writing, writes, inbox, entries, page, spent>>
         /\ press'[r] = [press[r] EXCEPT !.pc = "done"] /\ press[r].of \in Drafts
         /\ \A q \in Requests \ {r} : press'[q] = press[q]
         /\ \A e \in Drafts \ {press[r].of} : rows'[e] = rows[e]
         /\ rows'[press[r].of].status = IF rows[press[r].of].status = "sent" THEN "sent" ELSE "dismissed"
         /\ rows'[press[r].of].sentAt = rows[press[r].of].sentAt
<1> DEFINE t == press[r].of
           row == [rows[t] EXCEPT !.status = IF @ = "sent" THEN @ ELSE "dismissed"]
<1>1. /\ press[r].pc = "write" /\ press[r].kind = "dismissed" /\ Queue!Goto(r, "done")
      /\ rows' = [rows EXCEPT ![t] = row]
      /\ UNCHANGED <<session, held, writing, writes, inbox, entries, page, spent>>
  BY DEF Queue!WriteDismissed
<1>2. t \in Drafts
  BY <1>1 DEF QueueTypes, AtDraft
<1>3. /\ press' \in [Requests -> Pressing] /\ press'[r] = [press[r] EXCEPT !.pc = "done"]
      /\ \A q \in Requests : press'[q].pc \in AtDraft => press'[q].of \in Drafts
      /\ \A q \in Requests \ {r} : press'[q] = press[q]
  BY <1>1, GotoType DEF AtDraft
<1>4. rows[t] \in Record0
  BY <1>2 DEF QueueTypes
<1>5. row \in Record0 /\ row.sentAt = rows[t].sentAt
      /\ row.status = IF rows[t].status = "sent" THEN "sent" ELSE "dismissed"
  BY <1>4 DEF Record0, RowStatuses
<1> HIDE DEF row
<1>6. rows' \in [Drafts -> Record0] /\ rows'[t] = row /\ \A e \in Drafts \ {t} : rows'[e] = rows[e]
  BY <1>1, <1>2, <1>5 DEF QueueTypes
<1>7. QueueTypes'
  BY <1>1, <1>3, <1>6 DEF QueueTypes
<1> QED BY <1>1, <1>2, <1>3, <1>5, <1>6, <1>7 DEF RowsStay, HeldStays, Queue!Card

-----------------------------------------------------------------------------
(* The counts of the pages.  An open card is known by its draft. *)
OpenIn(cards) == {t \in Drafts : <<t, "open">> \in cards}

LEMMA OpenCount ==
  ASSUME IsFiniteSet(Drafts), NEW cards \in SUBSET Cards
  PROVE  Queue!Open(cards) = Cardinality(OpenIn(cards)) /\ IsFiniteSet(OpenIn(cards))
<1> DEFINE shown == {c \in cards : Queue!isWaiting(c[2])}
           f == [t \in OpenIn(cards) |-> <<t, "open">>]
<1>1. IsFiniteSet(OpenIn(cards))
  BY FS_Subset DEF OpenIn
<1>2. \A c \in shown : c = <<c[1], "open">> /\ c[1] \in OpenIn(cards)
  BY DEF Cards, Queue!isWaiting, OpenIn
<1>3. \A t \in OpenIn(cards) : <<t, "open">> \in shown
  BY DEF OpenIn, Queue!isWaiting
<1>4. f \in Bijection(OpenIn(cards), shown)
  <2>1. f \in [OpenIn(cards) -> shown]
    BY <1>3
  <2>2. \A a, b \in OpenIn(cards) : f[a] = f[b] => a = b
    OBVIOUS
  <2>3. \A c \in shown : \E t \in OpenIn(cards) : f[t] = c
    BY <1>2
  <2> QED BY <2>1, <2>2, <2>3 DEF Bijection, Injection, Surjection, IsInjective
<1>5. ExistsBijection(OpenIn(cards), shown)
  BY <1>4 DEF ExistsBijection
<1>6. Cardinality(shown) = Cardinality(OpenIn(cards))
  BY <1>1, <1>5, FS_Bijection
<1> QED BY <1>1, <1>6, SameCount DEF Queue!Open

LEMMA BothCounted ==
  ASSUME Queue!DraftsAssumption
  PROVE  /\ Cardinality(Drafts) \in Nat /\ Cardinality(FollowUps) \in Nat
         /\ Cardinality(Drafts \cup FollowUps) = Cardinality(Drafts) + Cardinality(FollowUps)
<1>1. Cardinality(Drafts) \in Nat /\ Cardinality(FollowUps) \in Nat
  BY FS_CardinalityType, DraftsAreFinite
<1>2. Cardinality(Drafts \cup FollowUps)
        = Cardinality(Drafts) + Cardinality(FollowUps) - Cardinality(Drafts \cap FollowUps)
  BY FS_Union, DraftsAreFinite
<1>3. Cardinality(Drafts \cap FollowUps) = 0
  BY FS_EmptySet, DraftsAreFinite
<1> QED BY <1>1, <1>2, <1>3

LEMMA BandBounds ==
  ASSUME Queue!DraftsAssumption, NEW live \in SUBSET Cards, NEW stored \in SUBSET Cards, NEW waiting \in SUBSET FollowUps
  PROVE  /\ Queue!nowBand(live, stored, waiting) \in Nat
         /\ Queue!nowBand(live, stored, waiting) <= 2 * Cardinality(Drafts \cup FollowUps)
         /\ (\A c \in live : c[1] \in Queue!stillLive) =>
              Queue!nowBand(live, stored, waiting) <= Cardinality(Drafts \cup FollowUps)
<1> DEFINE rest == {c \in stored : c[1] \notin Queue!stillLive}
           A == OpenIn(live)
           B == OpenIn(rest)
<1>1. /\ Queue!Open(live) = Cardinality(A) /\ Queue!Open(rest) = Cardinality(B)
      /\ IsFiniteSet(A) /\ IsFiniteSet(B) /\ A \subseteq Drafts /\ B \subseteq Drafts
  <2>1. rest \in SUBSET Cards /\ IsFiniteSet(Drafts)
    BY DraftsAreFinite
  <2> QED BY <2>1, OpenCount DEF OpenIn
<1>2. /\ Cardinality(A) \in Nat /\ Cardinality(A) <= Cardinality(Drafts)
      /\ Cardinality(B) \in Nat /\ Cardinality(B) <= Cardinality(Drafts)
  BY <1>1, FS_CardinalityType, FS_Subset, DraftsAreFinite
<1>3. Cardinality(waiting) \in Nat /\ Cardinality(waiting) <= Cardinality(FollowUps)
  BY FS_CardinalityType, FS_Subset, DraftsAreFinite
<1>4. ASSUME \A c \in live : c[1] \in Queue!stillLive
      PROVE  Cardinality(A) + Cardinality(B) <= Cardinality(Drafts)
  <2>1. A \cap B = {}
    <3> SUFFICES ASSUME NEW t \in A, t \in B PROVE FALSE
      OBVIOUS
    <3>1. <<t, "open">> \in live /\ <<t, "open">> \in rest /\ <<t, "open">>[1] = t
      BY DEF OpenIn
    <3> QED BY <1>4, <3>1
  <2>2. Cardinality(A \cup B) = Cardinality(A) + Cardinality(B) - Cardinality(A \cap B)
    BY <1>1, FS_Union
  <2>3. Cardinality(A \cap B) = 0
    BY <2>1, FS_EmptySet
  <2>4. Cardinality(A \cup B) <= Cardinality(Drafts)
    <3>1. A \cup B \in SUBSET Drafts
      BY <1>1
    <3> QED BY <3>1, FS_Subset, DraftsAreFinite
  <2> QED BY <1>2, <2>2, <2>3, <2>4
<1>5. Queue!nowBand(live, stored, waiting) = Cardinality(A) + Cardinality(B) + Cardinality(waiting)
  BY <1>1, SameCount DEF Queue!nowBand
<1> HIDE DEF A, B, rest
<1> QED BY <1>2, <1>3, <1>4, <1>5, BothCounted

(* Whose cards the two halves are. *)
LEMMA OfHalves ==
  /\ Queue!Of(Queue!persistedAsyncDrafts) = {t \in Drafts : rows[t].status \in Queue!Card}
  /\ Queue!Of(Queue!draftsFromSession) = {t \in Drafts : session \in Queue!OnAir /\ held[t] \in Queue!Card}
<1>1. ASSUME NEW t PROVE t \in Queue!Of(Queue!persistedAsyncDrafts) <=> t \in Drafts /\ rows[t].status \in Queue!Card
  <2>1. ASSUME t \in Drafts, rows[t].status \in Queue!Card PROVE t \in Queue!Of(Queue!persistedAsyncDrafts)
    <3>1. <<t, rows[t].status>> \in Queue!persistedAsyncDrafts /\ <<t, rows[t].status>>[1] = t
      BY <2>1 DEF Queue!persistedAsyncDrafts
    <3> QED BY <3>1 DEF Queue!Of
  <2>2. ASSUME t \in Queue!Of(Queue!persistedAsyncDrafts) PROVE t \in Drafts /\ rows[t].status \in Queue!Card
    <3>1. PICK c \in Queue!persistedAsyncDrafts : t = c[1]
      BY <2>2 DEF Queue!Of
    <3> QED BY <3>1 DEF Queue!persistedAsyncDrafts
  <2> QED BY <2>1, <2>2
<1>2. ASSUME NEW t PROVE t \in Queue!Of(Queue!draftsFromSession) <=> t \in Drafts /\ session \in Queue!OnAir /\ held[t] \in Queue!Card
  <2>1. ASSUME t \in Drafts, session \in Queue!OnAir, held[t] \in Queue!Card PROVE t \in Queue!Of(Queue!draftsFromSession)
    <3>1. <<t, held[t]>> \in Queue!draftsFromSession /\ <<t, held[t]>>[1] = t
      BY <2>1 DEF Queue!draftsFromSession
    <3> QED BY <3>1 DEF Queue!Of
  <2>2. ASSUME t \in Queue!Of(Queue!draftsFromSession) PROVE t \in Drafts /\ session \in Queue!OnAir /\ held[t] \in Queue!Card
    <3>1. PICK c \in Queue!draftsFromSession : t = c[1]
      BY <2>2 DEF Queue!Of
    <3> QED BY <3>1 DEF Queue!draftsFromSession
  <2> QED BY <2>1, <2>2
<1> QED BY <1>1, <1>2

(* The moment's own count: what the runtime holds hides the same rows from  *)
(* home that it hides from the list.                                        *)
LEMMA HomeAgreesNow == Queue!DraftsAssumption /\ QueueTypes => Queue!HomeAgrees
<1> SUFFICES ASSUME Queue!DraftsAssumption, QueueTypes, session # "ended", \A t \in Queue!RowsOpen : held[t] # "drafting"
             PROVE  Queue!nowBand(Queue!draftsFromSession, Queue!persistedAsyncDrafts, Queue!Waiting)
                      = Queue!Open(Queue!draftQueue(Queue!draftsFromSession, Queue!persistedAsyncDrafts)) + Cardinality(Queue!Waiting)
  BY SameCount DEF Queue!HomeAgrees
<1> DEFINE live == Queue!draftsFromSession
           stored == Queue!persistedAsyncDrafts
           both == Queue!draftQueue(live, stored)
           rest == {c \in stored : c[1] \notin Queue!stillLive}
           A == OpenIn(live)
           B == OpenIn(rest)
           C == OpenIn(both)
<1>1. /\ live \in SUBSET Cards /\ stored \in SUBSET Cards /\ rest \in SUBSET Cards /\ both \in SUBSET Cards
  BY DEF Queue!draftsFromSession, Queue!persistedAsyncDrafts, Queue!draftQueue, Cards
<1>2. /\ Queue!Open(live) = Cardinality(A) /\ IsFiniteSet(A) /\ Queue!Open(rest) = Cardinality(B) /\ IsFiniteSet(B)
      /\ Queue!Open(both) = Cardinality(C)
  BY <1>1, OpenCount, DraftsAreFinite
<1>3. A = {t \in Drafts : session \in Queue!OnAir /\ held[t] = "open"}
  BY DEF OpenIn, Queue!draftsFromSession, Queue!Card
<1>4. B = {t \in Queue!RowsOpen : t \notin Queue!stillLive}
  BY DEF OpenIn, Queue!persistedAsyncDrafts, Queue!Card, Queue!RowsOpen, Queue!isWaiting
<1>5. C = A \cup {t \in Queue!RowsOpen : t \notin {e \in Drafts : session \in Queue!OnAir /\ held[e] \in Queue!Card}}
  <2>1. C = A \cup {t \in OpenIn(stored) : t \notin Queue!Of(live)}
    <3>1. \A t \in Drafts : <<t, "open">>[1] = t
      OBVIOUS
    <3> QED BY <3>1 DEF OpenIn, Queue!draftQueue
  <2>2. OpenIn(stored) = Queue!RowsOpen
    BY DEF OpenIn, Queue!persistedAsyncDrafts, Queue!Card, Queue!RowsOpen, Queue!isWaiting
  <2> HIDE DEF live, stored, both, A, C
  <2>3. Queue!Of(live) = {e \in Drafts : session \in Queue!OnAir /\ held[e] \in Queue!Card}
    BY OfHalves DEF live
  <2> QED BY <2>1, <2>2, <2>3
<1>6. session \in Queue!Watched => session \in Queue!OnAir
  BY DEF Queue!Watched, Queue!OnAir
<1>7. Queue!OnAir \subseteq Queue!Watched
  BY DEF Queue!Watched, Queue!OnAir
<1>8. Queue!stillLive \cap Queue!RowsOpen = {e \in Drafts : session \in Queue!OnAir /\ held[e] \in Queue!Card} \cap Queue!RowsOpen
  BY <1>6, <1>7 DEF Queue!stillLive, Queue!RowsOpen
<1>9. C = A \cup B /\ A \cap B = {}
  <2>1. C = A \cup B
    BY <1>4, <1>5, <1>8
  <2>2. A \subseteq Queue!stillLive
    BY <1>3, <1>7 DEF Queue!stillLive, Queue!Card
  <2> QED BY <1>4, <2>1, <2>2
<1> HIDE DEF A, B, C
<1>10. Cardinality(C) = Cardinality(A) + Cardinality(B) - Cardinality(A \cap B) /\ Cardinality(A \cap B) = 0
  BY <1>2, <1>9, FS_Union, FS_EmptySet
<1>11. Cardinality(A) \in Nat /\ Cardinality(B) \in Nat
  BY <1>2, FS_CardinalityType
<1>12. Queue!Open(both) = Queue!Open(live) + Queue!Open(rest)
  BY <1>2, <1>10, <1>11
<1> QED BY <1>12, SameCount DEF Queue!nowBand

-----------------------------------------------------------------------------
(* A page that is put together: what it has read so far. *)
OneCardEach(cards) == \A c, e \in cards : c[1] = e[1] => c = e

PageInv ==
  /\ OneCardEach(page.live) /\ OneCardEach(page.stored)
  /\ page.pc \in {"list", "listLive"} => \A t \in page.before : rows[t].status \in Queue!Card
  /\ page.pc \in {"listStored", "answerList"} => page.before \subseteq Queue!Of(page.stored)
  /\ page.pc = "listed" => page.before \subseteq Queue!Of(page.live)
  /\ page.pc \in {"homeLive", "answerHome"} /\ page.steady => \A c \in page.live : c[1] \in Queue!stillLive
  /\ page.count <= 2 * Cardinality(Drafts \cup FollowUps)
  /\ page.steady => page.count <= Cardinality(Drafts \cup FollowUps)

LEMMA NoPageInv ==
  ASSUME Queue!DraftsAssumption, page' = Queue!NoPage PROVE PageInv'
<1>1. page'.live = {} /\ page'.stored = {} /\ page'.pc = "idle" /\ ~page'.steady /\ page'.count = 0
  BY DEF Queue!NoPage
<1>2. Cardinality(Drafts \cup FollowUps) \in Nat
  BY BothCounted
<1> QED BY <1>1, <1>2 DEF PageInv, OneCardEach

LEMMA PageStays ==
  ASSUME QueueTypes, PageInv, RowsStay,
         \/ page' = page /\ HeldStays /\ session' = session
         \/ page' = [page EXCEPT !.steady = FALSE]
  PROVE  PageInv'
<1>1. CASE page' = page /\ HeldStays /\ session' = session
  <2>1. \A t \in Queue!stillLive : t \in Queue!stillLive'
    BY <1>1 DEF Queue!stillLive, HeldStays
  <2>2. page.before \subseteq Drafts
    BY DEF QueueTypes, Asked
  <2> QED BY <1>1, <2>1, <2>2 DEF PageInv, RowsStay, Queue!Of, OneCardEach
<1>2. CASE page' = [page EXCEPT !.steady = FALSE]
  <2>1. /\ page'.pc = page.pc /\ page'.live = page.live /\ page'.stored = page.stored
        /\ page'.before = page.before /\ ~page'.steady /\ page'.count = page.count
    BY <1>2, PageType
  <2>2. page.before \subseteq Drafts
    BY DEF QueueTypes, Asked
  <2> QED BY <2>1, <2>2 DEF PageInv, RowsStay, Queue!Of, OneCardEach
<1> QED BY <1>1, <1>2

LEMMA HalvesTyped ==
  ASSUME QueueTypes
  PROVE  /\ Queue!draftsFromSession \in SUBSET Cards /\ OneCardEach(Queue!draftsFromSession)
         /\ Queue!persistedAsyncDrafts \in SUBSET Cards /\ OneCardEach(Queue!persistedAsyncDrafts)
         /\ Queue!Of(Queue!persistedAsyncDrafts) = {t \in Drafts : rows[t].status \in Queue!Card}
         /\ \A c \in Queue!draftsFromSession : c[1] \in Queue!stillLive
         /\ Queue!Waiting \in SUBSET FollowUps
<1>1. Queue!draftsFromSession \in SUBSET Cards /\ Queue!persistedAsyncDrafts \in SUBSET Cards
  BY DEF Queue!draftsFromSession, Queue!persistedAsyncDrafts, Cards
<1>2. OneCardEach(Queue!draftsFromSession) /\ OneCardEach(Queue!persistedAsyncDrafts)
  BY DEF Queue!draftsFromSession, Queue!persistedAsyncDrafts, OneCardEach
<1>3. Queue!Of(Queue!persistedAsyncDrafts) = {t \in Drafts : rows[t].status \in Queue!Card}
  BY OfHalves
<1>4. \A c \in Queue!draftsFromSession : c[1] \in Queue!stillLive
  BY DEF Queue!draftsFromSession, Queue!stillLive, Queue!OnAir, Queue!Watched
<1> QED BY <1>1, <1>2, <1>3, <1>4 DEF Queue!Waiting

LEMMA AskDoes ==
  ASSUME QueueTypes, PageInv, Queue!DraftsAssumption, Queue!Ask("list") \/ Queue!Ask("home")
  PROVE  QueueTypes' /\ PageInv' /\ UNCHANGED <<session, held, writing, writes, rows, inbox, press, entries>>
         /\ spent'.spoiled = spent.spoiled
<1>1. PICK kind \in {"list", "home"} : Queue!Ask(kind)
  OBVIOUS
<1> DEFINE before == IF kind = "list" THEN Queue!Of(Queue!persistedAsyncDrafts) ELSE {}
<1>2. /\ page' = [Queue!NoPage EXCEPT !.pc = kind, !.steady = kind = "home", !.before = before]
      /\ spent' = [spent EXCEPT !.pages = @ + 1]
      /\ UNCHANGED <<session, held, writing, writes, rows, inbox, press, entries>>
  BY <1>1 DEF Queue!Ask
<1>3. before \in SUBSET Drafts /\ \A t \in before : rows[t].status \in Queue!Card
  BY HalvesTyped
<1> HIDE DEF before
<1>4. /\ page' \in Asked /\ page'.pc = kind /\ page'.live = {} /\ page'.stored = {} /\ page'.before = before
      /\ page'.count = 0
  <2>1. Queue!NoPage \in Asked /\ Queue!NoPage.live = {} /\ Queue!NoPage.stored = {} /\ Queue!NoPage.count = 0
    BY DEF Queue!NoPage, Asked
  <2>2. (kind = "home") \in BOOLEAN
    OBVIOUS
  <2> HIDE DEF Queue!NoPage
  <2> QED BY <1>2, <1>3, <2>1, <2>2 DEF Asked
<1>5. spent' \in Bounds /\ spent'.spoiled = spent.spoiled
  BY <1>2, SpoilType
<1>6. QueueTypes'
  BY <1>2, <1>4, <1>5 DEF QueueTypes
<1>7. PageInv'
  BY <1>2, <1>3, <1>4, BothCounted DEF PageInv, OneCardEach
<1> QED BY <1>2, <1>5, <1>6, <1>7

LEMMA ReadSessionsDoes ==
  ASSUME QueueTypes, PageInv, Queue!ReadSessions
  PROVE  QueueTypes' /\ PageInv' /\ UNCHANGED <<session, held, writing, writes, rows, inbox, press, entries, spent>>
<1> DEFINE live == Queue!draftsFromSession
           waiting == Queue!Waiting
           to == CASE page.pc = "list" -> "listLive" [] page.pc = "home" -> "homeLive" [] OTHER -> "answerList"
<1>1. /\ page' = [page EXCEPT !.live = live, !.waiting = waiting, !.pc = to]
      /\ page.pc \in {"list", "home", "listStored"}
      /\ UNCHANGED <<session, held, writing, writes, rows, inbox, press, entries, spent>>
  BY DEF Queue!ReadSessions
<1>2. /\ page.pc = "list" => to = "listLive"
      /\ page.pc = "home" => to = "homeLive"
      /\ page.pc = "listStored" => to = "answerList"
  OBVIOUS
<1>3. /\ live \in SUBSET Cards /\ OneCardEach(live) /\ waiting \in SUBSET FollowUps
      /\ \A c \in live : c[1] \in Queue!stillLive
  BY HalvesTyped
<1> HIDE DEF live, waiting, to
<1>4. page \in Asked /\ to \in {"listLive", "homeLive", "answerList"}
  BY <1>1, <1>2 DEF QueueTypes
<1>5. /\ page' \in Asked /\ page'.pc = to /\ page'.live = live /\ page'.stored = page.stored
      /\ page'.before = page.before /\ page'.steady = page.steady /\ page'.count = page.count
  BY <1>1, <1>3, <1>4 DEF Asked
<1>6. QueueTypes'
  BY <1>1, <1>5 DEF QueueTypes
<1>7. PageInv'
  BY <1>1, <1>2, <1>3, <1>5 DEF PageInv, OneCardEach, Queue!Of, Queue!stillLive
<1> QED BY <1>1, <1>6, <1>7

LEMMA ReadStoredDoes ==
  ASSUME QueueTypes, PageInv, Queue!ReadStored
  PROVE  QueueTypes' /\ PageInv' /\ UNCHANGED <<session, held, writing, writes, rows, inbox, press, entries>>
         /\ spent'.spoiled = spent.spoiled
<1>1. PICK failed \in BOOLEAN :
        /\ spent' = IF failed THEN [spent EXCEPT !.faults = @ + 1] ELSE spent
        /\ page' = [page EXCEPT !.stored = IF failed THEN {} ELSE Queue!persistedAsyncDrafts,
             !.before = IF failed THEN {} ELSE @,
             !.pc = CASE page.pc = "list" -> "listStored" [] page.pc = "homeLive" -> "answerHome"
                      [] OTHER -> "answerList"]
  BY DEF Queue!ReadStored
<1> DEFINE stored == IF failed THEN {} ELSE Queue!persistedAsyncDrafts
           before == IF failed THEN {} ELSE page.before
           to == CASE page.pc = "list" -> "listStored" [] page.pc = "homeLive" -> "answerHome"
                   [] OTHER -> "answerList"
<1>2. /\ page' = [page EXCEPT !.stored = stored, !.before = before, !.pc = to]
      /\ page.pc \in {"list", "listLive", "homeLive"}
      /\ UNCHANGED <<session, held, writing, writes, rows, inbox, press, entries>>
  BY <1>1 DEF Queue!ReadStored
<1>3. /\ page.pc = "list" => to = "listStored"
      /\ page.pc = "homeLive" => to = "answerHome"
      /\ page.pc = "listLive" => to = "answerList"
  OBVIOUS
<1>4. page.before \in SUBSET Drafts
  BY DEF QueueTypes, Asked
<1>5. /\ stored \in SUBSET Cards /\ OneCardEach(stored) /\ before \in SUBSET Drafts
      /\ (\A t \in page.before : rows[t].status \in Queue!Card) => before \subseteq Queue!Of(stored)
  <2>1. CASE failed
    BY <2>1 DEF OneCardEach
  <2>2. CASE ~failed
    BY <1>4, <2>2, HalvesTyped
  <2> QED BY <2>1, <2>2
<1>6. spent' \in Bounds /\ spent'.spoiled = spent.spoiled
  BY <1>1, SpoilType DEF QueueTypes
<1> HIDE DEF stored, before, to
<1>7. page \in Asked /\ to \in {"listStored", "answerHome", "answerList"}
  BY <1>2, <1>3 DEF QueueTypes
<1>8. /\ page' \in Asked /\ page'.pc = to /\ page'.live = page.live /\ page'.stored = stored
      /\ page'.before = before /\ page'.steady = page.steady /\ page'.count = page.count
  BY <1>2, <1>5, <1>7 DEF Asked
<1>9. QueueTypes'
  BY <1>2, <1>6, <1>8 DEF QueueTypes
<1>10. PageInv'
  BY <1>2, <1>3, <1>5, <1>8 DEF PageInv, OneCardEach, Queue!Of, Queue!stillLive
<1> QED BY <1>2, <1>6, <1>9, <1>10

LEMMA AnswerListDoes ==
  ASSUME QueueTypes, PageInv, Queue!DraftsAssumption, Queue!AnswerList
  PROVE  QueueTypes' /\ PageInv' /\ UNCHANGED <<session, held, writing, writes, rows, inbox, press, entries, spent>>
<1> DEFINE cards == Queue!draftQueue(page.live, page.stored)
<1>1. /\ page' = [Queue!NoPage EXCEPT !.pc = "listed", !.live = cards, !.before = page.before]
      /\ page.pc = "answerList"
      /\ UNCHANGED <<session, held, writing, writes, rows, inbox, press, entries, spent>>
  BY DEF Queue!AnswerList
<1>2. page.live \in SUBSET Cards /\ page.stored \in SUBSET Cards /\ page.before \in SUBSET Drafts
  BY DEF QueueTypes, Asked
<1>3. cards \in SUBSET Cards
  BY <1>2 DEF Queue!draftQueue
<1>4. OneCardEach(cards)
  <2> SUFFICES ASSUME NEW c \in cards, NEW e \in cards, c[1] = e[1] PROVE c = e
    BY DEF OneCardEach
  <2>1. \A b \in page.live : b[1] \in Queue!Of(page.live)
    BY DEF Queue!Of
  <2> QED BY <2>1 DEF Queue!draftQueue, PageInv, OneCardEach
<1>5. page.before \subseteq Queue!Of(cards)
  <2> SUFFICES ASSUME NEW t \in page.before PROVE \E c \in cards : t = c[1]
    BY DEF Queue!Of
  <2>1. PICK c \in page.stored : t = c[1]
    BY <1>1 DEF PageInv, Queue!Of
  <2>2. CASE c[1] \in Queue!Of(page.live)
    BY <2>1, <2>2 DEF Queue!Of, Queue!draftQueue
  <2>3. CASE c[1] \notin Queue!Of(page.live)
    BY <2>1, <2>3 DEF Queue!draftQueue
  <2> QED BY <2>2, <2>3
<1> HIDE DEF cards
<1>6. /\ page' \in Asked /\ page'.pc = "listed" /\ page'.live = cards /\ page'.stored = {}
      /\ page'.before = page.before /\ ~page'.steady /\ page'.count = 0
  BY <1>1, <1>2, <1>3 DEF Queue!NoPage, Asked
<1>7. QueueTypes'
  BY <1>1, <1>6 DEF QueueTypes
<1>8. PageInv'
  BY <1>4, <1>5, <1>6, BothCounted DEF PageInv, OneCardEach, Queue!Of
<1> QED BY <1>1, <1>7, <1>8

LEMMA AnswerHomeDoes ==
  ASSUME QueueTypes, PageInv, Queue!DraftsAssumption, Queue!AnswerHome
  PROVE  QueueTypes' /\ PageInv' /\ UNCHANGED <<session, held, writing, writes, rows, inbox, press, entries, spent>>
<1> DEFINE n == Queue!nowBand(page.live, page.stored, page.waiting)
<1>1. /\ page' = [Queue!NoPage EXCEPT !.pc = "told", !.steady = page.steady, !.count = n]
      /\ page.pc = "answerHome"
      /\ UNCHANGED <<session, held, writing, writes, rows, inbox, press, entries, spent>>
  BY DEF Queue!AnswerHome
<1>2. /\ page.live \in SUBSET Cards /\ page.stored \in SUBSET Cards /\ page.waiting \in SUBSET FollowUps
      /\ page.steady \in BOOLEAN
  BY DEF QueueTypes, Asked
<1>3. /\ n \in Nat /\ n <= 2 * Cardinality(Drafts \cup FollowUps)
      /\ (\A c \in page.live : c[1] \in Queue!stillLive) => n <= Cardinality(Drafts \cup FollowUps)
  BY <1>2, BandBounds
<1>4. page.steady => n <= Cardinality(Drafts \cup FollowUps)
  BY <1>1, <1>3 DEF PageInv
<1> HIDE DEF n
<1>5. /\ page' \in Asked /\ page'.pc = "told" /\ page'.live = {} /\ page'.stored = {}
      /\ page'.steady = page.steady /\ page'.count = n
  BY <1>1, <1>2, <1>3 DEF Queue!NoPage, Asked
<1>6. QueueTypes'
  BY <1>1, <1>5 DEF QueueTypes
<1>7. PageInv'
  BY <1>3, <1>4, <1>5 DEF PageInv, OneCardEach
<1> QED BY <1>1, <1>6, <1>7

-----------------------------------------------------------------------------
(* A retried press.  Of a draft that nobody spoiled: once a press on it is  *)
(* on record, its row is settled or about to be, and no runtime on air      *)
(* holds it otherwise than sent.                                            *)
Entered(t) == \E r \in Requests : <<r, t>> \in entries
Quiet(t) == t \notin spent.spoiled

(* What holds of every draft.  Nothing is written of a draft that was never *)
(* held; a press that goes by the row has no runtime on air to go by.       *)
Order ==
  /\ \A t \in Drafts : held[t] = Queue!None => rows[t].status = Queue!None /\ Queue!Writes(t) = {} /\ t \notin writing
  /\ \A t \in writing : held[t] # "away"
  /\ session = "down" => \A t \in Drafts : held[t] \in {Queue!None, "away"}
  /\ \A r \in Requests : press[r].pc \in {"send", "ledger"} => held[press[r].of] \in Queue!Card \cup {"drafting"}
  /\ \A r \in Requests : press[r].pc \in {"write", "record"} =>
       held[press[r].of] = "away" \/ session \in {"ended", "gone"}
  /\ \A r \in Requests : press[r].pc \in {"write", "record"} => rows[press[r].of].status \in Queue!Card
  /\ \A r \in Requests, t \in Drafts : <<r, t>> \in entries => press[r].pc = "done"

(* What holds of a draft nobody spoiled: it is written once by the model,   *)
(* and afterwards only as sent.                                             *)
Written == \A t \in Drafts : Quiet(t) =>
  /\ t \in writing /\ held[t] = "drafting" => rows[t].status = Queue!None /\ Queue!Writes(t) = {} /\ ~Entered(t)
  /\ rows[t].status \in Queue!Card => \A w \in Queue!Writes(t) : w[2] = "sent"
  /\ \A r \in Requests : press[r].pc = "ledger" /\ press[r].of = t => held[t] = "sent"
  /\ \A r \in Requests : press[r].pc = "record" /\ press[r].of = t => rows[t].status # "open"
  /\ Entered(t) => held[t] \in {"sent", "away"} \/ session \in {"ended", "gone"}
  /\ Entered(t) => \/ rows[t].status \in {"sent", "blocked", "dismissed"}
                   \/ \E w \in Queue!Writes(t) : w[2] = "sent"

Retried == \A r \in Requests : press[r].retry /\ Quiet(press[r].of) =>
  /\ <<r, press[r].of>> \notin entries
  /\ press[r].pc = "done" \/ (press[r].pc = "write" /\ press[r].kind = "dismissed")

RetryInv == Order /\ Written /\ Retried

LEMMA NothingDrafted ==
  ASSUME QueueTypes, RetryInv, UNCHANGED <<held, writing, writes, rows, press, entries>>,
         spent'.spoiled = spent.spoiled,
         session' = session \/ (session' # "down" /\ (session \in {"ended", "gone"} => session' \in {"ended", "gone"}))
  PROVE  RetryInv'
<1>1. Order'
  BY DEF RetryInv, Order, Queue!Writes
<1>2. Written'
  BY DEF RetryInv, Written, Quiet, Entered, Queue!Writes
<1>3. Retried'
  BY DEF RetryInv, Retried, Quiet
<1> QED BY <1>1, <1>2, <1>3 DEF RetryInv

LEMMA DraftingKeeps == ASSUME QueueTypes, RetryInv, NEW t \in Drafts, Queue!Draft(t) PROVE RetryInv'
<1>1. /\ session \in Queue!Watched /\ held[t] = Queue!None /\ held'[t] = "drafting" /\ writing' = writing \cup {t}
      /\ \A e \in Drafts \ {t} : held'[e] = held[e]
      /\ UNCHANGED <<session, writes, rows, inbox, press, entries, page, spent>>
  <2>1. held' = [held EXCEPT ![t] = "drafting"] /\ held \in [Drafts -> HeldAs]
    BY DEF Queue!Draft, QueueTypes
  <2> QED BY <2>1 DEF Queue!Draft
<1>2. rows[t].status = "none" /\ Queue!Writes(t) = {} /\ session # "down"
  BY <1>1 DEF RetryInv, Order, Queue!Watched, Queue!None
<1>3. \A r \in Requests : press[r].pc \in AtDraft => press[r].of \in Drafts
  BY DEF QueueTypes
<1>4. \A r \in Requests : press[r].pc \in {"ledger", "record"} => press[r].of # t
  BY <1>1, <1>2, <1>3 DEF RetryInv, Order, AtDraft, Queue!Card, Queue!None
<1>5. \A w \in Queue!Writes(t) : FALSE
  BY <1>2
<1>6. Quiet(t) => ~Entered(t)
  BY <1>2, <1>5 DEF RetryInv, Written
<1>7. Order'
  <2>1. \A e \in Drafts : held'[e] = Queue!None => e # t /\ held[e] = Queue!None
    BY <1>1 DEF Queue!None
  <2>2. \A e \in Drafts : held'[e] = Queue!None => rows[e].status = Queue!None /\ Queue!Writes(e)' = {} /\ e \notin writing'
    BY <1>1, <2>1 DEF RetryInv, Order, Queue!Writes
  <2>3. \A e \in writing' : held'[e] # "away"
    BY <1>1 DEF RetryInv, Order, QueueTypes
  <2>4. \A r \in Requests : press[r].pc \in {"send", "ledger"} => held'[press[r].of] \in Queue!Card \cup {"drafting"}
    BY <1>1, <1>3 DEF RetryInv, Order, Queue!Card, AtDraft
  <2>5. \A r \in Requests : press[r].pc \in {"write", "record"} =>
           held'[press[r].of] = "away" \/ session \in {"ended", "gone"}
    <3>1. held[t] # "away"
      BY <1>1 DEF Queue!Card, Queue!None
    <3> QED BY <1>1, <1>3, <3>1 DEF RetryInv, Order, AtDraft
  <2> QED BY <1>1, <1>2, <2>2, <2>3, <2>4, <2>5 DEF RetryInv, Order
<1>8. Written'
  <2> SUFFICES ASSUME NEW e \in Drafts, Quiet(e) PROVE
        /\ e \in writing' /\ held'[e] = "drafting" => rows[e].status = Queue!None /\ Queue!Writes(e) = {} /\ ~Entered(e)
        /\ rows[e].status \in Queue!Card => \A w \in Queue!Writes(e) : w[2] = "sent"
        /\ \A r \in Requests : press[r].pc = "ledger" /\ press[r].of = e => held'[e] = "sent"
        /\ \A r \in Requests : press[r].pc = "record" /\ press[r].of = e => rows[e].status # "open"
        /\ Entered(e) => held'[e] \in {"sent", "away"} \/ session \in {"ended", "gone"}
        /\ Entered(e) => \/ rows[e].status \in {"sent", "blocked", "dismissed"}
                         \/ \E w \in Queue!Writes(e) : w[2] = "sent"
    BY <1>1 DEF Written, Quiet, Entered, Queue!Writes
  <2>1. CASE e = t
    BY <1>1, <1>2, <1>4, <1>5, <1>6, <2>1 DEF Queue!None, Queue!Card
  <2>2. CASE e # t
    BY <1>1, <2>2 DEF RetryInv, Written
  <2> QED BY <2>1, <2>2
<1>9. Retried'
  BY <1>1 DEF RetryInv, Retried, Quiet
<1> QED BY <1>7, <1>8, <1>9 DEF RetryInv

(* A draft is spoiled: nothing more is said of it, and the others are as    *)
(* they were.                                                               *)
LEMMA SpoiledKeeps ==
  ASSUME QueueTypes, RetryInv, NEW t \in Drafts, Order',
         session' = session, press' = press,
         spent'.spoiled = spent.spoiled \cup {t},
         writing' \ {t} = writing \ {t},
         \A e \in Drafts \ {t} : held'[e] = held[e] /\ rows'[e] = rows[e] /\ Queue!Writes(e)' = Queue!Writes(e),
         entries' = entries
  PROVE  RetryInv'
<1>1. Written'
  <2> SUFFICES ASSUME NEW e \in Drafts, Quiet(e)' PROVE
        /\ e \in writing' /\ held'[e] = "drafting" => rows'[e].status = Queue!None /\ Queue!Writes(e)' = {} /\ ~Entered(e)
        /\ rows'[e].status \in Queue!Card => \A w \in Queue!Writes(e)' : w[2] = "sent"
        /\ \A r \in Requests : press[r].pc = "ledger" /\ press[r].of = e => held'[e] = "sent"
        /\ \A r \in Requests : press[r].pc = "record" /\ press[r].of = e => rows'[e].status # "open"
        /\ Entered(e) => held'[e] \in {"sent", "away"} \/ session \in {"ended", "gone"}
        /\ Entered(e) => \/ rows'[e].status \in {"sent", "blocked", "dismissed"}
                         \/ \E w \in Queue!Writes(e)' : w[2] = "sent"
    BY DEF Written, Entered
  <2>1. e # t /\ Quiet(e)
    BY DEF Quiet
  <2>2. held'[e] = held[e] /\ rows'[e] = rows[e] /\ Queue!Writes(e)' = Queue!Writes(e) /\ (e \in writing' <=> e \in writing)
    BY <2>1
  <2> QED BY <2>1, <2>2 DEF RetryInv, Written
<1>2. Retried'
  BY DEF RetryInv, Retried, Quiet
<1> QED BY <1>1, <1>2 DEF RetryInv

LEMMA RegenerateKeeps == ASSUME QueueTypes, RetryInv, NEW t \in Drafts, Queue!Regenerate(t) PROVE RetryInv'
<1>1. /\ session \in Queue!Watched /\ held[t] \in Queue!Card \cup {"drafting"} /\ held'[t] = "drafting" /\ writing' = writing \cup {t}
      /\ \A e \in Drafts \ {t} : held'[e] = held[e]
      /\ UNCHANGED <<session, writes, rows, inbox, press, entries, page>>
      /\ spent'.spoiled = spent.spoiled \cup {t}
  <2>1. held' = [held EXCEPT ![t] = "drafting"] /\ held \in [Drafts -> HeldAs]
    BY DEF Queue!Regenerate, QueueTypes
  <2> QED BY <2>1, RegenerateDoes DEF Queue!Regenerate
<1>2. \A r \in Requests : press[r].pc \in AtDraft => press[r].of \in Drafts
  BY DEF QueueTypes
<1>3. session # "down"
  BY <1>1 DEF Queue!Watched
<1>4. Order'
  <2>1. \A e \in Drafts : held'[e] = Queue!None => e # t /\ held[e] = Queue!None
    BY <1>1 DEF Queue!None
  <2>2. \A e \in Drafts : held'[e] = Queue!None => rows[e].status = Queue!None /\ Queue!Writes(e)' = {} /\ e \notin writing'
    BY <1>1, <2>1 DEF RetryInv, Order, Queue!Writes
  <2>3. \A e \in writing' : held'[e] # "away"
    BY <1>1 DEF RetryInv, Order, QueueTypes
  <2>4. \A r \in Requests : press[r].pc \in {"send", "ledger"} => held'[press[r].of] \in Queue!Card \cup {"drafting"}
    BY <1>1, <1>2 DEF RetryInv, Order, Queue!Card, AtDraft
  <2>5. \A r \in Requests : press[r].pc \in {"write", "record"} =>
           held'[press[r].of] = "away" \/ session \in {"ended", "gone"}
    <3>1. held[t] # "away"
      BY <1>1 DEF Queue!Card, Queue!None
    <3> QED BY <1>1, <1>2, <3>1 DEF RetryInv, Order, AtDraft
  <2> QED BY <1>1, <1>3, <2>2, <2>3, <2>4, <2>5 DEF RetryInv, Order
<1>5. \A e \in Drafts \ {t} : Queue!Writes(e)' = Queue!Writes(e)
  BY <1>1 DEF Queue!Writes
<1> QED BY <1>1, <1>4, <1>5, SpoiledKeeps

LEMMA SettleKeeps == ASSUME QueueTypes, RetryInv, NEW t \in Drafts, Queue!Settle(t) PROVE RetryInv'
<1>1. PICK status \in {"open", "blocked"} :
        /\ t \in writing /\ writing' = writing \ {t} /\ held' = [held EXCEPT ![t] = status]
        /\ writes' = writes \cup {<<t, status, Queue!None>>}
        /\ UNCHANGED <<session, rows, inbox, press, entries, page>>
  BY DEF Queue!Settle
<1>2. /\ held'[t] = status /\ \A e \in Drafts \ {t} : held'[e] = held[e]
  <2>1. held \in [Drafts -> HeldAs]
    BY DEF QueueTypes
  <2> QED BY <1>1, <2>1
<1>3. /\ \A e \in Drafts \ {t} : Queue!Writes(e)' = Queue!Writes(e)
      /\ Queue!Writes(t)' = Queue!Writes(t) \cup {<<t, status, Queue!None>>}
  BY <1>1 DEF Queue!Writes
<1>4. \A r \in Requests : press[r].pc \in AtDraft => press[r].of \in Drafts
  BY DEF QueueTypes
<1>5. session # "down"
  <2>1. held[t] # "away" /\ held[t] # Queue!None
    BY <1>1 DEF RetryInv, Order
  <2> QED BY <2>1 DEF RetryInv, Order
<1>6. Order'
  <2>1. \A e \in Drafts : held'[e] = Queue!None => e # t /\ held[e] = Queue!None
    BY <1>2 DEF Queue!None
  <2>2. \A e \in Drafts : held'[e] = Queue!None => rows[e].status = Queue!None /\ Queue!Writes(e)' = {} /\ e \notin writing'
    BY <1>1, <1>3, <2>1 DEF RetryInv, Order
  <2>3. \A e \in writing' : held'[e] # "away"
    BY <1>1, <1>2 DEF RetryInv, Order, QueueTypes
  <2>4. \A r \in Requests : press[r].pc \in {"send", "ledger"} => held'[press[r].of] \in Queue!Card \cup {"drafting"}
    BY <1>2, <1>4 DEF RetryInv, Order, Queue!Card, AtDraft
  <2>5. \A r \in Requests : press[r].pc \in {"write", "record"} =>
           held'[press[r].of] = "away" \/ session \in {"ended", "gone"}
    <3>1. held[t] # "away"
      BY <1>1 DEF RetryInv, Order
    <3> QED BY <1>2, <1>4, <3>1 DEF RetryInv, Order, AtDraft
  <2> QED BY <1>1, <1>5, <2>2, <2>3, <2>4, <2>5 DEF RetryInv, Order
<1>7. CASE held[t] # "drafting"
  <2>1. spent'.spoiled = spent.spoiled \cup {t}
    BY <1>7, SettleDoes
  <2> QED BY <1>1, <1>2, <1>3, <1>6, <2>1, SpoiledKeeps
<1>8. CASE held[t] = "drafting"
  <2>1. spent'.spoiled = spent.spoiled
    BY <1>8, SettleDoes
  <2>2. Written'
    <3> SUFFICES ASSUME NEW e \in Drafts, Quiet(e) PROVE
          /\ e \in writing' /\ held'[e] = "drafting" => rows[e].status = Queue!None /\ Queue!Writes(e)' = {} /\ ~Entered(e)
          /\ rows[e].status \in Queue!Card => \A w \in Queue!Writes(e)' : w[2] = "sent"
          /\ \A r \in Requests : press[r].pc = "ledger" /\ press[r].of = e => held'[e] = "sent"
          /\ \A r \in Requests : press[r].pc = "record" /\ press[r].of = e => rows[e].status # "open"
          /\ Entered(e) => held'[e] \in {"sent", "away"} \/ session \in {"ended", "gone"}
          /\ Entered(e) => \/ rows[e].status \in {"sent", "blocked", "dismissed"}
                           \/ \E w \in Queue!Writes(e)' : w[2] = "sent"
      BY <1>1, <2>1 DEF Written, Quiet, Entered
    <3>1. CASE e = t
      <4>1. rows[t].status = "none" /\ ~Entered(t)
        BY <1>1, <1>8, <3>1 DEF RetryInv, Written, Queue!None
      <4>2. \A r \in Requests : press[r].pc = "ledger" => press[r].of # t
        BY <1>8, <3>1 DEF RetryInv, Written
      <4> QED BY <1>1, <3>1, <4>1, <4>2 DEF Queue!Card
    <3>2. CASE e # t
      BY <1>1, <1>2, <1>3, <3>2 DEF RetryInv, Written
    <3> QED BY <3>1, <3>2
  <2>3. Retried'
    BY <1>1, <2>1 DEF RetryInv, Retried, Quiet
  <2> QED BY <1>6, <2>2, <2>3 DEF RetryInv
<1> QED BY <1>7, <1>8

LEMMA LandKeeps == ASSUME QueueTypes, RetryInv, Queue!Land PROVE RetryInv'
<1>1. PICK w \in writes :
        /\ w[1] \in Drafts /\ w[2] \in Queue!Card /\ writes' = writes \ {w}
        /\ spent'.spoiled = spent.spoiled \cup (IF Queue!Writes(w[1]) = {w} /\ rows'[w[1]].status = w[2] THEN {} ELSE {w[1]})
           \/ spent'.spoiled = spent.spoiled \cup {w[1]}
        /\ \A t \in Drafts \ {w[1]} : rows'[t] = rows[t]
        /\ rows'[w[1]] = rows[w[1]] \/ rows'[w[1]].status = w[2]
  BY LandDoes
<1> DEFINE t == w[1]
<1>2. t \in Drafts /\ w \in Queue!Writes(t) /\ \A e \in Drafts \ {t} : Queue!Writes(e)' = Queue!Writes(e)
  BY <1>1 DEF Queue!Writes
<1>3. UNCHANGED <<session, held, writing, inbox, press, entries, page>>
  BY DEF Queue!Land
<1>4. held[t] # Queue!None
  BY <1>2 DEF RetryInv, Order
<1>5. RowsStay /\ \A r \in Requests : press[r].pc \in AtDraft => press[r].of \in Drafts
  BY LandDoes DEF QueueTypes
<1>6. Order'
  <2>1. \A e \in Drafts : held[e] = Queue!None => e # t
    BY <1>4
  <2>2. \A e \in Drafts : held[e] = Queue!None => rows'[e].status = Queue!None /\ Queue!Writes(e)' = {} /\ e \notin writing
    BY <1>1, <1>2, <2>1 DEF RetryInv, Order
  <2>3. \A r \in Requests : press[r].pc \in {"write", "record"} => rows'[press[r].of].status \in Queue!Card
    BY <1>5 DEF RetryInv, Order, RowsStay, AtDraft
  <2> QED BY <1>3, <2>2, <2>3 DEF RetryInv, Order
<1>7. CASE spent'.spoiled = spent.spoiled \cup {t}
  BY <1>1, <1>2, <1>3, <1>6, <1>7, SpoiledKeeps
<1>8. CASE spent'.spoiled # spent.spoiled \cup {t}
  <2>1. spent'.spoiled = spent.spoiled /\ Queue!Writes(t) = {w} /\ rows'[t].status = w[2]
    BY <1>1, <1>8
  <2>2. Queue!Writes(t)' = {}
    BY <1>1, <2>1 DEF Queue!Writes
  <2>3. Written'
    <3> SUFFICES ASSUME NEW e \in Drafts, Quiet(e) PROVE
          /\ e \in writing /\ held[e] = "drafting" => rows'[e].status = Queue!None /\ Queue!Writes(e)' = {} /\ ~Entered(e)
          /\ rows'[e].status \in Queue!Card => \A x \in Queue!Writes(e)' : x[2] = "sent"
          /\ \A r \in Requests : press[r].pc = "ledger" /\ press[r].of = e => held[e] = "sent"
          /\ \A r \in Requests : press[r].pc = "record" /\ press[r].of = e => rows'[e].status # "open"
          /\ Entered(e) => held[e] \in {"sent", "away"} \/ session \in {"ended", "gone"}
          /\ Entered(e) => \/ rows'[e].status \in {"sent", "blocked", "dismissed"}
                           \/ \E x \in Queue!Writes(e)' : x[2] = "sent"
      BY <1>3, <2>1 DEF Written, Quiet, Entered
    <3>1. CASE e = t
      <4>1. ~(t \in writing /\ held[t] = "drafting")
        BY <1>2, <3>1 DEF RetryInv, Written
      <4>2. rows[t].status \in Queue!Card => w[2] = "sent"
        BY <1>2, <3>1 DEF RetryInv, Written
      <4>3. Entered(t) => rows'[t].status = "sent"
        <5>1. ASSUME Entered(t) PROVE rows[t].status \in Queue!Card \/ w[2] = "sent"
          BY <2>1, <3>1, <5>1 DEF RetryInv, Written, Queue!Card
        <5> QED BY <2>1, <4>2, <5>1
      <4>4. \A r \in Requests : press[r].pc = "record" /\ press[r].of = t => rows'[t].status = "sent"
        BY <2>1, <4>2 DEF RetryInv, Order
      <4> QED BY <2>2, <3>1, <4>1, <4>3, <4>4 DEF RetryInv, Written
    <3>2. CASE e # t
      BY <1>1, <1>2, <3>2 DEF RetryInv, Written
    <3> QED BY <3>1, <3>2
  <2>4. Retried'
    BY <1>3, <2>1 DEF RetryInv, Retried, Quiet
  <2> QED BY <1>6, <2>3, <2>4 DEF RetryInv
<1> QED BY <1>7, <1>8

LEMMA RestartKeeps == ASSUME QueueTypes, RetryInv, Queue!Restart PROVE RetryInv'
<1>1. /\ UNCHANGED <<rows, inbox, entries>>
      /\ session' \in {"gone", "down"} /\ (session \in {"ended", "gone"} => session' = "gone")
      /\ writes' = {} /\ writing' = {}
      /\ \A t \in Drafts : held'[t] = IF held[t] = Queue!None THEN Queue!None ELSE "away"
      /\ \A r \in Requests : /\ press'[r].pc = IF press[r].pc = "idle" THEN "idle" ELSE "done"
                             /\ press[r].pc = "idle" => press'[r] = Queue!Idle
                             /\ press[r].pc # "idle" => press'[r] = [press[r] EXCEPT !.pc = "done"]
      /\ spent.spoiled \subseteq spent'.spoiled
      /\ \A w \in writes : w[1] \in spent'.spoiled
      /\ \A r \in Requests : press[r].pc \in AtDraft => press[r].of \in spent'.spoiled
  BY RestartDoes
<1>2. \A t \in Drafts : Queue!Writes(t)' = {}
  BY <1>1 DEF Queue!Writes
<1>3. \A t \in Drafts : Quiet(t)' => Quiet(t) /\ Queue!Writes(t) = {}
  BY <1>1 DEF Quiet, Queue!Writes
<1>4. Order'
  BY <1>1, <1>2 DEF RetryInv, Order, Queue!None
<1>5. Written'
  <2> SUFFICES ASSUME NEW e \in Drafts, Quiet(e)' PROVE
        /\ rows[e].status \in Queue!Card => \A w \in Queue!Writes(e)' : w[2] = "sent"
        /\ Entered(e) => held'[e] = "away"
        /\ Entered(e) => rows[e].status \in {"sent", "blocked", "dismissed"}
    BY <1>1 DEF Written, Entered
  <2>1. Entered(e) => rows[e].status \in {"sent", "blocked", "dismissed"}
    BY <1>3 DEF RetryInv, Written
  <2>2. Entered(e) => held[e] # Queue!None
    BY <2>1 DEF RetryInv, Order, Queue!None
  <2> QED BY <1>1, <1>2, <2>1, <2>2
<1>6. Retried'
  <2> SUFFICES ASSUME NEW r \in Requests, press'[r].retry, press'[r].of \notin spent'.spoiled
               PROVE  <<r, press'[r].of>> \notin entries /\ press'[r].pc = "done"
    BY <1>1 DEF Retried, Quiet
  <2>1. press[r] \in Pressing /\ ~Queue!Idle.retry
    BY DEF QueueTypes, Queue!Idle
  <2>2. press[r].pc # "idle"
    BY <1>1, <2>1
  <2>3. press'[r].retry = press[r].retry /\ press'[r].of = press[r].of
    BY <1>1, <2>1, <2>2 DEF Pressing
  <2>4. Quiet(press[r].of)
    BY <1>1, <2>3 DEF Quiet
  <2> QED BY <1>1, <2>2, <2>3, <2>4 DEF RetryInv, Retried
<1> QED BY <1>4, <1>5, <1>6 DEF RetryInv

(* A press finds a draft and is answered at once, or goes on.  If it is a   *)
(* retry of a draft nobody spoiled, it is answered.                         *)
LEMMA PressKeeps ==
  ASSUME QueueTypes, RetryInv, NEW r \in Requests, press[r].pc = "idle",
         UNCHANGED <<session, held, writing, writes, rows, entries, spent>>,
         \A q \in Requests \ {r} : press'[q] = press[q],
         \/ press'[r].pc = "done"
         \/ /\ press'[r].pc \in {"send", "write"}
            /\ press'[r].pc = "send" => held[press'[r].of] \in Queue!Card \cup {"drafting"}
            /\ press'[r].pc = "write" => /\ held[press'[r].of] = "away" \/ session \in {"ended", "gone"}
                                         /\ rows[press'[r].of].status \in Queue!Card
            /\ press'[r].retry /\ Quiet(press'[r].of) => press'[r].pc = "write" /\ press'[r].kind = "dismissed"
  PROVE  RetryInv'
<1>1. \A t \in Drafts : Queue!Writes(t)' = Queue!Writes(t)
  BY DEF Queue!Writes
<1>2. \A t \in Drafts : <<r, t>> \notin entries
  BY DEF RetryInv, Order
<1>3. Order'
  BY <1>1, <1>2 DEF RetryInv, Order
<1>4. Written'
  BY <1>1 DEF RetryInv, Written, Quiet, Entered
<1>5. entries \subseteq Requests \X Drafts
  BY DEF QueueTypes
<1>6. Retried'
  <2> SUFFICES ASSUME NEW q \in Requests, press'[q].retry, Quiet(press'[q].of)
               PROVE  /\ <<q, press'[q].of>> \notin entries
                      /\ press'[q].pc = "done" \/ (press'[q].pc = "write" /\ press'[q].kind = "dismissed")
    BY DEF Retried, Quiet
  <2>1. CASE q = r
    <3>1. <<r, press'[r].of>> \notin entries
      BY <1>2, <1>5
    <3> QED BY <2>1, <3>1
  <2>2. CASE q # r
    BY <2>2 DEF RetryInv, Retried
  <2> QED BY <2>1, <2>2
<1> QED BY <1>3, <1>4, <1>6 DEF RetryInv

LEMMA PressLiveKeeps == ASSUME QueueTypes, RetryInv, NEW r \in Requests, Queue!PressLive(r) PROVE RetryInv'
<1>1. /\ press[r].pc = "idle" /\ UNCHANGED <<session, held, writing, writes, rows, entries, spent>>
      /\ \A q \in Requests \ {r} : press'[q] = press[q]
  BY PressLiveDoes
<1>2. PICK t \in Drafts :
         /\ Queue!OfRuntime(t) /\ press'[r].of = t
         /\ press'[r].pc = IF held[t] \in {"sent", "blocked"} THEN "done" ELSE "send"
         /\ press'[r].retry => Queue!Writes(t) = {} /\ \E q \in Requests : <<q, t>> \in entries
  BY PressLiveDoes
<1>3. session \in Queue!OnAir /\ held[t] \in Queue!Card \cup {"drafting"} /\ session \notin {"ended", "gone"}
  BY <1>2 DEF Queue!OfRuntime, Queue!OnAir
<1>4. press'[r].retry /\ Quiet(t) => held[t] = "sent"
  BY <1>2, <1>3 DEF RetryInv, Written, Entered, Queue!Card
<1> QED BY <1>1, <1>2, <1>3, <1>4, PressKeeps

LEMMA LookKeeps == ASSUME QueueTypes, RetryInv, NEW r \in Requests, Queue!Look(r) PROVE RetryInv'
<1>1. /\ press[r].pc = "idle" /\ UNCHANGED <<session, held, writing, writes, rows, entries, spent>>
      /\ \A q \in Requests \ {r} : press'[q] = press[q]
  BY LookDoes
<1>2. PICK t \in Drafts :
         /\ ~Queue!OfRuntime(t) /\ rows[t].status \in Queue!Card
         /\ press'[r].of = t /\ press'[r].pc \in {"write", "done"}
         /\ rows[t].status # "open" => press'[r].pc = "done" \/ press'[r].kind = "dismissed"
         /\ press'[r].retry => Queue!Writes(t) = {} /\ \E q \in Requests : <<q, t>> \in entries
  BY LookDoes
<1>3. held[t] # Queue!None
  BY <1>2 DEF RetryInv, Order, Queue!Card, Queue!None
<1>4. held[t] = "away" \/ session \in {"ended", "gone"}
  <2>1. held[t] \in HeldAs /\ session \in Queue!Watched \cup {"gone", "down"}
    BY DEF QueueTypes
  <2>2. session = "down" => held[t] = "away"
    BY <1>3 DEF RetryInv, Order
  <2> QED BY <1>2, <1>3, <2>1, <2>2 DEF Queue!OfRuntime, HeldAs, RowStatuses, Queue!Card, Queue!None,
     Queue!Watched, Queue!OnAir
<1>5. press'[r].retry /\ Quiet(t) => rows[t].status # "open"
  <2> SUFFICES ASSUME press'[r].retry, Quiet(t) PROVE rows[t].status \in {"sent", "blocked", "dismissed"}
    OBVIOUS
  <2>1. Entered(t) /\ Queue!Writes(t) = {}
    BY <1>2 DEF Entered
  <2>2. ~\E w \in Queue!Writes(t) : w[2] = "sent"
    BY <2>1
  <2> QED BY <2>1, <2>2 DEF RetryInv, Written
<1> QED BY <1>1, <1>2, <1>4, <1>5, PressKeeps

LEMMA DismissLiveKeeps == ASSUME QueueTypes, RetryInv, NEW r \in Requests, Queue!DismissLive(r) PROVE RetryInv'
<1>1. /\ press[r].pc = "idle" /\ UNCHANGED <<session, writing, rows, inbox, entries, page>>
      /\ \A q \in Requests \ {r} : press'[q] = press[q]
  BY DismissLiveDoes
<1>2. PICK t \in Drafts :
        /\ Queue!OfRuntime(t) /\ press'[r].of = t /\ press'[r].pc = "done"
        /\ \A e \in Drafts \ {t} : held'[e] = held[e]
        /\ held'[t] = "dismissed"
        /\ writes' = writes \cup {<<t, "dismissed", Queue!None>>}
        /\ spent'.spoiled = spent.spoiled \cup {t}
  BY DismissLiveDoes
<1>3. \A e \in Drafts \ {t} : Queue!Writes(e)' = Queue!Writes(e)
  BY <1>2 DEF Queue!Writes
<1>4. \A q \in Requests : press[q].pc \in AtDraft => press[q].of \in Drafts
  BY DEF QueueTypes
<1>5. session \in Queue!OnAir /\ session # "down" /\ held[t] \in Queue!Card \cup {"drafting"}
  BY <1>2 DEF Queue!OfRuntime, Queue!OnAir
<1>6. \A e \in Drafts : <<r, e>> \notin entries
  BY <1>1 DEF RetryInv, Order
<1>7. Order'
  <2>1. \A e \in Drafts : held'[e] = Queue!None => rows[e].status = Queue!None /\ Queue!Writes(e)' = {} /\ e \notin writing
    BY <1>2, <1>3 DEF RetryInv, Order, Queue!None
  <2>2. \A e \in writing : held'[e] # "away"
    BY <1>2 DEF RetryInv, Order, QueueTypes
  <2>3. \A q \in Requests : press'[q].pc \in {"send", "ledger"} => held'[press'[q].of] \in Queue!Card \cup {"drafting"}
    BY <1>1, <1>2, <1>4 DEF RetryInv, Order, Queue!Card, AtDraft
  <2>4. \A q \in Requests : press'[q].pc \in {"write", "record"} =>
           /\ held'[press'[q].of] = "away" \/ session \in {"ended", "gone"}
           /\ rows[press'[q].of].status \in Queue!Card
    <3>1. held[t] # "away"
      BY <1>5 DEF Queue!Card
    <3> QED BY <1>1, <1>2, <1>4, <3>1 DEF RetryInv, Order, AtDraft
  <2> QED BY <1>1, <1>5, <1>6, <2>1, <2>2, <2>3, <2>4 DEF RetryInv, Order
<1>8. Written'
  <2> SUFFICES ASSUME NEW e \in Drafts, Quiet(e)' PROVE
        /\ e \in writing /\ held'[e] = "drafting" => rows[e].status = Queue!None /\ Queue!Writes(e)' = {} /\ ~Entered(e)
        /\ rows[e].status \in Queue!Card => \A w \in Queue!Writes(e)' : w[2] = "sent"
        /\ \A q \in Requests : press'[q].pc = "ledger" /\ press'[q].of = e => held'[e] = "sent"
        /\ \A q \in Requests : press'[q].pc = "record" /\ press'[q].of = e => rows[e].status # "open"
        /\ Entered(e) => held'[e] \in {"sent", "away"} \/ session \in {"ended", "gone"}
        /\ Entered(e) => \/ rows[e].status \in {"sent", "blocked", "dismissed"}
                         \/ \E w \in Queue!Writes(e)' : w[2] = "sent"
    BY <1>1 DEF Written, Entered
  <2>1. e # t /\ Quiet(e)
    BY <1>2 DEF Quiet
  <2>2. held'[e] = held[e] /\ Queue!Writes(e)' = Queue!Writes(e)
    BY <1>2, <1>3, <2>1
  <2> QED BY <1>1, <1>2, <2>1, <2>2 DEF RetryInv, Written
<1>9. Retried'
  <2>1. <<r, t>> \notin entries
    BY <1>6
  <2> QED BY <1>1, <1>2, <2>1 DEF RetryInv, Retried, Quiet
<1> QED BY <1>7, <1>8, <1>9 DEF RetryInv

(* A press goes on. *)
LEMMA PressGoesOn ==
  ASSUME QueueTypes, NEW r \in Requests, NEW to \in {"ledger", "record", "done"}, press'[r] = [press[r] EXCEPT !.pc = to]
  PROVE  press'[r].pc = to /\ press'[r].of = press[r].of /\ press'[r].kind = press[r].kind
         /\ press'[r].retry = press[r].retry
<1>1. press[r] \in Pressing
  BY DEF QueueTypes
<1> QED BY <1>1 DEF Pressing

LEMMA SendKeeps == ASSUME QueueTypes, RetryInv, NEW r \in Requests, Queue!Send(r) PROVE RetryInv'
<1> DEFINE t == press[r].of
<1>1. /\ press[r].pc = "send" /\ UNCHANGED <<session, writing, writes, rows, inbox, entries, page, spent>>
      /\ t \in Drafts /\ \A q \in Requests \ {r} : press'[q] = press[q]
      /\ held'[t] = "sent" /\ \A e \in Drafts \ {t} : held'[e] = held[e]
      /\ press'[r].pc = "ledger" /\ press'[r].of = t /\ press'[r].kind = press[r].kind
      /\ press'[r].retry = press[r].retry
  BY SendDoes, PressGoesOn
<1>2. \A e \in Drafts : Queue!Writes(e)' = Queue!Writes(e)
  BY <1>1 DEF Queue!Writes
<1>3. \A q \in Requests : press[q].pc \in AtDraft => press[q].of \in Drafts
  BY DEF QueueTypes
<1>4. held[t] \in Queue!Card \cup {"drafting"} /\ held[t] # Queue!None /\ held[t] # "away" /\ session # "down"
  <2>1. held[t] \in Queue!Card \cup {"drafting"}
    BY <1>1 DEF RetryInv, Order
  <2> QED BY <1>1, <2>1 DEF RetryInv, Order, Queue!Card, Queue!None
<1>5. \A e \in Drafts : <<r, e>> \notin entries
  BY <1>1 DEF RetryInv, Order
<1>6. Order'
  <2>1. \A e \in Drafts : held'[e] = Queue!None => rows[e].status = Queue!None /\ Queue!Writes(e)' = {} /\ e \notin writing
    BY <1>1, <1>2 DEF RetryInv, Order, Queue!None
  <2>2. \A e \in writing : held'[e] # "away"
    BY <1>1 DEF RetryInv, Order, QueueTypes
  <2>3. \A q \in Requests : press'[q].pc \in {"send", "ledger"} => held'[press'[q].of] \in Queue!Card \cup {"drafting"}
    BY <1>1, <1>3 DEF RetryInv, Order, Queue!Card, AtDraft
  <2>4. \A q \in Requests : press'[q].pc \in {"write", "record"} =>
           /\ held'[press'[q].of] = "away" \/ session \in {"ended", "gone"}
           /\ rows[press'[q].of].status \in Queue!Card
    BY <1>1, <1>3, <1>4 DEF RetryInv, Order, AtDraft
  <2> QED BY <1>1, <1>4, <1>5, <2>1, <2>2, <2>3, <2>4 DEF RetryInv, Order
<1>7. Written'
  BY <1>1, <1>2 DEF RetryInv, Written, Quiet, Entered
<1>8. Retried'
  BY <1>1 DEF RetryInv, Retried, Quiet
<1> QED BY <1>6, <1>7, <1>8 DEF RetryInv

LEMMA LedgerKeeps == ASSUME QueueTypes, RetryInv, NEW r \in Requests, Queue!Ledger(r) PROVE RetryInv'
<1>0. PICK t \in Drafts : t = press[r].of
  BY LedgerDoes
<1>1. /\ press[r].pc = "ledger" /\ UNCHANGED <<session, held, writing, rows, inbox, page>>
      /\ press[r].of = t /\ \A q \in Requests \ {r} : press'[q] = press[q]
      /\ press'[r].pc = "done" /\ press'[r].of = t /\ press'[r].kind = press[r].kind
      /\ press'[r].retry = press[r].retry
  BY <1>0, LedgerDoes, PressGoesOn
<1>2. held[t] \in Queue!Card \cup {"drafting"} /\ held[t] # Queue!None
  BY <1>1 DEF RetryInv, Order, Queue!Card, Queue!None
<1>3. ~(press[r].retry /\ Quiet(t))
  BY <1>1 DEF RetryInv, Retried
<1>4. CASE entries' = entries \cup {<<r, t>>} /\ writes' = writes \cup {<<t, "sent", r>>} /\ spent' = spent
  <2>1. /\ \A e \in Drafts \ {t} : Queue!Writes(e)' = Queue!Writes(e)
        /\ Queue!Writes(t)' = Queue!Writes(t) \cup {<<t, "sent", r>>}
    BY <1>4 DEF Queue!Writes
  <2>2. Order'
    <3>1. \A e \in Drafts : held[e] = Queue!None => rows[e].status = Queue!None /\ Queue!Writes(e)' = {} /\ e \notin writing
      BY <1>2, <2>1 DEF RetryInv, Order
    <3>2. \A q \in Requests, e \in Drafts : <<q, e>> \in entries' => press'[q].pc = "done"
      BY <1>1, <1>4 DEF RetryInv, Order
    <3> QED BY <1>1, <3>1, <3>2 DEF RetryInv, Order
  <2>3. /\ \A e \in Drafts \ {t} : Entered(e)' => Entered(e)
    BY <1>4 DEF Entered
  <2>4. Written'
    <3> SUFFICES ASSUME NEW e \in Drafts, Quiet(e) PROVE
          /\ e \in writing /\ held[e] = "drafting" => rows[e].status = Queue!None /\ Queue!Writes(e)' = {} /\ ~Entered(e)'
          /\ rows[e].status \in Queue!Card => \A w \in Queue!Writes(e)' : w[2] = "sent"
          /\ \A q \in Requests : press'[q].pc = "ledger" /\ press'[q].of = e => held[e] = "sent"
          /\ \A q \in Requests : press'[q].pc = "record" /\ press'[q].of = e => rows[e].status # "open"
          /\ Entered(e)' => held[e] \in {"sent", "away"} \/ session \in {"ended", "gone"}
          /\ Entered(e)' => \/ rows[e].status \in {"sent", "blocked", "dismissed"}
                            \/ \E w \in Queue!Writes(e)' : w[2] = "sent"
      BY <1>1, <1>4 DEF Written, Quiet
    <3>1. CASE e = t
      <4>1. held[t] = "sent"
        BY <1>1, <3>1 DEF RetryInv, Written
      <4>2. <<t, "sent", r>> \in Queue!Writes(t)' /\ <<t, "sent", r>>[2] = "sent"
        BY <2>1
      <4>3. rows[t].status \in Queue!Card => \A w \in Queue!Writes(t)' : w[2] = "sent"
        BY <2>1, <3>1 DEF RetryInv, Written
      <4>4. \A q \in Requests : press'[q].pc = "record" /\ press'[q].of = t => rows[t].status # "open"
        BY <1>1, <3>1 DEF RetryInv, Written
      <4> QED BY <3>1, <4>1, <4>2, <4>3, <4>4
    <3>2. CASE e # t
      BY <1>1, <2>1, <2>3, <3>2 DEF RetryInv, Written
    <3> QED BY <3>1, <3>2
  <2>5. Retried'
    <3> SUFFICES ASSUME NEW q \in Requests, press'[q].retry, Quiet(press'[q].of)
                 PROVE  /\ <<q, press'[q].of>> \notin entries'
                        /\ press'[q].pc = "done" \/ (press'[q].pc = "write" /\ press'[q].kind = "dismissed")
      BY <1>4 DEF Retried, Quiet
    <3>1. q # r /\ press'[q] = press[q]
      BY <1>1, <1>3
    <3> QED BY <1>4, <3>1 DEF RetryInv, Retried
  <2> QED BY <2>2, <2>4, <2>5 DEF RetryInv
<1>5. CASE UNCHANGED <<entries, writes>> /\ spent'.spoiled = spent.spoiled \cup {t}
  <2>1. \A e \in Drafts : Queue!Writes(e)' = Queue!Writes(e)
    BY <1>5 DEF Queue!Writes
  <2>2. Order'
    BY <1>1, <1>5, <2>1 DEF RetryInv, Order
  <2>3. \A e : Quiet(e)' => Quiet(e)
    BY <1>5 DEF Quiet
  <2>4. Written'
    BY <1>1, <1>5, <2>1, <2>3 DEF RetryInv, Written, Entered
  <2>5. Retried'
    BY <1>1, <1>5, <2>3 DEF RetryInv, Retried
  <2> QED BY <2>2, <2>4, <2>5 DEF RetryInv
<1> QED BY <1>1, <1>4, <1>5, LedgerDoes

(* A press writes the row it found: never to open again. *)
LEMMA RowWritten ==
  ASSUME QueueTypes, RetryInv, NEW r \in Requests, NEW t \in Drafts, press[r].of = t, press[r].pc = "write",
         UNCHANGED <<session, held, writing, writes, entries>>, spent'.spoiled = spent.spoiled,
         \A q \in Requests \ {r} : press'[q] = press[q],
         press'[r].of = t, press'[r].pc \in {"record", "done"}, press'[r].retry = press[r].retry,
         press[r].retry /\ Quiet(t) => press'[r].pc = "done",
         \A e \in Drafts \ {t} : rows'[e] = rows[e],
         rows'[t].status \in {"sent", "blocked", "dismissed"}
  PROVE  RetryInv'
<1>1. \A e \in Drafts : Queue!Writes(e)' = Queue!Writes(e)
  BY DEF Queue!Writes
<1>2. \A q \in Requests : press[q].pc \in AtDraft => press[q].of \in Drafts
  BY DEF QueueTypes
<1>3. /\ rows[t].status \in Queue!Card /\ held[t] # Queue!None
      /\ held[t] = "away" \/ session \in {"ended", "gone"}
  BY DEF RetryInv, Order, Queue!Card, Queue!None
<1>4. \A e \in Drafts : <<r, e>> \notin entries
  BY DEF RetryInv, Order
<1>5. Order'
  <2>1. \A e \in Drafts : held[e] = Queue!None => rows'[e].status = Queue!None /\ Queue!Writes(e)' = {} /\ e \notin writing
    BY <1>1, <1>3 DEF RetryInv, Order
  <2>2. \A q \in Requests : press'[q].pc \in {"write", "record"} =>
           /\ held[press'[q].of] = "away" \/ session \in {"ended", "gone"}
           /\ rows'[press'[q].of].status \in Queue!Card
    <3> TAKE q \in Requests
    <3> HAVE press'[q].pc \in {"write", "record"}
    <3>1. CASE press'[q].of = t
      BY <1>3, <3>1 DEF Queue!Card
    <3>2. CASE press'[q].of # t
      BY <1>2, <3>2 DEF RetryInv, Order, AtDraft
    <3> QED BY <3>1, <3>2
  <2>3. \A q \in Requests : press'[q].pc \in {"send", "ledger"} => held[press'[q].of] \in Queue!Card \cup {"drafting"}
    BY DEF RetryInv, Order
  <2> QED BY <1>4, <2>1, <2>2, <2>3 DEF RetryInv, Order
<1>6. Written'
  <2> SUFFICES ASSUME NEW e \in Drafts, Quiet(e) PROVE
        /\ e \in writing /\ held[e] = "drafting" => rows'[e].status = Queue!None /\ Queue!Writes(e)' = {} /\ ~Entered(e)
        /\ rows'[e].status \in Queue!Card => \A w \in Queue!Writes(e)' : w[2] = "sent"
        /\ \A q \in Requests : press'[q].pc = "ledger" /\ press'[q].of = e => held[e] = "sent"
        /\ \A q \in Requests : press'[q].pc = "record" /\ press'[q].of = e => rows'[e].status # "open"
        /\ Entered(e) => held[e] \in {"sent", "away"} \/ session \in {"ended", "gone"}
        /\ Entered(e) => \/ rows'[e].status \in {"sent", "blocked", "dismissed"}
                         \/ \E w \in Queue!Writes(e)' : w[2] = "sent"
    BY DEF Written, Quiet, Entered
  <2>1. CASE e = t
    BY <1>1, <1>3, <2>1 DEF RetryInv, Written, Queue!Card, Queue!None
  <2>2. CASE e # t
    BY <1>1, <2>2 DEF RetryInv, Written
  <2> QED BY <2>1, <2>2
<1>7. Retried'
  BY <1>4 DEF RetryInv, Retried, Quiet
<1> QED BY <1>5, <1>6, <1>7 DEF RetryInv

LEMMA WriteSentKeeps == ASSUME QueueTypes, RetryInv, NEW r \in Requests, Queue!WriteSent(r) PROVE RetryInv'
<1>1. PICK t \in Drafts : t = press[r].of
  BY WriteSentDoes
<1>2. /\ press[r].pc = "write" /\ press[r].kind = "sent"
      /\ UNCHANGED <<session, held, writing, writes, inbox, entries, page, spent>>
      /\ \A q \in Requests \ {r} : press'[q] = press[q]
      /\ press'[r].of = t /\ press'[r].pc = "record" /\ press'[r].retry = press[r].retry
      /\ \A e \in Drafts \ {t} : rows'[e] = rows[e]
      /\ rows'[t].status \in {"sent", "blocked", "dismissed"}
  BY <1>1, WriteSentDoes, PressGoesOn
<1>3. ~(press[r].retry /\ Quiet(t))
  BY <1>1, <1>2 DEF RetryInv, Retried
<1> QED BY <1>1, <1>2, <1>3, RowWritten

LEMMA WriteDismissedKeeps ==
  ASSUME QueueTypes, RetryInv, NEW r \in Requests, Queue!WriteDismissed(r)
  PROVE RetryInv'
<1>1. PICK t \in Drafts : t = press[r].of
  BY WriteDismissedDoes
<1>2. /\ press[r].pc = "write"
      /\ UNCHANGED <<session, held, writing, writes, inbox, entries, page, spent>>
      /\ \A q \in Requests \ {r} : press'[q] = press[q]
      /\ press'[r].of = t /\ press'[r].pc = "done" /\ press'[r].retry = press[r].retry
      /\ \A e \in Drafts \ {t} : rows'[e] = rows[e]
      /\ rows'[t].status \in {"sent", "blocked", "dismissed"}
  BY <1>1, WriteDismissedDoes, PressGoesOn
<1> QED BY <1>1, <1>2, RowWritten

LEMMA RecordKeeps == ASSUME QueueTypes, RetryInv, NEW r \in Requests, Queue!Record(r) PROVE RetryInv'
<1>1. PICK t \in Drafts : t = press[r].of
  BY RecordDoes
<1>2. /\ press[r].pc = "record" /\ UNCHANGED <<session, held, writing, writes, rows, inbox, page>>
      /\ spent'.spoiled = spent.spoiled
      /\ \A q \in Requests \ {r} : press'[q] = press[q]
      /\ press'[r].of = t /\ press'[r].pc = "done" /\ press'[r].retry = press[r].retry
      /\ entries' = entries \cup {<<r, t>>} \/ entries' = entries
  BY <1>1, RecordDoes, PressGoesOn
<1>3. ~(press[r].retry /\ Quiet(t))
  BY <1>1, <1>2 DEF RetryInv, Retried
<1>4. \A e \in Drafts : Queue!Writes(e)' = Queue!Writes(e)
  BY <1>2 DEF Queue!Writes
<1>5. /\ held[t] = "away" \/ session \in {"ended", "gone"}
      /\ rows[t].status \in Queue!Card
  BY <1>1, <1>2 DEF RetryInv, Order
<1>6. Order'
  BY <1>1, <1>2, <1>4 DEF RetryInv, Order
<1>7. \A e \in Drafts \ {t} : Entered(e)' => Entered(e)
  BY <1>2 DEF Entered
<1>8. Written'
  <2> SUFFICES ASSUME NEW e \in Drafts, Quiet(e) PROVE
        /\ e \in writing /\ held[e] = "drafting" => rows[e].status = Queue!None /\ Queue!Writes(e)' = {} /\ ~Entered(e)'
        /\ rows[e].status \in Queue!Card => \A w \in Queue!Writes(e)' : w[2] = "sent"
        /\ \A q \in Requests : press'[q].pc = "ledger" /\ press'[q].of = e => held[e] = "sent"
        /\ \A q \in Requests : press'[q].pc = "record" /\ press'[q].of = e => rows[e].status # "open"
        /\ Entered(e)' => held[e] \in {"sent", "away"} \/ session \in {"ended", "gone"}
        /\ Entered(e)' => \/ rows[e].status \in {"sent", "blocked", "dismissed"}
                          \/ \E w \in Queue!Writes(e)' : w[2] = "sent"
    BY <1>2 DEF Written, Quiet
  <2>1. CASE e = t
    <3>1. ~(t \in writing /\ held[t] = "drafting")
      BY <1>5, <2>1 DEF RetryInv, Written, Queue!Card, Queue!None
    <3>2. rows[t].status \in {"sent", "blocked", "dismissed"}
      BY <1>1, <1>2, <1>5, <2>1 DEF RetryInv, Written, Queue!Card
    <3> QED BY <1>2, <1>4, <1>5, <2>1, <3>1, <3>2 DEF RetryInv, Written
  <2>2. CASE e # t
    BY <1>2, <1>4, <1>7, <2>2 DEF RetryInv, Written
  <2> QED BY <2>1, <2>2
<1>9. Retried'
  <2> SUFFICES ASSUME NEW q \in Requests, press'[q].retry, press'[q].of \notin spent'.spoiled
               PROVE  /\ <<q, press'[q].of>> \notin entries'
                      /\ press'[q].pc = "done" \/ (press'[q].pc = "write" /\ press'[q].kind = "dismissed")
    BY DEF Retried, Quiet
  <2>1. CASE q = r
    <3>1. FALSE
      BY <1>1, <1>2, <1>3, <2>1 DEF Quiet
    <3> QED BY <3>1
  <2>2. CASE q # r
    <3>1. press'[q] = press[q] /\ (<<q, press[q].of>> \in entries' => <<q, press[q].of>> \in entries)
      BY <1>2, <2>2
    <3> QED BY <1>2, <2>2, <3>1 DEF RetryInv, Retried, Quiet
  <2> QED BY <2>1, <2>2
<1> QED BY <1>6, <1>8, <1>9 DEF RetryInv

-----------------------------------------------------------------------------
DraftsInv == QueueTypes /\ PageInv /\ RetryInv

LEMMA DraftsInit == Queue!DraftsAssumption /\ Queue!Init => DraftsInv
<1> SUFFICES ASSUME Queue!DraftsAssumption, Queue!Init PROVE DraftsInv
  OBVIOUS
<1>1. QueueTypes
  BY TypesInit
<1>2. PageInv
  BY BothCounted DEF Queue!Init, Queue!NoPage, PageInv, OneCardEach
<1>3. Order
  BY DEF Queue!Init, Order, Queue!Writes, Queue!Idle
<1>4. Written
  BY DEF Queue!Init, Written, Entered, Queue!Idle, Queue!Card, Queue!None
<1>5. Retried
  BY DEF Queue!Init, Retried, Queue!Idle
<1> QED BY <1>1, <1>2, <1>3, <1>4, <1>5 DEF DraftsInv, RetryInv

LEMMA DraftsNext == Queue!DraftsAssumption /\ DraftsInv /\ [Queue!Next]_Queue!vars => DraftsInv'
<1> SUFFICES ASSUME Queue!DraftsAssumption, QueueTypes, PageInv, RetryInv, [Queue!Next]_Queue!vars PROVE DraftsInv'
  BY DEF DraftsInv
<1>1. ASSUME NEW t \in Drafts, Queue!Draft(t) PROVE DraftsInv'
  <2>1. UNCHANGED <<session, page>>
    BY <1>1 DEF Queue!Draft
  <2> QED BY <1>1, <2>1, DraftDoes, PageStays, DraftingKeeps DEF DraftsInv
<1>2. ASSUME NEW t \in Drafts, Queue!Regenerate(t) PROVE DraftsInv'
  <2>1. UNCHANGED <<session, page>>
    BY <1>2 DEF Queue!Regenerate
  <2> QED BY <1>2, <2>1, RegenerateDoes, PageStays, RegenerateKeeps DEF DraftsInv
<1>3. ASSUME NEW t \in Drafts, Queue!Settle(t) PROVE DraftsInv'
  <2>1. UNCHANGED <<session, page>>
    BY <1>3 DEF Queue!Settle
  <2> QED BY <1>3, <2>1, SettleDoes, PageStays, SettleKeeps DEF DraftsInv
<1>4. CASE Queue!Land
  <2>1. UNCHANGED <<session, page>>
    BY <1>4 DEF Queue!Land
  <2> QED BY <1>4, <2>1, LandDoes, PageStays, LandKeeps DEF DraftsInv
<1>5. CASE Queue!Detach \/ Queue!Resume
  <2>1. /\ QueueTypes' /\ RowsStay /\ UNCHANGED <<held, writing, writes, rows, press, entries, spent>>
        /\ page' = [page EXCEPT !.steady = FALSE]
    BY <1>5, DetachDoes
  <2>2. session' # "down" /\ (session \in {"ended", "gone"} => session' \in {"ended", "gone"})
    BY <1>5 DEF Queue!Detach, Queue!Resume
  <2> QED BY <2>1, <2>2, PageStays, NothingDrafted DEF DraftsInv
<1>6. CASE Queue!Restart
  BY <1>6, RestartDoes, NoPageInv, RestartKeeps DEF DraftsInv
<1>7. ASSUME NEW r \in Requests, Queue!PressFollowUp(r) PROVE DraftsInv'
  <2>1. /\ QueueTypes' /\ RowsStay /\ HeldStays /\ press[r].pc = "idle"
        /\ press'[r].pc = "done" /\ \A q \in Requests \ {r} : press'[q] = press[q]
        /\ UNCHANGED <<session, held, writing, writes, rows, entries, page, spent>>
    BY <1>7, PressFollowUpDoes
  <2> QED BY <2>1, PageStays, PressKeeps DEF DraftsInv
<1>8. ASSUME NEW r \in Requests, Queue!PressLive(r) PROVE DraftsInv'
  <2>1. QueueTypes' /\ RowsStay /\ HeldStays /\ UNCHANGED <<session, page>>
    BY <1>8, PressLiveDoes
  <2> QED BY <1>8, <2>1, PageStays, PressLiveKeeps DEF DraftsInv
<1>9. ASSUME NEW r \in Requests, Queue!DismissLive(r) PROVE DraftsInv'
  <2>1. QueueTypes' /\ RowsStay /\ HeldStays /\ UNCHANGED <<session, page>>
    BY <1>9, DismissLiveDoes
  <2> QED BY <1>9, <2>1, PageStays, DismissLiveKeeps DEF DraftsInv
<1>10. ASSUME NEW r \in Requests, Queue!Send(r) PROVE DraftsInv'
  <2>1. QueueTypes' /\ RowsStay /\ HeldStays /\ UNCHANGED <<session, page>>
    BY <1>10, SendDoes
  <2> QED BY <1>10, <2>1, PageStays, SendKeeps DEF DraftsInv
<1>11. ASSUME NEW r \in Requests, Queue!Ledger(r) PROVE DraftsInv'
  <2>1. QueueTypes' /\ RowsStay /\ HeldStays /\ UNCHANGED <<session, page>>
    BY <1>11, LedgerDoes
  <2> QED BY <1>11, <2>1, PageStays, LedgerKeeps DEF DraftsInv
<1>12. ASSUME NEW r \in Requests, Queue!Look(r) PROVE DraftsInv'
  <2>1. QueueTypes' /\ RowsStay /\ HeldStays /\ UNCHANGED <<session, page>>
    BY <1>12, LookDoes
  <2> QED BY <1>12, <2>1, PageStays, LookKeeps DEF DraftsInv
<1>13. ASSUME NEW r \in Requests, Queue!WriteSent(r) PROVE DraftsInv'
  <2>1. QueueTypes' /\ RowsStay /\ HeldStays /\ UNCHANGED <<session, page>>
    BY <1>13, WriteSentDoes
  <2> QED BY <1>13, <2>1, PageStays, WriteSentKeeps DEF DraftsInv
<1>14. ASSUME NEW r \in Requests, Queue!Record(r) PROVE DraftsInv'
  <2>1. QueueTypes' /\ RowsStay /\ HeldStays /\ UNCHANGED <<session, page>>
    BY <1>14, RecordDoes
  <2> QED BY <1>14, <2>1, PageStays, RecordKeeps DEF DraftsInv
<1>15. ASSUME NEW r \in Requests, Queue!WriteDismissed(r) PROVE DraftsInv'
  <2>1. QueueTypes' /\ RowsStay /\ HeldStays /\ UNCHANGED <<session, page>>
    BY <1>15, WriteDismissedDoes
  <2> QED BY <1>15, <2>1, PageStays, WriteDismissedKeeps DEF DraftsInv
<1>16. CASE Queue!Ask("list") \/ Queue!Ask("home")
  BY <1>16, AskDoes, NothingDrafted DEF DraftsInv
<1>17. CASE Queue!ReadSessions
  BY <1>17, ReadSessionsDoes, NothingDrafted DEF DraftsInv
<1>18. CASE Queue!ReadStored
  BY <1>18, ReadStoredDoes, NothingDrafted DEF DraftsInv
<1>19. CASE Queue!AnswerList
  BY <1>19, AnswerListDoes, NothingDrafted DEF DraftsInv
<1>20. CASE Queue!AnswerHome
  BY <1>20, AnswerHomeDoes, NothingDrafted DEF DraftsInv
<1>21. CASE UNCHANGED Queue!vars
  <2>1. /\ UNCHANGED <<session, held, writing, writes, rows, inbox, press, entries, page, spent>>
    BY <1>21 DEF Queue!vars
  <2>2. QueueTypes' /\ RowsStay /\ HeldStays
    BY <2>1 DEF QueueTypes, RowsStay, HeldStays
  <2> QED BY <2>1, <2>2, PageStays, NothingDrafted DEF DraftsInv
<1> QED BY <1>1, <1>2, <1>3, <1>4, <1>5, <1>6, <1>7, <1>8, <1>9, <1>10, <1>11, <1>12, <1>13,
           <1>14, <1>15, <1>16, <1>17, <1>18, <1>19, <1>20, <1>21 DEF Queue!Next

(* Presses that cross do not undo one another, however many there are and   *)
(* whatever a runtime still writes: markStoredSent and dismissStored change *)
(* only a row that is not settled yet, and the moment of sending is stamped *)
(* once.                                                                    *)
THEOREM PressesStand == Queue!DraftsAssumption => (Queue!Spec => Queue!DecisionsStand)
<1> SUFFICES ASSUME Queue!DraftsAssumption PROVE Queue!Spec => Queue!DecisionsStand OBVIOUS
<1> DEFINE Stands ==
      \A e \in Drafts :
        /\ rows[e].sentAt # Queue!None => rows'[e].sentAt = rows[e].sentAt
        /\ rows[e].status \in {"sent", "dismissed"} /\ rows'[e].status # rows[e].status =>
             \E w \in writes \ writes' : w[1] = e
<1>1. DraftsInv /\ [Queue!Next]_Queue!vars => Stands
  <2> SUFFICES ASSUME QueueTypes, [Queue!Next]_Queue!vars PROVE Stands
    BY DEF DraftsInv
  <2>1. CASE Queue!Land
    <3>1. PICK w \in writes :
            /\ writes' = writes \ {w}
            /\ \A t \in Drafts \ {w[1]} : rows'[t] = rows[t]
            /\ \A t \in Drafts : rows[t].sentAt # Queue!None => rows'[t].sentAt = rows[t].sentAt
      BY <2>1, LandDoes
    <3> QED BY <3>1
  <2>2. ASSUME NEW r \in Requests, Queue!WriteSent(r) PROVE Stands
    BY <2>2, WriteSentDoes
  <2>3. ASSUME NEW r \in Requests, Queue!WriteDismissed(r) PROVE Stands
    BY <2>3, WriteDismissedDoes
  <2>4. CASE rows' = rows
    BY <2>4
  <2> QED BY <2>1, <2>2, <2>3, <2>4
         DEF Queue!Next, Queue!Draft, Queue!Regenerate, Queue!Settle, Queue!Detach, Queue!Restart,
            Queue!Resume, Queue!PressFollowUp, Queue!PressLive, Queue!DismissLive,
             Queue!Send, Queue!Ledger, Queue!Look, Queue!Record, Queue!Ask, Queue!ReadSessions,
             Queue!ReadStored, Queue!AnswerList, Queue!AnswerHome, Queue!vars
<1>2. DraftsInv /\ [Queue!Next]_Queue!vars => DraftsInv'
  BY DraftsNext
<1>3. Queue!Init => DraftsInv
  BY DraftsInit
<1>4. DraftsInv /\ [Queue!Next]_Queue!vars =>
        \A e \in Drafts :
          /\ rows[e].sentAt # Queue!None => rows'[e].sentAt = rows[e].sentAt
          /\ rows[e].status \in {"sent", "dismissed"} /\ rows'[e].status # rows[e].status =>
               \E w \in writes \ writes' : w[1] = e
  BY <1>1
<1> QED BY <1>2, <1>3, <1>4, PTL DEF Queue!Spec, Queue!DecisionsStand

(* Whatever detaches, restarts or resumes while a page is put together: the *)
(* list shows each stored draft once (draftQueue leaves out what a runtime  *)
(* holds), home counts none twice if the session stood still, and the two   *)
(* pages agree (nowBand against draftQueue).                                *)
THEOREM DraftsAreCounted ==
  Queue!DraftsAssumption => (Queue!Spec => [](Queue!TypeOK /\ Queue!ListIsWhole /\ Queue!HomeCountsOnce /\ Queue!HomeAgrees))
<1> SUFFICES ASSUME Queue!DraftsAssumption
             PROVE  Queue!Spec => [](Queue!TypeOK /\ Queue!ListIsWhole /\ Queue!HomeCountsOnce /\ Queue!HomeAgrees)
  OBVIOUS
<1>1. DraftsInv => Queue!TypeOK
  <2> SUFFICES ASSUME QueueTypes, PageInv PROVE Queue!TypeOK
    BY DEF DraftsInv
  <2>1. page.count \in 0..2 * Cardinality(Drafts \cup FollowUps)
    <3>1. page.count \in Nat /\ Cardinality(Drafts \cup FollowUps) \in Nat
      BY BothCounted DEF QueueTypes, Asked
    <3> QED BY <3>1 DEF PageInv
  <2>2. \A w \in writes : w[1] \in Drafts /\ w[2] \in Queue!Card
    BY DEF QueueTypes
  <2>3. held \in [Drafts -> Queue!Card \cup {Queue!None, "drafting", "away"}]
    <3>1. HeldAs = Queue!Card \cup {Queue!None, "drafting", "away"}
      BY DEF HeldAs, RowStatuses, Queue!Card, Queue!None
    <3> QED BY <3>1 DEF QueueTypes
  <2>4. rows \in [Drafts -> [status : Queue!Card \cup {Queue!None}, sentAt : Requests \cup {Queue!None}]]
    <3>1. RowStatuses = Queue!Card \cup {Queue!None}
      BY DEF RowStatuses, Queue!Card, Queue!None
    <3> QED BY <3>1 DEF QueueTypes, Record0
  <2>5. \A r \in Requests : press[r].pc \in {"idle", "send", "ledger", "write", "record", "done"}
    BY DEF QueueTypes, Pressing
  <2> QED BY <2>1, <2>2, <2>3, <2>4, <2>5, SameCount DEF QueueTypes, Queue!TypeOK
<1>2. DraftsInv => Queue!ListIsWhole
  <2> SUFFICES ASSUME QueueTypes, PageInv, page.pc = "listed"
               PROVE  page.before \subseteq Queue!Of(page.live) /\ Cardinality(page.live) = Cardinality(Queue!Of(page.live))
    BY SameCount DEF DraftsInv, Queue!ListIsWhole
  <2> DEFINE f == [c \in page.live |-> c[1]]
  <2>1. IsFiniteSet(page.live)
    <3>1. IsFiniteSet(Queue!Card)
      <4>1. IsFiniteSet({"open"} \cup {"blocked"}) /\ IsFiniteSet({"sent"} \cup {"dismissed"})
        BY FS_Singleton, FS_Union
      <4>2. Queue!Card = ({"open"} \cup {"blocked"}) \cup ({"sent"} \cup {"dismissed"})
        BY DEF Queue!Card
      <4> QED BY <4>1, <4>2, FS_Union
    <3>2. IsFiniteSet(Cards)
      BY <3>1, FS_Product, DraftsAreFinite DEF Cards
    <3> QED BY <3>2, FS_Subset DEF QueueTypes, Asked
  <2>2. f \in Bijection(page.live, Queue!Of(page.live))
    <3>1. f \in [page.live -> Queue!Of(page.live)]
      BY DEF Queue!Of
    <3>2. \A a, b \in page.live : f[a] = f[b] => a = b
      BY DEF PageInv, OneCardEach
    <3>3. \A t \in Queue!Of(page.live) : \E c \in page.live : f[c] = t
      BY DEF Queue!Of
    <3> QED BY <3>1, <3>2, <3>3 DEF Bijection, Injection, Surjection, IsInjective
  <2>3. ExistsBijection(page.live, Queue!Of(page.live))
    BY <2>2 DEF ExistsBijection
  <2> QED BY <2>1, <2>3, FS_Bijection DEF PageInv
<1>3. DraftsInv => Queue!HomeCountsOnce
  BY SameCount DEF DraftsInv, PageInv, Queue!HomeCountsOnce
<1>4. DraftsInv => Queue!HomeAgrees
  BY HomeAgreesNow DEF DraftsInv
<1>5. DraftsInv /\ [Queue!Next]_Queue!vars => DraftsInv'
  BY DraftsNext
<1>6. Queue!Init => DraftsInv
  BY DraftsInit
<1> QED BY <1>1, <1>2, <1>3, <1>4, <1>5, <1>6, PTL DEF Queue!Spec

(* A press that is retried after it was answered adds no second reply_sent  *)
(* entry, from memory (sendDraft) or from the row (markStoredSent): unless  *)
(* the draft was spoiled, as the model says of each step that may.          *)
THEOREM RetriesStayQuiet == Queue!DraftsAssumption => (Queue!Spec => []Queue!RetriesAreQuiet)
<1> SUFFICES ASSUME Queue!DraftsAssumption PROVE Queue!Spec => []Queue!RetriesAreQuiet OBVIOUS
<1>1. DraftsInv => Queue!RetriesAreQuiet
  BY DEF DraftsInv, RetryInv, Retried, Queue!RetriesAreQuiet, Quiet
<1>2. DraftsInv /\ [Queue!Next]_Queue!vars => DraftsInv'
  BY DraftsNext
<1>3. Queue!Init => DraftsInv
  BY DraftsInit
<1> QED BY <1>1, <1>2, <1>3, PTL DEF Queue!Spec

-----------------------------------------------------------------------------
(***************************************************************************)
(* The follow-ups of a session that ended.  A buyer of the page being      *)
(* built has a row, was dropped, or is still to be taken; a row, once      *)
(* there, stays.                                                           *)
(***************************************************************************)
CONSTANTS Selected, MaxPerBuild, MaxAtSessionEnd, Builds, MaxPresses

VARIABLES followups, build, clock

Inbox == INSTANCE FollowUpInbox WITH inbox <- followups

FollowUp == [status : {Inbox!None, "draft", "sent", "dismissed"}, text : Builds \cup {Inbox!None},
             question : Builds \cup {Inbox!None}, sentAt : 0..MaxPresses]
Build == [pc : {"idle", "page", "drafting", "done"}, offset : 0..Selected, settled : SUBSET Inbox!Buyers,
          page : SUBSET Inbox!Buyers, busy : SUBSET Inbox!Buyers, dropped : SUBSET Inbox!Buyers]

InboxTypes ==
  /\ followups \in [Inbox!Buyers -> FollowUp] /\ build \in [Builds -> Build] /\ clock \in 0..MaxPresses
  /\ \A x \in Inbox!Buyers : followups[x].status = Inbox!None => followups[x] = Inbox!NoRow

(* A buyer who has been dealt with stays so. *)
Reached(b, x) == followups[x].status # Inbox!None \/ x \in build[b].dropped

Progress == \A b \in Builds :
  /\ \A x \in 1..build[b].offset : Reached(b, x)
  /\ build[b].pc = "drafting" =>
       /\ \A x \in build[b].settled : followups[x].status # Inbox!None
       /\ \A x \in Inbox!PageFrom(build[b].offset) : Reached(b, x) \/ x \in build[b].page \cup build[b].busy

InboxInv == InboxTypes /\ Progress

LEMMA InboxInit == Inbox!InboxAssumption /\ Inbox!Init => InboxInv
<1> SUFFICES ASSUME Inbox!InboxAssumption, Inbox!Init PROVE InboxInv
  OBVIOUS
<1>1. Inbox!NoRow \in FollowUp /\ Inbox!Waiting \in Build /\ Inbox!Waiting.pc = "idle" /\ Inbox!Waiting.offset = 0
  BY DEF Inbox!InboxAssumption, Inbox!NoRow, FollowUp, Inbox!Waiting, Build, Inbox!None
<1>2. InboxTypes
  BY <1>1 DEF Inbox!Init, InboxTypes, Inbox!InboxAssumption
<1>3. Progress
  BY <1>1 DEF Inbox!Init, Progress
<1> QED BY <1>2, <1>3 DEF InboxInv

(* A step of one build leaves what the others have reached. *)
LEMMA OthersGoOn ==
  ASSUME InboxInv, Inbox!InboxAssumption, NEW b \in Builds, NEW r \in Build, build' = [build EXCEPT ![b] = r],
         followups' \in [Inbox!Buyers -> FollowUp], clock' \in 0..MaxPresses,
         \A x \in Inbox!Buyers : followups'[x].status = Inbox!None => followups'[x] = Inbox!NoRow,
         \A x \in Inbox!Buyers : followups[x].status # Inbox!None => followups'[x].status # Inbox!None,
         \A x \in 1..r.offset : followups'[x].status # Inbox!None \/ x \in r.dropped,
         r.pc = "drafting" =>
           /\ \A x \in r.settled : followups'[x].status # Inbox!None
           /\ \A x \in Inbox!PageFrom(r.offset) :
                followups'[x].status # Inbox!None \/ x \in r.dropped \/ x \in r.page \cup r.busy
  PROVE  InboxInv'
<1>1. build' \in [Builds -> Build] /\ build'[b] = r /\ \A c \in Builds \ {b} : build'[c] = build[c]
  BY DEF InboxInv, InboxTypes
<1>2. InboxTypes'
  BY <1>1 DEF InboxTypes
<1>3. \A c \in Builds : 1..build[c].offset \subseteq Inbox!Buyers /\ build[c].settled \subseteq Inbox!Buyers
  BY DEF InboxInv, InboxTypes, Build, Inbox!Buyers, Inbox!InboxAssumption
<1>4. \A o : Inbox!PageFrom(o) \subseteq Inbox!Buyers
  BY DEF Inbox!PageFrom
<1>5. ASSUME NEW c \in Builds
      PROVE  /\ \A x \in 1..build'[c].offset : followups'[x].status # Inbox!None \/ x \in build'[c].dropped
             /\ build'[c].pc = "drafting" =>
                  /\ \A x \in build'[c].settled : followups'[x].status # Inbox!None
                  /\ \A x \in Inbox!PageFrom(build'[c].offset) :
                       followups'[x].status # Inbox!None \/ x \in build'[c].dropped \/ x \in build'[c].page \cup build'[c].busy
  <2>1. CASE c = b
    BY <1>1, <2>1
  <2>2. CASE c # b
    BY <1>1, <1>3, <1>4, <2>2 DEF InboxInv, Progress, Reached
  <2> QED BY <2>1, <2>2
<1>6. Progress'
  BY <1>5 DEF Progress, Reached, Inbox!PageFrom, Inbox!Buyers
<1> QED BY <1>2, <1>6 DEF InboxInv

LEMMA InboxKept == Inbox!InboxAssumption /\ InboxInv /\ [Inbox!Next]_Inbox!vars => InboxInv'
<1> SUFFICES ASSUME Inbox!InboxAssumption, InboxInv, [Inbox!Next]_Inbox!vars PROVE InboxInv'
  OBVIOUS
<1> USE DEF Inbox!InboxAssumption
<1>0. InboxTypes /\ Progress
  BY DEF InboxInv
<1>1. ASSUME NEW b \in Builds, Inbox!NextPage(b) PROVE InboxInv'
  <2> DEFINE s == {x \in Inbox!Buyers : followups[x].status \in {"sent", "dismissed"}}
             r == [build[b] EXCEPT !.pc = "drafting", !.page = Inbox!PageFrom(build[b].offset), !.settled = s]
  <2>1. build' = [build EXCEPT ![b] = r] /\ UNCHANGED <<followups, clock>>
    BY <1>1 DEF Inbox!NextPage
  <2>2. build[b] \in Build /\ Inbox!PageFrom(build[b].offset) \subseteq Inbox!Buyers /\ s \subseteq Inbox!Buyers
    BY <1>0 DEF InboxTypes, Inbox!PageFrom
  <2>3. \A x \in s : followups[x].status # Inbox!None
    BY DEF Inbox!None
  <2> HIDE DEF s
  <2>4. /\ r \in Build /\ r.offset = build[b].offset /\ r.dropped = build[b].dropped /\ r.settled = s
        /\ r.page = Inbox!PageFrom(build[b].offset) /\ r.busy = build[b].busy
    BY <2>2 DEF Build
  <2> HIDE DEF r
  <2>5. \A x \in 1..r.offset : followups[x].status # Inbox!None \/ x \in r.dropped
    BY <1>0, <2>4 DEF Progress, Reached
  <2>6. \A x \in Inbox!PageFrom(r.offset) : followups[x].status # Inbox!None \/ x \in r.dropped \/ x \in r.page \cup r.busy
    BY <2>4
  <2>7. /\ followups' \in [Inbox!Buyers -> FollowUp] /\ clock' \in 0..MaxPresses
        /\ \A z \in Inbox!Buyers : followups[z].status # Inbox!None => followups'[z].status # Inbox!None
        /\ \A z \in Inbox!Buyers : followups'[z].status = Inbox!None => followups'[z] = Inbox!NoRow
    BY <1>0, <2>1 DEF InboxTypes
  <2>8. \A z \in 1..r.offset : followups'[z].status # Inbox!None \/ z \in r.dropped
    BY <2>1, <2>5
  <2>9. /\ \A z \in r.settled : followups'[z].status # Inbox!None
        /\ \A z \in Inbox!PageFrom(r.offset) : followups'[z].status # Inbox!None \/ z \in r.dropped \/ z \in r.page \cup r.busy
    BY <2>1, <2>3, <2>4, <2>6
  <2> QED BY <2>1, <2>4, <2>7, <2>8, <2>9, OthersGoOn
<1>2. ASSUME NEW b \in Builds, Inbox!Take(b) PROVE InboxInv'
  <2>1. PICK x \in build[b].page :
          /\ build[b].pc = "drafting"
          /\ build' = [build EXCEPT ![b].page = @ \ {x},
                            ![b].busy = IF x \in build[b].settled THEN @ ELSE @ \cup {x}]
          /\ UNCHANGED <<followups, clock>>
    BY <1>2 DEF Inbox!Take
  <2> DEFINE y == IF x \in build[b].settled THEN build[b].busy ELSE build[b].busy \cup {x}
             r == [build[b] EXCEPT !.page = @ \ {x}, !.busy = y]
  <2>2. build' = [build EXCEPT ![b] = r]
    BY <2>1
  <2>3. build[b] \in Build /\ y \subseteq Inbox!Buyers /\ x \in Inbox!Buyers
    BY <1>0 DEF InboxTypes, Build
  <2>4. build[b].busy \subseteq y /\ (x \in y \/ x \in build[b].settled)
    OBVIOUS
  <2> HIDE DEF y
  <2>5. /\ r \in Build /\ r.offset = build[b].offset /\ r.dropped = build[b].dropped /\ r.settled = build[b].settled
        /\ r.page = build[b].page \ {x} /\ r.busy = y
    BY <2>3 DEF Build
  <2> HIDE DEF r
  <2>6. \A z \in 1..r.offset : followups[z].status # Inbox!None \/ z \in r.dropped
    BY <1>0, <2>5 DEF Progress, Reached
  <2>7. \A z \in r.settled : followups[z].status # Inbox!None
    BY <1>0, <2>1, <2>5 DEF Progress, Reached
  <2>8. \A z \in Inbox!PageFrom(r.offset) : followups[z].status # Inbox!None \/ z \in r.dropped \/ z \in r.page \cup r.busy
    BY <1>0, <2>1, <2>4, <2>5 DEF Progress, Reached
  <2>9. /\ followups' \in [Inbox!Buyers -> FollowUp] /\ clock' \in 0..MaxPresses
        /\ \A z \in Inbox!Buyers : followups[z].status # Inbox!None => followups'[z].status # Inbox!None
        /\ \A z \in Inbox!Buyers : followups'[z].status = Inbox!None => followups'[z] = Inbox!NoRow
    BY <1>0, <2>1 DEF InboxTypes
  <2>10. \A z \in 1..r.offset : followups'[z].status # Inbox!None \/ z \in r.dropped
    BY <2>1, <2>6
  <2>11. /\ \A z \in r.settled : followups'[z].status # Inbox!None
         /\ \A z \in Inbox!PageFrom(r.offset) : followups'[z].status # Inbox!None \/ z \in r.dropped \/ z \in r.page \cup r.busy
    BY <2>1, <2>7, <2>8
  <2> QED BY <2>2, <2>5, <2>9, <2>10, <2>11, OthersGoOn
<1>3. ASSUME NEW b \in Builds, Inbox!Drop(b) PROVE InboxInv'
  <2>1. PICK x \in build[b].busy :
          /\ build' = [build EXCEPT ![b].busy = @ \ {x}, ![b].dropped = @ \cup {x}] /\ UNCHANGED <<followups, clock>>
    BY <1>3 DEF Inbox!Drop
  <2> DEFINE r == [build[b] EXCEPT !.busy = @ \ {x}, !.dropped = @ \cup {x}]
  <2>2. build' = [build EXCEPT ![b] = r]
    BY <2>1
  <2>3. build[b] \in Build /\ x \in Inbox!Buyers
    BY <1>0 DEF InboxTypes, Build
  <2>4. /\ r \in Build /\ r.offset = build[b].offset /\ r.dropped = build[b].dropped \cup {x}
        /\ r.settled = build[b].settled /\ r.pc = build[b].pc
        /\ r.page = build[b].page /\ r.busy = build[b].busy \ {x}
    BY <2>3 DEF Build
  <2> HIDE DEF r
  <2>5. \A z \in 1..r.offset : followups[z].status # Inbox!None \/ z \in r.dropped
    BY <1>0, <2>4 DEF Progress, Reached
  <2>6. r.pc = "drafting" =>
           /\ \A z \in r.settled : followups[z].status # Inbox!None
           /\ \A z \in Inbox!PageFrom(r.offset) : followups[z].status # Inbox!None \/ z \in r.dropped \/ z \in r.page \cup r.busy
    BY <1>0, <2>4 DEF Progress, Reached
  <2>7. /\ followups' \in [Inbox!Buyers -> FollowUp] /\ clock' \in 0..MaxPresses
        /\ \A z \in Inbox!Buyers : followups[z].status # Inbox!None => followups'[z].status # Inbox!None
        /\ \A z \in Inbox!Buyers : followups'[z].status = Inbox!None => followups'[z] = Inbox!NoRow
    BY <1>0, <2>1 DEF InboxTypes
  <2>8. \A z \in 1..r.offset : followups'[z].status # Inbox!None \/ z \in r.dropped
    BY <2>1, <2>5
  <2>9. r.pc = "drafting" =>
           /\ \A z \in r.settled : followups'[z].status # Inbox!None
           /\ \A z \in Inbox!PageFrom(r.offset) : followups'[z].status # Inbox!None \/ z \in r.dropped \/ z \in r.page \cup r.busy
    BY <2>1, <2>6
  <2> QED BY <2>2, <2>4, <2>7, <2>8, <2>9, OthersGoOn
<1>4. ASSUME NEW b \in Builds, Inbox!Save(b) PROVE InboxInv'
  <2>1. PICK x \in build[b].busy : Inbox!Saved(b, x) /\ build' = [build EXCEPT ![b].busy = @ \ {x}] /\ clock' = clock
    BY <1>4 DEF Inbox!Save
  <2> DEFINE r == [build[b] EXCEPT !.busy = @ \ {x}]
             t == IF followups[x].status = "draft" THEN b ELSE followups[x].text
             new == [Inbox!NoRow EXCEPT !.status = "draft", !.text = b, !.question = b]
             old == [followups[x] EXCEPT !.question = b, !.text = t]
             row == IF followups[x] = Inbox!NoRow THEN new ELSE old
  <2>2. build' = [build EXCEPT ![b] = r]
    BY <2>1
  <2>12. followups' = [followups EXCEPT ![x] = row]
    <3>1. CASE followups[x] = Inbox!NoRow
      BY <2>1, <3>1 DEF Inbox!Saved
    <3>2. CASE followups[x] # Inbox!NoRow /\ followups[x].status = "draft"
      BY <2>1, <3>2 DEF Inbox!Saved
    <3>3. CASE followups[x] # Inbox!NoRow /\ followups[x].status # "draft"
      BY <2>1, <3>3 DEF Inbox!Saved
    <3> QED BY <3>1, <3>2, <3>3
  <2>3. build[b] \in Build /\ x \in Inbox!Buyers /\ followups[x] \in FollowUp
    BY <1>0 DEF InboxTypes, Build
  <2>13. new \in FollowUp /\ new.status # Inbox!None
    <3>1. Inbox!NoRow \in FollowUp
      BY DEF Inbox!NoRow, FollowUp
    <3> QED BY <3>1 DEF FollowUp, Inbox!None
  <2>14. old \in FollowUp /\ old.status = followups[x].status
    <3>1. t \in Builds \cup {Inbox!None}
      BY <2>3 DEF FollowUp
    <3> HIDE DEF t
    <3> QED BY <2>3, <3>1 DEF FollowUp
  <2>15. followups[x].status = Inbox!None => followups[x] = Inbox!NoRow
    BY <1>0, <2>3 DEF InboxTypes
  <2> HIDE DEF new, old
  <2>4. row \in FollowUp /\ row.status # Inbox!None
    BY <2>13, <2>14, <2>15
  <2> HIDE DEF row
  <2>5. /\ r \in Build /\ r.offset = build[b].offset /\ r.dropped = build[b].dropped
        /\ r.settled = build[b].settled /\ r.pc = build[b].pc
        /\ r.page = build[b].page /\ r.busy = build[b].busy \ {x}
    BY <2>3 DEF Build
  <2> HIDE DEF r
  <2>6. followups' \in [Inbox!Buyers -> FollowUp] /\ followups'[x].status # Inbox!None /\ \A z \in Inbox!Buyers \ {x} : followups'[z] = followups[z]
    BY <1>0, <2>12, <2>3, <2>4 DEF InboxTypes
  <2>7. /\ \A z \in Inbox!Buyers : followups[z].status # Inbox!None => followups'[z].status # Inbox!None
        /\ \A z \in Inbox!Buyers : followups'[z].status = Inbox!None => followups'[z] = Inbox!NoRow
    BY <1>0, <2>6 DEF InboxTypes
  <2>8. 1..r.offset \subseteq Inbox!Buyers /\ Inbox!PageFrom(r.offset) \subseteq Inbox!Buyers /\ r.settled \subseteq Inbox!Buyers
    BY <2>5 DEF Build, Inbox!Buyers, Inbox!PageFrom
  <2>9. \A z \in 1..r.offset : followups'[z].status # Inbox!None \/ z \in r.dropped
    BY <1>0, <2>5, <2>7, <2>8 DEF Progress, Reached
  <2>10. r.pc = "drafting" =>
           /\ \A z \in r.settled : followups'[z].status # Inbox!None
           /\ \A z \in Inbox!PageFrom(r.offset) : followups'[z].status # Inbox!None \/ z \in r.dropped \/ z \in r.page \cup r.busy
    BY <1>0, <2>5, <2>6, <2>7, <2>8 DEF Progress, Reached
  <2>11. clock' \in 0..MaxPresses
    BY <1>0, <2>1 DEF InboxTypes
  <2> QED BY <2>2, <2>5, <2>6, <2>7, <2>9, <2>10, <2>11, OthersGoOn
<1>5. ASSUME NEW b \in Builds, Inbox!PageEnds(b) PROVE InboxInv'
  <2> DEFINE reached == build[b].offset + MaxPerBuild
             o == IF reached > Selected THEN Selected ELSE reached
             to == IF reached >= Selected \/ reached >= MaxAtSessionEnd THEN "done" ELSE "page"
             r == [build[b] EXCEPT !.offset = o, !.pc = to]
  <2>1. /\ build[b].pc = "drafting" /\ build[b].page = {} /\ build[b].busy = {}
        /\ build' = [build EXCEPT ![b] = r] /\ UNCHANGED <<followups, clock>>
    BY <1>5 DEF Inbox!PageEnds
  <2>2. build[b] \in Build /\ build[b].offset \in 0..Selected
    BY <1>0 DEF InboxTypes, Build
  <2>3. /\ o \in 0..Selected /\ o <= build[b].offset + MaxPerBuild
        /\ to \in {"page", "done"}
    BY <2>2
  <2> HIDE DEF o, to
  <2>4. r \in Build /\ r.offset = o /\ r.dropped = build[b].dropped /\ r.pc = to
    BY <2>2, <2>3 DEF Build
  <2> HIDE DEF r
  <2>5. \A z \in 1..o : z \in 1..build[b].offset \/ z \in Inbox!PageFrom(build[b].offset)
    BY <2>2, <2>3 DEF Inbox!PageFrom, Inbox!Buyers
  <2>6. \A z \in 1..r.offset : followups[z].status # Inbox!None \/ z \in r.dropped
    BY <1>0, <2>1, <2>4, <2>5 DEF Progress, Reached
  <2>7. /\ followups' \in [Inbox!Buyers -> FollowUp] /\ clock' \in 0..MaxPresses
        /\ \A z \in Inbox!Buyers : followups[z].status # Inbox!None => followups'[z].status # Inbox!None
        /\ \A z \in Inbox!Buyers : followups'[z].status = Inbox!None => followups'[z] = Inbox!NoRow
    BY <1>0, <2>1 DEF InboxTypes
  <2>8. \A z \in 1..r.offset : followups'[z].status # Inbox!None \/ z \in r.dropped
    BY <2>1, <2>6
  <2> QED BY <2>1, <2>3, <2>4, <2>7, <2>8, OthersGoOn
<1>6. ASSUME NEW x \in Inbox!Buyers, Inbox!MarkSent(x) \/ Inbox!Dismiss(x) PROVE InboxInv'
  <2>1. followups[x] \in FollowUp /\ clock \in 0..MaxPresses
    BY <1>0 DEF InboxTypes
  <2>2. clock' \in 0..MaxPresses
    BY <1>6, <2>1 DEF Inbox!MarkSent, Inbox!Dismiss
  <2>3. PICK row \in FollowUp : row.status # Inbox!None /\ followups' = [followups EXCEPT ![x] = row]
    <3>1. CASE Inbox!MarkSent(x)
      <4> DEFINE at == IF followups[x].sentAt = 0 THEN clock' ELSE followups[x].sentAt
                 row == [followups[x] EXCEPT !.status = "sent", !.sentAt = at]
      <4>1. followups' = [followups EXCEPT ![x] = row]
        BY <3>1 DEF Inbox!MarkSent
      <4>2. at \in 0..MaxPresses
        BY <2>1, <2>2 DEF FollowUp
      <4> HIDE DEF at
      <4>3. row \in FollowUp /\ row.status # Inbox!None
        BY <2>1, <4>2 DEF FollowUp, Inbox!None
      <4> QED BY <4>1, <4>3
    <3>2. CASE Inbox!Dismiss(x)
      <4> DEFINE row == [followups[x] EXCEPT !.status = "dismissed"]
      <4>1. followups' = [followups EXCEPT ![x] = row]
        BY <3>2 DEF Inbox!Dismiss
      <4>2. row \in FollowUp /\ row.status # Inbox!None
        BY <2>1 DEF FollowUp, Inbox!None
      <4> QED BY <4>1, <4>2
    <3> QED BY <1>6, <3>1, <3>2
  <2>4. build' = build
    BY <1>6 DEF Inbox!MarkSent, Inbox!Dismiss
  <2>5. /\ followups' \in [Inbox!Buyers -> FollowUp] /\ \A z \in Inbox!Buyers : followups[z].status # Inbox!None => followups'[z].status # Inbox!None
        /\ \A z \in Inbox!Buyers : followups'[z].status = Inbox!None => followups'[z] = Inbox!NoRow
    BY <1>0, <2>3 DEF InboxTypes
  <2>6. \A c \in Builds : 1..build[c].offset \subseteq Inbox!Buyers /\ build[c].settled \subseteq Inbox!Buyers
    BY <1>0 DEF InboxTypes, Build, Inbox!Buyers
  <2>7. Progress'
    BY <1>0, <2>4, <2>5, <2>6 DEF Progress, Reached, Inbox!PageFrom
  <2> QED BY <1>0, <2>2, <2>4, <2>5, <2>7 DEF InboxInv, InboxTypes
<1>7. CASE UNCHANGED Inbox!vars
  BY <1>0, <1>7 DEF InboxInv, InboxTypes, Progress, Reached, Inbox!PageFrom, Inbox!Buyers, Inbox!vars
<1> QED BY <1>1, <1>2, <1>3, <1>4, <1>5, <1>6, <1>7 DEF Inbox!Next

(* However builds and presses cross: when a build is through, every buyer   *)
(* of its pages has a row or was dropped, and counted (buildFollowUps).     *)
THEOREM BuyersAreReached == Inbox!InboxAssumption => (Inbox!Spec => [](Inbox!TypeOK /\ Inbox!EveryBuyerIsReached))
<1> SUFFICES ASSUME Inbox!InboxAssumption PROVE Inbox!Spec => [](Inbox!TypeOK /\ Inbox!EveryBuyerIsReached) OBVIOUS
<1>1. InboxInv => Inbox!TypeOK
  BY DEF InboxInv, InboxTypes, Inbox!TypeOK, FollowUp, Build
<1>2. InboxInv => Inbox!EveryBuyerIsReached
  <2> SUFFICES ASSUME InboxInv, NEW b \in Builds, build[b].pc = "done", NEW x \in 1..build[b].offset
               PROVE  followups[x] # Inbox!NoRow \/ x \in build[b].dropped
    BY DEF Inbox!EveryBuyerIsReached
  <2>1. Reached(b, x)
    BY DEF InboxInv, Progress
  <2> QED BY <2>1 DEF Reached, Inbox!NoRow
<1>3. InboxInv /\ [Inbox!Next]_Inbox!vars => InboxInv'
  BY InboxKept
<1>4. Inbox!Init => InboxInv
  BY InboxInit
<1> QED BY <1>1, <1>2, <1>3, <1>4, PTL DEF Inbox!Spec

(* What the operator decided about a follow-up stands through builds that  *)
(* read the inbox before the press and save after it (the conflict clause   *)
(* of the insert), and a dismissal through later presses.                   *)
THEOREM FollowUpsStand == Inbox!InboxAssumption => (Inbox!Spec => Inbox!DecisionsStand)
<1> SUFFICES ASSUME Inbox!InboxAssumption PROVE Inbox!Spec => Inbox!DecisionsStand OBVIOUS
<1>1. InboxInv /\ [Inbox!Next]_Inbox!vars =>
        \A x \in Inbox!Buyers :
          /\ followups[x].status \in {"sent", "dismissed"} => followups'[x].text = followups[x].text
          /\ followups[x].status = "dismissed" => followups'[x].status = "dismissed"
          /\ followups[x].sentAt # 0 => followups'[x].sentAt = followups[x].sentAt
  <2> SUFFICES ASSUME InboxTypes, [Inbox!Next]_Inbox!vars, NEW x \in Inbox!Buyers
               PROVE  /\ followups[x].status \in {"sent", "dismissed"} => followups'[x].text = followups[x].text
                      /\ followups[x].status = "dismissed" => followups'[x].status = "dismissed"
                      /\ followups[x].sentAt # 0 => followups'[x].sentAt = followups[x].sentAt
    BY DEF InboxInv
  <2>0. followups[x] \in FollowUp /\ followups \in [Inbox!Buyers -> FollowUp]
    BY DEF InboxTypes
  <2>1. ASSUME NEW b \in Builds, Inbox!Save(b) PROVE
          /\ followups[x].status \in {"sent", "dismissed"} => followups'[x].text = followups[x].text
          /\ followups[x].status = "dismissed" => followups'[x].status = "dismissed"
          /\ followups[x].sentAt # 0 => followups'[x].sentAt = followups[x].sentAt
    <3>1. PICK y \in build[b].busy : Inbox!Saved(b, y)
      BY <2>1 DEF Inbox!Save
    <3>2. CASE x # y
      BY <2>0, <3>1, <3>2 DEF Inbox!Saved
    <3>3. CASE x = y /\ followups[x] = Inbox!NoRow
      BY <2>0, <3>3 DEF Inbox!NoRow, Inbox!None
    <3>4. CASE x = y /\ followups[x] # Inbox!NoRow
      <4> DEFINE t == IF followups[x].status = "draft" THEN b ELSE followups[x].text
                 old == [followups[x] EXCEPT !.question = b, !.text = t]
      <4>4. followups' = [followups EXCEPT ![x] = IF followups[x] = Inbox!NoRow THEN [Inbox!NoRow EXCEPT !.status = "draft", !.text = b, !.question = b]
                                          ELSE old]
        BY <3>1, <3>4 DEF Inbox!Saved
      <4>1. followups'[x] = old
        BY <2>0, <3>4, <4>4
      <4>2. followups[x].status # "draft" => t = followups[x].text
        OBVIOUS
      <4> HIDE DEF t
      <4> QED BY <2>0, <4>1, <4>2 DEF FollowUp
    <3>5. followups[x] = Inbox!NoRow => followups[x].status = "none" /\ followups[x].sentAt = 0
      BY DEF Inbox!NoRow, Inbox!None
    <3> QED BY <3>2, <3>3, <3>4, <3>5
  <2>2. ASSUME NEW y \in Inbox!Buyers, Inbox!MarkSent(y) PROVE
          /\ followups[x].status \in {"sent", "dismissed"} => followups'[x].text = followups[x].text
          /\ followups[x].status = "dismissed" => followups'[x].status = "dismissed"
          /\ followups[x].sentAt # 0 => followups'[x].sentAt = followups[x].sentAt
    <3>1. CASE x # y
      BY <2>0, <2>2, <3>1 DEF Inbox!MarkSent
    <3>2. CASE x = y
      <4> DEFINE at == IF followups[x].sentAt = 0 THEN clock' ELSE followups[x].sentAt
      <4>1. followups'[x] = [followups[x] EXCEPT !.status = "sent", !.sentAt = at] /\ followups[x].status # "dismissed"
        BY <2>0, <2>2, <3>2 DEF Inbox!MarkSent
      <4>2. followups[x].sentAt # 0 => at = followups[x].sentAt
        OBVIOUS
      <4> HIDE DEF at
      <4> QED BY <2>0, <4>1, <4>2 DEF FollowUp
    <3> QED BY <3>1, <3>2
  <2>3. ASSUME NEW y \in Inbox!Buyers, Inbox!Dismiss(y) PROVE
          /\ followups[x].status \in {"sent", "dismissed"} => followups'[x].text = followups[x].text
          /\ followups[x].status = "dismissed" => followups'[x].status = "dismissed"
          /\ followups[x].sentAt # 0 => followups'[x].sentAt = followups[x].sentAt
    BY <2>0, <2>3 DEF Inbox!Dismiss, FollowUp
  <2>4. CASE followups' = followups
    BY <2>4
  <2> QED BY <2>1, <2>2, <2>3, <2>4 DEF Inbox!Next, Inbox!NextPage, Inbox!Take, Inbox!Drop, Inbox!PageEnds,
     Inbox!vars
<1>2. InboxInv /\ [Inbox!Next]_Inbox!vars => InboxInv'
  BY InboxKept
<1>3. Inbox!Init => InboxInv
  BY InboxInit
<1> QED BY <1>1, <1>2, <1>3, PTL DEF Inbox!Spec, Inbox!DecisionsStand

-----------------------------------------------------------------------------
(***************************************************************************)
(* A call to the gateway.  A turn keeps its timer from the moment it is    *)
(* asked until it is settled - but for the one that finds no streaming     *)
(* door and starts another - and it is counted by the step that settles it.*)
(***************************************************************************)
CONSTANTS Scripts, TurnLimit, GatewayDeadline, MaxTurnTime

VARIABLES turnTime, asked, door, pcOfTurn, began, timer, script, wire, buf, full, shown, final, answer, metered

Turn == INSTANCE GatewayTurn WITH
  now <- turnTime, kind <- asked, pc <- pcOfTurn, counted <- metered,
  Deadline <- GatewayDeadline, MaxTime <- MaxTurnTime

UnderWay == {"asked", "streaming", "body", "refused"}
TurnTypes ==
  /\ turnTime \in 0..MaxTurnTime /\ began \in 0..turnTime /\ asked \in Turn!Kinds
  /\ pcOfTurn \in UnderWay \cup {"idle", "settled"} /\ timer \in Int
  /\ IF asked = "stream" THEN door \in Turn!Turns ELSE door = asked
  /\ pcOfTurn = "streaming" => door = "stream"
  /\ pcOfTurn = "body" => door # "stream"

(* The timer of a turn, and of a read of sessions, is set and not yet due.  *)
TimerRuns == pcOfTurn \in UnderWay /\ asked \in Turn!Turns \cup {"activity"} =>
  /\ turnTime <= timer
  /\ IF asked = "stream" /\ door = "post" THEN timer <= began + 2 * TurnLimit ELSE timer <= began + TurnLimit

(* What the meter was told: nothing, until the turn is over. *)
Told(count) == metered = IF pcOfTurn = "settled" THEN <<count>> ELSE <<>>
IsMetered == pcOfTurn = "idle" \/ asked \in Turn!Turns => IF answer = <<>> THEN Told(FALSE) ELSE Told(TRUE)

TurnInv == TurnTypes /\ TimerRuns /\ IsMetered

LEMMA OneText == << <<>> >> # <<>>
OBVIOUS

LEMMA OneCount == \A x : Append(<<>>, x) = <<x>>
OBVIOUS

LEMMA TurnKept == ASSUME Turn!TurnAssumption, TurnInv, [Turn!Next]_Turn!vars PROVE TurnInv'
<1> USE DEF TurnInv, TurnTypes, TimerRuns, UnderWay
<1>0. turnTime \in Nat /\ began \in Nat /\ TurnLimit \in Nat /\ GatewayDeadline \in Nat /\ MaxTurnTime \in Nat /\ began <= turnTime
  BY DEF Turn!TurnAssumption
<1>1. CASE Turn!Tick
  <2>1. /\ turnTime' = turnTime + 1 /\ turnTime' <= MaxTurnTime /\ timer # turnTime /\ asked' = asked /\ began' = began
        /\ door' = door /\ pcOfTurn' = pcOfTurn /\ timer' = timer /\ answer' = answer /\ metered' = metered
    BY <1>0, <1>1 DEF Turn!Tick, Turn!call, Turn!stream
  <2>2. IsMetered'
    BY <2>1 DEF IsMetered, Told
  <2> QED BY <1>0, <2>1, <2>2
<1>2. ASSUME NEW k \in Turn!Kinds, Turn!Ask(k) PROVE TurnInv'
  BY <1>0, <1>2 DEF Turn!Ask, Turn!stream, Turn!Kinds, Turn!Turns, IsMetered, Told
<1>3. CASE Turn!NoSuchDoor
  BY <1>0, <1>3 DEF Turn!NoSuchDoor, Turn!call, Turn!stream, Turn!Kinds, Turn!Turns, IsMetered, Told
<1> DEFINE Still == asked' = asked /\ door' = door /\ turnTime' = turnTime /\ began' = began
           Settled(ok) == pcOfTurn' = "settled" /\ timer' = -1 /\ (answer' = <<>> <=> ~ok) /\ metered' = Append(metered, ok)
<1>4. ASSUME Still, asked \notin Turn!Turns, pcOfTurn' \in UnderWay \cup {"settled"}, timer' \in Int,
             pcOfTurn' # "streaming", pcOfTurn' # "settled" /\ asked = "activity" => timer' = timer /\ pcOfTurn \in UnderWay
      PROVE  TurnInv'
  BY <1>0, <1>4 DEF IsMetered, Turn!Turns
<1>5. ASSUME Still, asked \in Turn!Turns, pcOfTurn \in UnderWay, pcOfTurn' \in UnderWay, timer' = timer, metered' = metered,
             pcOfTurn' = "streaming" => door = "stream", pcOfTurn' = "body" => door # "stream"
      PROVE  TurnInv'
  <2>1. metered = <<>> /\ pcOfTurn \notin {"idle", "settled"} /\ pcOfTurn' \notin {"idle", "settled"}
    BY <1>5 DEF IsMetered, Told
  <2>2. IsMetered'
    BY <1>5, <2>1 DEF IsMetered, Told
  <2> QED BY <1>0, <1>5, <2>2
<1>6. ASSUME Still, asked \in Turn!Turns, pcOfTurn \in UnderWay, NEW ok \in BOOLEAN, Settled(ok) PROVE TurnInv'
  <2>1. metered = <<>>
    BY <1>6 DEF IsMetered, Told
  <2>2. metered' = <<ok>>
    BY <2>1, <1>6, OneCount
  <2>3. IsMetered'
    <3>1. CASE ok = TRUE
      BY <2>2, <1>6, <3>1 DEF IsMetered, Told
    <3>2. CASE ok = FALSE
      BY <2>2, <1>6, <3>2 DEF IsMetered, Told
    <3> QED BY <3>1, <3>2
  <2> QED BY <1>0, <1>6, <2>3
<1> HIDE DEF TurnInv, TimerRuns, Still, Settled
<1>7. CASE Turn!Accepted \/ Turn!Refused
  <2>1. Still
    BY <1>7 DEF Turn!Accepted, Turn!Refused, Turn!call, Still
  <2>2. CASE asked \in Turn!Turns
    <3>1. /\ pcOfTurn = "asked" /\ pcOfTurn' \in UnderWay /\ timer' = timer /\ metered' = metered
          /\ (pcOfTurn' = "streaming" => door = "stream") /\ (pcOfTurn' = "body" => door # "stream")
      BY <1>7, <2>2 DEF Turn!Accepted, Turn!Refused, Turn!Turns, TurnInv
    <3> QED BY <1>5, <2>1, <2>2, <3>1
  <2>3. CASE asked \notin Turn!Turns
    <3>1. /\ pcOfTurn = "asked" /\ pcOfTurn' \in UnderWay \cup {"settled"} /\ pcOfTurn' # "streaming"
          /\ timer' \in {timer, -1} /\ (asked = "activity" => timer' = timer)
      BY <1>7, <2>3 DEF Turn!Accepted, Turn!Refused, Turn!Turns, TurnInv, Turn!Settle, Turn!Never
    <3> QED BY <1>4, <2>1, <2>3, <3>1 DEF TurnInv
  <2> QED BY <2>2, <2>3
<1>8. CASE Turn!Body \/ Turn!RefusedText \/ Turn!Breaks \/ Turn!Expires \/ Turn!Ended
  <2>1. Still /\ pcOfTurn \in UnderWay /\ pcOfTurn' = "settled" /\ timer' = -1
    BY <1>8 DEF Turn!Body, Turn!RefusedText, Turn!Breaks, Turn!Expires, Turn!Ended, Turn!call, Still, TurnInv,
       Turn!Settle, Turn!Fails, Turn!Never
  <2>2. CASE asked \in Turn!Turns
    <3>1. Settled(TRUE) \/ Settled(FALSE)
      <4>1. door \notin {"upload", "list", "activity"}
        BY <2>2 DEF TurnInv, Turn!Turns
      <4>2. CASE Turn!Body
        <5>1. door = "post"
          BY <4>2, <2>2 DEF Turn!Body, TurnInv, Turn!Turns
        <5>2. (Turn!Settle(<< <<>> >>) /\ Turn!Count(TRUE)) \/ Turn!Fails
          BY <5>1, <4>2 DEF Turn!Body
        <5>3. CASE Turn!Settle(<< <<>> >>) /\ Turn!Count(TRUE)
          BY <5>3, <2>1, OneText DEF Settled, Turn!Settle, Turn!Count
        <5>4. CASE Turn!Fails
          BY <5>4, <2>1 DEF Settled, Turn!Settle, Turn!Fails, Turn!Count
        <5> QED BY <5>2, <5>3, <5>4
      <4>3. CASE Turn!RefusedText
        BY <4>1, <4>3, <2>1 DEF Turn!RefusedText, Settled, Turn!Settle, Turn!Fails, Turn!Count, Turn!Never
      <4>4. CASE Turn!Breaks
        BY <4>1, <4>4, <2>1 DEF Turn!Breaks, Settled, Turn!Settle, Turn!Fails, Turn!Count, Turn!Never
      <4>5. CASE Turn!Expires
        BY <4>1, <4>5, <2>1 DEF Turn!Expires, Settled, Turn!Settle, Turn!Fails, Turn!Count, Turn!Never
      <4>6. CASE Turn!Ended
        BY <4>1, <4>6, <2>1 DEF Turn!Ended, Settled, Turn!Settle, Turn!Fails, Turn!Count, Turn!Never
      <4> QED BY <1>8, <4>2, <4>3, <4>4, <4>5, <4>6
    <3> QED BY <3>1, <1>6, <2>1, <2>2
  <2>3. CASE asked \notin Turn!Turns
    BY <1>4, <2>1, <2>3
  <2> QED BY <2>2, <2>3
<1>12. CASE Turn!Frame
  <2>1. CASE pcOfTurn' = pcOfTurn /\ answer' = answer /\ timer' = timer /\ metered' = metered
    BY <2>1, <1>12 DEF Turn!Frame, Turn!call, TurnInv, TimerRuns, IsMetered, Told
  <2>2. CASE Turn!Fails
    <3>1. Still /\ pcOfTurn = "streaming" /\ Settled(FALSE) /\ asked \in Turn!Turns
      BY <2>2, <1>12 DEF Turn!Frame, Still, Settled, Turn!Settle, Turn!Fails, Turn!Count, Turn!Never, Turn!call, TurnInv, Turn!Turns
    <3> QED BY <3>1, <1>6
  <2> QED BY <2>1, <2>2, <1>12 DEF Turn!Frame
<1>13. ASSUME NEW n \in 1..Len(wire), Turn!Read(n) PROVE TurnInv'
  BY <1>13 DEF Turn!Read, Turn!call, TurnInv, TimerRuns, IsMetered, Told
<1>14. CASE UNCHANGED Turn!vars
  BY <1>14 DEF Turn!vars, Turn!call, Turn!stream, TurnInv, TimerRuns, IsMetered, Told
<1> QED BY <1>1, <1>2, <1>3, <1>7, <1>8, <1>12, <1>13, <1>14 DEF Turn!Next

(* Wherever the gateway hangs, breaks off or refuses: a turn is counted     *)
(* once, when it is over, for what it was; and neither a turn nor a read of *)
(* sessions outlasts its timer, or the two of a turn that finds no          *)
(* streaming door (whissle.ts, sessions.ts and meter.ts).                   *)
THEOREM TurnsAreMetered ==
  Turn!TurnAssumption => (Turn!Spec => [](Turn!TurnsAreCounted /\ Turn!TurnsKeepTheirLimit))
<1> SUFFICES ASSUME Turn!TurnAssumption PROVE Turn!Spec => [](Turn!TurnsAreCounted /\ Turn!TurnsKeepTheirLimit)
  OBVIOUS
<1>1. Turn!Init => TurnInv
  BY DEF Turn!Init, Turn!TurnAssumption, TurnInv, TurnTypes, TimerRuns, UnderWay, IsMetered, Told, Turn!Kinds, Turn!Turns, Turn!Never
<1>2. TurnInv => Turn!TurnsAreCounted /\ Turn!TurnsKeepTheirLimit
  <2> SUFFICES ASSUME TurnInv PROVE Turn!TurnsAreCounted /\ Turn!TurnsKeepTheirLimit
    OBVIOUS
  <2>1. Turn!TurnsKeepTheirLimit
    BY DEF TurnInv, TurnTypes, TimerRuns, UnderWay, Turn!TurnsKeepTheirLimit, Turn!TurnAssumption, Turn!Turns, Turn!Kinds
  <2>2. CASE answer = <<>>
    <3>1. asked \in Turn!Turns => metered = IF pcOfTurn = "settled" THEN <<FALSE>> ELSE <<>>
      BY <2>2 DEF TurnInv, IsMetered, Told
    <3>2. (answer # <<>>) = FALSE
      BY <2>2
    <3> QED BY <2>1, <3>1, <3>2, Zenon DEF Turn!TurnsAreCounted
  <2>3. CASE answer # <<>>
    <3>1. asked \in Turn!Turns => metered = IF pcOfTurn = "settled" THEN <<TRUE>> ELSE <<>>
      BY <2>3 DEF TurnInv, IsMetered, Told
    <3>2. (answer # <<>>) = TRUE
      BY <2>3
    <3> QED BY <2>1, <3>1, <3>2, Zenon DEF Turn!TurnsAreCounted
  <2> QED BY <2>1, <2>2, <2>3
<1>3. TurnInv /\ [Turn!Next]_Turn!vars => TurnInv'
  BY TurnKept
<1> QED BY <1>1, <1>2, <1>3, PTL DEF Turn!Spec
================================================================================
