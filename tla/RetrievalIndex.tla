---------------------------- MODULE RetrievalIndex ----------------------------
(***************************************************************************)
(* The retriever's in-memory index of one show and the epoch by which it   *)
(* knows that it is behind the listing rows (retrieval/retriever.ts,       *)
(* domain/repo.ts, shows/runtime.ts `refreshIndex`).                       *)
(*                                                                         *)
(* A write counts in the epoch when its statement is sent and in the rows  *)
(* when it commits.  A rebuild reads the rows twice, for the facts and for *)
(* the listings the question's slots are matched with, and installs both   *)
(* when the two reads are back.  Nothing keeps rebuilds apart from writes, *)
(* or from each other: every draft that finds the index stale starts one,  *)
(* and so does every write path that refreshes afterwards.                 *)
(***************************************************************************)
EXTENDS Integers, FiniteSets, TLAPS

CONSTANTS
  Writers,    \* concurrent listing writes
  Refreshing, \* those whose path refreshes the index when they have committed
  Drafts,     \* concurrent drafts
  Faults,     \* subset of {"tx", "db"}
  MaxWrites   \* bound: statements sent in a behaviour

ASSUME IndexAssumption ==
  /\ Refreshing \subseteq Writers /\ Writers \cap Drafts = {} /\ MaxWrites \in Nat

VARIABLES
  rows,     \* listing writes committed so far
  epoch,    \* listingEpoch: statements sent so far
  sent,     \* the writers whose statement is not yet committed or undone
  index,    \* the index, by the rows it was read from
  builtAt,  \* builtAtEpoch
  job       \* the rebuild of each writer or draft

vars == <<rows, epoch, sent, index, builtAt, job>>

-----------------------------------------------------------------------------
Jobs == Writers \cup Drafts

Unread == -1

(* facts, listings: the rows at each read.  quiet: no write was in flight   *)
(* while they were read, which no program variable says.                    *)
Index == [facts : Nat, listings : Nat, quiet : BOOLEAN]

Job == [pc : {"idle", "refresh", "reading"}, facts : Nat \cup {Unread},
        listings : Nat \cup {Unread}, quiet : BOOLEAN]

NoJob == [pc |-> "idle", facts |-> Unread, listings |-> Unread, quiet |-> FALSE]

Reading == [pc |-> "reading", facts |-> Unread, listings |-> Unread, quiet |-> sent = {}]

(* The runtime builds the index before anything else may use it. *)
Init ==
  /\ rows = 0 /\ epoch = 0 /\ sent = {}
  /\ index = [facts |-> 0, listings |-> 0, quiet |-> TRUE] /\ builtAt = 0
  /\ job = [j \in Jobs |-> NoJob]

stale == epoch # builtAt

----------------------------- (* listing writes *) --------------------------
Statement_unbound(w) ==  \* mutant: the executor's writes, on a bound Repo, are not counted
  /\ w \notin sent /\ job[w].pc = "idle" /\ epoch < MaxWrites
  /\ epoch' = IF w \in Refreshing THEN epoch ELSE epoch + 1
  /\ sent' = sent \cup {w}
  /\ job' = [j \in Jobs |-> [job[j] EXCEPT !.quiet = FALSE]]
  /\ UNCHANGED <<rows, index, builtAt>>

(* Repo.q: the epoch moves and the statement goes out. *)
Statement(w) ==
  /\ w \notin sent /\ job[w].pc = "idle" /\ epoch < MaxWrites
  /\ epoch' = epoch + 1
  /\ sent' = sent \cup {w}
  /\ job' = [j \in Jobs |-> [job[j] EXCEPT !.quiet = FALSE]]
  /\ UNCHANGED <<rows, index, builtAt>>

(* It commits, by itself or with its transaction. *)
Committed(w) ==
  /\ w \in sent
  /\ sent' = sent \ {w}
  /\ rows' = rows + 1
  /\ job' = IF w \in Refreshing THEN [job EXCEPT ![w].pc = "refresh"] ELSE job
  /\ UNCHANGED <<epoch, index, builtAt>>

(* It is rolled back.  The epoch has counted it and nobody refreshes. *)
RolledBack(w) ==
  /\ "tx" \in Faults /\ w \in sent
  /\ sent' = sent \ {w}
  /\ UNCHANGED <<rows, epoch, index, builtAt, job>>

-------------------------------- (* rebuild *) ------------------------------
(* refreshIndex, after a write. *)
Refresh(w) ==
  /\ job[w].pc = "refresh"
  /\ job' = [job EXCEPT ![w] = Reading]
  /\ UNCHANGED <<rows, epoch, sent, index, builtAt>>

CatchUp_ahead(x) ==  \* mutant: the epochs compared the wrong way round
  /\ x \in Drafts /\ job[x].pc = "idle" /\ builtAt > epoch
  /\ job' = [job EXCEPT ![x] = Reading]
  /\ UNCHANGED <<rows, epoch, sent, index, builtAt>>

(* A draft that finds the index stale catches up first. *)
CatchUp(x) ==
  /\ x \in Drafts /\ job[x].pc = "idle" /\ stale
  /\ job' = [job EXCEPT ![x] = Reading]
  /\ UNCHANGED <<rows, epoch, sent, index, builtAt>>

ReadFacts(j) ==
  /\ job[j].pc = "reading" /\ job[j].facts = Unread
  /\ job' = [job EXCEPT ![j].facts = rows]
  /\ UNCHANGED <<rows, epoch, sent, index, builtAt>>

ReadListings(j) ==
  /\ job[j].pc = "reading" /\ job[j].listings = Unread
  /\ job' = [job EXCEPT ![j].listings = rows]
  /\ UNCHANGED <<rows, epoch, sent, index, builtAt>>

Install_early(j) ==  \* mutant: the second read is not waited for
  /\ job[j].pc = "reading" /\ job[j].facts # Unread
  /\ index' = [facts |-> job[j].facts, listings |-> job[j].listings, quiet |-> job[j].quiet]
  /\ builtAt' = epoch
  /\ job' = [job EXCEPT ![j] = NoJob]
  /\ UNCHANGED <<rows, epoch, sent>>

(* Both reads are back: the index is replaced and takes the epoch of now. *)
Install(j) ==
  /\ job[j].pc = "reading" /\ job[j].facts # Unread /\ job[j].listings # Unread
  /\ index' = [facts |-> job[j].facts, listings |-> job[j].listings, quiet |-> job[j].quiet]
  /\ builtAt' = epoch
  /\ job' = [job EXCEPT ![j] = NoJob]
  /\ UNCHANGED <<rows, epoch, sent>>

(* A read throws: the rebuild is over and the index is what it was. *)
ReadFails(j) ==
  /\ "db" \in Faults /\ job[j].pc = "reading"
  /\ job' = [job EXCEPT ![j] = NoJob]
  /\ UNCHANGED <<rows, epoch, sent, index, builtAt>>

-----------------------------------------------------------------------------
Rebuild(j) == ReadFacts(j) \/ ReadListings(j) \/ Install(j)

Next ==
  \/ \E w \in Writers : Statement(w) \/ Committed(w) \/ RolledBack(w) \/ Refresh(w)
  \/ \E x \in Drafts : CatchUp(x)
  \/ \E j \in Jobs : Rebuild(j) \/ ReadFails(j)

Spec == Init /\ [][Next]_vars

(* The database answers what it is asked, and the event loop goes on with   *)
(* the answer.  Buyers need not ask and sellers need not write.             *)
Fairness ==
  /\ \A w \in Writers : WF_vars(Committed(w)) /\ WF_vars(Refresh(w))
  /\ \A j \in Jobs : WF_vars(Rebuild(j))

FairSpec == Spec /\ Fairness

-----------------------------------------------------------------------------
TypeOK ==
  /\ rows \in Nat /\ epoch \in Nat /\ builtAt \in Nat
  /\ sent \subseteq Writers
  /\ index \in Index
  /\ job \in [Jobs -> Job]

(* An index that was read while no write was in flight, and that does not   *)
(* call itself stale, is the listing rows as they are: the next write, in   *)
(* a transaction or out of one, makes it stale before it can be behind.     *)
(* This is what the epoch is for (repo.ts, lines 65 to 81).                 *)
QuietIndexIsExact ==
  index.quiet /\ ~stale => index.facts = rows /\ index.listings = rows

(* The backstop repairs what a write path forgot, a rollback left behind or *)
(* a failed read did not rebuild: while buyers ask and the database comes   *)
(* to answer, the index does not stay stale (retriever.ts, lines 99 to 108).*)
BuyersAsk == \A x \in Drafts : WF_vars(CatchUp(x))

ReadsRecover == <>[][\A j \in Jobs : ~ReadFails(j)]_vars

BackstopRepairs == BuyersAsk /\ ReadsRecover => []<>~stale
----------------------------- (* its proofs *) ------------------------------
(* For any number of writers, drafts and writes, an index read while no     *)
(* write was in flight is exact until it calls itself stale.                *)

(* A rebuild no write has come across holds the rows of now ...             *)
QuietJobs == \A j \in Jobs :
  job[j].pc = "reading" /\ job[j].quiet =>
    /\ sent = {}
    /\ job[j].facts # Unread => job[j].facts = rows
    /\ job[j].listings # Unread => job[j].listings = rows

(* ... and so does the index it installs, until a statement is sent.  The   *)
(* epoch only grows, so no index takes an epoch that is still to come.      *)
QuietIndex ==
  /\ builtAt <= epoch
  /\ index.quiet /\ builtAt = epoch =>
       sent = {} /\ index.facts = rows /\ index.listings = rows

IInv == TypeOK /\ QuietJobs /\ QuietIndex

LEMMA InitIInv == Init => IInv
BY DEF Init, IInv, TypeOK, QuietJobs, QuietIndex, Index, Job, NoJob, Unread

(* What a step may write into a rebuild's record leaves it one.             *)
LEMMA JobFields ==
  ASSUME NEW x \in Job
  PROVE  /\ [x EXCEPT !.quiet = FALSE] \in Job /\ [x EXCEPT !.pc = "refresh"] \in Job
         /\ \A n \in Nat : [x EXCEPT !.facts = n] \in Job /\ [x EXCEPT !.listings = n] \in Job
BY DEF Job

LEMMA NextType == TypeOK /\ [Next]_vars => TypeOK'
<1> SUFFICES ASSUME TypeOK, [Next]_vars PROVE TypeOK'
  OBVIOUS
<1> USE DEF TypeOK
<1>1. ASSUME NEW w \in Writers, Statement(w) PROVE TypeOK'
  <2>1. job' \in [Jobs -> Job] BY <1>1, JobFields DEF Statement
  <2> QED BY <1>1, <2>1 DEF Statement
<1>2. ASSUME NEW w \in Writers, Committed(w) \/ RolledBack(w) PROVE TypeOK'
  <2>1. w \in Jobs /\ job[w] \in Job BY DEF Jobs
  <2>2. [job[w] EXCEPT !.pc = "refresh"] \in Job BY <2>1, JobFields
  <2>3. job' = job \/ job' = [job EXCEPT ![w] = [job[w] EXCEPT !.pc = "refresh"]]
    BY <1>2 DEF Committed, RolledBack
  <2>4. job' \in [Jobs -> Job] BY <2>1, <2>2, <2>3
  <2> QED BY <1>2, <2>4 DEF Committed, RolledBack
<1>3. ASSUME NEW j \in Jobs, job' = [job EXCEPT ![j] = Reading] \/ job' = [job EXCEPT ![j] = NoJob]
      PROVE  job' \in [Jobs -> Job]
  <2>1. Reading \in Job /\ NoJob \in Job BY DEF Reading, NoJob, Unread, Job
  <2> QED BY <1>3, <2>1
<1>4. ASSUME NEW w \in Writers, Refresh(w) PROVE TypeOK'
  BY <1>3, <1>4 DEF Refresh, Jobs
<1>5. ASSUME NEW x \in Drafts, CatchUp(x) PROVE TypeOK'
  BY <1>3, <1>5 DEF CatchUp, Jobs
<1>6. ASSUME NEW j \in Jobs, ReadFacts(j) \/ ReadListings(j) PROVE TypeOK'
  <2>1. /\ [job[j] EXCEPT !.facts = rows] \in Job
        /\ [job[j] EXCEPT !.listings = rows] \in Job
    BY JobFields
  <2>2. \/ job' = [job EXCEPT ![j] = [job[j] EXCEPT !.facts = rows]]
        \/ job' = [job EXCEPT ![j] = [job[j] EXCEPT !.listings = rows]]
    BY <1>6 DEF ReadFacts, ReadListings
  <2>3. job' \in [Jobs -> Job] BY <2>1, <2>2
  <2> QED BY <1>6, <2>3 DEF ReadFacts, ReadListings
<1>7. ASSUME NEW j \in Jobs, Install(j) PROVE TypeOK'
  <2>1. index' \in Index BY <1>7 DEF Install, Unread, Index, Job
  <2>2. job' \in [Jobs -> Job] BY <1>3, <1>7 DEF Install
  <2> QED BY <1>7, <2>1, <2>2 DEF Install
<1>8. ASSUME NEW j \in Jobs, ReadFails(j) PROVE TypeOK'
  BY <1>3, <1>8 DEF ReadFails
<1>9. CASE UNCHANGED vars BY <1>9 DEF vars
<1> QED BY <1>1, <1>2, <1>4, <1>5, <1>6, <1>7, <1>8, <1>9 DEF Next, Rebuild

LEMMA NextQuiet == IInv /\ [Next]_vars => QuietJobs' /\ QuietIndex'
<1> SUFFICES ASSUME IInv, [Next]_vars PROVE QuietJobs' /\ QuietIndex'
  OBVIOUS
<1> USE DEF IInv, TypeOK, QuietJobs, QuietIndex
(* A statement in flight ends the quiet of every rebuild and makes the      *)
(* index stale; it commits, if it does, under that.                         *)
<1>1. ASSUME NEW w \in Writers, Statement(w) PROVE QuietJobs' /\ QuietIndex'
  BY <1>1 DEF Statement, Job
<1>2. ASSUME NEW w \in Writers, Committed(w) PROVE QuietJobs' /\ QuietIndex'
  <2>1. sent # {} BY <1>2 DEF Committed
  <2>2. \A j \in Jobs : job'[j].pc = "reading" => job[j].pc = "reading" /\ job'[j].quiet = job[j].quiet
    BY <1>2 DEF Committed, Job
  <2> QED BY <1>2, <2>1, <2>2 DEF Committed
<1>3. ASSUME NEW w \in Writers, RolledBack(w) PROVE QuietJobs' /\ QuietIndex'
  <2>1. sent # {} BY <1>3 DEF RolledBack
  <2> QED BY <1>3, <2>1 DEF RolledBack
(* A rebuild starts, reads, fails. *)
<1>4. ASSUME NEW j \in Jobs, job' = [job EXCEPT ![j] = Reading], UNCHANGED <<rows, epoch, sent, index, builtAt>>
      PROVE  QuietJobs' /\ QuietIndex'
  BY <1>4 DEF Reading
<1>5. ASSUME NEW j \in Jobs, ReadFacts(j) \/ ReadListings(j) PROVE QuietJobs' /\ QuietIndex'
  BY <1>5 DEF ReadFacts, ReadListings, Job
<1>6. ASSUME NEW j \in Jobs, ReadFails(j) PROVE QuietJobs' /\ QuietIndex'
  BY <1>6 DEF ReadFails, NoJob
(* It installs what it has read, with the epoch of now. *)
<1>7. ASSUME NEW j \in Jobs, Install(j) PROVE QuietJobs' /\ QuietIndex'
  BY <1>7 DEF Install, NoJob
<1>8. CASE UNCHANGED vars BY <1>8 DEF vars
<1> QED BY <1>1, <1>2, <1>3, <1>4, <1>5, <1>6, <1>7, <1>8 DEF Next, Rebuild, Refresh, CatchUp, Jobs

LEMMA IInvHolds == Spec => []IInv
<1>1. IInv /\ [Next]_vars => IInv' BY NextType, NextQuiet DEF IInv
<1> QED BY InitIInv, <1>1, PTL DEF Spec

(* The index, the epochs and every rebuild keep their types.                *)
THEOREM IndexTypeCorrect == Spec => []TypeOK
<1>1. IInv => TypeOK BY DEF IInv
<1> QED BY IInvHolds, <1>1, PTL

(* However many writes and rebuilds there are, an index that was read in    *)
(* quiet is the listing rows as they are for as long as it says so.         *)
THEOREM QuietExact == Spec => []QuietIndexIsExact
<1>1. IInv => QuietIndexIsExact BY DEF IInv, QuietIndex, QuietIndexIsExact, stale
<1> QED BY IInvHolds, <1>1, PTL
=============================================================================
