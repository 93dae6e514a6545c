----------------------------- MODULE AuditChain -----------------------------
(***************************************************************************)
(* The append-only, hash-chained audit log of one show (actions/audit.ts). *)
(*                                                                         *)
(* `append` runs inside one Postgres transaction: take the show's advisory *)
(* lock, read the head of the log, insert a row that carries the head's    *)
(* hash, commit.  Every await in it is a point where another request may   *)
(* run, so each statement is an action of its own here.  The transaction   *)
(* may also fail at any of them (a lost connection, a restart of either    *)
(* process): it is rolled back and the lock goes with it.                  *)
(*                                                                         *)
(* Besides the writers there is an editor, who changes or removes rows     *)
(* behind the program's back: `verify` exists to notice it.                *)
(***************************************************************************)
EXTENDS Integers, Sequences

CONSTANTS
  Writers,     \* the requests that append concurrently
  Entries,     \* what an entry says: kind, actor, summary, detail, time
  MaxRows,     \* bound: no append starts once the log has this many rows
  EditorActive \* does somebody change one row outside the program?

ASSUME AuditAssumption == MaxRows \in Nat /\ EditorActive \in BOOLEAN

VARIABLES
  log,      \* the committed rows, in the order of their seq
  lock,     \* the writers holding pg_advisory_xact_lock(show)
  tx,       \* tx[w]: the state of w's append
  edited    \* where the editor broke the chain: {} or one seq

vars == <<log, lock, tx, edited>>

-----------------------------------------------------------------------------
GENESIS == <<>>

(* SHA-256 over the previous hash and every field, as the collision-free    *)
(* function the chain takes it to be.                                       *)
hashEntry(prevHash, seq, entry) == <<prevHash, seq, entry>>

Row_hashesOldSeq(prevHash, seq, entry) ==  \* mutant: hashed before seq is advanced
  [seq |-> seq, entry |-> entry, prevHash |-> prevHash,
   hash |-> hashEntry(prevHash, seq - 1, entry)]

Row(prevHash, seq, entry) ==
  [seq |-> seq, entry |-> entry, prevHash |-> prevHash,
   hash |-> hashEntry(prevHash, seq, entry)]

HeadSeq(l)  == IF l = <<>> THEN 0 ELSE l[Len(l)].seq
HeadHash(l) == IF l = <<>> THEN GENESIS ELSE l[Len(l)].hash

Broken_linksOnly(l, i) ==  \* mutant: the content is not hashed again
  l[i].prevHash # (IF i = 1 THEN GENESIS ELSE l[i - 1].hash)

(* The two tests of `verify`'s loop at the i-th row. *)
Broken(l, i) ==
  \/ l[i].prevHash # (IF i = 1 THEN GENESIS ELSE l[i - 1].hash)
  \/ l[i].hash # hashEntry(l[i].prevHash, l[i].seq, l[i].entry)

(* `verify`: the seqs at which the chain parts; it reports the first. *)
BrokenSeqs(l) == {l[i].seq : i \in {j \in 1 .. Len(l) : Broken(l, j)}}

verify(l) ==
  [ok |-> BrokenSeqs(l) = {}, 
   brokenAt |-> {s \in BrokenSeqs(l) : \A t \in BrokenSeqs(l) : s <= t}]

-----------------------------------------------------------------------------
Idle == [pc |-> "idle"]

Init ==
  /\ log = <<>>
  /\ lock = {}
  /\ tx = [w \in Writers |-> Idle]
  /\ edited = {}

(* tx(): BEGIN on a client of the pool. *)
Begin(w, e) ==
  /\ tx[w].pc \in {"idle", "done"}
  /\ Len(log) < MaxRows
  /\ tx' = [tx EXCEPT ![w] = [pc |-> "begun", entry |-> e]]
  /\ UNCHANGED <<log, lock, edited>>

Lock_shared(w) ==  \* mutant: the lock does not exclude
  /\ tx[w].pc = "begun"
  /\ lock' = lock \cup {w}
  /\ tx' = [tx EXCEPT ![w] = [pc |-> "locked", entry |-> tx[w].entry]]
  /\ UNCHANGED <<log, edited>>

(* SELECT pg_advisory_xact_lock(hashtext(showId)): blocks while held. *)
Lock(w) ==
  /\ tx[w].pc = "begun"
  /\ lock = {}
  /\ lock' = {w}
  /\ tx' = [tx EXCEPT ![w] = [pc |-> "locked", entry |-> tx[w].entry]]
  /\ UNCHANGED <<log, edited>>

ReadHead_sameSeq(w) ==  \* mutant: the new row takes the head's own seq
  /\ tx[w].pc = "locked"
  /\ tx' = [tx EXCEPT ![w] =
       [pc |-> "read", row |-> Row(HeadHash(log), HeadSeq(log), tx[w].entry)]]
  /\ UNCHANGED <<log, lock, edited>>

(* SELECT seq, hash ... ORDER BY seq DESC LIMIT 1, and the row built on it. *)
ReadHead(w) ==
  /\ tx[w].pc = "locked"
  /\ tx' = [tx EXCEPT ![w] =
       [pc |-> "read", row |-> Row(HeadHash(log), HeadSeq(log) + 1, tx[w].entry)]]
  /\ UNCHANGED <<log, lock, edited>>

(* INSERT INTO audit.  The key (show_id, seq) is unique: the statement waits *)
(* for another transaction's uncommitted row and fails on a committed one.   *)
Insert(w) ==
  /\ tx[w].pc = "read"
  /\ \A v \in Writers \ {w} : tx[v].pc = "inserted" => tx[v].row.seq # tx[w].row.seq
  /\ IF \E i \in 1 .. Len(log) : log[i].seq = tx[w].row.seq
     THEN /\ tx' = [tx EXCEPT ![w] = [pc |-> "duplicate"]]
          /\ lock' = lock \ {w}
     ELSE /\ tx' = [tx EXCEPT ![w] = [pc |-> "inserted", row |-> tx[w].row]]
          /\ UNCHANGED lock
  /\ UNCHANGED <<log, edited>>

(* COMMIT: the row becomes visible and the transaction's lock is released. *)
Commit(w) ==
  /\ tx[w].pc = "inserted"
  /\ log' = Append(log, tx[w].row)
  /\ lock' = lock \ {w}
  /\ tx' = [tx EXCEPT ![w] = [pc |-> "done"]]
  /\ UNCHANGED edited

Fail_sessionLock(w) ==  \* mutant: a session lock, which ROLLBACK keeps
  /\ tx[w].pc \in {"begun", "locked", "read", "inserted"}
  /\ tx' = [tx EXCEPT ![w] = Idle]
  /\ UNCHANGED <<log, lock, edited>>

(* Any statement fails, or the process or the database goes away: ROLLBACK, *)
(* and the append is reported to its caller as an error.                    *)
Fail(w) ==
  /\ tx[w].pc \in {"begun", "locked", "read", "inserted"}
  /\ tx' = [tx EXCEPT ![w] = Idle]
  /\ lock' = lock \ {w}
  /\ UNCHANGED <<log, edited>>

-----------------------------------------------------------------------------
(* The editor, by hand and outside the program. *)

(* The payload of a row is rewritten and its hash left alone. *)
EditEntry(i, e) ==
  /\ log[i].entry # e
  /\ log' = [log EXCEPT ![i].entry = e]
  /\ edited' = edited \cup {log[i].seq}

(* The payload is rewritten and its hash recomputed to match. *)
Rehash(i, e) ==
  /\ i < Len(log)
  /\ log[i].entry # e
  /\ log' = [log EXCEPT ![i] = Row(log[i].prevHash, log[i].seq, e)]
  /\ edited' = edited \cup {log[i + 1].seq}

(* A historical row is deleted. *)
Delete(i) ==
  /\ i < Len(log)
  /\ log' = [j \in 1 .. Len(log) - 1 |-> log[IF j < i THEN j ELSE j + 1]]
  /\ edited' = edited \cup {log[i + 1].seq}

Edit ==
  /\ EditorActive /\ edited = {}
  /\ \E i \in 1 .. Len(log) :
       \/ \E e \in Entries : EditEntry(i, e) \/ Rehash(i, e)
       \/ Delete(i)
  /\ UNCHANGED <<lock, tx>>

-----------------------------------------------------------------------------
Append_(w) == \/ Lock(w) \/ ReadHead(w) \/ Insert(w) \/ Commit(w)

Next ==
  \/ \E w \in Writers : (\E e \in Entries : Begin(w, e)) \/ Append_(w) \/ Fail(w)
  \/ Edit

(* The statements of a transaction that has begun are issued, and Postgres  *)
(* grants an advisory lock to its waiters in order.                         *)
Fairness == \A w \in Writers : SF_vars(Append_(w))

Spec == Init /\ [][Next]_vars

FairSpec == Spec /\ Fairness

-----------------------------------------------------------------------------
TypeOK ==
  /\ lock \subseteq Writers
  /\ \A i \in 1 .. Len(log) :
       log[i].seq \in Nat \ {0} /\ log[i].entry \in Entries
  /\ \A w \in Writers :
       tx[w].pc \in {"idle", "begun", "locked", "read", "inserted", "duplicate", "done"}
  /\ edited \subseteq Nat \ {0}

(* Whatever the appends of several requests do to each other, and wherever  *)
(* one of them dies, the committed log verifies: `verify` answers ok for    *)
(* every log nobody edited (audit.ts `append` against `verify`).            *)
ChainIntact == edited = {} => verify(log).ok

(* No append loses the race for its seq: the advisory lock is what makes    *)
(* the unique key a safeguard that never fires, so an audit entry is lost   *)
(* only to a fault and never to another append.                             *)
NoAppendLostToRace == \A w \in Writers : tx[w].pc # "duplicate"

(* A row that was edited, or removed from before another, is reported, and  *)
(* at the exact seq where the chain parts, however many entries have been   *)
(* appended on top of it since.                                             *)
EditReported == edited # {} => ~verify(log).ok /\ verify(log).brokenAt = edited

(* An append that began ends: nobody waits for ever on the lock of a        *)
(* transaction that was rolled back.                                        *)
AppendEnds == \A w \in Writers :
  tx[w].pc = "begun" ~> tx[w].pc \in {"idle", "duplicate", "done"}
=============================================================================
