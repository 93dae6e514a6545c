-------------------------- MODULE AuditChainProofs --------------------------
(***************************************************************************)
(* For every set of writers and entries, and a log of any length: appends  *)
(* never collide, a log nobody edited verifies, and one that was edited is *)
(* reported broken at exactly the seq where its chain parts.               *)
(*                                                                         *)
(* The argument: the transactions between lock and commit are the holders  *)
(* of the lock, and there is at most one (LockExcludes); so the row such a *)
(* transaction has built continues the log's head (RowContinues), whatever *)
(* the editor does, who cannot change the head's seq or hash; seqs ascend  *)
(* (Ascending); and with those a row fails `verify`'s tests if and only if *)
(* its seq is where the editor broke the chain (BreaksWhereEdited).        *)
(*                                                                         *)
(* The other part is about what a show's own report says (ShowFigures).    *)
(***************************************************************************)
EXTENDS AuditChain, FiniteSets, FiniteSetTheorems, TLAPS

InTx == {"locked", "read", "inserted"}

LogIsSeq == \E S : log \in Seq(S)

TxShape ==
  /\ DOMAIN tx = Writers
  /\ \A w \in Writers :
       /\ tx[w].pc \in {"idle", "begun", "locked", "read", "inserted", "duplicate", "done"}
       /\ tx[w].pc \in {"begun", "locked"} => tx[w].entry \in Entries

LockExcludes ==
  /\ lock \subseteq Writers
  /\ \A w \in Writers : tx[w].pc \in InTx => w \in lock
  /\ \A v, w \in lock : v = w

RowContinues == \A w \in Writers : tx[w].pc \in {"read", "inserted"} =>
  \E e \in Entries : tx[w].row = Row(HeadHash(log), HeadSeq(log) + 1, e)

IsRecord(x) ==
  x = [seq |-> x.seq, entry |-> x.entry, prevHash |-> x.prevHash, hash |-> x.hash]

Rows == \A i \in 1 .. Len(log) :
  IsRecord(log[i]) /\ log[i].seq \in Nat \ {0} /\ log[i].entry \in Entries

Ascending == \A i, j \in 1 .. Len(log) : i < j => log[i].seq < log[j].seq

BreaksWhereEdited ==
  /\ edited = {} \/ \E j \in 1 .. Len(log) : edited = {log[j].seq}
  /\ \A i \in 1 .. Len(log) : Broken(log, i) <=> log[i].seq \in edited

IInv == /\ LogIsSeq /\ TxShape /\ LockExcludes /\ RowContinues
        /\ Rows /\ Ascending /\ BreaksWhereEdited

LogInv == LogIsSeq /\ Rows /\ Ascending /\ BreaksWhereEdited

-----------------------------------------------------------------------------
LEMMA LenIsNat == LogIsSeq => Len(log) \in Nat /\ DOMAIN log = 1 .. Len(log)
BY DEF LogIsSeq

(* What the four writes make of the log, row by row. *)
LEMMA AppendRows ==
  ASSUME LogIsSeq, NEW x, log' = Append(log, x)
  PROVE  /\ LogIsSeq' /\ Len(log') = Len(log) + 1
         /\ \A i \in 1 .. Len(log) : log'[i] = log[i]
         /\ log'[Len(log) + 1] = x
<1>1. PICK S : log \in Seq(S) BY DEF LogIsSeq
<1>2. log \in Seq(S \cup {x}) BY <1>1
<1>3. log' \in Seq(S \cup {x}) BY <1>2
<1> QED BY <1>2, <1>3 DEF LogIsSeq

LEMMA UpdateRows ==
  ASSUME LogIsSeq, NEW n \in 1 .. Len(log), NEW x, log' = [log EXCEPT ![n] = x]
  PROVE  /\ LogIsSeq' /\ Len(log') = Len(log)
         /\ \A i \in 1 .. Len(log) \ {n} : log'[i] = log[i]
         /\ log'[n] = x
<1>1. PICK S : log \in Seq(S) BY DEF LogIsSeq
<1>2. log \in Seq(S \cup {x}) BY <1>1
<1>3. log' \in Seq(S \cup {x}) /\ Len(log') = Len(log) BY <1>2
<1> QED BY <1>2, <1>3 DEF LogIsSeq

LEMMA DeleteRows ==
  ASSUME LogIsSeq, NEW n \in 1 .. Len(log),
         log' = [j \in 1 .. Len(log) - 1 |-> log[IF j < n THEN j ELSE j + 1]]
  PROVE  /\ LogIsSeq' /\ Len(log') = Len(log) - 1
         /\ \A i \in 1 .. Len(log) - 1 : log'[i] = log[IF i < n THEN i ELSE i + 1]
<1>1. PICK S : log \in Seq(S) BY DEF LogIsSeq
<1>2. Len(log) - 1 \in Nat BY <1>1
<1>3. \A i \in 1 .. Len(log) - 1 : log[IF i < n THEN i ELSE i + 1] \in S BY <1>1
<1>4. log' \in Seq(S) /\ Len(log') = Len(log) - 1 BY <1>2, <1>3
<1> QED BY <1>4 DEF LogIsSeq

-----------------------------------------------------------------------------
LEMMA InitIInv == Init => IInv
<1> SUFFICES ASSUME Init PROVE IInv OBVIOUS
<1>1. log = <<>> /\ Len(log) = 0 BY DEF Init
<1>2. LogIsSeq BY <1>1 DEF LogIsSeq
<1>3. TxShape /\ LockExcludes /\ RowContinues
  BY DEF Init, Idle, TxShape, LockExcludes, RowContinues, InTx
<1>4. Rows /\ Ascending /\ BreaksWhereEdited
  BY <1>1 DEF Init, Rows, Ascending, BreaksWhereEdited
<1> QED BY <1>2, <1>3, <1>4 DEF IInv

(* The transactions: their shapes, and that one at a time is past the lock. *)
LEMMA NextExcludes == TxShape /\ LockExcludes /\ [Next]_vars => TxShape' /\ LockExcludes'
<1> SUFFICES ASSUME TxShape, LockExcludes, [Next]_vars PROVE TxShape' /\ LockExcludes'
  OBVIOUS
<1> USE DEF TxShape, LockExcludes, InTx
<1>1. ASSUME NEW w \in Writers, NEW e \in Entries, Begin(w, e) PROVE TxShape' /\ LockExcludes'
  BY <1>1 DEF Begin
<1>2. ASSUME NEW w \in Writers, Lock(w) PROVE TxShape' /\ LockExcludes'
  BY <1>2 DEF Lock
<1>3. ASSUME NEW w \in Writers, ReadHead(w) PROVE TxShape' /\ LockExcludes'
  BY <1>3 DEF ReadHead
<1>4. ASSUME NEW w \in Writers, Insert(w) PROVE TxShape' /\ LockExcludes'
  BY <1>4 DEF Insert
<1>5. ASSUME NEW w \in Writers, Commit(w) PROVE TxShape' /\ LockExcludes'
  BY <1>5 DEF Commit
<1>6. ASSUME NEW w \in Writers, Fail(w) PROVE TxShape' /\ LockExcludes'
  BY <1>6 DEF Fail, Idle
<1>7. CASE Edit
  BY <1>7 DEF Edit
<1>8. CASE UNCHANGED vars
  BY <1>8 DEF vars
<1> QED BY <1>1, <1>2, <1>3, <1>4, <1>5, <1>6, <1>7, <1>8 DEF Next, Append_

-----------------------------------------------------------------------------
(* The head of a log has its highest seq. *)
LEMMA HeadIsHighest ==
  ASSUME LogIsSeq, Rows, Ascending
  PROVE  /\ HeadSeq(log) \in Nat
         /\ \A i \in 1 .. Len(log) : log[i].seq <= HeadSeq(log)
<1>1. Len(log) \in Nat /\ (log = <<>> <=> Len(log) = 0) BY DEF LogIsSeq
<1>2. CASE Len(log) = 0
  BY <1>1, <1>2 DEF HeadSeq
<1>3. CASE Len(log) > 0
  <2>1. HeadSeq(log) = log[Len(log)].seq /\ Len(log) \in 1 .. Len(log)
    BY <1>1, <1>3 DEF HeadSeq
  <2>2. ASSUME NEW i \in 1 .. Len(log) PROVE log[i].seq <= log[Len(log)].seq
    <3>1. CASE i = Len(log) BY <2>1, <3>1 DEF Rows
    <3>2. CASE i < Len(log)
      <4>1. log[i].seq \in Nat /\ log[Len(log)].seq \in Nat BY <2>1 DEF Rows
      <4>2. log[i].seq < log[Len(log)].seq BY <2>1, <3>2 DEF Ascending
      <4> QED BY <4>1, <4>2
    <3> QED BY <1>1, <3>1, <3>2
  <2> QED BY <2>1, <2>2 DEF Rows
<1> QED BY <1>1, <1>2, <1>3

(* Commit appends a row that continues the head: it is not broken, and it   *)
(* breaks nothing below it.                                                 *)
LEMMA CommitKeepsLog ==
  ASSUME IInv, NEW w \in Writers, Commit(w)
  PROVE  LogInv' /\ HeadSeq(log') = HeadSeq(log) + 1
<1> DEFINE n == Len(log)
<1>1. PICK e \in Entries : tx[w].row = Row(HeadHash(log), HeadSeq(log) + 1, e)
  BY DEF IInv, RowContinues, Commit
<1> DEFINE x == Row(HeadHash(log), HeadSeq(log) + 1, e)
<1>2. log' = Append(log, x) /\ edited' = edited BY <1>1 DEF Commit
<1>3. n \in Nat /\ (log = <<>> <=> n = 0) BY DEF IInv, LogIsSeq
<1>4. HeadSeq(log) \in Nat /\ \A i \in 1 .. n : log[i].seq <= HeadSeq(log)
  BY HeadIsHighest DEF IInv
<1>5. /\ x.seq = HeadSeq(log) + 1 /\ x.entry = e /\ x.prevHash = HeadHash(log)
      /\ x.hash = hashEntry(HeadHash(log), HeadSeq(log) + 1, e)
      /\ IsRecord(x)
  BY DEF Row, IsRecord
<1> HIDE DEF x
<1>6. /\ LogIsSeq' /\ Len(log') = n + 1
      /\ \A i \in 1 .. n : log'[i] = log[i]
      /\ log'[n + 1] = x
  BY <1>2, AppendRows DEF IInv
<1>7. Rows' BY <1>3, <1>4, <1>5, <1>6 DEF IInv, Rows
<1>8. Ascending'
  <2> SUFFICES ASSUME NEW i \in 1 .. n + 1, NEW j \in 1 .. n + 1, i < j
               PROVE  log'[i].seq < log'[j].seq
    BY <1>6 DEF Ascending
  <2>1. i \in 1 .. n /\ log'[i] = log[i] BY <1>3, <1>6
  <2>2. CASE j \in 1 .. n BY <1>6, <2>1, <2>2 DEF IInv, Ascending
  <2>3. CASE j = n + 1
    <3>1. log[i].seq \in Nat /\ log[i].seq <= HeadSeq(log) BY <1>4, <2>1 DEF IInv, Rows
    <3> QED BY <1>4, <1>5, <1>6, <2>1, <2>3, <3>1
  <2> QED BY <1>3, <2>2, <2>3
<1>9. \A i \in 1 .. n : Broken(log', i) <=> Broken(log, i)
  <2>1. \A i \in 1 .. n : i # 1 => i - 1 \in 1 .. n BY <1>3
  <2> QED BY <1>6, <2>1 DEF Broken
<1>10. ~Broken(log', n + 1)
  <2>1. x.prevHash = IF n + 1 = 1 THEN GENESIS ELSE log'[n].hash
    <3>1. CASE n = 0 BY <1>3, <1>5, <3>1 DEF HeadHash
    <3>2. CASE n # 0
      <4>1. n \in 1 .. n /\ HeadHash(log) = log[n].hash BY <1>3, <3>2 DEF HeadHash
      <4> QED BY <1>3, <1>5, <1>6, <3>2, <4>1
    <3> QED BY <3>1, <3>2
  <2>2. n + 1 - 1 = n BY <1>3
  <2> QED BY <1>5, <1>6, <2>1, <2>2 DEF Broken
<1>11. x.seq \notin edited
  <2>1. CASE edited = {} BY <2>1
  <2>2. CASE edited # {}
    <3>1. PICK j \in 1 .. n : edited = {log[j].seq} BY <2>2 DEF IInv, BreaksWhereEdited
    <3>2. log[j].seq \in Nat /\ log[j].seq <= HeadSeq(log) BY <1>4 DEF IInv, Rows
    <3> QED BY <1>4, <1>5, <3>1, <3>2
  <2> QED BY <2>1, <2>2
<1>12. BreaksWhereEdited'
  <2>1. edited = {} \/ \E j \in 1 .. n + 1 : edited = {log'[j].seq}
    <3>1. \A j \in 1 .. n : j \in 1 .. n + 1 BY <1>3
    <3> QED BY <1>6, <3>1 DEF IInv, BreaksWhereEdited
  <2>2. ASSUME NEW i \in 1 .. n + 1
        PROVE  Broken(log', i) <=> log'[i].seq \in edited
    <3>1. CASE i \in 1 .. n BY <1>6, <1>9, <3>1 DEF IInv, BreaksWhereEdited
    <3>2. CASE i = n + 1 BY <1>6, <1>10, <1>11, <3>2
    <3> QED BY <1>3, <3>1, <3>2
  <2> QED BY <1>2, <1>6, <2>1, <2>2 DEF BreaksWhereEdited
<1>13. HeadSeq(log') = HeadSeq(log) + 1
  <2>1. log' # <<>> BY <1>3, <1>6
  <2> QED BY <1>5, <1>6, <2>1 DEF HeadSeq
<1> QED BY <1>6, <1>7, <1>8, <1>12, <1>13 DEF LogInv

-----------------------------------------------------------------------------
(* The editor: each edit leaves the head's seq and hash alone and breaks    *)
(* the chain at exactly one row.                                            *)
HeadKept == HeadSeq(log') = HeadSeq(log) /\ HeadHash(log') = HeadHash(log)

(* Before the edit every row follows from the one below it. *)
Chained == \A i \in 1 .. Len(log) :
  /\ log[i].prevHash = IF i = 1 THEN GENESIS ELSE log[i - 1].hash
  /\ log[i].hash = hashEntry(log[i].prevHash, log[i].seq, log[i].entry)

LEMMA UneditedIsChained ==
  ASSUME BreaksWhereEdited, edited = {}
  PROVE  Chained
BY DEF BreaksWhereEdited, Chained, Broken

LEMMA OneBreak ==
  ASSUME LogIsSeq', Rows', Ascending', NEW m \in 1 .. Len(log'), edited' = {log'[m].seq},
         \A i \in 1 .. Len(log') : Broken(log', i) <=> i = m
  PROVE  BreaksWhereEdited'
<1>1. Len(log') \in Nat BY DEF LogIsSeq
<1>2. \A i \in 1 .. Len(log') : log'[i].seq = log'[m].seq <=> i = m
  BY <1>1 DEF Ascending, Rows
<1> QED BY <1>2 DEF BreaksWhereEdited

LEMMA EditEntryKeepsLog ==
  ASSUME LogInv, edited = {}, NEW n \in 1 .. Len(log), NEW e \in Entries, EditEntry(n, e)
  PROVE  LogInv' /\ HeadKept
<1> USE DEF LogInv
<1> DEFINE x == [log[n] EXCEPT !.entry = e]
<1>1. /\ x.seq = log[n].seq /\ x.prevHash = log[n].prevHash /\ x.hash = log[n].hash
      /\ x.entry = e /\ IsRecord(x)
  <2>1. log[n] = [seq |-> log[n].seq, entry |-> log[n].entry,
                  prevHash |-> log[n].prevHash, hash |-> log[n].hash]
    BY DEF Rows, IsRecord
  <2>2. x = [seq |-> log[n].seq, entry |-> e,
             prevHash |-> log[n].prevHash, hash |-> log[n].hash]
    BY <2>1
  <2> QED BY <2>2 DEF IsRecord
<1>2. log' = [log EXCEPT ![n] = x] BY DEF EditEntry
<1> HIDE DEF x
<1>3. /\ LogIsSeq' /\ Len(log') = Len(log)
      /\ \A i \in 1 .. Len(log) \ {n} : log'[i] = log[i]
      /\ log'[n] = x
  BY <1>2, UpdateRows
<1>4. \A i \in 1 .. Len(log) : /\ log'[i].seq = log[i].seq /\ log'[i].hash = log[i].hash
                               /\ log'[i].prevHash = log[i].prevHash
  BY <1>1, <1>3
<1>5. Len(log) \in Nat /\ (log = <<>> <=> Len(log) = 0) /\ (log' = <<>> <=> Len(log) = 0)
  BY <1>3 DEF LogIsSeq
<1>6. Rows' BY <1>1, <1>3 DEF Rows
<1>7. Ascending' BY <1>3, <1>4 DEF Ascending
<1>8. edited' = {log'[n].seq} BY <1>4 DEF EditEntry
<1>9. ASSUME NEW i \in 1 .. Len(log)
      PROVE  Broken(log', i) <=> i = n
  <2>1. i # 1 => i - 1 \in 1 .. Len(log) BY <1>5
  <2>2. log'[i].prevHash = IF i = 1 THEN GENESIS ELSE log'[i - 1].hash
    BY <1>4, <2>1, UneditedIsChained DEF Chained
  <2>3. CASE i = n
    <3>1. log'[n].hash = hashEntry(log[n].prevHash, log[n].seq, log[n].entry)
      BY <1>4, UneditedIsChained DEF Chained
    <3>2. log'[n].entry = e /\ log[n].entry # e BY <1>1, <1>3 DEF EditEntry
    <3>3. log'[n].hash # hashEntry(log'[n].prevHash, log'[n].seq, log'[n].entry)
      BY <3>1, <3>2 DEF hashEntry
    <3> QED BY <2>3, <3>3 DEF Broken
  <2>4. CASE i # n
    <3>1. log'[i] = log[i] BY <1>3, <2>4
    <3>2. log'[i].hash = hashEntry(log'[i].prevHash, log'[i].seq, log'[i].entry)
      BY <3>1, UneditedIsChained DEF Chained
    <3> QED BY <2>2, <2>4, <3>2 DEF Broken
  <2> QED BY <2>3, <2>4
<1>10. BreaksWhereEdited' BY <1>3, <1>6, <1>7, <1>8, <1>9, OneBreak
<1>11. HeadKept BY <1>3, <1>4, <1>5 DEF HeadKept, HeadSeq, HeadHash
<1> QED BY <1>3, <1>6, <1>7, <1>10, <1>11

(* A rewritten row that hashes correctly is betrayed by the row above it,   *)
(* whose prevHash is the hash of what it used to say.                       *)
LEMMA RehashKeepsLog ==
  ASSUME LogInv, edited = {}, NEW n \in 1 .. Len(log), NEW e \in Entries, Rehash(n, e)
  PROVE  LogInv' /\ HeadKept
<1> USE DEF LogInv
<1> DEFINE x == Row(log[n].prevHash, log[n].seq, e)
<1>1. /\ x.seq = log[n].seq /\ x.prevHash = log[n].prevHash /\ x.entry = e
      /\ x.hash = hashEntry(log[n].prevHash, log[n].seq, e)
      /\ IsRecord(x)
  BY DEF Row, IsRecord
<1>2. log' = [log EXCEPT ![n] = x] BY DEF Rehash
<1> HIDE DEF x
<1>3. /\ LogIsSeq' /\ Len(log') = Len(log)
      /\ \A i \in 1 .. Len(log) \ {n} : log'[i] = log[i]
      /\ log'[n] = x
  BY <1>2, UpdateRows
<1>4. \A i \in 1 .. Len(log) : log'[i].seq = log[i].seq /\ log'[i].prevHash = log[i].prevHash
  BY <1>1, <1>3
<1>5. /\ Len(log) \in Nat /\ (log = <<>> <=> Len(log) = 0) /\ (log' = <<>> <=> Len(log) = 0)
      /\ n < Len(log) /\ n + 1 \in 1 .. Len(log)
  BY <1>3 DEF LogIsSeq, Rehash
<1>6. Rows' BY <1>1, <1>3 DEF Rows
<1>7. Ascending' BY <1>3, <1>4 DEF Ascending
<1>8. edited' = {log'[n + 1].seq} BY <1>4, <1>5 DEF Rehash
<1>9. log'[n].hash # log[n].hash
  <2>1. log[n].hash = hashEntry(log[n].prevHash, log[n].seq, log[n].entry)
    BY UneditedIsChained DEF Chained
  <2>2. log[n].entry # e BY DEF Rehash
  <2> QED BY <1>1, <1>3, <2>1, <2>2 DEF hashEntry
<1>10. ASSUME NEW i \in 1 .. Len(log)
       PROVE  Broken(log', i) <=> i = n + 1
  <2>1. i # 1 => i - 1 \in 1 .. Len(log) BY <1>5
  <2>2. log'[i].hash = hashEntry(log'[i].prevHash, log'[i].seq, log'[i].entry)
    <3>1. CASE i = n BY <1>1, <1>3, <3>1
    <3>2. CASE i # n BY <1>3, <3>2, UneditedIsChained DEF Chained
    <3> QED BY <3>1, <3>2
  <2>3. CASE i = n + 1
    <3>1. i # 1 /\ i - 1 = n /\ log[i].prevHash = log[n].hash
      BY <1>5, <2>3, UneditedIsChained DEF Chained
    <3> QED BY <1>4, <1>9, <2>3, <3>1 DEF Broken
  <2>4. CASE i # n + 1
    <3>1. log'[i].prevHash = IF i = 1 THEN GENESIS ELSE log[i - 1].hash
      BY <1>4, UneditedIsChained DEF Chained
    <3>2. i # 1 => log'[i - 1] = log[i - 1] BY <1>3, <1>5, <2>1, <2>4
    <3> QED BY <2>2, <2>4, <3>1, <3>2 DEF Broken
  <2> QED BY <2>3, <2>4
<1>11. BreaksWhereEdited' BY <1>3, <1>5, <1>6, <1>7, <1>8, <1>10, OneBreak
<1>12. HeadKept
  <2>1. Len(log) \in 1 .. Len(log) \ {n} BY <1>5
  <2> QED BY <1>3, <1>5, <2>1 DEF HeadKept, HeadSeq, HeadHash
<1> QED BY <1>3, <1>6, <1>7, <1>11, <1>12

(* A deleted row is missed by the row above it: the hash below the gap is   *)
(* that of a lower seq.                                                     *)
LEMMA DeleteKeepsLog ==
  ASSUME LogInv, edited = {}, NEW n \in 1 .. Len(log), Delete(n)
  PROVE  LogInv' /\ HeadKept
<1> USE DEF LogInv
<1> DEFINE old(i) == IF i < n THEN i ELSE i + 1
<1>1. /\ LogIsSeq' /\ Len(log') = Len(log) - 1
      /\ \A i \in 1 .. Len(log) - 1 : log'[i] = log[old(i)]
  BY DeleteRows DEF Delete
<1>2. /\ Len(log) \in Nat /\ n \in Nat /\ n < Len(log) /\ n + 1 \in 1 .. Len(log)
      /\ log # <<>> /\ log' # <<>> /\ Len(log') >= 1
  <2>1. Len(log) \in Nat BY LenIsNat
  <2>2. n < Len(log) BY DEF Delete
  <2>3. n \in Nat /\ n + 1 \in 1 .. Len(log) /\ Len(log) - 1 >= 1 BY <2>1, <2>2
  <2>4. log # <<>> BY <2>3
  <2>5. log' # <<>> BY <1>1, <2>3
  <2> QED BY <1>1, <2>1, <2>2, <2>3, <2>4, <2>5
<1>3. \A i \in 1 .. Len(log) - 1 : old(i) \in 1 .. Len(log)
  BY <1>2
<1>4. \A i, j \in 1 .. Len(log) - 1 : i < j => old(i) < old(j)
  BY <1>2
<1>5. old(n) = n + 1 /\ \A i \in 1 .. Len(log) - 1 : i # n /\ i # 1 => old(i - 1) = old(i) - 1
  BY <1>2
<1>6. old(Len(log) - 1) = Len(log) BY <1>2
<1>7. \A i \in 1 .. Len(log) - 1 : old(i) = 1 => i = 1 BY <1>2
<1>8. n # 1 => old(n - 1) = n - 1 BY <1>2
<1>9. 1 # n => old(1) = 1 BY <1>2
<1> HIDE DEF old
<1>10. Rows' BY <1>1, <1>3 DEF Rows
<1>11. Ascending' BY <1>1, <1>3, <1>4 DEF Ascending
<1>12. n \in 1 .. Len(log') /\ edited' = {log'[n].seq}
  BY <1>1, <1>2, <1>5 DEF Delete
<1>13. ASSUME NEW i \in 1 .. Len(log) - 1
       PROVE  Broken(log', i) <=> i = n
  <2>1. log'[i] = log[old(i)] /\ old(i) \in 1 .. Len(log) BY <1>1, <1>3
  <2>2. log'[i].hash = hashEntry(log'[i].prevHash, log'[i].seq, log'[i].entry)
    BY <2>1, UneditedIsChained DEF Chained
  <2>3. CASE i = n
    <3>1. log'[n].prevHash = log[n].hash
      <4>1. log'[n] = log[n + 1] /\ n + 1 # 1 /\ n + 1 - 1 = n BY <1>2, <1>5, <2>1, <2>3
      <4>2. log[n + 1].prevHash = log[n + 1 - 1].hash
        BY <1>2, <4>1, UneditedIsChained DEF Chained
      <4> QED BY <4>1, <4>2
    <3>2. log[n].hash = hashEntry(log[n].prevHash, log[n].seq, log[n].entry)
      BY UneditedIsChained DEF Chained
    <3>3. CASE n = 1
      BY <2>3, <3>1, <3>2, <3>3 DEF Broken, GENESIS, hashEntry
    <3>4. CASE n # 1
      <4>1. n - 1 \in 1 .. Len(log) /\ n - 1 \in 1 .. Len(log) - 1 BY <1>2, <3>4
      <4>2. log'[n - 1].hash = hashEntry(log[n - 1].prevHash, log[n - 1].seq, log[n - 1].entry)
        BY <1>1, <1>8, <3>4, <4>1, UneditedIsChained DEF Chained
      <4>3. log[n - 1].seq # log[n].seq
        <5>1. log[n - 1].seq < log[n].seq BY <1>2, <4>1 DEF Ascending
        <5> QED BY <4>1, <5>1 DEF Rows
      <4> QED BY <2>3, <3>1, <3>2, <3>4, <4>2, <4>3 DEF Broken, hashEntry
    <3> QED BY <3>3, <3>4
  <2>4. CASE i # n
    <3>1. CASE i = 1
      BY <1>9, <2>1, <2>2, <2>4, <3>1, UneditedIsChained DEF Chained, Broken
    <3>2. CASE i # 1
      <4>1. i - 1 \in 1 .. Len(log) - 1 /\ log'[i - 1] = log[old(i) - 1]
        BY <1>1, <1>2, <1>5, <2>4, <3>2
      <4>2. log[old(i)].prevHash = log[old(i) - 1].hash
        BY <1>7, <2>1, <3>2, UneditedIsChained DEF Chained
      <4> QED BY <2>1, <2>2, <2>4, <3>2, <4>1, <4>2 DEF Broken
    <3> QED BY <3>1, <3>2
  <2> QED BY <2>3, <2>4
<1>14. BreaksWhereEdited' BY <1>1, <1>10, <1>11, <1>12, <1>13, OneBreak
<1>15. HeadKept
  <2>1. Len(log) - 1 \in 1 .. Len(log) - 1 BY <1>2
  <2> QED BY <1>1, <1>2, <1>6, <2>1 DEF HeadKept, HeadSeq, HeadHash
<1> QED BY <1>1, <1>10, <1>11, <1>14, <1>15

LEMMA EditKeepsLog ==
  ASSUME LogInv, Edit
  PROVE  LogInv' /\ HeadKept
BY EditEntryKeepsLog, RehashKeepsLog, DeleteKeepsLog DEF Edit

-----------------------------------------------------------------------------
LEMMA NextIInv == IInv /\ [Next]_vars => IInv'
<1> SUFFICES ASSUME IInv, [Next]_vars PROVE IInv' OBVIOUS
<1>1. TxShape' /\ LockExcludes' BY NextExcludes DEF IInv
<1>2. ASSUME NEW w \in Writers, Commit(w) PROVE LogInv' /\ RowContinues'
  <2>1. LogInv' BY <1>2, CommitKeepsLog
  <2>2. ASSUME NEW v \in Writers PROVE tx'[v].pc \notin {"read", "inserted"}
    BY <1>1, <1>2 DEF IInv, TxShape, LockExcludes, InTx, Commit
  <2> QED BY <2>1, <2>2 DEF RowContinues
<1>3. ASSUME Edit PROVE LogInv' /\ RowContinues'
  <2>1. LogInv' /\ HeadKept BY <1>3, EditKeepsLog DEF IInv, LogInv
  <2>2. tx' = tx BY <1>3 DEF Edit
  <2> QED BY <2>1, <2>2 DEF IInv, RowContinues, HeadKept
<1>4. ASSUME NEW w \in Writers, (\E e \in Entries : Begin(w, e)) \/ Lock(w) \/ Fail(w)
      PROVE  log' = log /\ edited' = edited /\ RowContinues'
  BY <1>4 DEF Begin, Lock, Fail, Idle, IInv, TxShape, RowContinues
<1>5. ASSUME NEW w \in Writers, ReadHead(w) \/ Insert(w)
      PROVE  log' = log /\ edited' = edited /\ RowContinues'
  BY <1>5 DEF ReadHead, Insert, IInv, TxShape, RowContinues
<1>6. ASSUME UNCHANGED vars PROVE log' = log /\ edited' = edited /\ RowContinues'
  BY <1>6 DEF vars, IInv, RowContinues
<1>7. ASSUME log' = log, edited' = edited PROVE LogInv'
  BY <1>7 DEF IInv, LogInv, LogIsSeq, Rows, Ascending, BreaksWhereEdited, Broken
<1> QED
  BY <1>1, <1>2, <1>3, <1>4, <1>5, <1>6, <1>7 DEF Next, Append_, IInv, LogInv

LEMMA IInvHolds == Spec => []IInv
BY InitIInv, NextIInv, PTL DEF Spec

(* Every variable keeps its type. *)
THEOREM AuditTypeCorrect == Spec => []TypeOK
<1>1. IInv => TypeOK
  <2> SUFFICES ASSUME IInv PROVE TypeOK OBVIOUS
  <2>1. edited \subseteq Nat \ {0}
    <3>1. \A j \in 1 .. Len(log) : {log[j].seq} \subseteq Nat \ {0} BY DEF IInv, Rows
    <3> QED BY <3>1 DEF IInv, BreaksWhereEdited
  <2> QED BY <2>1 DEF IInv, TxShape, LockExcludes, Rows, TypeOK
<1> QED BY IInvHolds, <1>1, PTL

LEMMA BrokenSeqsAreEdited == IInv => BrokenSeqs(log) = edited
<1> SUFFICES ASSUME IInv PROVE BrokenSeqs(log) = edited OBVIOUS
<1>1. \A s : s \in BrokenSeqs(log) <=> \E i \in 1 .. Len(log) : Broken(log, i) /\ s = log[i].seq
  BY DEF BrokenSeqs
<1>2. \A s \in edited : \E i \in 1 .. Len(log) : s = log[i].seq
  BY DEF IInv, BreaksWhereEdited
<1>3. \A i \in 1 .. Len(log) : Broken(log, i) <=> log[i].seq \in edited
  BY DEF IInv, BreaksWhereEdited
<1>4. \A s : s \in BrokenSeqs(log) <=> s \in edited
  BY <1>1, <1>2, <1>3
<1> QED BY <1>4, Zenon

(* A log nobody edited verifies, whatever concurrent and failing appends    *)
(* wrote it.                                                                *)
THEOREM Intact == Spec => []ChainIntact
<1>1. IInv => ChainIntact BY BrokenSeqsAreEdited DEF ChainIntact, verify
<1> QED BY IInvHolds, <1>1, PTL

(* An edit is reported, at the seq where it broke the chain.                *)
THEOREM EditIsReported == Spec => []EditReported
<1>1. IInv => EditReported
  <2> SUFFICES ASSUME IInv, edited # {}
               PROVE  ~verify(log).ok /\ verify(log).brokenAt = edited
    BY DEF EditReported
  <2>1. PICK j \in 1 .. Len(log) : edited = {log[j].seq} BY DEF IInv, BreaksWhereEdited
  <2>2. log[j].seq \in Nat BY DEF IInv, Rows
  <2>3. BrokenSeqs(log) = edited BY BrokenSeqsAreEdited
  <2>4. {s \in edited : \A t \in edited : s <= t} = edited BY <2>1, <2>2
  <2> QED BY <2>3, <2>4 DEF verify
<1> QED BY IInvHolds, <1>1, PTL

(* No append ever fails on the unique key: a transaction that holds the     *)
(* lock has built a row above every committed one.                          *)
THEOREM NoRaceLost == Spec => []NoAppendLostToRace
<1>1. ASSUME IInv, NEW w \in Writers, Insert(w) PROVE tx'[w].pc # "duplicate"
  <2>0. PICK e \in Entries : tx[w].row = Row(HeadHash(log), HeadSeq(log) + 1, e)
    BY <1>1 DEF IInv, RowContinues, Insert
  <2>1. tx[w].row.seq = HeadSeq(log) + 1 BY <2>0 DEF Row
  <2>2. HeadSeq(log) \in Nat /\ \A i \in 1 .. Len(log) : log[i].seq <= HeadSeq(log)
    BY <1>1, HeadIsHighest DEF IInv
  <2>3. \A i \in 1 .. Len(log) : log[i].seq # tx[w].row.seq
    BY <1>1, <2>1, <2>2 DEF IInv, Rows
  <2> QED BY <1>1, <2>3 DEF Insert, IInv, TxShape
<1>2. IInv /\ NoAppendLostToRace /\ [Next]_vars => NoAppendLostToRace'
  <2> SUFFICES ASSUME IInv, NoAppendLostToRace, [Next]_vars PROVE NoAppendLostToRace' OBVIOUS
  <2> USE DEF NoAppendLostToRace, IInv, TxShape
  <2>1. ASSUME NEW w \in Writers, Insert(w) PROVE NoAppendLostToRace'
    BY <1>1, <2>1 DEF Insert
  <2>2. ASSUME NEW w \in Writers,
               (\E e \in Entries : Begin(w, e)) \/ Lock(w) \/ ReadHead(w) \/ Commit(w) \/ Fail(w)
        PROVE  NoAppendLostToRace'
    BY <2>2 DEF Begin, Lock, ReadHead, Commit, Fail, Idle
  <2>3. ASSUME Edit \/ UNCHANGED vars PROVE NoAppendLostToRace'
    BY <2>3 DEF Edit, vars
  <2> QED BY <2>1, <2>2, <2>3 DEF Next, Append_
<1>3. Init => NoAppendLostToRace
  <2> SUFFICES ASSUME Init, NEW w \in Writers PROVE tx[w].pc # "duplicate"
    BY DEF NoAppendLostToRace
  <2>1. tx[w] = [pc |-> "idle"] BY DEF Init, Idle
  <2> QED BY <2>1
<1> QED BY IInvHolds, <1>2, <1>3, PTL DEF Spec

-----------------------------------------------------------------------------
(***************************************************************************)
(* What a report says.  A draft's writes land in any order, and what was   *)
(* edited or decided is so in its row, or a write that says so is still to *)
(* land.  A report that nothing disturbed has read what is there now, so   *)
(* that the two blocks which count the same rows count alike.              *)
(***************************************************************************)
CONSTANTS
  Shows, Sellers, OwnerOf, Proposals, ShowOf, LeftOver, Required, RecentReports, EnoughAsked,
  EditBar, BlockBar, RollbackBar, MaxShowEvents, MaxReports, MaxReportFaults

VARIABLES
  showsOver, questions, drafts, landing, draftRows, deeds, report, filed, newestReports,
  showEvents, reportsBegun, reportFaults

Figures == INSTANCE ShowFigures WITH
  ended <- showsOver, asked <- questions, mem <- drafts, flight <- landing, row <- draftRows,
  acts <- deeds, build <- report, reports <- filed, newest <- newestReports,
  events <- showEvents, builds <- reportsBegun, faults <- reportFaults,
  Owner <- OwnerOf, Of <- ShowOf, Earlier <- LeftOver, Recent <- RecentReports,
  MaxEvents <- MaxShowEvents, MaxBuilds <- MaxReports, MaxFaults <- MaxReportFaults

DraftsTyped ==
  /\ drafts \in [Proposals -> Figures!Rows] /\ draftRows \in [Proposals -> Figures!Rows]
  /\ landing \subseteq [of : Proposals, as : Figures!Rows]

(* What was made of a draft is in its row, or on its way to it.             *)
OnItsWay == \A p \in Proposals :
  /\ drafts[p].edited => draftRows[p].edited \/ \E x \in landing : x.of = p /\ x.as.edited
  /\ drafts[p].decided => draftRows[p].decided \/ \E x \in landing : x.of = p /\ x.as.decided

EditsInv == DraftsTyped /\ OnItsWay

LEMMA RecordKeeps ==
  ASSUME EditsInv, NEW p \in Proposals, NEW now \in Figures!Rows, Figures!Record(p, now), draftRows' = draftRows
  PROVE  EditsInv'
<1> DEFINE x == [of |-> p, as |-> now]
<1>1. x \in [of : Proposals, as : Figures!Rows] /\ x.of = p /\ x.as = now
  OBVIOUS
<1>2. drafts' = [drafts EXCEPT ![p] = now] /\ landing' = landing \cup {x}
  BY DEF Figures!Record
<1> HIDE DEF x
<1>3. DraftsTyped'
  BY <1>1, <1>2 DEF EditsInv, DraftsTyped
<1>4. ASSUME NEW q \in Proposals
      PROVE  /\ drafts'[q].edited => draftRows'[q].edited \/ \E y \in landing' : y.of = q /\ y.as.edited
             /\ drafts'[q].decided => draftRows'[q].decided \/ \E y \in landing' : y.of = q /\ y.as.decided
  <2>1. CASE q = p
    <3>1. drafts'[q] = now /\ x \in landing'
      BY <1>2, <2>1 DEF EditsInv, DraftsTyped
    <3> QED BY <1>1, <2>1, <3>1
  <2>2. CASE q # p
    <3>1. drafts'[q] = drafts[q]
      BY <1>2, <2>2 DEF EditsInv, DraftsTyped
    <3> QED BY <1>2, <3>1 DEF EditsInv, OnItsWay
  <2> QED BY <2>1, <2>2
<1> QED BY <1>3, <1>4 DEF EditsInv, OnItsWay

LEMMA DraftKeeps ==
  ASSUME EditsInv, NEW p \in Proposals,
         Figures!Draft(p) \/ (\E status \in {"sent", "dismissed"}, changed \in BOOLEAN : Figures!Decide(p, status, changed))
  PROVE  EditsInv'
<1>1. PICK now \in Figures!Rows : Figures!Record(p, now)
  <2>1. CASE Figures!Draft(p)
    <3>1. PICK settled \in {<<"pending", "answer">>, <<"auto_sent", "answer">>, <<"pending", "abstain">>, <<"blocked", "block">>} :
            Figures!Record(p, [Figures!Absent EXCEPT !.status = settled[1], !.verdict = settled[2]])
      BY <2>1 DEF Figures!Draft
    <3>2. settled[1] \in {"pending", "auto_sent", "blocked"} /\ settled[2] \in {"answer", "abstain", "block"}
      BY <3>1
    <3>3. [Figures!Absent EXCEPT !.status = settled[1], !.verdict = settled[2]] \in Figures!Rows
      BY <3>2 DEF Figures!Absent, Figures!Rows
    <3> QED BY <3>1, <3>3
  <2>2. CASE \E status \in {"sent", "dismissed"}, changed \in BOOLEAN : Figures!Decide(p, status, changed)
    <3>1. PICK status \in {"sent", "dismissed"}, changed \in BOOLEAN :
            Figures!Record(p, [drafts[p] EXCEPT !.status = status, !.edited = changed, !.decided = TRUE])
      BY <2>2 DEF Figures!Decide
    <3>2. drafts[p] \in Figures!Rows
      BY DEF EditsInv, DraftsTyped
    <3>3. [drafts[p] EXCEPT !.status = status, !.edited = changed, !.decided = TRUE] \in Figures!Rows
      BY <3>2 DEF Figures!Rows
    <3> QED BY <3>1, <3>3
  <2> QED BY <2>1, <2>2
<1>2. draftRows' = draftRows
  BY DEF Figures!Draft, Figures!Decide
<1> QED BY <1>1, <1>2, RecordKeeps

(* A write lands: what the row had it keeps, and what the write says it has.*)
LEMMA LandsKeeps ==
  ASSUME EditsInv, NEW x \in landing, Figures!Lands(x)
  PROVE  EditsInv'
<1> DEFINE e == x.as.edited \/ draftRows[x.of].edited
           d == x.as.decided \/ draftRows[x.of].decided
           r == [x.as EXCEPT !.edited = e, !.decided = d]
<1>1. draftRows' = [draftRows EXCEPT ![x.of] = r] /\ landing' = landing \ {x} /\ drafts' = drafts
  BY DEF Figures!Lands
<1>2. x.of \in Proposals /\ x.as \in Figures!Rows /\ draftRows[x.of] \in Figures!Rows
  BY DEF EditsInv, DraftsTyped
<1>3. e \in BOOLEAN /\ d \in BOOLEAN
  OBVIOUS
<1>4. (e <=> x.as.edited \/ draftRows[x.of].edited) /\ (d <=> x.as.decided \/ draftRows[x.of].decided)
  OBVIOUS
<1> HIDE DEF e, d
<1>5. r \in Figures!Rows /\ r.edited = e /\ r.decided = d
  BY <1>2, <1>3 DEF Figures!Rows
<1> HIDE DEF r
<1>6. DraftsTyped'
  BY <1>1, <1>2, <1>5 DEF EditsInv, DraftsTyped
<1>7. draftRows'[x.of] = r /\ \A q \in Proposals : q # x.of => draftRows'[q] = draftRows[q]
  BY <1>1, <1>2 DEF EditsInv, DraftsTyped
<1>8. ASSUME NEW q \in Proposals
      PROVE  /\ drafts'[q].edited => draftRows'[q].edited \/ \E y \in landing' : y.of = q /\ y.as.edited
             /\ drafts'[q].decided => draftRows'[q].decided \/ \E y \in landing' : y.of = q /\ y.as.decided
  <2>1. /\ drafts[q].edited => draftRows[q].edited \/ \E y \in landing : y.of = q /\ y.as.edited
        /\ drafts[q].decided => draftRows[q].decided \/ \E y \in landing : y.of = q /\ y.as.decided
    BY DEF EditsInv, OnItsWay
  <2>2. CASE q = x.of
    BY <1>1, <1>4, <1>5, <1>7, <2>1, <2>2
  <2>3. CASE q # x.of
    BY <1>1, <1>7, <2>1, <2>3
  <2> QED BY <2>2, <2>3
<1> QED BY <1>6, <1>8 DEF EditsInv, OnItsWay

LEMMA MarkKeeps ==
  ASSUME EditsInv, NEW p \in Proposals, Figures!MarkStored(p)
  PROVE  EditsInv'
<1> DEFINE r == [draftRows[p] EXCEPT !.status = "sent", !.decided = TRUE]
<1>1. draftRows' = [draftRows EXCEPT ![p] = r] /\ landing' = landing /\ drafts' = drafts
  BY DEF Figures!MarkStored, EditsInv, DraftsTyped, Figures!Rows
<1>2. draftRows[p] \in Figures!Rows
  BY DEF EditsInv, DraftsTyped
<1>3. r \in Figures!Rows /\ r.edited = draftRows[p].edited /\ r.decided
  BY <1>2 DEF Figures!Rows
<1> HIDE DEF r
<1>4. \A q \in Proposals : draftRows'[q] = IF q = p THEN r ELSE draftRows[q]
  BY <1>1 DEF EditsInv, DraftsTyped
<1>5. DraftsTyped'
  BY <1>1, <1>3 DEF EditsInv, DraftsTyped
<1>6. OnItsWay'
  BY <1>1, <1>3, <1>4 DEF EditsInv, OnItsWay
<1> QED BY <1>5, <1>6 DEF EditsInv

LEMMA EditsStep ==
  ASSUME EditsInv, [Figures!Next]_Figures!vars
  PROVE  EditsInv'
<1>1. CASE \E p \in Proposals : Figures!Draft(p) \/ Figures!Decide(p, "dismissed", FALSE) \/ \E changed \in BOOLEAN : Figures!Decide(p, "sent", changed)
  BY <1>1, DraftKeeps
<1>2. CASE \E p \in Proposals : Figures!MarkStored(p)
  BY <1>2, MarkKeeps
<1>3. CASE \E x \in landing : Figures!Lands(x)
  BY <1>3, LandsKeeps
<1>4. CASE UNCHANGED <<drafts, landing, draftRows>>
  BY <1>4 DEF EditsInv, DraftsTyped, OnItsWay
<1>5. ASSUME NEW s \in Shows, Figures!Act(s) \/ Figures!Finish(s) \/ Figures!Regenerate(s)
      PROVE  UNCHANGED <<drafts, landing, draftRows>>
  BY <1>5 DEF Figures!Act, Figures!Finish, Figures!Regenerate, Figures!Begin, Figures!room
<1>6. ASSUME Figures!ReadChat \/ Figures!ReadProposals \/ Figures!ReadActions \/ Figures!PrdProposals \/ Figures!PrdAsked
             \/ Figures!Store \/ Figures!Throws \/ Figures!End
      PROVE  UNCHANGED <<drafts, landing, draftRows>>
  BY <1>6 DEF Figures!ReadChat, Figures!ReadProposals, Figures!ReadActions, Figures!PrdProposals, Figures!PrdAsked,
              Figures!Reading, Figures!Store, Figures!Throws, Figures!End, Figures!room
<1>7. CASE UNCHANGED Figures!vars
  BY <1>4, <1>7 DEF Figures!vars
<1> QED BY <1>1, <1>2, <1>3, <1>4, <1>5, <1>6, <1>7 DEF Figures!Next

LEMMA EditsBegin == Figures!FiguresAssumption /\ Figures!Init => EditsInv
<1> SUFFICES ASSUME Figures!FiguresAssumption, Figures!Init PROVE EditsInv
  OBVIOUS
<1>1. Figures!Absent \in Figures!Rows
  BY DEF Figures!Absent, Figures!Rows
<1>2. draftRows = [p \in Proposals |-> IF p \in DOMAIN LeftOver THEN LeftOver[p] ELSE Figures!Absent] /\ drafts = draftRows /\ landing = {}
  BY DEF Figures!Init
<1>3. \A p \in DOMAIN LeftOver : LeftOver[p] \in Figures!Rows
  BY DEF Figures!FiguresAssumption
<1>4. DraftsTyped
  BY <1>1, <1>2, <1>3 DEF DraftsTyped
<1> QED BY <1>2, <1>4 DEF EditsInv, OnItsWay

(* shows/sessionRecord.ts: in whatever order the writes of a draft land,    *)
(* and whatever is marked sent after its show, once they have landed what   *)
(* was edited counts as edited and what was decided as decided.             *)
THEOREM EditsCount == Figures!FiguresAssumption => (Figures!Spec => []Figures!EditsStick)
<1> SUFFICES ASSUME Figures!FiguresAssumption PROVE Figures!Spec => []Figures!EditsStick
  OBVIOUS
<1>1. Figures!Init => EditsInv
  BY EditsBegin
<1>2. EditsInv /\ [Figures!Next]_Figures!vars => EditsInv'
  BY EditsStep
<1>3. EditsInv => Figures!EditsStick
  BY DEF EditsInv, OnItsWay, Figures!EditsStick
<1> QED BY <1>1, <1>2, <1>3, PTL DEF Figures!Spec

Fields(r) == r = [asked |-> r.asked, drafts |-> r.drafts, actions |-> r.actions, prd |-> r.prd,
                  prdRate |-> r.prdRate, quiet |-> r.quiet]

BuildTyped ==
  /\ report = [pc |-> report.pc, show |-> report.show, part |-> report.part] /\ Fields(report.part)
  /\ report.pc \in {"idle", "chat", "proposals", "actions", "prd", "questions", "store", "ending"}
  /\ report.show \in Shows \cup {"none"} /\ (report.pc # "idle" => report.show \in Shows)
  /\ filed = [s \in Shows |-> filed[s]]

(* What a report that nothing disturbed has read is what there is.          *)
ReadsTrue ==
  LET s == report.show IN
  report.part.quiet = TRUE /\ report.pc # "idle" =>
    /\ report.pc \in {"proposals", "actions", "prd", "questions", "store"} => report.part.asked = questions[s]
    /\ report.pc \in {"actions", "prd", "questions", "store"} =>
         report.part.drafts = Figures!Engagement(s, questions[s])
    /\ report.pc \in {"questions", "store"} => report.part.prd = Figures!Prd(s)
    /\ report.pc = "store" => report.part.prdRate = Figures!Rate(Figures!Prd(s).sent, questions[s])

Agreeing(r) ==
  r # Figures!NoReport /\ r.quiet =>
    /\ r.prdRate = r.drafts.answeredRate
    /\ r.prd.blockRate = Figures!Rate(r.drafts.blocked, r.drafts.answered + r.drafts.blocked)

FiguresInv == DraftsTyped /\ questions \in [Shows -> Nat] /\ BuildTyped /\ ReadsTrue /\ \A s \in Shows : Agreeing(filed[s])

(* Two blocks that read the same rows say the same of them.                 *)
LEMMA CountsAreNumbers ==
  ASSUME Figures!FiguresAssumption, NEW P, P \subseteq Proposals
  PROVE  Figures!Cardinality(P) \in Nat
<1>1. IsFiniteSet(P)
  <2>1. Figures!IsFiniteSet(Proposals) <=> IsFiniteSet(Proposals)
    BY DEF Figures!IsFiniteSet, IsFiniteSet
  <2> QED BY <2>1, FS_Subset DEF Figures!FiguresAssumption
<1>2. Figures!Cardinality(P) = Cardinality(P)
  BY DEF Figures!Cardinality, Cardinality
<1> QED BY <1>1, <1>2, FS_CardinalityType

LEMMA SameRowsAgree ==
  ASSUME Figures!FiguresAssumption, NEW s, NEW n, NEW r,
         r.drafts = Figures!Engagement(s, n), r.prd = Figures!Prd(s),
         r.prdRate = Figures!Rate(Figures!Prd(s).sent, n)
  PROVE  Agreeing(r)
<1>1. PICK a, b, c :
        /\ a = Figures!Cardinality({p \in Proposals : ShowOf[p] = s /\ Figures!IsSent(draftRows[p])})
        /\ b = Figures!Cardinality({p \in Proposals : ShowOf[p] = s /\ Figures!IsAnswered(draftRows[p])})
        /\ c = Figures!Cardinality({p \in Proposals : ShowOf[p] = s /\ Figures!IsBlocked(draftRows[p])})
  OBVIOUS
<1>2. b \in Nat /\ c \in Nat
  <2>1. {p \in Proposals : ShowOf[p] = s /\ Figures!IsAnswered(draftRows[p])} \subseteq Proposals
    OBVIOUS
  <2>2. {p \in Proposals : ShowOf[p] = s /\ Figures!IsBlocked(draftRows[p])} \subseteq Proposals
    OBVIOUS
  <2> QED BY <1>1, <2>1, <2>2, CountsAreNumbers
<1>3. /\ r.drafts.answered = b /\ r.drafts.blocked = c /\ r.drafts.answeredRate = Figures!Rate(a, n)
  BY <1>1 DEF Figures!Engagement, Figures!Count
<1>4. r.prd.blockRate = Figures!Rate(c, c + b) /\ r.prdRate = Figures!Rate(a, n)
  BY <1>1 DEF Figures!Prd, Figures!Count
<1>5. c + b = b + c
  BY <1>2
<1>6. Figures!Rate(c, c + b) = Figures!Rate(r.drafts.blocked, r.drafts.answered + r.drafts.blocked)
  BY <1>3, <1>5
<1> QED BY <1>3, <1>4, <1>6 DEF Agreeing

(* What befalls other shows leaves a show's figures alone.                  *)
LEMMA OthersDoNotCount ==
  ASSUME NEW s, NEW n, \A p \in Proposals : ShowOf[p] = s => draftRows'[p] = draftRows[p]
  PROVE  Figures!Engagement(s, n)' = Figures!Engagement(s, n)
         /\ Figures!Prd(s)' = Figures!Prd(s)
<1>1. {p \in Proposals : ShowOf[p] = s /\ Figures!IsSent(draftRows'[p])}
        = {p \in Proposals : ShowOf[p] = s /\ Figures!IsSent(draftRows[p])}
  OBVIOUS
<1>2. {p \in Proposals : ShowOf[p] = s /\ Figures!IsAnswered(draftRows'[p])}
        = {p \in Proposals : ShowOf[p] = s /\ Figures!IsAnswered(draftRows[p])}
  OBVIOUS
<1>3. {p \in Proposals : ShowOf[p] = s /\ Figures!IsBlocked(draftRows'[p])}
        = {p \in Proposals : ShowOf[p] = s /\ Figures!IsBlocked(draftRows[p])}
  OBVIOUS
<1>4. {p \in Proposals : ShowOf[p] = s /\ Figures!IsEdited(draftRows'[p])}
        = {p \in Proposals : ShowOf[p] = s /\ Figures!IsEdited(draftRows[p])}
  OBVIOUS
<1> QED BY <1>1, <1>2, <1>3, <1>4 DEF Figures!Engagement, Figures!Prd, Figures!Count

(* Something happens in show s: a report of s knows that it was disturbed.  *)
LEMMA DisturbKeeps ==
  ASSUME FiguresInv, NEW s \in Shows, Figures!Disturb(s), filed' = filed, DraftsTyped', questions' \in [Shows -> Nat],
         \A p \in Proposals : ShowOf[p] # s => draftRows'[p] = draftRows[p],
         \A o \in Shows : o # s => questions'[o] = questions[o]
  PROVE  FiguresInv'
<1>1. CASE report.show = s
  <2>1. report' = [report EXCEPT !.part.quiet = FALSE]
    BY <1>1 DEF Figures!Disturb
  <2>2. BuildTyped' /\ report'.part.quiet = FALSE
    BY <2>1 DEF FiguresInv, BuildTyped, Fields
  <2> QED BY <2>2 DEF FiguresInv, ReadsTrue
<1>2. CASE report.show # s
  <2>1. report' = report
    BY <1>2 DEF Figures!Disturb
  <2>2. BuildTyped'
    BY <2>1 DEF FiguresInv, BuildTyped
  <2>3. ReadsTrue'
    <3> SUFFICES ASSUME report.pc # "idle", report.part.quiet = TRUE PROVE ReadsTrue'
      BY <2>1 DEF ReadsTrue
    <3>1. PICK o \in Shows : o = report.show /\ o # s
      BY <1>2 DEF FiguresInv, BuildTyped
    <3>2. questions'[o] = questions[o] /\ \A p \in Proposals : ShowOf[p] = o => draftRows'[p] = draftRows[p]
      BY <3>1
    <3>3. PICK n : n = questions[o]
      OBVIOUS
    <3>4. Figures!Engagement(o, n)' = Figures!Engagement(o, n) /\ Figures!Prd(o)' = Figures!Prd(o)
      BY <3>2, OthersDoNotCount
    <3> QED BY <2>1, <3>1, <3>2, <3>3, <3>4 DEF FiguresInv, ReadsTrue
  <2> QED BY <2>2, <2>3 DEF FiguresInv
<1> QED BY <1>1, <1>2

LEMMA HappensKeeps ==
  ASSUME Figures!FiguresAssumption, FiguresInv, EditsInv',
         \/ \E p \in Proposals : Figures!Draft(p) \/ Figures!MarkStored(p)
         \/ \E x \in landing : Figures!Lands(x)
         \/ \E s \in Shows : Figures!Act(s)
  PROVE  FiguresInv'
<1>1. DraftsTyped'
  BY DEF EditsInv
<1>2. ASSUME NEW p \in Proposals, Figures!Draft(p) PROVE FiguresInv'
  <2>1. ShowOf[p] \in Shows /\ Figures!Disturb(ShowOf[p]) /\ filed' = filed /\ draftRows' = draftRows
        /\ questions' = [questions EXCEPT ![ShowOf[p]] = questions[ShowOf[p]] + 1]
    BY <1>2 DEF Figures!Draft, Figures!FiguresAssumption
  <2>2. questions' \in [Shows -> Nat] /\ \A o \in Shows : o # ShowOf[p] => questions'[o] = questions[o]
    BY <2>1 DEF FiguresInv
  <2> QED BY <1>1, <2>1, <2>2, DisturbKeeps
<1>3. ASSUME NEW p \in Proposals, Figures!MarkStored(p) PROVE FiguresInv'
  <2>1. ShowOf[p] \in Shows /\ Figures!Disturb(ShowOf[p]) /\ filed' = filed /\ questions' = questions
    BY <1>3 DEF Figures!MarkStored, Figures!FiguresAssumption
  <2>2. \A q \in Proposals : ShowOf[q] # ShowOf[p] => draftRows'[q] = draftRows[q]
    BY <1>3 DEF Figures!MarkStored, FiguresInv, DraftsTyped
  <2> QED BY <1>1, <2>1, <2>2, DisturbKeeps DEF FiguresInv
<1>4. ASSUME NEW x \in landing, Figures!Lands(x) PROVE FiguresInv'
  <2>1. x.of \in Proposals
    BY DEF FiguresInv, DraftsTyped
  <2>2. ShowOf[x.of] \in Shows /\ Figures!Disturb(ShowOf[x.of]) /\ filed' = filed /\ questions' = questions
    BY <1>4, <2>1 DEF Figures!Lands, Figures!FiguresAssumption
  <2>3. \A q \in Proposals : ShowOf[q] # ShowOf[x.of] => draftRows'[q] = draftRows[q]
    BY <1>4 DEF Figures!Lands, FiguresInv, DraftsTyped
  <2> QED BY <1>1, <2>2, <2>3, DisturbKeeps DEF FiguresInv
<1>5. ASSUME NEW s \in Shows, Figures!Act(s) PROVE FiguresInv'
  <2>1. Figures!Disturb(s) /\ filed' = filed /\ questions' = questions /\ draftRows' = draftRows
    BY <1>5 DEF Figures!Act
  <2> QED BY <1>1, <2>1, DisturbKeeps DEF FiguresInv
<1> QED BY <1>2, <1>3, <1>4, <1>5

LEMMA BegunKeeps ==
  ASSUME FiguresInv, NEW s \in Shows, Figures!Begin(s)
  PROVE  FiguresInv'
<1>1. report' = [Figures!Idle EXCEPT !.pc = "chat", !.show = s]
      /\ UNCHANGED <<drafts, landing, draftRows, questions, filed>>
  BY DEF Figures!Begin, Figures!room
<1>2. report' = [pc |-> "chat", show |-> s, part |-> Figures!Blank]
  BY <1>1 DEF Figures!Idle
<1>3. Fields(Figures!Blank)
  BY DEF Fields, Figures!Blank
<1>4. BuildTyped'
  <2>1. report'.pc = "chat" /\ report'.show = s /\ report'.part = Figures!Blank
        /\ report' = [pc |-> report'.pc, show |-> report'.show, part |-> report'.part]
    BY <1>2
  <2>2. Fields(report'.part)
    BY <1>3, <2>1
  <2>3. filed' = [o \in Shows |-> filed'[o]]
    BY <1>1 DEF FiguresInv, BuildTyped
  <2> QED BY <2>1, <2>2, <2>3 DEF BuildTyped, Fields
<1> QED BY <1>1, <1>2, <1>4 DEF FiguresInv, DraftsTyped, ReadsTrue

LEMMA ReadingKeeps ==
  ASSUME FiguresInv,
         Figures!ReadChat \/ Figures!ReadProposals \/ Figures!ReadActions \/ Figures!PrdProposals \/ Figures!PrdAsked
  PROVE  FiguresInv'
<1>1. UNCHANGED <<drafts, landing, draftRows, questions, filed>>
  BY DEF Figures!ReadChat, Figures!ReadProposals, Figures!ReadActions, Figures!PrdProposals, Figures!PrdAsked,
         Figures!Reading, Figures!room
<1> DEFINE s == report.show
<1>2. BuildTyped' /\ report'.show = s /\ report'.part.quiet = report.part.quiet
  BY <1>1 DEF FiguresInv, BuildTyped, Fields, Figures!Reading,
     Figures!ReadChat, Figures!ReadProposals, Figures!ReadActions, Figures!PrdProposals, Figures!PrdAsked
<1>3. DraftsTyped' /\ questions' \in [Shows -> Nat] /\ \A o \in Shows : Agreeing(filed'[o])
  BY <1>1 DEF FiguresInv, DraftsTyped
<1>4. ReadsTrue'
  <2> SUFFICES ASSUME report.part.quiet = TRUE PROVE ReadsTrue'
    BY <1>2 DEF ReadsTrue
  <2>1. /\ Figures!Engagement(s, questions[s])' = Figures!Engagement(s, questions[s])
        /\ Figures!Prd(s)' = Figures!Prd(s)
    BY <1>1, <1>2 DEF Figures!Engagement, Figures!Prd, Figures!Count
  <2>2. CASE Figures!ReadChat
    BY <1>1, <1>2, <2>2 DEF FiguresInv, BuildTyped, Fields, ReadsTrue, Figures!Reading, Figures!ReadChat
  <2>3. CASE Figures!ReadProposals
    <3>1. report'.pc = "actions" /\ report'.part.asked = report.part.asked
          /\ report'.part.drafts = Figures!Engagement(s, report.part.asked) /\ report.part.asked = questions[s]
      BY <2>3 DEF FiguresInv, BuildTyped, Fields, ReadsTrue, Figures!Reading, Figures!ReadProposals
    <3> QED BY <1>1, <1>2, <2>1, <3>1 DEF ReadsTrue
  <2>4. CASE Figures!ReadActions
    <3>1. report'.pc = "prd" /\ report'.part.asked = report.part.asked /\ report'.part.drafts = report.part.drafts
          /\ report.part.asked = questions[s] /\ report.part.drafts = Figures!Engagement(s, questions[s])
      BY <2>4 DEF FiguresInv, BuildTyped, Fields, ReadsTrue, Figures!Reading, Figures!ReadActions
    <3> QED BY <1>1, <1>2, <2>1, <3>1 DEF ReadsTrue
  <2>5. CASE Figures!PrdProposals
    <3>1. report'.pc = "questions" /\ report'.part.asked = report.part.asked /\ report'.part.drafts = report.part.drafts
          /\ report'.part.prd = Figures!Prd(s)
          /\ report.part.asked = questions[s] /\ report.part.drafts = Figures!Engagement(s, questions[s])
      BY <2>5 DEF FiguresInv, BuildTyped, Fields, ReadsTrue, Figures!Reading, Figures!PrdProposals
    <3> QED BY <1>1, <1>2, <2>1, <3>1 DEF ReadsTrue
  <2>6. CASE Figures!PrdAsked
    <3>1. report'.pc = "store" /\ report'.part.asked = report.part.asked /\ report'.part.drafts = report.part.drafts
          /\ report'.part.prd = report.part.prd /\ report'.part.prdRate = Figures!Rate(report.part.prd.sent, questions[s])
          /\ report.part.asked = questions[s] /\ report.part.drafts = Figures!Engagement(s, questions[s])
          /\ report.part.prd = Figures!Prd(s)
      BY <2>6 DEF FiguresInv, BuildTyped, Fields, ReadsTrue, Figures!Reading, Figures!PrdAsked
    <3> QED BY <1>1, <1>2, <2>1, <3>1 DEF ReadsTrue
  <2> QED BY <2>2, <2>3, <2>4, <2>5, <2>6
<1> QED BY <1>2, <1>3, <1>4 DEF FiguresInv

LEMMA FilingKeeps ==
  ASSUME Figures!FiguresAssumption, FiguresInv, Figures!Store \/ Figures!Throws \/ Figures!End
  PROVE  FiguresInv'
<1>1. UNCHANGED <<drafts, landing, draftRows, questions>>
  BY DEF Figures!Store, Figures!Throws, Figures!End, Figures!room
<1>2. BuildTyped' /\ report'.pc \in {"ending", "idle"}
  <2>1. CASE Figures!Store
    BY <2>1 DEF FiguresInv, BuildTyped, Fields, Figures!Store
  <2>2. CASE Figures!Throws
    BY <2>2 DEF FiguresInv, BuildTyped, Fields, Figures!Throws
  <2>3. CASE Figures!End
    <3>1. Fields(Figures!Blank)
      BY DEF Fields, Figures!Blank
    <3>2. report' = [pc |-> "idle", show |-> "none", part |-> Figures!Blank] /\ filed' = filed
      BY <2>3 DEF Figures!End, Figures!Idle
    <3> QED BY <3>1, <3>2 DEF FiguresInv, BuildTyped
  <2> QED BY <2>1, <2>2, <2>3
<1>3. ReadsTrue'
  BY <1>2 DEF ReadsTrue
<1>4. \A s \in Shows : Agreeing(filed'[s])
  <2>1. CASE filed' = filed
    BY <2>1 DEF FiguresInv
  <2>2. CASE Figures!Store
    <3>1. Agreeing(report.part)
      <4>1. CASE report.part.quiet = TRUE
        <5>1. PICK n : n = questions[report.show]
          OBVIOUS
        <5>2. /\ report.part.drafts = Figures!Engagement(report.show, n) /\ report.part.prd = Figures!Prd(report.show)
              /\ report.part.prdRate = Figures!Rate(Figures!Prd(report.show).sent, n)
          BY <2>2, <4>1, <5>1 DEF Figures!Store, FiguresInv, ReadsTrue
        <5>3. PICK s, r : s = report.show /\ r = report.part
          OBVIOUS
        <5>4. Agreeing(r)
          BY <5>2, <5>3, SameRowsAgree
        <5> QED BY <5>3, <5>4
      <4>2. CASE report.part.quiet # TRUE
        BY <4>2 DEF Agreeing
      <4> QED BY <4>1, <4>2
    <3>2. \A s \in Shows : filed'[s] = IF s = report.show THEN report.part ELSE filed[s]
      BY <2>2 DEF Figures!Store, FiguresInv, BuildTyped
    <3> QED BY <3>1, <3>2 DEF FiguresInv
  <2> QED BY <2>1, <2>2 DEF Figures!Throws, Figures!End
<1> QED BY <1>1, <1>2, <1>3, <1>4 DEF FiguresInv, DraftsTyped

LEMMA FiguresStep ==
  ASSUME Figures!FiguresAssumption, FiguresInv, EditsInv', [Figures!Next]_Figures!vars
  PROVE  FiguresInv'
<1>1. CASE \/ \E p \in Proposals : Figures!Draft(p) \/ Figures!MarkStored(p)
           \/ \E x \in landing : Figures!Lands(x)
           \/ \E s \in Shows : Figures!Act(s)
  BY <1>1, HappensKeeps
<1>2. ASSUME NEW p \in Proposals,
             Figures!Decide(p, "dismissed", FALSE) \/ \E changed \in BOOLEAN : Figures!Decide(p, "sent", changed)
      PROVE  FiguresInv'
  <2>1. UNCHANGED <<draftRows, questions, report, filed>>
    BY <1>2 DEF Figures!Decide
  <2>2. DraftsTyped'
    BY DEF EditsInv
  <2>3. ReadsTrue'
    BY <2>1 DEF FiguresInv, ReadsTrue, Figures!Engagement, Figures!Prd, Figures!Count
  <2> QED BY <2>1, <2>2, <2>3 DEF FiguresInv, BuildTyped
<1>3. CASE \E s \in Shows : Figures!Finish(s) \/ Figures!Regenerate(s)
  BY <1>3, BegunKeeps DEF Figures!Finish, Figures!Regenerate
<1>4. CASE Figures!ReadChat \/ Figures!ReadProposals \/ Figures!ReadActions \/ Figures!PrdProposals \/ Figures!PrdAsked
  BY <1>4, ReadingKeeps
<1>5. CASE Figures!Store \/ Figures!Throws \/ Figures!End
  BY <1>5, FilingKeeps
<1>6. CASE UNCHANGED Figures!vars
  <2>1. UNCHANGED <<drafts, landing, draftRows, questions, report, filed>>
    BY <1>6 DEF Figures!vars
  <2>2. ReadsTrue'
    BY <2>1 DEF FiguresInv, ReadsTrue, Figures!Engagement, Figures!Prd, Figures!Count
  <2> QED BY <2>1, <2>2 DEF FiguresInv, BuildTyped, DraftsTyped
<1> QED BY <1>1, <1>2, <1>3, <1>4, <1>5, <1>6 DEF Figures!Next

LEMMA FiguresBegin == Figures!FiguresAssumption /\ Figures!Init => FiguresInv
<1> SUFFICES ASSUME Figures!FiguresAssumption, Figures!Init PROVE FiguresInv
  OBVIOUS
<1>1. DraftsTyped
  BY EditsBegin DEF EditsInv
<1>2. questions \in [Shows -> Nat]
  <2>1. \A s \in Shows : questions[s] = Figures!Cardinality({p \in DOMAIN LeftOver : ShowOf[p] = s})
        /\ {p \in DOMAIN LeftOver : ShowOf[p] = s} \subseteq Proposals
    BY DEF Figures!Init, Figures!FiguresAssumption
  <2>2. \A s \in Shows : questions[s] \in Nat
    BY <2>1, CountsAreNumbers
  <2>3. questions = [s \in Shows |-> questions[s]]
    BY DEF Figures!Init
  <2> QED BY <2>2, <2>3
<1>3. Fields(Figures!Blank)
  BY DEF Fields, Figures!Blank
<1>4. BuildTyped /\ ReadsTrue
  <2>1. report = [pc |-> "idle", show |-> "none", part |-> Figures!Blank]
    BY DEF Figures!Init, Figures!Idle
  <2>2. filed = [s \in Shows |-> filed[s]]
    BY DEF Figures!Init
  <2> QED BY <1>3, <2>1, <2>2 DEF BuildTyped, ReadsTrue
<1>5. ASSUME NEW s \in Shows PROVE Agreeing(filed[s])
  <2>1. CASE filed[s] = Figures!NoReport
    BY <2>1 DEF Agreeing
  <2>2. CASE filed[s] # Figures!NoReport
    <3>1. PICK n : n = questions[s]
      OBVIOUS
    <3>2. filed[s] = [asked |-> n, drafts |-> Figures!Engagement(s, n), actions |-> Figures!NoActions,
                      prd |-> Figures!Prd(s), prdRate |-> Figures!Rate(Figures!Prd(s).sent, n), quiet |-> TRUE]
      BY <2>2, <3>1 DEF Figures!Init
    <3>3. PICK r : r = filed[s]
      OBVIOUS
    <3>4. r.drafts = Figures!Engagement(s, n) /\ r.prd = Figures!Prd(s) /\ r.prdRate = Figures!Rate(Figures!Prd(s).sent, n)
      BY <3>2, <3>3
    <3>5. Agreeing(r)
      BY <3>4, SameRowsAgree
    <3> QED BY <3>3, <3>5
  <2> QED BY <2>1, <2>2
<1> QED BY <1>1, <1>2, <1>4, <1>5 DEF FiguresInv

(* shows/report.ts, prdMetrics.ts: a report that was built while nothing    *)
(* happened in its show gives one value for its answered rate, and one for  *)
(* its block rate, though two blocks count them, each with reads of its own.*)
THEOREM QuietReportsAgree == Figures!FiguresAssumption => (Figures!Spec => []Figures!QuietReportAgrees)
<1> SUFFICES ASSUME Figures!FiguresAssumption PROVE Figures!Spec => []Figures!QuietReportAgrees
  OBVIOUS
<1>1. Figures!Init => EditsInv /\ FiguresInv
  BY EditsBegin, FiguresBegin
<1>2. EditsInv /\ FiguresInv /\ [Figures!Next]_Figures!vars => EditsInv' /\ FiguresInv'
  BY EditsStep, FiguresStep
<1>3. FiguresInv => Figures!QuietReportAgrees
  BY DEF FiguresInv, Agreeing, Figures!QuietReportAgrees
<1> QED BY <1>1, <1>2, <1>3, PTL DEF Figures!Spec
=============================================================================
