------------------------------ MODULE AudioChunks ------------------------------
(***************************************************************************)
(* The host's audio, kept in chunks: the bridge page posts each one, and   *)
(* again when no answer came (api/audioBridge.ts `post`); the server gives *)
(* it a number, a file and a row (shows/signals.ts recordAudio).  Uploads  *)
(* overlap, and are one statement per step.                                *)
(*                                                                         *)
(* A chunk is [run, listening, n]: the n-th of a listening, in a page load.*)
(* Its client key is <<run, n>>: every listening counts from nought.       *)
(***************************************************************************)
EXTENDS Integers, FiniteSets, FiniteSetsExt

CONSTANTS
  Chunks,      \* what the host's listenings are cut into
  Requests,    \* uploads on the server at once
  MaxAttempts, \* of the page, for one chunk
  MaxLosses    \* bound: answers that do not reach the page

VARIABLES
  tries,   \* chunk -> attempts made
  acked,   \* chunks the server has answered for
  req,     \* request -> how far
  table,   \* show_audio: number -> the chunk whose row has it
  files,   \* number -> the chunk whose bytes are in its file
  taken,   \* history: the chunks that were given a number together with another
  losses

vars == <<tries, acked, req, table, files, taken, losses>>

AudioAssumption ==
  /\ IsFiniteSet(Chunks) /\ [run |-> 0, listening |-> 0, n |-> 0] \notin Chunks
  /\ MaxAttempts \in Nat /\ MaxLosses \in Nat

NoChunk == [run |-> 0, listening |-> 0, n |-> 0]
clientKey(c) == <<c.run, c.n>>
Idle == [pc |-> "idle", chunk |-> NoChunk, seq |-> 0]
Seqs == 0..(Cardinality(Chunks) * MaxAttempts)   \* bound: every attempt a number of its own
Taken == {n \in Seqs : table[n] # NoChunk}
RowsOf(c) == {n \in Taken : clientKey(table[n]) = clientKey(c)}

Init ==
  /\ tries = [c \in Chunks |-> 0] /\ acked = {}
  /\ req = [r \in Requests |-> Idle]
  /\ table = [n \in Seqs |-> NoChunk] /\ files = [n \in Seqs |-> NoChunk]
  /\ taken = {} /\ losses = 0

(* The recorder cuts one chunk after another. *)
Before(d, c) == d.run < c.run \/ (d.run = c.run /\ (d.listening < c.listening \/
                (d.listening = c.listening /\ d.n < c.n)))

(* The page posts a chunk, or one that got no answer, or a refusal, again.  *)
Post(r) == \E c \in Chunks \ acked :
  /\ req[r] = Idle /\ tries[c] < MaxAttempts
  /\ \A d \in Chunks : Before(d, c) => tries[d] > 0
  /\ \A q \in Requests : req[q].chunk = c => losses > 0
  /\ tries' = [tries EXCEPT ![c] = @ + 1]
  /\ req' = [req EXCEPT ![r] = [pc |-> "find", chunk |-> c, seq |-> 0]]
  /\ UNCHANGED <<acked, table, files, taken, losses>>

(* An answer is too slow, or is lost: the page no longer waits for it.      *)
Lose ==
  /\ losses < MaxLosses /\ losses' = losses + 1
  /\ UNCHANGED <<tries, acked, req, table, files, taken>>

Give(r, n, pc) ==
  LET others == {c \in Chunks \ {req[r].chunk} :
                   table[n] = c \/ \E q \in Requests : req[q] = [pc |-> "store", chunk |-> c, seq |-> n]
                                                    \/ req[q] = [pc |-> "write", chunk |-> c, seq |-> n]}
  IN /\ req' = [req EXCEPT ![r] = [pc |-> pc, chunk |-> req[r].chunk, seq |-> n]]
     /\ taken' = IF others = {} THEN taken ELSE taken \cup others \cup {req[r].chunk}

(* A row with this client key keeps its number. *)
Find(r) ==
  /\ req[r].pc = "find"
  /\ IF RowsOf(req[r].chunk) # {}
       THEN \E n \in RowsOf(req[r].chunk) : Give(r, n, "write")
       ELSE req' = [req EXCEPT ![r].pc = "number"] /\ taken' = taken
  /\ UNCHANGED <<tries, acked, table, files, losses>>

Number_last(r) ==  \* mutant: the last number, not the one after it
  /\ req[r].pc = "number"
  /\ req' = [req EXCEPT ![r].pc = "write", ![r].seq = IF Taken = {} THEN 0 ELSE Max(Taken)]
  /\ UNCHANGED <<tries, acked, table, files, taken, losses>>

(* Else it gets the next one: read, and held by nobody. *)
Number(r) ==
  /\ req[r].pc = "number"
  /\ LET next == IF Taken = {} THEN 0 ELSE Max(Taken) + 1 IN next \in Seqs /\ Give(r, next, "write")
  /\ UNCHANGED <<tries, acked, table, files, losses>>

WriteFile(r) ==
  /\ req[r].pc = "write"
  /\ files' = [files EXCEPT ![req[r].seq] = req[r].chunk]
  /\ req' = [req EXCEPT ![r].pc = "store"]
  /\ UNCHANGED <<tries, acked, table, taken, losses>>

(* The row, over one that has this number.  A client key has one row: a     *)
(* second is refused, and the page told so.                                 *)
Store(r) ==
  /\ req[r].pc = "store"
  /\ LET c == req[r].chunk  n == req[r].seq IN
     IF RowsOf(c) \ {n} # {} THEN UNCHANGED <<table, acked>>
     ELSE table' = [table EXCEPT ![n] = c] /\ acked' = acked \cup {c}
  /\ req' = [req EXCEPT ![r] = Idle]
  /\ UNCHANGED <<tries, files, taken, losses>>

-----------------------------------------------------------------------------
Next == Lose \/ \E r \in Requests : Post(r) \/ Find(r) \/ Number(r) \/ WriteFile(r) \/ Store(r)

Spec == Init /\ [][Next]_vars

-----------------------------------------------------------------------------
TypeOK ==
  /\ tries \in [Chunks -> 0..MaxAttempts] /\ acked \subseteq Chunks
  /\ table \in [Seqs -> Chunks \cup {NoChunk}] /\ files \in [Seqs -> Chunks \cup {NoChunk}]
  /\ taken \subseteq Chunks /\ losses \in 0..MaxLosses

Kept(c) == \E n \in Seqs : table[n] = c /\ files[n] = c

(* A chunk the server has answered for has its row and its bytes, whatever  *)
(* was retried around it; unless it and another were given one number.      *)
AckedUnlessTaken == \A c \in acked \ taken : Kept(c)
=============================================================================
