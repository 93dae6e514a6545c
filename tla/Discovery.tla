----------------------------- MODULE Discovery -----------------------------
(***************************************************************************)
(* What is live on what an operator sells (discover/service.ts): every     *)
(* surface is asked at once, an answer is shared by the requests that ask  *)
(* the same question for the same account, reused for a while, and given   *)
(* up on after a time - though the read it gave up on goes on.  Whatnot's  *)
(* reads are a browser each and queue at a lock (sources/whatnot.ts); a    *)
(* request that was answered long ago may still be waiting there.          *)
(***************************************************************************)
EXTENDS Integers, Sequences, FiniteSets

CONSTANTS
  Surfaces,
  Browsed,               \* the surfaces read with a browser, at one lock
  Askers,                \* what may be asked: accounts and their interests
  Asks,                  \* requests
  OkTTL, FailTTL, Timeout,
  MaxTime, MaxReads      \* bounds

(* Somebody asks, of finitely many surfaces; a refusal too is kept a while.  *)
DiscoveryAssumption ==
  /\ IsFiniteSet(Surfaces) /\ Askers # {}
  /\ OkTTL \in Nat \ {0} /\ FailTTL \in Nat \ {0} /\ Timeout \in Nat
  /\ MaxTime \in Nat /\ MaxReads \in Nat

VARIABLES
  now,
  cache,     \* key -> the last answer, if there is one
  inFlight,  \* key -> the read that answers it, 0 where there is none
  reads,     \* every read begun: what is read, when it began, how far it is
  asks       \* request -> what it asked, when, and per surface what it got

vars == <<now, cache, inFlight, reads, asks>>

Keys == Surfaces \X Askers
Idle == [asked |-> FALSE, of |-> CHOOSE a \in Askers : TRUE, at |-> 0, waits |-> [s \in Surfaces |-> 0], got |-> [s \in Surfaces |-> <<>>]]

Init ==
  /\ now = 0 /\ cache = [k \in Keys |-> <<>>] /\ inFlight = [k \in Keys |-> 0]
  /\ reads = <<>> /\ asks = [r \in Asks |-> Idle]

(* Mutant: the interests left out of the key. *)
Key_account(s, a) == <<s, CHOOSE b \in Askers : TRUE>>

Key(s, a) == <<s, a>>

TTL(value) == IF value.ok THEN OkTTL ELSE FailTTL

Fresh(k) == cache[k] # <<>> /\ now - cache[k][1].at < TTL(cache[k][1])

(* A read whose answer is still waited for, by the requests or the cache.   *)
Open(i) == i \in DOMAIN reads /\ reads[i].open

--------------------------- (* asking, per surface *) -----------------------
(* Every surface at once: the cached answer, the read that is on its way, or *)
(* a read of one's own.                                                      *)
Ask(r, a) ==
  LET key(s) == Key(s, a)
      New == {s \in Surfaces : ~Fresh(key(s)) /\ inFlight[key(s)] = 0}
      order == CHOOSE q \in [1..Cardinality(New) -> New] : \A i, j \in DOMAIN q : q[i] = q[j] => i = j
      place(s) == Len(reads) + CHOOSE i \in DOMAIN order : order[i] = s
  IN
  /\ ~asks[r].asked /\ now + Timeout <= MaxTime /\ Len(reads) + Cardinality(New) <= MaxReads
  /\ asks' = [asks EXCEPT ![r] =
       [asked |-> TRUE, of |-> a, at |-> now,
        waits |-> [s \in Surfaces |-> IF Fresh(key(s)) THEN 0 ELSE IF s \in New THEN place(s) ELSE inFlight[key(s)]],
        got |-> [s \in Surfaces |-> IF Fresh(key(s)) THEN cache[key(s)] ELSE <<>>]]]
  /\ reads' = reads \o [i \in DOMAIN order |->
       [surface |-> order[i], of |-> a, began |-> now, open |-> TRUE, at |-> IF order[i] \in Browsed THEN "lock" ELSE "platform"]]
  /\ inFlight' = [k \in Keys |-> IF \E s \in New : k = key(s) THEN place(k[1]) ELSE inFlight[k]]
  /\ UNCHANGED <<now, cache>>

(* The answer of a read, given to all who wait, kept, and no longer on its  *)
(* way.                                                                      *)
Settle(i, ok) ==
  LET k == Key(reads[i].surface, reads[i].of)
      value == <<[ok |-> ok, at |-> now, of |-> reads[i].of, began |-> reads[i].began]>>
  IN
  /\ cache' = [cache EXCEPT ![k] = value]
  /\ inFlight' = [inFlight EXCEPT ![k] = 0]
  /\ asks' = [r \in Asks |-> [asks[r] EXCEPT
       !.got = [s \in Surfaces |-> IF asks[r].waits[s] = i THEN value ELSE @[s]],
       !.waits = [s \in Surfaces |-> IF @[s] = i THEN 0 ELSE @[s]]]]

------------------------------ (* the reads *) ------------------------------
(* The first at the lock opens the browser, whether or not it is waited for. *)
OpensBrowser(i) ==
  /\ \A j \in DOMAIN reads : reads[j].at # "browser" /\ (reads[j].at = "lock" => i <= j)

Browse(i) ==
  /\ reads[i].at = "lock" /\ OpensBrowser(i)
  /\ reads' = [reads EXCEPT ![i].at = "browser"]
  /\ UNCHANGED <<now, cache, inFlight, asks>>

(* The platform answers, fails or refuses; the browser is shut before that.  *)
Returns(i, ok) ==
  /\ reads[i].at \in {"browser", "platform"}
  /\ reads' = [reads EXCEPT ![i].at = "over", ![i].open = FALSE]
  /\ IF reads[i].open THEN Settle(i, ok) ELSE UNCHANGED <<cache, inFlight, asks>>
  /\ UNCHANGED now

(* withTimeout: the answer goes out without it.  The read is not cancelled.  *)
TimesOut(i) ==
  /\ reads[i].open /\ now - reads[i].began >= Timeout
  /\ reads' = [reads EXCEPT ![i].open = FALSE]
  /\ Settle(i, FALSE)
  /\ UNCHANGED now

(* A timer fires when it is due: time does not pass it.                      *)
Tick ==
  /\ now < MaxTime /\ now' = now + 1
  /\ \A i \in DOMAIN reads : reads[i].open => now - reads[i].began < Timeout
  /\ UNCHANGED <<cache, inFlight, reads, asks>>

Next ==
  \/ \E r \in Asks, a \in Askers : Ask(r, a)
  \/ \E i \in DOMAIN reads : Browse(i) \/ TimesOut(i) \/ \E ok \in BOOLEAN : Returns(i, ok)
  \/ Tick

Spec == Init /\ [][Next]_vars

(* Timers fire.  Nothing is assumed of the platforms: a read may hang.       *)
Fairness == WF_vars(Tick) /\ \A i \in 1..MaxReads : WF_vars(i \in DOMAIN reads /\ TimesOut(i))
FairSpec == Spec /\ Fairness

-------------------------------- (* properties *) ---------------------------
Values == [ok : BOOLEAN, at : 0..MaxTime, of : Askers, began : 0..MaxTime]
Answer(v) == v = <<>> \/ (Len(v) = 1 /\ v[1] \in Values)

TypeOK ==
  /\ now \in 0..MaxTime
  /\ \A k \in Keys : Answer(cache[k]) /\ inFlight[k] \in 0..Len(reads)
  /\ Len(reads) <= MaxReads
  /\ \A i \in DOMAIN reads : reads[i] \in [surface : Surfaces, of : Askers, began : 0..MaxTime, open : BOOLEAN,
       at : {"lock", "browser", "platform", "over"}]
  /\ \A r \in Asks, s \in Surfaces : asks[r].of \in Askers /\ asks[r].waits[s] \in 0..Len(reads) /\ Answer(asks[r].got[s])

(* What a request is given answers its own question, and is recent: what     *)
(* was read, within the time an answer is reused and a read may take; a      *)
(* refusal, within its shorter one.  A key that arrives shows soon           *)
(* (discover/service.ts:19-26).                                              *)
AnswersItsQuestion == \A r \in Asks, s \in Surfaces : asks[r].got[s] # <<>> =>
  LET v == asks[r].got[s][1] IN v.of = asks[r].of /\ v.began > asks[r].at - (IF v.ok THEN OkTTL ELSE FailTTL) - Timeout

(* Ten polls are one call: an answer is waited for from one read per         *)
(* question, and there is one browser, however many wait at the lock.        *)
ReadsAreShared ==
  /\ \A i, j \in DOMAIN reads : reads[i].open /\ reads[j].open /\ i # j =>
       <<reads[i].surface, reads[i].of>> # <<reads[j].surface, reads[j].of>>
  /\ Cardinality({i \in DOMAIN reads : reads[i].at = "browser"}) <= 1

(* A surface that hangs does not hold the answer of the others: every        *)
(* request is answered by every surface in the end.                          *)
RunAnswers == \A r \in Asks : asks[r].asked ~> \A s \in Surfaces : asks[r].got[s] # <<>>

============================================================================
