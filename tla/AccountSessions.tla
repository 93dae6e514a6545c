---------------------------- MODULE AccountSessions ----------------------------
(***************************************************************************)
(* Who is signed in (auth/accounts.ts), as the hooks and the auth routes   *)
(* of api/routes.ts use it: signing in, the tokens of one show that a      *)
(* session mints, signing out here or everywhere, changing the password,   *)
(* and the two things that guard the hashing of passwords                  *)
(* (api/rateLimit.ts): so many tries a window, so many hashes at once.     *)
(*                                                                         *)
(* One account: no statement touches the rows of two.  A password is the   *)
(* number of the change that set it.  Every await is a step.               *)
(***************************************************************************)
EXTENDS Integers, FiniteSets, Sequences

CONSTANTS
  Requests,     \* requests in flight at once
  Slots,        \* scryptGate: hashes at once
  MaxWaiting,   \* scryptGate: requests that wait for one
  MaxTries,     \* LOGIN_ACCOUNT_LIMIT
  MaxWindows,   \* bound: windows of that limit
  MaxCalls,     \* bound: requests in all
  MaxSessions,  \* bound: rows of auth_sessions
  MaxChanges    \* bound: passwords and cuts

(* So many requests at once, so many of everything.                         *)
SessionsAssumption ==
  /\ IsFiniteSet(Requests) /\ Slots \in Nat /\ MaxTries \in Nat /\ MaxWindows \in Nat /\ MaxCalls \in Nat
  /\ MaxSessions \in Nat /\ MaxChanges \in Nat /\ MaxWaiting \in Nat

VARIABLES
  password,  \* accounts.password_hash
  sessions,  \* auth_sessions, by token
  reqs,      \* request -> what it is and how far
  active,    \* Gate.active
  waiting,   \* Gate.waiting
  tries,     \* the window of login-account: how often it was hit,
  windows,   \*   and how many there have been
  calls,     \* how many requests there have been
  cuts,      \* history: how often all sessions were ended
  halfway    \* history: a change wrote its password, and its cut failed

vars == <<password, sessions, reqs, active, waiting, tries, windows, calls, cuts, halfway>>

Tokens == 1..MaxSessions
NoRow == [kind |-> "none", fresh |-> FALSE, pw |-> 0, began |-> 0, spared |-> FALSE]
Idle == [pc |-> "idle", kind |-> "none", holds |-> 0, pw |-> 0, began |-> 0, spared |-> FALSE]

(* A seller has registered. *)
Init ==
  /\ password = 0 /\ cuts = 0 /\ halfway = FALSE
  /\ sessions = [t \in Tokens |-> IF t = 1 THEN [NoRow EXCEPT !.kind = "console", !.fresh = TRUE] ELSE NoRow]
  /\ reqs = [r \in Requests |-> Idle]
  /\ active = 0 /\ waiting = <<>> /\ tries = 0 /\ windows = 0 /\ calls = 0

InTable == {t \in Tokens : sessions[t].kind # "none"}
At(r, kind, pc) == reqs[r].kind = kind /\ reqs[r].pc = pc
Goto(r, pc) == reqs' = [reqs EXCEPT ![r].pc = pc]
Done(r) == reqs' = [reqs EXCEPT ![r] = Idle]

----------------------------- (* what arrives *) ----------------------------
(* A try past the limit of its window is refused before anything is read.   *)
Login(r) ==
  /\ reqs[r] = Idle /\ tries < MaxTries /\ calls < MaxCalls
  /\ tries' = tries + 1 /\ calls' = calls + 1
  /\ reqs' = [reqs EXCEPT ![r] = [Idle EXCEPT !.pc = "knock", !.kind = "login", !.pw = password, !.began = cuts]]
  /\ UNCHANGED <<password, sessions, active, waiting, windows, cuts, halfway>>

WindowRolls ==
  /\ tries > 0 /\ windows < MaxWindows
  /\ tries' = 0 /\ windows' = windows + 1
  /\ UNCHANGED <<password, sessions, reqs, active, waiting, calls, cuts, halfway>>

(* The hook resolves the token, in the query that also asks whether it has  *)
(* expired.  None of these paths is in the scope of a show's token.         *)
Kinds == {"mint", "logout", "logout-all", "change"}

Arrive(r, kind) == \E t \in InTable :
  /\ reqs[r] = Idle /\ sessions[t].kind = "console" /\ sessions[t].fresh
  /\ calls < MaxCalls /\ calls' = calls + 1
  /\ reqs' = [reqs EXCEPT ![r] = [pc |-> "in", kind |-> kind, holds |-> t, pw |-> sessions[t].pw,
                                  began |-> cuts, spared |-> sessions[t].spared]]
  /\ UNCHANGED <<password, sessions, active, waiting, tries, windows, cuts, halfway>>

------------------------------- (* the gate *) ------------------------------
Knock(r) ==
  /\ reqs[r].pc \in {"knock", "knockAgain"}
  /\ LET hash == IF reqs[r].pc = "knock" THEN "verify" ELSE "rehash" IN
     \/ /\ active < Slots /\ active' = active + 1 /\ Goto(r, hash)
        /\ UNCHANGED waiting
     \/ /\ active >= Slots /\ Len(waiting) < MaxWaiting
        /\ waiting' = Append(waiting, [r |-> r, hash |-> hash]) /\ Goto(r, "wait")
        /\ UNCHANGED active
     \/ /\ active >= Slots /\ Len(waiting) >= MaxWaiting /\ Done(r)  \* GateBusy
        /\ UNCHANGED <<active, waiting>>
  /\ UNCHANGED <<password, sessions, tries, windows, calls, cuts, halfway>>

(* run, its finally: the slot goes to the first that waits, before anything *)
(* else can knock.                                                          *)
Leave_counts(r, next) ==  \* mutant: nobody is woken
  /\ active' = active - 1 /\ reqs' = [reqs EXCEPT ![r] = next] /\ UNCHANGED waiting

Leave(r, next) ==
  IF waiting = <<>>
  THEN active' = active - 1 /\ reqs' = [reqs EXCEPT ![r] = next] /\ UNCHANGED waiting
  ELSE /\ reqs' = [reqs EXCEPT ![r] = next, ![Head(waiting).r].pc = Head(waiting).hash]
       /\ waiting' = Tail(waiting) /\ UNCHANGED active

(* What was typed is the password that was read, or it is not. *)
Verified(r) ==
  /\ reqs[r].pc = "verify"
  /\ \/ Leave(r, Idle)
     \/ reqs[r].kind = "login" /\ Leave(r, [reqs[r] EXCEPT !.pc = "open"])
     \/ reqs[r].kind = "change" /\ Leave(r, [reqs[r] EXCEPT !.pc = "knockAgain"])
  /\ UNCHANGED <<password, sessions, tries, windows, calls, cuts, halfway>>

Rehashed(r) ==
  /\ reqs[r].pc = "rehash" /\ Leave(r, [reqs[r] EXCEPT !.pc = "write"])
  /\ UNCHANGED <<password, sessions, tries, windows, calls, cuts, halfway>>

------------------------------ (* the sessions *) ---------------------------
(* A row by a request that began before a cut is one the cut could not see. *)
Insert(r, kind) == \E t \in Tokens \ InTable :
  /\ \A u \in Tokens \ InTable : t <= u
  /\ sessions' = [sessions EXCEPT ![t] = [kind |-> kind, fresh |-> TRUE, pw |-> reqs[r].pw, began |-> reqs[r].began,
                                          spared |-> reqs[r].spared \/ reqs[r].began < cuts]]

(* openSession *)
Open(r) ==
  /\ At(r, "login", "open") /\ Insert(r, "console") /\ Done(r)
  /\ UNCHANGED <<password, active, waiting, tries, windows, calls, cuts, halfway>>

(* openBridgeSession, openMediaSession *)
Mint(r) ==
  /\ At(r, "mint", "in") /\ Insert(r, "scoped") /\ Done(r)
  /\ UNCHANGED <<password, active, waiting, tries, windows, calls, cuts, halfway>>

Logout(r) ==
  /\ At(r, "logout", "in") /\ Done(r)
  /\ sessions' = [sessions EXCEPT ![reqs[r].holds] = NoRow]
  /\ UNCHANGED <<password, active, waiting, tries, windows, calls, cuts, halfway>>

(* endAllSessions, except for `kept`: who holds it knows the new password.  *)
EndAll_console(kept) ==  \* mutant: the tokens of shows are left
  /\ cuts < MaxChanges /\ cuts' = cuts + 1 /\ halfway' = FALSE
  /\ sessions' = [t \in Tokens |-> IF sessions[t].kind = "scoped" THEN sessions[t]
                                   ELSE IF t \in kept /\ t \in InTable THEN [sessions[t] EXCEPT !.pw = password, !.began = cuts'] ELSE NoRow]

EndAll(kept) ==
  /\ cuts < MaxChanges /\ cuts' = cuts + 1 /\ halfway' = FALSE
  /\ sessions' = [t \in Tokens |-> IF t \in kept /\ t \in InTable
                                   THEN [sessions[t] EXCEPT !.pw = password, !.began = cuts'] ELSE NoRow]

LogoutAll(r) ==
  /\ At(r, "logout-all", "in") /\ Done(r) /\ EndAll({})
  /\ UNCHANGED <<password, active, waiting, tries, windows, calls>>

(* changePassword reads the hash, verifies it, makes the new one, writes it *)
(* and ends the other sessions.                                             *)
ReadHash(r) ==
  /\ At(r, "change", "in") /\ Goto(r, "knock")
  /\ UNCHANGED <<password, sessions, active, waiting, tries, windows, calls, cuts, halfway>>

Write(r) ==
  /\ At(r, "change", "write") /\ password < MaxChanges
  /\ password' = password + 1 /\ Goto(r, "cut")
  /\ UNCHANGED <<sessions, active, waiting, tries, windows, calls, cuts, halfway>>

Cut(r) ==
  /\ At(r, "change", "cut") /\ Done(r) /\ EndAll({reqs[r].holds})
  /\ UNCHANGED <<password, active, waiting, tries, windows, calls>>

(* The statement fails: the seller is told so, and has the new password. *)
CutFails(r) ==
  /\ At(r, "change", "cut") /\ Done(r) /\ halfway' = TRUE
  /\ UNCHANGED <<password, sessions, active, waiting, tries, windows, calls, cuts>>

(* An hour, or thirty days, have passed; and startSessionPrune comes by. *)
Expire == \E t \in InTable :
  /\ sessions[t].fresh
  /\ sessions' = [sessions EXCEPT ![t].fresh = FALSE]
  /\ UNCHANGED <<password, reqs, active, waiting, tries, windows, calls, cuts, halfway>>

Prune ==
  /\ \E t \in InTable : ~sessions[t].fresh
  /\ sessions' = [t \in Tokens |-> IF sessions[t].fresh THEN sessions[t] ELSE NoRow]
  /\ UNCHANGED <<password, reqs, active, waiting, tries, windows, calls, cuts, halfway>>

-----------------------------------------------------------------------------
Next ==
  \/ WindowRolls \/ Expire \/ Prune
  \/ \E r \in Requests :
       \/ Login(r) \/ (\E kind \in Kinds : Arrive(r, kind))
       \/ Knock(r) \/ Verified(r) \/ Rehashed(r) \/ Open(r) \/ Mint(r)
       \/ Logout(r) \/ LogoutAll(r) \/ ReadHash(r) \/ Write(r) \/ Cut(r) \/ CutFails(r)

Spec == Init /\ [][Next]_vars

-----------------------------------------------------------------------------
TypeOK ==
  /\ password \in 0..MaxChanges /\ cuts \in 0..MaxChanges /\ halfway \in BOOLEAN
  /\ \A t \in Tokens : sessions[t].kind \in {"none", "console", "scoped"} /\ sessions[t].pw <= password
  /\ tries \in 0..MaxTries /\ windows \in 0..MaxWindows /\ calls \in 0..MaxCalls
  /\ \A r \in Requests : reqs[r].pc \in {"idle", "in", "knock", "wait", "verify", "knockAgain", "rehash", "write", "open", "cut"}

(* Signing out everywhere, or changing the password, leaves nobody signed   *)
(* in by what was valid before - a session, a token of a show that one      *)
(* minted, an old password - but whoever changed it (accounts.ts, lines 248 *)
(* to 276), and but for a request that was already under way when the       *)
(* sessions were ended; unless the change was answered with an error        *)
(* between its two statements.                                              *)
OldKeysAreDead ==
  \A t \in InTable : \/ sessions[t].spared \/ halfway
                     \/ /\ sessions[t].began = cuts
                        /\ sessions[t].pw = password \/ \E r \in Requests : At(r, "change", "cut")

(* Hashes are counted: there are never more of them than slots, and nobody  *)
(* waits for a slot that nobody uses (rateLimit.ts, lines 76 to 86).        *)
HashesAreCounted ==
  LET hashing == {r \in Requests : reqs[r].pc \in {"verify", "rehash"}} IN
  /\ active = Cardinality(hashing) /\ active <= Slots
  /\ waiting # <<>> => active = Slots
  /\ {r \in Requests : reqs[r].pc = "wait"} = {waiting[i].r : i \in 1..Len(waiting)}
=============================================================================
