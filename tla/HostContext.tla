----------------------------- MODULE HostContext -----------------------------
(***************************************************************************)
(* What a show knows of its host, now (ingest/showContext.ts), and what it *)
(* makes of it: the names of lots (ShowRuntime.nameLot, enrichLot).        *)
(*                                                                         *)
(* Speech is kept for a window and summarised on a timer, one call at a    *)
(* time; how the host sounds and what is on screen are kept for a while    *)
(* and expire.  Readings arrive from the listening page and from calls to  *)
(* the vision model, of which several may be under way.  A reading, a      *)
(* segment and a summary are numbers; speech that was dropped because it   *)
(* is older than two windows is not in the window either.                  *)
(***************************************************************************)
EXTENDS Integers, FiniteSets, Sequences

CONSTANTS
  Lots,
  Window,     \* windowMs
  VoiceTTL,   \* VOICE_TTL_MS
  ScreenTTL,  \* ON_SCREEN_TTL_MS
  Gap,        \* VISUAL_MIN_GAP_MS
  MaxSaid,    \* bound: segments
  MaxFrames,  \* bound: frames
  MaxTime     \* bound: time

(* Times and bounds are numbers. *)
ContextAssumption == Window \in Nat /\ MaxSaid \in Nat /\ MaxFrames \in Nat /\ MaxTime \in Nat

VARIABLES
  now,
  said,       \* segs: when each segment was said
  counted,    \* lastSegCount
  calls,      \* the summaries asked for: the newest segment each was given
  summary,    \* ctx.currentTopic: the newest segment it knows of
  voice,      \* voiceAt, if ctx.voice has a reading
  screen,     \* onScreenAt, if ctx.onScreen has one
  frames,     \* how many frames are being read
  read,       \* and how many were
  lastRead,   \* lastVisualRead
  ticking,    \* whether the timer of the summaries runs
  started,    \* ShowRuntime.started
  naming,     \* lot -> where nameLot is with it
  called      \* lot -> whose name its row has

vars == <<now, said, counted, calls, summary, voice, screen, frames, read, lastRead, ticking, started, naming, called>>
speech == <<said, counted, calls, summary>>
signals == <<voice, screen, frames, read, lastRead>>
life == <<ticking, started, naming, called>>

None == -1

Init ==
  /\ now = 0 /\ said = <<>> /\ counted = 0 /\ calls = {} /\ summary = 0
  /\ voice = None /\ screen = None /\ frames = 0 /\ read = 0 /\ lastRead = -Gap
  /\ ticking = TRUE /\ started = TRUE /\ naming = [l \in Lots |-> "unseen"] /\ called = [l \in Lots |-> "title"]

Tick ==
  /\ now < MaxTime /\ now' = now + 1
  /\ UNCHANGED <<speech, signals, life>>

------------------------------- (* the speech *) ----------------------------
setVoice(trusted) == voice' = IF trusted THEN now ELSE None

(* A segment with a reading of the voice, trusted or not, or without one. *)
Push(reading) ==
  /\ Len(said) < MaxSaid /\ said' = Append(said, now)
  /\ IF reading = "none" THEN UNCHANGED voice ELSE setVoice(reading = "trusted")
  /\ UNCHANGED <<now, counted, calls, summary, screen, frames, read, lastRead, life>>

InWindow == {i \in DOMAIN said : now - said[i] <= Window}

(* maybeRefresh: a summary is asked for when there are more, or fewer,      *)
(* segments in the window than the last time.                               *)
Refresh_always ==  \* mutant: a slow call does not keep the next one waiting
  /\ ticking
  /\ InWindow # {} /\ Cardinality(InWindow) # counted
  /\ counted' = Cardinality(InWindow)
  /\ calls' = calls \cup {CHOOSE i \in InWindow : \A j \in InWindow : j <= i}
  /\ UNCHANGED <<now, said, summary, signals, life>>

Refresh ==
  /\ ticking /\ calls = {}
  /\ InWindow # {} /\ Cardinality(InWindow) # counted
  /\ counted' = Cardinality(InWindow)
  /\ calls' = {CHOOSE i \in InWindow : \A j \in InWindow : j <= i}
  /\ UNCHANGED <<now, said, summary, signals, life>>

(* Only what the summary is about is replaced, in the context as it is by   *)
(* then.                                                                    *)
Summarised(c) ==
  /\ summary' = c /\ calls' = calls \ {c}
  /\ UNCHANGED <<now, said, counted, signals, life>>

SummaryFails(c) ==
  /\ calls' = calls \ {c}
  /\ UNCHANGED <<now, said, counted, summary, signals, life>>

------------------------------- (* the frames *) ----------------------------
ReadFrame ==
  /\ now - lastRead >= Gap /\ lastRead' = now
  /\ read < MaxFrames /\ read' = read + 1 /\ frames' = frames + 1
  /\ UNCHANGED <<now, speech, voice, screen, life>>

(* setOnScreen: a reading is as old as its arrival, and the last to arrive  *)
(* is what is on screen.                                                    *)
FrameRead ==
  /\ frames > 0 /\ frames' = frames - 1 /\ screen' = now
  /\ UNCHANGED <<now, speech, voice, read, lastRead, life>>

FrameFails ==
  /\ frames > 0 /\ frames' = frames - 1
  /\ UNCHANGED <<now, speech, voice, screen, read, lastRead, life>>

------------------------------- (* the reading *) ---------------------------
Kept(signal, ttl) == IF signal # None /\ now - signal > ttl THEN None ELSE signal

(* current: what went stale is dropped, and the rest is returned. *)
freshen == voice' = Kept(voice, VoiceTTL) /\ screen' = Kept(screen, ScreenTTL)

Current ==
  /\ freshen
  /\ UNCHANGED <<now, speech, frames, read, lastRead, life>>

-------------------------------- (* the names *) ----------------------------
(* onItem: a lot that was just inserted waits for its name, whether the     *)
(* show was stopped while its row was written or not.                       *)
Created(l) ==
  /\ naming[l] = "unseen" /\ naming' = [naming EXCEPT ![l] = "written"]
  /\ started
  /\ UNCHANGED <<now, speech, signals, ticking, started, called>>

Waits(l) ==
  /\ naming[l] = "written" /\ naming' = [naming EXCEPT ![l] = "waits"]
  /\ UNCHANGED <<now, speech, signals, ticking, started, called>>

(* The timer fires; what is said and seen is put to the model, if there is  *)
(* anything.                                                                *)
Ask_anyway(l) ==  \* mutant: only the timers keep a stopped show from asking
  /\ naming[l] = "waits" /\ freshen
  /\ naming' = [naming EXCEPT ![l] = IF summary # 0 \/ screen' # None THEN "asked" ELSE "done"]
  /\ UNCHANGED <<now, speech, frames, read, lastRead, ticking, started, called>>

Ask(l) ==
  /\ naming[l] = "waits"
  /\ IF ~started THEN naming' = [naming EXCEPT ![l] = "done"] /\ UNCHANGED <<voice, screen>>
     ELSE /\ freshen
          /\ naming' = [naming EXCEPT ![l] = IF summary # 0 \/ screen' # None THEN "asked" ELSE "done"]
  /\ UNCHANGED <<now, speech, frames, read, lastRead, ticking, started, called>>

(* A name, which is written over the one the lot has, or none: the model    *)
(* does not know, or fails.                                                 *)
Answered(l) ==
  /\ naming[l] = "asked" /\ naming' = [naming EXCEPT ![l] = "done"]
  /\ \/ called' = [called EXCEPT ![l] = "guess"]
     \/ UNCHANGED called
  /\ UNCHANGED <<now, speech, signals, ticking, started>>

(* The route of the operator. *)
Rename(l) ==
  /\ naming[l] # "unseen" /\ called[l] # "operator"
  /\ called' = [called EXCEPT ![l] = "operator"]
  /\ UNCHANGED <<now, speech, signals, ticking, started, naming>>

(* ShowRuntime.stop: the timers of the names go first, the one of the       *)
(* summaries when the drafts have drained.                                  *)
Stop ==
  /\ started /\ started' = FALSE
  /\ naming' = [l \in Lots |-> IF naming[l] = "waits" THEN "done" ELSE naming[l]]
  /\ UNCHANGED <<now, speech, signals, ticking, called>>

StopContext ==
  /\ ~started /\ ticking /\ ticking' = FALSE
  /\ UNCHANGED <<now, speech, signals, started, naming, called>>

-----------------------------------------------------------------------------
Next ==
  \/ Tick \/ Refresh \/ ReadFrame \/ FrameRead \/ FrameFails \/ Current \/ Stop \/ StopContext
  \/ \E reading \in {"none", "trusted", "untrusted"} : Push(reading)
  \/ \E c \in calls : Summarised(c) \/ SummaryFails(c)
  \/ \E l \in Lots : Created(l) \/ Waits(l) \/ Ask(l) \/ Answered(l) \/ Rename(l)

Spec == Init /\ [][Next]_vars

-----------------------------------------------------------------------------
TypeOK ==
  /\ now \in 0..MaxTime /\ counted \in 0..MaxSaid /\ calls \subseteq DOMAIN said
  /\ summary \in 0..Len(said) /\ frames \in 0..MaxFrames /\ read \in 0..MaxFrames
  /\ \A l \in Lots : naming[l] \in {"unseen", "written", "waits", "asked", "done"}
  /\ \A l \in Lots : called[l] \in {"title", "guess", "operator"}

(* What the host is on is never replaced by what they were on before: one   *)
(* summary is asked for at a time (lines 160 to 165).                       *)
SummariesInOrder == [][summary' >= summary]_vars

(* A show that was stopped asks the model for no more names, not even for a *)
(* lot whose row was being written when it was (runtime.ts, line 354).      *)
StoppedAsksNothing == [][\A l \in Lots : naming'[l] = "asked" /\ naming[l] # "asked" => started]_vars

(* What the operator calls a lot it is called: the operator "is the only    *)
(* one who can see that" a guess is wrong (routes.ts, line 4145).           *)
OperatorNameStands == [][\A l \in Lots : called[l] = "operator" => called'[l] = "operator"]_vars
=============================================================================
