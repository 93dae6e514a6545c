----------------------------- MODULE MCLiveness -----------------------------
(***************************************************************************)
(* The components that owe somebody an end or an answer, side by side: the *)
(* audit chain (two appenders, three rows and one edit, so that an append meets*)
(* another at every statement), the watcher of a scraped page, the Twitch chat, the host's listening page, and*)
(* the report of a session, the collector of agents, the market lookups, and the*)
(* spend cap.                                                              *)
(***************************************************************************)
EXTENDS AuditChain, FiniteSets

CONSTANTS w1, w2, e1, e2

VARIABLES
  active,   \* the one component that runs in a behaviour
  w_room, w_faults, w_w, w_given,
  t_chat, t_socks, t_latest, t_timers, t_keepalive, t_outages,
  l_page, l_watch, l_rooms, l_told, l_row, l_clicks,
  s_runtime, s_question, s_pending, s_table, s_lost, s_show, s_fin, s_leads,
  v_agent, v_prep, v_show, v_prepare, v_attach, v_drop, v_delete, v_gc, v_refusals, v_requests,
  i_rows, i_epoch, i_sent, i_index, i_builtAt, i_job,
  m_now, m_granted, m_scopes, m_token, m_minting, m_cache, m_look, m_off, m_until, m_soldOff, m_faults, m_refused,
  q_now, q_cache, q_inFlight, q_reads, q_asks,
  u_wallet, u_session, u_draft, u_anchor, u_opened, u_last, u_capped, u_poll, u_costs, u_seen, u_events

w_vars == <<w_room, w_faults, w_w, w_given>>
t_vars == <<t_chat, t_socks, t_latest, t_timers, t_keepalive, t_outages>>
l_vars == <<l_page, l_watch, l_rooms, l_told, l_row, l_clicks>>
s_vars == <<s_runtime, s_question, s_pending, s_table, s_lost, s_show, s_fin, s_leads>>
v_vars == <<v_agent, v_prep, v_show, v_prepare, v_attach, v_drop, v_delete, v_gc, v_refusals, v_requests>>
i_vars == <<i_rows, i_epoch, i_sent, i_index, i_builtAt, i_job>>
m_vars == <<m_now, m_granted, m_scopes, m_token, m_minting, m_cache, m_look, m_off, m_until, m_soldOff, m_faults, m_refused>>
q_vars == <<q_now, q_cache, q_inFlight, q_reads, q_asks>>
u_vars == <<u_wallet, u_session, u_draft, u_anchor, u_opened, u_last, u_capped, u_poll, u_costs, u_seen, u_events>>
allVars == <<active, vars, w_vars, t_vars, l_vars, s_vars, v_vars, i_vars, m_vars, q_vars, u_vars>>

Watch == INSTANCE RoomWatch WITH
  room <- w_room, faults <- w_faults, w <- w_w, given <- w_given,
  MaxMessages <- 1, MaxFaults <- 2, Window <- 2, SeenCap <- 2, SeenKeep <- 2,
  MaxReloads <- 1, CommentSilence <- 2, ActivityWindow <- 1, EndSilence <- 3

Chat == INSTANCE TwitchChat WITH
  chat <- t_chat, socks <- t_socks, latest <- t_latest, timers <- t_timers,
  keepalive <- t_keepalive, outages <- t_outages,
  Sockets <- {"s1", "s2", "s3", "s4"}, MaxOutages <- 3

Bridge == INSTANCE ListenBridge WITH
  page <- l_page, watch <- l_watch, rooms <- l_rooms, told <- l_told, row <- l_row,
  clicks <- l_clicks,
  Rooms <- {"r1", "r2", "r3", "r4"}, MaxReconnects <- 2, MaxClicks <- 2

Report == INSTANCE SessionReport WITH
  runtime <- s_runtime, question <- s_question, pending <- s_pending, table <- s_table,
  lost <- s_lost, show <- s_show, fin <- s_fin, leads <- s_leads,
  Messages <- {"m1"}, Closers <- {"f1", "f2"}, Again <- {}, MaxFinishes <- 2,
  WriteFails <- TRUE, BuildFails <- TRUE

(* What the theorems of SessionReport suppose. *)
ASSUME FinishersHaveNames == Report!FinishersAreNamed

Agents == INSTANCE StreamAgents WITH
  agent <- v_agent, prep <- v_prep, show <- v_show, prepare <- v_prepare,
  attach <- v_attach, drop <- v_drop, delete <- v_delete, gc <- v_gc,
  refusals <- v_refusals, requests <- v_requests,
  Agents <- {"a1", "a2"}, Sessions <- {"s1"}, Cap <- 1, MaxRefusals <- 1,
  MaxRequests <- 2

Index == INSTANCE RetrievalIndex WITH
  rows <- i_rows, epoch <- i_epoch, sent <- i_sent, index <- i_index,
  builtAt <- i_builtAt, job <- i_job,
  Writers <- {"w1", "w2"}, Refreshing <- {"w1"}, Drafts <- {"d1"},
  Faults <- {"tx", "db"}, MaxWrites <- 2

Market == INSTANCE MarketLookups WITH
  now <- m_now, granted <- m_granted, scopes <- m_scopes, token <- m_token,
  minting <- m_minting, cache <- m_cache, look <- m_look, off <- m_off,
  until <- m_until, soldOff <- m_soldOff, faults <- m_faults, refused <- m_refused,
  Skus <- {"k"}, Regrants <- {"sold", "browse"}, Granted <- {"browse"}, TTL <- 1,
  OffTicks <- 1, MaxTime <- 2, MaxFaults <- 1

Discover == INSTANCE Discovery WITH
  now <- q_now, cache <- q_cache, inFlight <- q_inFlight, reads <- q_reads,
  asks <- q_asks,
  Surfaces <- {"whatnot", "reddit"}, Browsed <- {"whatnot"}, Askers <- {"x"},
  Asks <- {"r1", "r2"}, OkTTL <- 3, FailTTL <- 1, Timeout <- 1, MaxTime <- 4,
  MaxReads <- 4

Budget == INSTANCE ShowBudget WITH
  wallet <- u_wallet, session <- u_session, draft <- u_draft, anchor <- u_anchor,
  opened <- u_opened, last <- u_last, capped <- u_capped, poll <- u_poll,
  costs <- u_costs, seen <- u_seen, events <- u_events,
  Shows <- {"t1"}, SavedCap <- 2, ProcessCap <- 2, NoCap <- 99, Balance <- 3,
  MaxTopUps <- 1, MaxRestarts <- 1, MaxFailures <- 1

AllInit ==
  /\ active \in {"Audit", "Watch", "Chat", "Bridge", "Report", "Agents", "Index", "Market", "Discover", "Budget"}
  /\ Init
  /\ Watch!Init
  /\ Chat!Init
  /\ Bridge!Init
  /\ Report!Init
  /\ Agents!Init
  /\ Index!Init
  /\ Market!Init
  /\ Discover!Init
  /\ Budget!Init

(* One component steps, the others stay in their initial state: what is     *)
(* checked of each is checked of it alone, and the state spaces add up.     *)
AuditSteps == active = "Audit" /\ Next /\ UNCHANGED <<active, w_vars, t_vars, l_vars, s_vars, v_vars, i_vars, m_vars, q_vars, u_vars>>
WatchSteps == active = "Watch" /\ Watch!Next /\ UNCHANGED <<active, vars, t_vars, l_vars, s_vars, v_vars, i_vars, m_vars, q_vars, u_vars>>
ChatSteps == active = "Chat" /\ Chat!Next /\ UNCHANGED <<active, vars, w_vars, l_vars, s_vars, v_vars, i_vars, m_vars, q_vars, u_vars>>
BridgeSteps == active = "Bridge" /\ Bridge!Next /\ UNCHANGED <<active, vars, w_vars, t_vars, s_vars, v_vars, i_vars, m_vars, q_vars, u_vars>>
ReportSteps == active = "Report" /\ Report!Next /\ UNCHANGED <<active, vars, w_vars, t_vars, l_vars, v_vars, i_vars, m_vars, q_vars, u_vars>>
AgentsSteps == active = "Agents" /\ Agents!Next /\ UNCHANGED <<active, vars, w_vars, t_vars, l_vars, s_vars, i_vars, m_vars, q_vars, u_vars>>
IndexSteps == active = "Index" /\ Index!Next /\ UNCHANGED <<active, vars, w_vars, t_vars, l_vars, s_vars, v_vars, m_vars, q_vars, u_vars>>
MarketSteps == active = "Market" /\ Market!Next /\ UNCHANGED <<active, vars, w_vars, t_vars, l_vars, s_vars, v_vars, i_vars, q_vars, u_vars>>
DiscoverSteps == active = "Discover" /\ Discover!Next /\ UNCHANGED <<active, vars, w_vars, t_vars, l_vars, s_vars, v_vars, i_vars, m_vars, u_vars>>
BudgetSteps == active = "Budget" /\ Budget!Next /\ UNCHANGED <<active, vars, w_vars, t_vars, l_vars, s_vars, v_vars, i_vars, m_vars, q_vars>>

AllNext == AuditSteps \/ WatchSteps \/ ChatSteps \/ BridgeSteps \/ ReportSteps
     \/ AgentsSteps \/ IndexSteps \/ MarketSteps \/ DiscoverSteps
     \/ BudgetSteps

AllSpec == AllInit /\ [][AllNext]_allVars

-----------------------------------------------------------------------------
(* The components that do not run are as they began, so a state is judged by *)
(* the one that does.                                                       *)
AllTypeOK ==
  /\ TypeOK
  /\ active = "Watch" => Watch!TypeOK
  /\ active = "Chat" => Chat!TypeOK
  /\ active = "Bridge" => Bridge!TypeOK
  /\ active = "Report" => Report!TypeOK
  /\ active = "Agents" => Agents!TypeOK
  /\ active = "Index" => Index!TypeOK
  /\ active = "Market" => Market!TypeOK
  /\ active = "Discover" => Discover!TypeOK
  /\ active = "Budget" => Budget!TypeOK

(* SessionReport: what was asked is counted, and two finishers agree. *)
ReportIsWhole == active = "Report" => Report!ReportIsWhole

(* RoomWatch, TwitchChat, ListenBridge: a feed that died under us - a scraped
   room, a chat socket, the audio of a stream - is mended, or somebody is told. *)
SilenceIsTold ==
  /\ Watch!Fairness => Watch!MuteRoomIsNoticed
  /\ Chat!Fairness => Chat!ChatRecovers
  /\ Bridge!Fairness => Bridge!DeafnessIsTold

(* SessionReport: a session that has begun to end ends. *)
SessionEnds == Report!Fairness => Report!SessionEnds

(* StreamAgents: an agent that nothing names any more is reaped. *)
OrphansAreReaped == Agents!Fairness => Agents!OrphansAreReaped

(* ShowBudget: a show that is over its cap does not go on drafting. *)
OverspendIsStopped == Budget!Fairness => Budget!OverspendIsStopped

(* AuditChain, Discovery: an append that began ends, and a request is answered
   whatever a surface does. *)
AppendsEnd ==
  /\ Fairness => AppendEnds
  /\ Discover!Fairness => Discover!RunAnswers

(* RetrievalIndex, MarketLookups: while buyers ask, the index does not stay
   stale, and a lineup that is asked about gets its market. *)
StaleIsRepaired ==
  /\ Index!Fairness => Index!BackstopRepairs
  /\ Market!Fairness => Market!LineupIsMatched
=============================================================================
