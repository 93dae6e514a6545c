----------------------------- MODULE MCRecords ------------------------------
(***************************************************************************)
(* The components whose safety is checked side by side: what is taken from a*)
(* room, what a session leaves behind, and what an account has set.        *)
(***************************************************************************)
EXTENDS RetrievalIndex, FiniteSets

CONSTANTS w1, w2, d1, d2

VARIABLES
  active,   \* the one component that runs in a behaviour
  w_room, w_faults, w_w, w_given,
  b_chrome, b_shared, b_refCount, b_lease, b_slots, b_owed, b_at,
  p_states, p_rows, p_reqs, p_closed, p_over, p_calls,
  a_tries, a_acked, a_req, a_table, a_files, a_taken, a_losses,
  i_inbox, i_build, i_clock,
  d_session, d_held, d_writing, d_writes, d_rows, d_inbox, d_press, d_entries, d_page, d_spent,
  v_session, v_held, v_writing, v_writes, v_rows, v_inbox, v_press, v_entries, v_page, v_spent,
  g_row, g_cache, g_reqs, g_agent, g_saves, g_clock,
  c_password, c_sessions, c_reqs, c_active, c_waiting, c_tries, c_windows, c_calls, c_cuts, c_halfway,
  o_row, o_writer, o_audited, o_onAir, o_updates, o_faults, o_unsaid,
  l_shown, l_handlers, l_count, l_rows, l_sales, l_faults, l_latest, l_closings, l_hurt,
  h_now, h_said, h_counted, h_calls, h_summary, h_voice, h_screen, h_frames, h_read, h_lastRead, h_ticking, h_started, h_naming, h_called,
  n_catalog, n_indexed, n_pc, n_facts, n_room, n_text, n_checked, n_verdicts, n_grounding, n_repaired, n_moves,
  e_row, e_offer, e_target, e_seen, e_held, e_act, e_edits, e_faults, e_switches, e_moved,
  k_file, k_cache, k_inventory, k_lots, k_answers, k_show, k_req, k_given, k_tasks, k_faults, k_writers,
  f_now, f_onAir, f_grid, f_gridAt, f_lastEmptyReason, f_reading, f_rows, f_writes, f_checks, f_refusals, f_seen,
  q_now, q_cache, q_inFlight, q_reads, q_asks,
  z_rows, z_catalogs, z_readers, z_tabs, z_faults, z_swaps, z_decided,
  y_lineup, y_agent, y_kb, y_watching, y_purged, y_lastSignature, y_sync, y_made, y_faults, y_uploaded, y_emptied,
  j_now, j_kind, j_door, j_pc, j_began, j_timer, j_script, j_wire, j_buf, j_full, j_shown, j_final, j_answer, j_counted,
  m_now, m_signals, m_lots, m_rung, m_seen, m_eval, m_rows, m_heard, m_moves, m_faults, m_restarts,
  x_ended, x_asked, x_mem, x_flight, x_row, x_acts, x_build, x_reports, x_newest, x_events, x_builds, x_faults,
  t_act, t_applied, t_ledger, t_tries, t_shown, t_poll, t_live, t_lost, t_undone, t_told, t_spent,
  r_posted, r_removed, r_seen, r_primed, r_stopped, r_emitted, r_base, r_reader, r_token, r_minted, r_queue, r_rate, r_left, r_window, r_over, r_blind

w_vars == <<w_room, w_faults, w_w, w_given>>
b_vars == <<b_chrome, b_shared, b_refCount, b_lease, b_slots, b_owed, b_at>>
p_vars == <<p_states, p_rows, p_reqs, p_closed, p_over, p_calls>>
a_vars == <<a_tries, a_acked, a_req, a_table, a_files, a_taken, a_losses>>
i_vars == <<i_inbox, i_build, i_clock>>
d_vars == <<d_session, d_held, d_writing, d_writes, d_rows, d_inbox, d_press, d_entries, d_page, d_spent>>
v_vars == <<v_session, v_held, v_writing, v_writes, v_rows, v_inbox, v_press, v_entries, v_page, v_spent>>
g_vars == <<g_row, g_cache, g_reqs, g_agent, g_saves, g_clock>>
c_vars == <<c_password, c_sessions, c_reqs, c_active, c_waiting, c_tries, c_windows, c_calls, c_cuts, c_halfway>>
o_vars == <<o_row, o_writer, o_audited, o_onAir, o_updates, o_faults, o_unsaid>>
l_vars == <<l_shown, l_handlers, l_count, l_rows, l_sales, l_faults, l_latest, l_closings, l_hurt>>
h_vars == <<h_now, h_said, h_counted, h_calls, h_summary, h_voice, h_screen, h_frames, h_read, h_lastRead, h_ticking, h_started, h_naming, h_called>>
n_vars == <<n_catalog, n_indexed, n_pc, n_facts, n_room, n_text, n_checked, n_verdicts, n_grounding, n_repaired, n_moves>>
e_vars == <<e_row, e_offer, e_target, e_seen, e_held, e_act, e_edits, e_faults, e_switches, e_moved>>
k_vars == <<k_file, k_cache, k_inventory, k_lots, k_answers, k_show, k_req, k_given, k_tasks, k_faults, k_writers>>
f_vars == <<f_now, f_onAir, f_grid, f_gridAt, f_lastEmptyReason, f_reading, f_rows, f_writes, f_checks, f_refusals, f_seen>>
q_vars == <<q_now, q_cache, q_inFlight, q_reads, q_asks>>
z_vars == <<z_rows, z_catalogs, z_readers, z_tabs, z_faults, z_swaps, z_decided>>
y_vars == <<y_lineup, y_agent, y_kb, y_watching, y_purged, y_lastSignature, y_sync, y_made, y_faults, y_uploaded, y_emptied>>
j_vars == <<j_now, j_kind, j_door, j_pc, j_began, j_timer, j_script, j_wire, j_buf, j_full, j_shown, j_final, j_answer, j_counted>>
m_vars == <<m_now, m_signals, m_lots, m_rung, m_seen, m_eval, m_rows, m_heard, m_moves, m_faults, m_restarts>>
x_vars == <<x_ended, x_asked, x_mem, x_flight, x_row, x_acts, x_build, x_reports, x_newest, x_events, x_builds, x_faults>>
t_vars == <<t_act, t_applied, t_ledger, t_tries, t_shown, t_poll, t_live, t_lost, t_undone, t_told, t_spent>>
r_vars == <<r_posted, r_removed, r_seen, r_primed, r_stopped, r_emitted, r_base, r_reader, r_token, r_minted, r_queue, r_rate, r_left, r_window, r_over, r_blind>>
allVars == <<active, vars, w_vars, b_vars, p_vars, a_vars, i_vars, d_vars, v_vars, g_vars, c_vars, o_vars, l_vars, h_vars, n_vars, e_vars, k_vars, f_vars, q_vars, z_vars, y_vars, j_vars, m_vars, x_vars, t_vars, r_vars>>

(* The n-th chunk of a listening, in a load of the page. *)
Chunk(run, listening, n) == [run |-> run, listening |-> listening, n |-> n]

(* A draft of an earlier show that waits, and one that was sent. *)
MCEarlier ==
  [p3 |-> [status |-> "pending", verdict |-> "answer", edited |-> FALSE, decided |-> FALSE],
   p4 |-> [status |-> "sent", verdict |-> "answer", edited |-> FALSE, decided |-> TRUE]]

(* The streams of the gateway: whole, with a tool call, cut off, refused, never
   closed, and broken. *)
Streamed(event, text) == [event |-> event, text |-> text]
MCScripts ==
  { [frames |-> <<Streamed("delta", <<1>>), Streamed("delta", <<2>>), Streamed("done", <<1, 2>>)>>, end |-> "close"],
    [frames |-> <<Streamed("delta", <<1>>), Streamed("tool", <<>>), Streamed("done", <<2>>)>>, end |-> "close"],
    [frames |-> <<Streamed("delta", <<1>>), Streamed("delta", <<2>>)>>, end |-> "close"],
    [frames |-> <<Streamed("delta", <<1>>), Streamed("error", <<>>), Streamed("done", <<1>>)>>, end |-> "close"],
    [frames |-> <<Streamed("delta", <<1>>), Streamed("done", <<1>>)>>, end |-> "hang"],
    [frames |-> <<Streamed("delta", <<1>>)>>, end |-> "reset"] }

(* What the buyers of a show ask. *)
MCQuestions ==
  { [intent |-> "discount", lot |-> "a"], [intent |-> "availability", lot |-> "a"],
    [intent |-> "other", lot |-> "b"] }

(* The replies and the rooms GuardChain is checked with: what a reply may say, one
   thing at a time, and the rooms and questions it answers. *)
MCNoText == [cents |-> 0, clause |-> "plain", stock |-> "unsaid", last |-> FALSE, count |-> -1, topic |-> "none",
           never |-> "none", cites |-> {}, weak |-> FALSE, checkable |-> FALSE, tone |-> "fine",
           pii |-> FALSE, breaks |-> FALSE, sponsored |-> FALSE]

MCPrices == {5, 10}

MCRetrieved == {{}, {"price", "stock"}, {"lineup"}, {"price", "stock", "comps", "shipping"}, {"speech", "stock", "sponsor"}}

(* Amounts: the flat fee, under the floor, the two prices and what is       *)
(* between them, the median, what the host said.                            *)
Amounts == {1, 3, 5, 7, 8, 10, 12, 20}

Quoting == {[MCNoText EXCEPT !.cents = c, !.cites = {"price"}] : c \in Amounts}
           \cup {[MCNoText EXCEPT !.cents = c, !.clause = k, !.cites = {"price"}] :
                    c \in {3, 8, 12, 20}, k \in {"declining", "attributed"}}

OfStock == {[MCNoText EXCEPT !.stock = s, !.cites = {"stock"}] : s \in {"available", "gone"}}
           \cup {[MCNoText EXCEPT !.last = TRUE, !.cites = {"stock"}], [MCNoText EXCEPT !.count = 2, !.cites = {"stock"}]}

OfPolicy == {[MCNoText EXCEPT !.never = n] : n \in {"always", "unlessCertified"}}
            \cup {[MCNoText EXCEPT !.topic = "shipping", !.cites = c] : c \in {{"shipping"}, {"lineup"}}}

Worded == {MCNoText, [MCNoText EXCEPT !.checkable = TRUE], [MCNoText EXCEPT !.weak = TRUE, !.cites = {"stock"}],
           [MCNoText EXCEPT !.pii = TRUE], [MCNoText EXCEPT !.breaks = TRUE], [MCNoText EXCEPT !.sponsored = TRUE]}
          \cup {[MCNoText EXCEPT !.tone = x] : x \in {"profane", "loud"}}

MCTexts == Quoting \cup OfStock \cup OfPolicy \cup Worded

MCRewrites == {[t EXCEPT !.cites = {}] : t \in {x \in Quoting : x.cents \in {5, 8} /\ x.clause = "plain"} \cup OfStock}
              \cup {MCNoText, [MCNoText EXCEPT !.never = "unlessCertified"], [MCNoText EXCEPT !.cites = {"stock"}],
                    [MCNoText EXCEPT !.stock = "gone", !.last = TRUE]}

AtEbay == [surface |-> "ebay", level |-> 1, intent |-> "price", api |-> FALSE, offer |-> 0, named |-> "none", quality |-> 80]

MCRooms == {AtEbay, [AtEbay EXCEPT !.quality = 0], [AtEbay EXCEPT !.offer = 8, !.named = "a"], [AtEbay EXCEPT !.level = 0]}
           \cup {[AtEbay EXCEPT !.surface = "twitch", !.level = 3, !.intent = i, !.api = d] :
                   i \in {"price", "shipping"}, d \in BOOLEAN}

Watch == INSTANCE RoomWatch WITH
  room <- w_room, faults <- w_faults, w <- w_w, given <- w_given,
  MaxMessages <- 3, MaxFaults <- 1, Window <- 2, SeenCap <- 2, SeenKeep <- 2,
  MaxReloads <- 1, CommentSilence <- 2, ActivityWindow <- 1, EndSilence <- 3

ASSUME MuchIsKept == Watch!WatchAssumption

Browser == INSTANCE SharedBrowser WITH
  chrome <- b_chrome, shared <- b_shared, refCount <- b_refCount, lease <- b_lease,
  slots <- b_slots, owed <- b_owed, at <- b_at,
  Watchers <- {"x1", "x2", "x3"}, MaxBrowsers <- 2, MaxLaunches <- 3,
  LaunchFails <- TRUE, BrowserDies <- TRUE, PageDies <- TRUE, OneAtATime <- TRUE

ASSUME WatchersAreCounted == Browser!BrowserAssumption

Account == INSTANCE PlatformAccount WITH
  states <- p_states, rows <- p_rows, reqs <- p_reqs, closed <- p_closed,
  over <- p_over, calls <- p_calls,
  Accounts <- {"a1"}, Members <- {"x", "y"}, Consents <- {"c1", "c2"},
  Requests <- {"r1", "r2"}, MaxCalls <- 1

(* What the theorems about it suppose. *)
ASSUME SellersAndConsents == Account!AccountAssumption

Audio == INSTANCE AudioChunks WITH
  tries <- a_tries, acked <- a_acked, req <- a_req, table <- a_table, files <- a_files,
  taken <- a_taken, losses <- a_losses,
  Chunks <- {Chunk(1, 1, 0), Chunk(1, 1, 1), Chunk(1, 2, 0), Chunk(2, 1, 0)},
  Requests <- {"r1", "r2"}, MaxAttempts <- 2, MaxLosses <- 1

ASSUME ChunksAreMany == Audio!AudioAssumption

Inbox == INSTANCE FollowUpInbox WITH
  inbox <- i_inbox, build <- i_build, clock <- i_clock,
  Selected <- 2, MaxPerBuild <- 1, MaxAtSessionEnd <- 10, Builds <- {"b1", "b2"},
  MaxPresses <- 2

ASSUME CountsOfBuyers == Inbox!InboxAssumption

Presses == INSTANCE DraftQueue WITH
  session <- d_session, held <- d_held, writing <- d_writing, writes <- d_writes,
  rows <- d_rows, inbox <- d_inbox, press <- d_press, entries <- d_entries,
  page <- d_page, spent <- d_spent,
  Drafts <- {"d1"}, FollowUps <- {}, Requests <- {"q1", "q2"}, MaxRegenerated <- 1,
  MaxPages <- 0, MaxFaults <- 0

Pages == INSTANCE DraftQueue WITH
  session <- v_session, held <- v_held, writing <- v_writing, writes <- v_writes,
  rows <- v_rows, inbox <- v_inbox, press <- v_press, entries <- v_entries,
  page <- v_page, spent <- v_spent,
  Drafts <- {"d1"}, FollowUps <- {"f1"}, Requests <- {"q1"}, MaxRegenerated <- 0,
  MaxPages <- 1, MaxFaults <- 1

ASSUME PressedAndCounted == Presses!DraftsAssumption /\ Pages!DraftsAssumption

Policy == INSTANCE PolicyArming WITH
  row <- g_row, cache <- g_cache, reqs <- g_reqs, agent <- g_agent, saves <- g_saves,
  clock <- g_clock,
  Requests <- {"r1", "r2"}, Agents <- {"agent"}, TTL <- 2, MaxSaves <- 1,
  MaxTicks <- 2

ASSUME EntriesLast == Policy!PolicyAssumption

Sessions == INSTANCE AccountSessions WITH
  password <- c_password, sessions <- c_sessions, reqs <- c_reqs, active <- c_active,
  waiting <- c_waiting, tries <- c_tries, windows <- c_windows, calls <- c_calls,
  cuts <- c_cuts, halfway <- c_halfway,
  Requests <- {"r1", "r2", "r3"}, Slots <- 1, MaxWaiting <- 1, MaxTries <- 1,
  MaxWindows <- 1, MaxCalls <- 3, MaxSessions <- 3, MaxChanges <- 2

ASSUME SlotsAndSessions == Sessions!SessionsAssumption

Row == INSTANCE ShowRow WITH
  row <- o_row, writer <- o_writer, audited <- o_audited, onAir <- o_onAir,
  updates <- o_updates, faults <- o_faults, unsaid <- o_unsaid,
  Writers <- {"w1", "w2"}, Levels <- {"L1", "L3"}, MaxUpdates <- 3, MaxFaults <- 1,
  Overlaps <- FALSE

ASSUME RungsToChoose == Row!RowAssumption

Observed == INSTANCE ObservedLots WITH
  shown <- l_shown, handlers <- l_handlers, count <- l_count, rows <- l_rows,
  sales <- l_sales, faults <- l_faults, latest <- l_latest, closings <- l_closings,
  hurt <- l_hurt,
  Lots <- {"a", "b"}, AskedPrices <- [a |-> {1, 2}, b |-> {1}], MaxObservations <- 3,
  MaxAtOnce <- 2, Overlaps <- FALSE, MaxFaults <- 1

ASSUME LotsAreObserved == Observed!LotsAssumption

Host == INSTANCE HostContext WITH
  now <- h_now, said <- h_said, counted <- h_counted, calls <- h_calls,
  summary <- h_summary, voice <- h_voice, screen <- h_screen, frames <- h_frames,
  read <- h_read, lastRead <- h_lastRead, ticking <- h_ticking, started <- h_started,
  naming <- h_naming, called <- h_called,
  Lots <- {"a"}, Window <- 1, VoiceTTL <- 1, ScreenTTL <- 1, Gap <- 1, MaxSaid <- 2,
  MaxFrames <- 1, MaxTime <- 1

ASSUME SpeechIsTimed == Host!ContextAssumption

Chain == INSTANCE GuardChain WITH
  catalog <- n_catalog, indexed <- n_indexed, pc <- n_pc, facts <- n_facts,
  room <- n_room, text <- n_text, checked <- n_checked, verdicts <- n_verdicts,
  grounding <- n_grounding, repaired <- n_repaired, moves <- n_moves,
  Lots <- {"a"}, Texts <- MCTexts, Rewrites <- MCRewrites, Retrieved <- MCRetrieved,
  Rooms <- MCRooms, Prices <- MCPrices, Flat <- 1, Heard <- 20, Median <- 12,
  Floor <- 4, Cap <- 25, MaxMoves <- 1

(* What the theorems of GuardChain suppose of a room, a text and a lot. *)
ASSUME RoomsAndTexts == Chain!ChainAssumption

Ebay == INSTANCE EbayAdapter WITH
  row <- e_row, offer <- e_offer, target <- e_target, seen <- e_seen, held <- e_held,
  act <- e_act, edits <- e_edits, faults <- e_faults, switches <- e_switches,
  moved <- e_moved,
  Actions <- {"m", "e"}, Kind <- [m |-> "markdown_price", e |-> "end_listing"],
  NewPrice <- 8, NewQty <- 1, MaxEdits <- 1, MaxFaults <- 1, MaxSwitches <- 1

ASSUME KindsOfWrite == Ebay!AdapterAssumption

Lineup == INSTANCE ShowCatalog WITH
  file <- k_file, cache <- k_cache, inventory <- k_inventory, lots <- k_lots,
  answers <- k_answers, show <- k_show, req <- k_req, given <- k_given,
  tasks <- k_tasks, faults <- k_faults, writers <- k_writers,
  Catalogs <- {"a", "b"}, Skus <- {"k", "l"}, Sellers <- {"r1"}, Shows <- {"r2"},
  Items <- [a |-> [k |-> 1, l |-> 0], b |-> [k |-> 2, l |-> 0]],
  Inventory <- <<"k", "l">>, Mine <- "a", Page <- 1, Limit <- 2, MaxTerms <- 3,
  MaxAnswers <- 1, MaxTasks <- 2, MaxFaults <- 1

ASSUME ListingsHaveTerms == Lineup!LineupAssumption

Follow == INSTANCE Following WITH
  now <- f_now, onAir <- f_onAir, grid <- f_grid, gridAt <- f_gridAt,
  lastEmptyReason <- f_lastEmptyReason, reading <- f_reading, rows <- f_rows,
  writes <- f_writes, checks <- f_checks, refusals <- f_refusals, seen <- f_seen,
  Handles <- {"h"}, TTL <- 1, MaxTime <- 2, MaxChecks <- 2, MaxRefusals <- 1

ASSUME LooksAreTimed == Follow!FollowingAssumption

Discover == INSTANCE Discovery WITH
  now <- q_now, cache <- q_cache, inFlight <- q_inFlight, reads <- q_reads,
  asks <- q_asks,
  Surfaces <- {"whatnot"}, Browsed <- {"whatnot"}, Askers <- {"x", "y"},
  Asks <- {"r1", "r2", "r3"}, OkTTL <- 2, FailTTL <- 1, Timeout <- 1, MaxTime <- 3,
  MaxReads <- 3

ASSUME SurfacesAnswer == Discover!DiscoveryAssumption

Chips == INSTANCE Interests WITH
  rows <- z_rows, catalogs <- z_catalogs, readers <- z_readers, tabs <- z_tabs,
  faults <- z_faults, swaps <- z_swaps, decided <- z_decided,
  Terms <- {"a", "b"}, Readers <- {"r1"}, Tabs <- {"p1", "p2"}, MaxFaults <- 1,
  MaxSwaps <- 1

ASSUME TermsHaveBounds == Chips!InterestsAssumption

Corpus == INSTANCE KbSync WITH
  lineup <- y_lineup, agent <- y_agent, kb <- y_kb, watching <- y_watching,
  purged <- y_purged, lastSignature <- y_lastSignature, sync <- y_sync, made <- y_made,
  faults <- y_faults, uploaded <- y_uploaded, emptied <- y_emptied,
  Shows <- {"s1", "s2"}, Gone <- {"old"}, Agents <- {"agent"},
  First <- [s1 |-> "agent", s2 |-> "agent"], Requests <- {"r1", "r2"}, MaxLineup <- 1,
  MaxFaults <- 1

ASSUME ShowsHaveAgents == Corpus!SyncAssumption

Gateway == INSTANCE GatewayTurn WITH
  now <- j_now, kind <- j_kind, door <- j_door, pc <- j_pc, began <- j_began,
  timer <- j_timer, script <- j_script, wire <- j_wire, buf <- j_buf, full <- j_full,
  shown <- j_shown, final <- j_final, answer <- j_answer, counted <- j_counted,
  Scripts <- MCScripts, TurnLimit <- 1, Deadline <- 2, MaxTime <- 4

ASSUME TurnsAreTimed == Gateway!TurnAssumption

Proposer == INSTANCE ActionProposer WITH
  now <- m_now, signals <- m_signals, lots <- m_lots, rung <- m_rung, seen <- m_seen,
  eval <- m_eval, rows <- m_rows, heard <- m_heard, moves <- m_moves,
  faults <- m_faults, restarts <- m_restarts,
  Lots <- {"a", "b"}, Buyers <- {"x", "y"}, Questions <- MCQuestions, Queue <- <<"b">>,
  Opening <- [a |-> 8, b |-> 4], Floor <- [a |-> 4, b |-> 4],
  Median <- [a |-> 0, b |-> 0], Cap <- 25, Step <- 1, Window <- 1, Discounts <- 2,
  Swaps <- 2, Evaluations <- {"e1"}, MaxHeard <- 3, MaxTime <- 1, MaxMoves <- 1,
  MaxRows <- 2, MaxFaults <- 1, MaxRestarts <- 1

ASSUME PricesAndSteps == Proposer!ProposerAssumption

Figures == INSTANCE ShowFigures WITH
  ended <- x_ended, asked <- x_asked, mem <- x_mem, flight <- x_flight, row <- x_row,
  acts <- x_acts, build <- x_build, reports <- x_reports, newest <- x_newest,
  events <- x_events, builds <- x_builds, faults <- x_faults,
  Shows <- {"s1", "s2", "s3"}, Sellers <- {"x", "y"},
  Owner <- [s1 |-> "x", s2 |-> "x", s3 |-> "nobody"],
  Proposals <- {"p1", "p2", "p3", "p4"},
  Of <- [p1 |-> "s1", p2 |-> "s1", p3 |-> "s2", p4 |-> "s3"], Earlier <- MCEarlier,
  Required <- [L1 |-> 1, L2 |-> 2, L3 |-> 2, L4 |-> 1], Recent <- 2, EnoughAsked <- 1,
  EditBar <- 500, BlockBar <- 20, RollbackBar <- 100, MaxEvents <- 2, MaxBuilds <- 1,
  MaxFaults <- 1

ASSUME DraftsAreOfShows == Figures!FiguresAssumption

Channel == INSTANCE TwitchActions WITH
  act <- t_act, applied <- t_applied, ledger <- t_ledger, tries <- t_tries,
  shown <- t_shown, poll <- t_poll, live <- t_live, lost <- t_lost, undone <- t_undone,
  told <- t_told, spent <- t_spent,
  Actions <- {"p", "r", "c"},
  Kind <- [p |-> "run_poll", r |-> "post_reply", c |-> "create_clip"],
  MaxApprovals <- 3, MaxFaults <- 1, MaxHost <- 1

ASSUME ApprovalsAreCounted == Channel!ChannelAssumption

Reddit == INSTANCE RedditWatch WITH
  posted <- r_posted, removed <- r_removed, seen <- r_seen, primed <- r_primed,
  stopped <- r_stopped, emitted <- r_emitted, base <- r_base, reader <- r_reader,
  token <- r_token, minted <- r_minted, queue <- r_queue, rate <- r_rate,
  left <- r_left, window <- r_window, over <- r_over, blind <- r_blind,
  Page <- 2, SeenCap <- 3, Budget <- 2, MaxPosts <- 4, MaxRemoved <- 1,
  MaxWindows <- 2, MaxBlind <- 1

ASSUME RedditGrantsEnough == Reddit!RedditAssumption

AllInit ==
  /\ active \in {"Index", "Watch", "Browser", "Account", "Audio", "Inbox", "Presses", "Pages", "Policy", "Sessions", "Row", "Observed", "Host", "Chain", "Ebay", "Lineup", "Follow", "Discover", "Chips", "Corpus", "Gateway", "Proposer", "Figures", "Channel", "Reddit"}
  /\ Init
  /\ Watch!Init
  /\ Browser!Init
  /\ Account!Init
  /\ Audio!Init
  /\ Inbox!Init
  /\ Presses!Init
  /\ Pages!Init
  /\ Policy!Init
  /\ Sessions!Init
  /\ Row!Init
  /\ Observed!Init
  /\ Host!Init
  /\ Chain!Init
  /\ Ebay!Init
  /\ Lineup!Init
  /\ Follow!Init
  /\ Discover!Init
  /\ Chips!Init
  /\ Corpus!Init
  /\ Gateway!Init
  /\ Proposer!Init
  /\ Figures!Init
  /\ Channel!Init
  /\ Reddit!Init

(* One component steps, the others stay in their initial state: what is     *)
(* checked of each is checked of it alone, and the state spaces add up.     *)
IndexSteps == active = "Index" /\ Next /\ UNCHANGED <<active, w_vars, b_vars, p_vars, a_vars, i_vars, d_vars, v_vars, g_vars, c_vars, o_vars, l_vars, h_vars, n_vars, e_vars, k_vars, f_vars, q_vars, z_vars, y_vars, j_vars, m_vars, x_vars, t_vars, r_vars>>
WatchSteps == active = "Watch" /\ Watch!Next /\ UNCHANGED <<active, vars, b_vars, p_vars, a_vars, i_vars, d_vars, v_vars, g_vars, c_vars, o_vars, l_vars, h_vars, n_vars, e_vars, k_vars, f_vars, q_vars, z_vars, y_vars, j_vars, m_vars, x_vars, t_vars, r_vars>>
BrowserSteps == active = "Browser" /\ Browser!Next /\ UNCHANGED <<active, vars, w_vars, p_vars, a_vars, i_vars, d_vars, v_vars, g_vars, c_vars, o_vars, l_vars, h_vars, n_vars, e_vars, k_vars, f_vars, q_vars, z_vars, y_vars, j_vars, m_vars, x_vars, t_vars, r_vars>>
AccountSteps == active = "Account" /\ Account!Next /\ UNCHANGED <<active, vars, w_vars, b_vars, a_vars, i_vars, d_vars, v_vars, g_vars, c_vars, o_vars, l_vars, h_vars, n_vars, e_vars, k_vars, f_vars, q_vars, z_vars, y_vars, j_vars, m_vars, x_vars, t_vars, r_vars>>
AudioSteps == active = "Audio" /\ Audio!Next /\ UNCHANGED <<active, vars, w_vars, b_vars, p_vars, i_vars, d_vars, v_vars, g_vars, c_vars, o_vars, l_vars, h_vars, n_vars, e_vars, k_vars, f_vars, q_vars, z_vars, y_vars, j_vars, m_vars, x_vars, t_vars, r_vars>>
InboxSteps == active = "Inbox" /\ Inbox!Next /\ UNCHANGED <<active, vars, w_vars, b_vars, p_vars, a_vars, d_vars, v_vars, g_vars, c_vars, o_vars, l_vars, h_vars, n_vars, e_vars, k_vars, f_vars, q_vars, z_vars, y_vars, j_vars, m_vars, x_vars, t_vars, r_vars>>
PressesSteps == active = "Presses" /\ Presses!Next /\ UNCHANGED <<active, vars, w_vars, b_vars, p_vars, a_vars, i_vars, v_vars, g_vars, c_vars, o_vars, l_vars, h_vars, n_vars, e_vars, k_vars, f_vars, q_vars, z_vars, y_vars, j_vars, m_vars, x_vars, t_vars, r_vars>>
PagesSteps == active = "Pages" /\ Pages!Next /\ UNCHANGED <<active, vars, w_vars, b_vars, p_vars, a_vars, i_vars, d_vars, g_vars, c_vars, o_vars, l_vars, h_vars, n_vars, e_vars, k_vars, f_vars, q_vars, z_vars, y_vars, j_vars, m_vars, x_vars, t_vars, r_vars>>
PolicySteps == active = "Policy" /\ Policy!Next /\ UNCHANGED <<active, vars, w_vars, b_vars, p_vars, a_vars, i_vars, d_vars, v_vars, c_vars, o_vars, l_vars, h_vars, n_vars, e_vars, k_vars, f_vars, q_vars, z_vars, y_vars, j_vars, m_vars, x_vars, t_vars, r_vars>>
SessionsSteps == active = "Sessions" /\ Sessions!Next /\ UNCHANGED <<active, vars, w_vars, b_vars, p_vars, a_vars, i_vars, d_vars, v_vars, g_vars, o_vars, l_vars, h_vars, n_vars, e_vars, k_vars, f_vars, q_vars, z_vars, y_vars, j_vars, m_vars, x_vars, t_vars, r_vars>>
RowSteps == active = "Row" /\ Row!Next /\ UNCHANGED <<active, vars, w_vars, b_vars, p_vars, a_vars, i_vars, d_vars, v_vars, g_vars, c_vars, l_vars, h_vars, n_vars, e_vars, k_vars, f_vars, q_vars, z_vars, y_vars, j_vars, m_vars, x_vars, t_vars, r_vars>>
ObservedSteps == active = "Observed" /\ Observed!Next /\ UNCHANGED <<active, vars, w_vars, b_vars, p_vars, a_vars, i_vars, d_vars, v_vars, g_vars, c_vars, o_vars, h_vars, n_vars, e_vars, k_vars, f_vars, q_vars, z_vars, y_vars, j_vars, m_vars, x_vars, t_vars, r_vars>>
HostSteps == active = "Host" /\ Host!Next /\ UNCHANGED <<active, vars, w_vars, b_vars, p_vars, a_vars, i_vars, d_vars, v_vars, g_vars, c_vars, o_vars, l_vars, n_vars, e_vars, k_vars, f_vars, q_vars, z_vars, y_vars, j_vars, m_vars, x_vars, t_vars, r_vars>>
ChainSteps == active = "Chain" /\ Chain!Next /\ UNCHANGED <<active, vars, w_vars, b_vars, p_vars, a_vars, i_vars, d_vars, v_vars, g_vars, c_vars, o_vars, l_vars, h_vars, e_vars, k_vars, f_vars, q_vars, z_vars, y_vars, j_vars, m_vars, x_vars, t_vars, r_vars>>
EbaySteps == active = "Ebay" /\ Ebay!Next /\ UNCHANGED <<active, vars, w_vars, b_vars, p_vars, a_vars, i_vars, d_vars, v_vars, g_vars, c_vars, o_vars, l_vars, h_vars, n_vars, k_vars, f_vars, q_vars, z_vars, y_vars, j_vars, m_vars, x_vars, t_vars, r_vars>>
LineupSteps == active = "Lineup" /\ Lineup!Next /\ UNCHANGED <<active, vars, w_vars, b_vars, p_vars, a_vars, i_vars, d_vars, v_vars, g_vars, c_vars, o_vars, l_vars, h_vars, n_vars, e_vars, f_vars, q_vars, z_vars, y_vars, j_vars, m_vars, x_vars, t_vars, r_vars>>
FollowSteps == active = "Follow" /\ Follow!Next /\ UNCHANGED <<active, vars, w_vars, b_vars, p_vars, a_vars, i_vars, d_vars, v_vars, g_vars, c_vars, o_vars, l_vars, h_vars, n_vars, e_vars, k_vars, q_vars, z_vars, y_vars, j_vars, m_vars, x_vars, t_vars, r_vars>>
DiscoverSteps == active = "Discover" /\ Discover!Next /\ UNCHANGED <<active, vars, w_vars, b_vars, p_vars, a_vars, i_vars, d_vars, v_vars, g_vars, c_vars, o_vars, l_vars, h_vars, n_vars, e_vars, k_vars, f_vars, z_vars, y_vars, j_vars, m_vars, x_vars, t_vars, r_vars>>
ChipsSteps == active = "Chips" /\ Chips!Next /\ UNCHANGED <<active, vars, w_vars, b_vars, p_vars, a_vars, i_vars, d_vars, v_vars, g_vars, c_vars, o_vars, l_vars, h_vars, n_vars, e_vars, k_vars, f_vars, q_vars, y_vars, j_vars, m_vars, x_vars, t_vars, r_vars>>
CorpusSteps == active = "Corpus" /\ Corpus!Next /\ UNCHANGED <<active, vars, w_vars, b_vars, p_vars, a_vars, i_vars, d_vars, v_vars, g_vars, c_vars, o_vars, l_vars, h_vars, n_vars, e_vars, k_vars, f_vars, q_vars, z_vars, j_vars, m_vars, x_vars, t_vars, r_vars>>
GatewaySteps == active = "Gateway" /\ Gateway!Next /\ UNCHANGED <<active, vars, w_vars, b_vars, p_vars, a_vars, i_vars, d_vars, v_vars, g_vars, c_vars, o_vars, l_vars, h_vars, n_vars, e_vars, k_vars, f_vars, q_vars, z_vars, y_vars, m_vars, x_vars, t_vars, r_vars>>
ProposerSteps == active = "Proposer" /\ Proposer!Next /\ UNCHANGED <<active, vars, w_vars, b_vars, p_vars, a_vars, i_vars, d_vars, v_vars, g_vars, c_vars, o_vars, l_vars, h_vars, n_vars, e_vars, k_vars, f_vars, q_vars, z_vars, y_vars, j_vars, x_vars, t_vars, r_vars>>
FiguresSteps == active = "Figures" /\ Figures!Next /\ UNCHANGED <<active, vars, w_vars, b_vars, p_vars, a_vars, i_vars, d_vars, v_vars, g_vars, c_vars, o_vars, l_vars, h_vars, n_vars, e_vars, k_vars, f_vars, q_vars, z_vars, y_vars, j_vars, m_vars, t_vars, r_vars>>
ChannelSteps == active = "Channel" /\ Channel!Next /\ UNCHANGED <<active, vars, w_vars, b_vars, p_vars, a_vars, i_vars, d_vars, v_vars, g_vars, c_vars, o_vars, l_vars, h_vars, n_vars, e_vars, k_vars, f_vars, q_vars, z_vars, y_vars, j_vars, m_vars, x_vars, r_vars>>
RedditSteps == active = "Reddit" /\ Reddit!Next /\ UNCHANGED <<active, vars, w_vars, b_vars, p_vars, a_vars, i_vars, d_vars, v_vars, g_vars, c_vars, o_vars, l_vars, h_vars, n_vars, e_vars, k_vars, f_vars, q_vars, z_vars, y_vars, j_vars, m_vars, x_vars, t_vars>>

AllNext == IndexSteps \/ WatchSteps \/ BrowserSteps \/ AccountSteps \/ AudioSteps
     \/ InboxSteps \/ PressesSteps \/ PagesSteps \/ PolicySteps
     \/ SessionsSteps \/ RowSteps \/ ObservedSteps \/ HostSteps \/ ChainSteps
     \/ EbaySteps \/ LineupSteps \/ FollowSteps \/ DiscoverSteps \/ ChipsSteps
     \/ CorpusSteps \/ GatewaySteps \/ ProposerSteps \/ FiguresSteps
     \/ ChannelSteps \/ RedditSteps

AllSpec == AllInit /\ [][AllNext]_allVars

-----------------------------------------------------------------------------
(* The components that do not run are as they began, so a state is judged by *)
(* the one that does.                                                       *)
AllTypeOK ==
  /\ TypeOK
  /\ active = "Watch" => Watch!TypeOK
  /\ active = "Browser" => Browser!TypeOK
  /\ active = "Account" => Account!TypeOK
  /\ active = "Audio" => Audio!TypeOK
  /\ active = "Inbox" => Inbox!TypeOK
  /\ active = "Presses" => Presses!TypeOK
  /\ active = "Pages" => Pages!TypeOK
  /\ active = "Policy" => Policy!TypeOK
  /\ active = "Sessions" => Sessions!TypeOK
  /\ active = "Row" => Row!TypeOK
  /\ active = "Observed" => Observed!TypeOK
  /\ active = "Host" => Host!TypeOK
  /\ active = "Chain" => Chain!TypeOK
  /\ active = "Ebay" => Ebay!TypeOK
  /\ active = "Lineup" => Lineup!TypeOK
  /\ active = "Follow" => Follow!TypeOK
  /\ active = "Discover" => Discover!TypeOK
  /\ active = "Chips" => Chips!TypeOK
  /\ active = "Corpus" => Corpus!TypeOK
  /\ active = "Gateway" => Gateway!TypeOK
  /\ active = "Proposer" => Proposer!TypeOK
  /\ active = "Figures" => Figures!TypeOK
  /\ active = "Channel" => Channel!TypeOK
  /\ active = "Reddit" => Reddit!TypeOK

(* RoomWatch, RedditWatch, GatewayTurn, DraftQueue: no message of a room is
   handed over twice, no piece of a reply twice or never, and no draft is recorded
   as sent twice. *)
HandedOverOnce ==
  /\ active = "Watch" => Watch!HandedOverOnce
  /\ active = "Reddit" => Reddit!HandedOverOnce
  /\ active = "Gateway" => Gateway!FramesSurvive
  /\ active = "Presses" => Presses!RetriesAreQuiet

(* SharedBrowser, AccountSessions, Discovery, GatewayTurn, ActionProposer,
   ShowFigures, DraftQueue, TwitchActions: what is shared by many is counted - the last watcher out closes the browser, the slots
   for hashes are all used, one read of a platform serves all who ask, a turn of
   the gateway is metered, an action rests on buyers enough,
   and the figures of the sellers add up to those of the box and are the ones of their shows,
   and home counts the drafts of the list it links to, and
   somebody answers for what is seen on a channel. *)
SharedIsCounted ==
  /\ active = "Browser" => Browser!LastOutCloses
  /\ active = "Sessions" => Sessions!HashesAreCounted
  /\ active = "Discover" => Discover!ReadsAreShared
  /\ active = "Presses" => Presses!HomeAgrees
  /\ active = "Pages" => Pages!HomeAgrees
  /\ active = "Pages" => Pages!HomeCountsOnce
  /\ active = "Channel" => Channel!EffectsAreAccounted
  /\ active = "Gateway" => Gateway!TurnsAreCounted
  /\ active = "Proposer" => Proposer!RestsOnBuyers
  /\ active = "Figures" => Figures!NothingCountedTwice
  /\ active = "Figures" => Figures!HeadlineAgrees
  /\ active = "Figures" => Figures!QuietReportAgrees
  /\ active = "Figures" => Figures!RateIsPooled

(* PlatformAccount, AccountSessions, Interests, ActionProposer,
   TwitchActions: what was taken away does not come back - a
   connection, the sessions a password change or a sign-out ended, or a term the
   operator took out of what they are interested in, an action that was dealt with,
   or what an undo took off a channel. *)
TakenAwayStays ==
  /\ active = "Account" => Account!TakenAwayStays
  /\ active = "Sessions" => Sessions!OldKeysAreDead
  /\ active = "Chips" => Chips!EditsStand
  /\ active = "Proposer" => Proposer!OneRowAnIntent
  /\ active = "Channel" => Channel!UndoneIsGone

(* RedditWatch, GatewayTurn: no more is asked of Reddit than it grants, and no
   more time is given to a turn than its limit. *)
WithinBudget ==
  /\ active = "Reddit" => Reddit!WithinBudget
  /\ active = "Gateway" => Gateway!TurnsKeepTheirLimit

(* FollowUpInbox, DraftQueue, HostContext, EbayAdapter, ShowCatalog: what was
   settled is not unsettled - the decision of the operator about a draft, what the
   host is on, the offer an undo restored, the answers a catalog file already held,
   the version a lot is compared by. *)
NothingGoesBack ==
  /\ Inbox!DecisionsStand
  /\ Presses!DecisionsStand
  /\ Pages!DecisionsStand
  /\ Host!SummariesInOrder
  /\ Host!StoppedAsksNothing
  /\ Ebay!LandsAsReserved
  /\ Ebay!UndoneIsRestored
  /\ Lineup!FilesKeep
  /\ Lineup!TermsMoveWithVersion

(* AudioChunks, FollowUpInbox, ObservedLots, ShowCatalog, KbSync, ShowFigures,
   DraftQueue: an acknowledged chunk is kept, if no other took its number, a build that is through has reached every
   buyer, a lot that was sold is booked, what was imported is listed, and a show
   that asked for its corpus has one, and an edit that was made is on record, and
   a draft that is stored is on the list. *)
NothingIsDropped ==
  /\ active = "Audio" => Audio!AckedUnlessTaken
  /\ active = "Inbox" => Inbox!EveryBuyerIsReached
  /\ active = "Observed" => Observed!SalesAreBooked
  /\ active = "Lineup" => Lineup!ImportIsWhole
  /\ active = "Lineup" => Lineup!ListedAsApplied
  /\ active = "Corpus" => Corpus!NeverMissing
  /\ active = "Corpus" => Corpus!SkippedIsUploaded
  /\ active = "Figures" => Figures!EditsStick
  /\ active = "Pages" => Pages!ListIsWhole

(* PolicyArming, ShowRow, ObservedLots, ShowCatalog, Following,
   Discovery, GatewayTurn: what is acted on
   is what was decided or seen last - the policy of the last minute, the rung on
   record, the lot as the page last showed it, the file of the catalog, the grids
   that were read, an answer to the question that was asked, and that is complete. *)
ActedOnIsLatest ==
  /\ active = "Policy" => Policy!EnforcedIsRecent
  /\ active = "Row" => Row!RungIsOnRecord
  /\ active = "Row" => Row!EndedIsEnded
  /\ active = "Observed" => Observed!NewestIsKept
  /\ active = "Lineup" => Lineup!ServedIsWritten
  /\ active = "Follow" => Follow!ChecksWereMade
  /\ active = "Discover" => Discover!AnswersItsQuestion
  /\ active = "Gateway" => Gateway!AnswerIsDone

(* GuardChain, ActionProposer, ShowFigures, TwitchActions: what passed the guards agrees with the catalog they read, and what
   was sent unseen is grounded; what is proposed passes the preflight it was read for, and a rung of autonomy is
   earned by shows that showed something, and what reads committed on a channel was
   seen there. *)
WhatPassedHolds ==
  /\ active = "Chain" => Chain!PassedHolds
  /\ active = "Chain" => Chain!AutoSentIsGrounded
  /\ active = "Proposer" => Proposer!RulesAgreeWithPreflight
  /\ active = "Figures" => Figures!EarnedOnEvidence
  /\ active = "Channel" => Channel!CommittedIsSeen
=============================================================================
