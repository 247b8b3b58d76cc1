------------------------------ MODULE Gateway ------------------------------
(***************************************************************************)
(* The connections of net.rs from the upgrade request to their end: the    *)
(* slots they hold, the handshake, the loops of handle_bot and             *)
(* handle_spectator with their budgets, heartbeats and credentials, and    *)
(* what a bot's loop does with the frames and windows of the room.         *)
(*                                                                         *)
(* Each connection is a task; a loop is a biased select, so that a branch  *)
(* is taken only when none before it is ready.  Writing to a client either *)
(* succeeds or fails within its two seconds, and is one step; the close    *)
(* frame a spectator gets at shutdown has no such limit.  What the         *)
(* participants and the room answer to a registration is a choice here     *)
(* (Sessions).  The room appears as the entries it keeps, which outlive    *)
(* their connections, the windows it opens for them and closes (Commands)  *)
(* and the frames it sends.  Messages are counted, not weighed: the byte   *)
(* budgets are left out.                                                   *)
(***************************************************************************)
EXTENDS Integers, Sequences, FiniteSets

CONSTANTS
  Conns,           \* clients that connect, again and again
  Bots,            \* those that connect to /bot; the others, to /spectate
  Addr,            \* peer address of each
  Permits,         \* permits of `connections`
  PerIp,           \* per_ip_cap; 0 is no cap
  MaxViolations,   \* MAX_VIOLATIONS
  HelloBudget,     \* messages a second before, and
  Budget,          \* after a bot's handshake, and
  SpectatorBudget, \* of a spectator
  SilentBeats,     \* heartbeats a peer may stay silent for
  OutboundBuffer,  \* BOT_OUTBOUND_BUFFER
  SpectatorBuffer, \* SPECTATOR_BROADCAST_BUFFER
  MatchTicks       \* bound of the model: how many ticks each match may have

ASSUME GatewayAssumption ==
  /\ IsFiniteSet(Conns) /\ Bots \subseteq Conns
  /\ Permits \in Nat /\ PerIp \in Nat
  /\ \A n \in {MaxViolations, HelloBudget, Budget, SpectatorBudget, SilentBeats,
               OutboundBuffer, SpectatorBuffer} : n \in Nat \ {0}
  /\ MatchTicks \in Seq(Nat)

Spectators == Conns \ Bots
Addresses == {Addr[c] : c \in Conns}
\* A tick frame, by its match and tick.
Frames == UNION {{m} \X (1..MatchTicks[m]) : m \in DOMAIN MatchTicks}

VARIABLES
  step,       \* where the task of each connection is
  free,       \* permits left
  count,      \* ip_conns
  guarded,    \* connections that hold an IpConnGuard
  permitted,  \* connections that hold a permit
  violations, spent, due, silent,
  valid,      \* whether the token a connection showed is still good
  allowance,  \* command_allowance: at most one frame
  outbox,     \* outbound channel of a bot
  listed,     \* bots with an entry in the room that is not marked disconnected
  queued,     \* bots whose disconnect the room has yet to handle
  lag,        \* broadcast frames a spectator has not received
  stopping,   \* the shutdown message is sent
  signalled,  \* connections that have yet to receive it
  room,       \* phase, match and tick of the room
  sunk,       \* bots whose ship is lost
  window,     \* the open window of a bot's CommandSlot, if any
  late,       \* windows whose cutoff has passed
  answered,   \* windows that hold a command
  got,        \* frames a prompt client has received and not answered (history)
  why,        \* why the loop of a connection that is leaving ended
  stalled,    \* clients that went silent for good
  overdue,    \* a heartbeat came due since the token went bad (history)
  prompt      \* clients that only said hello and answered what they got, once and while its
              \* window was open (history)

slots == <<free, count, guarded, permitted>>
pace == <<violations, spent, due, silent>>
roomVars == <<room, sunk, window, late, answered>>
entries == <<listed, queued>>
peers == <<valid, stalled, overdue, prompt>>
vars == <<step, slots, pace, allowance, outbox, entries, lag, stopping, signalled, roomVars,
          got, why, peers>>

Steps == {"idle", "first", "upgrading", "hello", "joining", "joined", "live", "token", "watching",
          "leaving", "closing"}
Open == {"live", "watching"}
\* While a bot's task has the receiver of its channel.
Receiving == {"joined", "live", "leaving", "closing"}
Left == {"leaving", "closing"}

Init ==
  /\ step = [c \in Conns |-> "idle"]
  /\ free = Permits /\ count = [a \in Addresses |-> 0] /\ guarded = {} /\ permitted = {}
  /\ violations = [c \in Conns |-> 0] /\ spent = [c \in Conns |-> 0]
  /\ due = {} /\ silent = [c \in Conns |-> 0]
  /\ valid = Conns
  /\ allowance = [b \in Bots |-> {}] /\ outbox = [b \in Bots |-> <<>>]
  /\ listed = {} /\ queued = {}
  /\ lag = [c \in Spectators |-> 0]
  /\ stopping = FALSE /\ signalled = {}
  /\ room = [phase |-> "lobby", match |-> 0, tick |-> 0] /\ sunk = {}
  /\ window = [b \in Bots |-> {}] /\ late = {} /\ answered = {}
  /\ got = [b \in Bots |-> {}]
  /\ why = [c \in Conns |-> "none"]
  /\ stalled = {} /\ overdue = {} /\ prompt = {}

-----------------------------------------------------------------------------
(* Slots: an IpConnGuard and a permit, given back together when the handler *)
(* or the upgraded task ends.                                              *)

\* IpConnGuard::try_acquire, when it is not refused.
TakeGuard(c) ==
  /\ PerIp = 0 \/ count[Addr[c]] < PerIp
  /\ count' = IF PerIp = 0 THEN count ELSE [count EXCEPT ![Addr[c]] = @ + 1]
  /\ guarded' = guarded \cup {c}
  /\ UNCHANGED <<free, permitted>>

TakePermit(c) ==
  /\ free > 0 /\ free' = free - 1 /\ permitted' = permitted \cup {c}
  /\ UNCHANGED <<count, guarded>>

\* Drop for IpConnGuard.
CountAfter_Kept(c) == IF c \in guarded /\ c \in permitted /\ PerIp > 0
  THEN [count EXCEPT ![Addr[c]] = IF @ > 0 THEN @ - 1 ELSE 0] ELSE count
CountAfter(c) == IF c \in guarded /\ PerIp > 0
  THEN [count EXCEPT ![Addr[c]] = IF @ > 0 THEN @ - 1 ELSE 0] ELSE count

\* The task of a connection ends, and with it all it held.  What the room keeps of a bot is
\* not its to drop.
Ends(c) ==
  /\ step' = [step EXCEPT ![c] = "idle"]
  /\ count' = CountAfter(c) /\ guarded' = guarded \ {c}
  /\ free' = IF c \in permitted THEN free + 1 ELSE free
  /\ permitted' = permitted \ {c}
  /\ violations' = [violations EXCEPT ![c] = 0] /\ spent' = [spent EXCEPT ![c] = 0]
  /\ due' = due \ {c} /\ silent' = [silent EXCEPT ![c] = 0]
  /\ signalled' = signalled \ {c}
  /\ lag' = [x \in Spectators |-> IF x = c THEN 0 ELSE lag[x]]
  /\ allowance' = [b \in Bots |-> IF b = c THEN {} ELSE allowance[b]]
  /\ outbox' = [b \in Bots |-> IF b = c THEN <<>> ELSE outbox[b]]
  /\ got' = [b \in Bots |-> IF b = c THEN {} ELSE got[b]]
  /\ valid' = valid \cup {c} /\ stalled' = stalled \ {c} /\ overdue' = overdue \ {c}
  /\ prompt' = prompt \ {c}
  /\ why' = [why EXCEPT ![c] = "none"]
  /\ UNCHANGED <<stopping, entries, roomVars>>

-----------------------------------------------------------------------------
(* The upgrade: bot_ws takes the guard and then the permit, spectate_ws     *)
(* the other way round.                                                    *)

\* A request that protect_http or the first slot refuses changes nothing.
Arrive(c) ==
  /\ step[c] = "idle" /\ ~stopping
  /\ IF c \in Bots THEN TakeGuard(c) ELSE TakePermit(c)
  /\ step' = [step EXCEPT ![c] = "first"]
  /\ UNCHANGED <<pace, allowance, outbox, entries, lag, stopping, signalled, roomVars, got, why,
                 peers>>

\* The second slot; the handler then subscribes to the shutdown message.
Admitted(c) ==
  /\ step[c] = "first"
  /\ IF c \in Bots THEN TakePermit(c) ELSE TakeGuard(c)
  /\ step' = [step EXCEPT ![c] = "upgrading"]
  /\ UNCHANGED <<pace, allowance, outbox, entries, lag, stopping, signalled, roomVars, got, why,
                 peers>>

Refused(c) ==
  /\ step[c] = "first"
  /\ IF c \in Bots THEN free = 0 ELSE PerIp > 0 /\ count[Addr[c]] >= PerIp
  /\ Ends(c)

Upgraded(c) ==
  /\ step[c] = "upgrading"
  /\ step' = [step EXCEPT ![c] = IF c \in Bots THEN "hello" ELSE "token"]
  /\ prompt' = prompt \cup ({c} \cap Bots)
  /\ UNCHANGED <<slots, pace, allowance, outbox, entries, lag, stopping, signalled, roomVars,
                 got, why, valid, stalled, overdue>>

UpgradeFails(c) == step[c] = "upgrading" /\ Ends(c)

-----------------------------------------------------------------------------
(* The handshakes. *)

\* wait_for_hello on a message that is no hello; a bad one is a violation.
HelloWaits(c, kind) ==
  /\ step[c] = "hello" /\ c \notin stalled
  /\ IF \/ spent[c] + 1 > HelloBudget
        \/ kind = "bad" /\ violations[c] + 1 >= MaxViolations
     THEN Ends(c)
     ELSE /\ spent' = [spent EXCEPT ![c] = @ + 1]
          /\ violations' = [violations EXCEPT ![c] = IF kind = "bad" THEN @ + 1 ELSE @]
          /\ prompt' = IF kind = "bad" THEN prompt \ {c} ELSE prompt
          /\ UNCHANGED <<step, slots, due, silent, allowance, outbox, entries, lag, stopping,
                         signalled, roomVars, got, why, valid, stalled, overdue>>

\* A hello whose token and session are granted.
Greeted(c) ==
  /\ step[c] = "hello" /\ c \notin stalled
  /\ spent[c] < HelloBudget
  /\ step' = [step EXCEPT ![c] = "joining"]
  /\ UNCHANGED <<slots, pace, allowance, outbox, entries, lag, stopping, signalled, roomVars,
                 got, why, peers>>

\* No hello in time, a refused one, no answer of the room, the client leaving, or shutdown.
\* A reply that comes as the time-out expires is lost, and its entry stays.
HandshakeFails(c) == step[c] \in {"hello", "joining", "joined", "token"} /\ Ends(c)

\* The room handles BotConnect, when it does not refuse it: in the lobby, under a name nobody
\* listed has.  A disconnect sent before it was handled before it.
Enlist(b) ==
  /\ b \in Bots /\ step[b] = "joining" /\ room.phase = "lobby" /\ b \notin listed \cup queued
  /\ step' = [step EXCEPT ![b] = "joined"] /\ listed' = listed \cup {b}
  /\ UNCHANGED <<slots, pace, allowance, outbox, queued, lag, stopping, signalled, roomVars, got,
                 why, peers>>

\* The loop of an accepted connection: a fresh budget, and a first heartbeat at once.
Opened(c, at) ==
  /\ step' = [step EXCEPT ![c] = at]
  /\ spent' = [spent EXCEPT ![c] = 0] /\ silent' = [silent EXCEPT ![c] = 0]
  /\ due' = due \cup {c}
  /\ overdue' = IF c \in valid THEN overdue ELSE overdue \cup {c}
  /\ UNCHANGED <<slots, violations, allowance, outbox, entries, lag, stopping, signalled,
                 roomVars, got, why, valid, stalled, prompt>>

Registered(b) == step[b] = "joined" /\ Opened(b, "live")
Authenticated(c) == step[c] = "token" /\ c \notin stalled /\ c \in valid /\ Opened(c, "watching")

-----------------------------------------------------------------------------
(* Branches both loops have. *)

\* The loop of a connection is left; a bot's ingress is closed at once, but its entry stays
\* in the room until the disconnect is handled.
Breaks(c, reason) ==
  /\ step' = [step EXCEPT ![c] = "leaving"]
  /\ why' = [why EXCEPT ![c] = reason]
  /\ window' = [b \in Bots |-> IF b = c THEN {} ELSE window[b]]
  /\ late' = late \ {c} /\ answered' = answered \ {c}
  /\ UNCHANGED <<room, sunk>>

GoesOn == UNCHANGED <<step, why, window, late, answered, room, sunk>>

\* The branches of the two selects, which are biased: the first that is ready is taken.
Order_FramesFirst(c) == IF c \in Bots THEN <<"shutdown", "outbound", "heartbeat", "message">>
                                      ELSE <<"broadcast", "heartbeat", "shutdown", "message">>
Order(c) == IF c \in Bots THEN <<"shutdown", "heartbeat", "outbound", "message">>
                          ELSE <<"heartbeat", "shutdown", "broadcast", "message">>

Ready(c, branch) ==
  \/ branch = "shutdown" /\ c \in signalled
  \/ branch = "heartbeat" /\ c \in due
  \/ branch = "outbound" /\ (outbox[c] # <<>> \/ c \notin listed)
  \/ branch = "broadcast" /\ lag[c] > 0
  \/ branch = "message"

Turn(c, branch) ==
  /\ step[c] \in Open
  /\ \E j \in 1..4 : /\ Order(c)[j] = branch /\ Ready(c, branch)
                     /\ \A i \in 1..(j - 1) : ~Ready(c, Order(c)[i])

\* A spectator is written its close frame at once and without a time-out: if it reads no
\* more, its task may wait there.
HearShutdown(c) ==
  /\ Turn(c, "shutdown")
  /\ signalled' = signalled \ {c}
  /\ \/ Breaks(c, "connection closed")
     \/ /\ c \in Spectators \cap stalled
        /\ step' = [step EXCEPT ![c] = "closing"] /\ UNCHANGED <<why, roomVars>>
  /\ UNCHANGED <<slots, pace, allowance, outbox, entries, lag, stopping, got, peers>>

\* last_seen is more than fifteen seconds ago.
Unheard_Idle(c) == silent[c] > SilentBeats /\ (IF c \in Bots THEN outbox[c] = <<>> ELSE lag[c] = 0)
Unheard(c) == silent[c] > SilentBeats

\* The token is checked again, and the peer must have been heard of; then it is pinged.
Heartbeat(c) ==
  /\ Turn(c, "heartbeat")
  /\ due' = due \ {c}
  /\ IF c \notin valid THEN Breaks(c, "credentials revoked")
     ELSE IF Unheard(c) THEN Breaks(c, "heartbeat timeout")
     ELSE GoesOn \/ Breaks(c, "connection closed")
  /\ UNCHANGED <<slots, violations, spent, silent, allowance, outbox, entries, lag, stopping,
                 signalled, got, peers>>

-----------------------------------------------------------------------------
(* handle_bot. *)

Allowed_Kept(b, f) == IF allowance[b] = {} THEN {f} ELSE allowance[b]
Allowed(b, f) == {f}

\* The next frame is written to the client, or the sender is gone.
WriteFrame(b) ==
  /\ b \in Bots /\ Turn(b, "outbound")
  /\ IF outbox[b] = <<>> THEN Breaks(b, "connection closed") /\ UNCHANGED <<outbox, allowance, got>>
     ELSE /\ outbox' = [outbox EXCEPT ![b] = Tail(@)]
          /\ allowance' = [allowance EXCEPT ![b] = Allowed(b, Head(outbox[b]))]
          /\ \/ /\ GoesOn
                /\ got' = IF b \in prompt THEN [got EXCEPT ![b] = @ \cup {Head(outbox[b])}] ELSE got
             \/ Breaks(b, "connection closed") /\ UNCHANGED got
  /\ UNCHANGED <<slots, pace, entries, lag, stopping, signalled, peers>>

\* CommandSlot::submit.
Verdict(b, f) ==
  IF window[b] = {} THEN "not_active"
  ELSE IF \A w \in window[b] : w[1] # f[1] THEN "wrong_match"
  ELSE IF f \notin window[b] THEN "wrong_tick"
  ELSE IF b \in late THEN "late_command"
  ELSE IF b \in answered THEN "duplicate_command"
  ELSE "accepted"

Tolerated == {"none", "accepted", "late_command", "wrong_tick"}

\* A message is read: a command is free if it answers the frame last written, and all else
\* is charged; a violation too many ends the loop as well.  `verdict` is
\* what comes of the message: "accepted" for a command, "none", or an error code.
Read(b, isFree, verdict) ==
  LET paid  == IF isFree THEN spent[b] ELSE spent[b] + 1
      bad   == IF verdict \in Tolerated THEN 0 ELSE 1
      over  == paid > Budget
      wrong == violations[b] + bad >= MaxViolations /\ bad = 1
  IN /\ Turn(b, "message") /\ b \notin stalled
     /\ IF over THEN /\ Breaks(b, "message or byte limit exceeded")
                     /\ UNCHANGED <<spent, violations, silent>>
        ELSE /\ spent' = [spent EXCEPT ![b] = paid]
             /\ silent' = [silent EXCEPT ![b] = 0]
             /\ violations' = [violations EXCEPT ![b] = @ + bad]
             /\ IF wrong THEN Breaks(b, "protocol violation limit exceeded")
                ELSE /\ answered' = IF verdict = "accepted" THEN answered \cup {b} ELSE answered
                     /\ UNCHANGED <<step, why, window, late, room, sunk>>
     /\ UNCHANGED <<slots, due, outbox, entries, lag, stopping, signalled, valid, stalled, overdue>>

\* A command.  A client that only answers what it got, in time, stays prompt.
Command(b, f) ==
  /\ b \in Bots
  /\ Read(b, f \in allowance[b], Verdict(b, f))
  /\ allowance' = [allowance EXCEPT ![b] = @ \ {f}]
  /\ got' = [got EXCEPT ![b] = IF f \in @ THEN @ \ {f} ELSE {}]
  /\ prompt' = IF f \in got[b] /\ Verdict(b, f) = "accepted" THEN prompt ELSE prompt \ {b}

\* ready and select_powerups, which a full queue of the room turns into a violation, and
\* messages that are violations in themselves.
Request(b) ==
  /\ b \in Bots
  /\ \E verdict \in {"none", "server_busy", "invalid_message"} : Read(b, FALSE, verdict)
  /\ prompt' = prompt \ {b} /\ got' = [got EXCEPT ![b] = {}]
  /\ UNCHANGED allowance

\* Pings and pongs are charged too.
Quiet(b) ==
  /\ b \in Bots
  /\ Read(b, FALSE, "none")
  /\ prompt' = IF spent[b] = 0 THEN prompt ELSE prompt \ {b}
  /\ UNCHANGED <<allowance, got>>

\* The client closes the socket.
Closes(c) ==
  /\ Turn(c, "message") /\ c \notin stalled
  /\ Breaks(c, "connection closed")
  /\ UNCHANGED <<slots, pace, allowance, outbox, entries, lag, stopping, signalled, got, peers>>

\* The disconnect event is sent, or given up after two seconds.
SendDisconnect(b) ==
  /\ b \in Bots /\ step[b] = "leaving"
  /\ step' = [step EXCEPT ![b] = "closing"]
  /\ queued' \in {queued, queued \cup {b}}
  /\ UNCHANGED <<slots, pace, allowance, outbox, listed, lag, stopping, signalled, roomVars, got,
                 why, peers>>

\* A bot's close frame is sent or given up; a spectator's loop is followed by nothing.
Leave(c) == step[c] = (IF c \in Bots THEN "closing" ELSE "leaving") /\ Ends(c)

\* A spectator that held up its close frame reads again, or its connection breaks.
CloseFlushed(c) == c \in Spectators /\ step[c] = "closing" /\ Ends(c)

-----------------------------------------------------------------------------
(* handle_spectator. *)

\* recv: what the ring has overwritten is skipped.
Receive(c) ==
  /\ c \in Spectators /\ Turn(c, "broadcast")
  /\ IF lag[c] > SpectatorBuffer
     THEN lag' = [lag EXCEPT ![c] = SpectatorBuffer] /\ GoesOn
     ELSE lag' = [lag EXCEPT ![c] = @ - 1] /\ (GoesOn \/ Breaks(c, "connection closed"))
  /\ UNCHANGED <<slots, pace, allowance, outbox, entries, stopping, signalled, got, peers>>

\* Whatever a spectator sends is counted and dropped.
Ignore(c) ==
  /\ c \in Spectators /\ Turn(c, "message") /\ c \notin stalled
  /\ spent' = [spent EXCEPT ![c] = @ + 1]
  /\ IF spent[c] + 1 > SpectatorBudget
     THEN Breaks(c, "message or byte limit exceeded") /\ UNCHANGED silent
     ELSE GoesOn /\ silent' = [silent EXCEPT ![c] = 0]
  /\ UNCHANGED <<slots, violations, due, allowance, outbox, entries, lag, stopping, signalled,
                 got, peers>>

-----------------------------------------------------------------------------
(* The room, in parallel: it registers bots and drops them, closes the      *)
(* windows, simulates (it is busy, and handles no event before it is done), *)
(* opens the next ones and sends their frames.                             *)

roomElse == <<step, slots, pace, allowance, lag, stopping, signalled, got, why, peers>>

Unlisted_Open(b) == listed' = listed \ {b} /\ UNCHANGED <<window, late, answered>>

\* forfeit_bot and remove_bot_and_ship: the sender is dropped, and no window is open.
Unlisted(b) ==
  /\ listed' = listed \ {b}
  /\ window' = [window EXCEPT ![b] = {}] /\ late' = late \ {b} /\ answered' = answered \ {b}

\* handle_bot_disconnect; what an earlier kick dropped is left alone.
Disconnected(b) ==
  /\ room.phase # "busy"
  /\ b \in queued /\ queued' = queued \ {b} /\ Unlisted(b)
  /\ UNCHANGED <<roomElse, room, sunk, outbox>>

Closed == window' = [b \in Bots |-> {}] /\ late' = {} /\ answered' = {}

\* start_match, which waits for every bot listed to be ready, as only a loop can tell, or the
\* next match of a batch: no window is open until the first tick.
StartMatch(from) ==
  /\ room.phase = from /\ room.match < Len(MatchTicks) /\ listed # {}
  /\ \A b \in listed : step[b] # "joined"
  /\ room' = [phase |-> "waiting", match |-> room.match + 1, tick |-> 0]
  /\ sunk' = {} /\ Closed
  /\ UNCHANGED <<roomElse, outbox, entries>>

TickBegins ==
  /\ room.phase = "waiting" /\ room' = [room EXCEPT !.phase = "busy"]
  /\ Closed
  /\ UNCHANGED <<roomElse, sunk, outbox, entries>>

\* The rest of step_tick when the match goes on: windows and frames for the bots afloat, also
\* for those that are leaving.  A frame a full channel does not take is lost, as is one whose
\* receiver is gone.
TickEnds(lost) ==
  LET f == <<room.match, room.tick + 1>>
      to == listed \ (sunk \cup lost)
  IN /\ room.phase = "busy" /\ room.tick < MatchTicks[room.match] /\ lost \subseteq listed
     /\ room' = [room EXCEPT !.phase = "waiting", !.tick = @ + 1]
     /\ sunk' = sunk \cup lost
     /\ window' = [b \in Bots |-> IF b \in to THEN {f} ELSE window[b]]
     /\ late' = late \ to /\ answered' = answered \ to
     /\ outbox' = [b \in Bots |-> IF b \in to /\ step[b] \in Receiving
                                     /\ Len(outbox[b]) < OutboundBuffer
                                  THEN Append(outbox[b], f) ELSE outbox[b]]
     /\ UNCHANGED <<roomElse, entries>>

\* The deciding tick, and an abort; a chained match follows by StartMatch("busy").
MatchEnds ==
  /\ room.phase \in {"waiting", "busy"}
  /\ room' = [room EXCEPT !.phase = "lobby"] /\ Closed
  /\ UNCHANGED <<roomElse, sunk, outbox, entries>>

CutoffPasses(b) ==
  /\ window[b] # {} /\ b \notin late /\ late' = late \cup {b}
  /\ UNCHANGED <<roomElse, room, sunk, window, answered, outbox, entries>>

\* An operator's kick forfeits or removes the bot.
Kick(b) ==
  /\ room.phase # "busy"
  /\ b \in listed /\ Unlisted(b)
  /\ UNCHANGED <<roomElse, room, sunk, outbox, queued>>

Publish ==
  /\ lag' = [c \in Spectators |-> IF step[c] = "watching" /\ lag[c] <= SpectatorBuffer
                                  THEN lag[c] + 1 ELSE lag[c]]
  /\ UNCHANGED <<step, slots, pace, allowance, outbox, entries, stopping, signalled, roomVars,
                 got, why, peers>>

-----------------------------------------------------------------------------
(* Time and the peers. *)

\* The budget's second is over.
SecondPasses(c) ==
  /\ spent[c] > 0 /\ spent' = [spent EXCEPT ![c] = 0]
  /\ UNCHANGED <<step, slots, violations, due, silent, allowance, outbox, entries, lag, stopping,
                 signalled, roomVars, got, why, peers>>

\* The heartbeat's five seconds are over.
Beat(c) ==
  /\ step[c] \in Open /\ c \notin due
  /\ due' = due \cup {c}
  /\ silent' = [silent EXCEPT ![c] = IF @ > SilentBeats THEN @ ELSE @ + 1]
  /\ overdue' = IF c \in valid THEN overdue ELSE overdue \cup {c}
  /\ UNCHANGED <<step, slots, violations, spent, allowance, outbox, entries, lag, stopping,
                 signalled, roomVars, got, why, valid, stalled, prompt>>

\* The token expires, or is revoked or replaced in the roster file.
Revoke(c) ==
  /\ step[c] \in Open \cup {"joining", "joined"} /\ c \in valid /\ valid' = valid \ {c}
  /\ UNCHANGED <<step, slots, pace, allowance, outbox, entries, lag, stopping, signalled, roomVars,
                 got, why, stalled, overdue, prompt>>

Stall(c) ==
  /\ step[c] # "idle" /\ c \notin stalled /\ stalled' = stalled \cup {c}
  /\ UNCHANGED <<step, slots, pace, allowance, outbox, entries, lag, stopping, signalled, roomVars,
                 got, why, valid, overdue, prompt>>

\* main sends the message to those who subscribed before.
Shutdown ==
  /\ ~stopping /\ stopping' = TRUE
  /\ signalled' = {c \in Conns : step[c] \notin {"idle", "first"}}
  /\ UNCHANGED <<step, slots, pace, allowance, outbox, entries, lag, roomVars, got, why, peers>>

-----------------------------------------------------------------------------
Task(c) ==
  \/ Admitted(c) \/ Refused(c) \/ Upgraded(c) \/ UpgradeFails(c)
  \/ HandshakeFails(c) \/ Enlist(c) \/ Registered(c)
  \/ HearShutdown(c) \/ Heartbeat(c) \/ WriteFrame(c) \/ Receive(c)
  \/ SendDisconnect(c) \/ Leave(c)

Client(c) ==
  \/ Arrive(c) \/ Greeted(c) \/ Authenticated(c) \/ Closes(c) \/ Ignore(c) \/ CloseFlushed(c)
  \/ \E kind \in {"quiet", "bad"} : HelloWaits(c, kind)
  \/ Request(c) \/ Quiet(c) \/ \E f \in Frames : Command(c, f)

RoomSteps ==
  \/ \E from \in {"lobby", "busy"} : StartMatch(from)
  \/ TickBegins \/ MatchEnds \/ (\E lost \in SUBSET Bots : TickEnds(lost))
  \/ \E b \in Bots : Disconnected(b) \/ CutoffPasses(b) \/ Kick(b)
  \/ Publish

Clocks(c) == SecondPasses(c) \/ Beat(c) \/ Revoke(c) \/ Stall(c)

Next == \/ \E c \in Conns : Task(c) \/ Client(c) \/ Clocks(c)
        \/ RoomSteps \/ Shutdown

\* Tasks are scheduled, the time-outs of their steps expire, and heartbeats come due.
Fairness == \A c \in Conns : WF_vars(Task(c)) /\ WF_vars(Beat(c))

Spec == Init /\ [][Next]_vars
FairSpec == Spec /\ Fairness

-----------------------------------------------------------------------------
(* Properties. *)

\* The state has its shape: budgets and channels are within their bounds, only a bot that the
\* room lists has a window, and only one whose task has its channel has frames in it.
TypeOK ==
  /\ step \in [Conns -> Steps]
  /\ free \in 0..Permits /\ \A a \in Addresses : count[a] \in Nat
  /\ \A c \in Conns : violations[c] < MaxViolations \/ step[c] \in Left
  /\ \A b \in Bots :
       spent[b] <= (IF step[b] \in {"hello", "joining", "joined"} THEN HelloBudget ELSE Budget)
  /\ \A c \in Conns : silent[c] <= SilentBeats + 1
  /\ \A b \in Bots :
       /\ outbox[b] \in Seq(Frames) /\ Len(outbox[b]) <= OutboundBuffer
       /\ Cardinality(allowance[b]) <= 1 /\ Cardinality(window[b]) <= 1
       /\ window[b] # {} => b \in listed
       /\ step[b] \notin Receiving => outbox[b] = <<>> /\ allowance[b] = {}
  /\ late \cup answered \subseteq {b \in Bots : window[b] # {}}
  /\ \A c \in Spectators : lag[c] \in 0..(SpectatorBuffer + 1)

\* Every slot is with one connection or free, through every way a connection can be refused,
\* fail or end: an address is counted for exactly its connections and never beyond its cap,
\* and a connection that is served holds both.
SlotsAreReturned ==
  /\ free + Cardinality(permitted) = Permits
  /\ PerIp > 0 => \A a \in Addresses :
       count[a] = Cardinality({c \in guarded : Addr[c] = a}) /\ count[a] <= PerIp
  /\ \A c \in Conns :
       /\ step[c] = "idle" => c \notin guarded \cup permitted
       /\ step[c] = "first" => c \in (IF c \in Bots THEN guarded ELSE permitted)
       /\ step[c] \notin {"idle", "first"} => c \in guarded \cap permitted

\* A bot that answers every frame it gets at most once and before its window closes, and
\* sends no more than a pong a second besides, is never closed for its messages: whatever
\* the room does meanwhile, its answer is the one that is free.
PromptBotIsKept ==
  \A b \in prompt : why[b] \notin {"message or byte limit exceeded",
                                   "protocol violation limit exceeded"}

\* Once a heartbeat came due after its token went bad, a connection gets no frame and has no
\* command accepted (docs/PROTOCOL.md: revoking disconnects at the next recheck).
RevokedIsCut ==
  [][\A c \in overdue : step[c] \in Open =>
       IF c \in Bots THEN Len(outbox'[c]) >= Len(outbox[c]) /\ (c \in answered' => c \in answered)
                     ELSE lag'[c] >= lag[c]]_vars

\* A client that has gone silent for good gives its slots back, wherever it went silent and
\* whatever is sent to it meanwhile; but a spectator may hold up its close frame at shutdown,
\* until the process ends.
SilentIsLetGo ==
  \A c \in Conns : c \in stalled ~> \/ c \notin guarded \cup permitted
                                    \/ stopping /\ c \in Spectators /\ step[c] = "closing"
=============================================================================
