----------------------------- MODULE Sessions -----------------------------
(***************************************************************************)
(* How a bot connection becomes, and ceases to be, a bot of the room: the  *)
(* exclusive session of an identity (participants.rs), the registration    *)
(* the connection task asks the room for and waits two seconds for, and    *)
(* the disconnect event it leaves behind (net.rs, handle_bot).             *)
(*                                                                         *)
(* Connection tasks and the room task run in parallel.  They meet in the   *)
(* room's bounded queue, in one reply channel per registration and in the  *)
(* outbound channel of a bot, which the room closes by dropping its entry. *)
(* Time-outs happen at any moment they are pending.                        *)
(***************************************************************************)
EXTENDS Integers, Sequences, FiniteSets, SequencesExt

CONSTANTS
  Conns,       \* connections ever made
  Identities,  \* identities of the roster file, the names bots play under
  Identity,    \* the identity each connection presents
  MaxBots,     \* room capacity
  QueueSize    \* ROOM_EVENT_BUFFER

ASSUME SessionsAssumption ==
  /\ IsFiniteSet(Conns)
  /\ Identity \in [Conns -> Identities]
  /\ MaxBots \in Nat \ {0} /\ QueueSize \in Nat \ {0}

\* Ids are numbers in order of registration; every connection registers at most once.
Ids == 1..Cardinality(Conns)
NoBot == 0

VARIABLES
  step,      \* where each connection's task is
  bot,       \* the bot a connection was told it is
  session,   \* the table of Participants: "none", "active" or "recent" (just dropped)
  queue,     \* the room's event queue
  reply,     \* what each registration's reply channel holds
  phase,     \* state of the room
  roster,    \* keys of `bots`
  name, gone,
  nextIndex,
  orphans    \* bots whose registration or disconnect was given up (history)

connVars == <<step, bot, session, reply>>
roomVars == <<phase, roster, name, gone, nextIndex>>
vars == <<connVars, queue, roomVars, orphans>>

Nothing == [kind |-> "none"]
Other   == [kind |-> "other"]
Connect(c) == [kind |-> "connect", conn |-> c]
Bye(b)     == [kind |-> "bye", bot |-> b]

Registered(b) == [kind |-> "registered", bot |-> b]
Refused(why)  == [kind |-> "refused", why |-> why]

Init ==
  /\ step = [c \in Conns |-> "new"] /\ bot = [c \in Conns |-> NoBot]
  /\ session = [i \in Identities |-> "none"]
  /\ queue = <<>>
  /\ reply = [c \in Conns |-> Nothing]
  /\ phase = "Lobby" /\ roster = {} /\ gone = {} /\ nextIndex = 1
  /\ name = [b \in Ids |-> CHOOSE i \in Identities : TRUE]
  /\ orphans = {}

Connected == roster \ gone

-----------------------------------------------------------------------------
(* The connection's task. *)

HasRoom == Len(queue) < QueueSize

\* Participants::acquire refuses an identity in use or dropped less than 2 s ago.
Free_Recent(i) == session[i] # "recent"
Free(i) == session[i] = "none"

Acquire(c) ==
  /\ step[c] = "new"
  /\ IF Free(Identity[c])
     THEN /\ session' = [session EXCEPT ![Identity[c]] = "active"]
          /\ step' = [step EXCEPT ![c] = "asking"]
     ELSE step' = [step EXCEPT ![c] = "over"] /\ UNCHANGED session
  /\ UNCHANGED <<bot, reply, queue, roomVars, orphans>>

\* The 2 s since a session was dropped are over.
CoolDown(i) ==
  /\ session[i] = "recent"
  /\ session' = [session EXCEPT ![i] = "none"]
  /\ UNCHANGED <<step, bot, reply, queue, roomVars, orphans>>

\* register: the event is sent, however long the queue is full.
Ask(c) ==
  /\ step[c] = "asking" /\ HasRoom
  /\ queue' = Append(queue, Connect(c))
  /\ step' = [step EXCEPT ![c] = "waiting"]
  /\ UNCHANGED <<bot, session, reply, roomVars, orphans>>

\* The reply is read.
Answered(c) ==
  /\ step[c] = "waiting" /\ reply[c] # Nothing
  /\ IF reply[c].kind = "registered"
     THEN bot' = [bot EXCEPT ![c] = reply[c].bot] /\ step' = [step EXCEPT ![c] = "live"]
     ELSE UNCHANGED bot /\ step' = [step EXCEPT ![c] = "closing"]
  /\ UNCHANGED <<session, reply, queue, roomVars, orphans>>

\* The time-out finds no reply; the channel is dropped a moment later.  A reply that
\* arrives between the two is lost without the room noticing.
TimesOut(c) ==
  /\ step[c] = "waiting" /\ reply[c] = Nothing
  /\ step' = [step EXCEPT ![c] = "expiring"]
  /\ UNCHANGED <<bot, session, reply, queue, roomVars, orphans>>

DropReply(c) ==
  /\ step[c] = "expiring"
  /\ step' = [step EXCEPT ![c] = "closing"]
  /\ orphans' = IF reply[c].kind = "registered" THEN orphans \cup {reply[c].bot} ELSE orphans
  /\ UNCHANGED <<bot, session, reply, queue, roomVars>>

\* The loop ends: the peer leaves, a limit or the heartbeat closes the connection, the
\* credential is revoked, or the room dropped the outbound channel.
Leave(c) ==
  /\ step[c] = "live"
  /\ step' = [step EXCEPT ![c] = "leaving"]
  /\ UNCHANGED <<bot, session, reply, queue, roomVars, orphans>>

\* The disconnect event is sent, or given up after 2 s of a full queue.
SendBye(c) ==
  /\ step[c] = "leaving" /\ HasRoom
  /\ queue' = Append(queue, Bye(bot[c]))
  /\ step' = [step EXCEPT ![c] = "closing"]
  /\ UNCHANGED <<bot, session, reply, roomVars, orphans>>

GiveUpBye(c) ==
  /\ step[c] = "leaving" /\ ~HasRoom
  /\ step' = [step EXCEPT ![c] = "closing"]
  /\ orphans' = orphans \cup {bot[c]}
  /\ UNCHANGED <<bot, session, reply, queue, roomVars>>

\* handle_bot returns: the session is dropped, only now.
MayRelease_Early(c) == step[c] \in {"leaving", "closing"}
MayRelease(c) == step[c] = "closing"

Release(c) ==
  /\ MayRelease(c)
  /\ session' = [session EXCEPT ![Identity[c]] = "recent"]
  /\ step' = [step EXCEPT ![c] = IF @ = "closing" THEN "over" ELSE @]
  /\ UNCHANGED <<bot, reply, queue, roomVars, orphans>>

\* Other traffic for the room: readiness, loadouts, operator requests.
Crowd ==
  /\ HasRoom
  /\ queue' = Append(queue, Other)
  /\ UNCHANGED <<connVars, roomVars, orphans>>

-----------------------------------------------------------------------------
(* The room's task. *)

\* validate_join; identities are valid names.
JoinError(i) ==
  IF phase # "Lobby" THEN "not_in_lobby"
  ELSE IF Cardinality(roster) >= MaxBots THEN "room_full"
  ELSE IF \E b \in roster : name[b] = i THEN "duplicate_name" ELSE "none"

Insert(b, i) ==
  roster' = roster \cup {b} /\ name' = [name EXCEPT ![b] = i]

\* reply.send succeeds until the connection has dropped the channel; if it fails, a
\* new bot is removed again.
Delivered_Always(c) == TRUE
Delivered(c) == step[c] \in {"waiting", "expiring"}

HandleConnect(c) ==
  /\ queue # <<>> /\ Head(queue) = Connect(c)
  /\ LET why == JoinError(Identity[c])
     IN  IF why = "none"
         THEN /\ nextIndex' = nextIndex + 1
              /\ IF Delivered(c)
                 THEN /\ Insert(nextIndex, Identity[c])
                      /\ reply' = [reply EXCEPT ![c] = Registered(nextIndex)]
                 ELSE UNCHANGED <<roster, name, reply>>
         ELSE /\ reply' = IF Delivered(c) THEN [reply EXCEPT ![c] = Refused(why)] ELSE reply
              /\ UNCHANGED <<roster, name, nextIndex>>
  /\ queue' = Tail(queue)
  /\ UNCHANGED <<step, bot, session, phase, gone, orphans>>

\* handle_bot_disconnect: a forfeit while a match runs, a removal otherwise.
Drop_RunningOnly(b) ==
  IF b \in Connected /\ phase = "Running"
  THEN gone' = gone \cup {b} /\ UNCHANGED roster ELSE UNCHANGED <<roster, gone>>
Drop(b) ==
  IF b \notin Connected THEN UNCHANGED <<roster, gone>>
  ELSE IF phase = "Running" THEN gone' = gone \cup {b} /\ UNCHANGED roster
  ELSE roster' = roster \ {b} /\ UNCHANGED gone

HandleBye ==
  /\ queue # <<>> /\ Head(queue).kind = "bye"
  /\ Drop(Head(queue).bot)
  /\ queue' = Tail(queue)
  /\ UNCHANGED <<connVars, phase, name, nextIndex, orphans>>

HandleOther ==
  /\ queue # <<>> /\ Head(queue) = Other
  /\ queue' = Tail(queue)
  /\ UNCHANGED <<connVars, roomVars, orphans>>

Kick(b) ==
  /\ b \in Connected
  /\ Drop(b)
  /\ UNCHANGED <<connVars, queue, phase, name, nextIndex, orphans>>

\* A match needs every bot ready, which takes a connection that knows its bot.
Start ==
  /\ phase = "Lobby" /\ roster # {}
  /\ \A b \in roster : \E c \in Conns : bot[c] = b
  /\ phase' = "Running"
  /\ UNCHANGED <<connVars, queue, roster, name, gone, nextIndex, orphans>>

Finish ==
  /\ phase = "Running" /\ phase' = "Ended"
  /\ UNCHANGED <<connVars, queue, roster, name, gone, nextIndex, orphans>>

\* transition_to_lobby
Remaining == Connected

BackToLobby ==
  /\ phase = "Ended" /\ phase' = "Lobby"
  /\ roster' = Remaining /\ gone' = {}
  /\ UNCHANGED <<connVars, queue, name, nextIndex, orphans>>

Handle == (\E c \in Conns : HandleConnect(c)) \/ HandleBye \/ HandleOther

Connection(c) ==
  \/ Acquire(c) \/ Ask(c) \/ Answered(c) \/ TimesOut(c) \/ DropReply(c)
  \/ Leave(c) \/ SendBye(c) \/ GiveUpBye(c) \/ Release(c)

Next ==
  \/ \E c \in Conns : Connection(c)
  \/ \E i \in Identities : CoolDown(i)
  \/ Crowd \/ Handle
  \/ \E b \in Ids : Kick(b)
  \/ Start \/ Finish \/ BackToLobby

Spec == Init /\ [][Next]_vars

\* The room keeps reading its queue, and a connection that leaves says so.
FairSpec ==
  /\ Spec
  /\ WF_vars(Handle)
  /\ \A c \in Conns : WF_vars(SendBye(c) \/ GiveUpBye(c))

-----------------------------------------------------------------------------
(* Properties *)

Steps == {"new", "asking", "waiting", "expiring", "live", "leaving", "closing", "over"}
Events == {Other} \cup [kind : {"connect"}, conn : Conns] \cup [kind : {"bye"}, bot : Ids]
Reasons == {"not_in_lobby", "room_full", "duplicate_name"}
Replies == {Nothing} \cup [kind : {"registered"}, bot : Ids] \cup [kind : {"refused"}, why : Reasons]

TypeOK ==
  /\ step \in [Conns -> Steps] /\ bot \in [Conns -> Ids \cup {NoBot}]
  /\ session \in [Identities -> {"none", "active", "recent"}]
  /\ queue \in Seq(Events) /\ Len(queue) <= QueueSize
  /\ reply \in [Conns -> Replies]
  /\ phase \in {"Lobby", "Running", "Ended"}
  /\ roster \subseteq Ids /\ gone \subseteq roster
  /\ name \in [Ids -> Identities]
  /\ nextIndex \in 1..Cardinality(Conns) + 1
  /\ orphans \subseteq Ids

\* A connection holds its identity's session from acquire to the end of handle_bot.
Holding(c) == step[c] \in {"asking", "waiting", "expiring", "live", "leaving", "closing"}

\* Two connections never play under one identity at the same time, through time-outs,
\* kicks, reconnects and disconnect events still in the queue.
OneSessionPerIdentity ==
  \A c, d \in Conns : Holding(c) /\ Holding(d) /\ Identity[c] = Identity[d] => c = d

Queued(e) == Contains(queue, e)

\* Every bot the room takes for connected has a connection behind it: one that plays
\* it or is about to learn of it, or one whose disconnect is still on its way; unless
\* a time-out gave one of those messages up.
RosterIsBacked ==
  \A b \in Connected :
    \/ b \in orphans
    \/ \E c \in Conns :
         \/ bot[c] = b /\ step[c] \in {"live", "leaving"}
         \/ reply[c] = Registered(b) /\ step[c] \in {"waiting", "expiring"}
    \/ Queued(Bye(b))

\* A reconnecting identity never meets its own past: it is refused as a duplicate only
\* if a bot of that name was orphaned, because the old disconnect is queued before
\* the session is released and the new registration after it is acquired.
DuplicateIsOrphan ==
  [][\A c \in Conns :
       reply[c] = Nothing /\ reply'[c] = Refused("duplicate_name")
         => \E b \in roster \cap orphans : name[b] = Identity[c]]_vars

\* When a connection leaves, its bot is soon no longer taken for connected, whatever
\* the room is doing, unless the disconnect was given up.
DepartedIsDropped ==
  \A c \in Conns :
    step[c] = "leaving" ~> (bot[c] \notin Connected \/ bot[c] \in orphans)
=============================================================================
