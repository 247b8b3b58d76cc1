--------------------------- MODULE SessionsProofs ---------------------------
(***************************************************************************)
(* Proofs about Sessions, for any number of connections and identities and *)
(* any queue.  The invariant follows a bot from the registration its       *)
(* connection asked for, through the reply, to the disconnect: at each     *)
(* moment exactly one of them speaks for it.                               *)
(***************************************************************************)
EXTENDS Sessions, FiniteSetTheorems, TLAPS

Positions == 1..Len(queue)
IsConnect(k) == queue[k].kind = "connect"
IsBye(k) == queue[k].kind = "bye"

\* Who holds a session has the table's entry.
Exclusive ==
  /\ OneSessionPerIdentity
  /\ \A c \in Conns : Holding(c) => session[Identity[c]] = "active"

\* A connection asks at most once, and has no reply before it is handled.
AsksOnce ==
  /\ \A c \in Conns : step[c] \in {"new", "asking"} => reply[c] = Nothing
  /\ \A k \in Positions : IsConnect(k) =>
       /\ step[queue[k].conn] \notin {"new", "asking"}
       /\ reply[queue[k].conn] = Nothing
  /\ \A j, k \in Positions :
       IsConnect(j) /\ IsConnect(k) /\ queue[j].conn = queue[k].conn => j = k

\* Ids in use have been given out.
Numbered ==
  /\ \A b \in roster : b < nextIndex
  /\ \A c \in Conns : bot[c] < nextIndex
  /\ \A c \in Conns : reply[c].kind = "registered" => reply[c].bot < nextIndex
  /\ \A k \in Positions : IsBye(k) => queue[k].bot < nextIndex

\* There is an id left for every connection that may still register.
Unregistered ==
  {c \in Conns : step[c] \in {"new", "asking"}
                   \/ \E k \in Positions : IsConnect(k) /\ queue[k].conn = c}
Budget == nextIndex + Cardinality(Unregistered) <= Cardinality(Conns) + 1

\* A bot plays under the identity of its connection.
Named ==
  /\ \A c \in Conns : step[c] \in {"live", "leaving"} => bot[c] # NoBot
  /\ \A c \in Conns : bot[c] # NoBot => name[bot[c]] = Identity[c]
  /\ \A c \in Conns : reply[c].kind = "registered" => name[reply[c].bot] = Identity[c]

LobbyIsWhole == phase = "Lobby" => gone = {}

\* A disconnect is queued before the next registration under its name.
ByeFirst ==
  \A j, k \in Positions :
    j < k /\ IsConnect(j) /\ IsBye(k) /\ step[queue[j].conn] \in {"waiting", "expiring"}
      => name[queue[k].bot] # Identity[queue[j].conn]

Inv ==
  /\ TypeOK /\ Exclusive /\ AsksOnce /\ Numbered /\ Budget
  /\ Named /\ LobbyIsWhole /\ ByeFirst /\ RosterIsBacked

-----------------------------------------------------------------------------
(* Messages. *)

LEMMA Kinds ==
  /\ \A e \in Events : /\ e.kind \in {"other", "connect", "bye"}
                       /\ e.kind = "connect" => e.conn \in Conns
                       /\ e.kind = "bye" => e.bot \in Ids
  /\ \A r \in Replies : /\ r.kind \in {"none", "registered", "refused"}
                        /\ r.kind = "none" => r = Nothing
                        /\ r.kind = "registered" => r.bot \in Ids
  /\ \A c \in Conns : Connect(c) \in Events /\ Connect(c).kind = "connect" /\ Connect(c).conn = c
  /\ \A b \in Ids : /\ Bye(b) \in Events /\ Bye(b).kind = "bye" /\ Bye(b).bot = b
                    /\ Registered(b) \in Replies
                    /\ Registered(b).kind = "registered" /\ Registered(b).bot = b
  /\ \A why \in Reasons : Refused(why) \in Replies /\ Refused(why).kind = "refused"
  /\ Nothing \in Replies /\ Nothing.kind = "none"
  /\ Other \in Events /\ Other.kind = "other"
  BY DEF Events, Replies, Connect, Bye, Registered, Refused, Nothing, Other

\* An event enters the queue behind the others.
LEMMA Enqueue ==
  ASSUME queue \in Seq(Events), NEW e \in Events, queue' = Append(queue, e)
  PROVE  /\ queue' \in Seq(Events) /\ Len(queue') = Len(queue) + 1
         /\ \A k \in 1..Len(queue) : queue'[k] = queue[k]
         /\ queue'[Len(queue) + 1] = e
  OBVIOUS

\* An event leaves it at the front.
LEMMA Dequeue ==
  ASSUME queue \in Seq(Events), queue # <<>>, queue' = Tail(queue)
  PROVE  /\ queue' \in Seq(Events) /\ Len(queue') = Len(queue) - 1 /\ Len(queue) \in Nat
         /\ \A k \in 1..Len(queue') : queue'[k] = queue[k + 1]
         /\ Head(queue) = queue[1] /\ Head(queue) \in Events /\ Len(queue) >= 1
  OBVIOUS

LEMMA NumberOfConns == Cardinality(Conns) \in Nat
  BY SessionsAssumption, FS_CardinalityType

LEMMA Initially == Init => Inv
  <1> SUFFICES ASSUME Init PROVE Inv
    OBVIOUS
  <1> USE DEF Init
  <1>1. TypeOK
    <2>1. Conns = {} => Ids = {}
      BY FS_EmptySet DEF Ids
    <2>2. Conns # {} => Identities # {}
      BY SessionsAssumption
    <2>3. name \in [Ids -> Identities]
      BY <2>1, <2>2
    <2>4. queue \in Seq(Events) /\ Len(queue) <= QueueSize
      BY SessionsAssumption
    <2>5. reply \in [Conns -> Replies]
      BY Kinds
    <2>6. nextIndex \in 1..Cardinality(Conns) + 1
      BY NumberOfConns
    <2> QED
      BY <2>3, <2>4, <2>5, <2>6 DEF TypeOK, Steps, NoBot
  <1>2. Exclusive
    BY DEF Exclusive, OneSessionPerIdentity, Holding
  <1>3. AsksOnce /\ Numbered /\ ByeFirst
    BY Kinds, SessionsAssumption DEF AsksOnce, Numbered, ByeFirst, Positions, NoBot
  <1>4. Budget
    <2>1. Unregistered = Conns
      BY DEF Unregistered, Positions
    <2> QED
      BY <2>1, NumberOfConns DEF Budget
  <1>5. Named /\ LobbyIsWhole
    BY Kinds DEF Named, LobbyIsWhole
  <1>6. RosterIsBacked
    BY DEF RosterIsBacked, Connected
  <1> QED
    BY <1>1, <1>2, <1>3, <1>4, <1>5, <1>6 DEF Inv

-----------------------------------------------------------------------------
(* Steps. *)

LEMMA UnregisteredFinite == IsFiniteSet(Unregistered) /\ Cardinality(Unregistered) \in Nat
  <1>1. Unregistered \in SUBSET Conns
    BY DEF Unregistered
  <1>2. IsFiniteSet(Unregistered)
    BY <1>1, FS_Subset, SessionsAssumption
  <1> QED
    BY <1>2, FS_CardinalityType

\* A registration that is handled finds an id.
LEMMA SpareId ==
  ASSUME TypeOK, Budget, NEW c \in Conns, HandleConnect(c)
  PROVE  nextIndex \in Ids
  <1>1. queue \in Seq(Events) /\ queue # <<>> /\ Head(queue) = Connect(c)
    BY DEF TypeOK, HandleConnect
  <1>2. 1 \in Positions /\ IsConnect(1) /\ queue[1].conn = c
    BY <1>1, Kinds DEF Positions, IsConnect
  <1>3. c \in Unregistered
    BY <1>2 DEF Unregistered
  <1>4. Cardinality(Unregistered) # 0
    BY <1>3, UnregisteredFinite, FS_EmptySet
  <1> QED
    BY <1>4, UnregisteredFinite, NumberOfConns DEF Budget, TypeOK, Ids

LEMMA TypeStep ==
  ASSUME Inv, [Next]_vars
  PROVE  TypeOK'
  <1> USE DEF Inv, vars, connVars, roomVars
  <1>t. TypeOK
    OBVIOUS
  <1>q. queue \in Seq(Events) /\ Len(queue) \in Nat /\ Len(queue) <= QueueSize
    BY DEF TypeOK
  <1>1. CASE UNCHANGED vars
    BY <1>1, <1>t DEF TypeOK
  <1>2. ASSUME NEW c \in Conns, Acquire(c) \/ Answered(c) \/ TimesOut(c) \/ Leave(c) \/ Release(c)
        PROVE  TypeOK'
    <2>1. UNCHANGED <<queue, reply, roomVars, orphans>>
      BY <1>2 DEF Acquire, Answered, TimesOut, Leave, Release
    <2>2. step' \in [Conns -> Steps]
      BY <1>2, <1>t DEF TypeOK, Steps, Acquire, Answered, TimesOut, Leave, Release
    <2>3. session' \in [Identities -> {"none", "active", "recent"}]
      BY <1>2, <1>t DEF TypeOK, Acquire, Answered, TimesOut, Leave, Release
    <2>4. bot' \in [Conns -> Ids \cup {NoBot}]
      BY <1>2, <1>t, Kinds DEF TypeOK, Acquire, Answered, TimesOut, Leave, Release
    <2> QED
      BY <2>1, <2>2, <2>3, <2>4, <1>t DEF TypeOK
  <1>3. ASSUME NEW c \in Conns, DropReply(c) \/ GiveUpBye(c) PROVE TypeOK'
    <2>1. UNCHANGED <<bot, session, queue, reply, roomVars>>
      BY <1>3 DEF DropReply, GiveUpBye
    <2>2. step' \in [Conns -> Steps]
      BY <1>3, <1>t DEF TypeOK, Steps, DropReply, GiveUpBye
    <2>3. step[c] = "leaving" => bot[c] \in Ids
      BY <1>t DEF Named, TypeOK
    <2>4. orphans' \subseteq Ids
      BY <1>3, <1>t, <2>3, Kinds DEF TypeOK, DropReply, GiveUpBye
    <2> QED
      BY <2>1, <2>2, <2>4, <1>t DEF TypeOK
  <1>4. ASSUME NEW c \in Conns, Ask(c) \/ SendBye(c) PROVE TypeOK'
    <2>1. UNCHANGED <<bot, session, reply, roomVars, orphans>>
      BY <1>4 DEF Ask, SendBye
    <2>2. step' \in [Conns -> Steps]
      BY <1>4, <1>t DEF TypeOK, Steps, Ask, SendBye
    <2>3. step[c] = "leaving" => bot[c] \in Ids
      BY <1>t DEF Named, TypeOK
    <2>4. queue' \in Seq(Events) /\ Len(queue') <= QueueSize
      BY <1>4, <1>q, <2>3, Kinds, Enqueue, SessionsAssumption DEF Ask, SendBye, HasRoom
    <2> QED
      BY <2>1, <2>2, <2>4, <1>t DEF TypeOK
  <1>5. CASE Crowd
    BY <1>5, <1>q, <1>t, Kinds, Enqueue, SessionsAssumption DEF Crowd, HasRoom, TypeOK
  <1>6. ASSUME NEW i \in Identities, CoolDown(i) PROVE TypeOK'
    BY <1>6, <1>t DEF CoolDown, TypeOK
  <1>7. ASSUME NEW c \in Conns, HandleConnect(c) PROVE TypeOK'
    <2>1. UNCHANGED <<step, bot, session, phase, gone, orphans>>
      BY <1>7 DEF HandleConnect
    <2>2. queue' \in Seq(Events) /\ Len(queue') <= QueueSize
      <3>1. queue # <<>> /\ queue' = Tail(queue)
        BY <1>7 DEF HandleConnect
      <3>2. queue' \in Seq(Events) /\ Len(queue') = Len(queue) - 1
        BY <3>1, <1>q, Dequeue
      <3> QED
        BY <3>2, <1>q, SessionsAssumption
    <2>3. nextIndex \in Ids
      BY <1>7, SpareId
    <2>4. nextIndex' \in 1..Cardinality(Conns) + 1
      BY <1>7, <1>t, <2>3, NumberOfConns DEF HandleConnect, TypeOK, Ids
    <2>5. roster' \subseteq Ids /\ roster \subseteq roster'
      BY <1>7, <1>t, <2>3 DEF HandleConnect, Insert, TypeOK
    <2>6. name' \in [Ids -> Identities]
      BY <1>7, <1>t, SessionsAssumption DEF HandleConnect, Insert, TypeOK
    <2>7. JoinError(Identity[c]) # "none" => JoinError(Identity[c]) \in Reasons
      BY DEF JoinError, Reasons
    <2>8. reply' \in [Conns -> Replies]
      <3>1. PICK r \in Replies : reply' = [reply EXCEPT ![c] = r] \/ reply' = reply
        BY <1>7, <2>3, <2>7, Kinds DEF HandleConnect
      <3> QED
        BY <3>1, <1>t DEF TypeOK
    <2> QED
      BY <2>1, <2>2, <2>4, <2>5, <2>6, <2>8, <1>t DEF TypeOK
  <1>8. ASSUME HandleBye \/ HandleOther PROVE TypeOK'
    <2>1. UNCHANGED <<connVars, phase, name, nextIndex, orphans>>
      BY <1>8 DEF HandleBye, HandleOther
    <2>2. queue' \in Seq(Events) /\ Len(queue') <= QueueSize
      BY <1>8, <1>q, Dequeue, SessionsAssumption DEF HandleBye, HandleOther
    <2>3. roster' \subseteq Ids /\ gone' \subseteq roster'
      BY <1>8, <1>t DEF HandleBye, HandleOther, Drop, Connected, TypeOK
    <2> QED
      BY <2>1, <2>2, <2>3, <1>t DEF TypeOK
  <1>9. ASSUME NEW b \in Ids, Kick(b) PROVE TypeOK'
    BY <1>9, <1>t DEF Kick, Drop, Connected, TypeOK
  <1>10. CASE Start \/ Finish \/ BackToLobby
    BY <1>10, <1>t DEF Start, Finish, BackToLobby, Remaining, Connected, TypeOK
  <1> QED
    BY <1>1, <1>2, <1>3, <1>4, <1>5, <1>6, <1>7, <1>8, <1>9, <1>10
    DEF Next, Connection, Handle

LEMMA ExclusiveStep ==
  ASSUME Inv, [Next]_vars
  PROVE  Exclusive'
  <1> USE DEF Inv, Exclusive, OneSessionPerIdentity, Holding
  <1>t. step \in [Conns -> Steps] /\ session \in [Identities -> {"none", "active", "recent"}]
    BY DEF TypeOK
  <1>1. CASE UNCHANGED <<step, session>>
    BY <1>1
  <1>2. ASSUME NEW c \in Conns, Acquire(c) PROVE Exclusive'
    BY <1>2, <1>t, SessionsAssumption DEF Acquire, Free
  <1>3. ASSUME NEW c \in Conns,
               Ask(c) \/ Answered(c) \/ TimesOut(c) \/ DropReply(c) \/ Leave(c)
                 \/ SendBye(c) \/ GiveUpBye(c)
        PROVE  Exclusive'
    BY <1>3, <1>t DEF Ask, Answered, TimesOut, DropReply, Leave, SendBye, GiveUpBye
  <1>4. ASSUME NEW c \in Conns, Release(c) PROVE Exclusive'
    BY <1>4, <1>t, SessionsAssumption DEF Release, MayRelease
  <1>5. ASSUME NEW i \in Identities, CoolDown(i) PROVE Exclusive'
    BY <1>5, <1>t, SessionsAssumption DEF CoolDown
  <1> QED
    BY <1>1, <1>2, <1>3, <1>4, <1>5
    DEF Next, Connection, Handle, Crowd, HandleConnect, HandleBye, HandleOther, Kick,
        Start, Finish, BackToLobby, vars, connVars

\* A task only moves forward from "new" and "asking".
LEMMA StepsForward ==
  ASSUME TypeOK, [Next]_vars
  PROVE  \A c \in Conns : /\ step'[c] = "new" => step[c] = "new"
                          /\ step'[c] = "asking" => step[c] \in {"new", "asking"}
  <1>1. step \in [Conns -> Steps]
    BY DEF TypeOK
  <1> QED
    BY <1>1
    DEF Next, Connection, Handle, Acquire, CoolDown, Ask, Answered, TimesOut, DropReply, Leave,
        SendBye, GiveUpBye, Release, MayRelease, Crowd, HandleConnect, HandleBye, HandleOther, Kick,
        Start, Finish, BackToLobby, vars, connVars, roomVars

\* What a step does to the queue and the replies.
LEMMA QueueSteps ==
  ASSUME TypeOK, [Next]_vars
  PROVE  \/ UNCHANGED <<queue, reply>>
         \/ \E c \in Conns : Ask(c)
         \/ \E c \in Conns : SendBye(c)
         \/ Crowd
         \/ \E c \in Conns : HandleConnect(c)
         \/ HandleBye
         \/ HandleOther
  BY DEF Next, Connection, Handle, Acquire, CoolDown, Answered, TimesOut, DropReply, Leave,
         GiveUpBye, Release, Kick, Start, Finish, BackToLobby, vars, connVars, roomVars

LEMMA AsksOnceStep ==
  ASSUME Inv, [Next]_vars
  PROVE  AsksOnce'
  <1> USE DEF AsksOnce, Positions, IsConnect
  <1>t. TypeOK /\ AsksOnce
    BY DEF Inv
  <1>s. step \in [Conns -> Steps] /\ reply \in [Conns -> Replies] /\ queue \in Seq(Events)
    BY <1>t DEF TypeOK
  <1>f. \A c \in Conns : step'[c] \in {"new", "asking"} => step[c] \in {"new", "asking"}
    BY <1>t, StepsForward
  <1>e. \A k \in 1..Len(queue) : queue[k] \in Events
    BY <1>s
  <1>1. CASE UNCHANGED <<queue, reply>>
    BY <1>1, <1>t, <1>f, <1>e, Kinds
  <1>2. ASSUME NEW c \in Conns, Ask(c) PROVE AsksOnce'
    <2>1. queue' = Append(queue, Connect(c)) /\ UNCHANGED reply /\ step[c] = "asking"
      BY <1>2 DEF Ask
    <2>2. step' = [step EXCEPT ![c] = "waiting"]
      BY <1>2 DEF Ask
    <2>3. \A k \in 1..Len(queue) : IsConnect(k) => queue[k].conn # c
      BY <2>1, <1>t
    <2>4. /\ Len(queue') = Len(queue) + 1
          /\ \A k \in 1..Len(queue) : queue'[k] = queue[k]
          /\ queue'[Len(queue) + 1] = Connect(c)
      BY <2>1, <1>s, Kinds, Enqueue
    <2>5. Len(queue) \in Nat
      BY <1>s
    <2>6. reply[c] = Nothing
      BY <2>1, <1>t
    <2>7. \A k \in 1..Len(queue') : k \in 1..Len(queue) \/ k = Len(queue) + 1
      BY <2>4, <2>5
    <2>8. \A d \in Conns : step'[d] \in {"new", "asking"} => reply'[d] = Nothing
      BY <2>1, <1>f, <1>t
    <2>9. \A k \in 1..Len(queue') : queue'[k].kind = "connect" =>
             /\ step'[queue'[k].conn] \notin {"new", "asking"}
             /\ reply'[queue'[k].conn] = Nothing
      BY <2>1, <2>2, <2>4, <2>6, <2>7, <1>t, <1>s, <1>e, Kinds
    <2>10. \A j, k \in 1..Len(queue') :
             queue'[j].kind = "connect" /\ queue'[k].kind = "connect"
               /\ queue'[j].conn = queue'[k].conn => j = k
      BY <2>3, <2>4, <2>7, <1>t, Kinds
    <2> QED
      BY <2>8, <2>9, <2>10
  <1>3. ASSUME NEW e \in Events, e.kind # "connect", queue' = Append(queue, e), UNCHANGED reply
        PROVE  AsksOnce'
    <2>1. /\ Len(queue') = Len(queue) + 1 /\ Len(queue) \in Nat
          /\ \A k \in 1..Len(queue) : queue'[k] = queue[k]
          /\ queue'[Len(queue) + 1] = e
      BY <1>3, <1>s, Enqueue
    <2>2. \A k \in 1..Len(queue') :
            queue'[k].kind = "connect" => k \in 1..Len(queue) /\ queue'[k] = queue[k]
      BY <2>1, <1>3
    <2> QED
      BY <2>2, <1>3, <1>t, <1>f, <1>e, Kinds
  <1>4. ASSUME NEW c \in Conns, SendBye(c) PROVE AsksOnce'
    <2>1. bot[c] \in Ids
      BY <1>4, <1>t DEF SendBye, Inv, Named, TypeOK
    <2> QED
      BY <1>4, <1>3, <2>1, Kinds DEF SendBye
  <1>5. CASE Crowd
    BY <1>5, <1>3, Kinds DEF Crowd, connVars
  <1>6. ASSUME queue # <<>>, queue' = Tail(queue),
               \/ UNCHANGED reply
               \/ \E c \in Conns, r \in Replies :
                    /\ Head(queue).kind = "connect" /\ Head(queue).conn = c
                    /\ reply' = [reply EXCEPT ![c] = r]
        PROVE  AsksOnce'
    <2>1. /\ Len(queue') = Len(queue) - 1 /\ Len(queue) \in Nat /\ Len(queue) >= 1
          /\ \A k \in 1..Len(queue') : queue'[k] = queue[k + 1]
          /\ Head(queue) = queue[1]
      BY <1>6, <1>s, Dequeue
    <2>2. \A k \in 1..Len(queue') : k + 1 \in 1..Len(queue) /\ k + 1 # 1
      BY <2>1
    <2>3. 1 \in 1..Len(queue)
      BY <2>1
    <2>4. \A d \in Conns : reply'[d] = reply[d] \/ (queue[1].kind = "connect" /\ queue[1].conn = d)
      BY <1>6, <2>1, <1>s
    <2>5. \A d \in Conns : step'[d] \in {"new", "asking"} => reply'[d] = Nothing
      BY <2>3, <2>4, <1>f, <1>t
    <2>6. \A k \in 1..Len(queue') : queue'[k].kind = "connect" =>
             /\ step'[queue'[k].conn] \notin {"new", "asking"}
             /\ reply'[queue'[k].conn] = Nothing
      BY <2>1, <2>2, <2>3, <2>4, <1>f, <1>t, <1>e, Kinds
    <2>7. \A j, k \in 1..Len(queue') :
             queue'[j].kind = "connect" /\ queue'[k].kind = "connect"
               /\ queue'[j].conn = queue'[k].conn => j = k
      BY <2>1, <2>2, <1>t
    <2> QED
      BY <2>5, <2>6, <2>7
  <1>7. ASSUME NEW c \in Conns, HandleConnect(c) PROVE AsksOnce'
    <2>1. nextIndex \in Ids
      BY <1>7, SpareId DEF Inv
    <2>2. JoinError(Identity[c]) # "none" => JoinError(Identity[c]) \in Reasons
      BY DEF JoinError, Reasons
    <2>3. \E r \in Replies : reply' = [reply EXCEPT ![c] = r] \/ reply' = reply
      BY <1>7, <2>1, <2>2, Kinds DEF HandleConnect
    <2>4. queue # <<>> /\ queue' = Tail(queue) /\ Head(queue).kind = "connect" /\ Head(queue).conn = c
      BY <1>7, Kinds DEF HandleConnect
    <2> QED
      BY <1>6, <2>3, <2>4
  <1>8. CASE HandleBye \/ HandleOther
    BY <1>8, <1>6 DEF HandleBye, HandleOther, connVars
  <1> QED
    BY <1>1, <1>2, <1>4, <1>5, <1>7, <1>8, <1>t, QueueSteps

\* What a step does to the roster and the ids given out.
LEMMA RosterSteps ==
  ASSUME TypeOK, [Next]_vars
  PROVE  \/ UNCHANGED <<roster, name, nextIndex>>
         \/ \E c \in Conns : HandleConnect(c)
         \/ roster' \subseteq roster /\ UNCHANGED <<name, nextIndex>>
  BY DEF Next, Connection, Handle, Acquire, CoolDown, Ask, Answered, TimesOut, DropReply, Leave,
         SendBye, GiveUpBye, Release, Crowd, HandleBye, HandleOther, Kick, Drop, Connected,
         Start, Finish, BackToLobby, Remaining, vars, connVars, roomVars

\* A connection learns its bot from its reply only.
LEMMA BotSteps ==
  ASSUME TypeOK, [Next]_vars
  PROVE  \/ UNCHANGED bot /\ \A c \in Conns : step'[c] \in {"live", "leaving"} => step[c] \in {"live", "leaving"}
         \/ \E c \in Conns : Answered(c)
  <1>1. step \in [Conns -> Steps]
    BY DEF TypeOK
  <1> QED
    BY <1>1
    DEF Next, Connection, Handle, Acquire, CoolDown, Ask, TimesOut, DropReply, Leave,
        SendBye, GiveUpBye, Release, Crowd, HandleConnect, HandleBye, HandleOther, Kick,
        Start, Finish, BackToLobby, vars, connVars, roomVars

\* What handling a registration does, in one of its three ways.
LEMMA ConnectSteps ==
  ASSUME Inv, NEW c \in Conns, HandleConnect(c)
  PROVE  /\ queue # <<>> /\ queue' = Tail(queue) /\ Head(queue) = Connect(c)
         /\ nextIndex \in Ids
         /\ UNCHANGED <<step, bot, session, phase, gone, orphans>>
         /\ \/ /\ roster' = roster \cup {nextIndex} /\ nextIndex' = nextIndex + 1
               /\ name' = [name EXCEPT ![nextIndex] = Identity[c]]
               /\ reply' = [reply EXCEPT ![c] = Registered(nextIndex)]
               /\ step[c] \in {"waiting", "expiring"}
            \/ UNCHANGED <<roster, name, reply>> /\ nextIndex' = nextIndex + 1
            \/ /\ UNCHANGED <<roster, name, nextIndex>>
               /\ \E why \in Reasons : reply' = [reply EXCEPT ![c] = Refused(why)] \/ reply' = reply
  <1>1. nextIndex \in Ids
    BY SpareId DEF Inv
  <1>2. JoinError(Identity[c]) # "none" => JoinError(Identity[c]) \in Reasons
    BY DEF JoinError, Reasons
  <1> QED
    BY <1>1, <1>2 DEF HandleConnect, Insert, Delivered

LEMMA NumberedStep ==
  ASSUME Inv, [Next]_vars
  PROVE  Numbered'
  <1> USE DEF Positions, IsBye
  <1>t. TypeOK /\ Numbered
    BY DEF Inv
  <1>s. /\ step \in [Conns -> Steps] /\ reply \in [Conns -> Replies] /\ queue \in Seq(Events)
        /\ bot \in [Conns -> Ids \cup {NoBot}] /\ nextIndex \in Nat /\ roster \subseteq Ids
    BY <1>t, NumberOfConns DEF TypeOK
  <1>i. \A b \in Ids : b \in Nat
    BY DEF Ids
  <1>e. \A k \in 1..Len(queue) : queue[k] \in Events
    BY <1>s
  <1>u. \A c \in Conns : reply[c] \in Replies
    BY <1>s
  <1>1. (\A b \in roster : b < nextIndex)' /\ nextIndex' \in {nextIndex, nextIndex + 1}
    <2>1. ASSUME NEW c \in Conns, HandleConnect(c)
          PROVE  (\A b \in roster : b < nextIndex)' /\ nextIndex' \in {nextIndex, nextIndex + 1}
      <3>1. roster' \subseteq roster \cup {nextIndex} /\ nextIndex' \in {nextIndex, nextIndex + 1}
            /\ (roster' = roster \/ nextIndex' = nextIndex + 1)
        BY <2>1, ConnectSteps
      <3> QED
        BY <3>1, <1>t, <1>s, <1>i DEF Numbered
    <2> QED
      BY <2>1, <1>t, RosterSteps DEF Numbered
  <1>2. \A c \in Conns : bot'[c] < nextIndex'
    <2>1. ASSUME NEW c \in Conns, Answered(c) PROVE \A d \in Conns : bot'[d] < nextIndex
      <3>1. bot' = bot \/ (reply[c].kind = "registered" /\ bot' = [bot EXCEPT ![c] = reply[c].bot])
        BY <2>1 DEF Answered
      <3> QED
        BY <3>1, <1>t, <1>s DEF Numbered
    <2>2. \A d \in Conns : bot'[d] < nextIndex /\ bot'[d] \in Int
      <3>1. bot' \in [Conns -> Ids \cup {NoBot}]
        BY TypeStep DEF TypeOK
      <3> QED
        BY <2>1, <3>1, <1>t, <1>i, BotSteps DEF Numbered, NoBot
    <2> QED
      BY <2>2, <1>1, <1>s
  <1>3. \A c \in Conns : reply'[c].kind = "registered" => reply'[c].bot < nextIndex'
    <2>1. ASSUME NEW c \in Conns, HandleConnect(c), NEW d \in Conns, reply'[d].kind = "registered"
          PROVE  reply'[d].bot < nextIndex'
      <3>1. CASE reply'[d] = reply[d]
        <4>1. reply[d].bot \in Nat /\ reply[d].bot < nextIndex
          BY <3>1, <2>1, <1>t, <1>u, <1>i, Kinds DEF Numbered
        <4> QED
          BY <4>1, <3>1, <1>1, <1>s
      <3>2. CASE reply'[d] # reply[d]
        <4>1. nextIndex \in Ids
          BY <2>1, ConnectSteps
        <4>2. reply'[d] = Registered(nextIndex) /\ nextIndex' = nextIndex + 1
          BY <3>2, <2>1, <1>s, ConnectSteps, Kinds
        <4> QED
          BY <4>1, <4>2, <1>s, Kinds
      <3> QED
        BY <3>1, <3>2
    <2>2. CASE UNCHANGED reply
      <3>1. \A c \in Conns : reply[c].kind = "registered" => reply[c].bot \in Nat /\ reply[c].bot < nextIndex
        BY <1>t, <1>u, <1>i, Kinds DEF Numbered
      <3> QED
        BY <3>1, <2>2, <1>1, <1>s
    <2> QED
      BY <2>1, <2>2, <1>t, QueueSteps DEF Ask, SendBye, Crowd, HandleBye, HandleOther, connVars
  <1>4. \A k \in 1..Len(queue') : queue'[k].kind = "bye" => queue'[k].bot < nextIndex'
    <2>1. \A k \in 1..Len(queue) : IsBye(k) => queue[k].bot \in Nat /\ queue[k].bot < nextIndex
      BY <1>t, <1>e, <1>i, Kinds DEF Numbered
    <2>2. ASSUME NEW e \in Events, queue' = Append(queue, e), e.kind = "bye" => e.bot < nextIndex,
                 nextIndex' = nextIndex
          PROVE  \A k \in 1..Len(queue') : queue'[k].kind = "bye" => queue'[k].bot < nextIndex'
      <3>1. /\ Len(queue') = Len(queue) + 1 /\ Len(queue) \in Nat
            /\ \A k \in 1..Len(queue) : queue'[k] = queue[k]
            /\ queue'[Len(queue) + 1] = e
        BY <2>2, <1>s, Enqueue
      <3> QED
        BY <3>1, <2>1, <2>2
    <2>3. ASSUME queue # <<>>, queue' = Tail(queue)
          PROVE  \A k \in 1..Len(queue') : queue'[k].kind = "bye" => queue'[k].bot < nextIndex'
      <3>1. /\ Len(queue') = Len(queue) - 1 /\ Len(queue) \in Nat
            /\ \A k \in 1..Len(queue') : queue'[k] = queue[k + 1]
        BY <2>3, <1>s, Dequeue
      <3>2. \A k \in 1..Len(queue') : k + 1 \in 1..Len(queue)
        BY <3>1
      <3> QED
        BY <3>1, <3>2, <2>1, <1>1, <1>s
    <2>4. ASSUME NEW c \in Conns, Ask(c) PROVE nextIndex' = nextIndex /\ queue' = Append(queue, Connect(c))
      BY <2>4 DEF Ask, roomVars
    <2>5. ASSUME NEW c \in Conns, SendBye(c)
          PROVE  /\ nextIndex' = nextIndex /\ queue' = Append(queue, Bye(bot[c])) 
                 /\ bot[c] \in Ids /\ bot[c] < nextIndex
      BY <2>5, <1>t, <1>s DEF SendBye, roomVars, Inv, Named, Numbered
    <2>6. Crowd => nextIndex' = nextIndex /\ queue' = Append(queue, Other)
      BY DEF Crowd, roomVars
    <2>7. CASE UNCHANGED queue
      BY <2>7, <2>1, <1>1, <1>s
    <2> QED
      BY <2>2, <2>3, <2>4, <2>5, <2>6, <2>7, <1>t, Kinds, QueueSteps
      DEF HandleConnect, HandleBye, HandleOther
  <1> QED
    BY <1>1, <1>2, <1>3, <1>4 DEF Numbered

LEMMA LobbyStep ==
  ASSUME Inv, [Next]_vars
  PROVE  LobbyIsWhole'
  BY DEF Inv, LobbyIsWhole, Next, Connection, Handle, Acquire, CoolDown, Ask, Answered, TimesOut,
         DropReply, Leave, SendBye, GiveUpBye, Release, Crowd, HandleConnect, HandleBye, HandleOther,
         Kick, Drop, Connected, Start, Finish, BackToLobby, vars, connVars, roomVars

LEMMA BudgetStep ==
  ASSUME Inv, [Next]_vars
  PROVE  Budget'
  <1> USE DEF Positions, IsConnect
  <1>t. TypeOK /\ AsksOnce /\ Budget
    BY DEF Inv
  <1>s. queue \in Seq(Events) /\ nextIndex \in Nat
    BY <1>t, NumberOfConns DEF TypeOK
  <1>f. \A c \in Conns : step'[c] \in {"new", "asking"} => step[c] \in {"new", "asking"}
    BY <1>t, StepsForward
  <1>q. ASSUME queue # <<>>, queue' = Tail(queue)
        PROVE  /\ \A k \in 1..Len(queue') : /\ k + 1 \in 1..Len(queue) /\ k + 1 # 1
                                            /\ queue'[k] = queue[k + 1]
               /\ Head(queue) = queue[1] /\ 1 \in 1..Len(queue)
    <2>1. /\ Len(queue') = Len(queue) - 1 /\ Len(queue) \in Nat /\ Len(queue) >= 1
          /\ \A k \in 1..Len(queue') : queue'[k] = queue[k + 1]
          /\ Head(queue) = queue[1]
      BY <1>q, <1>s, Dequeue
    <2> QED
      BY <2>1
  <1>1. ASSUME Unregistered' \subseteq Unregistered, nextIndex' = nextIndex
        PROVE  Budget'
    <2>1. Cardinality(Unregistered') <= Cardinality(Unregistered) /\ Cardinality(Unregistered') \in Nat
      BY <1>1, UnregisteredFinite, FS_Subset, FS_CardinalityType
    <2> QED
      BY <2>1, <1>1, <1>t, <1>s, UnregisteredFinite, NumberOfConns DEF Budget
  <1>2. CASE UNCHANGED queue /\ UNCHANGED nextIndex
    <2>1. Unregistered' \subseteq Unregistered
      BY <1>2, <1>f DEF Unregistered
    <2> QED
      BY <2>1, <1>1, <1>2
  <1>3. ASSUME NEW c \in Conns, Ask(c) PROVE Budget'
    <2>1. queue' = Append(queue, Connect(c)) /\ step[c] = "asking" /\ nextIndex' = nextIndex
      BY <1>3 DEF Ask, roomVars
    <2>2. /\ Len(queue') = Len(queue) + 1 /\ Len(queue) \in Nat
          /\ \A k \in 1..Len(queue) : queue'[k] = queue[k]
          /\ queue'[Len(queue) + 1] = Connect(c)
      BY <2>1, <1>s, Kinds, Enqueue
    <2>3. \A k \in 1..Len(queue') : k \in 1..Len(queue) \/ k = Len(queue) + 1
      BY <2>2
    <2>4. Unregistered' \subseteq Unregistered
      BY <2>1, <2>2, <2>3, <1>f, Kinds DEF Unregistered
    <2> QED
      BY <2>1, <2>4, <1>1
  <1>4. ASSUME NEW e \in Events, e.kind # "connect", queue' = Append(queue, e), nextIndex' = nextIndex
        PROVE  Budget'
    <2>1. /\ Len(queue') = Len(queue) + 1 /\ Len(queue) \in Nat
          /\ \A k \in 1..Len(queue) : queue'[k] = queue[k]
          /\ queue'[Len(queue) + 1] = e
      BY <1>4, <1>s, Enqueue
    <2>2. \A k \in 1..Len(queue') :
            queue'[k].kind = "connect" => k \in 1..Len(queue) /\ queue'[k] = queue[k]
      BY <2>1, <1>4
    <2>3. Unregistered' \subseteq Unregistered
      BY <2>2, <1>f DEF Unregistered
    <2> QED
      BY <2>3, <1>1, <1>4
  <1>5. ASSUME NEW c \in Conns, SendBye(c) PROVE Budget'
    <2>1. bot[c] \in Ids
      BY <1>5, <1>t DEF SendBye, Inv, Named, TypeOK
    <2> QED
      BY <1>4, <1>5, <2>1, Kinds DEF SendBye, roomVars
  <1>6. ASSUME queue # <<>>, queue' = Tail(queue), nextIndex' = nextIndex PROVE Budget'
    <2>1. Unregistered' \subseteq Unregistered
      BY <1>6, <1>q, <1>f DEF Unregistered
    <2> QED
      BY <2>1, <1>1, <1>6
  <1>7. ASSUME NEW c \in Conns, HandleConnect(c) PROVE Budget'
    <2>1. /\ queue # <<>> /\ queue' = Tail(queue) /\ Head(queue) = Connect(c)
          /\ nextIndex' \in {nextIndex, nextIndex + 1}
      BY <1>7, ConnectSteps
    <2>2. 1 \in 1..Len(queue) /\ queue[1].kind = "connect" /\ queue[1].conn = c
      BY <2>1, <1>q, Kinds
    <2>3. c \in Unregistered /\ step[c] \notin {"new", "asking"}
      BY <2>2, <1>t DEF Unregistered, AsksOnce
    <2>4. \A k \in 1..Len(queue') : queue'[k].kind = "connect" => queue'[k].conn # c
      BY <2>1, <2>2, <1>q, <1>t DEF AsksOnce
    <2>5. Unregistered' \subseteq Unregistered \ {c}
      BY <2>1, <2>3, <2>4, <1>q, <1>f DEF Unregistered
    <2>6. /\ IsFiniteSet(Unregistered \ {c})
          /\ Cardinality(Unregistered \ {c}) = Cardinality(Unregistered) - 1
      BY <2>3, UnregisteredFinite, FS_RemoveElement
    <2>7. Cardinality(Unregistered') <= Cardinality(Unregistered) - 1 /\ Cardinality(Unregistered') \in Nat
      BY <2>5, <2>6, FS_Subset, FS_CardinalityType
    <2> QED
      BY <2>1, <2>7, <1>t, <1>s, UnregisteredFinite, NumberOfConns DEF Budget
  <1>8. ASSUME ~\E c \in Conns : HandleConnect(c) PROVE nextIndex' = nextIndex
    BY <1>8, <1>t, RosterSteps
  <1> QED
    BY <1>2, <1>3, <1>4, <1>5, <1>6, <1>7, <1>8, <1>t, Kinds, QueueSteps
    DEF Crowd, HandleBye, HandleOther

LEMMA NamedStep ==
  ASSUME Inv, [Next]_vars
  PROVE  Named'
  <1>t. TypeOK /\ Numbered /\ Named
    BY DEF Inv
  <1>s. /\ step \in [Conns -> Steps] /\ reply \in [Conns -> Replies]
        /\ bot \in [Conns -> Ids \cup {NoBot}] /\ nextIndex \in Nat /\ name \in [Ids -> Identities]
    BY <1>t, NumberOfConns DEF TypeOK
  <1>i. \A b \in Ids : b \in Nat /\ b # NoBot
    BY DEF Ids, NoBot
  <1>u. \A c \in Conns : reply[c] \in Replies
    BY <1>s
  <1>1. \A c \in Conns : step'[c] \in {"live", "leaving"} => bot'[c] # NoBot
    <2>1. ASSUME NEW c \in Conns, Answered(c)
          PROVE  \A d \in Conns : step'[d] \in {"live", "leaving"} => bot'[d] # NoBot
      BY <2>1, <1>t, <1>s, <1>i, <1>u, Kinds DEF Answered, Named
    <2> QED
      BY <2>1, <1>t, BotSteps DEF Named
  <1>n. \A b \in Ids : b < nextIndex => name'[b] = name[b]
    <2>1. ASSUME NEW c \in Conns, HandleConnect(c) PROVE \A b \in Ids : b < nextIndex => name'[b] = name[b]
      <3>1. UNCHANGED name \/ name' = [name EXCEPT ![nextIndex] = Identity[c]]
        BY <2>1, ConnectSteps
      <3> QED
        BY <3>1, <1>s, <1>i
    <2> QED
      BY <2>1, <1>t, RosterSteps
  <1>2. \A c \in Conns : bot'[c] # NoBot => name'[bot'[c]] = Identity[c]
    <2>1. ASSUME NEW c \in Conns, Answered(c)
          PROVE  \A d \in Conns : bot'[d] # NoBot => name'[bot'[d]] = Identity[d]
      <3>1. bot' = bot \/ (reply[c].kind = "registered" /\ bot' = [bot EXCEPT ![c] = reply[c].bot])
        BY <2>1 DEF Answered
      <3>2. UNCHANGED name
        BY <2>1 DEF Answered, roomVars
      <3> QED
        BY <3>1, <3>2, <1>t, <1>s DEF Named
    <2>2. CASE UNCHANGED bot
      BY <2>2, <1>n, <1>t, <1>s DEF Named, Numbered
    <2> QED
      BY <2>1, <2>2, <1>t, BotSteps
  <1>3. \A c \in Conns : reply'[c].kind = "registered" => name'[reply'[c].bot] = Identity[c]
    <2>1. ASSUME NEW c \in Conns, HandleConnect(c), NEW d \in Conns, reply'[d].kind = "registered"
          PROVE  name'[reply'[d].bot] = Identity[d]
      <3>1. CASE reply'[d] = reply[d]
        <4>1. reply[d].bot \in Ids /\ reply[d].bot < nextIndex
          BY <3>1, <2>1, <1>t, <1>u, Kinds DEF Numbered
        <4> QED
          BY <4>1, <3>1, <2>1, <1>n, <1>t DEF Named
      <3>2. CASE reply'[d] # reply[d]
        <4>1. nextIndex \in Ids
          BY <2>1, ConnectSteps
        <4>2. /\ reply'[d] = Registered(nextIndex) /\ d = c
              /\ name' = [name EXCEPT ![nextIndex] = Identity[c]]
          BY <3>2, <2>1, <1>s, ConnectSteps, Kinds
        <4> QED
          BY <4>1, <4>2, <1>s, Kinds
      <3> QED
        BY <3>1, <3>2
    <2>2. CASE UNCHANGED reply
      BY <2>2, <1>t, <1>n, <1>u, Kinds DEF Named, Numbered
    <2> QED
      BY <2>1, <2>2, <1>t, QueueSteps DEF Ask, SendBye, Crowd, HandleBye, HandleOther, connVars
  <1> QED
    BY <1>1, <1>2, <1>3 DEF Named

\* A task that waits for a reply did so before, or has just asked.
LEMMA WaitingSteps ==
  ASSUME TypeOK, [Next]_vars
  PROVE  \A c \in Conns :
           step'[c] \in {"waiting", "expiring"} =>
             \/ step[c] \in {"waiting", "expiring"}
             \/ step[c] = "asking" /\ Ask(c)
  <1>1. step \in [Conns -> Steps]
    BY DEF TypeOK
  <1> QED
    BY <1>1
    DEF Next, Connection, Handle, Acquire, CoolDown, Ask, Answered, TimesOut, DropReply, Leave,
        SendBye, GiveUpBye, Release, MayRelease, Crowd, HandleConnect, HandleBye, HandleOther, Kick,
        Start, Finish, BackToLobby, vars, connVars, roomVars

\* Ids that were given out keep their name.
LEMMA NamesKept ==
  ASSUME Inv, [Next]_vars
  PROVE  \A b \in Ids : b < nextIndex => name'[b] = name[b]
  <1>s. name \in [Ids -> Identities]
    BY DEF Inv, TypeOK
  <1>1. ASSUME NEW c \in Conns, HandleConnect(c) PROVE \A b \in Ids : b < nextIndex => name'[b] = name[b]
    <2>1. UNCHANGED name \/ name' = [name EXCEPT ![nextIndex] = Identity[c]]
      BY <1>1, ConnectSteps
    <2>2. \A b \in Ids : b < nextIndex => b # nextIndex
      BY NumberOfConns DEF Ids, Inv, TypeOK
    <2> QED
      BY <2>1, <2>2, <1>s
  <1> QED
    BY <1>1, RosterSteps DEF Inv

LEMMA ByeFirstStep ==
  ASSUME Inv, [Next]_vars
  PROVE  ByeFirst'
  <1> USE DEF Positions, IsConnect, IsBye
  <1>t. TypeOK /\ Exclusive /\ AsksOnce /\ Numbered /\ Named /\ ByeFirst
    BY DEF Inv
  <1>s. /\ step \in [Conns -> Steps] /\ queue \in Seq(Events) /\ Len(queue) \in Nat
        /\ bot \in [Conns -> Ids \cup {NoBot}]
    BY <1>t DEF TypeOK
  <1>e. \A k \in 1..Len(queue) : queue[k] \in Events
    BY <1>s
  <1>w. \A k \in 1..Len(queue) : queue[k].kind = "connect" =>
           /\ queue[k].conn \in Conns
           /\ step'[queue[k].conn] \in {"waiting", "expiring"} => step[queue[k].conn] \in {"waiting", "expiring"}
    BY <1>t, <1>e, Kinds, WaitingSteps DEF AsksOnce
  <1>n. \A k \in 1..Len(queue) : queue[k].kind = "bye" => name'[queue[k].bot] = name[queue[k].bot]
    BY <1>t, <1>e, Kinds, NamesKept DEF Numbered
  <1>k. \A j, k \in 1..Len(queue) :
          j < k /\ queue[j].kind = "connect" /\ queue[k].kind = "bye"
            /\ step'[queue[j].conn] \in {"waiting", "expiring"}
            => name'[queue[k].bot] # Identity[queue[j].conn]
    BY <1>t, <1>w, <1>n DEF ByeFirst
  <1>1. CASE UNCHANGED queue
    BY <1>1, <1>k DEF ByeFirst
  <1>2. ASSUME NEW e \in Events, queue' = Append(queue, e),
               \A j \in 1..Len(queue) :
                 e.kind = "bye" /\ queue[j].kind = "connect"
                   /\ step'[queue[j].conn] \in {"waiting", "expiring"}
                   => name'[e.bot] # Identity[queue[j].conn]
        PROVE  ByeFirst'
    <2>1. /\ Len(queue') = Len(queue) + 1
          /\ \A k \in 1..Len(queue) : queue'[k] = queue[k]
          /\ queue'[Len(queue) + 1] = e
      BY <1>2, <1>s, Enqueue
    <2> SUFFICES ASSUME NEW j \in 1..Len(queue'), NEW k \in 1..Len(queue'), j < k,
                        queue'[j].kind = "connect", queue'[k].kind = "bye",
                        step'[queue'[j].conn] \in {"waiting", "expiring"}
                 PROVE  name'[queue'[k].bot] # Identity[queue'[j].conn]
      BY DEF ByeFirst
    <2>2. j \in 1..Len(queue) /\ queue'[j] = queue[j]
      BY <2>1, <1>s
    <2>3. CASE k \in 1..Len(queue)
      BY <2>1, <2>2, <2>3, <1>k
    <2>4. CASE k = Len(queue) + 1
      BY <2>1, <2>2, <2>4, <1>2
    <2> QED
      BY <2>1, <2>3, <2>4, <1>s
  <1>3. ASSUME NEW c \in Conns, Ask(c) PROVE ByeFirst'
    BY <1>2, <1>3, Kinds DEF Ask
  <1>4. ASSUME NEW c \in Conns, SendBye(c) PROVE ByeFirst'
    <2>1. step[c] = "leaving" /\ queue' = Append(queue, Bye(bot[c])) /\ UNCHANGED name
      BY <1>4 DEF SendBye, roomVars
    <2>2. bot[c] \in Ids /\ name[bot[c]] = Identity[c]
      BY <2>1, <1>t, <1>s DEF Named
    <2>3. ASSUME NEW j \in 1..Len(queue), queue[j].kind = "connect",
                 step'[queue[j].conn] \in {"waiting", "expiring"}
          PROVE  Identity[c] # Identity[queue[j].conn]
      <3>1. queue[j].conn \in Conns /\ step[queue[j].conn] \in {"waiting", "expiring"}
        BY <2>3, <1>w
      <3> QED
        BY <2>1, <3>1, <1>t DEF Exclusive, OneSessionPerIdentity, Holding
    <2> QED
      BY <1>2, <2>1, <2>2, <2>3, Kinds
  <1>5. CASE Crowd
    BY <1>2, <1>5, Kinds DEF Crowd
  <1>6. ASSUME queue # <<>>, queue' = Tail(queue) PROVE ByeFirst'
    <2>1. /\ Len(queue') = Len(queue) - 1
          /\ \A k \in 1..Len(queue') : queue'[k] = queue[k + 1]
      BY <1>6, <1>s, Dequeue
    <2>2. \A k \in 1..Len(queue') : k + 1 \in 1..Len(queue)
      BY <2>1, <1>s
    <2>3. \A j, k \in 1..Len(queue') : j < k => j + 1 < k + 1
      BY <2>1, <1>s
    <2> QED
      BY <2>1, <2>2, <2>3, <1>k DEF ByeFirst
  <1> QED
    BY <1>1, <1>3, <1>4, <1>5, <1>6, <1>t, QueueSteps DEF HandleConnect, HandleBye, HandleOther

\* Who speaks for b, apart from a disconnect in the queue.
Player(c, b) == bot[c] = b /\ step[c] \in {"live", "leaving"}
Promised(c, b) == reply[c] = Registered(b) /\ step[c] \in {"waiting", "expiring"}

LEMMA BackedStep ==
  ASSUME Inv, [Next]_vars
  PROVE  RosterIsBacked'
  <1> USE DEF Player, Promised, Queued, Contains
  <1>t. TypeOK /\ AsksOnce /\ Named /\ RosterIsBacked
    BY DEF Inv
  <1>s. /\ step \in [Conns -> Steps] /\ queue \in Seq(Events) /\ Len(queue) \in Nat
        /\ bot \in [Conns -> Ids \cup {NoBot}] /\ reply \in [Conns -> Replies]
        /\ roster \subseteq Ids
    BY <1>t DEF TypeOK
  <1>o. orphans \subseteq orphans'
    BY DEF Next, Connection, Handle, Acquire, CoolDown, Ask, Answered, TimesOut, DropReply, Leave,
           SendBye, GiveUpBye, Release, Crowd, HandleConnect, HandleBye, HandleOther, Kick,
           Start, Finish, BackToLobby, vars
  <1>b. ASSUME NEW b \in Connected, b \notin orphans
        PROVE  \/ \E c \in Conns : Player(c, b)
               \/ \E c \in Conns : Promised(c, b)
               \/ \E k \in 1..Len(queue) : queue[k] = Bye(b)
    BY <1>b, <1>t DEF RosterIsBacked
  <1>r. (\E c \in Conns : HandleConnect(c)) \/ Connected' \subseteq Connected
    BY <1>t
    DEF TypeOK, Next, Connection, Handle, Acquire, CoolDown, Ask, Answered, TimesOut, DropReply,
        Leave, SendBye, GiveUpBye, Release, Crowd, HandleBye, HandleOther, Kick, Drop, Connected,
        Start, Finish, BackToLobby, Remaining, vars, connVars, roomVars
  <1>1. ASSUME NEW b \in Connected, b \in Connected', b \notin orphans', NEW c \in Conns, Player(c, b)
        PROVE  (\E d \in Conns : Player(d, b)') \/ \E k \in 1..Len(queue') : queue'[k] = Bye(b)
    <2>1. CASE SendBye(c)
      <3>1. queue' = Append(queue, Bye(b))
        BY <2>1, <1>1 DEF SendBye
      <3>2. Len(queue') = Len(queue) + 1 /\ queue'[Len(queue) + 1] = Bye(b)
        BY <3>1, <1>1, <1>s, Kinds, Enqueue DEF Connected
      <3> QED
        BY <3>2, <1>s
    <2>2. CASE ~SendBye(c)
      <3>1. Player(c, b)'
        BY <2>2, <1>1, <1>s
        DEF Next, Connection, Handle, Acquire, CoolDown, Ask, Answered, TimesOut, DropReply, Leave,
            SendBye, GiveUpBye, Release, MayRelease, Crowd, HandleConnect, HandleBye, HandleOther, Kick,
            Start, Finish, BackToLobby, vars, connVars, roomVars
      <3> QED
        BY <3>1
    <2> QED
      BY <2>1, <2>2
  <1>2. ASSUME NEW b \in Connected, b \in Connected', b \notin orphans', NEW c \in Conns, Promised(c, b)
        PROVE  Player(c, b)' \/ Promised(c, b)'
    <2>k. reply[c].kind = "registered" /\ reply[c].bot = b /\ reply[c] # Nothing
      BY <1>2, <1>s, Kinds DEF Connected
    <2>1. ASSUME NEW d \in Conns, HandleConnect(d) PROVE d # c
      <3>1. queue # <<>> /\ Head(queue) = Connect(d)
        BY <2>1, ConnectSteps
      <3>2. 1 \in 1..Len(queue) /\ queue[1].kind = "connect" /\ queue[1].conn = d
        BY <3>1, <1>s, Kinds
      <3>3. reply[d] = Nothing
        BY <3>2, <1>t DEF AsksOnce, Positions, IsConnect
      <3> QED
        BY <3>3, <2>k
    <2>2. ASSUME NEW d \in Conns, HandleConnect(d) PROVE UNCHANGED <<step, bot>> /\ reply'[c] = reply[c]
      BY <2>1, <2>2, <1>s, ConnectSteps
    <2>3. CASE ~\E d \in Conns : HandleConnect(d)
      BY <2>3, <2>k, <1>2, <1>s
      DEF Next, Connection, Handle, Acquire, CoolDown, Ask, Answered, TimesOut, DropReply, Leave,
          SendBye, GiveUpBye, Release, MayRelease, Crowd, HandleBye, HandleOther, Kick,
          Start, Finish, BackToLobby, vars, connVars, roomVars
    <2> QED
      BY <2>2, <2>3, <1>2
  <1>3. ASSUME NEW b \in Connected, b \in Connected', b \notin orphans',
               NEW k \in 1..Len(queue), queue[k] = Bye(b)
        PROVE  \E j \in 1..Len(queue') : queue'[j] = Bye(b)
    <2>b. b \in Ids
      BY <1>s DEF Connected
    <2>1. ASSUME NEW e \in Events, queue' = Append(queue, e)
          PROVE  \E j \in 1..Len(queue') : queue'[j] = Bye(b)
      <3>1. Len(queue') = Len(queue) + 1 /\ queue'[k] = queue[k]
        BY <2>1, <1>s, Enqueue
      <3> QED
        BY <3>1, <1>3, <1>s
    <2>2. ASSUME queue # <<>>, queue' = Tail(queue), Head(queue) # Bye(b)
          PROVE  \E j \in 1..Len(queue') : queue'[j] = Bye(b)
      <3>1. /\ Len(queue') = Len(queue) - 1 /\ Head(queue) = queue[1]
            /\ \A j \in 1..Len(queue') : queue'[j] = queue[j + 1]
        BY <2>2, <1>s, Dequeue
      <3>2. k # 1
        BY <3>1, <2>2, <1>3
      <3>3. k - 1 \in 1..Len(queue') /\ queue'[k - 1] = queue[k]
        BY <3>1, <3>2, <1>s
      <3> QED
        BY <3>3, <1>3
    <2>3. HandleBye => Head(queue) # Bye(b)
      <3>1. HandleBye /\ Head(queue) = Bye(b) => b \notin Connected'
        BY <2>b, Kinds DEF HandleBye, Drop, Connected
      <3> QED
        BY <3>1, <1>3
    <2>4. (\E c \in Conns : HandleConnect(c)) \/ HandleOther => Head(queue) # Bye(b)
      BY <2>b, Kinds DEF HandleConnect, HandleOther
    <2>5. ASSUME NEW c \in Conns, SendBye(c) PROVE Bye(bot[c]) \in Events
      BY <2>5, <1>t, <1>s, Kinds DEF SendBye, Named
    <2>6. CASE UNCHANGED queue
      BY <2>6, <1>3
    <2> QED
      BY <2>1, <2>2, <2>3, <2>4, <2>5, <2>6, <1>t, Kinds, QueueSteps
      DEF Ask, SendBye, Crowd, HandleConnect, HandleBye, HandleOther
  <1>4. ASSUME NEW b \in Connected', b \notin Connected, b \notin orphans'
        PROVE  \E c \in Conns : Promised(c, b)'
    <2>1. PICK c \in Conns : HandleConnect(c)
      BY <1>4, <1>r
    <2>2. b = nextIndex /\ reply' = [reply EXCEPT ![c] = Registered(b)] /\ step[c] \in {"waiting", "expiring"}
      BY <2>1, <1>4, ConnectSteps DEF Connected
    <2>3. UNCHANGED step
      BY <2>1, ConnectSteps
    <2> QED
      BY <2>2, <2>3, <1>s
  <1>5. ASSUME NEW b \in Connected', b \notin orphans'
        PROVE  \/ \E c \in Conns : Player(c, b)'
               \/ \E c \in Conns : Promised(c, b)'
               \/ \E k \in 1..Len(queue') : queue'[k] = Bye(b)
    <2>1. CASE b \in Connected
      <3>1. b \notin orphans
        BY <1>5, <1>o
      <3> QED
        BY <2>1, <3>1, <1>b, <1>1, <1>2, <1>3, <1>5
    <2>2. CASE b \notin Connected
      BY <2>2, <1>4, <1>5
    <2> QED
      BY <2>1, <2>2
  <1> QED
    BY <1>5 DEF RosterIsBacked

-----------------------------------------------------------------------------
(* Theorems. *)

LEMMA InvStep == Inv /\ [Next]_vars => Inv'
  BY TypeStep, ExclusiveStep, AsksOnceStep, NumberedStep, BudgetStep, NamedStep, LobbyStep,
     ByeFirstStep, BackedStep
  DEF Inv

\* The invariant holds of every reachable state of connections and room.
THEOREM Invariance == Spec => []Inv
  BY Initially, InvStep, PTL DEF Spec

\* Connections, queue, replies and roster are always of their types; there is always an
\* id left for a bot that may still register.
THEOREM TypeCorrect == Spec => []TypeOK
  <1>1. Inv => TypeOK
    BY DEF Inv
  <1> QED
    BY <1>1, Invariance, PTL

\* Two connections never play under one identity at the same time (Participants::acquire
\* and Drop for Session).
THEOREM Exclusion == Spec => []OneSessionPerIdentity
  <1>1. Inv => OneSessionPerIdentity
    BY DEF Inv, Exclusive
  <1> QED
    BY <1>1, Invariance, PTL

\* Every bot the room takes for connected has a connection or a disconnect in the queue
\* behind it, unless a time-out gave the message up (register and handle_bot).
THEOREM Backing == Spec => []RosterIsBacked
  <1>1. Inv => RosterIsBacked
    BY DEF Inv
  <1> QED
    BY <1>1, Invariance, PTL

\* A registration that is refused as a duplicate meets a bot that has the name.
LEMMA RefusalMeetsName ==
  ASSUME Inv, [Next]_vars, NEW c \in Conns,
         reply[c] = Nothing, reply'[c] = Refused("duplicate_name")
  PROVE  /\ HandleConnect(c) /\ Delivered(c) /\ phase = "Lobby"
         /\ \E b \in roster : name[b] = Identity[c]
  <1>t. TypeOK
    BY DEF Inv
  <1>s. reply \in [Conns -> Replies]
    BY <1>t DEF TypeOK
  <1>k. reply'[c] # Nothing /\ \A b \in Ids : reply'[c] # Registered(b)
    BY DEF Refused, Nothing, Registered
  <1>1. PICK d \in Conns : HandleConnect(d)
    BY <1>k, <1>t, QueueSteps DEF Ask, SendBye, Crowd, HandleBye, HandleOther, connVars
  <1>2. d = c
    BY <1>1, <1>k, <1>s, ConnectSteps
  <1>3. nextIndex \in Ids
    BY <1>1, ConnectSteps
  <1>4. JoinError(Identity[c]) # "none" /\ Delivered(c) /\ reply'[c] = Refused(JoinError(Identity[c]))
    BY <1>1, <1>2, <1>3, <1>k, <1>s DEF HandleConnect
  <1>5. JoinError(Identity[c]) = "duplicate_name"
    BY <1>4 DEF Refused
  <1> QED
    BY <1>1, <1>2, <1>4, <1>5 DEF JoinError

LEMMA DuplicateStep ==
  ASSUME Inv, [Next]_vars, NEW c \in Conns,
         reply[c] = Nothing, reply'[c] = Refused("duplicate_name")
  PROVE  \E b \in roster \cap orphans : name[b] = Identity[c]
  <1>t. TypeOK /\ Exclusive /\ Named /\ LobbyIsWhole /\ ByeFirst /\ RosterIsBacked
    BY DEF Inv
  <1>s. /\ step \in [Conns -> Steps] /\ queue \in Seq(Events) /\ Len(queue) \in Nat
        /\ reply \in [Conns -> Replies] /\ roster \subseteq Ids
    BY <1>t DEF TypeOK
  <1>1. HandleConnect(c) /\ step[c] \in {"waiting", "expiring"} /\ phase = "Lobby"
    BY RefusalMeetsName DEF Delivered
  <1>2. PICK b \in roster : name[b] = Identity[c]
    BY RefusalMeetsName
  <1>3. b \in Connected /\ b \in Ids
    BY <1>1, <1>t, <1>s DEF Connected, LobbyIsWhole
  <1>4. SUFFICES ASSUME b \notin orphans PROVE FALSE
    BY <1>2
  <1>5. ASSUME NEW d \in Conns, name[b] = Identity[d], Holding(d) PROVE d = c
    BY <1>1, <1>2, <1>5, <1>t DEF Exclusive, OneSessionPerIdentity, Holding
  <1>6. CASE \E d \in Conns : bot[d] = b /\ step[d] \in {"live", "leaving"}
    <2>1. PICK d \in Conns : bot[d] = b /\ step[d] \in {"live", "leaving"}
      BY <1>6
    <2>2. name[b] = Identity[d] /\ Holding(d)
      BY <2>1, <1>t DEF Named, Holding
    <2> QED
      BY <2>1, <2>2, <1>5, <1>1
  <1>7. CASE \E d \in Conns : reply[d] = Registered(b) /\ step[d] \in {"waiting", "expiring"}
    <2>1. PICK d \in Conns : reply[d] = Registered(b) /\ step[d] \in {"waiting", "expiring"}
      BY <1>7
    <2>2. reply[d].kind = "registered" /\ reply[d].bot = b
      BY <2>1, <1>3, Kinds
    <2>3. name[b] = Identity[d] /\ Holding(d)
      BY <2>1, <2>2, <1>t DEF Named, Holding
    <2>4. d = c
      BY <2>3, <1>5
    <2> QED
      BY <2>2, <2>4, Kinds
  <1>8. CASE Queued(Bye(b))
    <2>1. PICK k \in 1..Len(queue) : queue[k] = Bye(b)
      BY <1>8 DEF Queued, Contains
    <2>2. queue[k].kind = "bye" /\ queue[k].bot = b
      BY <2>1, <1>3, Kinds
    <2>3. queue # <<>> /\ Head(queue) = Connect(c)
      BY <1>1 DEF HandleConnect
    <2>4. 1 \in 1..Len(queue) /\ queue[1].kind = "connect" /\ queue[1].conn = c
      BY <2>3, <1>s, Kinds
    <2>5. 1 < k
      BY <2>2, <2>4
    <2> QED
      BY <2>2, <2>4, <2>5, <1>1, <1>2, <1>t DEF ByeFirst, Positions, IsConnect, IsBye
  <1> QED
    BY <1>3, <1>4, <1>6, <1>7, <1>8, <1>t DEF RosterIsBacked

\* A reconnecting identity is refused as a duplicate only because of a bot whose
\* registration or disconnect was given up (acquire, register and validate_join).
THEOREM NoSelfCollision == Spec => DuplicateIsOrphan
  <1>1. Inv /\ [Next]_vars =>
          [\A c \in Conns :
             reply[c] = Nothing /\ reply'[c] = Refused("duplicate_name")
               => \E b \in roster \cap orphans : name[b] = Identity[c]]_vars
    BY DuplicateStep
  <1> QED
    BY <1>1, Invariance, PTL DEF Spec, DuplicateIsOrphan
=============================================================================
