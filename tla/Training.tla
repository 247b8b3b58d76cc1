------------------------------ MODULE Training ------------------------------
(***************************************************************************)
(* The training history (server/src/training.rs): sessions, their rounds   *)
(* and the trainer's notes, kept in memory by the room and in one file     *)
(* that every change replaces; the room starting and ending matches over   *)
(* it; administrators editing it from pages that may be out of date; and   *)
(* the server stopping at any moment.                                      *)
(*                                                                         *)
(* A write makes a temporary file, syncs it, renames it over the history   *)
(* and syncs the directory.  It may fail before the rename, or after it,   *)
(* when the new content is in place and the write is reported as failed.   *)
(* `copies` is what a restart may find: one content after a write that     *)
(* succeeded, more after one that failed late.  A restart settles which.   *)
(***************************************************************************)
EXTENDS Naturals, FiniteSets

CONSTANTS
  Sessions,      \* session identifiers (unique_suffix)
  Scores,        \* scoring rules
  Texts,         \* what the debriefs may say
  NoText,        \* no debriefs
  Clients,       \* administrators' pages
  SessionLimit,  \* 100
  RoundLimit,    \* 500
  MaxMatches,    \* bound: matches ever started
  MaxRevision    \* bound: revision up to which changes are made

NoSession == "none"
NoScore   == "none"

ASSUME TrainingAssumption ==
  /\ NoText \in Texts
  /\ NoSession \notin Sessions /\ NoScore \notin Scores
  /\ {SessionLimit, RoundLimit, MaxMatches, MaxRevision} \subseteq Nat

Matches == 1..MaxMatches

VARIABLES
  data, dirty, blocked,
  error,   \* storage_error is set
  copies,  \* contents of the file a restart may find
  phase, match, tag,
  view,    \* what each page shows: the data, and whether it came without an error
  edit     \* the last edit accepted (history)

storeVars == <<data, dirty, blocked, error, copies>>
roomVars  == <<phase, match, tag>>
vars == <<storeVars, roomVars, view, edit>>

NoEdit    == [made |-> FALSE]

\* TrainingData: a session exists when it has a scoring rule; its rounds are known by
\* the match they were played as.
Default == [revision |-> 0, active |-> NoSession,
            scoring |-> [s \in Sessions |-> NoScore],
            rounds |-> [s \in Sessions |-> [m \in Matches |-> "none"]],
            notes |-> NoText]

Exists(d, s) == d.scoring[s] # NoScore
Played(d, s) == {m \in Matches : d.rounds[s][m] # "none"}

Init ==
  /\ data = Default /\ dirty = FALSE /\ blocked = FALSE /\ error = FALSE
  /\ copies = {Default}
  /\ phase = "Lobby" /\ match = 0 /\ tag = NoSession
  /\ view = [c \in Clients |-> [data |-> Default, clean |-> TRUE]]
  /\ edit = NoEdit

-----------------------------------------------------------------------------
(* write, flush, commit *)

Outcomes == {"ok", "early", "late"}

Written_InPlace(cs, d, w) == IF w = "ok" THEN {d} ELSE {Default, d}
Written(cs, d, w) == IF w = "ok" THEN {d} ELSE IF w = "late" THEN cs \cup {d} ELSE cs

FlushFails(w) == blocked \/ (dirty /\ w # "ok")

\* The file after flush, which writes only what is dirty.
Flushed(w) == IF dirty /\ ~blocked THEN Written(copies, data, w) ELSE copies

\* An operation that begins with flush (outcome w) and does not reach commit.
FlushOnly(w) ==
  /\ copies' = Flushed(w)
  /\ dirty' = (dirty /\ FlushFails(w))
  /\ UNCHANGED <<data, blocked>>

\* One that goes on to commit `new` (outcome v): memory follows only a write that succeeded.
Committed(new, v) == IF v = "ok" THEN new ELSE data

FlushAndCommit(w, new, v) ==
  /\ ~FlushFails(w)
  /\ copies' = Written(Flushed(w), new, v)
  /\ dirty' = FALSE
  /\ data' = Committed(new, v)
  /\ UNCHANGED blocked

Bump(d) == [d EXCEPT !.revision = @ + 1]

-----------------------------------------------------------------------------
(* update *)

Created(d, s) == {[d EXCEPT !.active = s, !.scoring[s] = sc] : sc \in Scores}

Activated(d) ==
  {[d EXCEPT !.active = s] : s \in {t \in Sessions : Exists(d, t)} \cup {NoSession}}

\* The name, the expected teams and the next round's name are left out.
Lockable(d, sc) == Played(d, d.active) = {} \/ sc = d.scoring[d.active]

Configured(d) ==
  IF d.active = NoSession THEN {}
  ELSE {[d EXCEPT !.scoring[d.active] = sc] : sc \in {x \in Scores : Lockable(d, x)}}

Debriefed(d) == {[d EXCEPT !.notes = t] : t \in Texts}

\* What a request may make of the data; all but a debrief are for the lobby.
Changes(d) ==
  Debriefed(d) \cup
  (IF phase # "Lobby" THEN {}
   ELSE Activated(d) \cup Configured(d) \cup
        (IF Cardinality({s \in Sessions : Exists(d, s)}) < SessionLimit
         THEN UNION {Created(d, s) : s \in {t \in Sessions : ~Exists(d, t)}} ELSE {}))

\* The revision a request names is the one on the page it was written on.
Current_Unchecked(c) == TRUE
Current(c) == view[c].data.revision = data.revision

\* The answer to an accepted request is the new snapshot.
Accept(c, w, v) ==
  /\ data.revision < MaxRevision
  /\ Current(c)
  /\ \E new \in Changes(data) : FlushAndCommit(w, Bump(new), v)
  /\ error' = FALSE
  /\ IF v = "ok"
     THEN /\ edit' = [made |-> TRUE, seen |-> view[c].data, clean |-> view[c].clean, found |-> data]
          /\ view' = [view EXCEPT ![c] = [data |-> data', clean |-> TRUE]]
     ELSE UNCHANGED <<edit, view>>
  /\ UNCHANGED roomVars

\* A request refused before commit: storage, a stale revision, the lobby, a limit, or
\* what it asks for.
Refuse(w) ==
  /\ FlushOnly(w)
  /\ error' = (error /\ FlushFails(w))
  /\ UNCHANGED <<roomVars, view, edit>>

\* GET /api/training
Read(c) ==
  /\ view' = [view EXCEPT ![c] = [data |-> data, clean |-> ~error]]
  /\ UNCHANGED <<storeVars, roomVars, edit>>

-----------------------------------------------------------------------------
(* The room: start_match with begin, broadcast_game_over with finish. *)

Begun(m) == Bump([data EXCEPT !.rounds[data.active][m] = "running"])

\* begin refuses at its limit; the room then shows the refusal as storage_error.
StartRefused(w) ==
  /\ phase = "Lobby"
  /\ FlushFails(w) \/ (data.active # NoSession /\ Cardinality(Played(data, data.active)) >= RoundLimit)
  /\ FlushOnly(w)
  /\ error' = TRUE
  /\ UNCHANGED <<roomVars, view, edit>>

StartUntagged(w) ==
  /\ phase = "Lobby" /\ match < MaxMatches
  /\ ~FlushFails(w) /\ data.active = NoSession
  /\ FlushOnly(w)
  /\ error' = FALSE
  /\ phase' = "Running" /\ match' = match + 1 /\ tag' = NoSession
  /\ UNCHANGED <<view, edit>>

StartTagged(w, v) ==
  /\ phase = "Lobby" /\ match < MaxMatches
  /\ data.revision < MaxRevision
  /\ data.active # NoSession
  /\ Cardinality(Played(data, data.active)) < RoundLimit
  /\ FlushAndCommit(w, Begun(match + 1), v)
  /\ match' = match + 1  \* identifiers are not used twice
  /\ IF v = "ok"
     THEN phase' = "Running" /\ tag' = data.active /\ error' = FALSE
     ELSE UNCHANGED <<phase, tag>> /\ error' = TRUE
  /\ UNCHANGED <<view, edit>>

\* finish keeps the report in memory, and flushes it.
Finished == Bump([data EXCEPT !.rounds[tag][match] = "finished"])

FinishFails_Silent(w) == FALSE
FinishFails(w) == w # "ok"

MatchEnds(w) ==
  /\ phase = "Running"
  /\ phase' = "Ended"
  /\ IF tag = NoSession
     THEN UNCHANGED storeVars
     ELSE /\ data' = Finished
          /\ copies' = Written(copies, data', w)
          /\ dirty' = FinishFails(w) /\ error' = FinishFails(w)
          /\ UNCHANGED blocked
  /\ UNCHANGED <<match, tag, view, edit>>

BackToLobby ==
  /\ phase = "Ended"
  /\ phase' = "Lobby"
  /\ UNCHANGED <<storeVars, match, tag, view, edit>>

-----------------------------------------------------------------------------
(* load *)

HasRunning(d) == \E s \in Sessions, m \in Matches : d.rounds[s][m] = "running"

Loaded_AsIs(d) == d
Loaded(d) ==
  IF ~HasRunning(d) THEN d
  ELSE Bump([d EXCEPT !.rounds =
         [s \in Sessions |-> [m \in Matches |->
            IF @[s][m] = "running" THEN "interrupted" ELSE @[s][m]]]])

\* The server stops, whatever it was doing, and starts again.  A history it cannot
\* read, or of another version, blocks the store and is left as it is.
Restart(d, readable, w) ==
  /\ d \in copies
  /\ IF readable
     THEN /\ data' = Loaded(d)
          /\ copies' = IF HasRunning(d) THEN Written({d}, data', w) ELSE {d}
          /\ dirty' = (HasRunning(d) /\ w # "ok") /\ error' = dirty' /\ blocked' = FALSE
     ELSE /\ data' = Default /\ copies' = {d}
          /\ dirty' = FALSE /\ error' = TRUE /\ blocked' = TRUE
  /\ phase' = "Lobby" /\ tag' = NoSession
  /\ UNCHANGED <<match, view, edit>>

Next ==
  \/ \E c \in Clients : Read(c)
  \/ \E w \in Outcomes :
       \/ Refuse(w) \/ StartRefused(w) \/ StartUntagged(w) \/ MatchEnds(w)
       \/ \E v \in Outcomes : StartTagged(w, v) \/ \E c \in Clients : Accept(c, w, v)
       \/ \E d \in copies, readable \in BOOLEAN : Restart(d, readable, w)
  \/ BackToLobby

Spec == Init /\ [][Next]_vars

-----------------------------------------------------------------------------
(* Properties *)

RoundStatus == {"none", "running", "finished", "interrupted"}

Data == [revision : Nat, active : Sessions \cup {NoSession},
         scoring : [Sessions -> Scores \cup {NoScore}],
         rounds : [Sessions -> [Matches -> RoundStatus]],
         notes : Texts]

TypeOK ==
  /\ data \in Data /\ copies \subseteq Data
  /\ data.active # NoSession => Exists(data, data.active)
  /\ dirty \in BOOLEAN /\ blocked \in BOOLEAN /\ error \in BOOLEAN
  /\ phase \in {"Lobby", "Running", "Ended"} /\ match \in 0..MaxMatches
  /\ tag \in Sessions \cup {NoSession}
  /\ view \in [Clients -> [data : Data, clean : BOOLEAN]]

\* d is what became of e: the sessions and rounds of e are in d, and a session with
\* a round keeps its scoring.
Descends(d, e) ==
  \A s \in Sessions :
    /\ Exists(e, s) => Exists(d, s)
    /\ Played(e, s) \subseteq Played(d, s)
    /\ Played(e, s) # {} => d.scoring[s] = e.scoring[s]

\* The sessions and rounds the server acknowledged survive a stop at any moment,
\* whichever writes failed, early or late, before it (commit: write, then memory).
AcknowledgedSurvives == \A d \in copies : Descends(d, data)

\* The history only grows, across restarts too: no acknowledged session or round is
\* lost, and the points of a session are not changed once it has a round, even by a
\* refused change that a late failure left in the file.
HistoryGrows == [][~blocked' => Descends(data', data)]_vars

\* A report is safe when no storage error is shown: then every copy a restart may
\* find has it (finish, and the retry in flush).
ReportSurvives ==
  ~error => \A d \in copies, s \in Sessions, m \in Matches :
              data.rounds[s][m] = "finished" => d.rounds[s][m] = "finished"

\* An edit made on a page that showed no storage error is accepted only on the data
\* that page showed, whatever other pages, matches, failed writes and restarts did
\* in between: a revision is never used again for other data.
EditSawData == edit # NoEdit /\ edit.clean => edit.seen = edit.found

\* A round is running in the history exactly while its match is: a stopped server,
\* a refused start or a failed save leaves none behind.
RunningRoundIsPlayed ==
  \A s \in Sessions, m \in Matches :
    data.rounds[s][m] = "running" <=> phase = "Running" /\ tag = s /\ match = m

\* A history the server could not read is not overwritten.
UnreadableIsKept == [][blocked /\ blocked' => copies' = copies]_vars

\* docs/PROTOCOL.md: every write includes the revision of the data being edited, and
\* a stale revision is refused.
StaleEditRefused == edit # NoEdit => edit.seen = edit.found
=============================================================================
