--------------------------- MODULE TrainingProofs ---------------------------
(***************************************************************************)
(* Proofs about Training, for any number of sessions, rounds, pages,       *)
(* failed writes and restarts.  The invariant relates what is in memory,   *)
(* what the file may hold and what the pages show through the revision:    *)
(* Newer(e, d) says that a page which showed d sees e as an edit or as d.   *)
(***************************************************************************)
EXTENDS Training, TLAPS

Newer(e, d) == d.revision <= e.revision /\ (d.revision = e.revision => d = e)

\* The active session exists, and so does every session with rounds.
Sound(d) ==
  /\ d \in Data
  /\ d.active # NoSession => Exists(d, d.active)
  /\ \A s \in Sessions : Played(d, s) # {} => Exists(d, s)

Typed ==
  /\ dirty \in BOOLEAN /\ blocked \in BOOLEAN /\ error \in BOOLEAN
  /\ phase \in {"Lobby", "Running", "Ended"} /\ match \in 0..MaxMatches
  /\ phase # "Lobby" => match \in Matches
  /\ tag \in Sessions \cup {NoSession}
  /\ view \in [Clients -> [data : Data, clean : BOOLEAN]]

AllSound == Sound(data) /\ \A d \in copies : Sound(d)

\* A match not yet played has no round anywhere.
PastOnly(d) == \A s \in Sessions, m \in Matches : m > match => d.rounds[s][m] = "none"
PastMatches == PastOnly(data) /\ \A d \in copies : PastOnly(d)

\* What an unsaved or unreadable history shows.
ErrorShown == (dirty => error /\ ~blocked) /\ (blocked => error /\ data = Default)

FileAhead == ~dirty /\ ~blocked => \A d \in copies : Newer(d, data)

KeepsReports(e, d) ==
  \A s \in Sessions, m \in Matches : d.rounds[s][m] = "finished" => e.rounds[s][m] = "finished"
FileHasReports == ~dirty => \A d \in copies : KeepsReports(d, data)

PageBehind(c) ==
  view[c].clean => /\ \A d \in copies : Newer(d, view[c].data)
                   /\ ~blocked => Newer(data, view[c].data)
PagesBehind == \A c \in Clients : PageBehind(c)

Stored == AllSound /\ PastMatches /\ AcknowledgedSurvives /\ FileAhead /\ FileHasReports

Inv == Typed /\ ErrorShown /\ Stored /\ PagesBehind /\ RunningRoundIsPlayed

-----------------------------------------------------------------------------
(* The operations on the data. *)

\* e is what one operation makes of d: the next revision, and nothing of d lost.
Succeeds(e, d) ==
  /\ Sound(e) /\ e.revision = d.revision + 1
  /\ Descends(e, d)
  /\ KeepsReports(e, d)

\* Descends is reflexive and transitive.
LEMMA DescendsReflexive == \A d : Descends(d, d)
  BY DEF Descends

LEMMA DescendsTransitive ==
  ASSUME NEW f, NEW e, NEW d, Descends(f, e), Descends(e, d)
  PROVE  Descends(f, d)
  <1> SUFFICES ASSUME NEW s \in Sessions
               PROVE  /\ Exists(d, s) => Exists(f, s)
                      /\ Played(d, s) \subseteq Played(f, s)
                      /\ Played(d, s) # {} => f.scoring[s] = d.scoring[s]
    BY DEF Descends
  <1>1. /\ Exists(d, s) => Exists(e, s)
        /\ Played(d, s) \subseteq Played(e, s)
        /\ Played(d, s) # {} => e.scoring[s] = d.scoring[s]
    BY DEF Descends
  <1>2. /\ Exists(e, s) => Exists(f, s)
        /\ Played(e, s) \subseteq Played(f, s)
        /\ Played(e, s) # {} => f.scoring[s] = e.scoring[s]
    BY DEF Descends
  <1> QED
    BY <1>1, <1>2

\* A later revision may replace an earlier one.
LEMMA NewerStep ==
  ASSUME NEW d \in Data, NEW e \in Data, NEW f \in Data, Newer(e, d),
         f.revision = e.revision + 1
  PROVE  Newer(f, d)
  BY DEF Newer, Data

\* An operation that leaves the rounds alone succeeds if it deletes no session and
\* respects the lock on the scoring.
LEMMA SettingsSucceed ==
  ASSUME NEW d, NEW e, Sound(d), e \in Data, e.revision = d.revision + 1,
         e.rounds = d.rounds,
         e.active # NoSession => Exists(e, e.active),
         \A s \in Sessions : Exists(d, s) => Exists(e, s),
         \A s \in Sessions : Played(d, s) # {} => e.scoring[s] = d.scoring[s]
  PROVE  Succeeds(e, d)
  <1>1. \A s \in Sessions : Played(e, s) = Played(d, s)
    BY DEF Played
  <1> QED
    BY <1>1 DEF Succeeds, Sound, Descends, KeepsReports

\* What an accepted request makes of the data (update).
LEMMA ChangeSucceeds ==
  ASSUME Sound(data), NEW new \in Changes(data)
  PROVE  Succeeds(Bump(new), data) /\ Bump(new).rounds = data.rounds
  <1> SUFFICES ASSUME NEW e, e = Bump(new)
               PROVE  Succeeds(e, data) /\ e.rounds = data.rounds
    OBVIOUS
  <1>1. CASE new \in Debriefed(data)
    <2>1. /\ e \in Data /\ e.revision = data.revision + 1 /\ e.rounds = data.rounds
          /\ e.active = data.active /\ e.scoring = data.scoring
      BY <1>1 DEF Debriefed, Bump, Data, Sound
    <2> QED
      BY <2>1, SettingsSucceed DEF Exists, Sound
  <1>2. CASE new \in Activated(data)
    <2>1. PICK s \in {t \in Sessions : Exists(data, t)} \cup {NoSession} :
            new = [data EXCEPT !.active = s]
      BY <1>2 DEF Activated
    <2>2. /\ new \in Data /\ new.revision = data.revision /\ new.rounds = data.rounds
          /\ new.active = s /\ new.scoring = data.scoring
      BY <2>1 DEF Data, Sound
    <2>3. /\ e \in Data /\ e.revision = data.revision + 1 /\ e.rounds = data.rounds
          /\ e.active = s /\ e.scoring = data.scoring
      BY <2>2 DEF Bump, Data
    <2> QED
      BY <2>1, <2>3, SettingsSucceed DEF Exists, Sound
  <1>3. CASE new \in Configured(data)
    <2>1. /\ data.active # NoSession
          /\ \E sc \in Scores : Lockable(data, sc) /\ new = [data EXCEPT !.scoring[data.active] = sc]
      BY <1>3 DEF Configured
    <2>2. PICK sc \in Scores : Lockable(data, sc) /\ new = [data EXCEPT !.scoring[data.active] = sc]
      BY <2>1
    <2>3. data.active \in Sessions
      BY <2>1 DEF Sound, Data
    <2>4. /\ e \in Data /\ e.revision = data.revision + 1 /\ e.rounds = data.rounds
          /\ e.active = data.active /\ e.scoring = [data.scoring EXCEPT ![data.active] = sc]
      <3>1. /\ new \in Data /\ new.revision = data.revision /\ new.rounds = data.rounds
            /\ new.active = data.active
            /\ new.scoring = [data.scoring EXCEPT ![data.active] = sc]
        BY <2>2, <2>3 DEF Data, Sound
      <3> QED
        BY <3>1 DEF Bump, Data
    <2>5. data.scoring \in [Sessions -> Scores \cup {NoScore}]
      BY DEF Sound, Data
    <2>6. \A s \in Sessions : Exists(data, s) => Exists(e, s)
      BY <2>4, <2>5, TrainingAssumption DEF Exists
    <2>7. \A s \in Sessions : Played(data, s) # {} => e.scoring[s] = data.scoring[s]
      BY <2>2, <2>4, <2>5 DEF Lockable
    <2>8. e.active # NoSession => Exists(e, e.active)
      BY <2>3, <2>4, <2>6 DEF Sound
    <2> QED
      BY <2>4, <2>6, <2>7, <2>8, SettingsSucceed
  <1>4. ASSUME NEW s \in Sessions, ~Exists(data, s), new \in Created(data, s)
        PROVE  Succeeds(e, data) /\ e.rounds = data.rounds
    <2>1. PICK sc \in Scores : new = [data EXCEPT !.active = s, !.scoring[s] = sc]
      BY <1>4 DEF Created
    <2>2. /\ e \in Data /\ e.revision = data.revision + 1 /\ e.rounds = data.rounds
          /\ e.active = s /\ e.scoring = [data.scoring EXCEPT ![s] = sc]
      <3>1. /\ new \in Data /\ new.revision = data.revision /\ new.rounds = data.rounds
            /\ new.active = s /\ new.scoring = [data.scoring EXCEPT ![s] = sc]
        BY <2>1 DEF Data, Sound
      <3> QED
        BY <3>1 DEF Bump, Data
    <2>3. data.scoring \in [Sessions -> Scores \cup {NoScore}]
      BY DEF Sound, Data
    <2>4. \A t \in Sessions : Exists(data, t) => Exists(e, t)
      BY <2>2, <2>3, TrainingAssumption DEF Exists
    <2>5. \A t \in Sessions : Played(data, t) # {} => e.scoring[t] = data.scoring[t]
      BY <1>4, <2>2, <2>3 DEF Sound
    <2>6. Exists(e, s)
      BY <2>2, <2>3, TrainingAssumption DEF Exists
    <2> QED
      BY <2>2, <2>4, <2>5, <2>6, SettingsSucceed
  <1> QED
    BY <1>1, <1>2, <1>3, <1>4 DEF Changes

\* What starting a match makes of it (begin).
LEMMA BegunSucceeds ==
  ASSUME Sound(data), data.active # NoSession, NEW m \in Matches,
         data.rounds[data.active][m] = "none"
  PROVE  /\ Succeeds(Begun(m), data)
         /\ \A s \in Sessions, t \in Matches :
              Begun(m).rounds[s][t] = IF s = data.active /\ t = m THEN "running" ELSE data.rounds[s][t]
  <1> SUFFICES ASSUME NEW e, e = Begun(m)
               PROVE  /\ Succeeds(e, data)
                      /\ \A s \in Sessions, t \in Matches :
                           e.rounds[s][t] = IF s = data.active /\ t = m THEN "running" ELSE data.rounds[s][t]
    OBVIOUS
  <1>1. data.active \in Sessions /\ data \in Data
    BY DEF Sound, Data
  <1>2. PICK new : new = [data EXCEPT !.rounds[data.active][m] = "running"] /\ e = Bump(new)
    BY DEF Begun
  <1>3. /\ e = Bump(new) /\ new \in Data
        /\ new.revision = data.revision /\ new.active = data.active
        /\ new.scoring = data.scoring
        /\ new.rounds = [data.rounds EXCEPT ![data.active][m] = "running"]
    BY <1>1, <1>2 DEF Data, RoundStatus
  <1>4. /\ e \in Data /\ e.revision = data.revision + 1 /\ e.active = data.active
        /\ e.scoring = data.scoring /\ e.rounds = [data.rounds EXCEPT ![data.active][m] = "running"]
    BY <1>3 DEF Bump, Data
  <1>5. \A s \in Sessions, t \in Matches :
          e.rounds[s][t] = IF s = data.active /\ t = m THEN "running" ELSE data.rounds[s][t]
    BY <1>1, <1>4 DEF Data
  <1>6. \A s \in Sessions : Played(data, s) \subseteq Played(e, s)
    BY <1>5 DEF Played
  <1>7. \A s \in Sessions : s # data.active => Played(e, s) = Played(data, s)
    BY <1>5 DEF Played
  <1>8. Sound(e)
    BY <1>1, <1>4, <1>7 DEF Sound, Exists
  <1>9. Descends(e, data)
    BY <1>4, <1>6 DEF Descends, Exists
  <1>10. KeepsReports(e, data)
    BY <1>5 DEF KeepsReports
  <1> QED
    BY <1>4, <1>5, <1>8, <1>9, <1>10 DEF Succeeds

\* What ending one makes of it (finish): the same rounds, one of them finished.
LEMMA FinishedSucceeds ==
  ASSUME Sound(data), tag \in Sessions, match \in Matches, data.rounds[tag][match] = "running"
  PROVE  /\ Succeeds(Finished, data) /\ Descends(data, Finished)
         /\ \A s \in Sessions, t \in Matches :
              Finished.rounds[s][t] = IF s = tag /\ t = match THEN "finished" ELSE data.rounds[s][t]
  <1> SUFFICES ASSUME NEW e, e = Finished
               PROVE  /\ Succeeds(e, data) /\ Descends(data, e)
                      /\ \A s \in Sessions, t \in Matches :
                           e.rounds[s][t] = IF s = tag /\ t = match THEN "finished" ELSE data.rounds[s][t]
    OBVIOUS
  <1>1. data \in Data
    BY DEF Sound
  <1>2. PICK new : new = [data EXCEPT !.rounds[tag][match] = "finished"] /\ e = Bump(new)
    BY DEF Finished
  <1>3. /\ e = Bump(new) /\ new \in Data
        /\ new.revision = data.revision /\ new.active = data.active
        /\ new.scoring = data.scoring
        /\ new.rounds = [data.rounds EXCEPT ![tag][match] = "finished"]
    BY <1>1, <1>2 DEF Data, RoundStatus
  <1>4. /\ e \in Data /\ e.revision = data.revision + 1 /\ e.active = data.active
        /\ e.scoring = data.scoring /\ e.rounds = [data.rounds EXCEPT ![tag][match] = "finished"]
    BY <1>3 DEF Bump, Data
  <1>5. \A s \in Sessions, t \in Matches :
          e.rounds[s][t] = IF s = tag /\ t = match THEN "finished" ELSE data.rounds[s][t]
    BY <1>1, <1>4 DEF Data
  <1>6. \A s \in Sessions : Played(e, s) = Played(data, s)
    BY <1>5 DEF Played
  <1>7. Sound(e) /\ Descends(e, data) /\ Descends(data, e)
    BY <1>1, <1>4, <1>6 DEF Sound, Exists, Descends
  <1>8. KeepsReports(e, data)
    BY <1>5 DEF KeepsReports
  <1> QED
    BY <1>4, <1>5, <1>7, <1>8 DEF Succeeds

\* What loading makes of a file: the same rounds, none of them running.
LEMMA LoadedSucceeds ==
  ASSUME NEW d, Sound(d)
  PROVE  /\ Sound(Loaded(d)) /\ Descends(Loaded(d), d) /\ Descends(d, Loaded(d))
         /\ IF HasRunning(d) THEN Loaded(d).revision = d.revision + 1 ELSE Loaded(d) = d
         /\ \A s \in Sessions, m \in Matches :
              Loaded(d).rounds[s][m] = IF d.rounds[s][m] = "running" THEN "interrupted" ELSE d.rounds[s][m]
  <1>1. CASE ~HasRunning(d)
    <2>1. Loaded(d) = d
      BY <1>1 DEF Loaded
    <2> QED
      BY <1>1, <2>1, DescendsReflexive DEF HasRunning
  <1>2. CASE HasRunning(d)
    <2> SUFFICES ASSUME NEW e, e = Loaded(d)
                 PROVE  /\ Sound(e) /\ Descends(e, d) /\ Descends(d, e)
                        /\ e.revision = d.revision + 1
                        /\ \A s \in Sessions, m \in Matches :
                             e.rounds[s][m] = IF d.rounds[s][m] = "running" THEN "interrupted"
                                              ELSE d.rounds[s][m]
      BY <1>2
    <2>1. d \in Data
      BY DEF Sound
    <2>2. PICK new : /\ new = [d EXCEPT !.rounds = [s \in Sessions |-> [m \in Matches |->
                          IF @[s][m] = "running" THEN "interrupted" ELSE @[s][m]]]]
                     /\ e = Bump(new)
      BY <1>2 DEF Loaded
    <2>3. /\ e = Bump(new) /\ new \in Data
          /\ new.revision = d.revision /\ new.active = d.active
          /\ new.scoring = d.scoring
          /\ new.rounds = [s \in Sessions |-> [m \in Matches |->
                          IF d.rounds[s][m] = "running" THEN "interrupted" ELSE d.rounds[s][m]]]
      BY <2>1, <2>2 DEF Data, RoundStatus
    <2>4. /\ e \in Data /\ e.revision = d.revision + 1 /\ e.active = d.active
          /\ e.scoring = d.scoring /\ e.rounds = new.rounds
      BY <2>3 DEF Bump, Data
    <2>5. \A s \in Sessions, m \in Matches :
            e.rounds[s][m] = IF d.rounds[s][m] = "running" THEN "interrupted" ELSE d.rounds[s][m]
      BY <2>3, <2>4
    <2>6. \A s \in Sessions : Played(e, s) = Played(d, s)
      BY <2>5 DEF Played
    <2> QED
      BY <2>1, <2>4, <2>5, <2>6 DEF Sound, Exists, Descends
  <1> QED
    BY <1>1, <1>2

-----------------------------------------------------------------------------
(* The store: what flush and commit do to the file and the memory. *)

\* What the file may hold after flush.
LEMMA FlushLeaves ==
  ASSUME NEW w \in Outcomes, Typed, ErrorShown
  PROVE  /\ \A d \in Flushed(w) : d \in copies \/ (d = data /\ ~blocked)
         /\ ~FlushFails(w) => ~blocked /\ (Flushed(w) = {data} \/ (~dirty /\ Flushed(w) = copies))
         /\ FlushFails(w) /\ ~dirty => Flushed(w) = copies
  BY DEF Flushed, Written, FlushFails, Outcomes, Typed, ErrorShown

\* The rounds of a match that is over stay past when the next one starts.
LEMMA PastStaysPast ==
  ASSUME NEW d, PastOnly(d), match \in Nat, match' \in Nat, match' >= match
  PROVE  \A s \in Sessions, m \in Matches : m > match' => d.rounds[s][m] = "none"
  BY DEF PastOnly, Matches

LEMMA FlushOnlyKeeps ==
  ASSUME Inv, NEW w \in Outcomes, FlushOnly(w), UNCHANGED view,
         match' \in Nat, match' >= match
  PROVE  Stored' /\ PagesBehind'
  <1> USE DEF Inv, Stored
  <1>1. /\ \A d \in copies' : d \in copies \/ (d = data /\ ~blocked)
        /\ data' = data /\ blocked' = blocked
        /\ ~dirty' => copies' = {data} \/ (~dirty /\ copies' = copies)
    BY FlushLeaves DEF FlushOnly, Typed
  <1>2. AllSound'
    BY <1>1 DEF AllSound, Sound, Exists, Played
  <1>3. PastMatches'
    <2>1. match \in Nat
      BY TrainingAssumption DEF Typed
    <2> QED
      BY <1>1, <2>1, PastStaysPast DEF PastMatches, PastOnly
  <1>4. AcknowledgedSurvives'
    BY <1>1, DescendsReflexive DEF AcknowledgedSurvives, Descends, Exists, Played
  <1>5. FileAhead'
    BY <1>1 DEF FileAhead, Newer, AllSound, Sound, Data
  <1>6. FileHasReports'
    BY <1>1 DEF FileHasReports, KeepsReports
  <1>7. PagesBehind'
    BY <1>1 DEF PagesBehind, PageBehind, Newer
  <1> QED
    BY <1>2, <1>3, <1>4, <1>5, <1>6, <1>7

LEMMA CommitKeeps ==
  ASSUME Inv, NEW w \in Outcomes, NEW v \in Outcomes, NEW new,
         Succeeds(new, data), FlushAndCommit(w, new, v),
         match' \in Nat, match' >= match,
         \A s \in Sessions, m \in Matches : m > match' => new.rounds[s][m] = "none"
  PROVE  /\ Stored' /\ ~dirty' /\ ~blocked'
         /\ \A c \in Clients : view'[c] = view[c] => PageBehind(c)'
         /\ v = "ok" => data' = new /\ copies' = {new}
         /\ v # "ok" => data' = data
  <1> USE DEF Inv, Stored
  <1>1. /\ \A d \in copies' : d \in copies \/ d = data \/ d = new
        /\ ~dirty' /\ ~blocked /\ ~blocked'
        /\ v = "ok" => data' = new /\ copies' = {new}
        /\ v # "ok" => /\ data' = data
                       /\ \A d \in copies' : d = data \/ d = new \/ (~dirty /\ d \in copies)
    BY FlushLeaves DEF FlushAndCommit, Written, Committed, Outcomes
  <1>2. Sound(new) /\ Sound(data) /\ \A d \in copies : Sound(d)
    BY DEF Succeeds, AllSound
  <1>3. AllSound'
    BY <1>1, <1>2 DEF AllSound, Sound, Exists, Played
  <1>4. PastMatches'
    <2>1. match \in Nat
      BY TrainingAssumption DEF Typed
    <2> QED
      BY <1>1, <2>1, PastStaysPast DEF PastMatches, PastOnly
  <1>5. Newer(new, data) /\ Newer(data, data) /\ Newer(new, new)
    BY <1>2 DEF Succeeds, Newer, Sound, Data
  <1>6. AcknowledgedSurvives'
    <2>1. Descends(new, data) /\ Descends(data, data) /\ Descends(new, new)
      BY DescendsReflexive DEF Succeeds
    <2> QED
      BY <1>1, <2>1 DEF AcknowledgedSurvives, Descends, Exists, Played
  <1>7. FileAhead'
    BY <1>1, <1>5 DEF FileAhead, Newer
  <1>8. FileHasReports'
    BY <1>1 DEF FileHasReports, KeepsReports, Succeeds
  <1>9. ASSUME NEW c \in Clients, view'[c] = view[c], view[c].clean
        PROVE  (\A d \in copies' : Newer(d, view[c].data)) /\ Newer(data', view[c].data)
    <2>1. view[c].data \in Data
      BY DEF Typed
    <2>2. Newer(data, view[c].data) /\ \A d \in copies : Newer(d, view[c].data)
      BY <1>1, <1>9 DEF PagesBehind, PageBehind
    <2>3. Newer(new, view[c].data)
      BY <1>2, <2>1, <2>2, NewerStep DEF Succeeds, Sound
    <2> QED
      BY <1>1, <2>2, <2>3
  <1>10. \A c \in Clients : view'[c] = view[c] => PageBehind(c)'
    BY <1>9 DEF PageBehind, Newer
  <1> QED
    BY <1>1, <1>3, <1>4, <1>6, <1>7, <1>8, <1>10

-----------------------------------------------------------------------------
(* Every step keeps the invariant. *)

LEMMA InitInv == Init => Inv
  <1> SUFFICES ASSUME Init PROVE Inv
    OBVIOUS
  <1> USE DEF Init
  <1>1. Default \in Data /\ Default.revision = 0 /\ Default.active = NoSession
        /\ \A s \in Sessions, m \in Matches : Default.rounds[s][m] = "none"
    BY TrainingAssumption DEF Default, Data, RoundStatus
  <1>2. \A s \in Sessions : Played(Default, s) = {}
    BY <1>1 DEF Played
  <1>3. Sound(Default)
    BY <1>1, <1>2 DEF Sound
  <1>4. Typed /\ ErrorShown
    <2>1. view \in [Clients -> [data : Data, clean : BOOLEAN]]
      BY <1>1
    <2>2. match \in 0..MaxMatches
      BY TrainingAssumption
    <2> QED
      BY <2>1, <2>2 DEF Typed, ErrorShown
  <1>5. Stored
    <2>1. AllSound /\ PastMatches
      BY <1>1, <1>3 DEF AllSound, PastMatches, PastOnly
    <2>2. AcknowledgedSurvives
      BY DescendsReflexive DEF AcknowledgedSurvives
    <2>3. FileAhead
      BY <1>1 DEF FileAhead, Newer
    <2>4. FileHasReports
      BY DEF FileHasReports, KeepsReports
    <2> QED
      BY <2>1, <2>2, <2>3, <2>4 DEF Stored
  <1>6. PagesBehind
    BY <1>1 DEF PagesBehind, PageBehind, Newer
  <1>7. RunningRoundIsPlayed
    BY <1>1 DEF RunningRoundIsPlayed
  <1> QED
    BY <1>4, <1>5, <1>6, <1>7 DEF Inv

\* Restart, from any copy of the file.
LEMMA RestartKeeps ==
  ASSUME Inv, NEW d \in copies, NEW readable \in BOOLEAN, NEW w \in Outcomes,
         Restart(d, readable, w)
  PROVE  Inv' /\ (~blocked' => Descends(data', data))
  <1> USE DEF Inv, Stored
  <1> DEFINE e == Loaded(d)
  <1>1. Sound(d) /\ PastOnly(d) /\ Descends(d, data)
    BY DEF AllSound, PastMatches, AcknowledgedSurvives
  <1>2. /\ Sound(e) /\ Descends(e, d) /\ Descends(d, e)
        /\ IF HasRunning(d) THEN e.revision = d.revision + 1 ELSE e = d
        /\ \A s \in Sessions, m \in Matches :
             e.rounds[s][m] = IF d.rounds[s][m] = "running" THEN "interrupted" ELSE d.rounds[s][m]
    BY <1>1, LoadedSucceeds
  <1>3. UNCHANGED <<match, view, edit>> /\ phase' = "Lobby" /\ tag' = NoSession
    BY DEF Restart
  <1>4. match \in Nat
    BY TrainingAssumption DEF Typed
  <1> HIDE DEF e
  <1>5. CASE readable
    <2>1. /\ data' = e /\ blocked' = FALSE
          /\ \A f \in copies' : f = d \/ f = e
          /\ dirty' \in BOOLEAN /\ error' = dirty'
          /\ ~dirty' => copies' = {e}
      <3>1. CASE HasRunning(d)
        BY <1>5, <3>1 DEF Restart, Written, Outcomes, e
      <3>2. CASE ~HasRunning(d)
        BY <1>2, <1>5, <3>2 DEF Restart, e
      <3> QED
        BY <3>1, <3>2
    <2>2. Typed' /\ ErrorShown'
      BY <1>3, <2>1 DEF Typed, ErrorShown
    <2>3. AllSound'
      BY <1>1, <1>2, <2>1 DEF AllSound, Sound, Exists, Played
    <2>4. PastMatches'
      <3>1. \A s \in Sessions, m \in Matches : m > match => e.rounds[s][m] = "none" /\ d.rounds[s][m] = "none"
        BY <1>1, <1>2 DEF PastOnly
      <3> QED
        BY <1>3, <2>1, <3>1 DEF PastMatches, PastOnly
    <2>5. AcknowledgedSurvives'
      BY <1>2, <2>1, DescendsReflexive DEF AcknowledgedSurvives, Descends, Exists, Played
    <2>6. FileAhead' /\ FileHasReports'
      BY <1>2, <2>1 DEF FileAhead, FileHasReports, KeepsReports, Newer, Sound, Data
    <2>7. PagesBehind'
      <3> SUFFICES ASSUME NEW c \in Clients, view[c].clean
                   PROVE  (\A f \in copies' : Newer(f, view[c].data)) /\ Newer(data', view[c].data)
        BY <1>3 DEF PagesBehind, PageBehind, Newer
      <3>1. view[c].data \in Data /\ Newer(d, view[c].data)
        BY DEF Typed, PagesBehind, PageBehind
      <3>2. Newer(e, view[c].data)
        BY <1>1, <1>2, <3>1, NewerStep DEF Sound
      <3> QED
        BY <2>1, <3>1, <3>2
    <2>8. RunningRoundIsPlayed'
      BY <1>2, <1>3, <2>1 DEF RunningRoundIsPlayed
    <2>9. Descends(data', data)
      BY <1>1, <1>2, <2>1, DescendsTransitive
    <2> QED
      BY <2>2, <2>3, <2>4, <2>5, <2>6, <2>7, <2>8, <2>9
  <1>6. CASE ~readable
    <2>1. data' = Default /\ copies' = {d} /\ dirty' = FALSE /\ error' = TRUE /\ blocked' = TRUE
      BY <1>6 DEF Restart
    <2>2. Default \in Data /\ Default.active = NoSession
          /\ (\A s \in Sessions : ~Exists(Default, s) /\ Played(Default, s) = {})
          /\ \A s \in Sessions, m \in Matches : Default.rounds[s][m] = "none"
      BY TrainingAssumption DEF Default, Data, RoundStatus, Exists, Played
    <2>3. Typed' /\ ErrorShown'
      BY <1>3, <2>1 DEF Typed, ErrorShown, Default
    <2>4. AllSound'
      <3>1. Sound(Default)
        BY <2>2 DEF Sound
      <3> QED
        BY <1>1, <2>1, <3>1 DEF AllSound, Sound, Exists, Played
    <2>5. PastMatches'
      BY <1>1, <1>3, <2>1, <2>2 DEF PastMatches, PastOnly
    <2>6. AcknowledgedSurvives' /\ FileAhead' /\ FileHasReports'
      <3>1. Descends(d, Default)
        BY <2>2 DEF Descends
      <3> QED
        BY <2>1, <2>2, <3>1
           DEF AcknowledgedSurvives, FileAhead, FileHasReports, KeepsReports, Descends, Exists, Played
    <2>7. PagesBehind'
      BY <1>3, <2>1 DEF PagesBehind, PageBehind, Newer
    <2>8. RunningRoundIsPlayed'
      BY <1>3, <2>1, <2>2 DEF RunningRoundIsPlayed
    <2> QED
      BY <2>1, <2>3, <2>4, <2>5, <2>6, <2>7, <2>8
  <1> QED
    BY <1>5, <1>6

LEMMA NextInv == Inv /\ [Next]_vars => Inv'
  <1> SUFFICES ASSUME Inv, [Next]_vars PROVE Inv'
    OBVIOUS
  <1> USE DEF Inv
  <1>0. match \in Nat
    BY TrainingAssumption DEF Typed
  <1>1. ASSUME NEW c \in Clients, Read(c) PROVE Inv'
    <2>1. UNCHANGED storeVars /\ UNCHANGED roomVars
      BY <1>1 DEF Read
    <2>2. ErrorShown' /\ Stored' /\ RunningRoundIsPlayed'
      BY <2>1 DEF storeVars, roomVars, ErrorShown, Stored, AllSound, Sound, Exists, Played,
                  PastMatches, PastOnly, AcknowledgedSurvives, Descends, FileAhead, Newer,
                  FileHasReports, KeepsReports, RunningRoundIsPlayed
    <2>3. data \in Data
      BY DEF Stored, AllSound, Sound
    <2>4. Typed'
      BY <1>1, <2>1, <2>3 DEF Read, Typed, storeVars, roomVars
    <2>5. ~error => ~dirty /\ ~blocked /\ Newer(data, data) /\ \A d \in copies : Newer(d, data)
      BY <2>3 DEF ErrorShown, Stored, FileAhead, Newer, Data
    <2>6. ASSUME NEW p \in Clients PROVE PageBehind(p)'
      <3>1. CASE p = c
        BY <1>1, <2>1, <2>5, <3>1 DEF Read, Typed, PageBehind, Newer, storeVars
      <3>2. CASE p # c
        BY <1>1, <2>1, <3>2 DEF Read, Typed, PagesBehind, PageBehind, Newer, storeVars
      <3> QED
        BY <3>1, <3>2
    <2> QED
      BY <2>2, <2>4, <2>6 DEF PagesBehind
  <1>2. ASSUME NEW w \in Outcomes, FlushOnly(w), UNCHANGED <<roomVars, view, edit>>,
               error' = TRUE \/ error' = (error /\ FlushFails(w))
        PROVE  Inv'
    <2>1. Stored' /\ PagesBehind'
      BY <1>0, <1>2, FlushOnlyKeeps DEF roomVars
    <2>2. data' = data /\ blocked' = blocked /\ dirty' = (dirty /\ FlushFails(w))
      BY <1>2 DEF FlushOnly
    <2>3. dirty' \in BOOLEAN /\ error' \in BOOLEAN /\ (dirty' => error')
      BY <1>2, <2>2 DEF Typed, ErrorShown
    <2>4. blocked => error'
      BY <1>2 DEF ErrorShown, FlushFails
    <2>5. Typed' /\ ErrorShown'
      BY <1>2, <2>2, <2>3, <2>4 DEF Typed, ErrorShown, roomVars
    <2>6. RunningRoundIsPlayed'
      BY <1>2, <2>2 DEF RunningRoundIsPlayed, roomVars
    <2> QED
      BY <2>1, <2>5, <2>6
  <1>3. ASSUME NEW w \in Outcomes, Refuse(w) PROVE Inv'
    BY <1>2, <1>3 DEF Refuse
  <1>4. ASSUME NEW w \in Outcomes, StartRefused(w) PROVE Inv'
    BY <1>2, <1>4 DEF StartRefused
  <1>5. ASSUME NEW w \in Outcomes, StartUntagged(w) PROVE Inv'
    <2>1. /\ FlushOnly(w) /\ ~FlushFails(w) /\ error' = FALSE
          /\ phase' = "Running" /\ match' = match + 1 /\ tag' = NoSession
          /\ UNCHANGED <<view, edit>> /\ match < MaxMatches
      BY <1>5 DEF StartUntagged
    <2>2. match' \in 0..MaxMatches /\ match' \in Matches
      BY <1>0, <2>1, TrainingAssumption DEF Matches
    <2>3. Stored' /\ PagesBehind'
      BY <1>0, <2>1, FlushOnlyKeeps
    <2>4. data' = data /\ blocked' = blocked /\ blocked = FALSE /\ dirty' = FALSE
      BY <2>1 DEF FlushOnly, FlushFails, Typed
    <2>5. Typed' /\ ErrorShown'
      BY <2>1, <2>2, <2>4 DEF Typed, ErrorShown
    <2>6. RunningRoundIsPlayed'
      BY <1>5, <2>1, <2>4, TrainingAssumption DEF RunningRoundIsPlayed, StartUntagged
    <2> QED
      BY <2>3, <2>5, <2>6
  <1>6. ASSUME NEW w \in Outcomes, NEW v \in Outcomes, StartTagged(w, v) PROVE Inv'
    <2> DEFINE new == Begun(match + 1)
    <2>1. /\ phase = "Lobby" /\ match + 1 \in Matches /\ data.active # NoSession
          /\ FlushAndCommit(w, new, v) /\ match' = match + 1
          /\ v = "ok" => phase' = "Running" /\ tag' = data.active /\ error' = FALSE
          /\ v # "ok" => phase' = phase /\ tag' = tag /\ error' = TRUE
          /\ UNCHANGED <<view, edit>>
      BY <1>0, <1>6, TrainingAssumption DEF StartTagged, Matches
    <2>2. Sound(data) /\ PastOnly(data)
      BY DEF Stored, AllSound, PastMatches
    <2>3. data.active \in Sessions
      BY <2>1, <2>2 DEF Sound, Data
    <2>4. data.rounds[data.active][match + 1] = "none"
      BY <1>0, <2>1, <2>2, <2>3 DEF PastOnly
    <2>5. /\ Succeeds(new, data)
          /\ \A s \in Sessions, t \in Matches :
               new.rounds[s][t] = IF s = data.active /\ t = match + 1 THEN "running" ELSE data.rounds[s][t]
      BY <2>1, <2>2, <2>4, BegunSucceeds
    <2> HIDE DEF new
    <2>6. \A s \in Sessions, m \in Matches : m > match + 1 => new.rounds[s][m] = "none"
      BY <1>0, <2>2, <2>5 DEF PastOnly, Matches
    <2>7. /\ Stored' /\ ~dirty' /\ ~blocked' /\ PagesBehind'
          /\ v = "ok" => data' = new
          /\ v # "ok" => data' = data
      BY <1>0, <2>1, <2>5, <2>6, CommitKeeps DEF PagesBehind
    <2>8. dirty' = FALSE /\ blocked' = blocked
      BY <2>1 DEF FlushAndCommit
    <2>9. match' \in 0..MaxMatches /\ match' \in Matches
      BY <1>0, <2>1, TrainingAssumption DEF Matches
    <2>10. Typed' /\ ErrorShown'
      BY <2>1, <2>3, <2>7, <2>8, <2>9 DEF Typed, ErrorShown
    <2>11. RunningRoundIsPlayed'
      <3>1. \A s \in Sessions, m \in Matches : data.rounds[s][m] # "running"
        BY <2>1 DEF RunningRoundIsPlayed
      <3>2. CASE v = "ok"
        BY <2>1, <2>5, <2>7, <3>1, <3>2 DEF RunningRoundIsPlayed
      <3>3. CASE v # "ok"
        BY <2>1, <2>7, <3>1, <3>3 DEF RunningRoundIsPlayed
      <3> QED
        BY <3>2, <3>3
    <2> QED
      BY <2>7, <2>10, <2>11
  <1>7. ASSUME NEW w \in Outcomes, MatchEnds(w) PROVE Inv'
    <2>1. CASE tag = NoSession
      <3>1. UNCHANGED storeVars /\ UNCHANGED <<match, tag, view, edit>> /\ phase' = "Ended"
        BY <1>7, <2>1 DEF MatchEnds
      <3>2. ErrorShown' /\ Stored' /\ PagesBehind'
        BY <3>1 DEF storeVars, ErrorShown, Stored, AllSound, Sound, Exists, Played,
                    PastMatches, PastOnly, AcknowledgedSurvives, Descends, FileAhead, Newer,
                    FileHasReports, KeepsReports, PagesBehind, PageBehind
      <3>4. Typed'
        BY <1>7, <3>1 DEF Typed, storeVars, MatchEnds
      <3>3. RunningRoundIsPlayed'
        BY <2>1, <3>1, TrainingAssumption DEF RunningRoundIsPlayed, storeVars
      <3> QED
        BY <3>2, <3>3, <3>4
    <2>2. CASE tag # NoSession
      <3> DEFINE new == Finished
      <3>1. /\ phase = "Running" /\ phase' = "Ended" /\ data' = new
            /\ copies' = Written(copies, new, w)
            /\ UNCHANGED <<blocked, match, tag, view, edit>>
            /\ dirty' = FinishFails(w) /\ error' = FinishFails(w)
        BY <1>7, <2>2 DEF MatchEnds
      <3>2. tag \in Sessions /\ Sound(data) /\ PastOnly(data)
        BY <2>2 DEF Typed, Stored, AllSound, PastMatches
      <3>3. match \in Matches /\ data.rounds[tag][match] = "running"
        BY <3>1, <3>2 DEF Typed, RunningRoundIsPlayed
      <3>4. /\ Succeeds(new, data) /\ Descends(data, new)
            /\ \A s \in Sessions, t \in Matches :
                 new.rounds[s][t] = IF s = tag /\ t = match THEN "finished" ELSE data.rounds[s][t]
        BY <3>2, <3>3, FinishedSucceeds
      <3> HIDE DEF new
      <3>5. blocked = FALSE
        <4>1. CASE blocked
          BY <3>2, <3>3, <4>1 DEF ErrorShown, Default
        <4> QED
          BY <4>1 DEF Typed
      <3>6. /\ \A d \in copies' : d \in copies \/ d = new
            /\ dirty' \in BOOLEAN /\ error' \in BOOLEAN /\ error' = dirty'
            /\ ~dirty' => copies' = {new}
        BY <3>1 DEF Written, FinishFails, Outcomes
      <3>7. Typed' /\ ErrorShown'
        BY <3>1, <3>3, <3>5, <3>6 DEF Typed, ErrorShown
      <3>8. AllSound' /\ PastMatches'
        <4>1. \A s \in Sessions, m \in Matches : m > match => new.rounds[s][m] = "none"
          BY <1>0, <3>2, <3>3, <3>4 DEF PastOnly, Matches
        <4>2. PastMatches'
          BY <3>1, <3>6, <4>1 DEF PastMatches, PastOnly, Stored
        <4>3. AllSound'
          BY <3>1, <3>4, <3>6 DEF AllSound, Sound, Exists, Played, Stored, Succeeds
        <4> QED
          BY <4>2, <4>3
      <3>9. AcknowledgedSurvives'
        <4>1. ASSUME NEW d \in copies PROVE Descends(d, new)
          BY <3>4, DescendsTransitive DEF Stored, AcknowledgedSurvives
        <4> QED
          BY <3>1, <3>6, <4>1, DescendsReflexive DEF AcknowledgedSurvives, Descends, Exists, Played
      <3>10. FileAhead' /\ FileHasReports'
        BY <3>1, <3>4, <3>6 DEF FileAhead, FileHasReports, KeepsReports, Newer, Succeeds, Sound, Data
      <3>11. PagesBehind'
        <4> SUFFICES ASSUME NEW c \in Clients, view[c].clean
                     PROVE  (\A f \in copies' : Newer(f, view[c].data)) /\ Newer(data', view[c].data)
          BY <3>1 DEF PagesBehind, PageBehind, Newer
        <4>1. view[c].data \in Data /\ Newer(data, view[c].data)
              /\ \A d \in copies : Newer(d, view[c].data)
          BY <3>5 DEF Typed, PagesBehind, PageBehind
        <4>2. Newer(new, view[c].data)
          BY <3>2, <3>4, <4>1, NewerStep DEF Succeeds, Sound
        <4> QED
          BY <3>1, <3>6, <4>1, <4>2
      <3>12. RunningRoundIsPlayed'
        BY <3>1, <3>3, <3>4 DEF RunningRoundIsPlayed
      <3> QED
        BY <3>7, <3>8, <3>9, <3>10, <3>11, <3>12 DEF Stored
    <2> QED
      BY <2>1, <2>2
  <1>8. ASSUME NEW c \in Clients, NEW w \in Outcomes, NEW v \in Outcomes, Accept(c, w, v)
        PROVE  Inv'
    <2>1. PICK ch \in Changes(data) : FlushAndCommit(w, Bump(ch), v)
      BY <1>8 DEF Accept
    <2> DEFINE new == Bump(ch)
    <2>2. Succeeds(new, data) /\ new.rounds = data.rounds
      BY ChangeSucceeds DEF Stored, AllSound
    <2> HIDE DEF new
    <2>3. /\ UNCHANGED roomVars /\ error' = FALSE
          /\ v = "ok" => view' = [view EXCEPT ![c] = [data |-> data', clean |-> TRUE]]
          /\ v # "ok" => view' = view
      BY <1>8 DEF Accept
    <2>4. match' = match
      BY <2>3 DEF roomVars
    <2>5. \A s \in Sessions, m \in Matches : m > match => new.rounds[s][m] = "none"
      BY <2>2 DEF Stored, PastMatches, PastOnly
    <2>6. FlushAndCommit(w, new, v)
      BY <2>1 DEF new
    <2>7. /\ Stored' /\ ~dirty' /\ ~blocked'
          /\ \A p \in Clients : view'[p] = view[p] => PageBehind(p)'
          /\ v = "ok" => data' = new /\ copies' = {new}
          /\ v # "ok" => data' = data
      BY <1>0, <2>2, <2>4, <2>5, <2>6, CommitKeeps
    <2>8. dirty' = FALSE /\ blocked' = blocked
      BY <2>1 DEF FlushAndCommit
    <2>9. data' \in Data
      BY <2>7 DEF Stored, AllSound, Sound
    <2>10. Typed' /\ ErrorShown'
      <3>1. view' \in [Clients -> [data : Data, clean : BOOLEAN]]
        <4>1. view \in [Clients -> [data : Data, clean : BOOLEAN]]
          BY DEF Typed
        <4>2. [data |-> data', clean |-> TRUE] \in [data : Data, clean : BOOLEAN]
          BY <2>9
        <4>3. CASE v = "ok"
          BY <2>3, <4>1, <4>2, <4>3
        <4>4. CASE v # "ok"
          BY <2>3, <4>1, <4>4
        <4> QED
          BY <4>3, <4>4
      <3> QED
        BY <2>3, <2>7, <2>8, <3>1 DEF Typed, ErrorShown, roomVars
    <2>11. PagesBehind'
      <3>1. CASE v # "ok"
        BY <2>3, <2>7, <3>1 DEF PagesBehind
      <3>2. CASE v = "ok"
        <4>1. view'[c].data = data' /\ \A p \in Clients : p # c => view'[p] = view[p]
          BY <2>3, <3>2 DEF Typed
        <4>2. PageBehind(c)'
          BY <2>7, <2>9, <3>2, <4>1 DEF PageBehind, Newer, Data
        <4> QED
          BY <2>7, <4>1, <4>2 DEF PagesBehind
      <3> QED
        BY <3>1, <3>2
    <2>12. RunningRoundIsPlayed'
      BY <2>2, <2>3, <2>7 DEF RunningRoundIsPlayed, roomVars
    <2> QED
      BY <2>7, <2>10, <2>11, <2>12
  <1>9. ASSUME BackToLobby PROVE Inv'
    <2>1. UNCHANGED <<storeVars, match, tag, view>> /\ phase = "Ended" /\ phase' = "Lobby"
      BY <1>9 DEF BackToLobby
    <2>2. ErrorShown' /\ Stored' /\ PagesBehind' /\ Typed'
      BY <2>1 DEF storeVars, ErrorShown, Stored, AllSound, Sound, Exists, Played, Typed,
                  PastMatches, PastOnly, AcknowledgedSurvives, Descends, FileAhead, Newer,
                  FileHasReports, KeepsReports, PagesBehind, PageBehind
    <2>3. RunningRoundIsPlayed'
      BY <2>1 DEF RunningRoundIsPlayed, storeVars
    <2> QED
      BY <2>2, <2>3
  <1>10. CASE UNCHANGED vars
    BY <1>10 DEF vars, storeVars, roomVars, ErrorShown, Stored, AllSound, Sound, Exists, Played, Typed,
                 PastMatches, PastOnly, AcknowledgedSurvives, Descends, FileAhead, Newer,
                 FileHasReports, KeepsReports, PagesBehind, PageBehind, RunningRoundIsPlayed
  <1> QED
    BY <1>1, <1>3, <1>4, <1>5, <1>6, <1>7, <1>8, <1>9, <1>10, RestartKeeps DEF Next

-----------------------------------------------------------------------------
(* Theorems *)

\* Memory, the copies of the file and the pages stay related through the revision
\* (commit, flush, load): the invariant the theorems below rest on.
THEOREM Invariance == Spec => []Inv
  BY InitInv, NextInv, PTL DEF Spec

\* The sessions and rounds a trainer was told are saved are in every copy of the
\* file a restart may find, whatever writes failed since (commit, write).
THEOREM Durability == Spec => []AcknowledgedSurvives
  <1>1. Inv => AcknowledgedSurvives
    BY DEF Inv, Stored
  <1> QED
    BY <1>1, Invariance, PTL

\* While no storage error is shown, so is every finished report (finish, flush).
THEOREM ReportsDurable == Spec => []ReportSurvives
  <1>1. Inv => ReportSurvives
    BY DEF Inv, Stored, FileHasReports, KeepsReports, ErrorShown, ReportSurvives
  <1> QED
    BY <1>1, Invariance, PTL

\* A round is running in the history exactly while its match is (begin, finish, load).
THEOREM NoOrphan == Spec => []RunningRoundIsPlayed
  <1>1. Inv => RunningRoundIsPlayed
    BY DEF Inv
  <1> QED
    BY <1>1, Invariance, PTL

\* An edit made on a page without a storage error was made on the data it changes
\* (update's revision check).
THEOREM NoLostEdit == Spec => []EditSawData
  <1>1. Init => EditSawData
    BY DEF Init, EditSawData
  <1>2. Inv /\ EditSawData /\ [Next]_vars => EditSawData'
    <2> SUFFICES ASSUME Inv, EditSawData, [Next]_vars PROVE EditSawData'
      OBVIOUS
    <2>1. CASE edit' = edit
      BY <2>1 DEF EditSawData
    <2>2. ASSUME NEW c \in Clients, NEW w \in Outcomes, NEW v \in Outcomes, Accept(c, w, v),
                 edit' # edit
          PROVE  EditSawData'
      <3>1. /\ edit' = [made |-> TRUE, seen |-> view[c].data, clean |-> view[c].clean, found |-> data]
            /\ Current(c) /\ ~FlushFails(w)
        BY <2>2 DEF Accept, FlushAndCommit
      <3>2. view[c].clean => Newer(data, view[c].data)
        BY <3>1 DEF Inv, PagesBehind, PageBehind, FlushFails
      <3>3. edit'.clean => edit'.seen = edit'.found
        BY <3>1, <3>2 DEF Newer, Current
      <3> QED
        BY <3>3 DEF EditSawData
    <2> QED
      BY <2>1, <2>2 DEF Next, vars, Read, Refuse, StartRefused, StartUntagged, MatchEnds,
                        StartTagged, Restart, BackToLobby
  <1> QED
    BY <1>1, <1>2, Invariance, PTL DEF Spec

\* Every state is one the program can hold: typed, with an active session that exists.
THEOREM TypeCorrect == Spec => []TypeOK
  <1>1. Inv => TypeOK
    BY DEF Inv, Stored, AllSound, Sound, Typed, TypeOK
  <1> QED
    BY <1>1, Invariance, PTL

\* The history only grows and scoring stays locked, across failed writes and restarts
\* (update, begin, finish, load).
THEOREM Growth == Spec => HistoryGrows
  <1>1. Inv /\ [Next]_vars => [~blocked' => Descends(data', data)]_vars
    <2> SUFFICES ASSUME Inv, [Next]_vars PROVE ~blocked' => Descends(data', data)
      OBVIOUS
    <2>1. CASE data' = data
      BY <2>1, DescendsReflexive
    <2>2. ASSUME NEW new, Succeeds(new, data), NEW v, data' = Committed(new, v)
          PROVE  Descends(data', data)
      BY <2>2, DescendsReflexive DEF Committed, Succeeds
    <2>3. Sound(data) /\ PastOnly(data) /\ Typed
      BY DEF Inv, Stored, AllSound, PastMatches
    <2>4. ASSUME NEW w \in Outcomes, NEW v \in Outcomes, StartTagged(w, v) PROVE Descends(data', data)
      <3>1. /\ data.active \in Sessions /\ data.active # NoSession
            /\ match + 1 \in Matches /\ match \in Nat
            /\ data' = Committed(Begun(match + 1), v)
        BY <2>3, <2>4, TrainingAssumption DEF StartTagged, FlushAndCommit, Typed, Matches, Sound, Data
      <3>2. data.rounds[data.active][match + 1] = "none"
        BY <2>3, <3>1 DEF PastOnly
      <3>3. Succeeds(Begun(match + 1), data)
        BY <2>3, <3>1, <3>2, BegunSucceeds
      <3> QED
        BY <2>2, <3>1, <3>3
    <2>5. ASSUME NEW c \in Clients, NEW w \in Outcomes, NEW v \in Outcomes, Accept(c, w, v)
          PROVE  Descends(data', data)
      <3>1. PICK ch \in Changes(data) : data' = Committed(Bump(ch), v)
        BY <2>5 DEF Accept, FlushAndCommit
      <3>2. Succeeds(Bump(ch), data)
        BY <2>3, ChangeSucceeds
      <3> QED
        BY <2>2, <3>1, <3>2
    <2>6. ASSUME NEW w \in Outcomes, MatchEnds(w) PROVE Descends(data', data)
      <3>1. CASE tag = NoSession
        <4>1. data' = data
          BY <2>6, <3>1 DEF MatchEnds, storeVars
        <4>2. Descends(data, data)
          BY DescendsReflexive
        <4> QED
          BY <4>1, <4>2, Zenon
      <3>2. CASE tag # NoSession
        <4>1. /\ tag \in Sessions /\ match \in Matches /\ data' = Finished
              /\ data.rounds[tag][match] = "running"
          BY <2>3, <2>6, <3>2 DEF MatchEnds, Typed, Inv, RunningRoundIsPlayed
        <4> QED
          BY <2>3, <4>1, FinishedSucceeds DEF Succeeds
      <3> QED
        BY <3>1, <3>2
    <2> QED
      BY <2>1, <2>4, <2>5, <2>6, RestartKeeps
         DEF Next, vars, storeVars, Read, Refuse, StartRefused, StartUntagged, FlushOnly, BackToLobby
  <1> QED
    BY <1>1, Invariance, PTL DEF Spec, HistoryGrows

\* A history that could not be read is left as it is (flush's check of `blocked`).
THEOREM Preserved == Spec => UnreadableIsKept
  <1> DEFINE Settled == blocked => \A d, e \in copies : d = e
  <1>1. Init => Settled
    BY DEF Init
  <1>2. ASSUME Inv, [Next]_vars, blocked
        PROVE  \/ blocked' = blocked /\ copies' = copies
               \/ \E d \in copies : copies' = {d}
               \/ ~blocked'
    <2>1. ASSUME NEW w \in Outcomes, MatchEnds(w) PROVE UNCHANGED storeVars
      <3>1. CASE tag = NoSession
        BY <2>1, <3>1 DEF MatchEnds
      <3>2. CASE tag # NoSession
        <4>1. tag \in Sessions /\ match \in Matches /\ data.rounds[tag][match] = "running"
          BY <1>2, <2>1, <3>2 DEF MatchEnds, Inv, Typed, RunningRoundIsPlayed
        <4>2. data = Default
          BY <1>2 DEF Inv, ErrorShown
        <4> QED
          BY <4>1, <4>2 DEF Default
      <3> QED
        BY <3>1, <3>2
    <2>2. ASSUME NEW w \in Outcomes, FlushOnly(w) PROVE UNCHANGED <<blocked, copies>>
      BY <1>2, <2>2 DEF FlushOnly, Flushed
    <2> QED
      BY <1>2, <2>1, <2>2
         DEF Next, vars, storeVars, Read, Refuse, StartRefused, StartUntagged, StartTagged, Accept,
             FlushAndCommit, FlushFails, Restart, BackToLobby
  <1>3. Inv /\ Settled /\ [Next]_vars => Settled'
    <2> SUFFICES ASSUME Inv, Settled, [Next]_vars, blocked' PROVE \A d, e \in copies' : d = e
      OBVIOUS
    <2>1. CASE blocked
      BY <1>2, <2>1
    <2>2. CASE ~blocked
      BY <2>2 DEF Next, vars, storeVars, Read, Refuse, StartRefused, StartUntagged, StartTagged, Accept,
                  FlushOnly, FlushAndCommit, MatchEnds, Restart, BackToLobby
    <2> QED
      BY <2>1, <2>2
  <1>4. Inv /\ Settled /\ [Next]_vars => [blocked /\ blocked' => copies' = copies]_vars
    BY <1>2
  <1> HIDE DEF Settled
  <1> QED
    BY <1>1, <1>3, <1>4, Invariance, PTL DEF Spec, UnreadableIsKept
=============================================================================
