----------------------------- MODULE MatchLife -----------------------------
(***************************************************************************)
(* What the room promises its participants, whatever happens inside it:    *)
(* matches are played one at a time by a fixed set of players, a player    *)
(* that is lost stays lost for that match, and every match that began ends *)
(* exactly once, with a winner among the players still in it or with none. *)
(***************************************************************************)
EXTENDS Naturals

CONSTANTS Players, Nobody

VARIABLES
  phase,    \* "Lobby", "Running" or "Ended"
  playing,  \* the players of the match in progress, {} without one
  lost,     \* those of them that forfeited
  begun,    \* matches begun
  ended,    \* matches ended
  winner    \* of the match ended last

vars == <<phase, playing, lost, begun, ended, winner>>

Init ==
  /\ phase = "Lobby" /\ playing = {} /\ lost = {}
  /\ begun = 0 /\ ended = 0 /\ winner = Nobody

BeginWith(S) == playing' = S /\ lost' = {} /\ begun' = begun + 1 /\ phase' = "Running"

Begin ==
  /\ phase = "Lobby"
  /\ \E S \in (SUBSET Players) \ {{}} : BeginWith(S)
  /\ winner' = Nobody
  /\ UNCHANGED ended

Lose(p) ==
  /\ phase = "Running"
  /\ p \in playing \ lost
  /\ lost' = lost \cup {p}
  /\ UNCHANGED <<phase, playing, begun, ended, winner>>

\* A match may end in the same step as it loses a player.
End ==
  /\ phase = "Running"
  /\ phase' = "Ended" /\ playing' = {} /\ lost' = {}
  /\ ended' = ended + 1
  /\ winner' \in (playing \ lost) \cup {Nobody}
  /\ UNCHANGED begun

\* The matches of a batch follow one another without a lobby, with the same players.
EndAndBegin ==
  /\ phase = "Running"
  /\ BeginWith(playing)
  /\ ended' = ended + 1
  /\ winner' = Nobody

Return ==
  /\ phase = "Ended" /\ phase' = "Lobby"
  /\ UNCHANGED <<playing, lost, begun, ended, winner>>

Next == Begin \/ (\E p \in Players : Lose(p)) \/ End \/ EndAndBegin \/ Return

Spec == Init /\ [][Next]_vars
=============================================================================
