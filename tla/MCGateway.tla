----------------------------- MODULE MCGateway -----------------------------
(* Gateway with a bot and a spectator, at one address. *)
EXTENDS Gateway

CONSTANTS b, s

MCConns == {b, s}
MCBots  == {b}
MCAddr  == [c \in MCConns |-> 1]
MCMatchTicks == <<1, 1>>
=============================================================================
