------------------------------ MODULE MCForza4 ------------------------------
(* The whole system for TLC.                                               *)
EXTENDS Forza4Properties, TLC

\* The players are interchangeable: no action names one of them.
Symmetry == Permutations(Players)

\* No action reads out; number and turn are read only while the client shows a
\* game, and are set when it begins to.
WithoutMessages ==
  <<matches, player_state, leaving,
    [p \in Players |-> IF client[p].matchState = "ACTIVE" THEN client[p]
                       ELSE [client[p] EXCEPT !.myPlayerNumber = 0, !.currentTurn = 1]]>>
=============================================================================
