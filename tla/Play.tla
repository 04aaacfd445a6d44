-------------------------------- MODULE Play --------------------------------
(***************************************************************************)
(* One game, from the moment a match becomes ACTIVE until its board        *)
(* decides it.  Both players send moves of any column at any time, as      *)
(* their connections allow; apply_match_move keeps order.  The life of the *)
(* match around the game is in module Server.                              *)
(***************************************************************************)
EXTENDS Match

CONSTANTS First, Second     \* player1_id and player2_id

ASSUME PlayAssumption == {First, Second} \subseteq Players /\ First # Second

VARIABLES match,    \* the Match record
          result    \* MoveResult.result of the last move sent

vars == <<match, result>>

\* Columns a move request may carry: those of the board, one too far on
\* either side, and -1 is also what the handler starts from when it finds none.
Columns == -1 .. BOARD_COLS

Init == /\ match = add_player_to_match(create_match(First), Second)
        /\ result = "ok"

Move(player, column) ==
  /\ match' = apply_match_move(match, player, column)
  /\ result' = MoveResult(match, player, column)

Next == \E player \in {First, Second}, column \in Columns : Move(player, column)

Spec == Init /\ [][Next]_vars

-----------------------------------------------------------------------------

\* The match stays a well-formed record with these two players, and the last
\* result is one of the six of match.h.
TypeOK == /\ match \in Matches
          /\ match.player1_id = First
          /\ match.player2_id = Second
          /\ result \in Accepted \cup {"not_active", "not_turn", "invalid"}

\* check_win looks only at the lines through the last disc and check_draw only
\* at the top row; still, the game is over exactly when the rules say so: an
\* ACTIVE board has no line and room for a disc, a FINISHED one has a line of
\* the player who moved last, and of nobody else, or is full without a line.
OutcomeMatchesBoard ==
  LET mover == match.current_turn
      other == 3 - mover
  IN  /\ ~HasLine(match.board, other)
      /\ match.state = "ACTIVE" =>
           /\ ~HasLine(match.board, mover)
           /\ \E c \in Cols : validate_move(match.board, c)
      /\ match.state = "FINISHED" =>
           HasLine(match.board, mover) \/ IsFull(match.board)

\* The answer to the move that ends the game tells a win from a draw: "draw"
\* is never said of a board with a line, not even when the disc that makes the
\* line also fills the board.
AnswerNamesOutcome ==
  [][match.state = "ACTIVE" =>
       /\ (result' = "win") <=> HasLine(match'.board, match.current_turn)
       /\ (result' = "draw") <=> (IsFull(match'.board) /\ result' # "win")]_vars

\* apply_move never leaves a disc hanging over an empty cell.
Gravity == Settled(match.board)

\* Players alternate: the discs on the board say whose turn it is, and while
\* the game is on nobody is a disc ahead of his turn.
TurnsAlternate ==
  LET lead == Discs(match.board, 1) - Discs(match.board, 2)
  IN  IF match.state = "ACTIVE" THEN lead = match.current_turn - 1
      ELSE lead = 2 - match.current_turn

\* A refused move changes nothing, and an accepted one adds a single disc, of
\* the player who was to move, and takes none away.
OneDiscPerMove ==
  [][LET was == match.board
         is  == match'.board
         changed == {rc \in Rows \X Cols : was[rc[1]][rc[2]] # is[rc[1]][rc[2]]}
     IN  IF result' \in Accepted
         THEN \E rc \in Rows \X Cols :
                changed = {rc} /\ was[rc[1]][rc[2]] = 0
                  /\ is[rc[1]][rc[2]] = match.current_turn
         ELSE match' = match]_vars
=============================================================================
