----------------------------- MODULE PlayProofs -----------------------------
(***************************************************************************)
(* A game obeys the rules of Connect Four, on a board of any size and for  *)
(* lines of any length: gravity, one disc per move, and an end exactly     *)
(* when there is a line or no room, told to the player who moved.          *)
(***************************************************************************)
EXTENDS Play, MatchProofs

-----------------------------------------------------------------------------
(* The theorems.                                                           *)

\* An accepted move: valid, by the player to move, on an ACTIVE match.
LEMMA AcceptedMove ==
  ASSUME TypeOK, NEW player \in {First, Second}, NEW column, Move(player, column),
         result' \in Accepted
  PROVE  /\ validate_move(match.board, column) /\ match.state = "ACTIVE"
         /\ match'.board = apply_move(match.board, column, match.current_turn)
BY DEF TypeOK, Move, apply_match_move, MoveResult, Accepted, Matches

\* A refused move leaves the match alone.
LEMMA RefusedMove ==
  ASSUME NEW player, NEW column, Move(player, column), result' \notin Accepted
  PROVE  match' = match
BY DEF Move, apply_match_move

\* The record of a game stays well-formed and keeps its players.
THEOREM PlayTypeCorrect == Spec => []TypeOK
<1>1. Init => TypeOK
  <2>1. create_match(First) \in Matches /\ Second # NoPlayer
    BY CreateType, PlayAssumption, MatchAssumption
  <2>2. /\ create_match(First).player1_id = First
        /\ create_match(First).player2_id = NoPlayer
    BY DEF create_match
  <2> DEFINE m == create_match(First)
             n == add_player_to_match(m, Second)
  <2> HIDE DEF m
  <2>3. n = [m EXCEPT !.player2_id = Second, !.state = "ACTIVE"]
    BY <2>2 DEF add_player_to_match, m
  <2>4. m \in Matches /\ m.player1_id = First /\ Second \in Players
    BY <2>1, <2>2, PlayAssumption DEF m
  <2>5. n \in Matches /\ n.player1_id = First /\ n.player2_id = Second
    BY <2>3, <2>4 DEF Matches, MatchStates
  <2> HIDE DEF n
  <2> QED BY <2>5 DEF Init, TypeOK, Accepted, n, m
<1>2. TypeOK /\ [Next]_vars => TypeOK'
  <2> SUFFICES ASSUME TypeOK, [Next]_vars PROVE TypeOK'
    OBVIOUS
  <2>1. CASE UNCHANGED vars
    BY <2>1 DEF vars, TypeOK
  <2>2. ASSUME NEW player \in {First, Second}, NEW column \in Columns, Move(player, column)
        PROVE  TypeOK'
    <3>1. match' \in Matches
      BY <2>2, MoveType, PlayAssumption DEF TypeOK, Move
    <3>2. match'.player1_id = First /\ match'.player2_id = Second
      BY <2>2 DEF TypeOK, Move, apply_match_move, Matches
    <3>3. result' \in Accepted \cup {"not_active", "not_turn", "invalid"}
      BY <2>2 DEF Move, MoveResult, Accepted
    <3> QED BY <3>1, <3>2, <3>3 DEF TypeOK
  <2> QED BY <2>1, <2>2 DEF Next
<1> QED BY <1>1, <1>2, PTL DEF Spec

\* No disc ever hangs over an empty cell, on a board of any size.
THEOREM GravityHolds == Spec => []Gravity
<1>1. Init => Gravity
  <2>1. ASSUME Init PROVE match.board = init_board
    BY <2>1 DEF Init, create_match, add_player_to_match
  <2> QED BY <2>1, EmptyBoard DEF Gravity
<1>2. TypeOK /\ Gravity /\ [Next]_vars => Gravity'
  <2> SUFFICES ASSUME TypeOK, Gravity, [Next]_vars PROVE Gravity'
    OBVIOUS
  <2>1. CASE UNCHANGED vars
    BY <2>1 DEF vars, Gravity
  <2>2. ASSUME NEW player \in {First, Second}, NEW column \in Columns, Move(player, column)
        PROVE  Gravity'
    <3>1. CASE result' \in Accepted
      <4>1. match.board \in Boards /\ match.current_turn \in Symbols
        BY DEF TypeOK, Matches
      <4> QED BY <2>2, <3>1, <4>1, AcceptedMove, DropKeepsSettled DEF Gravity
    <3>2. CASE result' \notin Accepted
      BY <2>2, <3>2, RefusedMove DEF Gravity
    <3> QED BY <3>1, <3>2
  <2> QED BY <2>1, <2>2 DEF Next
<1> QED BY <1>1, <1>2, PlayTypeCorrect, PTL DEF Spec

\* A refused move changes nothing, an accepted one adds one disc of the player
\* who was to move, on a board of any size.
THEOREM OneDisc == Spec => OneDiscPerMove
<1> DEFINE Step ==
      LET was == match.board
          is  == match'.board
          changed == {rc \in Rows \X Cols : was[rc[1]][rc[2]] # is[rc[1]][rc[2]]}
      IN  IF result' \in Accepted
          THEN \E rc \in Rows \X Cols :
                 changed = {rc} /\ was[rc[1]][rc[2]] = 0
                   /\ is[rc[1]][rc[2]] = match.current_turn
          ELSE match' = match
<1>1. TypeOK /\ [Next]_vars => [Step]_vars
  <2> SUFFICES ASSUME TypeOK, NEW player \in {First, Second}, NEW column \in Columns,
                      Move(player, column)
               PROVE  Step
    BY DEF Next
  <2>1. CASE result' \notin Accepted
    BY <2>1, RefusedMove
  <2>2. CASE result' \in Accepted
    <3> DEFINE b   == match.board
               row == LandingRow(b, column)
    <3>1. /\ validate_move(b, column) /\ b \in Boards /\ match.current_turn \in Symbols
          /\ match'.board = apply_move(b, column, match.current_turn)
      BY <2>2, AcceptedMove DEF TypeOK, Matches
    <3>2. column \in Cols /\ row \in Rows /\ b[row][column] = 0
      BY <3>1, LandingRowIsLowest DEF validate_move
    <3>3. \A r \in Rows, c \in Cols :
            match'.board[r][c] = IF r = row /\ c = column THEN match.current_turn ELSE b[r][c]
      BY <3>1, <3>2, DropFillsOneCell
    <3>4. match.current_turn # 0
      BY <3>1 DEF Symbols
    <3> HIDE DEF b, row
    <3> DEFINE changed == {rc \in Rows \X Cols : b[rc[1]][rc[2]] # match'.board[rc[1]][rc[2]]}
    <3>5. changed = {<<row, column>>}
      BY <3>2, <3>3, <3>4
    <3>6. match'.board[row][column] = match.current_turn
      BY <3>2, <3>3
    <3>7. /\ <<row, column>> \in Rows \X Cols
          /\ b[<<row, column>>[1]][<<row, column>>[2]] = 0
          /\ match'.board[<<row, column>>[1]][<<row, column>>[2]] = match.current_turn
      BY <3>2, <3>6
    <3> QED BY <2>2, <3>5, <3>7 DEF b
  <2> QED BY <2>1, <2>2
<1> QED BY <1>1, PlayTypeCorrect, PTL DEF Spec, OneDiscPerMove

\* What an accepted move makes of the board and what it answers.
LEMMA AcceptedOutcome ==
  ASSUME TypeOK, Gravity, OutcomeMatchesBoard,
         NEW player \in {First, Second}, NEW column, Move(player, column),
         result' \in Accepted
  PROVE  LET s == match.current_turn
             n == match'.board
         IN  /\ match.state = "ACTIVE"
             /\ ~HasLine(n, 3 - s)
             /\ (result' = "win") <=> HasLine(n, s)
             /\ (result' = "draw") <=> (IsFull(n) /\ result' # "win")
             /\ match'.state = IF result' = "ok" THEN "ACTIVE" ELSE "FINISHED"
             /\ match'.current_turn = IF result' = "ok" THEN 3 - s ELSE s
<1> DEFINE b   == match.board
           s   == match.current_turn
           row == LandingRow(b, column)
           n   == apply_move(b, column, s)
<1>1. /\ validate_move(b, column) /\ match.state = "ACTIVE" /\ match'.board = n
      /\ b \in Boards /\ s \in Symbols /\ Settled(b)
  BY AcceptedMove DEF TypeOK, Matches, Gravity
<1>2. ~HasLine(b, s) /\ ~HasLine(b, 3 - s) /\ 3 - s \in Symbols /\ 3 - s # s
  BY <1>1 DEF OutcomeMatchesBoard, Symbols
<1>3. ~HasLine(n, 3 - s)
  BY <1>1, <1>2, DropGivesOtherNothing
<1>4. check_win(n, row, column, s) <=> HasLine(n, s)
  BY <1>1, <1>2, CheckWinIsHasLine
<1>5. check_draw(n) <=> IsFull(n)
  BY <1>1, DropKeepsSettled, CheckDrawIsFull
<1>6. result' = IF check_win(n, row, column, s) THEN "win"
                ELSE IF check_draw(n) THEN "draw" ELSE "ok"
  BY <1>1 DEF Move, MoveResult, Accepted
<1>7. /\ match'.state = IF result' = "ok" THEN "ACTIVE" ELSE "FINISHED"
      /\ match'.current_turn = IF result' = "ok" THEN 3 - s ELSE s
  BY <1>1 DEF Move, apply_match_move, TypeOK, Matches
<1> HIDE DEF n, row, b, s
<1>8. /\ (result' = "win") <=> HasLine(n, s)
      /\ (result' = "draw") <=> (IsFull(n) /\ result' # "win")
  BY <1>4, <1>5, <1>6
<1> QED BY <1>1, <1>3, <1>7, <1>8 DEF s

\* An ACTIVE board has no line and a free column; a FINISHED one has a line of
\* the last player, and of nobody else, or is full: on a board of any size and
\* for lines of any length.
THEOREM OutcomeIsRight == Spec => []OutcomeMatchesBoard
<1>1. Init => OutcomeMatchesBoard
  <2> SUFFICES ASSUME Init PROVE OutcomeMatchesBoard
    OBVIOUS
  <2>1. /\ match.board = init_board /\ match.state = "ACTIVE" /\ match.current_turn = 1
    BY DEF Init, create_match, add_player_to_match
  <2>2. 0 \in Rows /\ 0 \in Cols
    BY BoardAssumption DEF Rows, Cols
  <2>3. validate_move(init_board, 0)
    BY <2>2 DEF validate_move, init_board
  <2>4. 1 \in Symbols /\ 3 - 1 \in Symbols
    BY DEF Symbols
  <2> QED BY <2>1, <2>2, <2>3, <2>4, EmptyBoard DEF OutcomeMatchesBoard
<1>2. TypeOK /\ Gravity /\ OutcomeMatchesBoard /\ [Next]_vars => OutcomeMatchesBoard'
  <2> SUFFICES ASSUME TypeOK, Gravity, OutcomeMatchesBoard, [Next]_vars
               PROVE  OutcomeMatchesBoard'
    OBVIOUS
  <2>1. CASE match' = match
    BY <2>1 DEF OutcomeMatchesBoard
  <2>2. ASSUME NEW player \in {First, Second}, NEW column \in Columns, Move(player, column),
               result' \in Accepted
        PROVE  OutcomeMatchesBoard'
    <3> DEFINE s == match.current_turn
               n == match'.board
    <3>1. /\ ~HasLine(n, 3 - s)
          /\ (result' = "win") <=> HasLine(n, s)
          /\ (result' = "draw") <=> (IsFull(n) /\ result' # "win")
          /\ match'.state = IF result' = "ok" THEN "ACTIVE" ELSE "FINISHED"
          /\ match'.current_turn = IF result' = "ok" THEN 3 - s ELSE s
      BY <2>2, AcceptedOutcome
    <3>2. s \in Symbols /\ 3 - (3 - s) = s
      BY DEF TypeOK, Matches, Symbols
    <3>3. CASE result' = "ok"
      <4>1. ~IsFull(n) /\ Settled(n)
        <5>1. match.board \in Boards
          BY DEF TypeOK, Matches
        <5> QED BY <2>2, <3>1, <3>2, <3>3, <5>1, AcceptedMove, DropKeepsSettled DEF Gravity
      <4>2. \E c \in Cols : validate_move(n, c)
        BY <4>1, CheckDrawIsFull DEF check_draw, validate_move
      <4>3. ~HasLine(n, s) /\ match'.current_turn = 3 - s /\ match'.state = "ACTIVE"
        BY <3>1, <3>3
      <4> HIDE DEF n, s
      <4>4. /\ ~HasLine(n, 3 - match'.current_turn)
            /\ ~HasLine(n, match'.current_turn)
        BY <3>1, <3>2, <4>3
      <4> QED BY <4>2, <4>3, <4>4 DEF OutcomeMatchesBoard, n
    <3>4. CASE result' # "ok"
      <4>1. HasLine(n, s) \/ IsFull(n)
        BY <2>2, <3>1, <3>4 DEF Accepted
      <4>2. match'.state = "FINISHED" /\ match'.current_turn = s
        BY <3>1, <3>4
      <4> QED BY <3>1, <4>1, <4>2 DEF OutcomeMatchesBoard
    <3> QED BY <3>3, <3>4
  <2> QED BY <2>1, <2>2, RefusedMove DEF Next, vars
<1> QED BY <1>1, <1>2, PlayTypeCorrect, GravityHolds, PTL DEF Spec

\* The answer to the deciding move tells a win from a draw, on a board of any
\* size and for lines of any length.
THEOREM OutcomeIsNamed == Spec => AnswerNamesOutcome
<1> DEFINE Step ==
      match.state = "ACTIVE" =>
        /\ (result' = "win") <=> HasLine(match'.board, match.current_turn)
        /\ (result' = "draw") <=> (IsFull(match'.board) /\ result' # "win")
<1>1. TypeOK /\ Gravity /\ OutcomeMatchesBoard /\ [Next]_vars => [Step]_vars
  <2> SUFFICES ASSUME TypeOK, Gravity, OutcomeMatchesBoard,
                      NEW player \in {First, Second}, NEW column \in Columns,
                      Move(player, column)
               PROVE  Step
    BY DEF Next
  <2>1. CASE result' \in Accepted
    BY <2>1, AcceptedOutcome
  <2>2. CASE result' \notin Accepted
    <3> SUFFICES ASSUME match.state = "ACTIVE"
                 PROVE  /\ ~HasLine(match'.board, match.current_turn)
                        /\ ~IsFull(match'.board)
      BY <2>2 DEF Accepted
    <3>1. /\ ~HasLine(match.board, match.current_turn)
          /\ \E c \in Cols : validate_move(match.board, c)
      BY DEF OutcomeMatchesBoard
    <3>2. 0 \in Rows
      BY BoardAssumption DEF Rows
    <3>3. ~IsFull(match.board)
      BY <3>1, <3>2 DEF IsFull, validate_move
    <3> QED BY <2>2, <3>1, <3>3, RefusedMove
  <2> QED BY <2>1, <2>2
<1> QED BY <1>1, PlayTypeCorrect, GravityHolds, OutcomeIsRight, PTL
     DEF Spec, AnswerNamesOutcome

\* Whose turn it is can be read from the number of discs, on a board of any size:
\* nobody moves twice in a row, and a refused move costs nobody his turn.
THEOREM PlayersAlternate == Spec => []TurnsAlternate
<1>1. Init => TurnsAlternate
  <2> SUFFICES ASSUME Init PROVE TurnsAlternate
    OBVIOUS
  <2>1. match.board = init_board /\ match.state = "ACTIVE" /\ match.current_turn = 1
    BY DEF Init, create_match, add_player_to_match
  <2>2. Discs(init_board, 1) = 0 /\ Discs(init_board, 2) = 0
    BY EmptyBoard DEF Symbols
  <2> QED BY <2>1, <2>2 DEF TurnsAlternate
<1>2. TypeOK /\ TurnsAlternate /\ [Next]_vars => TurnsAlternate'
  <2> SUFFICES ASSUME TypeOK, TurnsAlternate, [Next]_vars PROVE TurnsAlternate'
    OBVIOUS
  <2>1. CASE match' = match
    BY <2>1 DEF TurnsAlternate
  <2>2. ASSUME NEW player \in {First, Second}, NEW column \in Columns, Move(player, column),
               result' \in Accepted
        PROVE  TurnsAlternate'
    <3> DEFINE b == match.board
               s == match.current_turn
               n == match'.board
    <3>1. /\ validate_move(b, column) /\ match.state = "ACTIVE"
          /\ n = apply_move(b, column, s) /\ b \in Boards /\ s \in {1, 2}
      BY <2>2, AcceptedMove DEF TypeOK, Matches, Symbols
    <3>2. \/ match'.state = "ACTIVE" /\ match'.current_turn = 3 - s
          \/ match'.state = "FINISHED" /\ match'.current_turn = s
      BY <2>2, <3>1 DEF Move, apply_match_move, TypeOK, Matches
    <3>3. /\ Discs(b, 1) \in Nat /\ Discs(b, 2) \in Nat
          /\ Discs(n, 1) = IF s = 1 THEN Discs(b, 1) + 1 ELSE Discs(b, 1)
          /\ Discs(n, 2) = IF s = 2 THEN Discs(b, 2) + 1 ELSE Discs(b, 2)
      BY <3>1, DropAddsOneDisc DEF Symbols
    <3>4. Discs(b, 1) - Discs(b, 2) = s - 1
      BY <3>1 DEF TurnsAlternate
    <3> HIDE DEF b, s, n
    <3>5. PICK x \in Nat, y \in Nat : x = Discs(b, 1) /\ y = Discs(b, 2)
      BY <3>3
    <3>6. /\ s = 1 => Discs(n, 1) - Discs(n, 2) = 1
          /\ s = 2 => Discs(n, 1) - Discs(n, 2) = 0
      <4>1. x - y = s - 1
        BY <3>4, <3>5
      <4>2. CASE s = 1
        BY <3>3, <3>5, <4>1, <4>2
      <4>3. CASE s = 2
        BY <3>3, <3>5, <4>1, <4>3
      <4> QED BY <4>2, <4>3
    <3> QED BY <3>1, <3>2, <3>6 DEF TurnsAlternate, n
  <2> QED BY <2>1, <2>2, RefusedMove DEF Next, vars
<1> QED BY <1>1, <1>2, PlayTypeCorrect, PTL DEF Spec
=============================================================================
