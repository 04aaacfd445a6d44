------------------------------- MODULE Board -------------------------------
(***************************************************************************)
(* The Connect Four board of game.c: dropping a disc, recognising a win    *)
(* through the disc just dropped, recognising a full board.                *)
(*                                                                         *)
(* A board is a function of functions, indexed from 0 as the C array is;   *)
(* row 0 is the top one.  A cell holds 0 (empty), 1 or 2.                  *)
(***************************************************************************)
EXTENDS Integers, FiniteSets

CONSTANTS BOARD_ROWS, BOARD_COLS, WINNING_LENGTH    \* 6, 7 and 4 in game.h

ASSUME BoardAssumption == /\ BOARD_ROWS \in Nat \ {0}
                          /\ BOARD_COLS \in Nat \ {0}
                          /\ WINNING_LENGTH \in Nat \ {0, 1}

Rows == 0 .. BOARD_ROWS - 1
Cols == 0 .. BOARD_COLS - 1
Symbols == {1, 2}
Boards == [Rows -> [Cols -> {0} \cup Symbols]]

init_board == [r \in Rows |-> [c \in Cols |-> 0]]

-----------------------------------------------------------------------------
(* Dropping a disc.                                                        *)

validate_move(b, column) == column \in Cols /\ b[0][column] = 0

EmptyRows(b, column) == {r \in Rows : b[r][column] = 0}

\* A slip the checks must notice: scanning from the top instead of the bottom.
LandingRowFromTop(b, column) ==
  CHOOSE r \in EmptyRows(b, column) : \A s \in EmptyRows(b, column) : r <= s

\* The row a disc falls to: the empty one nearest the bottom.
LandingRow(b, column) ==
  CHOOSE r \in EmptyRows(b, column) : \A s \in EmptyRows(b, column) : s <= r

\* Only used on a valid move; the caller handles the -1 of game.c.
apply_move(b, column, player) ==
  [b EXCEPT ![LandingRow(b, column)][column] = player]

-----------------------------------------------------------------------------
(* The end of a game.                                                      *)

Holds(b, row, col, player) == row \in Rows /\ col \in Cols /\ b[row][col] = player

\* How many discs of player follow (row, col) without a gap in direction (dr, dc).
count_consecutive(b, row, col, player, dr, dc) ==
  CHOOSE n \in 0 .. BOARD_ROWS + BOARD_COLS :
    /\ \A i \in 1 .. n : Holds(b, row + i * dr, col + i * dc, player)
    /\ ~Holds(b, row + (n + 1) * dr, col + (n + 1) * dc, player)

\* A slip the checks must notice: the disc in the middle is counted twice.
RunThroughCountedTwice(b, row, col, player, dr, dc) ==
  count_consecutive(b, row, col, player, dr, dc)
    + count_consecutive(b, row, col, player, -dr, -dc) + 2

\* The length of the run through (row, col) along one axis, both ways.
RunThrough(b, row, col, player, dr, dc) ==
  count_consecutive(b, row, col, player, dr, dc)
    + count_consecutive(b, row, col, player, -dr, -dc) + 1

\* A slip the checks must notice: the second diagonal counted one way only.
check_win_half_diagonal(b, row, col, player) ==
  \/ RunThrough(b, row, col, player, 0, 1) >= WINNING_LENGTH
  \/ count_consecutive(b, row, col, player, 1, 0) + 1 >= WINNING_LENGTH
  \/ RunThrough(b, row, col, player, 1, 1) >= WINNING_LENGTH
  \/ count_consecutive(b, row, col, player, 1, -1) + 1 >= WINNING_LENGTH

\* Upwards there is nothing to count: the disc has just landed on top.
check_win(b, row, col, player) ==
  \/ RunThrough(b, row, col, player, 0, 1) >= WINNING_LENGTH
  \/ count_consecutive(b, row, col, player, 1, 0) + 1 >= WINNING_LENGTH
  \/ RunThrough(b, row, col, player, 1, 1) >= WINNING_LENGTH
  \/ RunThrough(b, row, col, player, 1, -1) >= WINNING_LENGTH

check_draw(b) == \A c \in Cols : b[0][c] # 0

-----------------------------------------------------------------------------
(* The rules of the game, against which the code above is judged.  They    *)
(* look at the whole board and know nothing of the last disc.              *)

Directions == {<<0, 1>>, <<1, 0>>, <<1, 1>>, <<1, -1>>}

HasLine(b, symbol) ==
  \E r \in Rows, c \in Cols, d \in Directions :
    \A k \in 0 .. WINNING_LENGTH - 1 : Holds(b, r + k * d[1], c + k * d[2], symbol)

IsFull(b) == \A r \in Rows, c \in Cols : b[r][c] # 0

\* No disc hangs over an empty cell.
Settled(b) == \A r \in Rows, c \in Cols :
                (b[r][c] # 0 /\ r + 1 \in Rows) => b[r + 1][c] # 0

Discs(b, symbol) == Cardinality({rc \in Rows \X Cols : b[rc[1]][rc[2]] = symbol})
=============================================================================
