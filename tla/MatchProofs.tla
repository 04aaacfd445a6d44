---------------------------- MODULE MatchProofs ----------------------------
(***************************************************************************)
(* What the operators of modules Board and Match return, for every size of *)
(* board and queue: the facts the proofs about a game (PlayProofs) and     *)
(* about the server (ServerProofs) rest on.                                *)
(*                                                                         *)
(* A dropped disc fills one cell and hangs over none.  check_win looks at  *)
(* the lines through the last disc only and check_draw at the top row      *)
(* only, and still they find every line and every full board.              *)
(*                                                                         *)
(* The argument for check_win: look at one axis through the last disc as a *)
(* set of integers, the offsets at which the player has a disc (Axis).     *)
(* The two scans find how far that set reaches from 0 without a gap; a     *)
(* line through the disc is an interval of it around 0; and a line that is *)
(* new must go through the disc.                                           *)
(***************************************************************************)
EXTENDS Match, TLAPS, WellFoundedInduction, SequenceTheorems, FiniteSetTheorems

-----------------------------------------------------------------------------
(* First and last elements.  The code scans for the empty cell nearest the *)
(* bottom (LandingRow) and for the first place of a player in the queue    *)
(* (QueuePosition); that there is one comes from < being well-founded.     *)

Below == {ss \in Nat \X Nat : ss[1] < ss[2]}

LEMMA BelowWellFounded == IsWellFoundedOn(Below, Nat)
BY NatLessThanWellFounded, SMT DEF OpToRel, Below

\* Every set of naturals with an element has a least one.
LEMMA LeastExists ==
  ASSUME NEW T \in SUBSET Nat, T # {}
  PROVE  \E t \in T : \A u \in T : t <= u
<1>1. PICK t \in T : \A u \in T : ~(<<u, t>> \in Below)
  BY BelowWellFounded, WFMin
<1>2. ASSUME NEW u \in T PROVE t <= u
  <2>1. ~(<<u, t>> \in Below)
    BY <1>1
  <2>2. ~(u < t)
    BY <2>1, SMT DEF Below
  <2> QED BY <2>2
<1> QED BY <1>2

\* A set of naturals bounded by N with an element has a greatest one.
LEMMA GreatestExists ==
  ASSUME NEW N \in Nat, NEW S \in SUBSET (0 .. N), S # {}
  PROVE  \E x \in S : \A y \in S : y <= x
<1> DEFINE T == {n \in 0 .. N : N - n \in S}
<1>1. PICK s \in S : TRUE
  OBVIOUS
<1>2. N - (N - s) = s /\ N - s \in 0 .. N
  BY <1>1
<1>3. N - s \in T
  BY <1>1, <1>2
<1>4. T \in SUBSET Nat /\ T # {}
  BY <1>3
<1>5. PICK t \in T : \A u \in T : t <= u
  <2> HIDE DEF T
  <2> QED BY <1>4, LeastExists
<1>6. ASSUME NEW y \in S PROVE y <= N - t
  <2>1. y \in 0 .. N /\ N - (N - y) = y
    OBVIOUS
  <2>2. N - y \in T
    BY <2>1
  <2>3. t <= N - y /\ t \in 0 .. N
    BY <2>2, <1>5
  <2> QED BY <2>1, <2>3
<1> QED BY <1>5, <1>6

-----------------------------------------------------------------------------
(* Every operation on a match returns a match.                             *)

LEMMA DropType ==
  ASSUME NEW b \in Boards, NEW column, NEW s \in Symbols
  PROVE  apply_move(b, column, s) \in Boards
<1> DEFINE r == LandingRow(b, column)
<1>1. [b[r] EXCEPT ![column] = s] \in [Cols -> {0} \cup Symbols] \/ r \notin Rows
  BY DEF Boards
<1> QED BY <1>1 DEF apply_move, Boards

LEMMA NobodyQueues == << >> \in Seq(Players)
OBVIOUS

\* The records the operations build, with the values they write as variables.
LEMMA QueueWriteType ==
  ASSUME NEW m \in Matches, NEW q \in Seq(Players)
  PROVE  [m EXCEPT !.join_queue = q] \in Matches
BY DEF Matches

LEMMA BoardWriteType ==
  ASSUME NEW m \in Matches,
         NEW b \in Boards, NEW st \in MatchStates, NEW t \in Symbols
  PROVE  [m EXCEPT !.board = b, !.state = st, !.current_turn = t] \in Matches
BY DEF Matches

LEMMA CreateType ==
  ASSUME NEW p \in Players
  PROVE  create_match(p) \in Matches
<1>1. init_board \in Boards
  BY DEF init_board, Boards
<1> QED BY <1>1, MatchAssumption DEF create_match, Matches, MatchStates, Symbols

LEMMA MoveType ==
  ASSUME NEW m \in Matches, NEW p \in Players, NEW column
  PROVE  apply_match_move(m, p, column) \in Matches
<1>1. apply_move(m.board, column, m.current_turn) \in Boards
  BY DropType DEF Matches
<1> DEFINE result == MoveResult(m, p, column)
           st == IF result = "ok" THEN m.state ELSE "FINISHED"
           t  == IF result = "ok" THEN 3 - m.current_turn ELSE m.current_turn
<1>2. st \in MatchStates /\ t \in Symbols
  BY DEF Matches, MatchStates, Symbols
<1> HIDE DEF st, t
<1>3. [m EXCEPT !.board = apply_move(m.board, column, m.current_turn),
                !.state = st, !.current_turn = t] \in Matches
  BY <1>1, <1>2, BoardWriteType
<1> QED BY <1>3 DEF apply_match_move, st, t

LEMMA ClearedType ==
  ASSUME NEW m \in Matches
  PROVE  ClearedSession(m) \in Matches
<1>1. init_board \in Boards
  BY DEF init_board, Boards
<1> DEFINE n == [m EXCEPT !.board = init_board, !.current_turn = 1,
                          !.pending_requester_id = NoPlayer,
                          !.withdrawn_requester_id = NoPlayer]
<1>2. n \in Matches
  BY <1>1 DEF Matches, Symbols
<1> HIDE DEF n
<1>3. [n EXCEPT !.join_queue = << >>, !.rejected_players = {},
                !.winner_id = NoPlayer,
                !.rematch_vote_p1 = 0, !.rematch_vote_p2 = 0] \in Matches
  BY <1>2, NobodyQueues DEF Matches
<1> QED BY <1>3 DEF ClearedSession, n

-----------------------------------------------------------------------------
(* Leaving the queue.                                                      *)

\* What RemoveAt of SequencesExt keeps: the elements at the other positions,
\* in their order.
LEMMA RemoveAtIsSeq ==
  ASSUME NEW S, NEW s \in Seq(S), NEW i \in 1 .. Len(s)
  PROVE  /\ RemoveAt(s, i) \in Seq(S)
         /\ Len(RemoveAt(s, i)) = Len(s) - 1
         /\ \A k \in 1 .. Len(s) - 1 :
              RemoveAt(s, i)[k] = IF k < i THEN s[k] ELSE s[k + 1]
<1> DEFINE a == SubSeq(s, 1, i - 1)
           b == SubSeq(s, i + 1, Len(s))
<1>1. /\ a \in Seq(S) /\ Len(a) = i - 1
      /\ \A k \in 1 .. i - 1 : a[k] = s[k]
  BY SubSeqProperties
<1>2. /\ b \in Seq(S) /\ Len(b) = Len(s) - i
      /\ \A k \in 1 .. Len(s) - i : b[k] = s[k + i]
  BY SubSeqProperties
<1> HIDE DEF a, b
<1>3. Len(s) \in Nat /\ Len(a) + Len(b) = Len(s) - 1
  BY <1>1, <1>2
<1>4. a \o b \in Seq(S) /\ Len(a \o b) = Len(s) - 1
  BY <1>1, <1>2, <1>3, ConcatProperties
<1>5. ASSUME NEW k \in 1 .. Len(s) - 1
      PROVE  (a \o b)[k] = IF k < i THEN s[k] ELSE s[k + 1]
  <2>1. (a \o b)[k] = IF k <= Len(a) THEN a[k] ELSE b[k - Len(a)]
    BY <1>1, <1>2, <1>3, ConcatProperties
  <2>2. CASE k < i
    BY <2>1, <2>2, <1>1, <1>3
  <2>3. CASE ~(k < i)
    <3>1. k - Len(a) \in 1 .. Len(s) - i /\ k - Len(a) + i = k + 1
      BY <2>3, <1>1, <1>3
    <3>2. ~(k <= Len(a))
      BY <2>3, <1>1
    <3>3. b[k - Len(a)] = s[k - Len(a) + i]
      BY <3>1, <1>2
    <3>4. s[k - Len(a) + i] = s[k + 1]
      BY <3>1
    <3> QED BY <2>1, <2>3, <3>2, <3>3, <3>4
  <2> QED BY <2>2, <2>3
<1> QED BY <1>4, <1>5 DEF RemoveAt, a, b

LEMMA QueuePositionIsFirst ==
  ASSUME NEW m \in Matches, NEW p \in ToSet(m.join_queue)
  PROVE  LET i == QueuePosition(m, p)
         IN  i \in 1 .. Len(m.join_queue) /\ m.join_queue[i] = p
<1> DEFINE q == m.join_queue
           T == {i \in 1 .. Len(q) : q[i] = p}
<1>1. q \in Seq(Players) /\ Len(q) \in Nat /\ DOMAIN q = 1 .. Len(q)
  BY DEF Matches
<1>2. T \in SUBSET Nat /\ T # {}
  BY <1>1 DEF ToSet
<1>3. PICK i \in T : \A j \in T : i <= j
  <2> HIDE DEF T
  <2> QED BY <1>2, LeastExists
<1>4. \E k \in DOMAIN q : q[k] = p /\ \A j \in 1 .. k - 1 : q[j] # p
  <2>1. \A j \in 1 .. i - 1 : q[j] # p
    BY <1>1, <1>3
  <2> QED BY <2>1, <1>1
<1> QED BY <1>1, <1>4 DEF QueuePosition

-----------------------------------------------------------------------------
(* Dropping a disc.                                                        *)

\* On a valid move the disc lands on the empty cell nearest the bottom.
LEMMA LandingRowIsLowest ==
  ASSUME NEW b \in Boards, NEW column, validate_move(b, column)
  PROVE  /\ LandingRow(b, column) \in Rows
         /\ b[LandingRow(b, column)][column] = 0
         /\ \A r \in Rows : b[r][column] = 0 => r <= LandingRow(b, column)
<1> DEFINE E == EmptyRows(b, column)
<1>1. BOARD_ROWS - 1 \in Nat /\ 0 \in Rows
  BY BoardAssumption DEF Rows
<1>2. E \in SUBSET (0 .. BOARD_ROWS - 1) /\ E # {}
  BY <1>1 DEF EmptyRows, Rows, validate_move
<1>3. \E r \in E : \A s \in E : s <= r
  <2> HIDE DEF E
  <2> QED BY <1>1, <1>2, GreatestExists
<1>4. LandingRow(b, column) \in E /\ \A s \in E : s <= LandingRow(b, column)
  BY <1>3 DEF LandingRow
<1> QED BY <1>4 DEF EmptyRows

\* apply_move fills that cell and leaves the others.
LEMMA DropFillsOneCell ==
  ASSUME NEW b \in Boards, NEW column \in Cols, NEW s \in Symbols,
         LandingRow(b, column) \in Rows
  PROVE  \A r \in Rows, c \in Cols :
           apply_move(b, column, s)[r][c] =
             IF r = LandingRow(b, column) /\ c = column THEN s ELSE b[r][c]
<1> DEFINE row == LandingRow(b, column)
<1> HIDE DEF row
<1>1. \A r \in Rows, c \in Cols :
        [b EXCEPT ![row][column] = s][r][c] = IF r = row /\ c = column THEN s ELSE b[r][c]
  BY DEF Boards
<1> QED BY <1>1 DEF apply_move, row

\* A disc never comes to hang over an empty cell.
LEMMA DropKeepsSettled ==
  ASSUME NEW b \in Boards, Settled(b), NEW column, validate_move(b, column),
         NEW s \in Symbols
  PROVE  Settled(apply_move(b, column, s))
<1> DEFINE row == LandingRow(b, column)
           n   == apply_move(b, column, s)
<1>1. /\ column \in Cols /\ row \in Rows /\ b[row][column] = 0
      /\ \A r \in Rows : b[r][column] = 0 => r <= row
  BY LandingRowIsLowest DEF validate_move
<1>2. \A r \in Rows, c \in Cols : n[r][c] = IF r = row /\ c = column THEN s ELSE b[r][c]
  BY <1>1, DropFillsOneCell
<1>3. s # 0 /\ \A r \in Rows : r \in Int
  BY BoardAssumption DEF Symbols, Rows
<1> HIDE DEF n, row
<1>4. ASSUME NEW r \in Rows, NEW c \in Cols, n[r][c] # 0, r + 1 \in Rows
      PROVE  n[r + 1][c] # 0
  <2>1. CASE r = row /\ c = column
    <3>1. ~(r + 1 <= row)
      BY <1>3, <2>1
    <3> QED BY <1>1, <1>2, <1>4, <2>1, <3>1
  <2>2. CASE ~(r = row /\ c = column)
    BY <1>2, <1>3, <1>4, <2>2 DEF Settled
  <2> QED BY <2>1, <2>2
<1> QED BY <1>4 DEF Settled, n

-----------------------------------------------------------------------------
(* The axes through a disc.                                                *)

Steps == {-1, 0, 1}

Axis(b, row, col, s, dr, dc) ==
  {k \in Int : Holds(b, row + k * dr, col + k * dc, s)}

\* H holds WINNING_LENGTH consecutive integers, 0 among them.
LineAround(H) ==
  \E a \in Int : /\ a <= 0 /\ 0 < a + WINNING_LENGTH
                 /\ \A k \in 0 .. WINNING_LENGTH - 1 : a + k \in H

-----------------------------------------------------------------------------
(* Arithmetic along an axis.                                               *)

LEMMA StepArithmetic ==
  ASSUME NEW d \in Steps, NEW x \in Int, NEW y \in Int
  PROVE  /\ x * d \in Int
         /\ (x + y) * d = x * d + y * d
         /\ (-x) * d = x * (-d)
         /\ 0 * d = 0
         /\ -d \in Steps
<1>1. d \in Int /\ -d = 0 - d /\ -x = 0 - x
  BY DEF Steps
<1>2. CASE d = 0 - 1
  <2>1. 0 - d = 1 /\ x * (0 - 1) = 0 - x /\ (0 - x) * (0 - 1) = x * 1
    BY <1>2
  <2>2. (x + y) * (0 - 1) = x * (0 - 1) + y * (0 - 1) /\ 0 * (0 - 1) = 0
    OBVIOUS
  <2> QED BY <1>1, <1>2, <2>1, <2>2 DEF Steps
<1>3. CASE d = 0
  <2>1. 0 - d = 0 /\ x * 0 = 0 /\ y * 0 = 0 /\ (x + y) * 0 = 0 /\ (0 - x) * 0 = 0 /\ 0 + 0 = 0
    BY <1>3
  <2> QED BY <1>1, <1>3, <2>1 DEF Steps
<1>4. CASE d = 1
  <2>1. 0 - d = -1 /\ x * 1 = x /\ (0 - x) * 1 = 0 - x /\ (x + y) * 1 = x + y /\ x * (-1) = 0 - x
    BY <1>4
  <2> QED BY <1>1, <1>4, <2>1 DEF Steps
<1>5. d = 0 - 1 \/ d = 0 \/ d = 1
  BY DEF Steps
<1> QED BY <1>2, <1>3, <1>4, <1>5

\* The disc itself is at offset 0.
LEMMA DiscIsOnAxis ==
  ASSUME NEW b, NEW s, NEW row \in Rows, NEW col \in Cols, b[row][col] = s,
         NEW dr \in Steps, NEW dc \in Steps
  PROVE  0 \in Axis(b, row, col, s, dr, dc)
<1>1. row \in Int /\ col \in Int
  BY BoardAssumption DEF Rows, Cols
<1>2. 0 * dr = 0 /\ 0 * dc = 0
  BY StepArithmetic
<1>3. row + 0 * dr = row /\ col + 0 * dc = col
  BY <1>1, <1>2
<1> QED BY <1>3 DEF Axis, Holds

\* Far enough along an axis there is no board.
LEMMA AxisLeavesBoard ==
  ASSUME NEW b, NEW s, NEW row \in Rows, NEW col \in Cols,
         NEW dr \in Steps, NEW dc \in Steps, dr # 0 \/ dc # 0
  PROVE  BOARD_ROWS + BOARD_COLS + 1 \notin Axis(b, row, col, s, dr, dc)
<1> DEFINE N == BOARD_ROWS + BOARD_COLS + 1
<1>1. /\ BOARD_ROWS \in Nat /\ BOARD_COLS \in Nat /\ N \in Int
      /\ row \in Int /\ row >= 0 /\ row < BOARD_ROWS
      /\ col \in Int /\ col >= 0 /\ col < BOARD_COLS
  BY BoardAssumption DEF Rows, Cols
<1>2. CASE dr = 1
  <2>1. row + N * dr = row + N
    BY <1>1, <1>2
  <2>2. row + N \notin Rows
    BY <1>1 DEF Rows
  <2> QED BY <2>1, <2>2 DEF Axis, Holds
<1>3. CASE dr = -1
  <2>1. row + N * dr = row - N
    BY <1>1, <1>3
  <2>2. row - N \notin Rows
    BY <1>1 DEF Rows
  <2> QED BY <2>1, <2>2 DEF Axis, Holds
<1>4. CASE dc = 1
  <2>1. col + N * dc = col + N
    BY <1>1, <1>4
  <2>2. col + N \notin Cols
    BY <1>1 DEF Cols
  <2> QED BY <2>1, <2>2 DEF Axis, Holds
<1>5. CASE dc = -1
  <2>1. col + N * dc = col - N
    BY <1>1, <1>5
  <2>2. col - N \notin Cols
    BY <1>1 DEF Cols
  <2> QED BY <2>1, <2>2 DEF Axis, Holds
<1> QED BY <1>2, <1>3, <1>4, <1>5 DEF Steps

-----------------------------------------------------------------------------
(* What the scans of check_win return.                                     *)

\* count_consecutive returns how far the axis reaches forwards from the disc.
LEMMA CountForwards ==
  ASSUME NEW b, NEW s, NEW row \in Rows, NEW col \in Cols,
         NEW dr \in Steps, NEW dc \in Steps, dr # 0 \/ dc # 0
  PROVE  LET n == count_consecutive(b, row, col, s, dr, dc)
             H == Axis(b, row, col, s, dr, dc)
         IN  /\ n \in Nat
             /\ \A i \in 1 .. n : i \in H
             /\ n + 1 \notin H
<1> DEFINE H == Axis(b, row, col, s, dr, dc)
           N == BOARD_ROWS + BOARD_COLS
           T == {k \in Nat : k + 1 \notin H}
<1>1. N \in Nat
  BY BoardAssumption
<1>2. N \in T
  BY <1>1, AxisLeavesBoard
<1>3. \A k \in Int : k \in H <=> Holds(b, row + k * dr, col + k * dc, s)
  BY DEF Axis
<1> HIDE DEF H
<1>4. PICK t \in T : \A u \in T : t <= u
  <2>1. T \in SUBSET Nat /\ T # {}
    BY <1>2
  <2> HIDE DEF T
  <2> QED BY <2>1, LeastExists
<1>5. t \in 0 .. N
  BY <1>1, <1>2, <1>4
<1>6. ASSUME NEW i \in 1 .. t PROVE i \in H
  <2>1. i - 1 \in Nat /\ ~(t <= i - 1) /\ (i - 1) + 1 = i
    BY <1>5
  <2>2. i - 1 \notin T
    BY <1>4, <2>1
  <2> QED BY <2>1, <2>2
<1>7. t + 1 \notin H
  BY <1>4
<1>8. \E n \in 0 .. N : /\ \A i \in 1 .. n : Holds(b, row + i * dr, col + i * dc, s)
                        /\ ~Holds(b, row + (n + 1) * dr, col + (n + 1) * dc, s)
  <2>1. \A i \in 1 .. t : Holds(b, row + i * dr, col + i * dc, s)
    BY <1>3, <1>6
  <2>2. t + 1 \in Int
    BY <1>5
  <2>3. ~Holds(b, row + (t + 1) * dr, col + (t + 1) * dc, s)
    BY <1>3, <1>7, <2>2
  <2> QED BY <1>5, <2>1, <2>3
<1> DEFINE n == count_consecutive(b, row, col, s, dr, dc)
<1>9. /\ n \in 0 .. N
      /\ \A i \in 1 .. n : Holds(b, row + i * dr, col + i * dc, s)
      /\ ~Holds(b, row + (n + 1) * dr, col + (n + 1) * dc, s)
  BY <1>8 DEF count_consecutive
<1> HIDE DEF n
<1>10. n \in Nat /\ n + 1 \in Int /\ \A i \in 1 .. n : i \in Int
  BY <1>1, <1>9
<1>11. /\ n \in Nat
       /\ \A i \in 1 .. n : i \in H
       /\ n + 1 \notin H
  BY <1>3, <1>9, <1>10
<1> QED BY <1>11 DEF n, H

\* In the opposite direction it returns how far the axis reaches backwards.
LEMMA CountBackwards ==
  ASSUME NEW b, NEW s, NEW row \in Rows, NEW col \in Cols,
         NEW dr \in Steps, NEW dc \in Steps, dr # 0 \/ dc # 0
  PROVE  LET n == count_consecutive(b, row, col, s, -dr, -dc)
             H == Axis(b, row, col, s, dr, dc)
         IN  /\ n \in Nat
             /\ \A i \in 1 .. n : -i \in H
             /\ -(n + 1) \notin H
<1> DEFINE n == count_consecutive(b, row, col, s, -dr, -dc)
           H == Axis(b, row, col, s, dr, dc)
           G == Axis(b, row, col, s, -dr, -dc)
<1>1. -dr \in Steps /\ -dc \in Steps /\ (-dr # 0 \/ -dc # 0)
  BY DEF Steps
<1>2. n \in Nat /\ (\A i \in 1 .. n : i \in G) /\ n + 1 \notin G
  BY <1>1, CountForwards
<1>3. ASSUME NEW k \in Int PROVE k \in G <=> -k \in H
  <2>1. (-k) * dr = k * (-dr) /\ (-k) * dc = k * (-dc) /\ -k \in Int
    BY StepArithmetic
  <2> QED BY <2>1 DEF Axis
<1> HIDE DEF n, H, G
<1>4. n + 1 \in Int /\ \A i \in 1 .. n : i \in Int
  BY <1>2
<1>5. n \in Nat /\ (\A i \in 1 .. n : -i \in H) /\ -(n + 1) \notin H
  BY <1>2, <1>3, <1>4
<1> QED BY <1>5 DEF n, H

\* A set of integers that reaches from 0 p steps forwards and q backwards, and
\* no further, holds W consecutive ones around 0 exactly when p + q + 1 >= W.
LEMMA Intervals ==
  ASSUME NEW H, 0 \in H, NEW p \in Nat, NEW q \in Nat, NEW W \in Nat \ {0},
         \A i \in 1 .. p : i \in H, p + 1 \notin H,
         \A i \in 1 .. q : -i \in H, -(q + 1) \notin H
  PROVE  (\E a \in Int : a <= 0 /\ 0 < a + W /\ \A k \in 0 .. W - 1 : a + k \in H)
           <=> p + q + 1 >= W
<1>1. ASSUME NEW a \in Int, a <= 0, 0 < a + W, \A k \in 0 .. W - 1 : a + k \in H
      PROVE  p + q + 1 >= W
  <2>1. -q <= a
    <3> SUFFICES ASSUME a < -q PROVE FALSE
      OBVIOUS
    <3>1. -(q + 1) - a \in 0 .. W - 1 /\ a + (-(q + 1) - a) = -(q + 1)
      BY <1>1
    <3> QED BY <1>1, <3>1
  <2>2. a + W - 1 <= p
    <3> SUFFICES ASSUME p < a + W - 1 PROVE FALSE
      OBVIOUS
    <3>1. p + 1 - a \in 0 .. W - 1 /\ a + (p + 1 - a) = p + 1
      BY <1>1
    <3> QED BY <1>1, <3>1
  <2> QED BY <2>1, <2>2
<1>2. ASSUME p + q + 1 >= W
      PROVE  \E a \in Int : a <= 0 /\ 0 < a + W /\ \A k \in 0 .. W - 1 : a + k \in H
  <2>1. \A j \in Int : -q <= j /\ j <= p => j \in H
    <3> SUFFICES ASSUME NEW j \in Int, -q <= j, j <= p PROVE j \in H
      OBVIOUS
    <3>1. CASE j = 0
      BY <3>1
    <3>2. CASE j > 0
      <4>1. j \in 1 .. p
        BY <3>2
      <4> QED BY <4>1
    <3>3. CASE j < 0
      <4>1. -j \in 1 .. q /\ -(-j) = j
        BY <3>3
      <4> QED BY <4>1
    <3> QED BY <3>1, <3>2, <3>3
  <2>2. CASE q >= W - 1
    <3> DEFINE a == 1 - W
    <3>1. a \in Int /\ a <= 0 /\ 0 < a + W
      OBVIOUS
    <3>2. \A k \in 0 .. W - 1 : a + k \in Int /\ -q <= a + k /\ a + k <= p
      BY <2>2
    <3> QED BY <2>1, <3>1, <3>2
  <2>3. CASE q < W - 1
    <3> DEFINE a == -q
    <3>1. a \in Int /\ a <= 0 /\ 0 < a + W
      BY <2>3
    <3>2. \A k \in 0 .. W - 1 : a + k \in Int /\ -q <= a + k /\ a + k <= p
      BY <1>2
    <3> QED BY <2>1, <3>1, <3>2
  <2> QED BY <2>2, <2>3
<1> QED BY <1>1, <1>2

\* Both scans of one axis together recognise a line on that axis.
LEMMA RunThroughIsLine ==
  ASSUME NEW b, NEW s, NEW row \in Rows, NEW col \in Cols, b[row][col] = s,
         NEW dr \in Steps, NEW dc \in Steps, dr # 0 \/ dc # 0
  PROVE  RunThrough(b, row, col, s, dr, dc) >= WINNING_LENGTH
           <=> LineAround(Axis(b, row, col, s, dr, dc))
<1> DEFINE p == count_consecutive(b, row, col, s, dr, dc)
           q == count_consecutive(b, row, col, s, -dr, -dc)
           H == Axis(b, row, col, s, dr, dc)
<1>1. p \in Nat /\ (\A i \in 1 .. p : i \in H) /\ p + 1 \notin H
  BY CountForwards
<1>2. q \in Nat /\ (\A i \in 1 .. q : -i \in H) /\ -(q + 1) \notin H
  BY CountBackwards
<1>3. 0 \in H
  BY DiscIsOnAxis
<1> HIDE DEF p, q, H
<1>4. LineAround(H) <=> p + q + 1 >= WINNING_LENGTH
  BY <1>1, <1>2, <1>3, Intervals, BoardAssumption DEF LineAround
<1> QED BY <1>4 DEF RunThrough, p, q, H

\* Downwards from a disc with nothing of its own above it, one scan does.
LEMMA RunDownIsLine ==
  ASSUME NEW b, NEW s, NEW row \in Rows, NEW col \in Cols, b[row][col] = s,
         ~Holds(b, row - 1, col, s)
  PROVE  count_consecutive(b, row, col, s, 1, 0) + 1 >= WINNING_LENGTH
           <=> LineAround(Axis(b, row, col, s, 1, 0))
<1> DEFINE p == count_consecutive(b, row, col, s, 1, 0)
           H == Axis(b, row, col, s, 1, 0)
<1>1. p \in Nat /\ (\A i \in 1 .. p : i \in H) /\ p + 1 \notin H
  BY CountForwards DEF Steps
<1>2. 0 \in H
  BY DiscIsOnAxis DEF Steps
<1>3. -(0 + 1) \notin H
  <2>1. row \in Int /\ col \in Int
    BY BoardAssumption DEF Rows, Cols
  <2>2. -(0 + 1) \in Int /\ row + (-(0 + 1)) * 1 = row - 1 /\ col + (-(0 + 1)) * 0 = col
    BY <2>1
  <2> QED BY <2>2 DEF Axis
<1> HIDE DEF p, H
<1>4. \A i \in 1 .. 0 : -i \in H
  OBVIOUS
<1>5. LineAround(H) <=> p + 0 + 1 >= WINNING_LENGTH
  BY <1>1, <1>2, <1>3, <1>4, Intervals, BoardAssumption DEF LineAround
<1> QED BY <1>1, <1>5 DEF p, H

\* So check_win recognises every line through the disc.
LEMMA CheckWinSeesLines ==
  ASSUME NEW b, NEW s, NEW row \in Rows, NEW col \in Cols, b[row][col] = s,
         ~Holds(b, row - 1, col, s)
  PROVE  check_win(b, row, col, s)
           <=> \E d \in Directions : LineAround(Axis(b, row, col, s, d[1], d[2]))
<1>1. /\ -1 \in Steps /\ 0 \in Steps /\ 1 \in Steps /\ 1 # 0
  BY DEF Steps
<1>2. RunThrough(b, row, col, s, 0, 1) >= WINNING_LENGTH
        <=> LineAround(Axis(b, row, col, s, 0, 1))
  BY <1>1, RunThroughIsLine
<1>3. RunThrough(b, row, col, s, 1, 1) >= WINNING_LENGTH
        <=> LineAround(Axis(b, row, col, s, 1, 1))
  BY <1>1, RunThroughIsLine
<1>4. RunThrough(b, row, col, s, 1, -1) >= WINNING_LENGTH
        <=> LineAround(Axis(b, row, col, s, 1, -1))
  BY <1>1, RunThroughIsLine
<1>5. count_consecutive(b, row, col, s, 1, 0) + 1 >= WINNING_LENGTH
        <=> LineAround(Axis(b, row, col, s, 1, 0))
  BY RunDownIsLine
<1> DEFINE Seen(d) == LineAround(Axis(b, row, col, s, d[1], d[2]))
<1>6. /\ Seen(<<0, 1>>) <=> LineAround(Axis(b, row, col, s, 0, 1))
      /\ Seen(<<1, 0>>) <=> LineAround(Axis(b, row, col, s, 1, 0))
      /\ Seen(<<1, 1>>) <=> LineAround(Axis(b, row, col, s, 1, 1))
      /\ Seen(<<1, -1>>) <=> LineAround(Axis(b, row, col, s, 1, -1))
  OBVIOUS
<1> HIDE DEF Seen
<1>7. (\E d \in Directions : Seen(d))
        <=> Seen(<<0, 1>>) \/ Seen(<<1, 0>>) \/ Seen(<<1, 1>>) \/ Seen(<<1, -1>>)
  BY DEF Directions
<1>8. check_win(b, row, col, s) <=> \E d \in Directions : Seen(d)
  BY <1>2, <1>3, <1>4, <1>5, <1>6, <1>7 DEF check_win
<1> QED BY <1>8 DEF Seen

-----------------------------------------------------------------------------
(* The disc just dropped.                                                  *)

\* A line of s that the cell (row, col) completed goes through that cell.
LEMMA NewLineIsAround ==
  ASSUME NEW old, NEW b, NEW s, NEW row \in Rows, NEW col \in Cols,
         \A r \in Rows, c \in Cols :
           b[r][c] = IF r = row /\ c = col THEN s ELSE old[r][c],
         ~HasLine(old, s), HasLine(b, s)
  PROVE  \E d \in Directions : LineAround(Axis(b, row, col, s, d[1], d[2]))
<1> DEFINE W == WINNING_LENGTH
<1>1. PICK r \in Rows, c \in Cols, d \in Directions :
        \A k \in 0 .. W - 1 : Holds(b, r + k * d[1], c + k * d[2], s)
  BY DEF HasLine
<1>2. PICK k0 \in 0 .. W - 1 : ~Holds(old, r + k0 * d[1], c + k0 * d[2], s)
  BY DEF HasLine
<1>3. r + k0 * d[1] = row /\ c + k0 * d[2] = col
  BY <1>1, <1>2 DEF Holds
<1>4. d[1] \in Steps /\ d[2] \in Steps /\ r \in Int /\ c \in Int /\ W \in Nat /\ k0 \in Int
  BY BoardAssumption DEF Directions, Steps, Rows, Cols
<1>5. -k0 \in Int /\ -k0 <= 0 /\ 0 < -k0 + W
  BY <1>4
<1>6. ASSUME NEW k \in 0 .. W - 1
      PROVE  -k0 + k \in Axis(b, row, col, s, d[1], d[2])
  <2> DEFINE e == -k0 + k
  <2>1. e \in Int /\ k0 + e = k
    BY <1>4
  <2> HIDE DEF e
  <2>2. /\ (k0 + e) * d[1] = k0 * d[1] + e * d[1]
        /\ (k0 + e) * d[2] = k0 * d[2] + e * d[2]
    BY <1>4, <2>1, StepArithmetic
  <2>3. /\ k0 * d[1] \in Int /\ e * d[1] \in Int
        /\ k0 * d[2] \in Int /\ e * d[2] \in Int
    BY <1>4, <2>1, StepArithmetic
  <2>4. row + e * d[1] = r + k * d[1] /\ col + e * d[2] = c + k * d[2]
    <3> DEFINE u1 == k0 * d[1]
               u2 == k0 * d[2]
               v1 == e * d[1]
               v2 == e * d[2]
    <3>1. u1 \in Int /\ v1 \in Int /\ u2 \in Int /\ v2 \in Int
      BY <2>3
    <3>2. k * d[1] = u1 + v1 /\ k * d[2] = u2 + v2 /\ r + u1 = row /\ c + u2 = col
      BY <1>3, <2>1, <2>2
    <3> HIDE DEF u1, u2, v1, v2
    <3>3. row + v1 = r + (u1 + v1) /\ col + v2 = c + (u2 + v2)
      BY <1>4, <3>1, <3>2
    <3>4. row + v1 = r + k * d[1] /\ col + v2 = c + k * d[2]
      BY <3>2, <3>3
    <3> QED BY <3>4 DEF v1, v2
  <2>5. Holds(b, r + k * d[1], c + k * d[2], s)
    BY <1>1
  <2>6. e \in Axis(b, row, col, s, d[1], d[2])
    BY <2>1, <2>4, <2>5 DEF Axis
  <2> QED BY <2>6 DEF e
<1> QED BY <1>5, <1>6 DEF LineAround

\* And a line through the cell is a line of the board.
LEMMA LineAroundIsLine ==
  ASSUME NEW b, NEW s, NEW row \in Rows, NEW col \in Cols, NEW d \in Directions,
         LineAround(Axis(b, row, col, s, d[1], d[2]))
  PROVE  HasLine(b, s)
<1> DEFINE W == WINNING_LENGTH
           H == Axis(b, row, col, s, d[1], d[2])
<1>1. PICK a \in Int : \A k \in 0 .. W - 1 : a + k \in H
  BY DEF LineAround
<1>2. d[1] \in Steps /\ d[2] \in Steps /\ row \in Int /\ col \in Int /\ W \in Nat \ {0}
  BY BoardAssumption DEF Directions, Steps, Rows, Cols
<1>3. a * d[1] \in Int /\ a * d[2] \in Int
  BY <1>2, StepArithmetic
<1> DEFINE r == row + a * d[1]
           c == col + a * d[2]
<1>4. ASSUME NEW k \in 0 .. W - 1 PROVE Holds(b, r + k * d[1], c + k * d[2], s)
  <2>1. Holds(b, row + (a + k) * d[1], col + (a + k) * d[2], s)
    BY <1>1 DEF Axis
  <2>2. /\ (a + k) * d[1] = a * d[1] + k * d[1]
        /\ (a + k) * d[2] = a * d[2] + k * d[2]
        /\ k * d[1] \in Int /\ k * d[2] \in Int
    <3>1. k \in Int
      OBVIOUS
    <3> QED BY <1>2, <3>1, StepArithmetic
  <2>3. row + (a + k) * d[1] = r + k * d[1] /\ col + (a + k) * d[2] = c + k * d[2]
    <3> DEFINE u1 == a * d[1]
               u2 == a * d[2]
               v1 == k * d[1]
               v2 == k * d[2]
    <3>1. u1 \in Int /\ v1 \in Int /\ u2 \in Int /\ v2 \in Int
      BY <1>3, <2>2
    <3>2. (a + k) * d[1] = u1 + v1 /\ (a + k) * d[2] = u2 + v2
      BY <2>2
    <3>3. row + (u1 + v1) = (row + u1) + v1 /\ col + (u2 + v2) = (col + u2) + v2
      <4> HIDE DEF u1, u2, v1, v2
      <4> QED BY <1>2, <3>1
    <3> QED BY <3>2, <3>3
  <2> QED BY <2>1, <2>3
<1>5. r \in Rows /\ c \in Cols
  <2>1. a + 0 \in H /\ a + 0 = a
    BY <1>1, <1>2
  <2> QED BY <2>1 DEF Axis, Holds
<1> QED BY <1>4, <1>5 DEF HasLine

\* On a settled board of no line of s, check_win after s's disc says whether
\* there is one now.
LEMMA CheckWinIsHasLine ==
  ASSUME NEW b \in Boards, Settled(b), NEW column, validate_move(b, column),
         NEW s \in Symbols, ~HasLine(b, s)
  PROVE  LET n == apply_move(b, column, s)
         IN  check_win(n, LandingRow(b, column), column, s) <=> HasLine(n, s)
<1> DEFINE row == LandingRow(b, column)
           n   == apply_move(b, column, s)
<1>1. /\ column \in Cols /\ row \in Rows /\ b[row][column] = 0
  BY LandingRowIsLowest DEF validate_move
<1>2. \A r \in Rows, c \in Cols : n[r][c] = IF r = row /\ c = column THEN s ELSE b[r][c]
  BY <1>1, DropFillsOneCell
<1> HIDE DEF n, row
<1>3. n[row][column] = s
  BY <1>1, <1>2
<1>4. ~Holds(n, row - 1, column, s)
  <2> SUFFICES ASSUME row - 1 \in Rows PROVE n[row - 1][column] # s
    BY DEF Holds
  <2>1. row \in Int /\ row - 1 # row /\ (row - 1) + 1 = row
    BY <1>1, BoardAssumption DEF Rows
  <2>2. b[row - 1][column] = 0
    BY <1>1, <2>1 DEF Settled
  <2>3. n[row - 1][column] = 0
    BY <1>1, <1>2, <2>1, <2>2
  <2> QED BY <2>3 DEF Symbols
<1>5. check_win(n, row, column, s)
        <=> \E d \in Directions : LineAround(Axis(n, row, column, s, d[1], d[2]))
  BY <1>1, <1>3, <1>4, CheckWinSeesLines
<1>6. (\E d \in Directions : LineAround(Axis(n, row, column, s, d[1], d[2])))
        => HasLine(n, s)
  BY <1>1, LineAroundIsLine
<1>7. HasLine(n, s)
        => \E d \in Directions : LineAround(Axis(n, row, column, s, d[1], d[2]))
  BY <1>1, <1>2, NewLineIsAround
<1> QED BY <1>5, <1>6, <1>7 DEF n, row

\* A player's disc gives the other player no line.
LEMMA DropGivesOtherNothing ==
  ASSUME NEW b \in Boards, NEW column, validate_move(b, column),
         NEW s \in Symbols, NEW o \in Symbols, o # s, ~HasLine(b, o)
  PROVE  ~HasLine(apply_move(b, column, s), o)
<1> DEFINE row == LandingRow(b, column)
           n   == apply_move(b, column, s)
<1>1. /\ column \in Cols /\ row \in Rows
  BY LandingRowIsLowest DEF validate_move
<1>2. \A r \in Rows, c \in Cols : n[r][c] = IF r = row /\ c = column THEN s ELSE b[r][c]
  BY <1>1, DropFillsOneCell
<1> HIDE DEF n, row
<1>3. ASSUME NEW r, NEW c, Holds(n, r, c, o) PROVE Holds(b, r, c, o)
  BY <1>2, <1>3 DEF Holds
<1>4. HasLine(n, o) => HasLine(b, o)
  BY <1>3 DEF HasLine
<1> QED BY <1>4 DEF n

\* On a settled board the top row tells whether it is full.
LEMMA CheckDrawIsFull ==
  ASSUME NEW b, Settled(b)
  PROVE  check_draw(b) <=> IsFull(b)
<1>1. 0 \in Rows
  BY BoardAssumption DEF Rows
<1>2. ASSUME check_draw(b), NEW c \in Cols, NEW r \in Rows, b[r][c] = 0 PROVE FALSE
  <2> DEFINE T == {i \in Rows : b[i][c] = 0}
  <2>1. T \in SUBSET Nat /\ r \in T
    BY <1>2, BoardAssumption DEF Rows
  <2>2. PICK t \in T : \A u \in T : t <= u
    <3> HIDE DEF T
    <3> QED BY <2>1, LeastExists
  <2>3. t # 0
    BY <1>2, <2>2 DEF check_draw
  <2>4. t - 1 \in Rows /\ (t - 1) + 1 = t /\ ~(t <= t - 1)
    BY <2>2, <2>3, BoardAssumption DEF Rows
  <2>5. b[t - 1][c] # 0
    BY <2>2, <2>4
  <2>6. b[t][c] # 0
    BY <2>2, <2>4, <2>5 DEF Settled
  <2> QED BY <2>2, <2>6
<1> QED BY <1>1, <1>2 DEF check_draw, IsFull

\* A dropped disc is one more of its player and none of the other.
LEMMA DropAddsOneDisc ==
  ASSUME NEW b \in Boards, NEW column, validate_move(b, column),
         NEW s \in Symbols, NEW o \in Symbols
  PROVE  /\ Discs(b, o) \in Nat
         /\ Discs(apply_move(b, column, s), o) = IF o = s THEN Discs(b, o) + 1 ELSE Discs(b, o)
<1> DEFINE row == LandingRow(b, column)
           n   == apply_move(b, column, s)
           Old == {rc \in Rows \X Cols : b[rc[1]][rc[2]] = o}
           New == {rc \in Rows \X Cols : n[rc[1]][rc[2]] = o}
<1>1. /\ column \in Cols /\ row \in Rows /\ b[row][column] = 0
      /\ \A r \in Rows, c \in Cols : n[r][c] = IF r = row /\ c = column THEN s ELSE b[r][c]
  BY LandingRowIsLowest, DropFillsOneCell DEF validate_move
<1>2. o # 0
  BY DEF Symbols
<1>3. IsFiniteSet(Old)
  <2>1. IsFiniteSet(Rows) /\ IsFiniteSet(Cols)
    BY FS_Interval, BoardAssumption DEF Rows, Cols
  <2>2. IsFiniteSet(Rows \X Cols)
    BY <2>1, FS_Product
  <2> QED BY <2>2, FS_Subset
<1>4. Discs(b, o) = Cardinality(Old) /\ Discs(n, o) = Cardinality(New)
  BY DEF Discs
<1> HIDE DEF n, row
<1>5. <<row, column>> \notin Old
  BY <1>1, <1>2
<1>6. New = IF o = s THEN Old \cup {<<row, column>>} ELSE Old
  BY <1>1, <1>2
<1> HIDE DEF Old, New
<1>7. Cardinality(Old) \in Nat
  BY <1>3, FS_CardinalityType
<1>8. Cardinality(Old \cup {<<row, column>>}) = Cardinality(Old) + 1
  BY <1>3, <1>5, FS_AddElement
<1> QED BY <1>4, <1>6, <1>7, <1>8 DEF n

\* Before the first disc there is none, no line, room everywhere.
LEMMA EmptyBoard ==
  /\ init_board \in Boards /\ Settled(init_board) /\ ~IsFull(init_board)
  /\ \A s \in Symbols : ~HasLine(init_board, s) /\ Discs(init_board, s) = 0
<1>1. \A r \in Rows, c \in Cols : init_board[r][c] = 0
  BY DEF init_board
<1>2. /\ 0 \in Rows /\ 0 \in Cols /\ 0 \in 0 .. WINNING_LENGTH - 1
  BY BoardAssumption DEF Rows, Cols
<1>3. init_board \in Boards /\ Settled(init_board) /\ ~IsFull(init_board)
  BY <1>1, <1>2 DEF init_board, Boards, Settled, IsFull
<1>4. ASSUME NEW s \in Symbols PROVE ~HasLine(init_board, s) /\ Discs(init_board, s) = 0
  <2>1. s # 0
    BY DEF Symbols
  <2>2. \A r, c : ~Holds(init_board, r, c, s)
    BY <1>1, <2>1 DEF Holds
  <2>3. ~HasLine(init_board, s)
    BY <1>2, <2>2 DEF HasLine
  <2>4. {rc \in Rows \X Cols : init_board[rc[1]][rc[2]] = s} = {}
    BY <1>1, <2>1
  <2> QED BY <2>3, <2>4, FS_EmptySet DEF Discs
<1> QED BY <1>3, <1>4
=============================================================================
