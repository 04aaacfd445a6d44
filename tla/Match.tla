------------------------------- MODULE Match -------------------------------
(***************************************************************************)
(* A Match record and the operations of match.c on it.  Each operator      *)
(* returns the record the C function leaves behind; the state machine that *)
(* calls them, with their callers' tests, is in module Server.             *)
(*                                                                         *)
(* match_id, created_at, finished_at and the mutex are left out: a match   *)
(* is known by its position in matches[] (main.c makes match_id unique     *)
(* with matches_count), and nothing reads the two times.                   *)
(***************************************************************************)
EXTENDS Board, Sequences, SequencesExt

CONSTANTS Players,          \* the ids of the clients the server may serve
          NoPlayer,         \* the -1 of match.h
          MAX_JOIN_QUEUE    \* 16 in match.h

ASSUME MatchAssumption == /\ NoPlayer \notin Players
                          /\ MAX_JOIN_QUEUE \in Nat \ {0}

MatchStates ==
  {"WAITING_FOR_OPPONENT", "JOIN_PENDING", "ACTIVE", "FINISHED", "ABANDONED"}

\* rejected_players is only ever searched, so a set stands for the array; the
\* two votes and the turn keep the integers of the C fields.
Matches ==
  [state                  : MatchStates,
   creator_id             : Players,
   player1_id             : Players,
   player2_id             : Players \cup {NoPlayer},
   board                  : Boards,
   current_turn           : Symbols,
   pending_requester_id   : Players \cup {NoPlayer},
   join_queue             : Seq(Players),
   rejected_players       : SUBSET Players,
   withdrawn_requester_id : Players \cup {NoPlayer},
   winner_id              : Players \cup {NoPlayer},
   rematch_vote_p1        : {0, 1},
   rematch_vote_p2        : {0, 1}]

create_match(creator) ==
  [state                  |-> "WAITING_FOR_OPPONENT",
   creator_id             |-> creator,
   player1_id             |-> creator,
   player2_id             |-> NoPlayer,
   board                  |-> init_board,
   current_turn           |-> 1,
   pending_requester_id   |-> NoPlayer,
   join_queue             |-> << >>,
   rejected_players       |-> {},
   withdrawn_requester_id |-> NoPlayer,
   winner_id              |-> NoPlayer,
   rematch_vote_p1        |-> 0,
   rematch_vote_p2        |-> 0]

-----------------------------------------------------------------------------
(* Seats.                                                                  *)

\* Returns the match unchanged, as the C function does (the caller ignores
\* its return value), when the second seat is taken.
add_player_to_match(m, player) ==
  IF m.player2_id # NoPlayer THEN m
  ELSE [m EXCEPT !.player2_id = player, !.state = "ACTIVE"]

is_player_in_match(m, player) == player \in {m.player1_id, m.player2_id}

\* A slip the checks must notice: the second player is everybody's opponent.
get_opponent_id_second(m, player) == m.player2_id

get_opponent_id(m, player) ==
  CASE player = m.player1_id -> m.player2_id
    [] player # m.player1_id /\ player = m.player2_id -> m.player1_id
    [] OTHER -> NoPlayer

abandon_match(m) == [m EXCEPT !.state = "ABANDONED"]

-----------------------------------------------------------------------------
(* Moves.                                                                  *)

ExpectedPlayer(m) == IF m.current_turn = 1 THEN m.player1_id ELSE m.player2_id

\* A slip the checks must notice: a full board is a draw before it is a win.
MoveResultDrawFirst(m, player, column) ==
  LET row   == LandingRow(m.board, column)
      board == apply_move(m.board, column, m.current_turn)
  IN  CASE m.state # "ACTIVE" -> "not_active"
        [] m.state = "ACTIVE" /\ player # ExpectedPlayer(m) -> "not_turn"
        [] m.state = "ACTIVE" /\ player = ExpectedPlayer(m)
             /\ ~validate_move(m.board, column) -> "invalid"
        [] OTHER -> IF check_draw(board) THEN "draw"
                    ELSE IF check_win(board, row, column, m.current_turn) THEN "win" ELSE "ok"

\* MoveResult.result: -3, -1, -2, 1, 2 and 0 in this order.
MoveResult(m, player, column) ==
  LET row   == LandingRow(m.board, column)
      board == apply_move(m.board, column, m.current_turn)
  IN  CASE m.state # "ACTIVE" -> "not_active"
        [] m.state = "ACTIVE" /\ player # ExpectedPlayer(m) -> "not_turn"
        [] m.state = "ACTIVE" /\ player = ExpectedPlayer(m)
             /\ ~validate_move(m.board, column) -> "invalid"
        [] OTHER -> IF check_win(board, row, column, m.current_turn) THEN "win"
                    ELSE IF check_draw(board) THEN "draw" ELSE "ok"

Accepted == {"ok", "win", "draw"}

\* Slips the checks must notice: the turn does not pass; the turn passes on and
\* on; the turn passes before the disc is placed.
apply_match_move_same_turn(m, player, column) ==
  IF MoveResult(m, player, column) \notin Accepted THEN m
  ELSE [m EXCEPT !.board = apply_move(@, column, m.current_turn),
                 !.state = IF MoveResult(m, player, column) = "ok" THEN @ ELSE "FINISHED"]

apply_match_move_count_up(m, player, column) ==
  IF MoveResult(m, player, column) \notin Accepted THEN m
  ELSE [m EXCEPT !.board = apply_move(@, column, m.current_turn),
                 !.state = IF MoveResult(m, player, column) = "ok" THEN @ ELSE "FINISHED",
                 !.current_turn = @ + 1]

apply_match_move_early_turn(m, player, column) ==
  IF MoveResult(m, player, column) \notin Accepted THEN m
  ELSE [m EXCEPT !.board = apply_move(@, column, 3 - m.current_turn),
                 !.state = IF MoveResult(m, player, column) = "ok" THEN @ ELSE "FINISHED",
                 !.current_turn = 3 - @]

\* The turn passes only while the game goes on.
apply_match_move(m, player, column) ==
  LET result == MoveResult(m, player, column)
  IN  IF result \notin Accepted THEN m
      ELSE [m EXCEPT !.board        = apply_move(@, column, m.current_turn),
                     !.state        = IF result = "ok" THEN @ ELSE "FINISHED",
                     !.current_turn = IF result = "ok" THEN 3 - @ ELSE @]

-----------------------------------------------------------------------------
(* After the game.                                                         *)

\* A slip the checks must notice: the winner of the last game is kept.
ClearedSessionKeepingWinner(m) ==
  [m EXCEPT !.board = init_board, !.current_turn = 1,
            !.pending_requester_id = NoPlayer, !.withdrawn_requester_id = NoPlayer,
            !.join_queue = << >>, !.rejected_players = {},
            !.rematch_vote_p1 = 0, !.rematch_vote_p2 = 0]

\* Everything reset_match_for_rematch and open_new_session_as_owner share.
ClearedSession(m) ==
  [m EXCEPT !.board = init_board, !.current_turn = 1,
            !.pending_requester_id = NoPlayer, !.withdrawn_requester_id = NoPlayer,
            !.join_queue = << >>, !.rejected_players = {},
            !.winner_id = NoPlayer, !.rematch_vote_p1 = 0, !.rematch_vote_p2 = 0]

reset_match_for_rematch(m) == [ClearedSession(m) EXCEPT !.state = "ACTIVE"]

\* A slip the checks must notice: the new owner plays but does not answer.
open_new_session_as_player(m, new_owner) ==
  [ClearedSession(m) EXCEPT !.state = "WAITING_FOR_OPPONENT",
                            !.player1_id = new_owner,
                            !.player2_id = NoPlayer]

open_new_session_as_owner(m, new_owner) ==
  [ClearedSession(m) EXCEPT !.state = "WAITING_FOR_OPPONENT",
                            !.creator_id = new_owner,
                            !.player1_id = new_owner,
                            !.player2_id = NoPlayer]

-----------------------------------------------------------------------------
(* Requests to take part.                                                  *)

is_player_rejected(m, player) == player \in m.rejected_players

\* When the array is full the rejection is silently not recorded.
add_rejected_player(m, player) ==
  IF Cardinality(m.rejected_players) < MAX_JOIN_QUEUE
  THEN [m EXCEPT !.rejected_players = @ \cup {player}]
  ELSE m

\* A slip the checks must notice: one request more than the array holds.
QueueHasRoomForOneMore(m) == Len(m.join_queue) <= MAX_JOIN_QUEUE

QueueHasRoom(m) == Len(m.join_queue) < MAX_JOIN_QUEUE

enqueue_join_request(m, player) ==
  [m EXCEPT !.join_queue = Append(@, player)]

dequeue_join_request(m) == [m EXCEPT !.join_queue = Tail(@)]

QueuePosition(m, player) ==
  CHOOSE i \in DOMAIN m.join_queue :
    m.join_queue[i] = player /\ \A j \in 1 .. i - 1 : m.join_queue[j] # player

remove_from_join_queue(m, player) ==
  IF player \notin ToSet(m.join_queue) THEN m
  ELSE [m EXCEPT !.join_queue = RemoveAt(@, QueuePosition(m, player))]
=============================================================================
