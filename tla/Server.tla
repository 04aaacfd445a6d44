------------------------------- MODULE Server -------------------------------
(***************************************************************************)
(* The server of main.c: the table of matches, the table of players, and   *)
(* one thread per client that serves its requests until it disconnects.    *)
(*                                                                         *)
(* Every handler holds matches_mutex from its first look at matches[] to   *)
(* its last message, so a handler is one action.  What is not under that   *)
(* mutex is a step of its own: accepting a connection, registering, and    *)
(* marking a player disconnected after the clean-up of his matches.        *)
(*                                                                         *)
(* A client may send any request at any time: the server trusts nothing    *)
(* of what the client's own screens would allow.                           *)
(***************************************************************************)
EXTENDS Match

CONSTANTS MAX_MATCHES       \* 100 in main.c; each match of the run's life counts

ASSUME ServerAssumption == MAX_MATCHES \in Nat \ {0}

VARIABLES matches,          \* matches[0 .. matches_count - 1]
          player_state,     \* players[id]->state, "NULL" before the client connects
          leaving,          \* threads past the clean-up, not yet marked disconnected
          out               \* what the last step sent: each player's messages, in order

vars == <<matches, player_state, leaving, out>>

PlayerStates == {"NULL", "PLAYER_CONNECTED", "PLAYER_WAITING", "PLAYER_DISCONNECTED"}

\* The ids a request may name: the matches created so far, and ids of none.
MatchIds == 1 .. MAX_MATCHES

Found(id) == id \in DOMAIN matches      \* find_match_by_id(id) # NULL

Connected(p) == player_state[p] \in {"PLAYER_CONNECTED", "PLAYER_WAITING"}

\* The thread of p is in its receive loop.
Serving(p) == Connected(p) /\ p \notin leaving

-----------------------------------------------------------------------------
(* Messages.                                                               *)

Response(action, id, detail) ==
  [type |-> "RESPONSE", action |-> action, match |-> id, detail |-> detail]

Notification(action, id, detail) ==
  [type |-> "NOTIFICATION", action |-> action, match |-> id, detail |-> detail]

\* send_response: to a player who is gone, or to -1, nothing is sent.
Send(recipients, msg) ==
  [p \in Players |-> IF p \in recipients /\ Connected(p) THEN <<msg>> ELSE << >>]

Silence == [p \in Players |-> << >>]

\* First what a holds for each player, then what b holds.
a ++ b == [p \in Players |-> a[p] \o b[p]]

\* broadcast_match_unavailable
Unavailable(id, exclude1, exclude2) ==
  Send(Players \ {exclude1, exclude2}, Notification("match_unavailable", id, "all"))

\* The creator is asked about the request that has become the pending one.
Ask(m, id) ==
  Send({m.creator_id}, Notification("join_request", id, m.pending_requester_id))

Started(m, id) ==
  Send({m.player1_id}, Notification("match_started", id, m.player2_id))
    ++ Send({m.player2_id}, Notification("match_started", id, m.player1_id))

\* A slip the checks must notice: those in the queue are forgotten.
ClosedPendingOnly(m, id) ==
  Send({m.pending_requester_id}, Notification("join_request_obsolete", id, "closed"))

\* Everyone whose request is pending or queued, when the creator closes the match.
Closed(m, id) ==
  Send({m.pending_requester_id} \cup ToSet(m.join_queue),
       Notification("join_request_obsolete", id, "closed"))

Fails(p, action, id, error) ==
  /\ UNCHANGED matches
  /\ out' = Send({p}, Response(action, id, error))

-----------------------------------------------------------------------------
(* Who may be where.                                                       *)

\* Whether m keeps p from taking part elsewhere.
Engages(m, p) ==
  /\ m.state # "ABANDONED"
  /\ \/ p = m.pending_requester_id
     \/ p \in ToSet(m.join_queue)
     \/ /\ is_player_in_match(m, p)
        /\ m.state = "FINISHED" => m.winner_id \in {NoPlayer, p}

\* A slip the checks must notice: a queued request does not keep a player busy.
is_player_busy_not_queued(p) ==
  \E id \in DOMAIN matches :
    Engages([matches[id] EXCEPT !.join_queue = << >>], p)

is_player_busy(p) == \E id \in DOMAIN matches : Engages(matches[id], p)

\* A slip the checks must notice: the newest request is promoted, not the oldest.
PromoteNextNewest(m) ==
  IF m.join_queue = << >>
  THEN [m EXCEPT !.pending_requester_id = NoPlayer, !.state = "WAITING_FOR_OPPONENT"]
  ELSE [m EXCEPT !.join_queue = Front(@),
                 !.pending_requester_id = Last(m.join_queue),
                 !.withdrawn_requester_id = NoPlayer,
                 !.state = "JOIN_PENDING"]

\* The pending request is gone (refused, withdrawn or disconnected): the first
\* in the queue takes its place, or the match waits again.
PromoteNext(m) ==
  IF m.join_queue = << >>
  THEN [m EXCEPT !.pending_requester_id = NoPlayer, !.state = "WAITING_FOR_OPPONENT"]
  ELSE [dequeue_join_request(m) EXCEPT
          !.pending_requester_id = Head(m.join_queue),
          !.withdrawn_requester_id = NoPlayer,
          !.state = "JOIN_PENDING"]

\* A slip the checks must notice: only the promoted player hears of it.
AnnouncePromotionToOne(m, id) ==
  Send({m.pending_requester_id}, Notification("join_request_promoted", id, "pending"))

\* What the creator and the promoted player are told, m being the match after.
AnnouncePromotion(m, id) ==
  IF m.pending_requester_id = NoPlayer THEN Silence
  ELSE Ask(m, id) ++ Send({m.pending_requester_id},
                          Notification("join_request_promoted", id, "pending"))

-----------------------------------------------------------------------------
(* Connecting and registering.                                             *)

Init == /\ matches = << >>
        /\ player_state = [p \in Players |-> "NULL"]
        /\ leaving = {}
        /\ out = Silence

\* The accept loop of main gives the client the next id and starts its thread.
Connect(p) ==
  /\ player_state[p] = "NULL"
  /\ player_state' = [player_state EXCEPT ![p] = "PLAYER_CONNECTED"]
  /\ out' = Silence
  /\ UNCHANGED <<matches, leaving>>

\* Every id has been given out (ids are not reused, so players who left count
\* too): a client who connects now is turned away and no thread is started.
RefuseConnection ==
  /\ \A p \in Players : player_state[p] # "NULL"
  /\ out' = Silence
  /\ UNCHANGED <<matches, player_state, leaving>>

Register(p) ==
  /\ Serving(p)
  /\ player_state' = [player_state EXCEPT ![p] = "PLAYER_WAITING"]
  /\ out' = Send({p}, Response("register", 0, "ok"))
  /\ UNCHANGED <<matches, leaving>>

UnknownAction(p) ==
  /\ Serving(p)
  /\ out' = Send({p}, Response("unknown", 0, "error"))
  /\ UNCHANGED <<matches, player_state, leaving>>

-----------------------------------------------------------------------------
(* Matches: creating, listing, asking to take part.                        *)

CreateMatch(p) ==
  /\ Serving(p)
  /\ \/ /\ Len(matches) >= MAX_MATCHES \/ is_player_busy(p)
        /\ Fails(p, "create_match", 0, "error")
     \/ /\ Len(matches) < MAX_MATCHES
        /\ ~is_player_busy(p)
        /\ matches' = Append(matches, create_match(p))
        /\ out' = Send({p}, Response("create_match", Len(matches'), "ok"))
  /\ UNCHANGED <<player_state, leaving>>

\* The matches a client sees in its lobby.  The 1024 bytes of a payload hold
\* at least four entries whatever the usernames: up to there no entry is cut.
Listed(id) == matches[id].state \in {"WAITING_FOR_OPPONENT", "JOIN_PENDING", "ACTIVE"}

ListMatches(p) ==
  /\ Serving(p)
  /\ out' = Send({p}, Response("list_matches", 0,
                 {<<id, matches[id].state>> : id \in {i \in DOMAIN matches : Listed(i)}}))
  /\ UNCHANGED <<matches, player_state, leaving>>

\* A slip the checks must notice: the list of rejected players is not searched.
MayAskThoughRejected(m, p) ==
  /\ m.state \in {"WAITING_FOR_OPPONENT", "JOIN_PENDING"}
  /\ p # m.creator_id
  /\ ~is_player_busy(p)

\* The tests JOIN_MATCH makes before it lets a request in.
MayAsk(m, p) ==
  /\ m.state \in {"WAITING_FOR_OPPONENT", "JOIN_PENDING"}
  /\ p # m.creator_id
  /\ ~is_player_rejected(m, p)
  /\ ~is_player_busy(p)

AskedFirst(m, p) ==
  [m EXCEPT !.pending_requester_id = p,
            !.withdrawn_requester_id = NoPlayer,
            !.state = "JOIN_PENDING"]

JoinMatch(p, id) ==
  /\ Serving(p)
  /\ \/ /\ ~(Found(id) /\ MayAsk(matches[id], p))
        /\ Fails(p, "join_match", id, "error")
     \/ /\ Found(id) /\ MayAsk(matches[id], p)
        /\ matches[id].pending_requester_id = NoPlayer
        /\ matches' = [matches EXCEPT ![id] = AskedFirst(@, p)]
        /\ out' = Send({p}, Response("join_match", id, "pending")) ++ Ask(matches'[id], id)
     \/ /\ Found(id) /\ MayAsk(matches[id], p)
        /\ matches[id].pending_requester_id # NoPlayer
        /\ QueueHasRoom(matches[id])
        /\ matches' = [matches EXCEPT ![id] = enqueue_join_request(@, p)]
        /\ out' = Send({p}, Response("join_match", id, "queued"))
     \/ /\ Found(id) /\ MayAsk(matches[id], p)
        /\ matches[id].pending_requester_id # NoPlayer
        /\ ~QueueHasRoom(matches[id])
        /\ Fails(p, "join_match", id, "full")
  /\ UNCHANGED <<player_state, leaving>>

-----------------------------------------------------------------------------
(* The creator's answer, and the withdrawal that may cross it.  None of    *)
(* the three looks at the state of the match.                              *)

HasRequestFor(p, id) ==
  /\ Found(id)
  /\ matches[id].creator_id = p
  /\ matches[id].pending_requester_id # NoPlayer

\* The answer came too late: there is nothing to decide.  If the request was
\* withdrawn the creator is told by whom, once.
NothingToDecide(p, action, id) ==
  /\ ~HasRequestFor(p, id)
  /\ IF Found(id) /\ matches[id].creator_id = p /\ matches[id].withdrawn_requester_id # NoPlayer
     THEN /\ out' = Send({p}, Response(action, id, matches[id].withdrawn_requester_id))
          /\ matches' = [matches EXCEPT ![id].withdrawn_requester_id = NoPlayer]
     ELSE Fails(p, action, id, "error")

\* A slip the checks must notice: the request that was accepted stays pending.
SeatedStillPending(m) == add_player_to_match(m, m.pending_requester_id)

Seated(m) ==
  add_player_to_match([m EXCEPT !.pending_requester_id = NoPlayer], m.pending_requester_id)

AcceptJoin(p, id) ==
  /\ Serving(p)
  /\ \/ NothingToDecide(p, "accept_join", id)
     \/ /\ HasRequestFor(p, id)
        /\ LET m        == matches[id]
               accepted == m.pending_requester_id
           IN  /\ matches' = [matches EXCEPT ![id] = [Seated(m) EXCEPT !.join_queue = << >>]]
               /\ out' = Send({p}, Response("accept_join", id, "ok"))
                           ++ Send({m.player1_id}, Notification("match_started", id, accepted))
                           ++ Send({accepted}, Notification("match_started", id, m.player1_id))
                           ++ Send(ToSet(m.join_queue),
                                   Notification("join_request_obsolete", id, "started"))
                           ++ Unavailable(id, m.player1_id, accepted)
  /\ UNCHANGED <<player_state, leaving>>

Refused(m) ==
  PromoteNext(add_rejected_player(m, m.pending_requester_id))

RejectJoin(p, id) ==
  /\ Serving(p)
  /\ \/ NothingToDecide(p, "reject_join", id)
     \/ /\ HasRequestFor(p, id)
        /\ matches' = [matches EXCEPT ![id] = Refused(@)]
        /\ out' = Send({p}, Response("reject_join", id, "ok"))
                    ++ Send({matches[id].pending_requester_id},
                            Notification("join_request_rejected", id, p))
                    ++ AnnouncePromotion(matches'[id], id)
  /\ UNCHANGED <<player_state, leaving>>

Withdrawn(m, p) == PromoteNext([m EXCEPT !.withdrawn_requester_id = p])

CancelJoin(p, id) ==
  /\ Serving(p)
  /\ LET done == Send({p}, Response("cancel_join", id, "ok"))
     IN  \/ /\ ~Found(id)
            /\ UNCHANGED matches
            /\ out' = done
         \/ /\ Found(id) /\ matches[id].pending_requester_id = p
            /\ matches' = [matches EXCEPT ![id] = Withdrawn(@, p)]
            /\ out' = AnnouncePromotion(matches'[id], id) ++ done
         \/ /\ Found(id) /\ matches[id].pending_requester_id # p
            /\ matches' = [matches EXCEPT ![id] = remove_from_join_queue(@, p)]
            /\ out' = done
  /\ UNCHANGED <<player_state, leaving>>

-----------------------------------------------------------------------------
(* Playing, and what comes after a game.                                   *)

\* The record after a move, with the winner main.c writes when the game ends.
Played(m, p, column) ==
  LET result == MoveResult(m, p, column)
      moved  == apply_match_move(m, p, column)
  IN  CASE result = "win"  -> [moved EXCEPT !.winner_id = p]
        [] result = "draw" -> [moved EXCEPT !.winner_id = NoPlayer]
        [] OTHER           -> moved

Move(p, id, column) ==
  /\ Serving(p)
  /\ \/ /\ ~Found(id)
        /\ Fails(p, "move", id, "error")
     \/ /\ Found(id)
        /\ MoveResult(matches[id], p, column) \notin Accepted
        /\ Fails(p, "move", id, MoveResult(matches[id], p, column))
     \/ /\ Found(id)
        /\ MoveResult(matches[id], p, column) \in Accepted
        /\ matches' = [matches EXCEPT ![id] = Played(@, p, column)]
        /\ LET m      == matches[id]
               result == MoveResult(m, p, column)
               seats  == {m.player1_id, m.player2_id}
           IN  out' = (IF result = "ok" THEN Silence
                       ELSE Unavailable(id, m.player1_id, m.player2_id))
                        ++ Send(seats, Notification("move", id, result))
  /\ UNCHANGED <<player_state, leaving>>

Voted(m, p) ==
  IF p = m.player1_id THEN [m EXCEPT !.rematch_vote_p1 = 1]
  ELSE [m EXCEPT !.rematch_vote_p2 = 1]

\* A slip the checks must notice: the vote just cast is taken for both.
BothVotedOnOne(m) == m.rematch_vote_p1 = 1 \/ m.rematch_vote_p2 = 1

BothVoted(m) == m.rematch_vote_p1 = 1 /\ m.rematch_vote_p2 = 1

MayRematch(p, id) ==
  Found(id) /\ is_player_in_match(matches[id], p) /\ matches[id].state = "FINISHED"

Rematch(p, id) ==
  /\ Serving(p)
  /\ \/ /\ ~(MayRematch(p, id) /\ matches[id].winner_id \in {NoPlayer, p})
        /\ Fails(p, "rematch", id, "error")
     \/ /\ MayRematch(p, id) /\ matches[id].winner_id = p
        /\ matches' = [matches EXCEPT ![id] = open_new_session_as_owner(@, p)]
        /\ out' = Send({p}, Response("rematch", id, "new_session"))
     \/ /\ MayRematch(p, id) /\ matches[id].winner_id = NoPlayer
        /\ BothVoted(Voted(matches[id], p))
        /\ matches' = [matches EXCEPT ![id] = reset_match_for_rematch(@)]
        /\ out' = Send({p}, Response("rematch", id, "ok")) ++ Started(matches'[id], id)
     \/ /\ MayRematch(p, id) /\ matches[id].winner_id = NoPlayer
        /\ ~BothVoted(Voted(matches[id], p))
        /\ matches' = [matches EXCEPT ![id] = Voted(@, p)]
        /\ out' = Send({p}, Response("rematch", id, "waiting_for_opponent_vote"))
  /\ UNCHANGED <<player_state, leaving>>

-----------------------------------------------------------------------------
(* Leaving: by a quit request, or with the connection.                     *)

\* The loser of a FINISHED match leaves it without a trace.
Loses(m, p) == m.winner_id # NoPlayer /\ p # m.winner_id

\* What leaving does to a match p is seated in, and whom it tells.
Left(m, p) ==
  CASE m.state = "ACTIVE" -> abandon_match(m)
    [] m.state \in {"WAITING_FOR_OPPONENT", "JOIN_PENDING"} -> [m EXCEPT !.state = "ABANDONED"]
    [] m.state = "FINISHED" /\ ~Loses(m, p) -> [m EXCEPT !.state = "ABANDONED"]
    [] OTHER -> m

\* A slip the checks must notice: the lobby does not hear of an abandoned game.
LeftMessagesNoBroadcast(m, p, id, reason) ==
  LET opponent == get_opponent_id(m, p)
  IN  CASE m.state = "ACTIVE" ->
             Send({opponent}, Notification("opponent_left", id, reason))
        [] m.state \in {"WAITING_FOR_OPPONENT", "JOIN_PENDING"} -> Closed(m, id)
        [] m.state = "FINISHED" /\ ~Loses(m, p) ->
             Send({opponent}, Notification("match_closed", id, "closed"))
        [] OTHER -> Silence

LeftMessages(m, p, id, reason) ==
  LET opponent == get_opponent_id(m, p)
  IN  CASE m.state = "ACTIVE" ->
             Send({opponent}, Notification("opponent_left", id, reason))
               ++ Unavailable(id, p, opponent)
        [] m.state \in {"WAITING_FOR_OPPONENT", "JOIN_PENDING"} -> Closed(m, id)
        [] m.state = "FINISHED" /\ ~Loses(m, p) ->
             Send({opponent}, Notification("match_closed", id, "closed"))
        [] OTHER -> Silence

QuitMatch(p, id) ==
  /\ Serving(p)
  /\ \/ /\ ~(Found(id) /\ is_player_in_match(matches[id], p))
        /\ UNCHANGED matches
        /\ out' = Silence
     \/ /\ Found(id) /\ is_player_in_match(matches[id], p)
        /\ matches' = [matches EXCEPT ![id] = Left(@, p)]
        /\ out' = LeftMessages(matches[id], p, id, "left")
  /\ UNCHANGED <<player_state, leaving>>

\* A slip the checks must notice: queues are not searched on disconnection.
CleanUpNotQueue(m, p) ==
  CASE m.state \in {"ACTIVE", "FINISHED"} /\ is_player_in_match(m, p) -> Left(m, p)
    [] m.state \in {"WAITING_FOR_OPPONENT", "JOIN_PENDING"} /\ m.creator_id = p -> Left(m, p)
    [] m.state = "JOIN_PENDING" /\ m.creator_id # p /\ m.pending_requester_id = p -> PromoteNext(m)
    [] OTHER -> m

\* What the end of p's connection does to m: the seats first, then a request
\* of p in decision, then one in the queue (only of a JOIN_PENDING match).
CleanUp(m, p) ==
  CASE m.state \in {"ACTIVE", "FINISHED"} /\ is_player_in_match(m, p) -> Left(m, p)
    [] m.state \in {"WAITING_FOR_OPPONENT", "JOIN_PENDING"} /\ m.creator_id = p -> Left(m, p)
    [] m.state = "JOIN_PENDING" /\ m.creator_id # p /\ m.pending_requester_id = p -> PromoteNext(m)
    [] m.state = "JOIN_PENDING" /\ m.creator_id # p /\ m.pending_requester_id # p ->
         remove_from_join_queue(m, p)
    [] OTHER -> m

CleanUpMessages(m, p, id) ==
  CASE m.state \in {"ACTIVE", "FINISHED"} /\ is_player_in_match(m, p) ->
         LeftMessages(m, p, id, "disconnect")
    [] m.state \in {"WAITING_FOR_OPPONENT", "JOIN_PENDING"} /\ m.creator_id = p -> Closed(m, id)
    [] m.state = "JOIN_PENDING" /\ m.creator_id # p /\ m.pending_requester_id = p ->
         AnnouncePromotion(PromoteNext(m), id)
    [] OTHER -> Silence

\* A slip the checks must notice: the player is marked before the clean-up.
DisconnectMarkedFirst(p) ==
  /\ Serving(p)
  /\ matches' = [id \in DOMAIN matches |-> CleanUp(matches[id], p)]
  /\ player_state' = [player_state EXCEPT ![p] = "PLAYER_DISCONNECTED"]
  /\ leaving' = leaving \cup {p}
  /\ out' = Silence

\* receive_message reports an error: the thread leaves its loop and goes over
\* every match under one hold of matches_mutex.
Disconnect(p) ==
  /\ Serving(p)
  /\ matches' = [id \in DOMAIN matches |-> CleanUp(matches[id], p)]
  /\ out' = [q \in Players |->
               FlattenSeq([id \in DOMAIN matches |-> CleanUpMessages(matches[id], p, id)[q]])]
  /\ leaving' = leaving \cup {p}
  /\ UNCHANGED player_state

\* The thread closes the socket and marks its player, and ends.
MarkDisconnected(p) ==
  /\ p \in leaving
  /\ player_state' = [player_state EXCEPT ![p] = "PLAYER_DISCONNECTED"]
  /\ leaving' = leaving \ {p}
  /\ out' = Silence
  /\ UNCHANGED matches

-----------------------------------------------------------------------------
(* The system.                                                             *)

\* Columns a move request may carry, one too far on either side included.
Columns == -1 .. BOARD_COLS

Request(p) ==
  \/ Register(p)
  \/ UnknownAction(p)
  \/ CreateMatch(p)
  \/ ListMatches(p)
  \/ \E id \in MatchIds : JoinMatch(p, id)
  \/ \E id \in MatchIds, column \in Columns : Move(p, id, column)
  \/ \E id \in MatchIds : Rematch(p, id)
  \/ \E id \in MatchIds : QuitMatch(p, id)

Answer(p, id) == AcceptJoin(p, id) \/ RejectJoin(p, id) \/ CancelJoin(p, id)

Session(p) == Connect(p) \/ Disconnect(p) \/ MarkDisconnected(p)

Next == \/ RefuseConnection
        \/ \E p \in Players : Session(p) \/ Request(p)
        \/ \E p \in Players, id \in MatchIds : Answer(p, id)

Spec == Init /\ [][Next]_vars

\* The server when no answer or withdrawal is sent about a match the server
\* has closed already.  A client that hears of the closing first keeps to it;
\* one whose message crosses the notification does not.
Timely(id) == Found(id) => matches[id].state # "ABANDONED"

TimelyNext == \/ RefuseConnection
              \/ \E p \in Players : Session(p) \/ Request(p)
              \/ \E p \in Players, id \in MatchIds : Timely(id) /\ Answer(p, id)

TimelySpec == Init /\ [][TimelyNext]_vars
=============================================================================
