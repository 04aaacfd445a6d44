-------------------------- MODULE ServerProperties --------------------------
(***************************************************************************)
(* What the server owes its clients.  The first group are invariants of    *)
(* each match, whatever the clients send; the second are obligations of a  *)
(* step towards the clients; the third relate different matches, or a      *)
(* match and the connections, and hold as long as answers are timely       *)
(* (module Server, TimelySpec).                                            *)
(***************************************************************************)
EXTENDS Server

-----------------------------------------------------------------------------
(* Invariants of every match.                                              *)

\* The tables hold well-formed records; a thread cleans up before, and is
\* marked after, and not the other way round.
TypeOK ==
  /\ matches \in Seq(Matches)
  /\ player_state \in [Players -> PlayerStates]
  /\ leaving \subseteq {p \in Players : Connected(p)}

\* main.c tests creator_id to answer a request and player1_id to play: the
\* owner of a match and its first player are the same person even after the
\* second player won and took it over, and nobody plays against himself.
OwnerPlaysFirst(m) == m.creator_id = m.player1_id /\ m.player2_id # m.player1_id

\* State and seats agree.  A request is in decision exactly while the state
\* says so, unless the creator closed the match over it; it is only ever
\* pending on a match whose second seat is free, so accept_join never meets
\* the failure of add_player_to_match whose return value it ignores.
SeatsMatchState(m) ==
  /\ m.state = "WAITING_FOR_OPPONENT" => m.pending_requester_id = NoPlayer
  /\ m.state = "JOIN_PENDING" => m.pending_requester_id # NoPlayer
  /\ m.state \in {"WAITING_FOR_OPPONENT", "JOIN_PENDING"} => m.player2_id = NoPlayer
  /\ m.state \in {"ACTIVE", "FINISHED"} => m.player2_id # NoPlayer
  /\ m.player2_id # NoPlayer => m.pending_requester_id = NoPlayer

\* The line of requests is sound: nobody queues behind an empty place, nobody
\* stands in it twice or in front of his own match, nobody the creator has
\* refused is let in again, neither array of match.h outgrows its size, and a
\* withdrawal is remembered only while no newer request has taken its place
\* (match.h: azzerato non appena una NUOVA richiesta diventa quella attiva).
RequestsInLine(m) ==
  LET queued == ToSet(m.join_queue)
      line   == {m.pending_requester_id} \cup queued
  IN  /\ m.pending_requester_id = NoPlayer => m.join_queue = << >>
      /\ m.pending_requester_id \notin queued
      /\ \A i, j \in 1 .. Len(m.join_queue) :
           m.join_queue[i] = m.join_queue[j] => i = j
      /\ m.creator_id \notin line
      /\ line \cap m.rejected_players = {}
      /\ Len(m.join_queue) <= MAX_JOIN_QUEUE
      /\ Cardinality(m.rejected_players) <= MAX_JOIN_QUEUE
      /\ m.pending_requester_id # NoPlayer => m.withdrawn_requester_id = NoPlayer

SeatingSound == \A id \in DOMAIN matches : /\ OwnerPlaysFirst(matches[id])
                                           /\ SeatsMatchState(matches[id])

RequestsSound == \A id \in DOMAIN matches : RequestsInLine(matches[id])

\* The winner main.c remembers is the one the board shows, at every moment
\* somebody may ask: REMATCH and QUIT_MATCH read winner_id long after the move
\* that wrote it, and after earlier games on the same record.  The votes for a
\* rematch are those of this draw, never both of them, never of a won game.
ResultMatchesBoard ==
  \A id \in DOMAIN matches :
    LET m      == matches[id]
        winner == IF HasLine(m.board, 1) THEN m.player1_id
                  ELSE IF HasLine(m.board, 2) THEN m.player2_id ELSE NoPlayer
        over   == winner # NoPlayer \/ IsFull(m.board)
    IN  /\ m.winner_id = winner
        /\ m.state = "FINISHED" => over
        /\ over => m.state \in {"FINISHED", "ABANDONED"}
        /\ m.player2_id = NoPlayer => m.board = init_board
        /\ m.rematch_vote_p1 + m.rematch_vote_p2 > 0 => over /\ winner = NoPlayer
        /\ ~BothVoted(m)

-----------------------------------------------------------------------------
(* What a step owes to the clients.                                        *)

\* q is told, by this step, about match id with one of these actions.
ToldBy(q, actions, id) ==
  \E k \in DOMAIN out'[q] : out'[q][k].action \in actions /\ out'[q][k].match = id

Waiters(m) ==
  IF m.state = "JOIN_PENDING"
  THEN {m.pending_requester_id} \cup ToSet(m.join_queue) ELSE {}

\* Nobody is dropped in silence (main.c: altrimenti resterebbero bloccate per
\* sempre nella schermata di attesa): a client whose request was pending or
\* queued and is no more has been told how it ended in the same step, unless
\* he withdrew it or is the one disconnecting.
NobodyDropped ==
  [][\A id \in DOMAIN matches :
       \A q \in Waiters(matches[id]) \ Waiters(matches'[id]) :
         \/ ToldBy(q, {"match_started", "join_request_rejected",
                       "join_request_obsolete", "cancel_join"}, id)
         \/ q \in leaving' \ leaving
         \/ ~Connected(q)]_vars

\* No request waits for a decision nobody was asked for: whenever another
\* request becomes the pending one, the creator is asked in the same step, and
\* a client who comes up from the queue is told his turn has come.
EveryRequestIsPutToTheCreator ==
  [][\A id \in DOMAIN matches :
       LET was == matches[id]
           is  == matches'[id]
           q   == is.pending_requester_id
       IN  q \notin {NoPlayer, was.pending_requester_id} /\ Connected(is.creator_id) =>
             /\ ToldBy(is.creator_id, {"join_request"}, id)
             /\ q \in ToSet(was.join_queue) /\ Connected(q) =>
                  ToldBy(q, {"join_request_promoted"}, id)]_vars

\* Requests are decided in the order they came (match.c keeps an array by
\* shifting it): whoever stays in the line of a match keeps his place before
\* those who stood behind him and before everybody who comes now.
Line(m) ==
  IF m.state = "JOIN_PENDING" THEN <<m.pending_requester_id>> \o m.join_queue ELSE << >>

Before(s, a, b) == \E i, j \in DOMAIN s : i < j /\ s[i] = a /\ s[j] = b

FirstComeFirstDecided ==
  [][\A id \in DOMAIN matches :
       LET was == Line(matches[id])
           is  == Line(matches'[id])
       IN  \A a \in ToSet(was) \cap ToSet(is), b \in ToSet(is) :
             b \notin ToSet(was) \/ Before(was, a, b) => Before(is, a, b)]_vars

\* A player who stays is never left looking at a board nobody else plays on
\* (main.c: l'altro giocatore restava in attesa di una mossa che non sarebbe mai
\* arrivata): when one player ends a match by leaving, the other is told; and
\* when it starts, both are.
OpponentIsTold ==
  [][\A id \in DOMAIN matches :
       LET was   == matches[id]
           is    == matches'[id]
           seats == {is.player1_id, is.player2_id} \ {NoPlayer}
       IN  /\ was.state \in {"ACTIVE", "FINISHED"} /\ is.state = "ABANDONED" =>
                \A goes \in seats :
                  QuitMatch(goes, id) \/ goes \in leaving' \ leaving =>
                    \A stays \in seats \ {goes} :
                      Connected(stays) => ToldBy(stays, {"opponent_left", "match_closed"}, id)
           /\ was.state # "ACTIVE" /\ is.state = "ACTIVE" =>
                \A q \in seats : Connected(q) => ToldBy(q, {"match_started"}, id)]_vars

\* The lobby is kept up to date (main.c: gli altri client collegati vengano
\* informati): whenever a match becomes ACTIVE with a new player or stops
\* being ACTIVE, everyone connected who does not play in it is told.
LobbyIsTold ==
  [][\A id \in DOMAIN matches :
       LET was == matches[id]
           is  == matches'[id]
       IN  (was.state = "ACTIVE") # (is.state = "ACTIVE") /\ was.state # "FINISHED" =>
             \A q \in Players \ {is.player1_id, is.player2_id} :
               Connected(q) => ToldBy(q, {"match_unavailable"}, id)]_vars

\* A game is not taken up again by one side alone.  After a draw the same pair
\* plays on only when both agreed; after a win only the winner may open a new
\* session, as its owner and with the other seat free; and there is no other way
\* on from a match that is FINISHED but to close it.
RematchByConsent ==
  [][\A id \in DOMAIN matches :
       LET was == matches[id]
           is  == matches'[id]
       IN  /\ was.state = "FINISHED" /\ is.state = "ACTIVE" =>
                /\ was.winner_id = NoPlayer
                /\ was.rematch_vote_p1 + was.rematch_vote_p2 = 1
                /\ ToldBy(IF was.rematch_vote_p1 = 1 THEN was.player2_id ELSE was.player1_id,
                          {"rematch"}, id)
                /\ <<is.player1_id, is.player2_id>> = <<was.player1_id, was.player2_id>>
           /\ was.state = "FINISHED" /\ is.state = "WAITING_FOR_OPPONENT" =>
                /\ was.winner_id # NoPlayer
                /\ <<is.creator_id, is.player2_id>> = <<was.winner_id, NoPlayer>>
           /\ was.state = "FINISHED" =>
                is.state \in {"FINISHED", "ACTIVE", "WAITING_FOR_OPPONENT", "ABANDONED"}]_vars

\* main.c: ABANDONED: gia' chiusa.  A game that was left is over, however late an
\* answer comes.  Accepting, rejecting and withdrawing do not look at the state
\* (main.c:540, 631, 707), so a match closed over a request may come back; but
\* only through its creator or that requester, with nobody in line who was not in
\* it when it was closed, with no disc on the board and no winner, and if a game
\* starts it is the one that had been asked for.
NoGameComesBack ==
  [][\A id \in DOMAIN matches :
       LET was == matches[id]
           is  == matches'[id]
           q   == was.pending_requester_id
       IN  was.state = "ABANDONED" =>
             /\ {is.pending_requester_id} \cup ToSet(is.join_queue)
                  \subseteq {q, NoPlayer} \cup ToSet(was.join_queue)
             /\ is.state # "ABANDONED" =>
                  /\ q # NoPlayer
                  /\ \E p \in {was.creator_id, q} : Answer(p, id)
                  /\ is.board = init_board /\ is.winner_id = NoPlayer
                  /\ <<is.player1_id, is.player2_id>> =
                       <<was.creator_id, IF is.state = "ACTIVE" THEN q ELSE NoPlayer>>]_vars

\* main.c: chi viene rifiutato non potra' ri-richiedere su questa stessa
\* partita.  Whoever is told that his request was rejected is on the list.
RejectionRemembered ==
  [][\A id \in DOMAIN matches, q \in Players :
       ToldBy(q, {"join_request_rejected"}, id) =>
         is_player_rejected(matches'[id], q)]_vars

-----------------------------------------------------------------------------
(* Across matches and connections.                                         *)

\* main.c, is_player_busy: un giocatore deve poter giocare attivamente solo a
\* una partita alla volta.  No two matches engage the same player, in whatever
\* order he creates, asks, is accepted, wins and is offered rematches.
OnePlaceAtATime ==
  \A i, j \in DOMAIN matches, p \in Players :
    Engages(matches[i], p) /\ Engages(matches[j], p) => i = j

\* After the clean-up of a connection nothing that goes on depends on its
\* client: no open, running or undecided match is waiting for him.
NoGhost ==
  \A id \in DOMAIN matches, p \in Players :
    Engages(matches[id], p) => Serving(p)
=============================================================================
