-------------------------- MODULE Forza4Properties --------------------------
(***************************************************************************)
(* What the clients and the server together owe to the users.  The client  *)
(* keeps its own idea of the match it is in and never asks the server for  *)
(* it again: each property relates that idea, or an open dialog, to the    *)
(* record of the server and to what is on the way between them.            *)
(***************************************************************************)
EXTENDS Forza4

MatchOrNone == MatchIds \cup {NoMatch}

Requests == [action : {"register", "create_match", "join_match", "accept_join", "reject_join",
                       "cancel_join", "move", "rematch", "quit_match"},
             match  : 0 .. MAX_MATCHES,
             column : 0 .. BOARD_COLS - 1,
             about  : Players \cup {NoMatch}]

\* A client is about no match or one that was created, a request of its user
\* names such a match or none where none is asked for, and every dialog is one
\* the controller opens.
ClientTypeOK ==
  \A p \in Players :
    LET c == client[p]
    IN  /\ c.registered \in BOOLEAN /\ c.matchState \in ModelStates /\ c.screen \in Screens
        /\ c.currentMatchId \in DOMAIN matches \cup {NoMatch}
        /\ c.matchState \in {"WAITING", "ACTIVE", "JOIN_PENDING"} =>
             c.currentMatchId # NoMatch /\ c.screen # "lobby"
        /\ c.myPlayerNumber \in 0 .. 2 /\ c.currentTurn \in Symbols
        /\ ToSet(c.outbox) \subseteq Requests
        /\ ToSet(c.dialogs) \subseteq
             [kind  : {"request", "choice", "lost", "lobby", "queued", "info"},
              match : MatchOrNone,
              asker : Players \cup {NoMatch}]

\* Among messages there is one with one of these actions about match id.
About(messages, actions, id) ==
  \E k \in DOMAIN messages : messages[k].action \in actions /\ messages[k].match = id

\* README: vengono proposti al creatore uno alla volta, in ordine.  The popup that
\* names the requester in decision is open at the creator or on its way to him,
\* or something he has sent is on its way that settles the matter: whatever was
\* withdrawn, promoted or answered about other requesters in between.
NoRequestForgotten ==
  \A id \in DOMAIN matches :
    LET m == matches[id]
        c == client[m.creator_id]
    IN  m.state = "JOIN_PENDING" /\ Serving(m.creator_id) =>
          \/ \E k \in DOMAIN c.inbox : /\ c.inbox[k].action = "join_request"
                                       /\ c.inbox[k].match = id
                                       /\ c.inbox[k].detail = m.pending_requester_id
          \/ RequestDialog(id, m.pending_requester_id) \in ToSet(c.dialogs)
          \/ About(c.outbox, {"accept_join", "reject_join", "quit_match"}, id)

\* main.c, of those in the queue: altrimenti resterebbero bloccate per sempre
\* nella schermata di attesa.  A client on the waiting screen is in the line of
\* the match it waits for, or is about to learn what became of its request.
NobodyWaitsInVain ==
  \A p \in Players :
    LET c  == client[p]
        id == c.currentMatchId
    IN  Serving(p) /\ c.matchState = "JOIN_PENDING" =>
          \/ matches[id].state = "JOIN_PENDING"
               /\ p \in {matches[id].pending_requester_id} \cup ToSet(matches[id].join_queue)
          \/ About(c.inbox, {"match_started", "join_request_rejected",
                             "join_request_obsolete"}, id)
          \/ \E k \in DOMAIN c.dialogs : c.dialogs[k].kind = "lobby"

-----------------------------------------------------------------------------
(* What a client that has heard everything shows.                          *)

\* Nothing is on its way to or from the client of p, and no dialog is open.
Idle(p) == Serving(p) /\ Caught(p) /\ Unblocked(client[p])

\* The game p's client shows is one p plays, in the seat shown.
PlaysAsShown(p) ==
  LET c == client[p]
      m == matches[c.currentMatchId]
  IN  /\ m.state = "ACTIVE"
      /\ p = (IF c.myPlayerNumber = 1 THEN m.player1_id ELSE m.player2_id)

SeatedElsewhere(p) ==
  \E id \in DOMAIN matches \ {client[p].currentMatchId} : is_player_in_match(matches[id], p)

\* A client that has heard everything is not mistaken about its match: one that
\* waits for an opponent owns an open match, one that plays does so in the seat
\* and at the turn it shows.  The exceptions are a match that was closed, by the
\* player himself, while it was started (NoDeadGame), and the turn of a player
\* with a seat in a second match: moved does not ask which match it is told of.
ScreensTellTheTruth ==
  \A p \in Players :
    LET c == client[p]
        m == matches[c.currentMatchId]
    IN  /\ Idle(p) /\ c.matchState = "WAITING" =>
             m.state \in {"WAITING_FOR_OPPONENT", "JOIN_PENDING"} /\ m.creator_id = p
        /\ Idle(p) /\ c.matchState = "ACTIVE" /\ m.state # "ABANDONED" =>
             PlaysAsShown(p) /\ (SeatedElsewhere(p) \/ c.currentTurn = m.current_turn)

\* main.c, of the opponent who left: l'altro giocatore restava in attesa di una
\* mossa che non sarebbe mai arrivata.  No client goes on showing a game that
\* nobody plays.
NoDeadGame ==
  \A p \in Players : Idle(p) /\ client[p].matchState = "ACTIVE" => PlaysAsShown(p)

\* README: il creatore riceve un popup con la richiesta e puo' accettarla o
\* rifiutarla.  Whoever is accepted or refused is the one the popup named.
DecidedAsShown ==
  [][\A p \in Players :
       LET answer  == Head(client[p].outbox)
           decides == /\ Len(client'[p].outbox) < Len(client[p].outbox)
                      /\ p \notin leaving'
                      /\ answer.action \in {"accept_join", "reject_join"}
                      /\ HasRequestFor(p, answer.match)
       IN  decides => matches[answer.match].pending_requester_id = answer.about]_allVars
=============================================================================
