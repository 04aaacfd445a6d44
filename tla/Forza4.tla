------------------------------- MODULE Forza4 -------------------------------
(***************************************************************************)
(* The server of module Server with the clients of module Client, and a    *)
(* connection to each that loses nothing and keeps the order (Framing).    *)
(*                                                                         *)
(* Requests and notifications cross: a client acts on what it has handled, *)
(* the server on what it has served.  Each step of the server is the       *)
(* action of module Server for the request at the head of an outbox.       *)
(***************************************************************************)
EXTENDS Server, Client

CONSTANTS MaxUnserved,      \* bound: a user waits when so many requests are unserved
          MaxUnhandled,     \* bound: messages on the way to one client
          MaxDialogs        \* bound: dialogs open over each other

ASSUME Forza4Assumption ==
  MaxUnserved \in Nat \ {0} /\ MaxUnhandled \in Nat \ {0} /\ MaxDialogs \in Nat \ {0}

VARIABLES client            \* the client of each player

allVars == <<vars, client>>

SystemInit == Init /\ client = [p \in Players |-> NewClient]

-----------------------------------------------------------------------------
(* The server serves requests and sends messages.                          *)

\* What only refreshes the list of the lobby is left out, and so are the
\* confirmations the client does nothing about.
Heeded(msg) ==
  /\ msg.action \notin {"list_matches", "match_unavailable"}
  /\ msg.action \in {"accept_join", "reject_join", "cancel_join", "rematch"} => msg.detail # "ok"

\* What the client looks at in a message: the detail of some, and of some the
\* match m as it is after the step.
Detail(msg) ==
  IF IsError(msg) THEN "error"
  ELSE IF msg.action \in {"join_match", "rematch", "move", "join_request"}
       THEN msg.detail ELSE "ok"

Received(q, msg, m) ==
  [type   |-> msg.type, action |-> msg.action, match |-> msg.match,
   detail |-> Detail(msg),
   number |-> IF q = m.player1_id THEN 1 ELSE 2,
   turn   |-> m.current_turn,
   winner |-> m.winner_id]

Bare(msg) ==
  [type   |-> msg.type, action |-> msg.action, match |-> msg.match,
   detail |-> Detail(msg), number |-> 0, turn |-> 0, winner |-> NoPlayer]

Arriving(q, messages, table) ==
  LET heeded == SelectPlaces(messages, {k \in DOMAIN messages : Heeded(messages[k])})
  IN  [k \in DOMAIN heeded |->
         IF heeded[k].action \in {"create_match", "rematch", "match_started", "move"}
              /\ ~IsError(heeded[k])
         THEN Received(q, heeded[k], table[heeded[k].match]) ELSE Bare(heeded[k])]

\* Each client is sent its part of out'.
Deliver(clients) ==
  /\ client' = [q \in Players |->
                  [clients[q] EXCEPT !.inbox = @ \o Arriving(q, out'[q], matches')]]
  /\ \A q \in Players : Len(client'[q].inbox) <= MaxUnhandled

Handler(p, request) ==
  \/ request.action = "register"     /\ Register(p)
  \/ request.action = "create_match" /\ CreateMatch(p)
  \/ request.action = "join_match"   /\ JoinMatch(p, request.match)
  \/ request.action = "accept_join"  /\ AcceptJoin(p, request.match)
  \/ request.action = "reject_join"  /\ RejectJoin(p, request.match)
  \/ request.action = "cancel_join"  /\ CancelJoin(p, request.match)
  \/ request.action = "move"         /\ Move(p, request.match, request.column)
  \/ request.action = "rematch"      /\ Rematch(p, request.match)
  \/ request.action = "quit_match"   /\ QuitMatch(p, request.match)

Serve(p) == /\ client[p].outbox # << >>
            /\ Handler(p, Head(client[p].outbox))
            /\ Deliver([client EXCEPT ![p].outbox = Tail(@)])

\* The client is closed or its connection lost: it has done nothing since, and
\* what it had sent and is not served is lost.
Lose(p) == Disconnect(p) /\ Deliver([client EXCEPT ![p] = NewClient])

Mark(p) == MarkDisconnected(p) /\ UNCHANGED client

-----------------------------------------------------------------------------
(* The clients and their users.                                            *)

\* connectToServer
Open(p) ==
  /\ Connect(p)
  /\ client' = [client EXCEPT ![p] = sendMessage(@, createRequestMessage("register", 0, 0))]

HandleMessage(p) ==
  /\ client[p].inbox # << >>
  /\ client' = [client EXCEPT ![p] = handleMessage(@, p)]
  /\ Len(client'[p].dialogs) <= MaxDialogs
  /\ UNCHANGED vars

\* The user of p does something: on the screen, or to the topmost dialog.
Acts(p, after) == /\ Len(client[p].outbox) < MaxUnserved
                  /\ client' = [client EXCEPT ![p] = after]
                  /\ UNCHANGED vars

On(p, screen) == Unblocked(client[p]) /\ client[p].screen = screen

ClickCreate(p) ==
  /\ On(p, "lobby") /\ client[p].registered
  /\ Acts(p, sendMessage(client[p], createRequestMessage("create_match", 0, 0)))

\* The list of the lobby may be old: any match there has been may be on it.
ClickJoin(p, id) ==
  /\ On(p, "lobby") /\ client[p].registered /\ Found(id)
  /\ Acts(p, sendMessage(client[p], createRequestMessage("join_match", id, 0)))

ClickCancel(p) == On(p, "join_waiting") /\ Acts(p, cancelJoinRequest(client[p]))

ClickLeave(p) == On(p, "game") /\ Acts(p, leaveMatch(client[p]))

ClickColumn(p, column) ==
  /\ On(p, "game") /\ MayClickColumn(client[p])
  /\ Acts(p, sendMessage(client[p], createRequestMessage("move", client[p].currentMatchId, column)))

AnswerDialog(p, yes) ==
  client[p].dialogs # << >> /\ Acts(p, CloseDialog(client[p], yes))

User(p) == \/ ClickCreate(p) \/ ClickCancel(p) \/ ClickLeave(p)
           \/ \E id \in MatchIds : ClickJoin(p, id)
           \/ \E column \in 0 .. BOARD_COLS - 1 : ClickColumn(p, column)
           \/ \E yes \in BOOLEAN : AnswerDialog(p, yes)

SystemNext ==
  \E p \in Players : Open(p) \/ Serve(p) \/ HandleMessage(p) \/ User(p) \/ Lose(p) \/ Mark(p)

System == SystemInit /\ [][SystemNext]_allVars

\* Requests of different users cross, but the network is faster than a user: he
\* does nothing more while an answer or a notification is on its way to him.
Caught(p) == client[p].inbox = << >> /\ client[p].outbox = << >>

PromptNext ==
  \E p \in Players : \/ Open(p) \/ Serve(p) \/ HandleMessage(p) \/ Lose(p) \/ Mark(p)
                     \/ Caught(p) /\ User(p)

PromptSystem == SystemInit /\ [][PromptNext]_allVars
=============================================================================
