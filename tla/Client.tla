------------------------------- MODULE Client -------------------------------
(***************************************************************************)
(* One client: GameController with its GameModel, the screen MainFrame     *)
(* shows and the modal dialogs on it.  Each operator returns the record    *)
(* its Java method leaves behind; module Forza4 has the actions.           *)
(*                                                                         *)
(* Everything runs on the event thread, but a modal dialog goes on taking  *)
(* events: a message that arrives under an open dialog is handled at once, *)
(* inside the handler that opened it, and what that handler does after its *)
(* dialog is done when the user closes it.  Dialogs nest; the user reaches *)
(* only the last, and nothing on the screen below.                         *)
(*                                                                         *)
(* Left out: usernames and the wording of dialogs; the list of the lobby   *)
(* with the list_matches that refreshes it (a user may ask for any match); *)
(* the board, which is set wherever the turn is.                           *)
(***************************************************************************)
EXTENDS Integers, Sequences, SequencesExt

CONSTANTS NoMatch           \* the null of currentMatchId

ASSUME ClientAssumption == NoMatch \notin Nat

Screens == {"lobby", "join_waiting", "game"}

ModelStates == {"NONE", "WAITING", "ACTIVE", "FINISHED", "JOIN_PENDING"}

NewClient == [registered     |-> FALSE,      \* setInteractionEnabled(true)
              matchState     |-> "NONE",
              currentMatchId |-> NoMatch,
              myPlayerNumber |-> 0,
              currentTurn    |-> 1,
              screen         |-> "lobby",
              dialogs        |-> << >>,      \* open ones, the last on top
              outbox         |-> << >>,      \* written, not yet served
              inbox          |-> << >>]      \* sent by the server, not yet handled

\* A dialog: what is done once it is closed.
Dialog(kind) == [kind |-> kind, match |-> NoMatch, asker |-> NoMatch]

\* The one with a request to take part: for which match, and who asks.
RequestDialog(match, asker) == [kind |-> "request", match |-> match, asker |-> asker]

\* about is whom the user has in mind, answering a request; it is not sent.
createRequestMessage(action, match, column) ==
  [action |-> action, match |-> match, column |-> column, about |-> NoMatch]

sendMessage(c, request) == [c EXCEPT !.outbox = Append(@, request)]

Show(c, dialog) == [c EXCEPT !.dialogs = Append(@, dialog)]

\* A slip the checks must notice: the request is sent without a match as well.
SendOfCurrentOrNone(c, action) ==
  sendMessage(c, createRequestMessage(action, c.currentMatchId, 0))

\* About the current match, or not at all when there is none.
SendOfCurrent(c, action) ==
  IF c.currentMatchId = NoMatch THEN c
  ELSE sendMessage(c, createRequestMessage(action, c.currentMatchId, 0))

returnToLobby(c) ==
  [c EXCEPT !.matchState = "NONE", !.currentMatchId = NoMatch, !.screen = "lobby"]

\* The elements of s at the places in kept, in their order: SelectSeq as a
\* recursive function, which the proof system knows how to expand.
SelectPlaces(s, kept) ==
  LET first[n \in 0 .. Len(s)] ==
        IF n = 0 THEN << >>
        ELSE IF n \in kept THEN Append(first[n - 1], s[n]) ELSE first[n - 1]
  IN  first[Len(s)]

\* closeWaitingDialogIfOpen closes nothing: waitingDialog is never assigned.
closeQueuedInfoDialogIfOpen(c) ==
  [c EXCEPT !.dialogs = SelectPlaces(@, {k \in DOMAIN @ : @[k].kind # "queued"})]

applyMatchState(c, match, number, turn) ==
  [c EXCEPT !.currentMatchId = match, !.myPlayerNumber = number, !.currentTurn = turn]

isMyTurn(c) == c.matchState = "ACTIVE" /\ c.myPlayerNumber = c.currentTurn

-----------------------------------------------------------------------------
(* What the user does on a screen.                                         *)

requestRematch(c) == SendOfCurrent(c, "rematch")

leaveMatch(c) == returnToLobby(SendOfCurrent(c, "quit_match"))

cancelJoinRequest(c) ==
  returnToLobby(SendOfCurrent(closeQueuedInfoDialogIfOpen(c), "cancel_join"))

\* handleColumnClick and makeMove: the model is asked, not the board.
MayClickColumn(c) ==
  c.screen = "game" /\ c.currentMatchId # NoMatch /\ isMyTurn(c)

\* Whether the user can do anything below the dialogs.
Unblocked(c) == c.dialogs = << >>

\* A slip the checks must notice: only the acceptance is told to the server.
AnswerToRequestIfYes(c, d, yes) ==
  IF yes THEN sendMessage(c, [createRequestMessage("accept_join", d.match, 0)
                                EXCEPT !.about = d.asker])
  ELSE c

\* The popup names a requester; the answer names the match alone.
AnswerToRequest(c, d, yes) ==
  LET action == IF yes THEN "accept_join" ELSE "reject_join"
  IN  sendMessage(c, [createRequestMessage(action, d.match, 0) EXCEPT !.about = d.asker])

\* A slip the checks must notice: after a refusal the client stays where it is.
CloseDialogStaying(c, yes) ==
  LET d     == Last(c.dialogs)
      below == [c EXCEPT !.dialogs = Front(@)]
  IN  CASE d.kind = "request" -> AnswerToRequest(below, d, yes)
        [] d.kind = "choice"  -> IF yes THEN requestRematch(below) ELSE leaveMatch(below)
        [] d.kind = "lost"    -> leaveMatch(below)
        [] OTHER              -> below

\* The user closes the topmost dialog, and its handler goes on.
CloseDialog(c, yes) ==
  LET d     == Last(c.dialogs)
      below == [c EXCEPT !.dialogs = Front(@)]
  IN  CASE d.kind = "request" -> AnswerToRequest(below, d, yes)
        [] d.kind = "choice"  -> IF yes THEN requestRematch(below) ELSE leaveMatch(below)
        [] d.kind = "lost"    -> leaveMatch(below)
        [] d.kind = "lobby"   -> returnToLobby(below)
        [] OTHER              -> below

-----------------------------------------------------------------------------
(* Messages from the server.  number and turn are the player_number and    *)
(* current_turn of their payload, winner its winner_id.                    *)

Statuses == {"ok", "pending", "queued", "new_session", "waiting_for_opponent_vote"}

IsError(msg) == msg.type = "RESPONSE" /\ msg.detail \notin Statuses

Waits(c, msg) ==
  [applyMatchState(c, msg.match, 1, msg.turn) EXCEPT !.matchState = "WAITING",
                                                     !.screen = "game"]

handleResponse(c, msg) ==
  CASE msg.action = "register"     -> [c EXCEPT !.registered = TRUE]
    [] msg.action = "create_match" -> Waits(c, msg)
    [] msg.action = "join_match"   ->
         LET asked == [c EXCEPT !.currentMatchId = msg.match, !.matchState = "JOIN_PENDING",
                                !.screen = "join_waiting"]
         IN  IF msg.detail = "queued" THEN Show(asked, Dialog("queued"))
             ELSE asked
    [] msg.action = "rematch" /\ msg.detail = "new_session" -> Waits(c, msg)
    [] msg.action = "rematch" /\ msg.detail = "waiting_for_opponent_vote" ->
         Show(c, Dialog("info"))
    [] OTHER -> c

started(c, msg) ==
  [applyMatchState(closeQueuedInfoDialogIfOpen(c), msg.match, msg.number, msg.turn)
     EXCEPT !.matchState = "ACTIVE", !.screen = "game"]

\* A slip the checks must notice: the turn in the message is not looked at.
movedKeepingTurn(c, msg, me) ==
  CASE msg.detail = "ok" -> c
    [] msg.detail = "draw" \/ (msg.detail = "win" /\ msg.winner = me) ->
         Show([c EXCEPT !.matchState = "FINISHED"], Dialog("choice"))
    [] OTHER -> Show([c EXCEPT !.matchState = "FINISHED"], Dialog("lost"))

\* The winner and both players of a draw are given the choice of a rematch; the
\* match the message is about is not compared with the current one.
moved(c, msg, me) ==
  LET shown == [c EXCEPT !.currentTurn = msg.turn]
  IN  CASE msg.detail = "ok" -> shown
        [] msg.detail = "draw" \/ (msg.detail = "win" /\ msg.winner = me) ->
             Show([shown EXCEPT !.matchState = "FINISHED"],
                  Dialog("choice"))
        [] OTHER -> Show([shown EXCEPT !.matchState = "FINISHED"],
                         Dialog("lost"))

handleNotification(c, msg, me) ==
  CASE msg.action = "match_started" -> started(c, msg)
    [] msg.action = "join_request"  -> Show(c, RequestDialog(msg.match, msg.detail))
    [] msg.action \in {"join_request_rejected", "join_request_obsolete"} ->
         Show(closeQueuedInfoDialogIfOpen(c), Dialog("lobby"))
    [] msg.action = "join_request_promoted" -> closeQueuedInfoDialogIfOpen(c)
    [] msg.action = "move"          -> moved(c, msg, me)
    [] msg.action = "opponent_left" ->
         Show([c EXCEPT !.matchState = "FINISHED"], Dialog("lobby"))
    [] msg.action = "match_closed" /\ c.matchState = "FINISHED" ->
         Show(c, Dialog("lobby"))
    [] OTHER -> c

\* The first message of the inbox is handled, below dialogs or not.
handleMessage(c, me) ==
  LET msg  == Head(c.inbox)
      rest == [c EXCEPT !.inbox = Tail(@)]
  IN  CASE IsError(msg)            -> Show(rest, Dialog("info"))
        [] ~IsError(msg) /\ msg.type = "RESPONSE" -> handleResponse(rest, msg)
        [] msg.type = "NOTIFICATION" -> handleNotification(rest, msg, me)
=============================================================================
