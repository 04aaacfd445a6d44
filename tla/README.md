# Forza 4: the verification project

Forza 4 is Connect Four over the network: a server in C that keeps the tables
of players and matches and serves each client in a thread of its own, and a
Java client with a lobby, a game screen and dialogs. This directory holds TLA+
models of both and of what lies between them, the TLC configurations that check
them, and TLAPS proofs of the main properties. `PROJECT.json` lists the runs,
the correspondence of every definition to lines of the source, the mutations
each property catches, the hazards and the findings.

## 1. The system

| component | source | state | operations |
|---|---|---|---|
| board rules | `server/src/game.c` | none (a 6x7 array it is handed) | `init_board`, `validate_move`, `apply_move`, `check_win`, `check_draw` |
| match record | `server/src/match.c` | players, board, turn, state, request in decision, queue, rejected players, last withdrawal, winner, votes | `create_match` ... `remove_from_join_queue` |
| request handlers | `server/src/main.c` | `matches[]`, `matches_count` | register, create, list, join, accept, reject, cancel, move, rematch, quit; clean-up when the connection ends |
| table of players | `server/src/main.c`, `player.h` | `players[]`, `players_count`; descriptor, state, name, send mutex | accept loop, register, mark disconnected |
| mutexes | `server/src/sync.c` | `matches_mutex`, `players_mutex`, one send mutex per player, one mutex per match | lock, unlock; order matches, players, send |
| sockets and framing | `server/src/network.c` | a `RecvBuffer` per connection | `send_message`, `receive_message` |
| parsing | `server/src/protocol.c` | none | `message_to_json`, `parse_json_message` |
| client controller, model | `GameController.java`, `GameModel.java` | screen, `currentMatchId`, player number, board, turn, open dialogs | button handlers, handlers of answers and notifications |
| client network | `NetworkClient.java`, `MessageProtocol.java` | socket, reader thread | connect, send, listen |
| client views | `LobbyPanel`, `GamePanel`, `MainFrame`, `JoinWaitingPanel` | widgets | drawing, buttons |

Interaction: a client sends one line of JSON per request; its thread on the
server cuts the line out of the stream and parses it, takes `matches_mutex`,
looks at and changes `matches[]`, sends the response to its own client and
notifications to others, all before it releases the mutex. What is outside the
mutex: accepting a connection, registering a name, and, when the connection
ends, closing the descriptor and marking the player `PLAYER_DISCONNECTED` after
the clean-up of his matches. On the client one reader thread hands every line to
the event thread, which keeps its own copy of the state of the match.

What is hard: any client may send any request at any moment, so a creator's
answer crosses a withdrawal, a lost connection or his own quit; a request in
decision disappears in three different ways and each must promote the next; a
record is used for many games and changes owner; the loser of a game is free
before the winner has decided; bounded arrays fill up; a win is recognised from
the last disc only; the network cuts and glues lines; three kinds of mutex are
taken with sends inside them, to clients that may have stopped reading; a
descriptor is closed before its player is marked; a modal dialog of the client
goes on handling messages. What makes each component correct:

* board: the game is over exactly when the rules of Connect Four say so;
* match: moves alternate, change one cell, and end the game with the right
  answer; state, seats, owner, requests and result always agree;
* handlers: nobody whose request or game ends is left without word, the creator
  is asked about every request in order, a game resumes only by consent, nobody
  is in two matches, and nothing waits for a client who is gone;
* framing: a connection is a channel of whole lines, in order, each once;
* threads: no circular wait, every handler ends, lines to one client do not
  mix, nothing is sent to the wrong client;
* client with server: no request is forgotten between popups, nobody waits for
  an answer that will not come, and a screen that has settled is true.

## 2. The modules

| module | models | role |
|---|---|---|
| `Board` | `game.c` | operators; the rules (`HasLine`, `IsFull`, `Settled`) they are judged by |
| `Match` | `match.c` | operators from record to record, one per C function |
| `Play` | `apply_match_move` in a game | state machine of one game between two players |
| `Server` | `main.c` | state machine of the whole server, one action per handler |
| `LineChannel` | | the abstract specification of a connection: a channel of lines |
| `Framing` | `receive_message`, receive loop | state machine of the receiving end of one connection, at the grain of `recv` |
| `Connections` | accept loop, threads, `sync.c`, `send_message` | state machine of the threads, at the grain of lock, unlock and send |
| `Client` | `GameController`, `GameModel` | operators from client to client, one per method |
| `Forza4` | the whole | clients and `Server` over channels that keep the order |
| `ServerProperties`, `FramingProperties`, `ConnectionsProperties`, `Forza4Properties` | | what is checked and proved of each |
| `MCPlay`, `MCServer`, `MCFraming`, `MCConnections`, `MCForza4` | | views, symmetry and small data for TLC |
| `MatchProofs`, `PlayProofs` | | lemmas on records, discs and lines; theorems about a game |
| `ServerProofs`, `OnePlaceProofs`, `ObligationProofs` | | theorems about the server: its tables, one place at a time, what it owes its clients |
| `FramingProofs`, `ConnectionsProofs` | | theorems about framing and about the threads |
| `Forza4Proofs` | | theorems about the clients and the server together |

`Play` and `Server` both use `Match`, which uses `Board`: the same operators are
checked in depth on a board of real shape by `Play`, and composed with
everything else on a tiny board by `Server`. `Forza4` extends `Server` with the
clients and drives its actions by what they have sent.

The server is modelled at three grains, each as fine as its questions need, and
each justifies what the next takes for granted. `Framing` shows that what a
client writes reaches its thread as whole lines in order, so `Server` and
`Forza4` speak of requests. `Connections` takes each lock, unlock and send as a
step and shows that handlers exclude each other and end, so in `Server` each
handler is one action. `Server` says what the handlers decide.

### State and actions of `Server`

* `matches` is `matches[0 .. matches_count-1]`; a match id is its index. The
  real id is a string made unique with `matches_count` (main.c:338).
* `player_state[p]` is `players[p]->state`, with `"NULL"` before the client
  connects. `PLAYER_PLAYING` is never assigned and does not appear.
* `leaving` holds the threads between the end of their clean-up (main.c:1106)
  and the mark (main.c:1112), where a player still counts as connected.
* `out` is what the last step sent, to each player, in order. `Server` never
  reads it; it exists so that action properties can speak of messages, and
  `Forza4` delivers it.

A handler's alternatives are disjuncts, in the order of its early returns.
`CleanUp` is one iteration of the loop at main.c:1019; `Disconnect` applies it
to all matches at once, as the thread does under one hold of the mutex.

Clients are unconstrained in `Spec`: a request may come from any connected
client, name any match, created or not, and any column, at any time. This
includes what the Java client cannot send, which the server must survive.

`TimelySpec` restricts one thing: `accept_join`, `reject_join` and
`cancel_join` do not name a match that is `ABANDONED` already. It is not a
property of the code. It separates one hole the code has (section 4, finding
1), so that everything that holds apart from it can be stated and proved. A
client that has processed the notification of the closing obeys it; a client
whose message crosses that notification does not.

### State and actions of `Framing`

`sent` and `client` are the client's end; `net` the bytes written and not yet
received; `buf` is `rb->buf[0 .. rb->len-1]`, `msg` what `receive_message`
returned, `pc` the place in the receive loop; `taken` the lines handed to
`parse_json_message`. `Receive` is one call of `receive_message` with its four
ways out: a buffered line, a chunk of 1 to `CHUNK` bytes (too big, with a line,
without), the end of the stream, an error of the socket. `Top` and `Select` are
main.c:252-269, `Look` the two tests at 280-287. `Close` and `Reset` end the
connection at any byte; a reset loses what had not arrived. A line is the
sequence of its bytes; what it parses to is told by the sets it belongs to.

### State and actions of `Connections`

One holder per mutex, one program counter per thread; `call` is the call of
`send_response`, `send_notification`, `get_username`, the broadcast, the
registration or the final mark a thread is in, with the progress of
`send_message` (`left`, `stalls`). A handler is any sequence of such calls, with
`matches_mutex` held or without, so what is shown holds whatever the handlers
decide. `open` maps descriptors to connections as the kernel does, the lowest
free one first; `socket_fd` is the server's own idea of it. `wire` remembers of
each connection which thread is in the middle of a line, whether something meant
for another player ever went astray to it (`stray`), whether the line that is
being written, or was written last, has a line given up in the middle in it or
just before it (`half`), and whether it ran into another (`torn`). `send` may take any part of a message or fail for any reason at any
time; the peer may shut or reset its end at any time, and a send to a connection
that was reset ends the process (`BrokenPipe`, SIGPIPE is not handled).

The per-match mutex (`match.h`) is taken only under `matches_mutex`, with
nothing taken inside, and is left out.

### State and actions of `Client` and `Forza4`

A client is a record: the fields of `GameModel` that decide something, the
screen, the open dialogs from bottom to top, `outbox` (written and not yet
served) and `inbox` (sent by the server and not yet handled). A modal dialog of
Swing blocks the handler that opened it and goes on dispatching events: so
`handleMessage` does everything up to the dialog and pushes it, and what the
handler does after it is done by `CloseDialog` when the user answers. The user
reaches only the topmost dialog, and the screen only when there is none.

`Serve(p)` is the action of `Server` for the first request of `p`'s outbox, and
delivers its `out'`; `Open` is `connectToServer`; `Lose` is a client that is
closed or cut off. `Mark` is the server's second step for it. A user may do
whatever his screen lets him. A user's join may name any match there has been,
because the list in his lobby may be old.

`System` lets users act at any moment. `PromptSystem` assumes one thing: the
network is faster than a user, who does nothing while something is on its way to
or from his own client (`Caught`). Requests of different users still cross.
Three bounds are guards: `MaxUnserved` requests of one client not yet served,
`MaxUnhandled` messages on the way to one client, `MaxDialogs` open dialogs.

### What is abstracted

* Names, JSON text, time stamps, `last_activity`: no decision reads them.
* `current_match_id` of a player: written, never read.
* The payload of `list_matches` stops at 1024 bytes (main.c:435). An entry has
  at most 36 + 126 bytes of id and name besides its fixed text, so four always
  fit; the model lists all and the runs have at most two.
* `rejected_players` is a set with the size limit of the array.
* The scan of a run of discs (`count_consecutive`) is the number the loop ends
  with, not the loop.
* A message sent to a player who is `leaving` is in `out` although the
  descriptor may be closed: nobody is waiting for it.
* Closing the dialogs about the queue keeps the others in place: `SelectPlaces`
  is `SelectSeq`, written so that it can be reasoned about; `Arriving` uses it to
  leave out what a client does not heed.
* The client's copy of the board: it is set wherever the turn is, and a click is
  judged by the turn alone. The list of the lobby and the messages that only
  refresh it.

## 3. Checks

TLC, one line per run (states are distinct states; of the runs that find a
violation, those seen until then).

| run | module, cfg | bounds | states | what it shows |
|---|---|---|---|---|
| `play_wide` | `MCPlay`, `Play35` | 3x5, lines of 3 | 70 914 | `OutcomeMatchesBoard`, `AnswerNamesOutcome`, `Gravity`, `TurnsAlternate`, `OneDiscPerMove`, `TypeOK` |
| `one_match` | `MCServer`, `ServerOneMatch` | 5 players, 1 match, queue 2, 1x4, lines of 2 | 231 929 | `SeatingSound`, `RequestsSound`, `ResultMatchesBoard`, `OpponentIsTold`, `LobbyIsTold`, `RematchByConsent`, `NobodyDropped`, `FirstComeFirstDecided`, `EveryRequestIsPutToTheCreator`, `NoGameComesBack`, `TypeOK` |
| `timely_two_matches` | `MCServer`, `ServerTimely` | `TimelySpec`, 3 players, 2 matches, queue 1, 1x3 | 701 990 | `OnePlaceAtATime`, `NoGhost` |
| `framing` | `MCFraming`, `Framing` | 3 lines out of 5, chunk 3, buffer 7 | 70 419 | `ImplementsLineChannel`, `LinesWholeInOrder`, `ShortLinesNeverRefused`, `BufferFits`, `DisconnectionNoticed`, `TypeOK` |
| `threads` | `MCConnections`, `ConnThreads` | 2 players, 3 connections, 2 descriptors, messages of 2 pieces | 858 100 | `NoCircularWait`, `LinesKeptApart`, `DescriptorIsOwn`, `TypeOK` |
| `threads_go_on` | `MCConnections`, `ConnLive` | the same with messages of 1 piece | 37 795 | `RequestsEnd`, `LeaversAreMarked` |
| `clients` | `MCForza4`, `Forza4Clients` | `PromptSystem`, 3 players, 1 match, queue 1, 2 dialogs | 1 673 200 | `NoRequestForgotten`, `NobodyWaitsInVain`, `ScreensTellTheTruth`, `ClientTypeOK` |
| `two_places` | `MCServer`, `ServerTwoPlaces` | `Spec`, 2 players, 2 matches | violated | `OnePlaceAtATime`: finding 1 |
| `full_list` | `MCServer`, `ServerFullList` | `TimelySpec`, 3 players, queue 1 | violated | `RejectionRemembered`: finding 2 |
| `one_writer` | `MCConnections`, `ConnOneWriter` | 3 players, 2 descriptors | violated | `OneWriter`: finding 3 |
| `decided` | `MCForza4`, `Forza4Decided` | as `clients` | violated | `DecidedAsShown`: finding 4 |
| `dead_game` | `MCForza4`, `Forza4DeadGame` | `System`, 2 players, 1 match | violated | `NoDeadGame`: finding 5 |

Every property of a passing run has a mutant in `PROJECT.json`: a slip a
programmer could make in that code, defined in the module next to the operator
it replaces (comments "A slip the checks must notice").

### Why the bounds are enough for what they are asked

* *Boards of a game.* 3x5 with lines of 3 has runs that start, end and are
  joined in every column, in all four directions, and full boards with and
  without a line. The theorems hold for every size.
* *Boards of the server.* One row of 4 or 3 cells with lines of 2 lets both
  players win and lets the game end in a draw, which is all the life of a match
  distinguishes.
* *Players of one match.* Five are a creator, a request in decision, a queue of
  two and one who is turned away: withdrawals from the front, the middle and the
  end, and both arrays full.
* *Matches.* A match is used again for any number of sessions, so one already
  shows stale fields; two are needed to be in two places. Once closed a match is
  not reused by the code, so `MAX_MATCHES` also bounds the run's number of
  creations.
* *Connections of the server.* A player number is given once and not reused, as
  in the code, so a run of `Server` has at most as many connections as players.
* *Framing.* The code has chunks of 2048 and a buffer of 4096, of which the last
  byte is for the `'\0'`. 3 and 7 keep the relation (the buffer is a little more
  than two chunks); `ShortLines` are within the limit, one of the `LongLines`
  fits if its pieces arrive well and one can never fit. Three lines are one
  taken, one in the buffer and one on the way.
* *Threads.* `MAX_PLAYERS` 2 is one thread that answers and one that notifies,
  plus the accept loop, and a third connection that is refused or waits for a
  descriptor; two descriptors make them be reused. A message of two pieces has a
  middle to be given up in. `StallLimit` is 2000 in the code and 1 here: one
  failure is put up with and the next is not. `MaxCalls` is the calls of one
  handler: every call is begun with what is held at any other, so one suffices
  (the theorems have no bound).
* *Clients.* Three users are a creator and two who ask, one of whom is queued;
  `MaxDialogs` 2 is a popup over a popup. `MaxUnserved` 1 means that a user waits
  until his last request is served. No step sends one client two messages he
  heeds (checked apart), so `MaxUnhandled` 1 never forbids a step for good; the
  four properties were also checked with `MaxUnhandled` 2 (4.2 million states),
  where messages queue up under dialogs; that takes more than four minutes and
  is not a listed run.

### Views, symmetry, deadlock

`WithoutRegistration` (`MCServer`) leaves out what the last step sent and the
difference between a registered and a merely connected client; no guard of
`Server` reads either, so equal views have equal successors, and action
properties are evaluated on every generated step. `WithoutRegistration` of
`MCConnections` leaves out that difference alone. `GameOnly` (`MCPlay`) leaves
out the last answer; `WithoutMessages` (`MCForza4`) leaves out `out`, and the
seat and turn of a client that shows no game, which are set before they are
read. `Symmetry` permutes players where no action names one; no run with a
liveness property uses it.

Deadlock is checked in the runs of the server, framing and threads (a thread
that may rest does so by `Gone` or `Quiet`, so a deadlock would be found). In
`Play` a game may simply be over, and in `Forza4` everybody may have gone.

### Fairness

* `Framing`: weak fairness of the receive thread, which runs or waits in
  `select`. The client promises nothing.
* `Connections`: strong fairness of every thread (`Takes` or `Runs`) and of the
  accept loop once it has accepted: a thread that can run again and again is
  scheduled, and a mutex that is released again and again is got in the end, as
  pthreads give in practice. Strong fairness of leaving the receive loop once
  the peer has gone: what it has written is finite, and `Framing` shows that the
  loop is then left (`DisconnectionNoticed`). No fairness of clients, of
  accepting, or of `send` taking anything: `RequestsEnd` holds because
  `send_message` counts its failures and gives up. Both liveness properties
  allow for a process killed by SIGPIPE (section 4).
* `Server`, `Play`, `Forza4`: none, their properties are safety. `NobodyWaitsInVain`
  and `NoRequestForgotten` are stated as invariants on purpose: a user owes
  nobody an answer, but it must always be his turn and he must know.

## 4. Findings

Each of the first five is a run of `PROJECT.json` with a counterexample.

1. **Two matches at once** (`two_places`). Closing a match leaves
   `pending_requester_id` set, and accept, reject and cancel do not look at the
   state. A creator quits over a pending request, creates another match, and his
   late acceptance of the first makes it `ACTIVE`: he plays one and owns the
   other, against `is_player_busy`. In the same way a late withdrawal or
   rejection puts a closed match back into the lobby, with no creator to answer.
   With `TimelySpec`, where this is excluded, `OnePlaceAtATime` and `NoGhost`
   hold, so a test of the state in those three handlers is all that is missing.
   `NoGameComesBack` says, without `TimelySpec`, how far a late answer reaches: a
   closed match may be opened again only by its creator or by the one requester it
   was closed over, with an empty board, and for those two; a game that was left
   is never resumed, and nobody new gets into its line.
2. **A rejection is forgotten** (`full_list`). `rejected_players` has
   `MAX_JOIN_QUEUE` places, but rejections accumulate over a session; once it is
   full the next rejected player may ask again.
3. **Two writers on one socket** (`one_writer`). The descriptor is closed before
   the player is marked. A notification to him in between goes to the old number,
   which a new client may already have, under another send mutex.
4. **The wrong requester is decided on** (`decided`). The answer to a popup names
   the match only. If the requester shown withdraws while the answer is on its
   way, the next one is seated or rejected in his place.
5. **A game nobody plays** (`dead_game`). A `match_started` that arrives after
   its player has gone back to the lobby takes him to the game screen of a match
   he has closed.

Seen while modelling; no property of a run is about them, since it would only
restate the step in question:

* *SIGPIPE* (network.c:141). `send` to a connection that was reset raises it,
  nothing ignores it, and it ends the process with all matches. `BrokenPipe` is
  that step, and the liveness properties of `Connections` except it.
* *Tables that never shrink* (main.c:1148, 321). `players_count` and
  `matches_count` only grow: after `MAX_PLAYERS` connections or `MAX_MATCHES`
  matches in its life the server refuses every other, whoever has left.
* *Half a line* (network.c:150, main.c:99). When `send_message` gives up in the
  middle of a line nobody looks at its result, and the next message to that
  client continues the line and is lost with it. `LinesKeptApart` shows that this
  and finding 3 are the only ways lines get mixed, and that after half a line only
  the next one is lost: the one behind it begins anew.
* *The limit of a line.* A comment says that messages stay below 2 KB and the
  buffer has 4096 bytes. What is safe whatever the network does is
  `BUFSIZE - CHUNK - 1`, 2047 bytes: a longer line may be refused because the first bytes
  of the next arrive with its end.
* *`waitingDialog`* (GameController.java:25, 366-371) is closed in several
  places and assigned nowhere, so `closeWaitingDialogIfOpen` closes nothing:
  what it was meant to replace ("Hai perso") stays open under the next dialog.
* *The turn of another game.* The branch for `move` (GameController.java:315)
  does not look at the `match_id` of the message. A player whom finding 1 has
  seated in two matches sees the turn of the one he plays change with the moves
  of the other, on any network. `ScreensTellTheTruth` excepts the turn, and only
  the turn, of a player with a second seat (`SeatedElsewhere`); found while
  looking for its invariant with two matches, which the run does not have.
* *Popups pile up.* A popup of a request is not closed when the request is
  withdrawn; the next one opens over it and both are answered, the second answer
  applying to whoever is pending then, or to nobody.

## 5. Proofs

All theorems hold for every value of the constants; the assumptions are
`BoardAssumption`, `MatchAssumption`, `ServerAssumption`, `PlayAssumption`,
`FramingAssumption`, `ConnectionsAssumption`, `ClientAssumption` and
`Forza4Assumption`, which TLC evaluates in the runs.

| theorem | states | rests on |
|---|---|---|
| `PlayProofs!PlayTypeCorrect` | `Spec => []TypeOK` of `Play` | `MatchProofs` |
| `PlayProofs!GravityHolds` | `Spec => []Gravity` | the disc lands on the lowest empty cell |
| `PlayProofs!OneDisc` | `Spec => OneDiscPerMove` | the same |
| `PlayProofs!PlayersAlternate` | `Spec => []TurnsAlternate` | a disc is one more of its player and none of the other |
| `MatchProofs!CheckWinIsHasLine` | `check_win` after a disc says whether the board has a line | lines as intervals |
| `MatchProofs!CheckDrawIsFull` | on a settled board the top row tells whether it is full | `Settled` |
| `PlayProofs!OutcomeIsRight` | `Spec => []OutcomeMatchesBoard` | the two above, `Gravity` |
| `PlayProofs!OutcomeIsNamed` | `Spec => AnswerNamesOutcome` | the same, `OutcomeMatchesBoard` |
| `ServerProofs!TypeCorrect` | `Spec => []TypeOK` | each operator returns a match (`MatchProofs`) |
| `ServerProofs!SeatingIsSound` | `Spec => []SeatingSound` | `AllSound` |
| `ServerProofs!RequestsAreSound` | `Spec => []RequestsSound` | `AllSound` |
| `ServerProofs!ResultIsRight` | `Spec => []ResultMatchesBoard` | `AllSound`, `AllJudged`, `MatchProofs` |
| `OnePlaceProofs!OnePlace` | `TimelySpec => []OnePlaceAtATime` | `AllSound`, `Admits` |
| `OnePlaceProofs!NoGhosts` | `TimelySpec => []NoGhost` | `AllSound`, `Admits`, clean-up |
| `ObligationProofs!NobodyIsDropped` | `Spec => NobodyDropped` | `StepEffect`, `AllSound` |
| `ObligationProofs!CreatorIsAsked` | `Spec => EveryRequestIsPutToTheCreator` | the same |
| `ObligationProofs!OpponentHears` | `Spec => OpponentIsTold` | the same, `GameChanges` |
| `ObligationProofs!LobbyHears` | `Spec => LobbyIsTold` | the same |
| `ObligationProofs!RematchIsAgreed` | `Spec => RematchByConsent` | `StepEffect`, `AllSound` |
| `ObligationProofs!ClosedGamesAreOver` | `Spec => NoGameComesBack` | `StepEffect`, `AllSound`, `AllJudged` |
| `ObligationProofs!RequestsAreDecidedInOrder` | `Spec => FirstComeFirstDecided` | `StepEffect`, `KeepsOrder` |
| `Forza4Proofs!SystemIsServer` | `System => Spec` of `Server`: every step of the whole is a step of the server or none | `AllTyped` |
| `Forza4Proofs!ClientTypeCorrect` | `System => []ClientTypeOK` | `AllTyped` |
| `Forza4Proofs!RequestsStayPut` | `System => []NoRequestForgotten` | `AllTyped`, `AllCame`, `AllPut` |
| `Forza4Proofs!WaitingIsNotInVain` | `PromptSystem => []NobodyWaitsInVain` | `AllTyped`, `AllCame`, `AllPatient` |
| `Forza4Proofs!ScreensAreTrue` | `PromptSystem => []ScreensTellTheTruth` | `AllTyped`, `AllCame`, `AllPatient`, `AllAware` |
| `FramingProofs!FramingTypes` | `Spec => []TypeOK` of `Framing` | `IInv` |
| `FramingProofs!BufferNeverOverflows` | `Spec => []BufferFits` | `IInv` |
| `FramingProofs!ShortLinesKept` | `Spec => []ShortLinesNeverRefused` | `IInv`, `ChunkFits` |
| `FramingProofs!ChannelOfLines` | `Spec => LinesWholeInOrder`: every step of `Framing` is a step of `LineChannel` or none | `IInv` |
| `ConnectionsProofs!TypesHeld` | `Spec => []TypeOK` of `Connections` | `Inv` |
| `ConnectionsProofs!NoCircle` | `Spec => []NoCircularWait` | `MutexesHeld` |
| `ConnectionsProofs!OwnDescriptor` | `Spec => []DescriptorIsOwn` | `DescriptorsHeld` |
| `ConnectionsProofs!KeptApart` | `Spec => []LinesKeptApart` | `LinesHeld` |

*Seats and requests.* `AllSound` says of every match that its owner is its
first player, that seats and state agree, that the line of requests is sound,
and that `rejected_players` is finite. The first two need each other (who is
accepted is not the creator because the creator is not in the line; the line is
empty once the second seat is taken), and finiteness is what makes the count of
the rejected players grow by at most one. Promotion runs on a record whose
pending request has just been dealt with, so it is proved from a weaker
condition, `Promotable`.

*One place at a time.* `Keeps(m, n)` says that `n` engages nobody `m` did not
engage. Every operation keeps, except create and join, which engage the client
served, and ask `is_player_busy` first. `Admits(p, id)` is the same said of a
whole step; the two theorems follow from it without looking at the handlers
again.

*The end of a game.* The rules (`HasLine`, `IsFull`) look at the whole board, the
code at the four axes through the last disc and at the top row. On one axis, let
H be the set of offsets at which the player has a disc. The two scans return how
far H reaches from 0 forwards and backwards (`CountForwards`, `CountBackwards`),
and H has `WINNING_LENGTH` consecutive members around 0 exactly when the sum plus
one is at least that (`Intervals`). A line that was not there before passes
through the new disc (`NewLineIsAround`), so nothing else need be looked at. Two
shortcuts of the code rest on the history of the board: not scanning upwards is
right because the disc landed on top of its column, and the top row is enough
because no disc hangs. So the inductive invariant of the game is
`TypeOK /\ Gravity /\ OutcomeMatchesBoard`; without gravity `check_draw` would
be wrong, and without the absence of lines before the move `check_win` would.

*The result of a match on the server.* `AllJudged` carries this over to a record
that is used for many games: the winner is the one of the board, no disc hangs,
a board is empty while a seat is free, and votes are for a draw. A move is
judged by the lemmas above, with `AllSound` to know that both seats are taken by
different people; whatever happens to the requests happens while a seat is free,
so to a record without a game; the three ways into a new session clear board,
winner and votes together. It does not need `TimelySpec`: a closed match that
comes back (finding 1) has never been played on.

*Framing.* `Carried` says that there is a list of places, one per line not yet
taken, such that between two places the bytes in the buffer and on the way are
that line, and at the place its newline; a reset may have cut the bytes off
anywhere. Taking a line drops the first place (`CutTakesNextLine`), writing adds
one, receiving moves bytes from one part to the other. That a short line is never
refused is then arithmetic: an incomplete line of at most `Limit` bytes and one
chunk fit (`ChunkFits`). The step simulation of `LineChannel` maps the call of
`receive_message` that takes a line to `Take` and the one that reports an error
to nothing, `Look` to `End`; `ErrorsSound` says why the channel may end.

*Threads.* `Inv` is `TypeOK`, `MutexesHeld` (who holds a mutex is at a place
where he releases it), `Counted` (the accept loop and the table agree how many
there are, so a call never concerns an empty entry), `DescriptorsHeld` (who is
served or being accepted is behind his descriptor, and no two behind one) and
`LinesHeld` (the line in progress on a connection nothing has strayed to, and
not begun behind half a line, is that of the thread that is writing to it, under
its send mutex). No circle: take threads each of which waits
for one of them. None of them holds `players_mutex` or a send mutex, because the
holder of either is at a step that waits for nothing. So they all wait for
`matches_mutex`; but who holds it has it already and waits for another one, so
he is not among them either.

*What the server owes its clients.* The seven theorems of `ObligationProofs` are
action properties, about every step there is. `StepEffect` classifies them once:
to one match a step does nothing (`Keep`), or what one of the twelve ways a
handler can end does (`AskFirst`, `Queue`, `Accept`, `Refuse`, `Withdraw`, ...,
`Clean`), and then `out'` holds what that way sends. Field lemmas say what each way
leaves in the record, telling lemmas whom it tells; an obligation is met way by
way. That the match was sound before (`AllSound`) is needed throughout: it says,
for instance, that the requester who is accepted was not in the queue, so that
nobody else is dropped with him. The clean-up of a lost connection sends the
messages of all matches as one list; `FlattenHolds` finds in it those of one. For
the order of the requests, `KeepsOrder(was, is)` is shown of each operation on
the queue; dropping any of its elements keeps it (`PartKeepsOrder`), which is all
that promotion and withdrawal do. What a closed match may still become
(`NoGameComesBack`) is what acceptance, rejection and withdrawal leave of it: the
other ways ask for its state (`LateAnswer`, `WhoAnswersLate`), and its board is
empty because a request is pending only while a seat is free (`AllJudged`).

*Clients and server.* `System => Spec` lets every theorem about `Server` be used
for the whole: what the clients send is always a request of `Server`, because
`AllTyped` says what an outbox may hold. `Mailings` says what the server may
send, given the table after the step, and is carried through `Arriving` into
`Post`, what an inbox may hold. That is the ground for the three invariants on top.

* `AllPut` (for `RequestsStayPut`) follows one request: the server's step that
  puts it in decision also tells the creator (`AskedOrKept`), the message waits
  in the inbox, handling it opens the popup (`PutHandled`), nothing but the
  user's answer closes the popup (`PutActed`), and serving the answer settles
  the match or promotes the next, who is put to the creator in turn
  (`AnswerSettles`). It needs `AllCame`, because a match may go to a winner who
  opens it again, and no assumption on the network or the users.
* `AllPatient` (for `WaitingIsNotInVain`) relates the screen, both channels and
  the line on the server. The property alone is not inductive: the answer that
  lets a client in is still on its way when its request may already be over, so
  `Patient` says of that answer, too, that it is true or will be followed by the
  end (`Hears`); a withdrawal is the one way out of a line that nobody
  announces, so it says that a client withdraws only once it has left the
  waiting screen; and a second request under way could be let in while the first
  still is, so it says there is at most one, and none while an answer lets it
  in. That last part is where `PromptSystem` is used. `ServedTells` and
  `ServedLetsIn` are the server's half: who leaves a line is told, and only who
  stands in one is let in.
* `AllAware` (for `ScreensAreTrue`) looks ahead. `ScreensTellTheTruth` says
  something only of a client that has handled everything, so it is far from
  inductive: `Aware` says it of what the client shows now (place 0) and of what
  it will show after each message in its inbox (place k), unless a later message
  diverts it to something else (`Lasts`), and of the turn that the last of the
  moves behind it will leave (`TurnLasts`). Handling a message moves every place
  one forward (`AwareHandled`). Serving a request may take from a player what he
  has at the server (`Standing`) only with a letter that diverts his client
  (`Warned`: `OwnerStays`, `DeadStays`, `PlayerStays`), and letters say what is
  so after the step and are all about one match (`TruthOf`, shown handler by
  handler in `CreateIsTrue`, `JoinIsTrue`, ..., collected in `ServedIsTrue`). A
  player who leaves a match of his own is told nothing; therefore `Aware` also
  says that a client that leaves one no longer shows it and opens no other
  meanwhile, and rests on the single request under way of `AllPatient`. The two
  exceptions in the property are the two ways in which the code lets a screen be
  wrong: `quit_match` crossing the acceptance (the match is `Dead`, see
  `NoDeadGame`), and a move in one match taken for one in another (`Stuck`).

*Recursion.* The provers cannot instantiate an induction theorem, and still some
facts about recursive functions are needed: that `FlattenSeq` loses nothing
(`FlattenHolds`), and that closing some dialogs keeps the others (`SelectHolds`).
They are proved by a least counterexample: of the lengths at which the function
went wrong there would be a first, and its definition there and one step earlier
rule it out.

*Only model-checked.* Every safety property of a passing run is a theorem. What
is left to TLC is out of the prover's reach: liveness under fairness
(`ImplementsLineChannel`'s liveness half, `DisconnectionNoticed`, `RequestsEnd`,
`LeaversAreMarked`), and with it `ENABLED`; induction over data with an operator
parameter is avoided as said above. The modules use no recursive operator.

## 6. Not modelled, and what is left

Not modelled, with the reason:

* drawing and wording: `view/*` beyond which screen and buttons there are, the
  texts of dialogs and banners, the list in the lobby, names and their clean-up;
* the format of messages: `protocol.c`, `MessageProtocol.java`. What a line
  parses to is a parameter of the actions; escaping and field order are wording;
* the client's failures to connect, to read and to send: they show a dialog or
  print, and the client goes on or is closed (`Lose`);
* opening the listening socket, signals other than SIGPIPE, and running out of
  memory (`malloc`, `pthread_create` are not tested by the code);
* a restart of the server: everything is in memory, so a restart is `Init`;
* build files and deployment.

Left for later:

* The clients under `System`, without `Prompt`: late answers that meet dialogs can
  leave a client in the lobby while the server has seated him. With a test of the
  state in accept, reject and cancel this was not found with two players; what the
  weakest assumption on users is remains open.
