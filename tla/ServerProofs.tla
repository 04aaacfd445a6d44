---------------------------- MODULE ServerProofs ----------------------------
(***************************************************************************)
(* The server's tables hold well-formed records at all times, whatever the *)
(* clients send: every action writes a match wherever there was a match.   *)
(*                                                                         *)
(* Seats and requests of every match stay consistent as well (SeatingSound *)
(* and RequestsSound of ServerProperties).  The invariant is inductive     *)
(* once the finiteness of the list of rejected players, which bounding its *)
(* size needs, is added to it.  On top of it, the result of every match is *)
(* the one its board shows, at all times (ResultMatchesBoard).             *)
(***************************************************************************)
EXTENDS ServerProperties, MatchProofs

-----------------------------------------------------------------------------
(* Every operation of the handlers on a match returns a match.             *)

LEMMA SeatedType ==
  ASSUME NEW m \in Matches, m.pending_requester_id # NoPlayer
  PROVE  [Seated(m) EXCEPT !.join_queue = << >>] \in Matches
<1> DEFINE n == [m EXCEPT !.pending_requester_id = NoPlayer]
           p == m.pending_requester_id
<1>1. n \in Matches /\ p \in Players
  BY DEF Matches
<1>2. add_player_to_match(n, p) \in Matches
  <2> HIDE DEF n, p
  <2> QED BY <1>1 DEF add_player_to_match, Matches, MatchStates
<1> QED BY <1>2, QueueWriteType, NobodyQueues DEF Seated

LEMMA PlayedType ==
  ASSUME NEW m \in Matches, NEW p \in Players, NEW column
  PROVE  Played(m, p, column) \in Matches
BY MoveType DEF Played, Matches

LEMMA SessionType ==
  ASSUME NEW m \in Matches, NEW p \in Players
  PROVE  /\ reset_match_for_rematch(m) \in Matches
         /\ open_new_session_as_owner(m, p) \in Matches
         /\ Voted(m, p) \in Matches
         /\ Left(m, p) \in Matches
<1>1. reset_match_for_rematch(m) \in Matches
  BY ClearedType DEF reset_match_for_rematch, Matches, MatchStates
<1>2. open_new_session_as_owner(m, p) \in Matches
  BY ClearedType DEF open_new_session_as_owner, Matches, MatchStates
<1>3. Voted(m, p) \in Matches
  BY DEF Voted, Matches
<1>4. Left(m, p) \in Matches
  BY DEF Left, abandon_match, Matches, MatchStates
<1> QED BY <1>1, <1>2, <1>3, <1>4

LEMMA RequestType ==
  ASSUME NEW m \in Matches, NEW p \in Players
  PROVE  /\ AskedFirst(m, p) \in Matches
         /\ enqueue_join_request(m, p) \in Matches
         /\ add_rejected_player(m, p) \in Matches
         /\ PromoteNext(m) \in Matches
         /\ Withdrawn(m, p) \in Matches
         /\ remove_from_join_queue(m, p) \in Matches
<1>1. AskedFirst(m, p) \in Matches
  BY DEF AskedFirst, Matches, MatchStates
<1>2. enqueue_join_request(m, p) \in Matches
  <2>1. Append(m.join_queue, p) \in Seq(Players)
    BY DEF Matches
  <2> QED BY <2>1, QueueWriteType DEF enqueue_join_request
<1>3. add_rejected_player(m, p) \in Matches
  BY DEF add_rejected_player, Matches
<1>4. ASSUME NEW n \in Matches PROVE PromoteNext(n) \in Matches
  <2>1. CASE n.join_queue = << >>
    BY <2>1 DEF PromoteNext, Matches, MatchStates
  <2>2. CASE n.join_queue # << >>
    <3>1. n.join_queue \in Seq(Players)
      BY DEF Matches
    <3>2. Head(n.join_queue) \in Players /\ Tail(n.join_queue) \in Seq(Players)
      BY <2>2, <3>1
    <3>3. dequeue_join_request(n) \in Matches
      BY <3>2, QueueWriteType DEF dequeue_join_request
    <3> DEFINE d == dequeue_join_request(n)
               h == Head(n.join_queue)
    <3>4. [d EXCEPT !.pending_requester_id = h, !.withdrawn_requester_id = NoPlayer,
                    !.state = "JOIN_PENDING"] \in Matches
      <4> HIDE DEF d, h
      <4>1. d \in Matches /\ h \in Players
        BY <3>2, <3>3 DEF d, h
      <4> QED BY <4>1 DEF Matches, MatchStates
    <3> QED BY <2>2, <3>4 DEF PromoteNext
  <2> QED BY <2>1, <2>2
<1>5. Withdrawn(m, p) \in Matches
  <2>1. [m EXCEPT !.withdrawn_requester_id = p] \in Matches
    BY DEF Matches
  <2> QED BY <2>1, <1>4 DEF Withdrawn
<1>6. remove_from_join_queue(m, p) \in Matches
  <2>1. CASE p \in ToSet(m.join_queue)
    <3>1. RemoveAt(m.join_queue, QueuePosition(m, p)) \in Seq(Players)
      BY <2>1, QueuePositionIsFirst, RemoveAtIsSeq DEF Matches
    <3> QED BY <2>1, <3>1, QueueWriteType DEF remove_from_join_queue
  <2> QED BY <2>1 DEF remove_from_join_queue
<1> QED BY <1>1, <1>2, <1>3, <1>4, <1>5, <1>6

LEMMA RefusedType ==
  ASSUME NEW m \in Matches, m.pending_requester_id # NoPlayer
  PROVE  Refused(m) \in Matches
<1>1. m.pending_requester_id \in Players
  BY DEF Matches
<1>2. add_rejected_player(m, m.pending_requester_id) \in Matches
  BY <1>1, RequestType
<1> QED BY <1>1, <1>2, RequestType DEF Refused

LEMMA CleanUpType ==
  ASSUME NEW m \in Matches, NEW p \in Players
  PROVE  CleanUp(m, p) \in Matches
BY SessionType, RequestType DEF CleanUp

-----------------------------------------------------------------------------
(* Type correctness of the server.                                         *)

LEMMA UpdateType ==
  ASSUME NEW ms \in Seq(Matches), NEW id \in DOMAIN ms, NEW n \in Matches
  PROVE  [ms EXCEPT ![id] = n] \in Seq(Matches)
BY ExceptSeq

\* Requests and answers leave the tables of players alone and rewrite at most
\* one match, with a match.
LEMMA RequestPreservesType ==
  ASSUME TypeOK, NEW p \in Players, Request(p)
  PROVE  TypeOK'
<1> USE DEF TypeOK
<1>1. CASE Register(p)
  BY <1>1 DEF Register, PlayerStates, Connected, Serving
<1>2. CASE UnknownAction(p) \/ ListMatches(p)
  BY <1>2 DEF UnknownAction, ListMatches, Connected
<1>3. CASE CreateMatch(p)
  <2>1. matches' \in Seq(Matches)
    BY <1>3, CreateType DEF CreateMatch, Fails
  <2> QED BY <1>3, <2>1 DEF CreateMatch, Connected
<1>4. ASSUME NEW id \in MatchIds, JoinMatch(p, id) PROVE TypeOK'
  <2>1. matches' \in Seq(Matches)
    <3>1. CASE UNCHANGED matches
      BY <3>1
    <3>2. CASE Found(id) /\ ~UNCHANGED matches
      <4>1. matches[id] \in Matches
        BY <3>2 DEF Found
      <4>2. PICK n \in {AskedFirst(matches[id], p), enqueue_join_request(matches[id], p)} :
              matches' = [matches EXCEPT ![id] = n]
        BY <1>4, <3>2 DEF JoinMatch, Fails
      <4>3. n \in Matches
        BY <4>1, <4>2, RequestType
      <4> QED BY <3>2, <4>2, <4>3, UpdateType DEF Found
    <3> QED BY <1>4, <3>1, <3>2 DEF JoinMatch, Fails
  <2> QED BY <1>4, <2>1 DEF JoinMatch, Connected
<1>5. ASSUME NEW id \in MatchIds, NEW column \in Columns, Move(p, id, column)
      PROVE  TypeOK'
  <2>1. matches' \in Seq(Matches)
    BY <1>5, PlayedType, UpdateType DEF Move, Found, Fails
  <2> QED BY <1>5, <2>1 DEF Move, Connected
<1>6. ASSUME NEW id \in MatchIds, Rematch(p, id) PROVE TypeOK'
  <2>1. matches' \in Seq(Matches)
    BY <1>6, SessionType, UpdateType DEF Rematch, MayRematch, Found, Fails
  <2> QED BY <1>6, <2>1 DEF Rematch, Connected
<1>7. ASSUME NEW id \in MatchIds, QuitMatch(p, id) PROVE TypeOK'
  <2>1. matches' \in Seq(Matches)
    <3>1. CASE UNCHANGED matches
      BY <3>1
    <3>2. CASE Found(id) /\ matches' = [matches EXCEPT ![id] = Left(@, p)]
      <4>1. matches[id] \in Matches
        BY <3>2 DEF Found
      <4>2. Left(matches[id], p) \in Matches
        BY <4>1, SessionType
      <4> QED BY <3>2, <4>2, UpdateType DEF Found
    <3> QED BY <1>7, <3>1, <3>2 DEF QuitMatch
  <2> QED BY <1>7, <2>1 DEF QuitMatch, Connected
<1> QED BY <1>1, <1>2, <1>3, <1>4, <1>5, <1>6, <1>7 DEF Request

LEMMA AnswerPreservesType ==
  ASSUME TypeOK, NEW p \in Players, NEW id \in MatchIds, Answer(p, id)
  PROVE  TypeOK'
<1> USE DEF TypeOK
<1>1. ASSUME NEW action, NothingToDecide(p, action, id) PROVE matches' \in Seq(Matches)
  <2>1. CASE UNCHANGED matches
    BY <2>1
  <2>2. CASE Found(id) /\ matches' = [matches EXCEPT ![id].withdrawn_requester_id = NoPlayer]
    <3>1. matches[id] \in Matches
      BY <2>2 DEF Found
    <3>2. [matches[id] EXCEPT !.withdrawn_requester_id = NoPlayer] \in Matches
      BY <3>1 DEF Matches
    <3> QED BY <2>2, <3>2, UpdateType DEF Found
  <2> QED BY <1>1, <2>1, <2>2 DEF NothingToDecide, Fails
<1>2. CASE AcceptJoin(p, id)
  <2>1. matches' \in Seq(Matches)
    <3>1. CASE HasRequestFor(p, id)
      <4>1. matches[id] \in Matches /\ id \in DOMAIN matches
        BY <3>1 DEF HasRequestFor, Found
      <4>2. [Seated(matches[id]) EXCEPT !.join_queue = << >>] \in Matches
        BY <3>1, <4>1, SeatedType DEF HasRequestFor
      <4>3. matches' = [matches EXCEPT ![id] = [Seated(@) EXCEPT !.join_queue = << >>]]
        BY <1>2, <3>1 DEF AcceptJoin, NothingToDecide
      <4> QED BY <4>1, <4>2, <4>3, UpdateType
    <3> QED BY <1>1, <1>2, <3>1 DEF AcceptJoin
  <2> QED BY <1>2, <2>1 DEF AcceptJoin, Connected
<1>3. CASE RejectJoin(p, id)
  <2>1. matches' \in Seq(Matches)
    <3>1. CASE HasRequestFor(p, id)
      BY <1>3, <3>1, RefusedType, UpdateType DEF RejectJoin, NothingToDecide, HasRequestFor, Found
    <3> QED BY <1>1, <1>3, <3>1 DEF RejectJoin
  <2> QED BY <1>3, <2>1 DEF RejectJoin, Connected
<1>4. CASE CancelJoin(p, id)
  <2>1. matches' \in Seq(Matches)
    <3>1. CASE UNCHANGED matches
      BY <3>1
    <3>2. CASE Found(id) /\ matches' = [matches EXCEPT ![id] = Withdrawn(@, p)]
      <4>1. matches[id] \in Matches
        BY <3>2 DEF Found
      <4>2. Withdrawn(matches[id], p) \in Matches
        BY <4>1, RequestType
      <4> QED BY <3>2, <4>2, UpdateType DEF Found
    <3>3. CASE Found(id) /\ matches' = [matches EXCEPT ![id] = remove_from_join_queue(@, p)]
      <4>1. matches[id] \in Matches
        BY <3>3 DEF Found
      <4>2. remove_from_join_queue(matches[id], p) \in Matches
        BY <4>1, RequestType
      <4> QED BY <3>3, <4>2, UpdateType DEF Found
    <3> QED BY <1>4, <3>1, <3>2, <3>3 DEF CancelJoin
  <2> QED BY <1>4, <2>1 DEF CancelJoin, Connected
<1> QED BY <1>2, <1>3, <1>4 DEF Answer

LEMMA SessionPreservesType ==
  ASSUME TypeOK, NEW p \in Players, Session(p)
  PROVE  TypeOK'
<1> USE DEF TypeOK
<1>1. CASE Connect(p)
  BY <1>1 DEF Connect, PlayerStates, Connected
<1>2. CASE Disconnect(p)
  <2>1. matches' \in Seq(Matches)
    <3>1. DOMAIN matches = 1 .. Len(matches) /\ Len(matches) \in Nat
      OBVIOUS
    <3>2. \A id \in 1 .. Len(matches) : CleanUp(matches[id], p) \in Matches
      BY <3>1, CleanUpType
    <3> QED BY <1>2, <3>1, <3>2, IsASeq DEF Disconnect
  <2> QED BY <1>2, <2>1 DEF Disconnect, Connected, Serving
<1>3. CASE MarkDisconnected(p)
  BY <1>3 DEF MarkDisconnected, PlayerStates, Connected
<1> QED BY <1>1, <1>2, <1>3 DEF Session

LEMMA InitialTypes == Init => TypeOK
BY DEF Init, TypeOK, PlayerStates

LEMMA StepPreservesType ==
  ASSUME TypeOK, [Next]_vars
  PROVE  TypeOK'
<1>1. CASE UNCHANGED vars
  BY <1>1 DEF vars, TypeOK, Connected
<1>2. CASE RefuseConnection
  BY <1>2 DEF RefuseConnection, TypeOK, Connected
<1> QED BY <1>1, <1>2, RequestPreservesType, AnswerPreservesType, SessionPreservesType DEF Next

\* The tables of the server stay well formed whatever the clients send.
THEOREM TypeCorrect == Spec => []TypeOK
<1>1. TypeOK /\ [Next]_vars => TypeOK'
  BY StepPreservesType
<1> QED BY <1>1, InitialTypes, PTL DEF Spec

-----------------------------------------------------------------------------
(* Seats and requests.                                                     *)

Sound(m) == /\ OwnerPlaysFirst(m)
            /\ SeatsMatchState(m)
            /\ RequestsInLine(m)
            /\ IsFiniteSet(m.rejected_players)

AllSound == \A id \in DOMAIN matches : Sound(matches[id])

\* A match whose pending request is about to go: nothing is said of it or of
\* the state, everything else is sound.
Promotable(m) ==
  /\ OwnerPlaysFirst(m)
  /\ m.player2_id = NoPlayer
  /\ \A i, j \in 1 .. Len(m.join_queue) : m.join_queue[i] = m.join_queue[j] => i = j
  /\ m.creator_id \notin ToSet(m.join_queue)
  /\ ToSet(m.join_queue) \cap m.rejected_players = {}
  /\ Len(m.join_queue) <= MAX_JOIN_QUEUE
  /\ Cardinality(m.rejected_players) <= MAX_JOIN_QUEUE
  /\ IsFiniteSet(m.rejected_players)

-----------------------------------------------------------------------------
(* The operations that touch no request.                                   *)

LEMMA CreateSound ==
  ASSUME NEW p \in Players
  PROVE  Sound(create_match(p))
<1> DEFINE m == create_match(p)
<1>1. /\ m.state = "WAITING_FOR_OPPONENT" /\ m.creator_id = p /\ m.player1_id = p
      /\ m.player2_id = NoPlayer /\ m.pending_requester_id = NoPlayer
      /\ m.join_queue = << >> /\ m.rejected_players = {}
      /\ m.withdrawn_requester_id = NoPlayer
  BY DEF create_match
<1>2. Cardinality({}) = 0 /\ IsFiniteSet({})
  BY FS_EmptySet
<1> HIDE DEF m
<1>3. OwnerPlaysFirst(m) /\ SeatsMatchState(m)
  BY <1>1, MatchAssumption DEF OwnerPlaysFirst, SeatsMatchState
<1>4. RequestsInLine(m)
  BY <1>1, <1>2, MatchAssumption DEF RequestsInLine, ToSet
<1> QED BY <1>1, <1>2, <1>3, <1>4 DEF Sound, m

\* What soundness depends on: two records that agree on these fields, and whose
\* states make the same demands, are sound together.
LEMMA SameLine ==
  ASSUME NEW m, NEW n, Sound(m),
         n.creator_id = m.creator_id, n.player1_id = m.player1_id,
         n.player2_id = m.player2_id,
         n.pending_requester_id = m.pending_requester_id,
         n.join_queue = m.join_queue, n.rejected_players = m.rejected_players,
         n.withdrawn_requester_id \in {m.withdrawn_requester_id, NoPlayer},
         n.state = m.state \/ n.state = "ABANDONED"
           \/ (n.state \in {"ACTIVE", "FINISHED"} /\ m.state \in {"ACTIVE", "FINISHED"})
  PROVE  Sound(n)
BY DEF Sound, OwnerPlaysFirst, SeatsMatchState, RequestsInLine

LEMMA PlayedSound ==
  ASSUME NEW m \in Matches, Sound(m), NEW p \in Players, NEW column
  PROVE  Sound(Played(m, p, column))
<1> DEFINE a == apply_match_move(m, p, column)
           n == Played(m, p, column)
<1>1. MoveResult(m, p, column) \in Accepted => m.state = "ACTIVE"
  BY DEF MoveResult, Accepted
<1>2. /\ a.creator_id = m.creator_id /\ a.player1_id = m.player1_id
      /\ a.player2_id = m.player2_id
      /\ a.pending_requester_id = m.pending_requester_id
      /\ a.join_queue = m.join_queue /\ a.rejected_players = m.rejected_players
      /\ a.withdrawn_requester_id = m.withdrawn_requester_id
      /\ a.state = m.state \/ (a.state = "FINISHED" /\ m.state = "ACTIVE")
  BY <1>1 DEF apply_match_move, Matches
<1>3. a \in Matches
  BY MoveType
<1> HIDE DEF a
<1>4. /\ n.creator_id = a.creator_id /\ n.player1_id = a.player1_id
      /\ n.player2_id = a.player2_id
      /\ n.pending_requester_id = a.pending_requester_id
      /\ n.join_queue = a.join_queue /\ n.rejected_players = a.rejected_players
      /\ n.withdrawn_requester_id = a.withdrawn_requester_id
      /\ n.state = a.state
  BY <1>3 DEF Played, Matches, a
<1> HIDE DEF n
<1>5. Sound(n)
  BY <1>2, <1>4, SameLine
<1> QED BY <1>5 DEF n

LEMMA SessionSound ==
  ASSUME NEW m \in Matches, Sound(m), m.state = "FINISHED", NEW p \in Players
  PROVE  /\ Sound(reset_match_for_rematch(m))
         /\ Sound(open_new_session_as_owner(m, p))
         /\ Sound(Voted(m, p))
<1> DEFINE c == ClearedSession(m)
<1>1. /\ c.creator_id = m.creator_id /\ c.player1_id = m.player1_id
      /\ c.player2_id = m.player2_id /\ c.player2_id # NoPlayer
      /\ c.pending_requester_id = NoPlayer /\ c.withdrawn_requester_id = NoPlayer
      /\ c.join_queue = << >> /\ c.rejected_players = {}
  BY DEF ClearedSession, Matches, Sound, SeatsMatchState
<1>2. c \in Matches /\ c.creator_id \in Players
  BY ClearedType DEF Matches
<1>3. Cardinality({}) = 0 /\ IsFiniteSet({})
  BY FS_EmptySet
<1> HIDE DEF c
<1>4. Sound(reset_match_for_rematch(m))
  <2> DEFINE n == [c EXCEPT !.state = "ACTIVE"]
  <2>1. /\ n.creator_id = c.creator_id /\ n.player1_id = c.player1_id
        /\ n.player2_id = c.player2_id /\ n.state = "ACTIVE"
        /\ n.pending_requester_id = NoPlayer /\ n.withdrawn_requester_id = NoPlayer
        /\ n.join_queue = << >> /\ n.rejected_players = {}
    BY <1>1, <1>2 DEF Matches
  <2> HIDE DEF n
  <2>2. OwnerPlaysFirst(n) /\ SeatsMatchState(n)
    BY <1>1, <2>1 DEF OwnerPlaysFirst, SeatsMatchState, Sound
  <2>3. RequestsInLine(n)
    BY <1>1, <1>2, <1>3, <2>1, MatchAssumption DEF RequestsInLine, ToSet
  <2>4. Sound(n)
    BY <1>3, <2>1, <2>2, <2>3 DEF Sound
  <2> QED BY <2>4 DEF reset_match_for_rematch, n, c
<1>5. Sound(open_new_session_as_owner(m, p))
  <2> DEFINE n == [c EXCEPT !.state = "WAITING_FOR_OPPONENT", !.creator_id = p,
                            !.player1_id = p, !.player2_id = NoPlayer]
  <2>1. /\ n.creator_id = p /\ n.player1_id = p /\ n.player2_id = NoPlayer
        /\ n.state = "WAITING_FOR_OPPONENT"
        /\ n.pending_requester_id = NoPlayer /\ n.withdrawn_requester_id = NoPlayer
        /\ n.join_queue = << >> /\ n.rejected_players = {}
    BY <1>1, <1>2 DEF Matches
  <2> HIDE DEF n
  <2>2. OwnerPlaysFirst(n) /\ SeatsMatchState(n)
    BY <2>1, MatchAssumption DEF OwnerPlaysFirst, SeatsMatchState
  <2>3. RequestsInLine(n)
    BY <1>3, <2>1, MatchAssumption DEF RequestsInLine, ToSet
  <2>4. Sound(n)
    BY <1>3, <2>1, <2>2, <2>3 DEF Sound
  <2> QED BY <2>4 DEF open_new_session_as_owner, n, c
<1>6. Sound(Voted(m, p))
  <2> DEFINE n == Voted(m, p)
  <2>1. /\ n.creator_id = m.creator_id /\ n.player1_id = m.player1_id
        /\ n.player2_id = m.player2_id /\ n.state = m.state
        /\ n.pending_requester_id = m.pending_requester_id
        /\ n.withdrawn_requester_id = m.withdrawn_requester_id
        /\ n.join_queue = m.join_queue /\ n.rejected_players = m.rejected_players
    BY DEF Voted, Matches
  <2> HIDE DEF n
  <2>2. Sound(n)
    BY <2>1, SameLine
  <2> QED BY <2>2 DEF n
<1> QED BY <1>4, <1>5, <1>6

LEMMA LeftSound ==
  ASSUME NEW m \in Matches, Sound(m), NEW p \in Players
  PROVE  Sound(Left(m, p))
<1> DEFINE n == [m EXCEPT !.state = "ABANDONED"]
<1>1. Left(m, p) \in {n, m}
  BY DEF Left, abandon_match
<1>2. /\ n.creator_id = m.creator_id /\ n.player1_id = m.player1_id
      /\ n.player2_id = m.player2_id /\ n.state = "ABANDONED"
      /\ n.pending_requester_id = m.pending_requester_id
      /\ n.withdrawn_requester_id = m.withdrawn_requester_id
      /\ n.join_queue = m.join_queue /\ n.rejected_players = m.rejected_players
  BY DEF Matches
<1> HIDE DEF n
<1>3. Sound(n)
  BY <1>2, SameLine
<1> QED BY <1>1, <1>3

-----------------------------------------------------------------------------
(* The operations on the line of requests.                                 *)

LEMMA ForgetSound ==
  ASSUME NEW m \in Matches, Sound(m)
  PROVE  Sound([m EXCEPT !.withdrawn_requester_id = NoPlayer])
<1> DEFINE n == [m EXCEPT !.withdrawn_requester_id = NoPlayer]
<1>1. /\ n.creator_id = m.creator_id /\ n.player1_id = m.player1_id
      /\ n.player2_id = m.player2_id /\ n.state = m.state
      /\ n.pending_requester_id = m.pending_requester_id
      /\ n.withdrawn_requester_id = NoPlayer
      /\ n.join_queue = m.join_queue /\ n.rejected_players = m.rejected_players
  BY DEF Matches
<1> HIDE DEF n
<1>2. Sound(n)
  BY <1>1, SameLine
<1> QED BY <1>2 DEF n

\* MayAsk keeps out whoever stands in the line already, because it makes his
\* match keep him busy.
LEMMA NewcomerNotInLine ==
  ASSUME NEW id \in DOMAIN matches, NEW p, MayAsk(matches[id], p)
  PROVE  LET m == matches[id]
         IN  /\ p # m.pending_requester_id /\ p \notin ToSet(m.join_queue)
             /\ p # m.creator_id /\ p \notin m.rejected_players
             /\ m.state \in {"WAITING_FOR_OPPONENT", "JOIN_PENDING"}
BY DEF MayAsk, is_player_busy, Engages, is_player_rejected

LEMMA AskedSound ==
  ASSUME TypeOK, NEW id \in DOMAIN matches, Sound(matches[id]), NEW p \in Players,
         MayAsk(matches[id], p), matches[id].pending_requester_id = NoPlayer
  PROVE  Sound(AskedFirst(matches[id], p))
<1> DEFINE m == matches[id]
           n == AskedFirst(m, p)
<1>1. m \in Matches
  BY DEF TypeOK
<1>2. /\ p \notin ToSet(m.join_queue) /\ p # m.creator_id /\ p \notin m.rejected_players
      /\ m.state \in {"WAITING_FOR_OPPONENT", "JOIN_PENDING"}
  BY NewcomerNotInLine
<1>3. Sound(m) /\ m.pending_requester_id = NoPlayer
  OBVIOUS
<1> HIDE DEF m
<1>4. /\ n.creator_id = m.creator_id /\ n.player1_id = m.player1_id
      /\ n.player2_id = m.player2_id /\ n.state = "JOIN_PENDING"
      /\ n.pending_requester_id = p /\ n.withdrawn_requester_id = NoPlayer
      /\ n.join_queue = m.join_queue /\ n.rejected_players = m.rejected_players
  BY <1>1 DEF AskedFirst, Matches
<1> HIDE DEF n
<1>5. OwnerPlaysFirst(n) /\ SeatsMatchState(n)
  BY <1>2, <1>3, <1>4, MatchAssumption DEF Sound, OwnerPlaysFirst, SeatsMatchState
<1>6. RequestsInLine(n)
  BY <1>2, <1>3, <1>4, MatchAssumption DEF Sound, RequestsInLine, ToSet
<1>7. Sound(n)
  BY <1>3, <1>4, <1>5, <1>6 DEF Sound
<1> QED BY <1>7 DEF n, m

LEMMA QueuedSound ==
  ASSUME TypeOK, NEW id \in DOMAIN matches, Sound(matches[id]), NEW p \in Players,
         MayAsk(matches[id], p), matches[id].pending_requester_id # NoPlayer,
         QueueHasRoom(matches[id])
  PROVE  Sound(enqueue_join_request(matches[id], p))
<1> DEFINE m == matches[id]
           n == enqueue_join_request(m, p)
           q == m.join_queue
           r == Append(q, p)
<1>1. m \in Matches
  BY DEF TypeOK
<1>2. /\ p \notin ToSet(q) /\ p # m.creator_id /\ p \notin m.rejected_players
      /\ p # m.pending_requester_id
  BY NewcomerNotInLine
<1>3. Sound(m) /\ m.pending_requester_id # NoPlayer /\ Len(q) < MAX_JOIN_QUEUE
  BY DEF QueueHasRoom
<1>4. q \in Seq(Players) /\ Len(q) \in Nat
  BY <1>1 DEF Matches
<1>5. /\ n.creator_id = m.creator_id /\ n.player1_id = m.player1_id
      /\ n.player2_id = m.player2_id /\ n.state = m.state
      /\ n.pending_requester_id = m.pending_requester_id
      /\ n.withdrawn_requester_id = m.withdrawn_requester_id
      /\ n.join_queue = r /\ n.rejected_players = m.rejected_players
  BY <1>1 DEF enqueue_join_request, Matches
<1>6. /\ Len(r) = Len(q) + 1 /\ DOMAIN r = 1 .. Len(q) + 1
      /\ r[Len(q) + 1] = p
      /\ \A i \in 1 .. Len(q) : r[i] = q[i]
  BY <1>4
<1> HIDE DEF m, n, q, r
<1>7. ToSet(r) \subseteq ToSet(q) \cup {p}
  BY <1>4, <1>6 DEF ToSet
<1>8. \A i \in 1 .. Len(q) : q[i] # p
  BY <1>2, <1>4 DEF ToSet
<1>9. \A i, j \in 1 .. Len(r) : r[i] = r[j] => i = j
  <2>1. \A i, j \in 1 .. Len(q) : q[i] = q[j] => i = j
    BY <1>3 DEF Sound, RequestsInLine, q
  <2> QED BY <2>1, <1>4, <1>6, <1>8
<1>10. Len(r) <= MAX_JOIN_QUEUE
  BY <1>3, <1>4, <1>6, MatchAssumption
<1>11. OwnerPlaysFirst(n) /\ SeatsMatchState(n)
  BY <1>3, <1>5 DEF Sound, OwnerPlaysFirst, SeatsMatchState
<1>12. RequestsInLine(n)
  BY <1>2, <1>3, <1>5, <1>7, <1>9, <1>10 DEF Sound, RequestsInLine, q
<1>13. Sound(n)
  BY <1>3, <1>5, <1>11, <1>12 DEF Sound
<1> QED BY <1>13 DEF n, m

LEMMA AcceptedSound ==
  ASSUME NEW m \in Matches, Sound(m), m.pending_requester_id # NoPlayer
  PROVE  Sound([Seated(m) EXCEPT !.join_queue = << >>])
<1> DEFINE c == [m EXCEPT !.pending_requester_id = NoPlayer]
           p == m.pending_requester_id
           s == Seated(m)
           n == [s EXCEPT !.join_queue = << >>]
<1>1. p \in Players /\ p # m.creator_id /\ m.player2_id = NoPlayer
  BY DEF Matches, Sound, RequestsInLine, SeatsMatchState
<1>2. /\ c \in Matches
      /\ c.player2_id = NoPlayer
      /\ c.creator_id = m.creator_id /\ c.player1_id = m.player1_id
      /\ c.pending_requester_id = NoPlayer
      /\ c.withdrawn_requester_id = m.withdrawn_requester_id
      /\ c.rejected_players = m.rejected_players
  BY <1>1 DEF Matches
<1>3. s = [c EXCEPT !.player2_id = p, !.state = "ACTIVE"]
  BY <1>2 DEF Seated, add_player_to_match
<1> HIDE DEF c, s
<1>4. /\ s \in Matches
      /\ s.player2_id = p /\ s.state = "ACTIVE"
      /\ s.creator_id = m.creator_id /\ s.player1_id = m.player1_id
      /\ s.pending_requester_id = NoPlayer
      /\ s.rejected_players = m.rejected_players
  BY <1>1, <1>2, <1>3 DEF Matches, MatchStates
<1>5. /\ n.player2_id = p /\ n.state = "ACTIVE"
      /\ n.creator_id = m.creator_id /\ n.player1_id = m.player1_id
      /\ n.pending_requester_id = NoPlayer
      /\ n.rejected_players = m.rejected_players
      /\ n.join_queue = << >>
  BY <1>4 DEF Matches
<1>6. m.creator_id \in Players /\ m.rejected_players \subseteq Players
  BY DEF Matches
<1> HIDE DEF n
<1>7. OwnerPlaysFirst(n) /\ SeatsMatchState(n)
  BY <1>1, <1>5, MatchAssumption DEF Sound, OwnerPlaysFirst, SeatsMatchState
<1>8. RequestsInLine(n)
  BY <1>5, <1>6, MatchAssumption DEF Sound, RequestsInLine, ToSet
<1>9. Sound(n)
  BY <1>5, <1>7, <1>8 DEF Sound
<1> QED BY <1>9 DEF n, s

LEMMA PromoteSound ==
  ASSUME NEW m \in Matches, Promotable(m)
  PROVE  Sound(PromoteNext(m))
<1> DEFINE n == PromoteNext(m)
           q == m.join_queue
<1>1. q \in Seq(Players) /\ Len(q) \in Nat
  BY DEF Matches
<1>2. CASE q = << >>
  <2>1. /\ n.creator_id = m.creator_id /\ n.player1_id = m.player1_id
        /\ n.player2_id = NoPlayer /\ n.state = "WAITING_FOR_OPPONENT"
        /\ n.pending_requester_id = NoPlayer
        /\ n.join_queue = << >> /\ n.rejected_players = m.rejected_players
    BY <1>2 DEF PromoteNext, Matches, Promotable
  <2>2. m.creator_id \in Players /\ m.rejected_players \subseteq Players
    BY DEF Matches
  <2> HIDE DEF n
  <2>3. OwnerPlaysFirst(n) /\ SeatsMatchState(n)
    BY <2>1 DEF OwnerPlaysFirst, SeatsMatchState, Promotable
  <2>4. RequestsInLine(n)
    BY <2>1, <2>2, MatchAssumption DEF RequestsInLine, ToSet, Promotable
  <2>5. Sound(n)
    BY <2>1, <2>3, <2>4 DEF Sound, Promotable
  <2> QED BY <2>5 DEF n
<1>3. CASE q # << >>
  <2> DEFINE h == Head(q)
             t == Tail(q)
             d == dequeue_join_request(m)
  <2>1. /\ h \in Players /\ h = q[1] /\ t \in Seq(Players)
        /\ Len(t) = Len(q) - 1 /\ Len(q) >= 1
        /\ \A i \in 1 .. Len(q) - 1 : t[i] = q[i + 1]
    BY <1>1, <1>3
  <2>2. /\ d \in Matches
        /\ d.creator_id = m.creator_id /\ d.player1_id = m.player1_id
        /\ d.player2_id = NoPlayer
        /\ d.join_queue = t /\ d.rejected_players = m.rejected_players
    BY <2>1 DEF dequeue_join_request, Matches, Promotable
  <2>3. n = [d EXCEPT !.pending_requester_id = h, !.withdrawn_requester_id = NoPlayer,
                      !.state = "JOIN_PENDING"]
    BY <1>3 DEF PromoteNext
  <2> HIDE DEF h, t, d, n
  <2>4. /\ n.creator_id = m.creator_id /\ n.player1_id = m.player1_id
        /\ n.player2_id = NoPlayer /\ n.state = "JOIN_PENDING"
        /\ n.pending_requester_id = h /\ n.withdrawn_requester_id = NoPlayer
        /\ n.join_queue = t /\ n.rejected_players = m.rejected_players
    BY <2>2, <2>3 DEF Matches
  <2>5. h \in ToSet(q) /\ ToSet(t) \subseteq ToSet(q)
    BY <1>1, <2>1 DEF ToSet
  <2>6. \A i, j \in 1 .. Len(q) : q[i] = q[j] => i = j
    BY DEF Promotable
  <2>7. h \notin ToSet(t)
    <3>0. ToSet(t) = {t[i] : i \in 1 .. Len(t)}
      BY <2>1 DEF ToSet
    <3> SUFFICES ASSUME NEW i \in 1 .. Len(t), t[i] = h PROVE FALSE
      BY <3>0, Zenon
    <3>1. i + 1 \in 1 .. Len(q) /\ 1 \in 1 .. Len(q) /\ q[i + 1] = q[1]
      BY <1>1, <2>1
    <3>2. i + 1 = 1
      BY <3>1, <2>6
    <3> QED BY <1>1, <2>1, <3>2
  <2>8. \A i, j \in 1 .. Len(t) : t[i] = t[j] => i = j
    BY <1>1, <2>1, <2>6
  <2>9. Len(t) <= MAX_JOIN_QUEUE
    BY <1>1, <2>1, MatchAssumption DEF Promotable
  <2>10. OwnerPlaysFirst(n) /\ SeatsMatchState(n)
    BY <2>1, <2>4, MatchAssumption DEF OwnerPlaysFirst, SeatsMatchState, Promotable
  <2>11. RequestsInLine(n)
    BY <2>1, <2>4, <2>5, <2>7, <2>8, <2>9, MatchAssumption DEF RequestsInLine, Promotable
  <2>12. Sound(n)
    BY <2>4, <2>10, <2>11 DEF Sound, Promotable
  <2> QED BY <2>12 DEF n
<1> QED BY <1>2, <1>3

LEMMA SoundIsPromotable ==
  ASSUME NEW m \in Matches, Sound(m), m.pending_requester_id # NoPlayer
  PROVE  Promotable(m)
BY DEF Sound, Promotable, RequestsInLine, SeatsMatchState

LEMMA WithdrawnSound ==
  ASSUME NEW m \in Matches, Sound(m), NEW p \in Players, m.pending_requester_id = p
  PROVE  Sound(Withdrawn(m, p))
<1> DEFINE n == [m EXCEPT !.withdrawn_requester_id = p]
<1>1. /\ n \in Matches
      /\ n.creator_id = m.creator_id /\ n.player1_id = m.player1_id
      /\ n.player2_id = m.player2_id
      /\ n.join_queue = m.join_queue /\ n.rejected_players = m.rejected_players
  BY DEF Matches
<1>2. Promotable(m)
  BY SoundIsPromotable, MatchAssumption
<1> HIDE DEF n
<1>3. Promotable(n)
  BY <1>1, <1>2 DEF Promotable, OwnerPlaysFirst
<1>4. Sound(PromoteNext(n))
  BY <1>1, <1>3, PromoteSound
<1> QED BY <1>4 DEF Withdrawn, n

LEMMA RefusedSound ==
  ASSUME NEW m \in Matches, Sound(m), m.pending_requester_id # NoPlayer
  PROVE  Sound(Refused(m))
<1> DEFINE p == m.pending_requester_id
           n == add_rejected_player(m, p)
           r == m.rejected_players
<1>1. p \in Players /\ n \in Matches
  BY RequestType DEF Matches
<1>2. /\ n.creator_id = m.creator_id /\ n.player1_id = m.player1_id
      /\ n.player2_id = m.player2_id /\ n.join_queue = m.join_queue
      /\ n.rejected_players = IF Cardinality(r) < MAX_JOIN_QUEUE THEN r \cup {p} ELSE r
  BY DEF add_rejected_player, Matches
<1>3. IsFiniteSet(r) /\ Cardinality(r) \in Nat /\ Cardinality(r) <= MAX_JOIN_QUEUE
  BY FS_CardinalityType DEF Sound, RequestsInLine
<1>4. /\ IsFiniteSet(r \cup {p})
      /\ Cardinality(r \cup {p}) \in {Cardinality(r), Cardinality(r) + 1}
  BY <1>3, FS_AddElement
<1>5. IsFiniteSet(n.rejected_players) /\ Cardinality(n.rejected_players) <= MAX_JOIN_QUEUE
  BY <1>2, <1>3, <1>4, MatchAssumption
<1>6. p \notin ToSet(m.join_queue)
  BY DEF Sound, RequestsInLine
<1>7. Promotable(m)
  BY SoundIsPromotable
<1> HIDE DEF n, r
<1>8. ToSet(n.join_queue) \cap n.rejected_players = {}
  BY <1>2, <1>6, <1>7 DEF Promotable, r
<1>9. Promotable(n)
  BY <1>2, <1>5, <1>7, <1>8 DEF Promotable, OwnerPlaysFirst
<1>10. Sound(PromoteNext(n))
  BY <1>1, <1>9, PromoteSound
<1> QED BY <1>10 DEF Refused, n

LEMMA RemovedSound ==
  ASSUME NEW m \in Matches, Sound(m), NEW p \in Players
  PROVE  Sound(remove_from_join_queue(m, p))
<1>1. CASE p \notin ToSet(m.join_queue)
  BY <1>1 DEF remove_from_join_queue
<1>2. CASE p \in ToSet(m.join_queue)
  <2> DEFINE q == m.join_queue
             k == QueuePosition(m, p)
             r == RemoveAt(q, k)
             n == remove_from_join_queue(m, p)
  <2>1. /\ n.creator_id = m.creator_id /\ n.player1_id = m.player1_id
        /\ n.player2_id = m.player2_id /\ n.state = m.state
        /\ n.pending_requester_id = m.pending_requester_id
        /\ n.withdrawn_requester_id = m.withdrawn_requester_id
        /\ n.join_queue = r /\ n.rejected_players = m.rejected_players
    BY <1>2 DEF remove_from_join_queue, Matches
  <2>2. q \in Seq(Players) /\ k \in 1 .. Len(q) /\ Len(q) \in Nat
    BY <1>2, QueuePositionIsFirst DEF Matches
  <2> HIDE DEF k
  <2>3. /\ r \in Seq(Players) /\ Len(r) = Len(q) - 1
        /\ \A i \in 1 .. Len(q) - 1 : r[i] = IF i < k THEN q[i] ELSE q[i + 1]
    BY <2>2, RemoveAtIsSeq
  <2> HIDE DEF n, r
  <2>4. ToSet(r) \subseteq ToSet(q)
    BY <2>2, <2>3 DEF ToSet
  <2>5. \A i, j \in 1 .. Len(q) : q[i] = q[j] => i = j
    BY DEF Sound, RequestsInLine
  <2>6. \A i, j \in 1 .. Len(r) : r[i] = r[j] => i = j
    BY <2>2, <2>3, <2>5
  <2>7. Len(r) <= MAX_JOIN_QUEUE
    BY <2>2, <2>3, MatchAssumption DEF Sound, RequestsInLine
  <2>8. m.pending_requester_id # NoPlayer
    BY <1>2 DEF Sound, RequestsInLine, ToSet
  <2>9. OwnerPlaysFirst(n) /\ SeatsMatchState(n)
    BY <2>1 DEF Sound, OwnerPlaysFirst, SeatsMatchState
  <2>10. RequestsInLine(n)
    BY <2>1, <2>4, <2>6, <2>7, <2>8 DEF Sound, RequestsInLine
  <2>11. Sound(n)
    BY <2>1, <2>9, <2>10 DEF Sound
  <2> QED BY <2>11 DEF n
<1> QED BY <1>1, <1>2

LEMMA CleanUpSound ==
  ASSUME NEW m \in Matches, Sound(m), NEW p \in Players
  PROVE  Sound(CleanUp(m, p))
<1>1. CASE m.pending_requester_id = p
  BY <1>1, MatchAssumption, LeftSound, RemovedSound, SoundIsPromotable, PromoteSound DEF CleanUp
<1>2. CASE m.pending_requester_id # p
  BY <1>2, LeftSound, RemovedSound DEF CleanUp
<1> QED BY <1>1, <1>2

-----------------------------------------------------------------------------
(* The invariant.                                                          *)

\* One match is rewritten, with a sound record, and the others stay.
LEMMA UpdateSound ==
  ASSUME TypeOK, AllSound, NEW id \in DOMAIN matches, NEW n \in Matches, Sound(n),
         matches' = [matches EXCEPT ![id] = n]
  PROVE  AllSound'
<1>1. DOMAIN matches' = DOMAIN matches
  BY DEF TypeOK
<1>2. ASSUME NEW i \in DOMAIN matches PROVE Sound(matches'[i])
  <2>1. CASE i = id
    BY <2>1
  <2>2. CASE i # id
    <3>1. matches'[i] = matches[i]
      BY <2>2
    <3> QED BY <3>1 DEF AllSound
  <2> QED BY <2>1, <2>2
<1> QED BY <1>1, <1>2 DEF AllSound

LEMMA RequestPreservesSound ==
  ASSUME TypeOK, AllSound, NEW p \in Players, Request(p)
  PROVE  AllSound'
<1>1. CASE UNCHANGED matches
  BY <1>1 DEF AllSound
<1>2. CASE CreateMatch(p)
  <2>1. CASE matches' = Append(matches, create_match(p))
    <3>1. /\ DOMAIN matches = 1 .. Len(matches) /\ Len(matches) \in Nat
          /\ DOMAIN matches' = 1 .. Len(matches) + 1
          /\ \A i \in 1 .. Len(matches) : matches'[i] = matches[i]
          /\ matches'[Len(matches) + 1] = create_match(p)
      BY <2>1 DEF TypeOK
    <3>2. Sound(create_match(p))
      BY CreateSound
    <3>3. ASSUME NEW i \in 1 .. Len(matches) + 1 PROVE Sound(matches'[i])
      <4>1. CASE i \in 1 .. Len(matches)
        <5>1. matches'[i] = matches[i] /\ Sound(matches[i])
          BY <3>1, <4>1 DEF AllSound
        <5> QED BY <5>1
      <4>2. CASE i = Len(matches) + 1
        <5>1. matches'[i] = create_match(p)
          BY <3>1, <4>2
        <5> QED BY <3>2, <5>1
      <4> QED BY <3>1, <4>1, <4>2
    <3> QED BY <3>1, <3>3 DEF AllSound
  <2> QED BY <1>1, <1>2, <2>1 DEF CreateMatch, Fails
<1>3. ASSUME NEW id \in MatchIds, JoinMatch(p, id), ~UNCHANGED matches PROVE AllSound'
  <2>1. Found(id) /\ MayAsk(matches[id], p)
    BY <1>3 DEF JoinMatch, Fails
  <2>2. matches[id] \in Matches /\ Sound(matches[id]) /\ id \in DOMAIN matches
    BY <2>1 DEF TypeOK, AllSound, Found
  <2>3. CASE /\ matches[id].pending_requester_id = NoPlayer
             /\ matches' = [matches EXCEPT ![id] = AskedFirst(@, p)]
    <3>1. AskedFirst(matches[id], p) \in Matches /\ Sound(AskedFirst(matches[id], p))
      BY <2>1, <2>2, <2>3, AskedSound, RequestType
    <3> QED BY <2>2, <2>3, <3>1, UpdateSound
  <2>4. CASE /\ matches[id].pending_requester_id # NoPlayer
             /\ QueueHasRoom(matches[id])
             /\ matches' = [matches EXCEPT ![id] = enqueue_join_request(@, p)]
    <3>1. /\ enqueue_join_request(matches[id], p) \in Matches
          /\ Sound(enqueue_join_request(matches[id], p))
      BY <2>1, <2>2, <2>4, QueuedSound, RequestType
    <3> QED BY <2>2, <2>4, <3>1, UpdateSound
  <2> QED BY <1>3, <2>3, <2>4 DEF JoinMatch, Fails
<1>4. ASSUME NEW id \in MatchIds, NEW column \in Columns, Move(p, id, column),
             ~UNCHANGED matches
      PROVE  AllSound'
  <2>1. Found(id) /\ matches' = [matches EXCEPT ![id] = Played(@, p, column)]
    BY <1>4 DEF Move, Fails
  <2>2. matches[id] \in Matches /\ Sound(matches[id]) /\ id \in DOMAIN matches
    BY <2>1 DEF TypeOK, AllSound, Found
  <2>3. Played(matches[id], p, column) \in Matches /\ Sound(Played(matches[id], p, column))
    BY <2>2, PlayedSound, PlayedType
  <2> QED BY <2>1, <2>2, <2>3, UpdateSound
<1>5. ASSUME NEW id \in MatchIds, Rematch(p, id), ~UNCHANGED matches PROVE AllSound'
  <2>1. MayRematch(p, id)
    BY <1>5 DEF Rematch, Fails
  <2>2. /\ matches[id] \in Matches /\ Sound(matches[id]) /\ id \in DOMAIN matches
        /\ matches[id].state = "FINISHED"
    BY <2>1 DEF TypeOK, AllSound, Found, MayRematch
  <2>3. PICK n \in {reset_match_for_rematch(matches[id]),
                    open_new_session_as_owner(matches[id], p), Voted(matches[id], p)} :
          matches' = [matches EXCEPT ![id] = n]
    BY <1>5 DEF Rematch, Fails
  <2>4. n \in Matches /\ Sound(n)
    BY <2>2, <2>3, SessionSound, SessionType
  <2> QED BY <2>2, <2>3, <2>4, UpdateSound
<1>6. ASSUME NEW id \in MatchIds, QuitMatch(p, id), ~UNCHANGED matches PROVE AllSound'
  <2>1. Found(id) /\ matches' = [matches EXCEPT ![id] = Left(@, p)]
    BY <1>6 DEF QuitMatch
  <2>2. matches[id] \in Matches /\ Sound(matches[id]) /\ id \in DOMAIN matches
    BY <2>1 DEF TypeOK, AllSound, Found
  <2>3. Left(matches[id], p) \in Matches /\ Sound(Left(matches[id], p))
    BY <2>2, LeftSound, SessionType
  <2> QED BY <2>1, <2>2, <2>3, UpdateSound
<1>7. CASE Register(p) \/ UnknownAction(p) \/ ListMatches(p)
  BY <1>1, <1>7 DEF Register, UnknownAction, ListMatches
<1> QED BY <1>1, <1>2, <1>3, <1>4, <1>5, <1>6, <1>7 DEF Request

LEMMA AnswerPreservesSound ==
  ASSUME TypeOK, AllSound, NEW p \in Players, NEW id \in MatchIds, Answer(p, id)
  PROVE  AllSound'
<1>1. CASE UNCHANGED matches
  BY <1>1 DEF AllSound
<1>2. CASE ~UNCHANGED matches
  <2>1. Found(id)
    BY <1>2 DEF Answer, AcceptJoin, RejectJoin, CancelJoin, NothingToDecide, HasRequestFor, Fails
  <2> DEFINE m == matches[id]
  <2>2. m \in Matches /\ Sound(m) /\ id \in DOMAIN matches
    BY <2>1 DEF TypeOK, AllSound, Found
  <2>3. ASSUME NEW action, NothingToDecide(p, action, id) PROVE AllSound'
    <3>1. matches' = [matches EXCEPT ![id] = [m EXCEPT !.withdrawn_requester_id = NoPlayer]]
      BY <1>2, <2>3 DEF NothingToDecide, Fails
    <3>2. [m EXCEPT !.withdrawn_requester_id = NoPlayer] \in Matches
      BY <2>2 DEF Matches
    <3>3. Sound([m EXCEPT !.withdrawn_requester_id = NoPlayer])
      BY <2>2, ForgetSound
    <3> HIDE DEF m
    <3> QED BY <2>2, <3>1, <3>2, <3>3, UpdateSound
  <2>4. CASE AcceptJoin(p, id) /\ HasRequestFor(p, id)
    <3>1. /\ m.pending_requester_id # NoPlayer
          /\ matches' = [matches EXCEPT ![id] = [Seated(m) EXCEPT !.join_queue = << >>]]
      BY <2>4 DEF AcceptJoin, HasRequestFor, NothingToDecide
    <3>2. /\ [Seated(m) EXCEPT !.join_queue = << >>] \in Matches
          /\ Sound([Seated(m) EXCEPT !.join_queue = << >>])
      BY <2>2, <3>1, AcceptedSound, SeatedType
    <3> HIDE DEF m
    <3> QED BY <2>2, <3>1, <3>2, UpdateSound
  <2>5. CASE RejectJoin(p, id) /\ HasRequestFor(p, id)
    <3>1. /\ m.pending_requester_id # NoPlayer
          /\ matches' = [matches EXCEPT ![id] = Refused(m)]
      BY <2>5 DEF RejectJoin, HasRequestFor, NothingToDecide
    <3>2. Refused(m) \in Matches /\ Sound(Refused(m))
      BY <2>2, <3>1, RefusedSound, RefusedType
    <3> QED BY <2>2, <3>1, <3>2, UpdateSound
  <2>6. CASE CancelJoin(p, id)
    <3>1. CASE /\ m.pending_requester_id = p
               /\ matches' = [matches EXCEPT ![id] = Withdrawn(@, p)]
      <4>1. Withdrawn(m, p) \in Matches /\ Sound(Withdrawn(m, p))
        BY <2>2, <3>1, WithdrawnSound, RequestType
      <4> QED BY <2>2, <3>1, <4>1, UpdateSound
    <3>2. CASE matches' = [matches EXCEPT ![id] = remove_from_join_queue(@, p)]
      <4>1. /\ remove_from_join_queue(m, p) \in Matches
            /\ Sound(remove_from_join_queue(m, p))
        BY <2>2, RemovedSound, RequestType
      <4> QED BY <2>2, <3>2, <4>1, UpdateSound
    <3> QED BY <1>2, <2>6, <3>1, <3>2 DEF CancelJoin
  <2> QED BY <2>3, <2>4, <2>5, <2>6 DEF Answer, AcceptJoin, RejectJoin
<1> QED BY <1>1, <1>2

LEMMA SessionPreservesSound ==
  ASSUME TypeOK, AllSound, NEW p \in Players, Session(p)
  PROVE  AllSound'
<1>1. CASE UNCHANGED matches
  BY <1>1 DEF AllSound
<1>2. CASE Disconnect(p)
  <2>1. DOMAIN matches' = DOMAIN matches
    BY <1>2 DEF Disconnect
  <2>2. ASSUME NEW i \in DOMAIN matches PROVE Sound(matches'[i])
    <3>1. matches[i] \in Matches /\ Sound(matches[i])
      BY DEF TypeOK, AllSound
    <3>2. matches'[i] = CleanUp(matches[i], p)
      BY <1>2 DEF Disconnect
    <3> QED BY <3>1, <3>2, CleanUpSound
  <2> QED BY <2>1, <2>2 DEF AllSound
<1> QED BY <1>1, <1>2 DEF Session, Connect, MarkDisconnected

LEMMA InitialSound == Init => AllSound
BY DEF Init, AllSound

LEMMA StepPreservesSound ==
  ASSUME TypeOK, AllSound, [Next]_vars
  PROVE  AllSound'
<1>1. CASE UNCHANGED matches
  BY <1>1 DEF AllSound
<1> QED BY <1>1, RequestPreservesSound, AnswerPreservesSound, SessionPreservesSound
        DEF Next, vars, RefuseConnection

LEMMA SoundInvariant == Spec => []AllSound
<1>1. TypeOK /\ AllSound /\ [Next]_vars => AllSound'
  BY StepPreservesSound
<1> QED BY <1>1, InitialSound, TypeCorrect, PTL DEF Spec

\* The seats and the state of every match agree at all times: no player plays
\* himself, the owner is the first player, and a request is only ever pending
\* on a match whose second seat is free, so accept_join always seats somebody.
THEOREM SeatingIsSound == Spec => []SeatingSound
<1>1. AllSound => SeatingSound
  BY DEF AllSound, SeatingSound, Sound
<1> QED BY <1>1, SoundInvariant, PTL

\* The line of requests of every match is sound at all times: no duplicates, no
\* refused player, no creator, no overrun of the two arrays.
THEOREM RequestsAreSound == Spec => []RequestsSound
<1>1. AllSound => RequestsSound
  BY DEF AllSound, RequestsSound, Sound
<1> QED BY <1>1, SoundInvariant, PTL

-----------------------------------------------------------------------------
(* The result of a match.                                                  *)

Winner(m) == IF HasLine(m.board, 1) THEN m.player1_id
             ELSE IF HasLine(m.board, 2) THEN m.player2_id ELSE NoPlayer

Over(m) == Winner(m) # NoPlayer \/ IsFull(m.board)

\* What ResultMatchesBoard says of one match, and that no disc hangs, which
\* check_win and check_draw rely on.
Judged(m) == /\ m.winner_id = Winner(m)
             /\ m.state = "FINISHED" => Over(m)
             /\ Over(m) => m.state \in {"FINISHED", "ABANDONED"}
             /\ m.player2_id = NoPlayer => m.board = init_board
             /\ m.rematch_vote_p1 + m.rematch_vote_p2 > 0 => Over(m) /\ Winner(m) = NoPlayer
             /\ ~BothVoted(m)
             /\ Settled(m.board)

AllJudged == \A id \in DOMAIN matches : Judged(matches[id])

\* A record no game has been played on: nothing to judge.
Fresh(m) == /\ m.board = init_board /\ m.winner_id = NoPlayer
            /\ m.rematch_vote_p1 = 0 /\ m.rematch_vote_p2 = 0

\* No line, no winner, no vote: there is nothing to be wrong about.
LEMMA FreshJudged ==
  ASSUME NEW m, Fresh(m), m.state # "FINISHED"
  PROVE  Judged(m)
<1>1. 1 \in Symbols /\ 2 \in Symbols
  BY DEF Symbols
<1>2. Winner(m) = NoPlayer /\ ~Over(m)
  BY <1>1, EmptyBoard DEF Fresh, Winner, Over
<1>3. m.rematch_vote_p1 + m.rematch_vote_p2 = 0 /\ ~BothVoted(m)
  BY DEF Fresh, BothVoted
<1> QED BY <1>2, <1>3, EmptyBoard DEF Fresh, Judged

\* Before the second seat is taken no game has been played.
LEMMA JudgedIsFresh ==
  ASSUME NEW m \in Matches, Judged(m), m.player2_id = NoPlayer
  PROVE  Fresh(m)
<1>1. 1 \in Symbols /\ 2 \in Symbols
  BY DEF Symbols
<1>2. m.board = init_board
  BY DEF Judged
<1>3. Winner(m) = NoPlayer /\ ~Over(m)
  BY <1>1, <1>2, EmptyBoard DEF Winner, Over
<1>4. m.rematch_vote_p1 \in {0, 1} /\ m.rematch_vote_p2 \in {0, 1}
      /\ ~(m.rematch_vote_p1 + m.rematch_vote_p2 > 0)
  BY <1>3 DEF Judged, Matches
<1>5. m.rematch_vote_p1 = 0 /\ m.rematch_vote_p2 = 0
  BY <1>4
<1> QED BY <1>2, <1>3, <1>5 DEF Judged, Fresh

\* What the result is read from stays as it is.
SameGame(m, n) ==
  /\ n.board = m.board /\ n.winner_id = m.winner_id
  /\ n.rematch_vote_p1 = m.rematch_vote_p1 /\ n.rematch_vote_p2 = m.rematch_vote_p2

\* The line of requests of a match without a second player may change freely.
LEMMA RequestJudged ==
  ASSUME NEW m \in Matches, Judged(m), m.player2_id = NoPlayer,
         NEW n, SameGame(m, n), n.state \in {m.state, "WAITING_FOR_OPPONENT", "JOIN_PENDING",
                                            "ACTIVE", "ABANDONED"}
  PROVE  Judged(n)
<1>1. Fresh(m)
  BY JudgedIsFresh
<1>2. Fresh(n)
  BY <1>1 DEF Fresh, SameGame
<1>3. m.state # "FINISHED"
  <2>1. 1 \in Symbols /\ 2 \in Symbols
    BY DEF Symbols
  <2>2. ~Over(m)
    BY <1>1, <2>1, EmptyBoard DEF Fresh, Winner, Over
  <2> QED BY <2>2 DEF Judged
<1> QED BY <1>2, <1>3, FreshJudged

\* A match that keeps its players may be closed, or have its requests changed.
LEMMA ClosedJudged ==
  ASSUME NEW m, Judged(m), NEW n, SameGame(m, n), n.state \in {m.state, "ABANDONED"},
         n.player1_id = m.player1_id, n.player2_id = m.player2_id
  PROVE  Judged(n)
<1>1. Winner(n) = Winner(m) /\ (Over(n) <=> Over(m))
  BY DEF SameGame, Winner, Over
<1> QED BY <1>1 DEF Judged, SameGame, BothVoted

-----------------------------------------------------------------------------
(* The result of a match after each operation.                             *)

\* The move that ends a game is judged right: the winner is who moved.
LEMMA PlayedJudged ==
  ASSUME NEW m \in Matches, Sound(m), Judged(m), NEW p \in Players, NEW column,
         MoveResult(m, p, column) \in Accepted
  PROVE  Judged(Played(m, p, column))
<1> DEFINE b      == m.board
           s      == m.current_turn
           row    == LandingRow(b, column)
           n      == apply_move(b, column, s)
           result == MoveResult(m, p, column)
           moved  == apply_match_move(m, p, column)
           after  == Played(m, p, column)
<1>1. /\ m.state = "ACTIVE" /\ p = ExpectedPlayer(m) /\ validate_move(b, column)
      /\ result = IF check_win(n, row, column, s) THEN "win"
                  ELSE IF check_draw(n) THEN "draw" ELSE "ok"
  BY DEF MoveResult, Accepted
<1>2. /\ b \in Boards /\ s \in Symbols /\ Settled(b) /\ 3 - s \in Symbols /\ 3 - s # s
      /\ s \in {1, 2} /\ 1 \in Symbols /\ 2 \in Symbols
  BY DEF Matches, Judged, Symbols
<1>3. /\ m.player1_id # NoPlayer /\ m.player2_id # NoPlayer
  BY <1>1, MatchAssumption DEF Sound, SeatsMatchState, Matches
<1>4. ~Over(m) /\ m.winner_id = NoPlayer
  BY <1>1 DEF Judged, Over
<1>5. ~HasLine(b, 1) /\ ~HasLine(b, 2)
  BY <1>3, <1>4 DEF Over, Winner
<1>6. m.rematch_vote_p1 = 0 /\ m.rematch_vote_p2 = 0
  <2>1. m.rematch_vote_p1 \in {0, 1} /\ m.rematch_vote_p2 \in {0, 1}
        /\ ~(m.rematch_vote_p1 + m.rematch_vote_p2 > 0)
    BY <1>4 DEF Judged, Matches
  <2> QED BY <2>1
<1>7. ~HasLine(b, s) /\ ~HasLine(b, 3 - s)
  BY <1>2, <1>5
<1>8. ~HasLine(n, 3 - s)
  BY <1>1, <1>2, <1>7, DropGivesOtherNothing
<1>9. check_win(n, row, column, s) <=> HasLine(n, s)
  BY <1>1, <1>2, <1>7, CheckWinIsHasLine
<1>10. Settled(n)
  BY <1>1, <1>2, DropKeepsSettled
<1>11. check_draw(n) <=> IsFull(n)
  BY <1>10, CheckDrawIsFull
<1>12. /\ moved.board = n /\ moved.winner_id = NoPlayer
       /\ moved.state = IF result = "ok" THEN "ACTIVE" ELSE "FINISHED"
       /\ moved.player1_id = m.player1_id /\ moved.player2_id = m.player2_id
       /\ moved.rematch_vote_p1 = 0 /\ moved.rematch_vote_p2 = 0
  BY <1>1, <1>4, <1>6 DEF apply_match_move, Matches
<1>13. moved \in Matches
  BY MoveType
<1> HIDE DEF moved
<1>14. /\ after.board = n /\ after.state = moved.state
       /\ after.winner_id = IF result = "win" THEN p ELSE NoPlayer
       /\ after.player1_id = m.player1_id /\ after.player2_id = m.player2_id
       /\ after.rematch_vote_p1 = 0 /\ after.rematch_vote_p2 = 0
  BY <1>1, <1>12, <1>13 DEF Played, Matches, moved
<1> HIDE DEF after, n, row
<1>15. Winner(after) = IF HasLine(n, s) THEN p ELSE NoPlayer
  <2>1. CASE s = 1
    <3>1. ~HasLine(n, 2) /\ p = m.player1_id
      BY <1>1, <1>8, <2>1 DEF ExpectedPlayer
    <3> QED BY <1>14, <2>1, <3>1 DEF Winner
  <2>2. CASE s = 2
    <3>1. ~HasLine(n, 1) /\ p = m.player2_id
      BY <1>1, <1>8, <2>2 DEF ExpectedPlayer
    <3> QED BY <1>14, <2>2, <3>1 DEF Winner
  <2> QED BY <1>2, <2>1, <2>2
<1>16. p # NoPlayer
  BY MatchAssumption
<1>17. Over(after) <=> HasLine(n, s) \/ IsFull(n)
  BY <1>14, <1>15, <1>16 DEF Over
<1> HIDE DEF s, result
<1>18. result = IF HasLine(n, s) THEN "win" ELSE IF IsFull(n) THEN "draw" ELSE "ok"
  BY <1>1, <1>9, <1>11
<1>19. after.winner_id = Winner(after)
  BY <1>14, <1>15, <1>18
<1>20. /\ after.state = "FINISHED" => Over(after)
       /\ Over(after) => after.state \in {"FINISHED", "ABANDONED"}
  BY <1>12, <1>14, <1>17, <1>18
<1>21. /\ ~(after.rematch_vote_p1 + after.rematch_vote_p2 > 0) /\ ~BothVoted(after)
  BY <1>14 DEF BothVoted
<1>22. Judged(after)
  BY <1>3, <1>10, <1>14, <1>19, <1>20, <1>21 DEF Judged
<1> QED BY <1>22 DEF after

\* The three outcomes of a rematch: the game again, a new session, one vote.
LEMMA SessionJudged ==
  ASSUME NEW m \in Matches, Judged(m), NEW p \in Players
  PROVE  /\ Judged(reset_match_for_rematch(m))
         /\ Judged(open_new_session_as_owner(m, p))
         /\ m.state = "FINISHED" /\ m.winner_id = NoPlayer /\ ~BothVoted(Voted(m, p))
              => Judged(Voted(m, p))
<1>1. Fresh(reset_match_for_rematch(m)) /\ reset_match_for_rematch(m).state = "ACTIVE"
  BY DEF Fresh, reset_match_for_rematch, ClearedSession, Matches
<1>2. /\ Fresh(open_new_session_as_owner(m, p))
      /\ open_new_session_as_owner(m, p).state = "WAITING_FOR_OPPONENT"
  BY DEF Fresh, open_new_session_as_owner, ClearedSession, Matches
<1>3. ASSUME m.state = "FINISHED", m.winner_id = NoPlayer, ~BothVoted(Voted(m, p))
      PROVE  Judged(Voted(m, p))
  <2> DEFINE n == Voted(m, p)
  <2>1. /\ n.board = m.board /\ n.winner_id = m.winner_id /\ n.state = m.state
        /\ n.player1_id = m.player1_id /\ n.player2_id = m.player2_id
    BY DEF Voted, Matches
  <2>2. ~BothVoted(n)
    BY <1>3
  <2> HIDE DEF n
  <2>3. Winner(n) = Winner(m) /\ (Over(n) <=> Over(m))
    BY <2>1 DEF Winner, Over
  <2>4. Judged(n)
    BY <1>3, <2>1, <2>2, <2>3 DEF Judged
  <2> QED BY <2>4 DEF n
<1> QED BY <1>1, <1>2, <1>3, FreshJudged

\* A player who quits closes the match or leaves it as it is.
LEMMA LeftJudged ==
  ASSUME NEW m \in Matches, Judged(m), NEW p
  PROVE  Judged(Left(m, p))
<1> DEFINE n == [m EXCEPT !.state = "ABANDONED"]
<1>1. Left(m, p) \in {n, m}
  BY DEF Left, abandon_match
<1>2. /\ SameGame(m, n) /\ n.state = "ABANDONED"
      /\ n.player1_id = m.player1_id /\ n.player2_id = m.player2_id
  BY DEF Matches, SameGame
<1> HIDE DEF n
<1>3. Judged(n)
  BY <1>2, ClosedJudged
<1> QED BY <1>1, <1>3

\* Promotion, for whatever reason, of a match without a second player.
LEMMA PromoteJudged ==
  ASSUME NEW m \in Matches, Judged(m), m.player2_id = NoPlayer
  PROVE  Judged(PromoteNext(m))
<1> DEFINE n == PromoteNext(m)
<1>1. SameGame(m, n) /\ n.state \in {"WAITING_FOR_OPPONENT", "JOIN_PENDING"}
  <2>1. CASE m.join_queue = << >>
    BY <2>1 DEF PromoteNext, SameGame, Matches
  <2>2. CASE m.join_queue # << >>
    <3> DEFINE d == dequeue_join_request(m)
               h == Head(m.join_queue)
    <3>1. n = [d EXCEPT !.pending_requester_id = h, !.withdrawn_requester_id = NoPlayer,
                        !.state = "JOIN_PENDING"]
      BY <2>2 DEF PromoteNext
    <3>2. SameGame(m, d) /\ d = [m EXCEPT !.join_queue = Tail(@)]
      BY DEF dequeue_join_request, SameGame, Matches
    <3> HIDE DEF h, n
    <3>3. n.state = "JOIN_PENDING" /\ n.board = d.board /\ n.winner_id = d.winner_id
          /\ n.rematch_vote_p1 = d.rematch_vote_p1 /\ n.rematch_vote_p2 = d.rematch_vote_p2
      BY <3>1, <3>2 DEF Matches
    <3> QED BY <3>2, <3>3 DEF SameGame
  <2> QED BY <2>1, <2>2
<1> HIDE DEF n
<1>2. Judged(n)
  BY <1>1, RequestJudged
<1> QED BY <1>2 DEF n

\* The requests of a match: none of them touches the game.
LEMMA LineJudged ==
  ASSUME NEW m \in Matches, Sound(m), Judged(m), NEW p \in Players
  PROVE  /\ m.pending_requester_id = NoPlayer /\ m.state # "FINISHED" /\ m.state # "ACTIVE"
              /\ m.state # "ABANDONED" => Judged(AskedFirst(m, p))
         /\ Judged(enqueue_join_request(m, p))
         /\ Judged([m EXCEPT !.withdrawn_requester_id = NoPlayer])
         /\ Judged(remove_from_join_queue(m, p))
         /\ m.pending_requester_id # NoPlayer =>
              /\ Judged([Seated(m) EXCEPT !.join_queue = << >>])
              /\ Judged(Refused(m))
              /\ Judged(Withdrawn(m, p))
<1>1. ASSUME m.state \notin {"FINISHED", "ACTIVE", "ABANDONED"}
      PROVE  Judged(AskedFirst(m, p))
  <2>1. m.player2_id = NoPlayer
    BY <1>1 DEF Sound, SeatsMatchState, Matches, MatchStates
  <2>2. SameGame(m, AskedFirst(m, p)) /\ AskedFirst(m, p).state = "JOIN_PENDING"
    BY DEF AskedFirst, SameGame, Matches
  <2> QED BY <2>1, <2>2, RequestJudged
<1>2. ASSUME NEW n, SameGame(m, n), n.state = m.state, n.player1_id = m.player1_id,
             n.player2_id = m.player2_id
      PROVE  Judged(n)
  BY <1>2, ClosedJudged
<1>3. Judged(enqueue_join_request(m, p))
  BY <1>2 DEF enqueue_join_request, SameGame, Matches
<1>4. Judged([m EXCEPT !.withdrawn_requester_id = NoPlayer])
  BY <1>2 DEF SameGame, Matches
<1>5. Judged(remove_from_join_queue(m, p))
  BY <1>2 DEF remove_from_join_queue, SameGame, Matches
<1>6. ASSUME m.pending_requester_id # NoPlayer
      PROVE  /\ Judged([Seated(m) EXCEPT !.join_queue = << >>])
             /\ Judged(Refused(m))
             /\ Judged(Withdrawn(m, p))
  <2>1. m.player2_id = NoPlayer /\ m.pending_requester_id \in Players
    BY <1>6 DEF Sound, SeatsMatchState, Matches
  <2>2. Judged([Seated(m) EXCEPT !.join_queue = << >>])
    <3> DEFINE q == m.pending_requester_id
               n == [Seated(m) EXCEPT !.join_queue = << >>]
    <3>1. Seated(m) = [m EXCEPT !.pending_requester_id = NoPlayer, !.player2_id = q,
                                !.state = "ACTIVE"]
      BY <2>1 DEF Seated, add_player_to_match, Matches
    <3> HIDE DEF q
    <3>2. SameGame(m, n) /\ n.state = "ACTIVE"
      BY <3>1 DEF SameGame, Matches
    <3> HIDE DEF n
    <3>3. Judged(n)
      BY <2>1, <3>2, RequestJudged
    <3> QED BY <3>3 DEF n
  <2>3. Judged(Refused(m))
    <3> DEFINE n == add_rejected_player(m, m.pending_requester_id)
    <3>1. n \in Matches
      BY <2>1, RequestType
    <3>2. SameGame(m, n) /\ n.state = m.state /\ n.player1_id = m.player1_id
          /\ n.player2_id = m.player2_id
      BY DEF add_rejected_player, SameGame, Matches
    <3> HIDE DEF n
    <3>3. Judged(n)
      BY <1>2, <3>2
    <3>4. Judged(PromoteNext(n))
      BY <2>1, <3>1, <3>2, <3>3, PromoteJudged
    <3> QED BY <3>4 DEF Refused, n
  <2>4. Judged(Withdrawn(m, p))
    <3> DEFINE n == [m EXCEPT !.withdrawn_requester_id = p]
    <3>1. n \in Matches /\ SameGame(m, n) /\ n.state = m.state
          /\ n.player1_id = m.player1_id /\ n.player2_id = m.player2_id
      BY DEF SameGame, Matches
    <3> HIDE DEF n
    <3>2. Judged(n)
      BY <1>2, <3>1
    <3>3. Judged(PromoteNext(n))
      BY <2>1, <3>1, <3>2, PromoteJudged
    <3> QED BY <3>3 DEF Withdrawn, n
  <2> QED BY <2>2, <2>3, <2>4
<1> QED BY <1>1, <1>3, <1>4, <1>5, <1>6

\* What the end of p's connection does to a match.
LEMMA CleanUpJudged ==
  ASSUME NEW m \in Matches, Sound(m), Judged(m), NEW p \in Players
  PROVE  Judged(CleanUp(m, p))
<1>1. m.state = "JOIN_PENDING" => m.player2_id = NoPlayer
  BY DEF Sound, SeatsMatchState
<1> QED BY <1>1, LeftJudged, PromoteJudged, LineJudged DEF CleanUp

-----------------------------------------------------------------------------
(* The result of every match, after every step.                            *)

\* A step that changes one match need only be judged on that one.
LEMMA UpdateJudged ==
  ASSUME TypeOK, AllJudged, NEW id \in DOMAIN matches, NEW n, Judged(n),
         matches' = [matches EXCEPT ![id] = n]
  PROVE  AllJudged'
<1>1. DOMAIN matches' = DOMAIN matches
  BY DEF TypeOK
<1>2. ASSUME NEW i \in DOMAIN matches PROVE Judged(matches'[i])
  BY DEF AllJudged, TypeOK
<1> QED BY <1>1, <1>2 DEF AllJudged

\* Every request but the answers to a join request.
LEMMA RequestPreservesJudged ==
  ASSUME TypeOK, AllSound, AllJudged, NEW p \in Players, Request(p)
  PROVE  AllJudged'
<1>1. CASE UNCHANGED matches
  BY <1>1 DEF AllJudged
<1>2. CASE CreateMatch(p)
  <2>1. CASE matches' = Append(matches, create_match(p))
    <3>1. /\ DOMAIN matches = 1 .. Len(matches) /\ Len(matches) \in Nat
          /\ DOMAIN matches' = 1 .. Len(matches) + 1
          /\ \A i \in 1 .. Len(matches) : matches'[i] = matches[i]
          /\ matches'[Len(matches) + 1] = create_match(p)
      BY <2>1 DEF TypeOK
    <3>2. Fresh(create_match(p)) /\ create_match(p).state # "FINISHED"
      BY DEF create_match, Fresh
    <3>3. Judged(create_match(p))
      BY <3>2, FreshJudged
    <3>4. ASSUME NEW i \in 1 .. Len(matches) + 1 PROVE Judged(matches'[i])
      <4>1. CASE i \in 1 .. Len(matches)
        <5>1. matches'[i] = matches[i] /\ Judged(matches[i])
          BY <3>1, <4>1 DEF AllJudged
        <5> QED BY <5>1
      <4>2. CASE i = Len(matches) + 1
        <5>1. matches'[i] = create_match(p)
          BY <3>1, <4>2
        <5> QED BY <3>3, <5>1
      <4> QED BY <3>1, <4>1, <4>2
    <3> QED BY <3>1, <3>4 DEF AllJudged
  <2> QED BY <1>1, <1>2, <2>1 DEF CreateMatch, Fails
<1>3. ASSUME NEW id \in MatchIds, ~UNCHANGED matches, Found(id), NEW n, Judged(n),
             matches' = [matches EXCEPT ![id] = n]
      PROVE  AllJudged'
  BY <1>3, UpdateJudged DEF Found, TypeOK
<1>4. ASSUME NEW id \in MatchIds, JoinMatch(p, id), ~UNCHANGED matches PROVE AllJudged'
  <2>1. Found(id) /\ MayAsk(matches[id], p)
    BY <1>4 DEF JoinMatch, Fails
  <2> DEFINE m == matches[id]
  <2>2. /\ m \in Matches /\ Sound(m) /\ Judged(m)
        /\ m.state \in {"WAITING_FOR_OPPONENT", "JOIN_PENDING"}
    BY <2>1 DEF TypeOK, AllSound, AllJudged, Found, MayAsk
  <2>3. PICK n \in {AskedFirst(m, p), enqueue_join_request(m, p)} :
          /\ matches' = [matches EXCEPT ![id] = n]
          /\ n = AskedFirst(m, p) =>
               m.pending_requester_id = NoPlayer \/ n = enqueue_join_request(m, p)
    BY <1>4 DEF JoinMatch, Fails
  <2> HIDE DEF m
  <2>4. Judged(n)
    BY <2>2, <2>3, LineJudged
  <2> QED BY <1>3, <1>4, <2>1, <2>3, <2>4
<1>5. ASSUME NEW id \in MatchIds, NEW column \in Columns, Move(p, id, column),
             ~UNCHANGED matches
      PROVE  AllJudged'
  <2> DEFINE m == matches[id]
  <2>1. Found(id) /\ matches' = [matches EXCEPT ![id] = Played(m, p, column)]
        /\ MoveResult(m, p, column) \in Accepted
    BY <1>5 DEF Move, Fails
  <2>2. m \in Matches /\ Sound(m) /\ Judged(m)
    BY <2>1 DEF TypeOK, AllSound, AllJudged, Found
  <2> HIDE DEF m
  <2>3. Judged(Played(m, p, column))
    BY <2>1, <2>2, PlayedJudged
  <2> QED BY <1>3, <1>5, <2>1, <2>3
<1>6. ASSUME NEW id \in MatchIds, Rematch(p, id), ~UNCHANGED matches PROVE AllJudged'
  <2> DEFINE m == matches[id]
  <2>1. MayRematch(p, id) /\ m.state = "FINISHED"
    BY <1>6 DEF Rematch, Fails, MayRematch
  <2>2. Found(id) /\ m \in Matches /\ Judged(m)
    BY <2>1 DEF TypeOK, AllJudged, Found, MayRematch
  <2>3. \/ matches' = [matches EXCEPT ![id] = reset_match_for_rematch(m)]
        \/ matches' = [matches EXCEPT ![id] = open_new_session_as_owner(m, p)]
        \/ /\ matches' = [matches EXCEPT ![id] = Voted(m, p)]
           /\ m.winner_id = NoPlayer /\ ~BothVoted(Voted(m, p))
    BY <1>6 DEF Rematch, Fails
  <2> HIDE DEF m
  <2> QED BY <1>3, <1>6, <2>1, <2>2, <2>3, SessionJudged
<1>7. ASSUME NEW id \in MatchIds, QuitMatch(p, id), ~UNCHANGED matches PROVE AllJudged'
  <2> DEFINE m == matches[id]
  <2>1. Found(id) /\ matches' = [matches EXCEPT ![id] = Left(m, p)]
    BY <1>7 DEF QuitMatch
  <2>2. m \in Matches /\ Judged(m)
    BY <2>1 DEF TypeOK, AllJudged, Found
  <2> HIDE DEF m
  <2> QED BY <1>3, <1>7, <2>1, <2>2, LeftJudged
<1>8. CASE Register(p) \/ UnknownAction(p) \/ ListMatches(p)
  BY <1>1, <1>8 DEF Register, UnknownAction, ListMatches
<1> QED BY <1>1, <1>2, <1>4, <1>5, <1>6, <1>7, <1>8 DEF Request

\* accept_join, reject_join and cancel_join, of a closed match too.
LEMMA AnswerPreservesJudged ==
  ASSUME TypeOK, AllSound, AllJudged, NEW p \in Players, NEW id \in MatchIds, Answer(p, id)
  PROVE  AllJudged'
<1>1. CASE UNCHANGED matches
  BY <1>1 DEF AllJudged
<1>2. CASE ~UNCHANGED matches
  <2> DEFINE m == matches[id]
  <2>1. Found(id)
    BY <1>2 DEF Answer, AcceptJoin, RejectJoin, CancelJoin, NothingToDecide, HasRequestFor, Fails
  <2>2. m \in Matches /\ Sound(m) /\ Judged(m) /\ id \in DOMAIN matches
    BY <2>1 DEF TypeOK, AllSound, AllJudged, Found
  <2>3. \/ matches' = [matches EXCEPT ![id] = [m EXCEPT !.withdrawn_requester_id = NoPlayer]]
        \/ matches' = [matches EXCEPT ![id] = remove_from_join_queue(m, p)]
        \/ /\ m.pending_requester_id # NoPlayer
           /\ \/ matches' = [matches EXCEPT ![id] = [Seated(m) EXCEPT !.join_queue = << >>]]
              \/ matches' = [matches EXCEPT ![id] = Refused(m)]
        \/ m.pending_requester_id = p /\ matches' = [matches EXCEPT ![id] = Withdrawn(m, p)]
    <3>1. ASSUME NEW action, NothingToDecide(p, action, id)
          PROVE  matches' = [matches EXCEPT ![id] = [m EXCEPT !.withdrawn_requester_id = NoPlayer]]
      BY <1>2, <3>1 DEF NothingToDecide, Fails
    <3>2. CASE AcceptJoin(p, id)
      BY <3>1, <3>2 DEF AcceptJoin, HasRequestFor
    <3>3. CASE RejectJoin(p, id)
      BY <3>1, <3>3 DEF RejectJoin, HasRequestFor
    <3>4. CASE CancelJoin(p, id)
      BY <1>2, <3>4 DEF CancelJoin
    <3> QED BY <3>2, <3>3, <3>4 DEF Answer
  <2>4. p # NoPlayer
    BY MatchAssumption
  <2> HIDE DEF m
  <2>5. PICK n : Judged(n) /\ matches' = [matches EXCEPT ![id] = n]
    BY <2>2, <2>3, <2>4, LineJudged
  <2> QED BY <2>2, <2>5, UpdateJudged
<1> QED BY <1>1, <1>2

\* The beginning and the end of a connection.
LEMMA SessionPreservesJudged ==
  ASSUME TypeOK, AllSound, AllJudged, NEW p \in Players, Session(p)
  PROVE  AllJudged'
<1>1. CASE UNCHANGED matches
  BY <1>1 DEF AllJudged
<1>2. CASE Disconnect(p)
  <2>1. DOMAIN matches' = DOMAIN matches
    BY <1>2 DEF Disconnect
  <2>2. ASSUME NEW i \in DOMAIN matches PROVE Judged(matches'[i])
    <3>1. matches[i] \in Matches /\ Sound(matches[i]) /\ Judged(matches[i])
      BY DEF TypeOK, AllSound, AllJudged
    <3>2. matches'[i] = CleanUp(matches[i], p)
      BY <1>2 DEF Disconnect
    <3> QED BY <3>1, <3>2, CleanUpJudged
  <2> QED BY <2>1, <2>2 DEF AllJudged
<1> QED BY <1>1, <1>2 DEF Session, Connect, MarkDisconnected

LEMMA JudgedInvariant == Spec => []AllJudged
<1>1. Init => AllJudged
  BY DEF Init, AllJudged
<1>2. TypeOK /\ AllSound /\ AllJudged /\ [Next]_vars => AllJudged'
  <2> SUFFICES ASSUME TypeOK, AllSound, AllJudged, [Next]_vars PROVE AllJudged'
    OBVIOUS
  <2>1. CASE UNCHANGED matches
    BY <2>1 DEF AllJudged
  <2> QED BY <2>1, RequestPreservesJudged, AnswerPreservesJudged, SessionPreservesJudged
          DEF Next, vars, RefuseConnection
<1> QED BY <1>1, <1>2, TypeCorrect, SoundInvariant, PTL DEF Spec

\* The winner the server remembers is the one the board shows, and the votes for
\* a rematch are those of this draw, at every moment of any number of games.
THEOREM ResultIsRight == Spec => []ResultMatchesBoard
<1>1. AllJudged => ResultMatchesBoard
  BY DEF AllJudged, Judged, Over, Winner, ResultMatchesBoard
<1> QED BY <1>1, JudgedInvariant, PTL
=============================================================================
