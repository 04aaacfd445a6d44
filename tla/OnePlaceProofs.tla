--------------------------- MODULE OnePlaceProofs ---------------------------
(***************************************************************************)
(* With timely answers no player is engaged in two matches, and no match   *)
(* waits for a client who is gone, for every number of players and matches *)
(* and every size of board and queue.                                      *)
(*                                                                         *)
(* The argument: an operation on a match may let somebody go, but engages  *)
(* nobody anew (Keeps), except CREATE_MATCH and JOIN_MATCH, which ask      *)
(* is_player_busy first.  That acceptance, promotion and rematch engage    *)
(* nobody anew rests on the seats and the line of requests being sound.    *)
(***************************************************************************)
EXTENDS ServerProofs

Keeps(m, n) == \A q \in Players : Engages(n, q) => Engages(m, q)

-----------------------------------------------------------------------------
(* Nobody is engaged anew.                                                 *)

LEMMA AskedEngages ==
  ASSUME NEW m \in Matches, NEW p \in Players, NEW q \in Players,
         m.state \in {"WAITING_FOR_OPPONENT", "JOIN_PENDING"}
  PROVE  /\ Engages(AskedFirst(m, p), q) => Engages(m, q) \/ q = p
         /\ Engages(enqueue_join_request(m, p), q) => Engages(m, q) \/ q = p
<1>1. Engages(AskedFirst(m, p), q) => Engages(m, q) \/ q = p
  BY DEF AskedFirst, Engages, Matches, is_player_in_match
<1>2. Engages(enqueue_join_request(m, p), q) => Engages(m, q) \/ q = p
  <2> DEFINE n == enqueue_join_request(m, p)
  <2>1. /\ n.state = m.state /\ n.player1_id = m.player1_id
        /\ n.player2_id = m.player2_id /\ n.winner_id = m.winner_id
        /\ n.pending_requester_id = m.pending_requester_id
        /\ n.join_queue = Append(m.join_queue, p)
    BY DEF enqueue_join_request, Matches
  <2>2. m.join_queue \in Seq(Players)
    BY DEF Matches
  <2>3. ToSet(Append(m.join_queue, p)) \subseteq ToSet(m.join_queue) \cup {p}
    BY <2>2 DEF ToSet
  <2> HIDE DEF n
  <2>4. Engages(n, q) => Engages(m, q) \/ q = p
    BY <2>1, <2>3 DEF Engages, is_player_in_match
  <2> QED BY <2>4 DEF n
<1> QED BY <1>1, <1>2

LEMMA PlayedKeeps ==
  ASSUME NEW m \in Matches, NEW p \in Players, NEW column
  PROVE  Keeps(m, Played(m, p, column))
<1> DEFINE a == apply_match_move(m, p, column)
           n == Played(m, p, column)
<1>1. MoveResult(m, p, column) \in Accepted => m.state = "ACTIVE"
  BY DEF MoveResult, Accepted
<1>2. /\ a.player1_id = m.player1_id /\ a.player2_id = m.player2_id
      /\ a.pending_requester_id = m.pending_requester_id
      /\ a.join_queue = m.join_queue /\ a.winner_id = m.winner_id
      /\ a = m \/ m.state = "ACTIVE"
  BY <1>1 DEF apply_match_move, Matches
<1>3. a \in Matches
  BY MoveType
<1> HIDE DEF a
<1>4. /\ n.player1_id = a.player1_id /\ n.player2_id = a.player2_id
      /\ n.pending_requester_id = a.pending_requester_id
      /\ n.join_queue = a.join_queue /\ n.state = a.state
      /\ n = a \/ MoveResult(m, p, column) \in Accepted
  BY <1>3 DEF Played, Matches, a, Accepted
<1> HIDE DEF n
<1>5. Keeps(m, n)
  BY <1>1, <1>2, <1>4 DEF Keeps, Engages, is_player_in_match
<1> QED BY <1>5 DEF n

LEMMA SessionKeeps ==
  ASSUME NEW m \in Matches, Sound(m), m.state = "FINISHED", NEW p \in Players,
         is_player_in_match(m, p)
  PROVE  /\ m.winner_id = NoPlayer => Keeps(m, reset_match_for_rematch(m))
         /\ m.winner_id = p => Keeps(m, open_new_session_as_owner(m, p))
         /\ Keeps(m, Voted(m, p))
<1> DEFINE c == ClearedSession(m)
<1>1. /\ c.player1_id = m.player1_id /\ c.player2_id = m.player2_id
      /\ c.pending_requester_id = NoPlayer /\ c.join_queue = << >>
  BY DEF ClearedSession, Matches
<1>2. c \in Matches
  BY ClearedType
<1>3. ToSet(<< >>) = {}
  BY DEF ToSet
<1> HIDE DEF c
<1>4. ASSUME m.winner_id = NoPlayer PROVE Keeps(m, reset_match_for_rematch(m))
  <2> DEFINE n == [c EXCEPT !.state = "ACTIVE"]
  <2>1. /\ n.player1_id = m.player1_id /\ n.player2_id = m.player2_id
        /\ n.pending_requester_id = NoPlayer /\ n.join_queue = << >>
    BY <1>1, <1>2 DEF Matches
  <2> HIDE DEF n
  <2>2. Keeps(m, n)
    BY <1>3, <1>4, <2>1, MatchAssumption DEF Keeps, Engages, is_player_in_match
  <2> QED BY <2>2 DEF reset_match_for_rematch, n, c
<1>5. ASSUME m.winner_id = p PROVE Keeps(m, open_new_session_as_owner(m, p))
  <2> DEFINE n == [c EXCEPT !.state = "WAITING_FOR_OPPONENT", !.creator_id = p,
                            !.player1_id = p, !.player2_id = NoPlayer]
  <2>1. /\ n.player1_id = p /\ n.player2_id = NoPlayer
        /\ n.pending_requester_id = NoPlayer /\ n.join_queue = << >>
    BY <1>1, <1>2 DEF Matches
  <2> HIDE DEF n
  <2>2. Keeps(m, n)
    BY <1>3, <1>5, <2>1, MatchAssumption DEF Keeps, Engages, is_player_in_match
  <2> QED BY <2>2 DEF open_new_session_as_owner, n, c
<1>6. Keeps(m, Voted(m, p))
  BY DEF Voted, Keeps, Engages, is_player_in_match, Matches
<1> QED BY <1>4, <1>5, <1>6

LEMMA LeftKeeps ==
  ASSUME NEW m \in Matches, NEW p \in Players
  PROVE  Keeps(m, Left(m, p))
BY DEF Left, abandon_match, Keeps, Engages, Matches

\* The pending request may only be accepted on a match that waits for the
\* decision: Timely rules out a closed one, Sound the others.
LEMMA DecisionIsPending ==
  ASSUME NEW m \in Matches, Sound(m), m.pending_requester_id # NoPlayer,
         m.state # "ABANDONED"
  PROVE  m.state = "JOIN_PENDING"
BY DEF Sound, SeatsMatchState, Matches, MatchStates

LEMMA AcceptedKeeps ==
  ASSUME NEW m \in Matches, Sound(m), m.pending_requester_id # NoPlayer,
         m.state # "ABANDONED"
  PROVE  Keeps(m, [Seated(m) EXCEPT !.join_queue = << >>])
<1> DEFINE c == [m EXCEPT !.pending_requester_id = NoPlayer]
           p == m.pending_requester_id
           s == Seated(m)
           n == [s EXCEPT !.join_queue = << >>]
<1>1. p \in Players /\ m.player2_id = NoPlayer /\ m.state = "JOIN_PENDING"
  BY DecisionIsPending DEF Matches, Sound, SeatsMatchState
<1>2. c \in Matches /\ c.player2_id = NoPlayer /\ c.player1_id = m.player1_id
      /\ c.pending_requester_id = NoPlayer
  BY <1>1 DEF Matches
<1>3. s = [c EXCEPT !.player2_id = p, !.state = "ACTIVE"]
  BY <1>2 DEF Seated, add_player_to_match
<1> HIDE DEF c, s
<1>4. /\ s \in Matches /\ s.player2_id = p /\ s.player1_id = m.player1_id
      /\ s.pending_requester_id = NoPlayer
  BY <1>1, <1>2, <1>3 DEF Matches, MatchStates
<1>5. /\ n.player2_id = p /\ n.player1_id = m.player1_id
      /\ n.pending_requester_id = NoPlayer /\ n.join_queue = << >>
  BY <1>4 DEF Matches
<1>6. ToSet(<< >>) = {}
  BY DEF ToSet
<1> HIDE DEF n
<1>7. Keeps(m, n)
  BY <1>1, <1>5, <1>6, MatchAssumption DEF Keeps, Engages, is_player_in_match
<1> QED BY <1>7 DEF n, s

\* Promotion lets the old request go and engages nobody anew: the place of the
\* promoted player was in the queue.
LEMMA PromoteKeeps ==
  ASSUME NEW m \in Matches, m.state = "JOIN_PENDING"
  PROVE  /\ Keeps(m, PromoteNext(m))
         /\ \A q \in Players :
              q # m.player1_id /\ q # m.player2_id /\ q \notin ToSet(m.join_queue)
                => ~Engages(PromoteNext(m), q)
<1> DEFINE n == PromoteNext(m)
           q == m.join_queue
<1>1. q \in Seq(Players) /\ Len(q) \in Nat
  BY DEF Matches
<1>2. CASE q = << >>
  <2>1. /\ n.player1_id = m.player1_id /\ n.player2_id = m.player2_id
        /\ n.pending_requester_id = NoPlayer /\ n.join_queue = << >>
        /\ n.state = "WAITING_FOR_OPPONENT"
    BY <1>2 DEF PromoteNext, Matches
  <2>2. ToSet(<< >>) = {}
    BY DEF ToSet
  <2> HIDE DEF n
  <2>3. /\ Keeps(m, n)
        /\ \A r \in Players :
             r # m.player1_id /\ r # m.player2_id /\ r \notin ToSet(q) => ~Engages(n, r)
    BY <2>1, <2>2, MatchAssumption DEF Keeps, Engages, is_player_in_match
  <2> QED BY <2>3 DEF n
<1>3. CASE q # << >>
  <2> DEFINE d == dequeue_join_request(m)
             h == Head(q)
             t == Tail(q)
  <2>1. /\ h \in Players /\ h = q[1] /\ t \in Seq(Players)
        /\ Len(t) = Len(q) - 1 /\ Len(q) >= 1
        /\ \A i \in 1 .. Len(q) - 1 : t[i] = q[i + 1]
    BY <1>1, <1>3
  <2>2. h \in ToSet(q) /\ ToSet(t) \subseteq ToSet(q)
    BY <1>1, <2>1 DEF ToSet
  <2>3. /\ d \in Matches /\ d.player1_id = m.player1_id
        /\ d.player2_id = m.player2_id /\ d.join_queue = t
    BY <2>1 DEF dequeue_join_request, Matches
  <2>4. n = [d EXCEPT !.pending_requester_id = h, !.withdrawn_requester_id = NoPlayer,
                      !.state = "JOIN_PENDING"]
    BY <1>3 DEF PromoteNext
  <2> HIDE DEF d, h, t, n
  <2>5. /\ n.player1_id = m.player1_id /\ n.player2_id = m.player2_id
        /\ n.pending_requester_id = h /\ n.join_queue = t /\ n.state = "JOIN_PENDING"
    BY <2>3, <2>4 DEF Matches
  <2>6. /\ Keeps(m, n)
        /\ \A r \in Players :
             r # m.player1_id /\ r # m.player2_id /\ r \notin ToSet(q) => ~Engages(n, r)
    BY <2>2, <2>5 DEF Keeps, Engages, is_player_in_match
  <2> QED BY <2>6 DEF n
<1> QED BY <1>2, <1>3

LEMMA WithdrawnKeeps ==
  ASSUME NEW m \in Matches, m.state = "JOIN_PENDING", NEW p \in Players
  PROVE  Keeps(m, Withdrawn(m, p))
<1> DEFINE n == [m EXCEPT !.withdrawn_requester_id = p]
<1>1. /\ n \in Matches /\ n.state = "JOIN_PENDING"
      /\ n.player1_id = m.player1_id /\ n.player2_id = m.player2_id
      /\ n.pending_requester_id = m.pending_requester_id
      /\ n.join_queue = m.join_queue /\ n.winner_id = m.winner_id
  BY DEF Matches
<1> HIDE DEF n
<1>2. Keeps(n, PromoteNext(n)) /\ Keeps(m, n)
  BY <1>1, PromoteKeeps DEF Keeps, Engages, is_player_in_match
<1> QED BY <1>2 DEF Withdrawn, Keeps, n

LEMMA RefusedKeeps ==
  ASSUME NEW m \in Matches, m.state = "JOIN_PENDING", m.pending_requester_id # NoPlayer
  PROVE  Keeps(m, Refused(m))
<1> DEFINE n == add_rejected_player(m, m.pending_requester_id)
<1>1. n \in Matches
  BY RequestType DEF Matches
<1>2. /\ n.state = "JOIN_PENDING"
      /\ n.player1_id = m.player1_id /\ n.player2_id = m.player2_id
      /\ n.pending_requester_id = m.pending_requester_id
      /\ n.join_queue = m.join_queue /\ n.winner_id = m.winner_id
  BY DEF add_rejected_player, Matches
<1> HIDE DEF n
<1>3. Keeps(n, PromoteNext(n)) /\ Keeps(m, n)
  BY <1>1, <1>2, PromoteKeeps DEF Keeps, Engages, is_player_in_match
<1> QED BY <1>3 DEF Refused, Keeps, n

\* Taking p out of the queue takes all of him out, because nobody is in the
\* queue twice.
LEMMA RemovedKeeps ==
  ASSUME NEW m \in Matches, Sound(m), NEW p \in Players
  PROVE  /\ Keeps(m, remove_from_join_queue(m, p))
         /\ p \notin ToSet(remove_from_join_queue(m, p).join_queue)
<1>1. CASE p \notin ToSet(m.join_queue)
  BY <1>1 DEF remove_from_join_queue, Keeps
<1>2. CASE p \in ToSet(m.join_queue)
  <2> DEFINE q == m.join_queue
             k == QueuePosition(m, p)
             r == RemoveAt(q, k)
             n == remove_from_join_queue(m, p)
  <2>1. /\ n.player1_id = m.player1_id /\ n.player2_id = m.player2_id
        /\ n.state = m.state /\ n.winner_id = m.winner_id
        /\ n.pending_requester_id = m.pending_requester_id /\ n.join_queue = r
    BY <1>2 DEF remove_from_join_queue, Matches
  <2>2. q \in Seq(Players) /\ k \in 1 .. Len(q) /\ q[k] = p /\ Len(q) \in Nat
    BY <1>2, QueuePositionIsFirst DEF Matches
  <2> HIDE DEF k
  <2>3. /\ r \in Seq(Players) /\ Len(r) = Len(q) - 1
        /\ \A i \in 1 .. Len(q) - 1 : r[i] = IF i < k THEN q[i] ELSE q[i + 1]
    BY <2>2, RemoveAtIsSeq
  <2> HIDE DEF n, r
  <2>4. \A i, j \in 1 .. Len(q) : q[i] = q[j] => i = j
    BY DEF Sound, RequestsInLine
  <2>5. ToSet(r) \subseteq ToSet(q)
    BY <2>2, <2>3 DEF ToSet
  <2>6. p \notin ToSet(r)
    <3> SUFFICES ASSUME NEW i \in 1 .. Len(r), r[i] = p PROVE FALSE
      BY <2>3 DEF ToSet
    <3>1. CASE i < k
      BY <2>2, <2>3, <2>4, <3>1
    <3>2. CASE ~(i < k)
      <4>1. i + 1 \in 1 .. Len(q) /\ q[i + 1] = q[k]
        BY <2>2, <2>3, <3>2
      <4>2. i + 1 = k
        BY <2>2, <2>4, <4>1
      <4> QED BY <2>2, <2>3, <3>2, <4>2
    <3> QED BY <3>1, <3>2
  <2>7. Keeps(m, n)
    BY <2>1, <2>5 DEF Keeps, Engages, is_player_in_match
  <2> QED BY <2>1, <2>6, <2>7 DEF n
<1> QED BY <1>1, <1>2

\* The clean-up of a connection engages nobody anew and lets its player go.
LEMMA CleanUpKeeps ==
  ASSUME NEW m \in Matches, Sound(m), NEW p \in Players
  PROVE  Keeps(m, CleanUp(m, p)) /\ ~Engages(CleanUp(m, p), p)
<1>1. CASE m.state \in {"ACTIVE", "FINISHED"} /\ is_player_in_match(m, p)
  <2>1. CleanUp(m, p) = Left(m, p)
    BY <1>1 DEF CleanUp
  <2>2. ~Engages(Left(m, p), p)
    <3>1. m.pending_requester_id = NoPlayer /\ m.join_queue = << >>
      BY <1>1 DEF Sound, SeatsMatchState, RequestsInLine
    <3> QED BY <1>1, <3>1, MatchAssumption
            DEF Left, Loses, abandon_match, Engages, is_player_in_match, ToSet, Matches
  <2> QED BY <2>1, <2>2, LeftKeeps
<1>2. CASE m.state \in {"WAITING_FOR_OPPONENT", "JOIN_PENDING"} /\ m.creator_id = p
  <2>1. CleanUp(m, p) = Left(m, p)
    BY <1>2 DEF CleanUp
  <2>2. ~Engages(Left(m, p), p)
    BY <1>2 DEF Left, Engages, Matches
  <2> QED BY <2>1, <2>2, LeftKeeps
<1>3. CASE m.state = "JOIN_PENDING" /\ m.creator_id # p /\ m.pending_requester_id = p
  <2>1. CleanUp(m, p) = PromoteNext(m)
    BY <1>3 DEF CleanUp
  <2>2. p # m.player1_id /\ p # m.player2_id /\ p \notin ToSet(m.join_queue)
    BY <1>3, MatchAssumption
       DEF Sound, SeatsMatchState, RequestsInLine, OwnerPlaysFirst
  <2> QED BY <1>3, <2>1, <2>2, PromoteKeeps
<1>4. CASE m.state = "JOIN_PENDING" /\ m.creator_id # p /\ m.pending_requester_id # p
  <2> DEFINE n == remove_from_join_queue(m, p)
  <2>1. CleanUp(m, p) = n
    BY <1>4 DEF CleanUp
  <2>2. /\ n.player1_id = m.player1_id /\ n.player2_id = m.player2_id
        /\ n.state = m.state /\ n.pending_requester_id = m.pending_requester_id
    BY DEF remove_from_join_queue, Matches
  <2>3. p # m.player1_id /\ p # m.player2_id
    BY <1>4, MatchAssumption DEF Sound, SeatsMatchState, OwnerPlaysFirst
  <2>4. Keeps(m, n) /\ p \notin ToSet(n.join_queue)
    BY RemovedKeeps
  <2> HIDE DEF n
  <2> QED BY <1>4, <2>1, <2>2, <2>3, <2>4 DEF Engages, is_player_in_match
<1>5. CASE \/ m.state = "ABANDONED"
           \/ m.state \in {"ACTIVE", "FINISHED"} /\ ~is_player_in_match(m, p)
           \/ m.state = "WAITING_FOR_OPPONENT" /\ m.creator_id # p
  <2>1. CleanUp(m, p) = m
    BY <1>5 DEF CleanUp
  <2>2. ~Engages(m, p)
    BY <1>5, MatchAssumption
       DEF Engages, is_player_in_match, ToSet, Sound, SeatsMatchState, RequestsInLine,
           OwnerPlaysFirst
  <2> QED BY <2>1, <2>2 DEF Keeps
<1> QED BY <1>1, <1>2, <1>3, <1>4, <1>5 DEF Matches, MatchStates

-----------------------------------------------------------------------------
(* What one step does to who is engaged where.                             *)

\* At most the match id engages somebody anew, and that is p, who was free.
Admits(p, id) ==
  \A i \in DOMAIN matches', q \in Players :
    Engages(matches'[i], q) =>
      \/ i \in DOMAIN matches /\ Engages(matches[i], q)
      \/ i = id /\ q = p /\ ~is_player_busy(p)

LEMMA UpdateAdmits ==
  ASSUME TypeOK, NEW id \in DOMAIN matches, NEW n, NEW p \in Players,
         matches' = [matches EXCEPT ![id] = n],
         \A q \in Players :
           Engages(n, q) => Engages(matches[id], q) \/ (q = p /\ ~is_player_busy(p))
  PROVE  Admits(p, id)
<1>1. DOMAIN matches' = DOMAIN matches
  BY DEF TypeOK
<1>2. \A i \in DOMAIN matches : matches'[i] = IF i = id THEN n ELSE matches[i]
  BY DEF TypeOK
<1> QED BY <1>1, <1>2 DEF Admits

LEMMA StutterAdmits ==
  ASSUME UNCHANGED matches, NEW p, NEW id
  PROVE  Admits(p, id)
BY DEF Admits

LEMMA RequestAdmits ==
  ASSUME TypeOK, AllSound, NEW p \in Players, Request(p)
  PROVE  \E id : Admits(p, id)
<1>1. CASE UNCHANGED matches
  BY <1>1, StutterAdmits
<1>2. CASE CreateMatch(p) /\ ~UNCHANGED matches
  <2>1. matches' = Append(matches, create_match(p)) /\ ~is_player_busy(p)
    BY <1>2 DEF CreateMatch, Fails
  <2>2. /\ DOMAIN matches = 1 .. Len(matches) /\ Len(matches) \in Nat
        /\ DOMAIN matches' = 1 .. Len(matches) + 1
        /\ matches'[Len(matches) + 1] = create_match(p)
        /\ \A i \in DOMAIN matches : matches'[i] = matches[i]
    BY <2>1 DEF TypeOK
  <2>3. \A q \in Players : Engages(create_match(p), q) => q = p
    BY MatchAssumption DEF create_match, Engages, is_player_in_match, ToSet
  <2>4. \A i \in DOMAIN matches' : i \in DOMAIN matches \/ i = Len(matches) + 1
    BY <2>2
  <2>5. Admits(p, Len(matches) + 1)
    BY <2>1, <2>2, <2>3, <2>4 DEF Admits
  <2> QED BY <2>5
<1>3. ASSUME NEW id \in MatchIds, JoinMatch(p, id), ~UNCHANGED matches
      PROVE  Admits(p, id)
  <2>1. /\ Found(id) /\ MayAsk(matches[id], p)
        /\ \/ matches' = [matches EXCEPT ![id] = AskedFirst(@, p)]
           \/ matches' = [matches EXCEPT ![id] = enqueue_join_request(@, p)]
    BY <1>3 DEF JoinMatch, Fails
  <2>2. /\ matches[id] \in Matches /\ id \in DOMAIN matches /\ ~is_player_busy(p)
        /\ matches[id].state \in {"WAITING_FOR_OPPONENT", "JOIN_PENDING"}
    BY <2>1 DEF TypeOK, Found, MayAsk
  <2>3. PICK n \in {AskedFirst(matches[id], p), enqueue_join_request(matches[id], p)} :
          matches' = [matches EXCEPT ![id] = n]
    BY <2>1
  <2>4. \A q \in Players : Engages(n, q) => Engages(matches[id], q) \/ q = p
    BY <2>2, <2>3, AskedEngages
  <2> QED BY <2>2, <2>3, <2>4, UpdateAdmits
<1>4. ASSUME NEW id \in MatchIds, NEW column \in Columns, Move(p, id, column),
             ~UNCHANGED matches
      PROVE  Admits(p, id)
  <2>1. Found(id) /\ matches' = [matches EXCEPT ![id] = Played(@, p, column)]
    BY <1>4 DEF Move, Fails
  <2>2. matches[id] \in Matches /\ id \in DOMAIN matches
    BY <2>1 DEF TypeOK, Found
  <2> QED BY <2>1, <2>2, PlayedKeeps, UpdateAdmits DEF Keeps
<1>5. ASSUME NEW id \in MatchIds, Rematch(p, id), ~UNCHANGED matches
      PROVE  Admits(p, id)
  <2>1. MayRematch(p, id)
    BY <1>5 DEF Rematch, Fails
  <2>2. /\ matches[id] \in Matches /\ Sound(matches[id]) /\ id \in DOMAIN matches
        /\ matches[id].state = "FINISHED" /\ is_player_in_match(matches[id], p)
    BY <2>1 DEF TypeOK, AllSound, Found, MayRematch
  <2>3. PICK n : /\ matches' = [matches EXCEPT ![id] = n]
                 /\ \/ /\ matches[id].winner_id = NoPlayer
                       /\ n \in {reset_match_for_rematch(matches[id]), Voted(matches[id], p)}
                    \/ /\ matches[id].winner_id = p
                       /\ n = open_new_session_as_owner(matches[id], p)
    BY <1>5 DEF Rematch, Fails
  <2>4. Keeps(matches[id], n)
    BY <2>2, <2>3, SessionKeeps
  <2> QED BY <2>2, <2>3, <2>4, UpdateAdmits DEF Keeps
<1>6. ASSUME NEW id \in MatchIds, QuitMatch(p, id), ~UNCHANGED matches
      PROVE  Admits(p, id)
  <2>1. Found(id) /\ matches' = [matches EXCEPT ![id] = Left(@, p)]
    BY <1>6 DEF QuitMatch
  <2>2. matches[id] \in Matches /\ id \in DOMAIN matches
    BY <2>1 DEF TypeOK, Found
  <2> QED BY <2>1, <2>2, LeftKeeps, UpdateAdmits DEF Keeps
<1> QED BY <1>1, <1>2, <1>3, <1>4, <1>5, <1>6
        DEF Request, Register, UnknownAction, ListMatches

LEMMA TimelyAnswerAdmits ==
  ASSUME TypeOK, AllSound, NEW p \in Players, NEW id \in MatchIds,
         Timely(id), Answer(p, id)
  PROVE  Admits(p, id)
<1>1. CASE UNCHANGED matches
  BY <1>1, StutterAdmits
<1>2. CASE ~UNCHANGED matches
  <2>1. Found(id)
    BY <1>2 DEF Answer, AcceptJoin, RejectJoin, CancelJoin, NothingToDecide, HasRequestFor, Fails
  <2> DEFINE m == matches[id]
  <2>2. /\ m \in Matches /\ Sound(m) /\ id \in DOMAIN matches
        /\ m.state # "ABANDONED"
    BY <2>1 DEF TypeOK, AllSound, Found, Timely
  <2>3. ASSUME NEW n, Keeps(m, n), matches' = [matches EXCEPT ![id] = n]
        PROVE  Admits(p, id)
    BY <2>2, <2>3, UpdateAdmits DEF Keeps
  <2>4. ASSUME NEW action, NothingToDecide(p, action, id) PROVE Admits(p, id)
    <3> DEFINE n == [m EXCEPT !.withdrawn_requester_id = NoPlayer]
    <3>1. matches' = [matches EXCEPT ![id] = n]
      BY <1>2, <2>4 DEF NothingToDecide, Fails
    <3>2. Keeps(m, n)
      BY <2>2 DEF Keeps, Engages, is_player_in_match, Matches
    <3> HIDE DEF m, n
    <3> QED BY <2>3, <3>1, <3>2
  <2>5. CASE AcceptJoin(p, id) /\ HasRequestFor(p, id)
    <3>1. /\ m.pending_requester_id # NoPlayer
          /\ matches' = [matches EXCEPT ![id] = [Seated(m) EXCEPT !.join_queue = << >>]]
      BY <2>5 DEF AcceptJoin, HasRequestFor, NothingToDecide
    <3>2. Keeps(m, [Seated(m) EXCEPT !.join_queue = << >>])
      BY <2>2, <3>1, AcceptedKeeps
    <3> HIDE DEF m
    <3> QED BY <2>3, <3>1, <3>2
  <2>6. CASE RejectJoin(p, id) /\ HasRequestFor(p, id)
    <3>1. /\ m.pending_requester_id # NoPlayer
          /\ matches' = [matches EXCEPT ![id] = Refused(m)]
      BY <2>6 DEF RejectJoin, HasRequestFor, NothingToDecide
    <3>2. m.state = "JOIN_PENDING"
      BY <2>2, <3>1, DecisionIsPending
    <3> QED BY <2>2, <2>3, <3>1, <3>2, RefusedKeeps
  <2>7. CASE CancelJoin(p, id)
    <3>1. CASE /\ m.pending_requester_id = p
               /\ matches' = [matches EXCEPT ![id] = Withdrawn(@, p)]
      <4>1. m.state = "JOIN_PENDING"
        BY <2>2, <3>1, MatchAssumption, DecisionIsPending
      <4> QED BY <2>2, <2>3, <3>1, <4>1, WithdrawnKeeps
    <3>2. CASE matches' = [matches EXCEPT ![id] = remove_from_join_queue(@, p)]
      BY <2>2, <2>3, <3>2, RemovedKeeps
    <3> QED BY <1>2, <2>7, <3>1, <3>2 DEF CancelJoin
  <2> QED BY <2>4, <2>5, <2>6, <2>7 DEF Answer, AcceptJoin, RejectJoin
<1> QED BY <1>1, <1>2

LEMMA SessionAdmits ==
  ASSUME TypeOK, AllSound, NEW p \in Players, Session(p), NEW id
  PROVE  Admits(p, id)
<1>1. CASE UNCHANGED matches
  BY <1>1, StutterAdmits
<1>2. CASE Disconnect(p)
  <2>1. /\ DOMAIN matches' = DOMAIN matches
        /\ \A i \in DOMAIN matches : matches'[i] = CleanUp(matches[i], p)
    BY <1>2 DEF Disconnect
  <2>2. \A i \in DOMAIN matches : matches[i] \in Matches /\ Sound(matches[i])
    BY DEF TypeOK, AllSound
  <2>3. \A i \in DOMAIN matches : Keeps(matches[i], matches'[i])
    BY <2>1, <2>2, CleanUpKeeps
  <2> QED BY <2>1, <2>3 DEF Admits, Keeps
<1> QED BY <1>1, <1>2 DEF Session, Connect, MarkDisconnected

\* Every step lets in at most one player, into at most one match.
LEMMA TimelyStepAdmits ==
  ASSUME TypeOK, AllSound, [TimelyNext]_vars
  PROVE  \E p, id : Admits(p, id)
<1>1. CASE UNCHANGED matches
  BY <1>1, StutterAdmits
<1> QED BY <1>1, RequestAdmits, TimelyAnswerAdmits, SessionAdmits
        DEF TimelyNext, vars, RefuseConnection

-----------------------------------------------------------------------------
(* Nobody is waited for who is not there.                                  *)

\* Who is let in is the client whose request is being served.
LEMMA RequestNoGhost ==
  ASSUME NoGhost, NEW p \in Players, Serving(p), UNCHANGED leaving,
         \A q \in Players : Connected(q) => Connected(q)',
         NEW id, Admits(p, id)
  PROVE  NoGhost'
<1>1. \A q \in Players : Serving(q) => Serving(q)'
  BY DEF Serving
<1> QED BY <1>1 DEF NoGhost, Admits

LEMMA SessionNoGhost ==
  ASSUME TypeOK, AllSound, NoGhost, NEW p \in Players, Session(p)
  PROVE  NoGhost'
<1>1. CASE Connect(p)
  <2>1. \A q \in Players : Serving(q) => Serving(q)'
    BY <1>1 DEF Connect, Serving, Connected, TypeOK
  <2> QED BY <1>1, <2>1 DEF NoGhost, Connect
<1>2. CASE Disconnect(p)
  <2>1. /\ DOMAIN matches' = DOMAIN matches
        /\ \A i \in DOMAIN matches : matches'[i] = CleanUp(matches[i], p)
    BY <1>2 DEF Disconnect
  <2>2. \A i \in DOMAIN matches : matches[i] \in Matches /\ Sound(matches[i])
    BY DEF TypeOK, AllSound
  <2>3. \A i \in DOMAIN matches : Keeps(matches[i], matches'[i]) /\ ~Engages(matches'[i], p)
    BY <2>1, <2>2, CleanUpKeeps
  <2>4. \A q \in Players \ {p} : Serving(q) => Serving(q)'
    BY <1>2 DEF Disconnect, Serving, Connected
  <2> QED BY <2>1, <2>3, <2>4 DEF NoGhost, Keeps
<1>3. CASE MarkDisconnected(p)
  <2>1. \A q \in Players : Serving(q) => Serving(q)'
    BY <1>3 DEF MarkDisconnected, Serving, Connected, TypeOK
  <2> QED BY <1>3, <2>1 DEF NoGhost, MarkDisconnected
<1> QED BY <1>1, <1>2, <1>3 DEF Session

LEMMA TimelyStepNoGhost ==
  ASSUME TypeOK, AllSound, NoGhost, [TimelyNext]_vars
  PROVE  NoGhost'
<1>1. CASE UNCHANGED vars \/ RefuseConnection
  BY <1>1 DEF vars, RefuseConnection, NoGhost, Serving, Connected
<1>2. ASSUME NEW p \in Players, Request(p) PROVE NoGhost'
  <2>1. Serving(p) /\ UNCHANGED leaving
    BY <1>2 DEF Request, Register, UnknownAction, CreateMatch, ListMatches, JoinMatch,
                Move, Rematch, QuitMatch
  <2>2. \A q \in Players : Connected(q) => Connected(q)'
    BY <1>2 DEF Request, Register, UnknownAction, CreateMatch, ListMatches, JoinMatch,
                Move, Rematch, QuitMatch, Connected, TypeOK
  <2> QED BY <1>2, <2>1, <2>2, RequestAdmits, RequestNoGhost
<1>3. ASSUME NEW p \in Players, NEW id \in MatchIds, Timely(id), Answer(p, id)
      PROVE  NoGhost'
  <2>1. Serving(p) /\ UNCHANGED <<player_state, leaving>>
    BY <1>3 DEF Answer, AcceptJoin, RejectJoin, CancelJoin
  <2>2. \A q \in Players : Connected(q) => Connected(q)'
    BY <2>1 DEF Connected
  <2> QED BY <1>3, <2>1, <2>2, TimelyAnswerAdmits, RequestNoGhost
<1> QED BY <1>1, <1>2, <1>3, SessionNoGhost DEF TimelyNext

-----------------------------------------------------------------------------
(* The theorems.                                                           *)

LEMMA TimelyIsSpec == TimelySpec => Spec
<1>1. [TimelyNext]_vars => [Next]_vars
  BY DEF TimelyNext, Next
<1> QED BY <1>1, PTL DEF TimelySpec, Spec

\* With timely answers nobody is engaged in two matches at a time: the promise
\* of is_player_busy, for every number of players and matches.
THEOREM OnePlace == TimelySpec => []OnePlaceAtATime
<1>1. Init => OnePlaceAtATime
  BY DEF Init, OnePlaceAtATime
<1>2. TypeOK /\ AllSound /\ OnePlaceAtATime /\ [TimelyNext]_vars => OnePlaceAtATime'
  <2> SUFFICES ASSUME TypeOK, AllSound, OnePlaceAtATime, [TimelyNext]_vars
               PROVE  OnePlaceAtATime'
    OBVIOUS
  <2>1. PICK p, id : Admits(p, id)
    BY TimelyStepAdmits
  <2> QED BY <2>1 DEF Admits, OnePlaceAtATime, is_player_busy
<1> QED BY <1>1, <1>2, TimelyIsSpec, TypeCorrect, SoundInvariant, PTL DEF TimelySpec

\* With timely answers, once a connection is cleaned up no open or running
\* match waits for its client, for every number of players and matches.
THEOREM NoGhosts == TimelySpec => []NoGhost
<1>1. Init => NoGhost
  BY DEF Init, NoGhost
<1>2. TypeOK /\ AllSound /\ NoGhost /\ [TimelyNext]_vars => NoGhost'
  BY TimelyStepNoGhost
<1> QED BY <1>1, <1>2, TimelyIsSpec, TypeCorrect, SoundInvariant, PTL DEF TimelySpec
=============================================================================
