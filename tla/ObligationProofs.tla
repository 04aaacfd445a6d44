-------------------------- MODULE ObligationProofs --------------------------
(***************************************************************************)
(* What a step of the server owes to its clients, for every number of      *)
(* players and matches and every size of board and queue: the obligations  *)
(* of module ServerProperties that TLC checks on small instances.          *)
(*                                                                         *)
(* The argument: StepEffect says what a step may do to one match and what  *)
(* it then sends, one formula for each way a handler may end (AskFirst,    *)
(* Queue, Accept, ..., Clean); the field lemmas say what each leaves in    *)
(* the match, the telling lemmas whom each tells.  An obligation is then   *)
(* met way by way; that the match was sound before the step (ServerProofs, *)
(* Sound) rules out the ways that would leave somebody without an answer.  *)
(* The clean-up of a connection sends the messages of every match at once: *)
(* FlattenHolds finds those of one match in the list of all.               *)
(***************************************************************************)
EXTENDS ServerProofs

-----------------------------------------------------------------------------
(* The list of lists.                                                      *)

\* f[i] is what the first i lists of s hold, for every i up to n.
Gathers(f, s, n) ==
  f = [i \in 1 .. n |-> IF i = 1 THEN s[i] ELSE f[i - 1] \o s[i]]

LEMMA GathersAt ==
  ASSUME NEW f, NEW s, NEW n, Gathers(f, s, n), NEW i \in 1 .. n
  PROVE  f[i] = IF i = 1 THEN s[i] ELSE f[i - 1] \o s[i]
<1> DEFINE g == [j \in 1 .. n |-> IF j = 1 THEN s[j] ELSE f[j - 1] \o s[j]]
<1>1. g[i] = IF i = 1 THEN s[i] ELSE f[i - 1] \o s[i]
  OBVIOUS
<1>2. f = g
  BY DEF Gathers
<1> HIDE DEF g
<1> QED BY <1>1, <1>2

LEMMA GatheringExists ==
  ASSUME NEW s, NEW n \in Nat \ {0}
  PROVE  \E f : Gathers(f, s, n)
<1> DEFINE T == {j \in 1 .. n : ~ \E f : Gathers(f, s, j)}
<1>1. SUFFICES ASSUME T # {} PROVE FALSE
  <2>1. n \in 1 .. n
    OBVIOUS
  <2> QED BY <2>1
<1>2. PICK t \in T : \A u \in T : t <= u
  <2>1. T \in SUBSET Nat
    OBVIOUS
  <2> HIDE DEF T
  <2> QED BY <1>1, <2>1, LeastExists
<1>3. t \in 1 .. n /\ ~ \E f : Gathers(f, s, t)
  BY <1>2
<1>4. CASE t = 1
  <2> DEFINE g == [i \in 1 .. 1 |-> s[i]]
  <2>1. g = [i \in 1 .. 1 |-> IF i = 1 THEN s[i] ELSE g[i - 1] \o s[i]]
    OBVIOUS
  <2>2. Gathers(g, s, 1)
    BY <2>1 DEF Gathers
  <2> QED BY <1>3, <1>4, <2>2
<1>5. CASE t # 1
  <2>1. t - 1 \in 1 .. n /\ t - 1 \notin T
    BY <1>2, <1>3, <1>5
  <2>2. PICK f : Gathers(f, s, t - 1)
    BY <2>1
  <2> DEFINE g == [i \in 1 .. t |-> IF i = 1 THEN s[i] ELSE f[i - 1] \o s[i]]
  <2>3. ASSUME NEW i \in 1 .. t - 1 PROVE f[i] = g[i]
    <3>1. f[i] = IF i = 1 THEN s[i] ELSE f[i - 1] \o s[i]
      BY <2>2, GathersAt
    <3>2. i \in 1 .. t
      BY <1>3
    <3> QED BY <3>1, <3>2
  <2>4. \A i \in 1 .. t : i # 1 => i - 1 \in 1 .. t - 1
    BY <1>3
  <2>5. g = [i \in 1 .. t |-> IF i = 1 THEN s[i] ELSE g[i - 1] \o s[i]]
    <3>1. \A i \in 1 .. t : i # 1 => f[i - 1] = g[i - 1]
      BY <2>3, <2>4
    <3> DEFINE h == [i \in 1 .. t |-> IF i = 1 THEN s[i] ELSE g[i - 1] \o s[i]]
    <3>2. \A i \in 1 .. t : g[i] = IF i = 1 THEN s[i] ELSE f[i - 1] \o s[i]
      OBVIOUS
    <3>3. \A i \in 1 .. t : h[i] = IF i = 1 THEN s[i] ELSE g[i - 1] \o s[i]
      OBVIOUS
    <3>4. DOMAIN g = 1 .. t /\ DOMAIN h = 1 .. t
      OBVIOUS
    <3>5. g = [i \in 1 .. t |-> g[i]] /\ h = [i \in 1 .. t |-> h[i]]
      OBVIOUS
    <3>6. \A i \in 1 .. t : g[i] = h[i]
      <4> HIDE DEF g, h
      <4> QED BY <3>1, <3>2, <3>3
    <3>7. g = h
      <4> HIDE DEF g, h
      <4> QED BY <3>5, <3>6
    <3> QED BY <3>7
  <2>6. Gathers(g, s, t)
    <3> HIDE DEF g
    <3> QED BY <2>5 DEF Gathers
  <2> QED BY <1>3, <2>6
<1> QED BY <1>4, <1>5

LEMMA FlattenGathers ==
  ASSUME NEW s, Len(s) \in Nat \ {0}
  PROVE  \E f : Gathers(f, s, Len(s)) /\ FlattenSeq(s) = f[Len(s)]
<1> DEFINE f == CHOOSE f : Gathers(f, s, Len(s))
<1>1. Gathers(f, s, Len(s))
  BY GatheringExists
<1>2. FlattenSeq(s) = f[Len(s)]
  BY DEF FlattenSeq, Gathers
<1> HIDE DEF f
<1> QED BY <1>1, <1>2

\* Whatever one of the lists holds is in FlattenSeq.
LEMMA FlattenHolds ==
  ASSUME NEW S, NEW s \in Seq(Seq(S)), NEW i \in DOMAIN s, NEW k \in DOMAIN s[i]
  PROVE  \E l \in DOMAIN FlattenSeq(s) : FlattenSeq(s)[l] = s[i][k]
<1> DEFINE n == Len(s)
<1>1. n \in Nat /\ i \in 1 .. n /\ n # 0 /\ \A j \in 1 .. n : s[j] \in Seq(S)
  OBVIOUS
<1>2. PICK f : Gathers(f, s, n) /\ FlattenSeq(s) = f[n]
  BY <1>1, FlattenGathers
<1> HIDE DEF n
<1>3. /\ f[1] = s[1]
      /\ \A j \in 1 .. n : j # 1 => f[j] = f[j - 1] \o s[j]
  <2>1. \A j \in 1 .. n : f[j] = IF j = 1 THEN s[j] ELSE f[j - 1] \o s[j]
    BY <1>2, GathersAt
  <2>2. 1 \in 1 .. n
    BY <1>1
  <2> QED BY <2>1, <2>2
<1>4. \A j \in 1 .. n : f[j] \in Seq(S)
  <2> DEFINE T == {j \in 1 .. n : f[j] \notin Seq(S)}
  <2>1. SUFFICES ASSUME T # {} PROVE FALSE
    OBVIOUS
  <2>2. PICK t \in T : \A u \in T : t <= u
    <3>1. T \in SUBSET Nat
      BY <1>1
    <3> HIDE DEF T
    <3> QED BY <2>1, <3>1, LeastExists
  <2>3. t \in 1 .. n /\ t # 1
    BY <1>1, <1>3, <2>2
  <2>4. t - 1 \in 1 .. n /\ ~(t <= t - 1)
    BY <1>1, <2>3
  <2> DEFINE a == f[t - 1]
             b == s[t]
  <2>5. a \in Seq(S) /\ b \in Seq(S) /\ f[t] = a \o b
    BY <1>1, <1>3, <2>2, <2>3, <2>4
  <2>6. f[t] \notin Seq(S)
    BY <2>2
  <2> HIDE DEF a, b, T
  <2>7. a \o b \in Seq(S)
    BY <2>5, ConcatProperties
  <2> QED BY <2>5, <2>6, <2>7
<1>5. \A j \in i .. n : \E l \in DOMAIN f[j] : f[j][l] = s[i][k]
  <2> DEFINE P(j) == \E l \in DOMAIN f[j] : f[j][l] = s[i][k]
             T == {j \in i .. n : ~P(j)}
  <2>1. SUFFICES ASSUME T # {} PROVE FALSE
    OBVIOUS
  <2>2. PICK t \in T : \A u \in T : t <= u
    <3>1. T \in SUBSET Nat
      BY <1>1
    <3> HIDE DEF T
    <3> QED BY <2>1, <3>1, LeastExists
  <2>3. t \in i .. n /\ t \in 1 .. n /\ ~P(t)
    BY <1>1, <2>2
  <2>4. CASE t = i
    <3>1. CASE i = 1
      BY <1>3, <2>3, <2>4, <3>1
    <3>2. CASE i # 1
      <4>1. i - 1 \in 1 .. n /\ f[i] = f[i - 1] \o s[i]
        <5>1. i \in Nat /\ i # 0 /\ i <= n
          BY <1>1
        <5>2. i - 1 \in 1 .. n
          BY <1>1, <3>2, <5>1
        <5> QED BY <1>1, <1>3, <3>2, <5>2
      <4> DEFINE a == f[i - 1]
                 b == s[i]
      <4>2. a \in Seq(S) /\ b \in Seq(S) /\ k \in 1 .. Len(b)
        BY <1>1, <1>4, <4>1
      <4>3. f[i] = a \o b
        BY <4>1
      <4> HIDE DEF a, b
      <4>4. Len(a) + k \in DOMAIN (a \o b) /\ (a \o b)[Len(a) + k] = b[k]
        BY <4>2, ConcatProperties
      <4> QED BY <2>3, <2>4, <4>3, <4>4 DEF b
    <3> QED BY <3>1, <3>2
  <2>5. CASE t # i
    <3>1. t - 1 \in i .. n /\ t - 1 \in 1 .. n /\ t # 1
      BY <1>1, <2>3, <2>5
    <3>2. P(t - 1)
      <4>1. ~(t <= t - 1)
        BY <2>3
      <4> QED BY <2>2, <3>1, <4>1
    <3> DEFINE a == f[t - 1]
               b == s[t]
    <3>3. a \in Seq(S) /\ b \in Seq(S) /\ f[t] = a \o b
      BY <1>1, <1>3, <1>4, <2>3, <3>1
    <3>4. PICK l \in DOMAIN a : a[l] = s[i][k]
      BY <3>2
    <3> HIDE DEF a, b, P, T
    <3>5. l \in DOMAIN (a \o b) /\ (a \o b)[l] = a[l]
      BY <3>3, <3>4, ConcatProperties
    <3> QED BY <2>3, <3>3, <3>4, <3>5 DEF P
  <2> QED BY <2>4, <2>5
<1>6. n \in i .. n
  BY <1>1
<1> QED BY <1>2, <1>5, <1>6

-----------------------------------------------------------------------------
(* What an outbox tells.                                                   *)

Actions ==
  {"match_started", "match_unavailable", "match_closed", "opponent_left", "move", "rematch",
   "join_match", "join_request", "join_request_obsolete", "join_request_promoted",
   "join_request_rejected", "accept_join", "reject_join", "cancel_join"}

Words == {"ok", "win", "draw", "pending", "queued", "all", "closed", "started", "left",
          "disconnect"}

Details == Words \cup Players \cup {NoPlayer}

Messages ==
  [type   : {"RESPONSE", "NOTIFICATION"},
   action : Actions,
   match  : Nat,
   detail : Details]

Outboxes == [Players -> Seq(Messages)]

\* q finds in o a message about match id with one of these actions.
Tells(o, q, actions, id) ==
  \E k \in DOMAIN o[q] : o[q][k].action \in actions /\ o[q][k].match = id

LEMMA MessageType ==
  ASSUME NEW action \in Actions, NEW id \in Nat,
         NEW detail \in Details
  PROVE  Notification(action, id, detail) \in Messages /\ Response(action, id, detail) \in Messages
BY DEF Notification, Response, Messages

LEMMA SendType ==
  ASSUME NEW msg \in Messages, NEW recipients
  PROVE  Send(recipients, msg) \in Outboxes
<1>1. <<msg>> \in Seq(Messages) /\ << >> \in Seq(Messages)
  OBVIOUS
<1> QED BY <1>1 DEF Send, Outboxes

LEMMA NotifyType ==
  ASSUME NEW recipients, NEW action \in Actions, NEW id \in Nat, NEW detail \in Details
  PROVE  /\ Send(recipients, Notification(action, id, detail)) \in Outboxes
         /\ Send(recipients, Response(action, id, detail)) \in Outboxes
BY MessageType, SendType

LEMMA SilenceType == Silence \in Outboxes
<1>1. << >> \in Seq(Messages)
  OBVIOUS
<1> QED BY <1>1 DEF Silence, Outboxes

LEMMA BothType ==
  ASSUME NEW a \in Outboxes, NEW b \in Outboxes
  PROVE  a ++ b \in Outboxes
<1>1. ASSUME NEW q \in Players PROVE a[q] \o b[q] \in Seq(Messages)
  BY ConcatProperties DEF Outboxes
<1> QED BY <1>1 DEF ++, Outboxes

\* A message that is sent reaches everybody it is sent to who is there.
LEMMA SendTells ==
  ASSUME NEW recipients, NEW q \in Players, q \in recipients, Connected(q),
         NEW actions, NEW id, NEW msg, msg.action \in actions, msg.match = id
  PROVE  Tells(Send(recipients, msg), q, actions, id)
<1>1. Send(recipients, msg)[q] = <<msg>>
  BY DEF Send
<1>2. 1 \in DOMAIN <<msg>> /\ <<msg>>[1] = msg
  OBVIOUS
<1> QED BY <1>1, <1>2 DEF Tells

\* Sending more takes nothing back.
LEMMA BothTell ==
  ASSUME NEW a \in Outboxes, NEW b \in Outboxes, NEW q \in Players, NEW actions, NEW id
  PROVE  Tells(a, q, actions, id) \/ Tells(b, q, actions, id) => Tells(a ++ b, q, actions, id)
<1> DEFINE s == a[q]
           t == b[q]
<1>1. s \in Seq(Messages) /\ t \in Seq(Messages) /\ (a ++ b)[q] = s \o t
  BY DEF Outboxes, ++
<1> HIDE DEF s, t
<1>2. ASSUME NEW k \in DOMAIN s PROVE k \in DOMAIN (s \o t) /\ (s \o t)[k] = s[k]
  BY <1>1, ConcatProperties
<1>3. ASSUME NEW k \in DOMAIN t
      PROVE  Len(s) + k \in DOMAIN (s \o t) /\ (s \o t)[Len(s) + k] = t[k]
  BY <1>1, ConcatProperties
<1> QED BY <1>1, <1>2, <1>3 DEF Tells, s, t

LEMMA NotificationFields ==
  ASSUME NEW action, NEW id, NEW detail
  PROVE  /\ Notification(action, id, detail).action = action
         /\ Notification(action, id, detail).match = id
         /\ Response(action, id, detail).action = action
         /\ Response(action, id, detail).match = id
BY DEF Notification, Response

LEMMA NotifyTells ==
  ASSUME NEW recipients, NEW q \in Players, q \in recipients, Connected(q),
         NEW action, NEW actions, action \in actions, NEW id, NEW detail
  PROVE  /\ Tells(Send(recipients, Notification(action, id, detail)), q, actions, id)
         /\ Tells(Send(recipients, Response(action, id, detail)), q, actions, id)
BY SendTells, NotificationFields

-----------------------------------------------------------------------------
(* The announcements of module Server.                                     *)

LEMMA AnnouncementTypes ==
  ASSUME NEW m \in Matches, NEW id \in Nat, NEW p, NEW q
  PROVE  /\ Ask(m, id) \in Outboxes
         /\ Started(m, id) \in Outboxes
         /\ Closed(m, id) \in Outboxes
         /\ Unavailable(id, p, q) \in Outboxes
         /\ AnnouncePromotion(m, id) \in Outboxes
<1>1. /\ m.pending_requester_id \in Players \cup {NoPlayer}
      /\ m.player1_id \in Players \cup {NoPlayer}
      /\ m.player2_id \in Players \cup {NoPlayer}
  BY DEF Matches
<1>2. Ask(m, id) \in Outboxes
  BY <1>1, NotifyType DEF Ask, Actions, Words, Details
<1>3. Started(m, id) \in Outboxes
  <2>1. Send({m.player1_id}, Notification("match_started", id, m.player2_id)) \in Outboxes
    BY <1>1, NotifyType DEF Actions, Words, Details
  <2>2. Send({m.player2_id}, Notification("match_started", id, m.player1_id)) \in Outboxes
    BY <1>1, NotifyType DEF Actions, Words, Details
  <2> QED BY <2>1, <2>2, BothType DEF Started
<1>4. Closed(m, id) \in Outboxes
  BY NotifyType DEF Closed, Actions, Words, Details
<1>5. Unavailable(id, p, q) \in Outboxes
  BY NotifyType DEF Unavailable, Actions, Words, Details
<1>6. AnnouncePromotion(m, id) \in Outboxes
  <2>1. Send({m.pending_requester_id}, Notification("join_request_promoted", id, "pending"))
          \in Outboxes
    BY NotifyType DEF Actions, Words, Details
  <2> QED BY <1>2, <2>1, BothType, SilenceType DEF AnnouncePromotion
<1> QED BY <1>2, <1>3, <1>4, <1>5, <1>6

LEMMA LeftMessagesType ==
  ASSUME NEW m \in Matches, NEW id \in Nat, NEW p, NEW reason \in {"left", "disconnect"}
  PROVE  LeftMessages(m, p, id, reason) \in Outboxes
<1> DEFINE o == get_opponent_id(m, p)
<1>1. Send({o}, Notification("opponent_left", id, reason)) \in Outboxes
  BY NotifyType DEF Actions, Words, Details
<1>2. Send({o}, Notification("match_closed", id, "closed")) \in Outboxes
  BY NotifyType DEF Actions, Words, Details
<1>3. Unavailable(id, p, o) \in Outboxes /\ Closed(m, id) \in Outboxes
  BY AnnouncementTypes
<1> HIDE DEF o
<1>4. Send({o}, Notification("opponent_left", id, reason)) ++ Unavailable(id, p, o) \in Outboxes
  BY <1>1, <1>3, BothType
<1> QED BY <1>2, <1>3, <1>4, SilenceType DEF LeftMessages, o

LEMMA CleanUpMessagesType ==
  ASSUME NEW m \in Matches, NEW id \in Nat, NEW p \in Players
  PROVE  CleanUpMessages(m, p, id) \in Outboxes
<1>1. PromoteNext(m) \in Matches
  BY RequestType
<1>2. AnnouncePromotion(PromoteNext(m), id) \in Outboxes
  BY <1>1, AnnouncementTypes
<1>3. LeftMessages(m, p, id, "disconnect") \in Outboxes /\ Closed(m, id) \in Outboxes
  BY LeftMessagesType, AnnouncementTypes
<1> QED BY <1>2, <1>3, SilenceType DEF CleanUpMessages

\* The clean-up of a connection sends what each match calls for.
LEMMA CleanUpTells ==
  ASSUME TypeOK, NEW p \in Players, Disconnect(p), NEW id \in DOMAIN matches,
         NEW q \in Players, NEW actions,
         Tells(CleanUpMessages(matches[id], p, id), q, actions, id)
  PROVE  Tells(out', q, actions, id)
<1> DEFINE s == [i \in DOMAIN matches |-> CleanUpMessages(matches[i], p, i)[q]]
<1>1. matches \in Seq(Matches) /\ DOMAIN matches = 1 .. Len(matches) /\ Len(matches) \in Nat
  BY DEF TypeOK
<1>2. \A i \in 1 .. Len(matches) : CleanUpMessages(matches[i], p, i)[q] \in Seq(Messages)
  <2> SUFFICES ASSUME NEW i \in 1 .. Len(matches)
               PROVE  CleanUpMessages(matches[i], p, i)[q] \in Seq(Messages)
    OBVIOUS
  <2>1. matches[i] \in Matches /\ i \in Nat
    BY <1>1
  <2>2. CleanUpMessages(matches[i], p, i) \in Outboxes
    BY <2>1, CleanUpMessagesType
  <2> QED BY <2>2 DEF Outboxes
<1>3. s \in Seq(Seq(Messages))
  BY <1>1, <1>2, IsASeq
<1>4. id \in DOMAIN s /\ s[id] = CleanUpMessages(matches[id], p, id)[q]
  OBVIOUS
<1>5. out'[q] = FlattenSeq(s)
  BY DEF Disconnect
<1>6. PICK k \in DOMAIN s[id] : s[id][k].action \in actions /\ s[id][k].match = id
  BY <1>4 DEF Tells
<1> HIDE DEF s
<1>7. PICK l \in DOMAIN FlattenSeq(s) : FlattenSeq(s)[l] = s[id][k]
  BY <1>3, <1>4, <1>6, FlattenHolds
<1> QED BY <1>5, <1>6, <1>7 DEF Tells

-----------------------------------------------------------------------------
(* What a step does to one match, and what it sends: one formula for each  *)
(* way a handler may end.                                                  *)

\* Nothing the properties look at.
Keep(id) ==
  /\ \/ matches'[id] = matches[id]
     \/ matches'[id] = [matches[id] EXCEPT !.withdrawn_requester_id = NoPlayer]
  /\ leaving' \subseteq leaving

AskFirst(p, id) ==
  /\ MayAsk(matches[id], p) /\ matches[id].pending_requester_id = NoPlayer
  /\ matches'[id] = AskedFirst(matches[id], p)
  /\ out' = Send({p}, Response("join_match", id, "pending")) ++ Ask(matches'[id], id)

Queue(p, id) ==
  /\ MayAsk(matches[id], p) /\ matches[id].pending_requester_id # NoPlayer
  /\ matches'[id] = enqueue_join_request(matches[id], p)

Accept(p, id) ==
  LET m == matches[id]
  IN  /\ m.pending_requester_id # NoPlayer
      /\ matches'[id] = [Seated(m) EXCEPT !.join_queue = << >>]
      /\ out' = Send({p}, Response("accept_join", id, "ok"))
                  ++ Send({m.player1_id},
                          Notification("match_started", id, m.pending_requester_id))
                  ++ Send({m.pending_requester_id},
                          Notification("match_started", id, m.player1_id))
                  ++ Send(ToSet(m.join_queue),
                          Notification("join_request_obsolete", id, "started"))
                  ++ Unavailable(id, m.player1_id, m.pending_requester_id)

Refuse(p, id) ==
  /\ matches[id].pending_requester_id # NoPlayer
  /\ matches'[id] = Refused(matches[id])
  /\ out' = Send({p}, Response("reject_join", id, "ok"))
              ++ Send({matches[id].pending_requester_id},
                      Notification("join_request_rejected", id, p))
              ++ AnnouncePromotion(matches'[id], id)

Withdraw(p, id) ==
  /\ matches[id].pending_requester_id = p
  /\ matches'[id] = Withdrawn(matches[id], p)
  /\ out' = AnnouncePromotion(matches'[id], id) ++ Send({p}, Response("cancel_join", id, "ok"))

LeaveQueue(p, id) ==
  /\ matches[id].pending_requester_id # p
  /\ matches'[id] = remove_from_join_queue(matches[id], p)
  /\ out' = Send({p}, Response("cancel_join", id, "ok"))

Drop(p, id, column) ==
  LET m      == matches[id]
      result == MoveResult(m, p, column)
      seats  == {m.player1_id, m.player2_id}
  IN  /\ result \in Accepted
      /\ matches'[id] = Played(m, p, column)
      /\ out' = (IF result = "ok" THEN Silence ELSE Unavailable(id, m.player1_id, m.player2_id))
                  ++ Send(seats, Notification("move", id, result))

TakeOver(p, id) ==
  /\ matches[id].state = "FINISHED" /\ matches[id].winner_id = p
  /\ matches'[id] = open_new_session_as_owner(matches[id], p)

Replay(p, id) ==
  /\ MayRematch(p, id) /\ matches[id].winner_id = NoPlayer
  /\ BothVoted(Voted(matches[id], p))
  /\ matches'[id] = reset_match_for_rematch(matches[id])
  /\ out' = Send({p}, Response("rematch", id, "ok")) ++ Started(matches'[id], id)

Vote(p, id) ==
  /\ matches[id].state = "FINISHED"
  /\ matches'[id] = Voted(matches[id], p)

Quit(p, id) ==
  /\ is_player_in_match(matches[id], p)
  /\ matches'[id] = Left(matches[id], p)
  /\ out' = LeftMessages(matches[id], p, id, "left")

RequestDone(p, id) ==
  \/ AskFirst(p, id) \/ Queue(p, id) \/ TakeOver(p, id) \/ Replay(p, id) \/ Vote(p, id)
  \/ Quit(p, id)
  \/ \E column \in Columns : Drop(p, id, column)

AnswerDone(p, id) == Accept(p, id) \/ Refuse(p, id) \/ Withdraw(p, id) \/ LeaveQueue(p, id)

Clean(p, id) ==
  /\ matches'[id] = CleanUp(matches[id], p)
  /\ leaving' = leaving \cup {p}
  /\ \A q \in Players : \A actions :
       Tells(CleanUpMessages(matches[id], p, id), q, actions, id) => Tells(out', q, actions, id)

LEMMA RequestEffect ==
  ASSUME TypeOK, NEW p \in Players, Request(p), NEW id \in DOMAIN matches
  PROVE  Serving(p) /\ leaving' = leaving /\ (Keep(id) \/ RequestDone(p, id))
<1>0. /\ matches \in Seq(Matches)
  BY DEF TypeOK
<1>1. CASE Register(p) \/ UnknownAction(p) \/ ListMatches(p)
  BY <1>1 DEF Register, UnknownAction, ListMatches, Keep
<1>2. CASE CreateMatch(p)
  <2>1. matches'[id] = matches[id]
    BY <1>0, <1>2 DEF CreateMatch, Fails
  <2> QED BY <1>2, <2>1 DEF CreateMatch, Keep
<1>3. ASSUME NEW i \in MatchIds, JoinMatch(p, i)
      PROVE  Serving(p) /\ leaving' = leaving /\ (Keep(id) \/ RequestDone(p, id))
  BY <1>0, <1>3 DEF JoinMatch, Fails, Found, Keep, RequestDone, AskFirst, Queue
<1>4. ASSUME NEW i \in MatchIds, NEW column \in Columns, Move(p, i, column)
      PROVE  Serving(p) /\ leaving' = leaving /\ (Keep(id) \/ RequestDone(p, id))
  BY <1>0, <1>4 DEF Move, Fails, Found, Keep, RequestDone, Drop
<1>5. ASSUME NEW i \in MatchIds, Rematch(p, i)
      PROVE  Serving(p) /\ leaving' = leaving /\ (Keep(id) \/ RequestDone(p, id))
  BY <1>0, <1>5 DEF Rematch, Fails, MayRematch, Found, Keep, RequestDone, TakeOver, Replay, Vote
<1>6. ASSUME NEW i \in MatchIds, QuitMatch(p, i)
      PROVE  Serving(p) /\ leaving' = leaving /\ (Keep(id) \/ RequestDone(p, id))
  BY <1>0, <1>6 DEF QuitMatch, Found, Keep, RequestDone, Quit
<1> QED BY <1>1, <1>2, <1>3, <1>4, <1>5, <1>6 DEF Request

LEMMA DecisionEffect ==
  ASSUME TypeOK, NEW p \in Players, NEW i \in MatchIds, AcceptJoin(p, i) \/ RejectJoin(p, i),
         NEW id \in DOMAIN matches
  PROVE  Serving(p) /\ leaving' = leaving /\ (Keep(id) \/ Accept(p, id) \/ Refuse(p, id))
<1>0. /\ matches \in Seq(Matches)
  BY DEF TypeOK
<1>1. ASSUME NEW action, NothingToDecide(p, action, i), leaving' = leaving PROVE Keep(id)
  BY <1>0, <1>1 DEF NothingToDecide, Fails, Found, Keep
<1>2. CASE AcceptJoin(p, i)
  BY <1>0, <1>1, <1>2 DEF AcceptJoin, HasRequestFor, Found, Keep, Accept
<1>3. CASE RejectJoin(p, i)
  BY <1>0, <1>1, <1>3 DEF RejectJoin, HasRequestFor, Found, Keep, Refuse
<1> QED BY <1>2, <1>3

LEMMA WithdrawalEffect ==
  ASSUME TypeOK, NEW p \in Players, NEW i \in MatchIds, CancelJoin(p, i), NEW id \in DOMAIN matches
  PROVE  Serving(p) /\ leaving' = leaving /\ (Keep(id) \/ Withdraw(p, id) \/ LeaveQueue(p, id))
<1>1. matches \in Seq(Matches)
  BY DEF TypeOK
<1> QED BY <1>1 DEF CancelJoin, Found, Keep, Withdraw, LeaveQueue

LEMMA AnswerEffect ==
  ASSUME TypeOK, NEW p \in Players, NEW i \in MatchIds, Answer(p, i), NEW id \in DOMAIN matches
  PROVE  Serving(p) /\ leaving' = leaving /\ (Keep(id) \/ AnswerDone(p, id))
BY DecisionEffect, WithdrawalEffect DEF Answer, AnswerDone

LEMMA SessionEffect ==
  ASSUME TypeOK, NEW p \in Players, Session(p), NEW id \in DOMAIN matches
  PROVE  Keep(id) \/ (Serving(p) /\ Clean(p, id))
<1>1. CASE Connect(p) \/ MarkDisconnected(p)
  BY <1>1 DEF Connect, MarkDisconnected, Keep
<1>2. CASE Disconnect(p)
  <2>1. \A q \in Players : \A actions :
          Tells(CleanUpMessages(matches[id], p, id), q, actions, id) => Tells(out', q, actions, id)
    BY <1>2, CleanUpTells
  <2> QED BY <1>2, <2>1 DEF Disconnect, Clean
<1> QED BY <1>1, <1>2 DEF Session

\* p opens a match.
Creates(p) == /\ Len(matches) < MAX_MATCHES
              /\ matches' = Append(matches, create_match(p))
              /\ UNCHANGED <<player_state, leaving>>

\* The table keeps its places, or a client who is there adds one.
LEMMA TableAfter ==
  ASSUME TypeOK, [Next]_vars
  PROVE  \/ DOMAIN matches' = DOMAIN matches
         \/ \E p \in Players : Serving(p) /\ Creates(p)
<1>1. /\ matches \in Seq(Matches) /\ DOMAIN matches = 1 .. Len(matches) /\ Len(matches) \in Nat
  BY DEF TypeOK
<1>2. CASE UNCHANGED vars \/ RefuseConnection
  BY <1>2 DEF vars, RefuseConnection
<1>3. ASSUME NEW p \in Players, Session(p) PROVE DOMAIN matches' = DOMAIN matches
  BY <1>1, <1>3 DEF Session, Connect, Disconnect, MarkDisconnected
<1>4. ASSUME NEW p \in Players, CreateMatch(p)
      PROVE  DOMAIN matches' = DOMAIN matches \/ (Serving(p) /\ Creates(p))
  BY <1>1, <1>4 DEF CreateMatch, Fails, Creates
<1>5. ASSUME NEW p \in Players, Request(p), ~CreateMatch(p)
      PROVE  DOMAIN matches' = DOMAIN matches
  BY <1>1, <1>5 DEF Request, Register, UnknownAction, ListMatches, JoinMatch, Move, Rematch,
                    QuitMatch, Fails
<1>6. ASSUME NEW p \in Players, NEW i \in MatchIds, Answer(p, i)
      PROVE  DOMAIN matches' = DOMAIN matches
  BY <1>1, <1>6 DEF Answer, AcceptJoin, RejectJoin, CancelJoin, NothingToDecide, Fails
<1> QED BY <1>2, <1>3, <1>4, <1>5, <1>6 DEF Next

\* A match stays in the table.
LEMMA TableGrows ==
  ASSUME TypeOK, TypeOK', [Next]_vars
  PROVE  DOMAIN matches \subseteq DOMAIN matches'
<1>1. matches \in Seq(Matches)
  BY DEF TypeOK
<1>2. ASSUME NEW p \in Players, Creates(p) PROVE DOMAIN matches \subseteq DOMAIN matches'
  BY <1>1, <1>2 DEF Creates
<1> QED BY <1>2, TableAfter

LEMMA MatchesStay ==
  ASSUME TypeOK, TypeOK', [Next]_vars, NEW id \in DOMAIN matches
  PROVE  matches'[id] \in Matches
<1>1. matches' \in Seq(Matches) /\ id \in DOMAIN matches'
  BY TableGrows DEF TypeOK
<1> QED BY <1>1

\* Every step does one of these to a match, on behalf of a client who is there.
LEMMA StepEffect ==
  ASSUME TypeOK, [Next]_vars, NEW id \in DOMAIN matches
  PROVE  \/ Keep(id)
         \/ \E p \in Players : /\ Serving(p)
                               /\ \/ Clean(p, id)
                                  \/ leaving' = leaving /\ (RequestDone(p, id) \/ AnswerDone(p, id))
<1>1. CASE UNCHANGED vars \/ RefuseConnection
  BY <1>1 DEF vars, RefuseConnection, Keep
<1>2. ASSUME NEW p \in Players, Session(p)
      PROVE  Keep(id) \/ (Serving(p) /\ Clean(p, id))
  BY <1>2, SessionEffect
<1>3. ASSUME NEW p \in Players, Request(p)
      PROVE  Serving(p) /\ leaving' = leaving /\ (Keep(id) \/ RequestDone(p, id))
  BY <1>3, RequestEffect
<1>4. ASSUME NEW p \in Players, NEW i \in MatchIds, Answer(p, i)
      PROVE  Serving(p) /\ leaving' = leaving /\ (Keep(id) \/ AnswerDone(p, id))
  BY <1>4, AnswerEffect
<1> QED BY <1>1, <1>2, <1>3, <1>4 DEF Next

-----------------------------------------------------------------------------
(* What each operation leaves in a match.                                  *)

\* n has the seats and the requests of m.
SameSeats(m, n) == /\ n.creator_id = m.creator_id
                   /\ n.player1_id = m.player1_id /\ n.player2_id = m.player2_id

SameRequests(m, n) == /\ n.pending_requester_id = m.pending_requester_id
                      /\ n.join_queue = m.join_queue

LEMMA KeptFields ==
  ASSUME TypeOK, NEW id \in DOMAIN matches, Keep(id)
  PROVE  /\ SameSeats(matches[id], matches'[id]) /\ SameRequests(matches[id], matches'[id])
         /\ matches'[id].state = matches[id].state
<1> DEFINE m == matches[id]
           n == [m EXCEPT !.withdrawn_requester_id = NoPlayer]
<1>1. m \in Matches
  BY DEF TypeOK
<1>2. SameSeats(m, n) /\ SameRequests(m, n) /\ n.state = m.state
  BY <1>1 DEF SameSeats, SameRequests, Matches
<1>3. matches'[id] = m \/ matches'[id] = n
  BY DEF Keep
<1> HIDE DEF m, n
<1>4. SameSeats(m, m) /\ SameRequests(m, m)
  BY DEF SameSeats, SameRequests
<1>5. /\ SameSeats(m, matches'[id]) /\ SameRequests(m, matches'[id])
      /\ matches'[id].state = m.state
  BY <1>2, <1>3, <1>4
<1> QED BY <1>5 DEF m

LEMMA RequestFields ==
  ASSUME NEW m \in Matches, NEW p
  PROVE  LET a == AskedFirst(m, p)
             e == enqueue_join_request(m, p)
         IN  /\ SameSeats(m, a) /\ a.state = "JOIN_PENDING"
             /\ a.pending_requester_id = p /\ a.join_queue = m.join_queue
             /\ SameSeats(m, e) /\ e.state = m.state
             /\ e.pending_requester_id = m.pending_requester_id
             /\ e.join_queue = Append(m.join_queue, p)
BY DEF AskedFirst, enqueue_join_request, SameSeats, Matches

LEMMA AcceptedFields ==
  ASSUME NEW m \in Matches, Sound(m), m.pending_requester_id # NoPlayer
  PROVE  LET n == [Seated(m) EXCEPT !.join_queue = << >>]
         IN  /\ n.state = "ACTIVE" /\ n.creator_id = m.creator_id
             /\ n.player1_id = m.player1_id /\ n.player2_id = m.pending_requester_id
             /\ n.pending_requester_id = NoPlayer /\ n.join_queue = << >>
             /\ m.player2_id = NoPlayer
<1> DEFINE c == [m EXCEPT !.pending_requester_id = NoPlayer]
           p == m.pending_requester_id
           s == Seated(m)
           n == [s EXCEPT !.join_queue = << >>]
<1>1. p \in Players /\ m.player2_id = NoPlayer
  BY DEF Matches, Sound, SeatsMatchState
<1>2. /\ c \in Matches /\ c.player2_id = NoPlayer /\ c.player1_id = m.player1_id
      /\ c.pending_requester_id = NoPlayer /\ c.creator_id = m.creator_id
  BY <1>1 DEF Matches
<1>3. s = [c EXCEPT !.player2_id = p, !.state = "ACTIVE"]
  BY <1>2 DEF Seated, add_player_to_match
<1> HIDE DEF c, s
<1>4. /\ s \in Matches /\ s.player2_id = p /\ s.player1_id = m.player1_id
      /\ s.pending_requester_id = NoPlayer /\ s.state = "ACTIVE"
      /\ s.creator_id = m.creator_id
  BY <1>1, <1>2, <1>3 DEF Matches, MatchStates
<1>5. /\ n.player2_id = p /\ n.player1_id = m.player1_id /\ n.creator_id = m.creator_id
      /\ n.pending_requester_id = NoPlayer /\ n.join_queue = << >> /\ n.state = "ACTIVE"
  BY <1>4 DEF Matches
<1> QED BY <1>1, <1>5 DEF s

LEMMA SeatedGame ==
  ASSUME NEW m \in Matches, Sound(m), m.pending_requester_id # NoPlayer
  PROVE  SameGame(m, [Seated(m) EXCEPT !.join_queue = << >>])
<1> DEFINE q == m.pending_requester_id
           n == [Seated(m) EXCEPT !.join_queue = << >>]
<1>1. m.player2_id = NoPlayer
  BY DEF Sound, SeatsMatchState
<1>2. Seated(m) = [m EXCEPT !.pending_requester_id = NoPlayer, !.player2_id = q,
                            !.state = "ACTIVE"]
  BY <1>1 DEF Seated, add_player_to_match, Matches
<1> HIDE DEF q
<1>3. SameGame(m, n)
  BY <1>2 DEF SameGame, Matches
<1> QED BY <1>3

\* n is m after the next request in line has been promoted.
Promotes(m, n) ==
  /\ SameSeats(m, n)
  /\ \/ /\ m.join_queue = << >> /\ n.join_queue = << >>
        /\ n.state = "WAITING_FOR_OPPONENT" /\ n.pending_requester_id = NoPlayer
     \/ /\ m.join_queue # << >> /\ n.join_queue = Tail(m.join_queue)
        /\ n.state = "JOIN_PENDING" /\ n.pending_requester_id = Head(m.join_queue)

LEMMA PromoteFields ==
  ASSUME NEW m \in Matches
  PROVE  Promotes(m, PromoteNext(m))
<1> DEFINE n == PromoteNext(m)
           q == m.join_queue
<1>1. q \in Seq(Players)
  BY DEF Matches
<1>2. CASE q = << >>
  BY <1>2 DEF PromoteNext, Promotes, SameSeats, Matches
<1>3. CASE q # << >>
  <2> DEFINE d == dequeue_join_request(m)
             h == Head(q)
  <2>0. Tail(q) \in Seq(Players)
    BY <1>1, <1>3
  <2>1. d \in Matches /\ d.join_queue = Tail(q) /\ SameSeats(m, d)
    BY <2>0 DEF dequeue_join_request, Matches, SameSeats
  <2>2. n = [d EXCEPT !.pending_requester_id = h, !.withdrawn_requester_id = NoPlayer,
                      !.state = "JOIN_PENDING"]
    BY <1>3 DEF PromoteNext
  <2> HIDE DEF d, n, h
  <2>3. /\ n.join_queue = Tail(q) /\ n.pending_requester_id = h /\ n.state = "JOIN_PENDING"
        /\ SameSeats(d, n)
    BY <2>1, <2>2 DEF Matches, SameSeats
  <2>4. Promotes(m, n)
    BY <1>3, <2>1, <2>3 DEF Promotes, SameSeats, h
  <2> QED BY <2>4 DEF n
<1> QED BY <1>2, <1>3

LEMMA DecisionFields ==
  ASSUME NEW m \in Matches, NEW p \in Players
  PROVE  /\ Promotes(m, Withdrawn(m, p))
         /\ m.pending_requester_id # NoPlayer => Promotes(m, Refused(m))
<1>1. Promotes(m, Withdrawn(m, p))
  <2> DEFINE w == [m EXCEPT !.withdrawn_requester_id = p]
  <2>1. w \in Matches /\ SameSeats(m, w) /\ SameRequests(m, w)
    BY DEF Matches, SameSeats, SameRequests
  <2> HIDE DEF w
  <2>2. Promotes(w, PromoteNext(w))
    BY <2>1, PromoteFields
  <2>3. Promotes(m, PromoteNext(w))
    BY <2>1, <2>2 DEF Promotes, SameSeats, SameRequests
  <2> QED BY <2>3 DEF Withdrawn, w
<1>2. ASSUME m.pending_requester_id # NoPlayer PROVE Promotes(m, Refused(m))
  <2> DEFINE w == add_rejected_player(m, m.pending_requester_id)
  <2>1. w \in Matches
    BY <1>2, RequestType DEF Matches
  <2>2. SameSeats(m, w) /\ SameRequests(m, w)
    BY DEF add_rejected_player, Matches, SameSeats, SameRequests
  <2> HIDE DEF w
  <2>3. Promotes(w, PromoteNext(w))
    BY <2>1, PromoteFields
  <2>4. Promotes(m, PromoteNext(w))
    BY <2>2, <2>3 DEF Promotes, SameSeats, SameRequests
  <2> QED BY <2>4 DEF Refused, w
<1> QED BY <1>1, <1>2

\* What is left of the queue when p leaves it: it without one place.
LEMMA RemovedFields ==
  ASSUME NEW m \in Matches, NEW p \in Players
  PROVE  LET n == remove_from_join_queue(m, p)
         IN  /\ SameSeats(m, n) /\ n.state = m.state
             /\ n.pending_requester_id = m.pending_requester_id
             /\ \/ n.join_queue = m.join_queue
                \/ \E k \in 1 .. Len(m.join_queue) :
                     m.join_queue[k] = p /\ n.join_queue = RemoveAt(m.join_queue, k)
<1>1. CASE p \notin ToSet(m.join_queue)
  BY <1>1 DEF remove_from_join_queue, SameSeats
<1>2. CASE p \in ToSet(m.join_queue)
  <2>1. QueuePosition(m, p) \in 1 .. Len(m.join_queue)
          /\ m.join_queue[QueuePosition(m, p)] = p
    BY <1>2, QueuePositionIsFirst
  <2> QED BY <1>2, <2>1 DEF remove_from_join_queue, SameSeats, Matches
<1> QED BY <1>1, <1>2

LEMMA LeftFields ==
  ASSUME NEW m \in Matches, NEW p
  PROVE  LET n == Left(m, p)
         IN  /\ SameSeats(m, n) /\ SameRequests(m, n)
             /\ n.state \in {m.state, "ABANDONED"}
             /\ m.state \in {"WAITING_FOR_OPPONENT", "JOIN_PENDING", "ACTIVE"} =>
                  n.state = "ABANDONED"
             /\ m.state = "FINISHED" => (n.state = "ABANDONED" <=> ~Loses(m, p))
BY DEF Left, abandon_match, SameSeats, SameRequests, Matches, MatchStates

LEMMA PlayedFields ==
  ASSUME NEW m \in Matches, NEW p \in Players, NEW column,
         MoveResult(m, p, column) \in Accepted
  PROVE  LET n == Played(m, p, column)
         IN  /\ SameSeats(m, n) /\ SameRequests(m, n) /\ m.state = "ACTIVE"
             /\ n.state = IF MoveResult(m, p, column) = "ok" THEN "ACTIVE" ELSE "FINISHED"
<1> DEFINE a == apply_match_move(m, p, column)
           n == Played(m, p, column)
<1>1. m.state = "ACTIVE"
  BY DEF MoveResult, Accepted
<1>2. /\ SameSeats(m, a) /\ SameRequests(m, a)
      /\ a.state = IF MoveResult(m, p, column) = "ok" THEN "ACTIVE" ELSE "FINISHED"
  BY <1>1 DEF apply_match_move, Matches, SameSeats, SameRequests
<1>3. a \in Matches
  BY MoveType
<1> HIDE DEF a
<1>4. SameSeats(a, n) /\ SameRequests(a, n) /\ n.state = a.state
  BY <1>3 DEF Played, Matches, a, SameSeats, SameRequests
<1> HIDE DEF n
<1>5. SameSeats(m, n) /\ SameRequests(m, n)
  BY <1>2, <1>4 DEF SameSeats, SameRequests
<1> QED BY <1>1, <1>2, <1>4, <1>5 DEF n

LEMMA SessionFields ==
  ASSUME NEW m \in Matches, NEW p \in Players
  PROVE  LET r == reset_match_for_rematch(m)
             o == open_new_session_as_owner(m, p)
             v == Voted(m, p)
         IN  /\ SameSeats(m, r) /\ r.state = "ACTIVE"
             /\ r.pending_requester_id = NoPlayer /\ r.join_queue = << >>
             /\ o.state = "WAITING_FOR_OPPONENT" /\ o.creator_id = p /\ o.player2_id = NoPlayer
             /\ o.pending_requester_id = NoPlayer /\ o.join_queue = << >>
             /\ SameSeats(m, v) /\ SameRequests(m, v) /\ v.state = m.state
<1> DEFINE c == ClearedSession(m)
<1>1. SameSeats(m, c) /\ c.pending_requester_id = NoPlayer /\ c.join_queue = << >>
  BY DEF ClearedSession, Matches, SameSeats
<1>2. c \in Matches
  BY ClearedType
<1> HIDE DEF c
<1>3. /\ SameSeats(m, reset_match_for_rematch(m))
      /\ reset_match_for_rematch(m).state = "ACTIVE"
      /\ reset_match_for_rematch(m).pending_requester_id = NoPlayer
      /\ reset_match_for_rematch(m).join_queue = << >>
  <2> DEFINE r == [c EXCEPT !.state = "ACTIVE"]
  <2>1. /\ SameSeats(m, r) /\ r.state = "ACTIVE"
        /\ r.pending_requester_id = NoPlayer /\ r.join_queue = << >>
    BY <1>1, <1>2 DEF SameSeats, Matches
  <2> HIDE DEF r
  <2> QED BY <2>1 DEF reset_match_for_rematch, r, c
<1>4. /\ open_new_session_as_owner(m, p).state = "WAITING_FOR_OPPONENT"
      /\ open_new_session_as_owner(m, p).creator_id = p
      /\ open_new_session_as_owner(m, p).player2_id = NoPlayer
      /\ open_new_session_as_owner(m, p).pending_requester_id = NoPlayer
      /\ open_new_session_as_owner(m, p).join_queue = << >>
  <2> DEFINE o == [c EXCEPT !.state = "WAITING_FOR_OPPONENT", !.creator_id = p,
                            !.player1_id = p, !.player2_id = NoPlayer]
  <2>1. /\ o.state = "WAITING_FOR_OPPONENT" /\ o.creator_id = p /\ o.player2_id = NoPlayer
        /\ o.pending_requester_id = NoPlayer /\ o.join_queue = << >>
    BY <1>1, <1>2 DEF Matches
  <2> HIDE DEF o
  <2> QED BY <2>1 DEF open_new_session_as_owner, o, c
<1>5. SameSeats(m, Voted(m, p)) /\ SameRequests(m, Voted(m, p)) /\ Voted(m, p).state = m.state
  BY DEF Voted, SameSeats, SameRequests, Matches
<1> QED BY <1>3, <1>4, <1>5

-----------------------------------------------------------------------------
(* Whom each way to end tells.                                             *)

\* What is told by one of two, three or five sendings is told by all of them.
LEMMA ThreeTell ==
  ASSUME NEW a \in Outboxes, NEW b \in Outboxes, NEW c \in Outboxes,
         NEW q \in Players, NEW actions, NEW id,
         \/ Tells(a, q, actions, id) \/ Tells(b, q, actions, id) \/ Tells(c, q, actions, id)
  PROVE  Tells(a ++ b ++ c, q, actions, id)
<1>1. a ++ b \in Outboxes
  BY BothType
<1>2. Tells(a ++ b, q, actions, id) \/ Tells(c, q, actions, id)
  BY BothTell
<1> QED BY <1>1, <1>2, BothTell

LEMMA FiveTell ==
  ASSUME NEW a \in Outboxes, NEW b \in Outboxes, NEW c \in Outboxes,
         NEW d \in Outboxes, NEW e \in Outboxes,
         NEW q \in Players, NEW actions, NEW id,
         \/ Tells(a, q, actions, id) \/ Tells(b, q, actions, id) \/ Tells(c, q, actions, id)
         \/ Tells(d, q, actions, id) \/ Tells(e, q, actions, id)
  PROVE  Tells(a ++ b ++ c ++ d ++ e, q, actions, id)
<1> DEFINE h == a ++ b ++ c
<1>1. h \in Outboxes
  BY BothType
<1>2. Tells(h, q, actions, id) \/ Tells(d, q, actions, id) \/ Tells(e, q, actions, id)
  BY ThreeTell
<1> HIDE DEF h
<1>3. Tells(h ++ d ++ e, q, actions, id)
  BY <1>1, <1>2, ThreeTell
<1> QED BY <1>3 DEF h

\* Whoever is promoted hears of it, and his creator is asked.
LEMMA PromotionTells ==
  ASSUME NEW m \in Matches, NEW id \in Nat, m.pending_requester_id # NoPlayer, NEW q \in Players,
         Connected(q)
  PROVE  LET o == AnnouncePromotion(m, id)
         IN  /\ q = m.creator_id => Tells(o, q, {"join_request"}, id)
             /\ q = m.pending_requester_id => Tells(o, q, {"join_request_promoted"}, id)
<1> DEFINE r == m.pending_requester_id
           a == Ask(m, id)
           b == Send({r}, Notification("join_request_promoted", id, "pending"))
<1>1. a \in Outboxes /\ b \in Outboxes
  BY AnnouncementTypes, NotifyType DEF Actions, Words, Details
<1>2. q = m.creator_id => Tells(a, q, {"join_request"}, id)
  BY NotifyTells DEF Ask
<1>3. q = r => Tells(b, q, {"join_request_promoted"}, id)
  BY NotifyTells
<1>4. AnnouncePromotion(m, id) = a ++ b
  BY DEF AnnouncePromotion
<1> HIDE DEF a, b
<1> QED BY <1>1, <1>2, <1>3, <1>4, BothTell

LEMMA RefusalTells ==
  ASSUME TypeOK, NEW p \in Players, NEW id \in DOMAIN matches, Refuse(p, id),
         NEW q \in Players, Connected(q)
  PROVE  LET m == matches[id]
             n == matches'[id]
         IN  /\ q = m.pending_requester_id => Tells(out', q, {"join_request_rejected"}, id)
             /\ n.pending_requester_id # NoPlayer /\ q = n.creator_id =>
                  Tells(out', q, {"join_request"}, id)
             /\ n.pending_requester_id # NoPlayer /\ q = n.pending_requester_id =>
                  Tells(out', q, {"join_request_promoted"}, id)
<1> DEFINE m == matches[id]
           n == matches'[id]
           r == m.pending_requester_id
           a == Send({p}, Response("reject_join", id, "ok"))
           b == Send({r}, Notification("join_request_rejected", id, p))
           c == AnnouncePromotion(n, id)
<1>1. m \in Matches /\ id \in Nat
  BY DEF TypeOK
<1>2. n \in Matches
  BY <1>1, RefusedType DEF Refuse
<1>3. out' = a ++ b ++ c
  BY DEF Refuse
<1>4. a \in Outboxes /\ b \in Outboxes /\ c \in Outboxes
  BY <1>1, <1>2, AnnouncementTypes, NotifyType DEF Actions, Words, Details
<1>5. q = r => Tells(b, q, {"join_request_rejected"}, id)
  BY NotifyTells
<1>6. n.pending_requester_id # NoPlayer =>
        /\ q = n.creator_id => Tells(c, q, {"join_request"}, id)
        /\ q = n.pending_requester_id => Tells(c, q, {"join_request_promoted"}, id)
  BY <1>1, <1>2, PromotionTells
<1> HIDE DEF a, b, c, m, n
<1>7. /\ q = r => Tells(out', q, {"join_request_rejected"}, id)
      /\ n.pending_requester_id # NoPlayer /\ q = n.creator_id =>
           Tells(out', q, {"join_request"}, id)
      /\ n.pending_requester_id # NoPlayer /\ q = n.pending_requester_id =>
           Tells(out', q, {"join_request_promoted"}, id)
  BY <1>3, <1>4, <1>5, <1>6, ThreeTell
<1> QED BY <1>7 DEF m, n

LEMMA WithdrawalTells ==
  ASSUME TypeOK, NEW p \in Players, NEW id \in DOMAIN matches, Withdraw(p, id),
         NEW q \in Players, Connected(q)
  PROVE  LET n == matches'[id]
         IN  /\ q = p => Tells(out', q, {"cancel_join"}, id)
             /\ n.pending_requester_id # NoPlayer /\ q = n.creator_id =>
                  Tells(out', q, {"join_request"}, id)
             /\ n.pending_requester_id # NoPlayer /\ q = n.pending_requester_id =>
                  Tells(out', q, {"join_request_promoted"}, id)
<1> DEFINE m == matches[id]
           n == matches'[id]
           a == AnnouncePromotion(n, id)
           b == Send({p}, Response("cancel_join", id, "ok"))
<1>1. m \in Matches /\ id \in Nat
  BY DEF TypeOK
<1>2. n \in Matches
  BY <1>1, RequestType DEF Withdraw
<1>3. out' = a ++ b
  BY DEF Withdraw
<1>4. a \in Outboxes /\ b \in Outboxes
  BY <1>1, <1>2, AnnouncementTypes, NotifyType DEF Actions, Words, Details
<1>5. q = p => Tells(b, q, {"cancel_join"}, id)
  BY NotifyTells
<1>6. n.pending_requester_id # NoPlayer =>
        /\ q = n.creator_id => Tells(a, q, {"join_request"}, id)
        /\ q = n.pending_requester_id => Tells(a, q, {"join_request_promoted"}, id)
  BY <1>1, <1>2, PromotionTells
<1> HIDE DEF a, b, m, n
<1>7. /\ q = p => Tells(out', q, {"cancel_join"}, id)
      /\ n.pending_requester_id # NoPlayer /\ q = n.creator_id =>
           Tells(out', q, {"join_request"}, id)
      /\ n.pending_requester_id # NoPlayer /\ q = n.pending_requester_id =>
           Tells(out', q, {"join_request_promoted"}, id)
  BY <1>3, <1>4, <1>5, <1>6, BothTell
<1> QED BY <1>7 DEF n

LEMMA AcceptanceTells ==
  ASSUME TypeOK, NEW p \in Players, NEW id \in DOMAIN matches, Accept(p, id),
         NEW q \in Players, Connected(q)
  PROVE  LET m == matches[id]
         IN  /\ q \in {m.player1_id, m.pending_requester_id} =>
                  Tells(out', q, {"match_started"}, id)
             /\ q \in ToSet(m.join_queue) => Tells(out', q, {"join_request_obsolete"}, id)
             /\ q \notin {m.player1_id, m.pending_requester_id} =>
                  Tells(out', q, {"match_unavailable"}, id)
<1> DEFINE m == matches[id]
           r == m.pending_requester_id
           a == Send({p}, Response("accept_join", id, "ok"))
           b == Send({m.player1_id}, Notification("match_started", id, r))
           c == Send({r}, Notification("match_started", id, m.player1_id))
           d == Send(ToSet(m.join_queue), Notification("join_request_obsolete", id, "started"))
           e == Unavailable(id, m.player1_id, r)
<1>1. m \in Matches /\ id \in Nat
  BY DEF TypeOK
<1>2. r \in Details /\ m.player1_id \in Details
  BY <1>1 DEF Matches, Details
<1>3. out' = a ++ b ++ c ++ d ++ e
  BY DEF Accept
<1>4. e \in Outboxes
  BY <1>1, AnnouncementTypes
<1>5. a \in Outboxes /\ b \in Outboxes /\ c \in Outboxes /\ d \in Outboxes
  BY <1>1, <1>2, NotifyType DEF Actions, Words, Details
<1>6. /\ q = m.player1_id => Tells(b, q, {"match_started"}, id)
      /\ q = r => Tells(c, q, {"match_started"}, id)
      /\ q \in ToSet(m.join_queue) => Tells(d, q, {"join_request_obsolete"}, id)
  BY NotifyTells
<1>7. q \notin {m.player1_id, r} => Tells(e, q, {"match_unavailable"}, id)
  BY NotifyTells DEF Unavailable
<1> HIDE DEF a, b, c, d, e, m, r
<1>8. /\ q \in {m.player1_id, r} => Tells(out', q, {"match_started"}, id)
      /\ q \in ToSet(m.join_queue) => Tells(out', q, {"join_request_obsolete"}, id)
      /\ q \notin {m.player1_id, r} => Tells(out', q, {"match_unavailable"}, id)
  BY <1>3, <1>4, <1>5, <1>6, <1>7, FiveTell
<1> QED BY <1>8 DEF m, r

\* Who leaves is missed: by the opponent, by those in line, and in the lobby.
LEMMA LeavingTells ==
  ASSUME NEW m \in Matches, OwnerPlaysFirst(m), NEW id \in Nat, NEW p \in Players,
         is_player_in_match(m, p), NEW reason \in {"left", "disconnect"},
         NEW q \in Players, Connected(q)
  PROVE  LET o == LeftMessages(m, p, id, reason)
         IN  /\ m.state \in {"WAITING_FOR_OPPONENT", "JOIN_PENDING"}
                  /\ q \in {m.pending_requester_id} \cup ToSet(m.join_queue) =>
                  Tells(o, q, {"join_request_obsolete"}, id)
             /\ m.state = "ACTIVE" /\ q # p /\ is_player_in_match(m, q) =>
                  Tells(o, q, {"opponent_left"}, id)
             /\ m.state = "FINISHED" /\ ~Loses(m, p) /\ q # p /\ is_player_in_match(m, q) =>
                  Tells(o, q, {"match_closed"}, id)
             /\ m.state = "ACTIVE" /\ ~is_player_in_match(m, q) =>
                  Tells(o, q, {"match_unavailable"}, id)
<1> DEFINE o == get_opponent_id(m, p)
           a == Send({o}, Notification("opponent_left", id, reason))
           b == Unavailable(id, p, o)
           c == Closed(m, id)
           d == Send({o}, Notification("match_closed", id, "closed"))
           l == LeftMessages(m, p, id, reason)
<1>1. {p, o} = {m.player1_id, m.player2_id}
  BY DEF get_opponent_id, is_player_in_match, OwnerPlaysFirst
<1>2. a \in Outboxes /\ b \in Outboxes
  BY AnnouncementTypes, NotifyType DEF Actions, Words, Details
<1>3. /\ q = o => Tells(a, q, {"opponent_left"}, id)
      /\ q = o => Tells(d, q, {"match_closed"}, id)
  BY NotifyTells
<1>4. q \notin {p, o} => Tells(b, q, {"match_unavailable"}, id)
  BY NotifyTells DEF Unavailable
<1>5. q \in {m.pending_requester_id} \cup ToSet(m.join_queue) =>
        Tells(c, q, {"join_request_obsolete"}, id)
  BY NotifyTells DEF Closed
<1>6. /\ m.state = "ACTIVE" => l = a ++ b
      /\ m.state \in {"WAITING_FOR_OPPONENT", "JOIN_PENDING"} => l = c
      /\ m.state = "FINISHED" /\ ~Loses(m, p) => l = d
  BY DEF LeftMessages
<1> HIDE DEF a, b, c, d, l, o
<1>7. q # p /\ is_player_in_match(m, q) => q = o
  BY <1>1 DEF is_player_in_match
<1>8. ~is_player_in_match(m, q) => q \notin {p, o}
  BY <1>1 DEF is_player_in_match
<1>9. m.state = "ACTIVE" =>
        /\ q = o => Tells(l, q, {"opponent_left"}, id)
        /\ q \notin {p, o} => Tells(l, q, {"match_unavailable"}, id)
  BY <1>2, <1>3, <1>4, <1>6, BothTell
<1>10. /\ m.state \in {"WAITING_FOR_OPPONENT", "JOIN_PENDING"}
            /\ q \in {m.pending_requester_id} \cup ToSet(m.join_queue) =>
            Tells(l, q, {"join_request_obsolete"}, id)
       /\ m.state = "FINISHED" /\ ~Loses(m, p) /\ q = o => Tells(l, q, {"match_closed"}, id)
  BY <1>3, <1>5, <1>6
<1> QED BY <1>7, <1>8, <1>9, <1>10 DEF l

-----------------------------------------------------------------------------
(* The end of a connection, match by match.                                *)

\* p was seated in m and leaves it.
CleanSeat(m, p, id, n, o) ==
  /\ is_player_in_match(m, p)
  /\ m.state # "ABANDONED" /\ n = Left(m, p)
  /\ \/ m.state \in {"ACTIVE", "FINISHED"} /\ o = LeftMessages(m, p, id, "disconnect")
     \/ m.state \in {"WAITING_FOR_OPPONENT", "JOIN_PENDING"} /\ o = Closed(m, id)

\* p's request was in decision, and the next is promoted.
CleanRequest(m, p, id, n, o) ==
  /\ m.state = "JOIN_PENDING" /\ m.pending_requester_id = p
  /\ n = PromoteNext(m) /\ o = AnnouncePromotion(n, id)

\* p is taken out of the queue.
CleanQueue(m, p, n) ==
  /\ m.state = "JOIN_PENDING" /\ m.pending_requester_id # p
  /\ n = remove_from_join_queue(m, p)

LEMMA CleanUpCases ==
  ASSUME NEW m \in Matches, OwnerPlaysFirst(m), NEW p \in Players, NEW id
  PROVE  LET n == CleanUp(m, p)
             o == CleanUpMessages(m, p, id)
         IN  \/ CleanSeat(m, p, id, n, o)
             \/ CleanRequest(m, p, id, n, o)
             \/ CleanQueue(m, p, n)
             \/ m.state # "JOIN_PENDING" /\ n = m
<1> DEFINE n == CleanUp(m, p)
           o == CleanUpMessages(m, p, id)
<1>1. CASE m.state \in {"ACTIVE", "FINISHED"} /\ is_player_in_match(m, p)
  BY <1>1 DEF CleanUp, CleanUpMessages, CleanSeat
<1>2. CASE m.state \in {"WAITING_FOR_OPPONENT", "JOIN_PENDING"} /\ m.creator_id = p
  BY <1>2 DEF CleanUp, CleanUpMessages, CleanSeat, OwnerPlaysFirst, is_player_in_match
<1>3. CASE m.state = "JOIN_PENDING" /\ m.creator_id # p /\ m.pending_requester_id = p
  BY <1>3 DEF CleanUp, CleanUpMessages, CleanRequest
<1>4. CASE m.state = "JOIN_PENDING" /\ m.creator_id # p /\ m.pending_requester_id # p
  BY <1>4 DEF CleanUp, CleanQueue
<1>5. CASE \/ m.state = "ABANDONED"
           \/ m.state \in {"ACTIVE", "FINISHED"} /\ ~is_player_in_match(m, p)
           \/ m.state = "WAITING_FOR_OPPONENT" /\ m.creator_id # p
  BY <1>5 DEF CleanUp
<1> QED BY <1>1, <1>2, <1>3, <1>4, <1>5 DEF Matches, MatchStates

-----------------------------------------------------------------------------
(* Nobody is dropped in silence.                                           *)

\* Nobody waits in m.
LEMMA NoWaiters ==
  ASSUME NEW m, Sound(m), m.pending_requester_id = NoPlayer \/ m.state # "JOIN_PENDING"
  PROVE  Waiters(m) = {}
BY DEF Waiters, Sound, SeatsMatchState

LEMMA PromotedWaiters ==
  ASSUME NEW m \in Matches, NEW n, Promotes(m, n)
  PROVE  Waiters(n) = ToSet(m.join_queue)
<1> DEFINE q == m.join_queue
<1>1. q \in Seq(Players)
  BY DEF Matches
<1>2. CASE q = << >>
  BY <1>2 DEF Promotes, Waiters, ToSet
<1>3. CASE q # << >>
  <2>1. q = <<Head(q)>> \o Tail(q) /\ Len(q) \in Nat /\ Len(q) # 0
    BY <1>1, <1>3, HeadTailProperties
  <2>2. /\ Tail(q) \in Seq(Players) /\ Len(Tail(q)) = Len(q) - 1 /\ Head(q) = q[1]
        /\ \A i \in 1 .. Len(q) - 1 : Tail(q)[i] = q[i + 1]
    BY <1>1, <1>3
  <2>3. ToSet(q) \subseteq {Head(q)} \cup ToSet(Tail(q))
    <3> SUFFICES ASSUME NEW i \in 1 .. Len(q), i # 1 PROVE q[i] \in ToSet(Tail(q))
      BY <1>1, <2>2 DEF ToSet
    <3> DEFINE j == i - 1
               r == Tail(q)
    <3>1. j \in 1 .. Len(q) - 1 /\ j + 1 = i
      BY <2>1
    <3>2. DOMAIN r = 1 .. Len(q) - 1 /\ r[j] = q[j + 1]
      BY <2>1, <2>2, <3>1
    <3> HIDE DEF j, r
    <3>3. r[j] \in ToSet(r)
      BY <3>1, <3>2 DEF ToSet
    <3> QED BY <3>1, <3>2, <3>3 DEF r
  <2>4. {Head(q)} \cup ToSet(Tail(q)) \subseteq ToSet(q)
    BY <1>1, <2>1, <2>2 DEF ToSet
  <2> QED BY <1>3, <2>3, <2>4 DEF Promotes, Waiters
<1> QED BY <1>2, <1>3

LEMMA RemovedWaiters ==
  ASSUME NEW m \in Matches, NEW p \in Players, NEW q \in Waiters(m), q # p
  PROVE  q \in Waiters(remove_from_join_queue(m, p))
<1> DEFINE n == remove_from_join_queue(m, p)
           s == m.join_queue
<1>1. /\ n.state = m.state /\ n.pending_requester_id = m.pending_requester_id
      /\ \/ n.join_queue = s
         \/ \E k \in 1 .. Len(s) : s[k] = p /\ n.join_queue = RemoveAt(s, k)
  BY RemovedFields
<1> HIDE DEF n
<1>2. CASE n.join_queue = s
  BY <1>1, <1>2 DEF Waiters, n
<1>3. ASSUME NEW k \in 1 .. Len(s), s[k] = p, n.join_queue = RemoveAt(s, k)
      PROVE  q \in ToSet(s) => q \in ToSet(n.join_queue)
  <2> SUFFICES ASSUME NEW i \in 1 .. Len(s), s[i] = q PROVE q \in ToSet(n.join_queue)
    BY DEF ToSet, Matches
  <2> DEFINE r == RemoveAt(s, k)
  <2>1. s \in Seq(Players) /\ Len(s) \in Nat
    BY DEF Matches
  <2>2. /\ r \in Seq(Players) /\ Len(r) = Len(s) - 1
        /\ \A j \in 1 .. Len(s) - 1 : r[j] = IF j < k THEN s[j] ELSE s[j + 1]
    BY <2>1, RemoveAtIsSeq
  <2> HIDE DEF r
  <2>3. i # k
    BY <1>3
  <2>4. CASE i < k
    <3>1. i \in 1 .. Len(s) - 1 /\ r[i] = q
      BY <2>1, <2>2, <2>4
    <3> QED BY <1>3, <2>2, <3>1 DEF ToSet, r
  <2>5. CASE ~(i < k)
    <3>1. i - 1 \in 1 .. Len(s) - 1 /\ ~(i - 1 < k) /\ (i - 1) + 1 = i
      BY <2>1, <2>3, <2>5
    <3>2. r[i - 1] = q
      BY <2>2, <3>1
    <3> QED BY <1>3, <2>2, <3>1, <3>2 DEF ToSet, r
  <2> QED BY <2>4, <2>5
<1>4. q \in ToSet(s) => q \in ToSet(n.join_queue)
  BY <1>1, <1>2, <1>3
<1> QED BY <1>1, <1>4 DEF Waiters, n

\* How a request ends for the one who made it: by others, or by himself.
Endings == {"match_started", "join_request_rejected", "join_request_obsolete"}

Ends == Endings \cup {"cancel_join"}

LEMMA TellsMore ==
  ASSUME NEW o, NEW q, NEW some, NEW more, NEW id, Tells(o, q, some, id), some \subseteq more
  PROVE  Tells(o, q, more, id)
BY DEF Tells

\* q is waiting for a decision about match id.
WaitsFor(q, id) == q \in Waiters(matches[id])

LEMMA WaiterFields ==
  ASSUME TypeOK, NEW id \in DOMAIN matches, Sound(matches[id]), NEW q, WaitsFor(q, id)
  PROVE  LET m == matches[id]
         IN  /\ m \in Matches /\ id \in Nat /\ OwnerPlaysFirst(m)
             /\ m.state = "JOIN_PENDING" /\ m.pending_requester_id # NoPlayer
             /\ q \in {m.pending_requester_id} \cup ToSet(m.join_queue)
             /\ Keep(id) => WaitsFor(q, id)'
             /\ Promotes(m, matches'[id]) => WaitsFor(q, id)' \/ q = m.pending_requester_id
<1> DEFINE m == matches[id]
           n == matches'[id]
<1>1. m \in Matches /\ id \in Nat /\ OwnerPlaysFirst(m)
  BY DEF TypeOK, Sound
<1>2. m.state = "JOIN_PENDING" /\ m.pending_requester_id # NoPlayer
  BY NoWaiters DEF WaitsFor
<1>3. q \in {m.pending_requester_id} \cup ToSet(m.join_queue)
  BY <1>2 DEF Waiters, WaitsFor
<1>4. Keep(id) => q \in Waiters(n)
  BY KeptFields DEF Waiters, WaitsFor, SameRequests
<1>5. Promotes(m, n) => Waiters(n) = ToSet(m.join_queue)
  BY <1>1, PromotedWaiters
<1> QED BY <1>1, <1>2, <1>3, <1>4, <1>5 DEF WaitsFor

\* A request takes nobody's place in a line, or he is told.
LEMMA RequestDropsNobody ==
  ASSUME TypeOK, NEW id \in DOMAIN matches, Sound(matches[id]), NEW p \in Players,
         RequestDone(p, id), NEW q \in Players, Connected(q), WaitsFor(q, id), ~WaitsFor(q, id)'
  PROVE  Tells(out', q, Endings, id)
<1> DEFINE m == matches[id]
           n == matches'[id]
<1>1. /\ m \in Matches /\ id \in Nat /\ OwnerPlaysFirst(m)
      /\ m.state = "JOIN_PENDING" /\ m.pending_requester_id # NoPlayer
      /\ q \in {m.pending_requester_id} \cup ToSet(m.join_queue)
  BY WaiterFields
<1>2. ~AskFirst(p, id) /\ ~TakeOver(p, id) /\ ~Replay(p, id) /\ ~Vote(p, id)
  BY <1>1 DEF AskFirst, TakeOver, Replay, Vote, MayRematch
<1>3. ASSUME NEW column \in Columns PROVE ~Drop(p, id, column)
  BY <1>1, PlayedFields DEF Drop
<1>4. ~Queue(p, id)
  <2> SUFFICES ASSUME Queue(p, id) PROVE FALSE
    OBVIOUS
  <2>1. /\ n.state = m.state /\ n.pending_requester_id = m.pending_requester_id
        /\ n.join_queue = Append(m.join_queue, p)
    BY <1>1, RequestFields DEF Queue
  <2>2. m.join_queue \in Seq(Players)
    BY <1>1 DEF Matches
  <2>3. ToSet(m.join_queue) \subseteq ToSet(Append(m.join_queue, p))
    BY <2>2 DEF ToSet
  <2> QED BY <1>1, <2>1, <2>3 DEF Waiters, WaitsFor
<1>5. CASE Quit(p, id)
  <2>1. Tells(out', q, {"join_request_obsolete"}, id)
    BY <1>1, <1>5, LeavingTells DEF Quit
  <2> QED BY <2>1, TellsMore DEF Endings
<1> QED BY <1>2, <1>3, <1>4, <1>5 DEF RequestDone

LEMMA DecisionDropsNobody ==
  ASSUME TypeOK, NEW id \in DOMAIN matches, Sound(matches[id]), NEW p \in Players,
         Accept(p, id) \/ Refuse(p, id),
         NEW q \in Players, Connected(q), WaitsFor(q, id), ~WaitsFor(q, id)'
  PROVE  Tells(out', q, Endings, id)
<1> DEFINE m == matches[id]
           n == matches'[id]
<1>1. /\ m \in Matches /\ q \in {m.pending_requester_id} \cup ToSet(m.join_queue)
      /\ Promotes(m, n) => q = m.pending_requester_id
  BY WaiterFields
<1>2. CASE Accept(p, id)
  <2>1. \/ Tells(out', q, {"match_started"}, id)
        \/ Tells(out', q, {"join_request_obsolete"}, id)
    BY <1>1, <1>2, AcceptanceTells
  <2> QED BY <2>1, TellsMore DEF Endings
<1>3. CASE Refuse(p, id)
  <2>1. Promotes(m, n)
    BY <1>1, <1>3, DecisionFields DEF Refuse
  <2>2. Tells(out', q, {"join_request_rejected"}, id)
    BY <1>1, <1>3, <2>1, RefusalTells
  <2> QED BY <2>2, TellsMore DEF Endings
<1> QED BY <1>2, <1>3

\* Who withdraws takes only himself out of a line.
LEMMA WithdrawalDropsNobodyElse ==
  ASSUME TypeOK, NEW id \in DOMAIN matches, Sound(matches[id]), NEW p \in Players,
         Withdraw(p, id) \/ LeaveQueue(p, id),
         NEW q \in Players, Connected(q), WaitsFor(q, id), ~WaitsFor(q, id)'
  PROVE  q = p /\ Tells(out', q, {"cancel_join"}, id)
<1> DEFINE m == matches[id]
           n == matches'[id]
<1>1. m \in Matches /\ (Promotes(m, n) => q = m.pending_requester_id)
  BY WaiterFields
<1>2. CASE Withdraw(p, id)
  <2>1. Promotes(m, n)
    BY <1>1, <1>2, DecisionFields DEF Withdraw
  <2>2. q = p
    BY <1>1, <1>2, <2>1 DEF Withdraw
  <2> QED BY <1>2, <2>2, WithdrawalTells
<1>3. CASE LeaveQueue(p, id)
  <2>1. q = p
    BY <1>1, <1>3, RemovedWaiters DEF LeaveQueue, WaitsFor
  <2> QED BY <1>3, <2>1, NotifyTells DEF LeaveQueue
<1> QED BY <1>2, <1>3

LEMMA CleanDropsNobodyElse ==
  ASSUME TypeOK, NEW id \in DOMAIN matches, Sound(matches[id]), NEW p \in Players, Clean(p, id),
         NEW q \in Players, q # p, Connected(q), WaitsFor(q, id), ~WaitsFor(q, id)'
  PROVE  Tells(out', q, Endings, id)
<1> DEFINE m == matches[id]
           n == matches'[id]
           o == CleanUpMessages(m, p, id)
<1>1. /\ m \in Matches /\ id \in Nat /\ OwnerPlaysFirst(m)
      /\ m.state = "JOIN_PENDING" /\ m.pending_requester_id # NoPlayer
      /\ q \in {m.pending_requester_id} \cup ToSet(m.join_queue)
      /\ Promotes(m, n) => q = m.pending_requester_id
  BY WaiterFields
<1>2. n = CleanUp(m, p)
  BY DEF Clean
<1>3. \/ CleanSeat(m, p, id, n, o)
      \/ CleanRequest(m, p, id, n, o)
      \/ CleanQueue(m, p, n)
  BY <1>1, <1>2, CleanUpCases
<1>4. ~CleanRequest(m, p, id, n, o)
  <2> SUFFICES ASSUME CleanRequest(m, p, id, n, o) PROVE FALSE
    OBVIOUS
  <2>1. Promotes(m, n)
    BY <1>1, PromoteFields DEF CleanRequest
  <2> QED BY <1>1, <2>1 DEF CleanRequest
<1>5. ~CleanQueue(m, p, n)
  BY <1>1, RemovedWaiters DEF CleanQueue, WaitsFor
<1>6. o = Closed(m, id)
  BY <1>1, <1>3, <1>4, <1>5 DEF CleanSeat
<1>7. Tells(o, q, {"join_request_obsolete"}, id)
  BY <1>1, <1>6, NotifyTells DEF Closed
<1>8. Tells(out', q, {"join_request_obsolete"}, id)
  BY <1>7 DEF Clean
<1> QED BY <1>8, TellsMore DEF Endings

LEMMA DropsNobody ==
  ASSUME TypeOK, NEW id \in DOMAIN matches, Sound(matches[id]), [Next]_vars,
         NEW q \in Players, Connected(q), WaitsFor(q, id), ~WaitsFor(q, id)',
         q \notin leaving' \ leaving
  PROVE  Tells(out', q, Ends, id)
<1>1. ~Keep(id)
  BY WaiterFields
<1>2. ASSUME NEW p \in Players, RequestDone(p, id) PROVE Tells(out', q, Ends, id)
  <2>1. Tells(out', q, Endings, id)
    BY <1>2, RequestDropsNobody
  <2> QED BY <2>1, TellsMore DEF Ends
<1>3. ASSUME NEW p \in Players, AnswerDone(p, id) PROVE Tells(out', q, Ends, id)
  <2>1. Tells(out', q, Endings, id) \/ Tells(out', q, {"cancel_join"}, id)
    BY <1>3, DecisionDropsNobody, WithdrawalDropsNobodyElse DEF AnswerDone
  <2> QED BY <2>1, TellsMore DEF Ends
<1>4. ASSUME NEW p \in Players, Serving(p), Clean(p, id) PROVE Tells(out', q, Ends, id)
  <2>1. q # p
    BY <1>4 DEF Clean, Serving
  <2>2. Tells(out', q, Endings, id)
    BY <1>4, <2>1, CleanDropsNobodyElse
  <2> QED BY <2>2, TellsMore DEF Ends
<1> QED BY <1>1, <1>2, <1>3, <1>4, StepEffect

\* Nobody is dropped in silence (NobodyDropped): a client whose request was
\* pending or queued and is no more is told how it ended by the very step that
\* ended it (ACCEPT_JOIN, REJECT_JOIN, CANCEL_JOIN, QUIT_MATCH, or the clean-up of
\* client_thread_handler), unless it is his own connection that ends.
THEOREM NobodyIsDropped == Spec => NobodyDropped
<1>1. TypeOK /\ AllSound /\ [Next]_vars =>
        [\A id \in DOMAIN matches :
           \A q \in Waiters(matches[id]) \ Waiters(matches'[id]) :
             \/ ToldBy(q, {"match_started", "join_request_rejected",
                           "join_request_obsolete", "cancel_join"}, id)
             \/ q \in leaving' \ leaving
             \/ ~Connected(q)]_vars
  <2> SUFFICES ASSUME TypeOK, AllSound, [Next]_vars, NEW id \in DOMAIN matches,
                      NEW q \in Waiters(matches[id]) \ Waiters(matches'[id]),
                      q \notin leaving' \ leaving, Connected(q)
               PROVE  ToldBy(q, {"match_started", "join_request_rejected",
                                 "join_request_obsolete", "cancel_join"}, id)
    OBVIOUS
  <2>1. Sound(matches[id]) /\ matches[id] \in Matches
    BY DEF AllSound, TypeOK
  <2>2. matches[id].pending_requester_id # NoPlayer
    BY <2>1, NoWaiters
  <2>3. q \in Players
    BY <2>1, <2>2 DEF Waiters, ToSet, Matches
  <2>4. Tells(out', q, Ends, id)
    BY <2>1, <2>3, DropsNobody DEF WaitsFor
  <2> QED BY <2>4 DEF Tells, ToldBy, Ends, Endings
<1> QED BY <1>1, TypeCorrect, SoundInvariant, PTL DEF Spec, NobodyDropped

-----------------------------------------------------------------------------
(* The creator is asked.                                                   *)

\* The first in the queue is in the queue, and the next to be asked about.
LEMMA PromotedIsFirst ==
  ASSUME NEW m \in Matches, NEW n, Promotes(m, n), n.pending_requester_id # NoPlayer
  PROVE  n.pending_requester_id \in ToSet(m.join_queue)
<1> DEFINE q == m.join_queue
<1>1. q \in Seq(Players) /\ q # << >> /\ n.pending_requester_id = Head(q)
  BY DEF Promotes, Matches
<1>2. Head(q) = q[1] /\ 1 \in DOMAIN q
  BY <1>1
<1> QED BY <1>1, <1>2 DEF ToSet

LEMMA AsksCreator ==
  ASSUME TypeOK, NEW id \in DOMAIN matches, Sound(matches[id]), [Next]_vars,
         matches'[id].pending_requester_id \notin {NoPlayer, matches[id].pending_requester_id},
         matches'[id].creator_id \in Players, Connected(matches'[id].creator_id)
  PROVE  /\ Tells(out', matches'[id].creator_id, {"join_request"}, id)
         /\ /\ matches'[id].pending_requester_id \in ToSet(matches[id].join_queue)
            /\ matches'[id].pending_requester_id \in Players
            /\ Connected(matches'[id].pending_requester_id)
            => Tells(out', matches'[id].pending_requester_id, {"join_request_promoted"}, id)
<1> DEFINE m == matches[id]
           n == matches'[id]
           q == n.pending_requester_id
           c == n.creator_id
           Asked == Tells(out', c, {"join_request"}, id)
           Told  == q \in ToSet(m.join_queue) /\ q \in Players /\ Connected(q) =>
                      Tells(out', q, {"join_request_promoted"}, id)
<1>1. m \in Matches /\ id \in Nat /\ Sound(m) /\ OwnerPlaysFirst(m)
  BY DEF TypeOK, Sound
<1>2. ~Keep(id)
  BY KeptFields DEF SameRequests
<1>3. ASSUME NEW p \in Players, RequestDone(p, id), leaving' = leaving PROVE Asked /\ Told
  <2>1. ~Queue(p, id)
    BY <1>1, RequestFields DEF Queue
  <2>2. ASSUME NEW column \in Columns PROVE ~Drop(p, id, column)
    BY <1>1, PlayedFields DEF Drop, SameRequests
  <2>3. ~TakeOver(p, id) /\ ~Replay(p, id) /\ ~Vote(p, id)
    BY <1>1, SessionFields DEF TakeOver, Replay, Vote, SameRequests
  <2>4. ~Quit(p, id)
    BY <1>1, LeftFields DEF Quit, SameRequests
  <2>5. CASE AskFirst(p, id)
    <3> DEFINE a == Send({p}, Response("join_match", id, "pending"))
               b == Ask(n, id)
    <3>1. m.join_queue = << >>
      BY <1>1, <2>5 DEF AskFirst, Sound, RequestsInLine
    <3>2. Told
      BY <3>1 DEF ToSet
    <3>3. n \in Matches
      BY <1>1, <2>5, RequestType DEF AskFirst
    <3>4. a \in Outboxes /\ b \in Outboxes /\ out' = a ++ b
      BY <1>1, <2>5, <3>3, AnnouncementTypes, NotifyType
         DEF Actions, Words, Details, AskFirst
    <3>5. Tells(b, c, {"join_request"}, id)
      BY NotifyTells DEF Ask
    <3> HIDE DEF a, b
    <3>6. Asked
      BY <3>4, <3>5, BothTell
    <3> QED BY <3>2, <3>6
  <2> QED BY <1>3, <2>1, <2>2, <2>3, <2>4, <2>5 DEF RequestDone
<1>4. ASSUME NEW p \in Players, AnswerDone(p, id), leaving' = leaving PROVE Asked /\ Told
  <2>1. ~Accept(p, id)
    BY <1>1, AcceptedFields DEF Accept
  <2>2. CASE Refuse(p, id)
    BY <2>2, RefusalTells
  <2>3. CASE Withdraw(p, id)
    BY <2>3, WithdrawalTells
  <2>4. ~LeaveQueue(p, id)
    BY <1>1, RemovedFields DEF LeaveQueue
  <2> QED BY <1>4, <2>1, <2>2, <2>3, <2>4 DEF AnswerDone
<1>5. ASSUME NEW p \in Players, Serving(p), Clean(p, id) PROVE Asked /\ Told
  <2> DEFINE o == CleanUpMessages(m, p, id)
  <2>1. n = CleanUp(m, p)
    BY <1>5 DEF Clean
  <2>2. ~CleanSeat(m, p, id, n, o)
    BY <1>1, LeftFields DEF CleanSeat, SameRequests
  <2>3. ~CleanQueue(m, p, n)
    BY <1>1, RemovedFields DEF CleanQueue
  <2>4. CleanRequest(m, p, id, n, o)
    BY <1>1, <2>1, <2>2, <2>3, CleanUpCases
  <2>5. n \in Matches /\ q # NoPlayer
    BY <1>1, <2>1, CleanUpType
  <2>6. /\ Tells(o, c, {"join_request"}, id)
        /\ q \in Players /\ Connected(q) => Tells(o, q, {"join_request_promoted"}, id)
    BY <1>1, <2>4, <2>5, PromotionTells DEF CleanRequest
  <2> QED BY <1>5, <2>6 DEF Clean
<1> QED BY <1>2, <1>3, <1>4, <1>5, StepEffect

\* No request waits for a decision nobody was asked for
\* (EveryRequestIsPutToTheCreator): every step that makes another request the
\* pending one (JOIN_MATCH, or a promotion after REJECT_JOIN, CANCEL_JOIN or a
\* lost connection) sends the creator that request, and a promoted client the
\* news.
THEOREM CreatorIsAsked == Spec => EveryRequestIsPutToTheCreator
<1>1. TypeOK /\ AllSound /\ TypeOK' /\ [Next]_vars =>
        [\A id \in DOMAIN matches :
           LET was == matches[id]
               is  == matches'[id]
               q   == is.pending_requester_id
           IN  q \notin {NoPlayer, was.pending_requester_id} /\ Connected(is.creator_id) =>
                 /\ ToldBy(is.creator_id, {"join_request"}, id)
                 /\ q \in ToSet(was.join_queue) /\ Connected(q) =>
                      ToldBy(q, {"join_request_promoted"}, id)]_vars
  <2> SUFFICES ASSUME TypeOK, AllSound, TypeOK', [Next]_vars, NEW id \in DOMAIN matches,
                      matches'[id].pending_requester_id
                        \notin {NoPlayer, matches[id].pending_requester_id},
                      Connected(matches'[id].creator_id)
               PROVE  LET was == matches[id]
                          is  == matches'[id]
                          q   == is.pending_requester_id
                      IN  /\ ToldBy(is.creator_id, {"join_request"}, id)
                          /\ q \in ToSet(was.join_queue) /\ Connected(q) =>
                               ToldBy(q, {"join_request_promoted"}, id)
    OBVIOUS
  <2>0. matches[id] \in Matches
    BY DEF TypeOK
  <2>1. Sound(matches[id]) /\ matches[id].join_queue \in Seq(Players)
    BY <2>0 DEF AllSound, Matches
  <2>2. matches'[id] \in Matches
    BY MatchesStay
  <2>3. matches'[id].creator_id \in Players
    BY <2>2 DEF Matches
  <2>4. ToSet(matches[id].join_queue) \subseteq Players
    BY <2>1 DEF ToSet
  <2> QED BY <2>1, <2>3, <2>4, AsksCreator DEF Tells, ToldBy
<1> QED BY <1>1, TypeCorrect, SoundInvariant, PTL DEF Spec, EveryRequestIsPutToTheCreator

-----------------------------------------------------------------------------
(* A game begins and ends before both players and the lobby.               *)

LEMMA NoDecision ==
  ASSUME NEW m, Sound(m), m.state \in {"ACTIVE", "FINISHED"}
  PROVE  m.pending_requester_id = NoPlayer /\ m.player2_id # NoPlayer
BY DEF Sound, SeatsMatchState

\* The only steps that begin a game, and the only ones that end it.
LEMMA GameChanges ==
  ASSUME TypeOK, NEW id \in DOMAIN matches, Sound(matches[id]), [Next]_vars,
         (matches[id].state = "ACTIVE") # (matches'[id].state = "ACTIVE")
  PROVE  LET m == matches[id]
             n == matches'[id]
         IN  \E p \in Players :
               /\ Serving(p)
               /\ \/ m.state # "ACTIVE" /\ (Accept(p, id) \/ Replay(p, id))
                  \/ m.state = "ACTIVE" /\ \E column \in Columns : Drop(p, id, column)
                  \/ m.state = "ACTIVE" /\ Quit(p, id)
                  \/ /\ m.state = "ACTIVE" /\ Clean(p, id)
                     /\ CleanSeat(m, p, id, n, CleanUpMessages(m, p, id))
<1> DEFINE m == matches[id]
           n == matches'[id]
           Changes(p) ==
             \/ m.state # "ACTIVE" /\ (Accept(p, id) \/ Replay(p, id))
             \/ m.state = "ACTIVE" /\ \E column \in Columns : Drop(p, id, column)
             \/ m.state = "ACTIVE" /\ Quit(p, id)
             \/ /\ m.state = "ACTIVE" /\ Clean(p, id)
                /\ CleanSeat(m, p, id, n, CleanUpMessages(m, p, id))
<1>1. m \in Matches /\ id \in Nat /\ Sound(m) /\ OwnerPlaysFirst(m)
  BY DEF TypeOK, Sound
<1>2. ~Keep(id)
  BY KeptFields
<1>3. ASSUME NEW p \in Players, RequestDone(p, id) PROVE Changes(p)
  <2>1. ~AskFirst(p, id) /\ ~Queue(p, id)
    BY <1>1, RequestFields DEF AskFirst, Queue, MayAsk
  <2>2. ~TakeOver(p, id) /\ ~Vote(p, id)
    BY <1>1, SessionFields DEF TakeOver, Vote
  <2>3. Replay(p, id) => m.state # "ACTIVE"
    BY DEF Replay, MayRematch
  <2>4. ASSUME NEW column \in Columns, Drop(p, id, column) PROVE m.state = "ACTIVE"
    BY <1>1, <2>4, PlayedFields DEF Drop
  <2>5. Quit(p, id) => m.state = "ACTIVE"
    BY <1>1, LeftFields DEF Quit
  <2> QED BY <1>3, <2>1, <2>2, <2>3, <2>4, <2>5 DEF RequestDone
<1>4. ASSUME NEW p \in Players, AnswerDone(p, id) PROVE Changes(p)
  <2>1. ~LeaveQueue(p, id)
    BY <1>1, RemovedFields DEF LeaveQueue
  <2>2. Accept(p, id) => m.state # "ACTIVE"
    BY <1>1, NoDecision DEF Accept
  <2>3. ~Refuse(p, id)
    <3>1. Refuse(p, id) => m.state # "ACTIVE" /\ Promotes(m, n)
      BY <1>1, NoDecision, DecisionFields DEF Refuse
    <3> QED BY <3>1 DEF Promotes
  <2>4. ~Withdraw(p, id)
    <3>1. Withdraw(p, id) => m.state # "ACTIVE" /\ Promotes(m, n)
      BY <1>1, NoDecision, DecisionFields, MatchAssumption DEF Withdraw
    <3> QED BY <3>1 DEF Promotes
  <2> QED BY <1>4, <2>1, <2>2, <2>3, <2>4 DEF AnswerDone
<1>5. ASSUME NEW p \in Players, Clean(p, id) PROVE Changes(p)
  <2> DEFINE o == CleanUpMessages(m, p, id)
  <2>1. n = CleanUp(m, p)
    BY <1>5 DEF Clean
  <2>2. ~CleanRequest(m, p, id, n, o)
    BY <1>1, PromoteFields DEF CleanRequest, Promotes
  <2>3. ~CleanQueue(m, p, n)
    BY <1>1, RemovedFields DEF CleanQueue
  <2>4. CleanSeat(m, p, id, n, o)
    BY <1>1, <2>1, <2>2, <2>3, CleanUpCases
  <2>5. m.state = "ACTIVE"
    BY <1>1, <2>4, LeftFields DEF CleanSeat
  <2> QED BY <1>5, <2>4, <2>5
<1> HIDE DEF Changes
<1>6. \E p \in Players : Serving(p) /\ Changes(p)
  BY <1>2, <1>3, <1>4, <1>5, StepEffect
<1> QED BY <1>6 DEF Changes

\* Both players hear of a game that begins.
LEMMA BeginningTells ==
  ASSUME TypeOK, NEW id \in DOMAIN matches, Sound(matches[id]), [Next]_vars,
         matches[id].state # "ACTIVE", matches'[id].state = "ACTIVE",
         NEW q \in Players, Connected(q),
         q \in {matches'[id].player1_id, matches'[id].player2_id}
  PROVE  Tells(out', q, {"match_started"}, id)
<1> DEFINE m == matches[id]
           n == matches'[id]
<1>1. m \in Matches /\ id \in Nat
  BY DEF TypeOK
<1>2. PICK p \in Players : Accept(p, id) \/ Replay(p, id)
  BY GameChanges
<1>3. CASE Accept(p, id)
  <2>1. n.player1_id = m.player1_id /\ n.player2_id = m.pending_requester_id
    BY <1>1, <1>3, AcceptedFields DEF Accept
  <2> QED BY <1>3, <2>1, AcceptanceTells
<1>4. CASE Replay(p, id)
  <2> DEFINE a == Send({p}, Response("rematch", id, "ok"))
             b == Send({n.player1_id}, Notification("match_started", id, n.player2_id))
             c == Send({n.player2_id}, Notification("match_started", id, n.player1_id))
  <2>1. n \in Matches
    BY <1>1, <1>4, SessionType DEF Replay
  <2>2. n.player1_id \in Details /\ n.player2_id \in Details
    BY <2>1 DEF Matches, Details
  <2>3. a \in Outboxes /\ b \in Outboxes /\ c \in Outboxes
    BY <1>1, <2>2, NotifyType DEF Actions, Words, Details
  <2>4. out' = a ++ (b ++ c)
    BY <1>4 DEF Replay, Started
  <2>5. /\ q = n.player1_id => Tells(b, q, {"match_started"}, id)
        /\ q = n.player2_id => Tells(c, q, {"match_started"}, id)
    BY NotifyTells
  <2> HIDE DEF a, b, c
  <2>6. b ++ c \in Outboxes /\ Tells(b ++ c, q, {"match_started"}, id)
    BY <2>3, <2>5, BothTell, BothType
  <2> QED BY <2>3, <2>4, <2>6, BothTell
<1> QED BY <1>2, <1>3, <1>4

\* The other player hears of whoever ends a match by leaving it.
LEMMA EndingTells ==
  ASSUME TypeOK, NEW id \in DOMAIN matches, Sound(matches[id]), [Next]_vars,
         matches[id].state \in {"ACTIVE", "FINISHED"}, matches'[id].state = "ABANDONED",
         NEW goes \in Players, NEW stays \in Players, goes # stays, Connected(stays),
         {goes, stays} \subseteq {matches'[id].player1_id, matches'[id].player2_id},
         QuitMatch(goes, id) \/ goes \in leaving' \ leaving
  PROVE  Tells(out', stays, {"opponent_left", "match_closed"}, id)
<1> DEFINE m == matches[id]
           n == matches'[id]
           Both == {"opponent_left", "match_closed"}
           Misses(o) == \/ Tells(o, stays, {"opponent_left"}, id)
                        \/ Tells(o, stays, {"match_closed"}, id)
<1>1. m \in Matches /\ id \in Nat /\ Sound(m) /\ OwnerPlaysFirst(m)
  BY DEF TypeOK, Sound
<1>2. ASSUME n = Left(m, goes), is_player_in_match(m, goes), NEW reason \in {"left", "disconnect"}
      PROVE  Misses(LeftMessages(m, goes, id, reason))
  <2>1. SameSeats(m, n) /\ (m.state = "FINISHED" => ~Loses(m, goes))
    BY <1>1, <1>2, LeftFields
  <2>2. is_player_in_match(m, stays)
    BY <2>1 DEF SameSeats, is_player_in_match
  <2> QED BY <1>1, <1>2, <2>1, <2>2, LeavingTells
<1>3. CASE QuitMatch(goes, id)
  <2>1. /\ is_player_in_match(m, goes) /\ n = Left(m, goes)
        /\ out' = LeftMessages(m, goes, id, "left")
    <3>1. matches \in Seq(Matches)
      BY DEF TypeOK
    <3> QED BY <1>3, <3>1 DEF QuitMatch, Found
  <2>2. Misses(out')
    BY <1>2, <2>1
  <2> QED BY <2>2, TellsMore
<1>4. CASE goes \in leaving' \ leaving
  <2>1. PICK p \in Players : Clean(p, id)
    BY <1>4, StepEffect DEF Keep
  <2> DEFINE o == CleanUpMessages(m, p, id)
  <2>2. p = goes /\ n = CleanUp(m, goes)
    BY <1>4, <2>1 DEF Clean
  <2>3. CleanSeat(m, goes, id, n, o)
    BY <1>1, <2>2, CleanUpCases DEF CleanRequest, CleanQueue
  <2>4. Misses(o)
    BY <1>2, <2>3 DEF CleanSeat
  <2>5. Misses(out')
    BY <2>1, <2>4 DEF Clean
  <2> QED BY <2>5, TellsMore
<1> QED BY <1>3, <1>4

\* Everybody else hears of it that the match is not open any more, or not running.
LEMMA ChangeTellsLobby ==
  ASSUME TypeOK, NEW id \in DOMAIN matches, Sound(matches[id]), [Next]_vars,
         (matches[id].state = "ACTIVE") # (matches'[id].state = "ACTIVE"),
         matches[id].state # "FINISHED", NEW q \in Players, Connected(q),
         q \notin {matches'[id].player1_id, matches'[id].player2_id}
  PROVE  Tells(out', q, {"match_unavailable"}, id)
<1> DEFINE m == matches[id]
           n == matches'[id]
<1>1. m \in Matches /\ id \in Nat /\ Sound(m) /\ OwnerPlaysFirst(m)
  BY DEF TypeOK, Sound
<1>2. PICK p \in Players :
        \/ Accept(p, id)
        \/ \E column \in Columns : Drop(p, id, column)
        \/ m.state = "ACTIVE" /\ Quit(p, id)
        \/ /\ m.state = "ACTIVE" /\ Clean(p, id)
           /\ CleanSeat(m, p, id, n, CleanUpMessages(m, p, id))
  BY GameChanges DEF Replay, MayRematch
<1>3. CASE Accept(p, id)
  <2>1. n.player1_id = m.player1_id /\ n.player2_id = m.pending_requester_id
    BY <1>1, <1>3, AcceptedFields DEF Accept
  <2> QED BY <1>3, <2>1, AcceptanceTells
<1>4. ASSUME NEW column \in Columns, Drop(p, id, column)
      PROVE  Tells(out', q, {"match_unavailable"}, id)
  <2> DEFINE result == MoveResult(m, p, column)
             a == Unavailable(id, m.player1_id, m.player2_id)
             b == Send({m.player1_id, m.player2_id}, Notification("move", id, result))
  <2>1. /\ SameSeats(m, n) /\ m.state = "ACTIVE" /\ result \in Accepted
        /\ n.state = IF result = "ok" THEN "ACTIVE" ELSE "FINISHED"
    BY <1>1, <1>4, PlayedFields DEF Drop
  <2>2. out' = a ++ b
    BY <1>4, <2>1 DEF Drop
  <2>3. result \in Details
    BY <2>1 DEF Accepted, Details, Words
  <2>4. a \in Outboxes /\ b \in Outboxes
    <3> HIDE DEF result
    <3> QED BY <1>1, <2>3, AnnouncementTypes, NotifyType DEF Actions
  <2>5. Tells(a, q, {"match_unavailable"}, id)
    BY <2>1, NotifyTells DEF Unavailable, SameSeats
  <2> HIDE DEF a, b
  <2> QED BY <2>2, <2>4, <2>5, BothTell
<1>5. CASE m.state = "ACTIVE" /\ Quit(p, id)
  <2>1. SameSeats(m, n)
    BY <1>1, <1>5, LeftFields DEF Quit
  <2>2. ~is_player_in_match(m, q)
    BY <2>1 DEF SameSeats, is_player_in_match
  <2> QED BY <1>1, <1>5, <2>2, LeavingTells DEF Quit
<1>6. CASE /\ m.state = "ACTIVE" /\ Clean(p, id)
           /\ CleanSeat(m, p, id, n, CleanUpMessages(m, p, id))
  <2> DEFINE o == CleanUpMessages(m, p, id)
  <2>1. o = LeftMessages(m, p, id, "disconnect") /\ n = Left(m, p) /\ is_player_in_match(m, p)
    BY <1>6 DEF CleanSeat
  <2>2. SameSeats(m, n)
    BY <1>1, <2>1, LeftFields
  <2>3. ~is_player_in_match(m, q)
    BY <2>2 DEF SameSeats, is_player_in_match
  <2>4. Tells(o, q, {"match_unavailable"}, id)
    BY <1>1, <1>6, <2>1, <2>3, LeavingTells
  <2> QED BY <1>6, <2>4 DEF Clean
<1> QED BY <1>2, <1>3, <1>4, <1>5, <1>6

\* The other player hears of it (OpponentIsTold): the step that ends a match by
\* QUIT_MATCH or by the end of a connection tells whoever stays, and the step
\* that starts a match tells both players.
THEOREM OpponentHears == Spec => OpponentIsTold
<1>1. TypeOK /\ AllSound /\ TypeOK' /\ [Next]_vars =>
        [\A id \in DOMAIN matches :
           LET was   == matches[id]
               is    == matches'[id]
               seats == {is.player1_id, is.player2_id} \ {NoPlayer}
           IN  /\ was.state \in {"ACTIVE", "FINISHED"} /\ is.state = "ABANDONED" =>
                    \A goes \in seats :
                      QuitMatch(goes, id) \/ goes \in leaving' \ leaving =>
                        \A stays \in seats \ {goes} :
                          Connected(stays) => ToldBy(stays, {"opponent_left", "match_closed"}, id)
               /\ was.state # "ACTIVE" /\ is.state = "ACTIVE" =>
                    \A q \in seats : Connected(q) => ToldBy(q, {"match_started"}, id)]_vars
  <2> SUFFICES ASSUME TypeOK, AllSound, TypeOK', [Next]_vars, NEW id \in DOMAIN matches
               PROVE  LET was   == matches[id]
                          is    == matches'[id]
                          seats == {is.player1_id, is.player2_id} \ {NoPlayer}
                      IN  /\ was.state \in {"ACTIVE", "FINISHED"} /\ is.state = "ABANDONED" =>
                               \A goes \in seats :
                                 QuitMatch(goes, id) \/ goes \in leaving' \ leaving =>
                                   \A stays \in seats \ {goes} :
                                     Connected(stays) =>
                                       ToldBy(stays, {"opponent_left", "match_closed"}, id)
                          /\ was.state # "ACTIVE" /\ is.state = "ACTIVE" =>
                               \A q \in seats : Connected(q) => ToldBy(q, {"match_started"}, id)
    OBVIOUS
  <2> DEFINE n == matches'[id]
             seats == {n.player1_id, n.player2_id} \ {NoPlayer}
  <2>1. Sound(matches[id])
    BY DEF AllSound
  <2>2. seats \subseteq Players
    <3>1. n \in Matches
      BY MatchesStay
    <3> QED BY <3>1 DEF Matches
  <2>3. ASSUME matches[id].state \in {"ACTIVE", "FINISHED"}, n.state = "ABANDONED",
               NEW goes \in seats, QuitMatch(goes, id) \/ goes \in leaving' \ leaving,
               NEW stays \in seats \ {goes}, Connected(stays)
        PROVE  ToldBy(stays, {"opponent_left", "match_closed"}, id)
    <3>1. Tells(out', stays, {"opponent_left", "match_closed"}, id)
      BY <2>1, <2>2, <2>3, EndingTells
    <3> QED BY <3>1 DEF Tells, ToldBy
  <2>4. ASSUME matches[id].state # "ACTIVE", n.state = "ACTIVE", NEW q \in seats, Connected(q)
        PROVE  ToldBy(q, {"match_started"}, id)
    <3>1. Tells(out', q, {"match_started"}, id)
      BY <2>1, <2>2, <2>4, BeginningTells
    <3> QED BY <3>1 DEF Tells, ToldBy
  <2> QED BY <2>3, <2>4
<1> QED BY <1>1, TypeCorrect, SoundInvariant, PTL DEF Spec, OpponentIsTold

\* The lobby is kept up to date (LobbyIsTold): the step by which a match
\* becomes ACTIVE with a new player, or stops being ACTIVE, tells every client
\* connected who does not play in it (broadcast_match_unavailable).
THEOREM LobbyHears == Spec => LobbyIsTold
<1>1. TypeOK /\ AllSound /\ [Next]_vars =>
        [\A id \in DOMAIN matches :
           LET was == matches[id]
               is  == matches'[id]
           IN  (was.state = "ACTIVE") # (is.state = "ACTIVE") /\ was.state # "FINISHED" =>
                 \A q \in Players \ {is.player1_id, is.player2_id} :
                   Connected(q) => ToldBy(q, {"match_unavailable"}, id)]_vars
  <2> SUFFICES ASSUME TypeOK, AllSound, [Next]_vars, NEW id \in DOMAIN matches,
                      (matches[id].state = "ACTIVE") # (matches'[id].state = "ACTIVE"),
                      matches[id].state # "FINISHED",
                      NEW q \in Players \ {matches'[id].player1_id, matches'[id].player2_id},
                      Connected(q)
               PROVE  ToldBy(q, {"match_unavailable"}, id)
    OBVIOUS
  <2>1. Sound(matches[id])
    BY DEF AllSound
  <2>2. Tells(out', q, {"match_unavailable"}, id)
    BY <2>1, ChangeTellsLobby
  <2> QED BY <2>2 DEF Tells, ToldBy
<1> QED BY <1>1, TypeCorrect, SoundInvariant, PTL DEF Spec, LobbyIsTold

-----------------------------------------------------------------------------
(* What becomes of a game that is over.                                    *)

\* No step takes a game that is over out of its state, but closing the match and
\* the two kinds of rematch.
LEMMA OverSteps ==
  ASSUME TypeOK, NEW id \in DOMAIN matches, Sound(matches[id]), [Next]_vars,
         matches[id].state = "FINISHED"
  PROVE  \/ matches'[id].state \in {"FINISHED", "ABANDONED"}
         \/ \E p \in Players : Serving(p) /\ (TakeOver(p, id) \/ Replay(p, id))
<1> DEFINE m == matches[id]
           n == matches'[id]
           Goes(p) == \/ n.state \in {"FINISHED", "ABANDONED"}
                      \/ TakeOver(p, id) \/ Replay(p, id)
<1>1. /\ m \in Matches /\ id \in Nat /\ OwnerPlaysFirst(m)
      /\ m.pending_requester_id = NoPlayer
  BY NoDecision DEF TypeOK, Sound
<1>2. Keep(id) => n.state = m.state
  BY KeptFields
<1>3. ASSUME NEW p \in Players, RequestDone(p, id) PROVE Goes(p)
  <2>1. ~AskFirst(p, id) /\ ~Queue(p, id)
    BY DEF AskFirst, Queue, MayAsk
  <2>2. ASSUME NEW column \in Columns PROVE ~Drop(p, id, column)
    BY <1>1, PlayedFields DEF Drop
  <2>3. /\ Vote(p, id) => n.state = m.state
        /\ Quit(p, id) => n.state \in {m.state, "ABANDONED"}
    BY <1>1, SessionFields, LeftFields DEF Vote, Quit
  <2> QED BY <1>3, <2>1, <2>2, <2>3 DEF RequestDone
<1>4. ASSUME NEW p \in Players, AnswerDone(p, id) PROVE Goes(p)
  <2>1. ~Accept(p, id) /\ ~Refuse(p, id) /\ ~Withdraw(p, id)
    BY <1>1, MatchAssumption DEF Accept, Refuse, Withdraw
  <2>2. LeaveQueue(p, id) => n.state = m.state
    BY <1>1, RemovedFields DEF LeaveQueue
  <2> QED BY <1>4, <2>1, <2>2 DEF AnswerDone
<1>5. ASSUME NEW p \in Players, Clean(p, id) PROVE Goes(p)
  <2>1. n = CleanUp(m, p)
    BY <1>5 DEF Clean
  <2>2. CleanSeat(m, p, id, n, CleanUpMessages(m, p, id)) \/ n = m
    BY <1>1, <2>1, CleanUpCases DEF CleanRequest, CleanQueue
  <2> QED BY <1>1, <2>2, LeftFields DEF CleanSeat
<1> HIDE DEF Goes
<1>6. Keep(id) \/ \E p \in Players : Serving(p) /\ Goes(p)
  BY <1>3, <1>4, <1>5, StepEffect
<1> QED BY <1>2, <1>6 DEF Goes

\* The vote that completes a pair is the one that was missing, and whoever cast
\* it is told.
LEMMA ReplayIsAgreed ==
  ASSUME TypeOK, NEW id \in DOMAIN matches, ~BothVoted(matches[id]),
         NEW p \in Players, Serving(p), Replay(p, id)
  PROVE  LET m == matches[id]
         IN  /\ m.rematch_vote_p1 + m.rematch_vote_p2 = 1
             /\ p = IF m.rematch_vote_p1 = 1 THEN m.player2_id ELSE m.player1_id
             /\ Tells(out', p, {"rematch"}, id)
<1> DEFINE m == matches[id]
           n == matches'[id]
           a == Send({p}, Response("rematch", id, "ok"))
           b == Started(n, id)
<1>1. m \in Matches /\ id \in Nat /\ is_player_in_match(m, p) /\ n = reset_match_for_rematch(m)
  BY DEF TypeOK, Replay, MayRematch
<1>2. m.rematch_vote_p1 \in {0, 1} /\ m.rematch_vote_p2 \in {0, 1}
  BY <1>1 DEF Matches
<1>3. Tells(out', p, {"rematch"}, id)
  <2>1. n \in Matches
    BY <1>1, SessionType
  <2>2. a \in Outboxes /\ b \in Outboxes /\ out' = a ++ b
    BY <1>1, <2>1, AnnouncementTypes, NotifyType DEF Actions, Words, Details, Replay
  <2>3. Tells(a, p, {"rematch"}, id)
    BY NotifyTells DEF Serving
  <2> HIDE DEF a, b
  <2> QED BY <2>2, <2>3, BothTell
<1>4. CASE p = m.player1_id
  <2>1. m.rematch_vote_p2 = 1
    BY <1>1, <1>4 DEF Replay, BothVoted, Voted, Matches
  <2>2. m.rematch_vote_p1 = 0
    BY <1>2, <2>1 DEF BothVoted
  <2> QED BY <1>3, <1>4, <2>1, <2>2
<1>5. CASE p # m.player1_id
  <2>1. m.rematch_vote_p1 = 1 /\ p = m.player2_id
    BY <1>1, <1>5 DEF Replay, BothVoted, Voted, Matches, is_player_in_match
  <2>2. m.rematch_vote_p2 = 0
    BY <1>2, <2>1 DEF BothVoted
  <2> QED BY <1>3, <1>5, <2>1, <2>2
<1> QED BY <1>4, <1>5

\* A match that is over goes on only by consent (RematchByConsent): after a
\* draw with both votes of REMATCH, after a win as a new session of the winner.
THEOREM RematchIsAgreed == Spec => RematchByConsent
<1>1. TypeOK /\ AllSound /\ ResultMatchesBoard /\ [Next]_vars =>
        [\A id \in DOMAIN matches :
           LET was == matches[id]
               is  == matches'[id]
           IN  /\ was.state = "FINISHED" /\ is.state = "ACTIVE" =>
                    /\ was.winner_id = NoPlayer
                    /\ was.rematch_vote_p1 + was.rematch_vote_p2 = 1
                    /\ ToldBy(IF was.rematch_vote_p1 = 1 THEN was.player2_id ELSE was.player1_id,
                              {"rematch"}, id)
                    /\ <<is.player1_id, is.player2_id>> = <<was.player1_id, was.player2_id>>
               /\ was.state = "FINISHED" /\ is.state = "WAITING_FOR_OPPONENT" =>
                    /\ was.winner_id # NoPlayer
                    /\ <<is.creator_id, is.player2_id>> = <<was.winner_id, NoPlayer>>
               /\ was.state = "FINISHED" =>
                    is.state \in {"FINISHED", "ACTIVE", "WAITING_FOR_OPPONENT",
                                  "ABANDONED"}]_vars
  <2> SUFFICES ASSUME TypeOK, AllSound, ResultMatchesBoard, [Next]_vars,
                      NEW id \in DOMAIN matches
               PROVE  LET was == matches[id]
                          is  == matches'[id]
                      IN  /\ was.state = "FINISHED" /\ is.state = "ACTIVE" =>
                               /\ was.winner_id = NoPlayer
                               /\ was.rematch_vote_p1 + was.rematch_vote_p2 = 1
                               /\ ToldBy(IF was.rematch_vote_p1 = 1 THEN was.player2_id
                                         ELSE was.player1_id, {"rematch"}, id)
                               /\ <<is.player1_id, is.player2_id>>
                                    = <<was.player1_id, was.player2_id>>
                          /\ was.state = "FINISHED" /\ is.state = "WAITING_FOR_OPPONENT" =>
                               /\ was.winner_id # NoPlayer
                               /\ <<is.creator_id, is.player2_id>> = <<was.winner_id, NoPlayer>>
                          /\ was.state = "FINISHED" =>
                               is.state \in {"FINISHED", "ACTIVE", "WAITING_FOR_OPPONENT",
                                             "ABANDONED"}
    OBVIOUS
  <2> DEFINE m == matches[id]
             n == matches'[id]
  <2>1. m \in Matches /\ Sound(m) /\ ~BothVoted(m)
    BY DEF TypeOK, AllSound, ResultMatchesBoard
  <2>2. ASSUME NEW p \in Players, Serving(p), m.state = "FINISHED", TakeOver(p, id)
        PROVE  /\ n.state = "WAITING_FOR_OPPONENT" /\ m.winner_id = p
               /\ n.creator_id = p /\ n.player2_id = NoPlayer
    BY <2>1, <2>2, SessionFields DEF TakeOver
  <2>3. ASSUME NEW p \in Players, Serving(p), m.state = "FINISHED", Replay(p, id)
        PROVE  /\ n.state = "ACTIVE" /\ m.winner_id = NoPlayer
               /\ n.player1_id = m.player1_id /\ n.player2_id = m.player2_id
               /\ m.rematch_vote_p1 + m.rematch_vote_p2 = 1
               /\ ToldBy(IF m.rematch_vote_p1 = 1 THEN m.player2_id ELSE m.player1_id,
                         {"rematch"}, id)
    <3>1. /\ n.state = "ACTIVE" /\ m.winner_id = NoPlayer
          /\ n.player1_id = m.player1_id /\ n.player2_id = m.player2_id
      BY <2>1, <2>3, SessionFields DEF Replay, SameSeats
    <3>2. /\ m.rematch_vote_p1 + m.rematch_vote_p2 = 1
          /\ p = IF m.rematch_vote_p1 = 1 THEN m.player2_id ELSE m.player1_id
          /\ Tells(out', p, {"rematch"}, id)
      BY <2>1, <2>3, ReplayIsAgreed
    <3>3. ToldBy(p, {"rematch"}, id)
      BY <3>2 DEF Tells, ToldBy
    <3> QED BY <3>1, <3>2, <3>3
  <2>4. \/ m.state # "FINISHED"
        \/ n.state \in {"FINISHED", "ABANDONED"}
        \/ \E p \in Players : Serving(p) /\ (TakeOver(p, id) \/ Replay(p, id))
    BY <2>1, OverSteps
  <2> HIDE DEF m, n
  <2>5. ASSUME NEW p \in Players, Serving(p), m.state = "FINISHED",
               TakeOver(p, id) \/ Replay(p, id)
        PROVE  /\ n.state \in {"ACTIVE", "WAITING_FOR_OPPONENT"}
               /\ n.state = "ACTIVE" =>
                    /\ m.winner_id = NoPlayer
                    /\ n.player1_id = m.player1_id /\ n.player2_id = m.player2_id
                    /\ m.rematch_vote_p1 + m.rematch_vote_p2 = 1
                    /\ ToldBy(IF m.rematch_vote_p1 = 1 THEN m.player2_id ELSE m.player1_id,
                              {"rematch"}, id)
               /\ n.state = "WAITING_FOR_OPPONENT" =>
                    /\ m.winner_id # NoPlayer
                    /\ n.creator_id = m.winner_id /\ n.player2_id = NoPlayer
    BY <2>2, <2>3, <2>5, MatchAssumption
  <2>6. \/ m.state # "FINISHED"
        \/ n.state \in {"FINISHED", "ABANDONED"}
        \/ /\ m.state = "FINISHED"
           /\ n.state \in {"ACTIVE", "WAITING_FOR_OPPONENT"}
           /\ n.state = "ACTIVE" =>
                /\ m.winner_id = NoPlayer
                /\ n.player1_id = m.player1_id /\ n.player2_id = m.player2_id
                /\ m.rematch_vote_p1 + m.rematch_vote_p2 = 1
                /\ ToldBy(IF m.rematch_vote_p1 = 1 THEN m.player2_id ELSE m.player1_id,
                          {"rematch"}, id)
           /\ n.state = "WAITING_FOR_OPPONENT" =>
                /\ m.winner_id # NoPlayer
                /\ n.creator_id = m.winner_id /\ n.player2_id = NoPlayer
    BY <2>4, <2>5
  <2> QED BY <2>6 DEF m, n
<1> QED BY <1>1, TypeCorrect, SoundInvariant, ResultIsRight, PTL DEF Spec, RematchByConsent

-----------------------------------------------------------------------------
(* What becomes of a match that was closed.                                *)

InLine(m) == {m.pending_requester_id} \cup ToSet(m.join_queue)

\* Of those who do not answer a request nobody does anything to a closed match.
LEMMA ClosedIsLeftAlone ==
  ASSUME TypeOK, NEW id \in DOMAIN matches, matches[id].state = "ABANDONED",
         NEW p \in Players, RequestDone(p, id) \/ Clean(p, id)
  PROVE  matches'[id] = matches[id]
<1> DEFINE m == matches[id]
<1>1. m \in Matches
  BY DEF TypeOK
<1>2. ~AskFirst(p, id) /\ ~Queue(p, id) /\ ~TakeOver(p, id) /\ ~Replay(p, id) /\ ~Vote(p, id)
  BY DEF AskFirst, Queue, MayAsk, TakeOver, Replay, MayRematch, Vote
<1>3. ASSUME NEW column \in Columns PROVE ~Drop(p, id, column)
  BY <1>1, PlayedFields DEF Drop
<1>4. Left(m, p) = m /\ CleanUp(m, p) = m
  BY DEF Left, CleanUp
<1> QED BY <1>2, <1>3, <1>4 DEF RequestDone, Quit, Clean

\* Whoever is in line after a promotion, or after p has left the queue, was in
\* the queue before.
LEMMA PromotedLine ==
  ASSUME NEW m \in Matches, NEW n, Promotes(m, n)
  PROVE  InLine(n) \subseteq {NoPlayer} \cup ToSet(m.join_queue)
<1>1. Waiters(n) = ToSet(m.join_queue)
  BY PromotedWaiters
<1>2. CASE n.state = "JOIN_PENDING"
  BY <1>1, <1>2 DEF Waiters, InLine
<1>3. CASE n.state # "JOIN_PENDING"
  BY <1>3 DEF Promotes, InLine, ToSet
<1> QED BY <1>2, <1>3

LEMMA RemovedLine ==
  ASSUME NEW m \in Matches, NEW p \in Players
  PROVE  InLine(remove_from_join_queue(m, p)) \subseteq InLine(m)
<1> DEFINE n == remove_from_join_queue(m, p)
           s == m.join_queue
<1>1. /\ n.pending_requester_id = m.pending_requester_id
      /\ n.join_queue = s \/ \E k \in 1 .. Len(s) : n.join_queue = RemoveAt(s, k)
  BY RemovedFields
<1> HIDE DEF n
<1>2. ASSUME NEW k \in 1 .. Len(s), n.join_queue = RemoveAt(s, k)
      PROVE  ToSet(n.join_queue) \subseteq ToSet(s)
  <2> DEFINE r == RemoveAt(s, k)
  <2>1. s \in Seq(Players) /\ Len(s) \in Nat /\ DOMAIN s = 1 .. Len(s)
    BY DEF Matches
  <2>2. /\ r \in Seq(Players) /\ Len(r) = Len(s) - 1
        /\ \A j \in 1 .. Len(s) - 1 : r[j] = IF j < k THEN s[j] ELSE s[j + 1]
    BY <2>1, RemoveAtIsSeq
  <2> HIDE DEF r, s
  <2>3. DOMAIN r = 1 .. Len(s) - 1
    BY <2>1, <2>2
  <2>4. \A j \in 1 .. Len(s) - 1 : j \in 1 .. Len(s) /\ j + 1 \in 1 .. Len(s)
    BY <2>1
  <2> QED BY <1>2, <2>1, <2>2, <2>3, <2>4 DEF ToSet, r
<1> QED BY <1>1, <1>2 DEF InLine, n

\* What an answer makes of a closed match: nobody new is in line; and it is open
\* again only over the request it was closed over, as a match without a second
\* player, or as the game that was asked for.
LEMMA LateAnswer ==
  ASSUME TypeOK, NEW id \in DOMAIN matches, Sound(matches[id]),
         matches[id].state = "ABANDONED", NEW p \in Players, AnswerDone(p, id)
  PROVE  LET m == matches[id]
             n == matches'[id]
             q == m.pending_requester_id
         IN  /\ InLine(n) \subseteq {NoPlayer} \cup InLine(m)
             /\ n.state # "ABANDONED" =>
                  /\ q # NoPlayer /\ m.player2_id = NoPlayer
                  /\ \/ /\ n.state = "ACTIVE" /\ SameGame(m, n)
                        /\ n.player1_id = m.creator_id /\ n.player2_id = q
                     \/ /\ n.state \in {"WAITING_FOR_OPPONENT", "JOIN_PENDING"}
                        /\ n.player1_id = m.creator_id /\ n.player2_id = NoPlayer
<1> DEFINE m == matches[id]
           n == matches'[id]
           q == m.pending_requester_id
<1>1. m \in Matches /\ m.creator_id = m.player1_id
  BY DEF TypeOK, Sound, OwnerPlaysFirst
<1>2. q # NoPlayer => m.player2_id = NoPlayer
  BY DEF Sound, SeatsMatchState
<1>3. CASE Accept(p, id)
  <2>1. q # NoPlayer /\ n = [Seated(m) EXCEPT !.join_queue = << >>]
    BY <1>3 DEF Accept
  <2>2. /\ n.state = "ACTIVE" /\ n.player1_id = m.player1_id /\ n.player2_id = q
        /\ n.pending_requester_id = NoPlayer /\ n.join_queue = << >>
    BY <1>1, <2>1, AcceptedFields
  <2>3. SameGame(m, n)
    BY <1>1, <2>1, SeatedGame
  <2> HIDE DEF n
  <2>4. InLine(n) \subseteq {NoPlayer}
    BY <2>2 DEF InLine, ToSet
  <2> QED BY <1>1, <1>2, <2>1, <2>2, <2>3, <2>4 DEF n
<1>4. ASSUME q # NoPlayer, Promotes(m, n)
      PROVE  /\ InLine(n) \subseteq {NoPlayer} \cup InLine(m)
             /\ n.state \in {"WAITING_FOR_OPPONENT", "JOIN_PENDING"}
             /\ n.player1_id = m.creator_id /\ n.player2_id = NoPlayer
  BY <1>1, <1>2, <1>4, PromotedLine DEF InLine, Promotes, SameSeats
<1>5. CASE Refuse(p, id)
  BY <1>1, <1>2, <1>4, <1>5, DecisionFields DEF Refuse
<1>6. CASE Withdraw(p, id)
  BY <1>1, <1>2, <1>4, <1>6, DecisionFields, MatchAssumption DEF Withdraw
<1>7. CASE LeaveQueue(p, id)
  BY <1>1, <1>7, RemovedFields, RemovedLine DEF LeaveQueue
<1> QED BY <1>3, <1>5, <1>6, <1>7 DEF AnswerDone

\* An answer opens a closed match again only if it is about this match, from its
\* creator or from the requester in decision.
LEMMA WhoAnswersLate ==
  ASSUME TypeOK, NEW id \in DOMAIN matches, matches[id].state = "ABANDONED",
         NEW p \in Players, NEW i \in MatchIds, Answer(p, i),
         matches'[id].state # "ABANDONED"
  PROVE  i = id /\ p \in {matches[id].creator_id, matches[id].pending_requester_id}
<1> DEFINE m == matches[id]
<1>1. matches \in Seq(Matches) /\ m \in Matches
  BY DEF TypeOK
<1>2. ASSUME NEW action PROVE ~NothingToDecide(p, action, i)
  <2> SUFFICES ASSUME NothingToDecide(p, action, i) PROVE FALSE
    OBVIOUS
  <2> DEFINE n == [m EXCEPT !.withdrawn_requester_id = NoPlayer]
  <2>1. n.state = m.state
    BY <1>1 DEF Matches
  <2>2. matches'[id] \in {m, n}
    BY <1>1 DEF NothingToDecide, Fails, Found
  <2> QED BY <2>1, <2>2
<1>3. CASE AcceptJoin(p, i)
  BY <1>1, <1>2, <1>3 DEF AcceptJoin, HasRequestFor, Found
<1>4. CASE RejectJoin(p, i)
  BY <1>1, <1>2, <1>4 DEF RejectJoin, HasRequestFor, Found
<1>5. CASE CancelJoin(p, i)
  <2>1. remove_from_join_queue(m, p).state = m.state
    BY <1>1, RemovedFields
  <2> QED BY <1>1, <1>5, <2>1 DEF CancelJoin, Found
<1> QED BY <1>3, <1>4, <1>5 DEF Answer

\* A match that was closed is over (NoGameComesBack): whatever is sent about it,
\* and however late, nobody new comes to ask for it; if it is open again, then by
\* its creator or by the requester it was closed over, without a disc on its
\* board, and for those two.
THEOREM ClosedGamesAreOver == Spec => NoGameComesBack
<1>1. TypeOK /\ TypeOK' /\ AllSound /\ AllJudged /\ AllJudged' /\ [Next]_vars =>
        [\A id \in DOMAIN matches :
           LET was == matches[id]
               is  == matches'[id]
               q   == was.pending_requester_id
           IN  was.state = "ABANDONED" =>
                 /\ {is.pending_requester_id} \cup ToSet(is.join_queue)
                      \subseteq {q, NoPlayer} \cup ToSet(was.join_queue)
                 /\ is.state # "ABANDONED" =>
                      /\ q # NoPlayer
                      /\ \E p \in {was.creator_id, q} : Answer(p, id)
                      /\ is.board = init_board /\ is.winner_id = NoPlayer
                      /\ <<is.player1_id, is.player2_id>> =
                           <<was.creator_id,
                             IF is.state = "ACTIVE" THEN q ELSE NoPlayer>>]_vars
  <2> SUFFICES ASSUME TypeOK, TypeOK', AllSound, AllJudged, AllJudged', [Next]_vars,
                      NEW id \in DOMAIN matches, matches[id].state = "ABANDONED"
               PROVE  LET was == matches[id]
                          is  == matches'[id]
                          q   == was.pending_requester_id
                      IN  /\ InLine(is) \subseteq {NoPlayer} \cup InLine(was)
                          /\ is.state # "ABANDONED" =>
                               /\ q # NoPlayer
                               /\ \E p \in {was.creator_id, q} : Answer(p, id)
                               /\ is.board = init_board /\ is.winner_id = NoPlayer
                               /\ is.player1_id = was.creator_id
                               /\ is.player2_id = IF is.state = "ACTIVE" THEN q ELSE NoPlayer
    BY DEF InLine
  <2> DEFINE m == matches[id]
             n == matches'[id]
             q == m.pending_requester_id
  <2>1. /\ m \in Matches /\ Sound(m) /\ Judged(m)
        /\ id \in DOMAIN matches' /\ n \in Matches /\ Judged(n)
    BY TableGrows, MatchesStay DEF TypeOK, AllSound, AllJudged
  <2>2. CASE n.state = "ABANDONED" /\ InLine(n) = InLine(m)
    BY <2>2
  <2>3. Keep(id) => n.state = "ABANDONED" /\ InLine(n) = InLine(m)
    BY KeptFields DEF InLine, SameRequests
  <2>4. CASE UNCHANGED vars \/ RefuseConnection
    BY <2>2, <2>4 DEF vars, RefuseConnection
  <2>5. ASSUME NEW p \in Players, Session(p) \/ Request(p)
        PROVE  n.state = "ABANDONED" /\ InLine(n) = InLine(m)
    BY <2>3, <2>5, SessionEffect, RequestEffect, ClosedIsLeftAlone
  <2>6. ASSUME NEW p \in Players, NEW i \in MatchIds, Answer(p, i), AnswerDone(p, id)
        PROVE  /\ InLine(n) \subseteq {NoPlayer} \cup InLine(m)
               /\ n.state # "ABANDONED" =>
                    /\ q # NoPlayer
                    /\ \E a \in {m.creator_id, q} : Answer(a, id)
                    /\ n.board = init_board /\ n.winner_id = NoPlayer
                    /\ n.player1_id = m.creator_id
                    /\ n.player2_id = IF n.state = "ACTIVE" THEN q ELSE NoPlayer
    <3>1. InLine(n) \subseteq {NoPlayer} \cup InLine(m)
      BY <2>1, <2>6, LateAnswer
    <3>2. ASSUME n.state # "ABANDONED"
          PROVE  /\ q # NoPlayer
                 /\ \E a \in {m.creator_id, q} : Answer(a, id)
                 /\ n.board = init_board /\ n.winner_id = NoPlayer
                 /\ n.player1_id = m.creator_id
                 /\ n.player2_id = IF n.state = "ACTIVE" THEN q ELSE NoPlayer
      <4>1. i = id /\ p \in {m.creator_id, q}
        BY <2>6, <3>2, WhoAnswersLate
      <4>2. /\ q # NoPlayer /\ m.player2_id = NoPlayer
            /\ \/ /\ n.state = "ACTIVE" /\ SameGame(m, n)
                  /\ n.player1_id = m.creator_id /\ n.player2_id = q
               \/ /\ n.state \in {"WAITING_FOR_OPPONENT", "JOIN_PENDING"}
                  /\ n.player1_id = m.creator_id /\ n.player2_id = NoPlayer
        BY <2>1, <2>6, <3>2, LateAnswer
      <4>3. Fresh(m) /\ (n.player2_id = NoPlayer => Fresh(n))
        BY <2>1, <4>2, JudgedIsFresh
      <4>4. n.board = init_board /\ n.winner_id = NoPlayer
        BY <4>2, <4>3 DEF Fresh, SameGame
      <4> QED BY <2>6, <4>1, <4>2, <4>4
    <3> QED BY <3>1, <3>2
  <2>7. ASSUME NEW p \in Players, NEW i \in MatchIds, Answer(p, i)
        PROVE  Keep(id) \/ AnswerDone(p, id)
    BY <2>7, AnswerEffect
  <2> HIDE DEF m, n, q
  <2> QED BY <2>3, <2>4, <2>5, <2>6, <2>7 DEF Next, m, n, q
<1> QED BY <1>1, TypeCorrect, SoundInvariant, JudgedInvariant, PTL DEF Spec, NoGameComesBack

-----------------------------------------------------------------------------
(* Requests are decided in the order they came.                            *)

\* Whoever is in both lines has in the second the places he had in the first,
\* before those who stood behind him and before the newcomers.
KeepsOrder(was, is) ==
  \A a \in ToSet(was) \cap ToSet(is), b \in ToSet(is) :
    b \notin ToSet(was) \/ Before(was, a, b) => Before(is, a, b)

Distinct(s) == \A i, j \in DOMAIN s : s[i] = s[j] => i = j

LEMMA EmptyKeepsOrder ==
  ASSUME NEW s, NEW t, s = << >> \/ t = << >>
  PROVE  KeepsOrder(s, t)
BY DEF KeepsOrder, ToSet

LEMMA SameKeepsOrder ==
  ASSUME NEW s
  PROVE  KeepsOrder(s, s)
BY DEF KeepsOrder

\* t is s without some of its places.
LEMMA PartKeepsOrder ==
  ASSUME NEW s, NEW t, DOMAIN s \subseteq Nat, DOMAIN t \subseteq Nat, Distinct(s),
         NEW f \in [DOMAIN t -> DOMAIN s],
         \A i \in DOMAIN t : t[i] = s[f[i]],
         \A i, j \in DOMAIN t : i < j => f[i] < f[j]
  PROVE  KeepsOrder(s, t)
<1>1. ToSet(t) \subseteq ToSet(s)
  BY DEF ToSet
<1> SUFFICES ASSUME NEW a \in ToSet(t), NEW b \in ToSet(t), Before(s, a, b)
             PROVE  Before(t, a, b)
  BY <1>1 DEF KeepsOrder
<1>2. PICK i \in DOMAIN s, j \in DOMAIN s : i < j /\ s[i] = a /\ s[j] = b
  BY DEF Before
<1>3. PICK x \in DOMAIN t, y \in DOMAIN t : t[x] = a /\ t[y] = b
  BY DEF ToSet
<1>4. f[x] = i /\ f[y] = j
  BY <1>2, <1>3 DEF Distinct
<1>5. x \in Nat /\ y \in Nat /\ i \in Nat /\ j \in Nat
  BY <1>2, <1>3
<1>6. ~(y < x) /\ x # y
  BY <1>2, <1>3, <1>4, <1>5
<1>7. x < y
  BY <1>5, <1>6
<1> QED BY <1>3, <1>7 DEF Before

\* Somebody new comes last.
LEMMA AppendKeepsOrder ==
  ASSUME NEW S, NEW s \in Seq(S), NEW p \in S, p \notin ToSet(s)
  PROVE  KeepsOrder(s, Append(s, p))
<1> DEFINE t == Append(s, p)
           l == Len(s)
<1>1. /\ l \in Nat /\ DOMAIN s = 1 .. l /\ DOMAIN t = 1 .. l + 1
      /\ t[l + 1] = p /\ \A i \in 1 .. l : t[i] = s[i]
  OBVIOUS
<1> HIDE DEF t, l
<1> SUFFICES ASSUME NEW a \in ToSet(s), NEW b \in ToSet(t), b \notin ToSet(s) \/ Before(s, a, b)
             PROVE  Before(t, a, b)
  BY DEF KeepsOrder, t
<1>2. CASE Before(s, a, b)
  <2>1. PICK i \in 1 .. l, j \in 1 .. l : i < j /\ s[i] = a /\ s[j] = b
    BY <1>1, <1>2 DEF Before
  <2>2. i \in DOMAIN t /\ j \in DOMAIN t /\ t[i] = a /\ t[j] = b
    BY <1>1, <2>1
  <2> QED BY <2>1, <2>2 DEF Before
<1>3. CASE b \notin ToSet(s)
  <2>1. PICK i \in 1 .. l : s[i] = a
    BY <1>1 DEF ToSet
  <2>2. PICK j \in 1 .. l + 1 : t[j] = b
    BY <1>1 DEF ToSet
  <2>3. j \notin 1 .. l
    BY <1>1, <1>3, <2>2 DEF ToSet
  <2>4. j = l + 1 /\ i < j /\ i \in DOMAIN t /\ j \in DOMAIN t /\ t[i] = a
    BY <1>1, <2>1, <2>2, <2>3
  <2> QED BY <2>2, <2>4 DEF Before
<1> QED BY <1>2, <1>3

\* The line of a match whose request is pending: that request, then the queue.
LEMMA LineFields ==
  ASSUME NEW m \in Matches, Sound(m), m.state = "JOIN_PENDING"
  PROVE  /\ Line(m) \in Seq(Players) /\ Len(m.join_queue) \in Nat
         /\ Len(Line(m)) = Len(m.join_queue) + 1
         /\ Line(m)[1] = m.pending_requester_id
         /\ \A i \in 1 .. Len(m.join_queue) : Line(m)[i + 1] = m.join_queue[i]
         /\ Distinct(Line(m))
         /\ ToSet(Line(m)) = {m.pending_requester_id} \cup ToSet(m.join_queue)
<1> DEFINE q == m.join_queue
           r == m.pending_requester_id
           h == <<r>>
           l == h \o q
           k == Len(q)
<1>1. r \in Players /\ q \in Seq(Players)
  BY DEF Matches, Sound, SeatsMatchState
<1>2. /\ k \in Nat /\ DOMAIN q = 1 .. k
      /\ h \in Seq(Players) /\ Len(h) = 1 /\ h[1] = r
  BY <1>1
<1>3. /\ \A i, j \in 1 .. k : q[i] = q[j] => i = j
      /\ \A i \in 1 .. k : q[i] # r
  <2>1. r \notin ToSet(q) /\ \A i, j \in 1 .. k : q[i] = q[j] => i = j
    BY DEF Sound, RequestsInLine
  <2> QED BY <1>2, <2>1 DEF ToSet
<1>4. l = Line(m)
  BY DEF Line
<1> HIDE DEF h, q, r
<1>5. /\ l \in Seq(Players) /\ Len(l) = 1 + k
      /\ \A i \in 1 .. 1 + k : l[i] = IF i <= 1 THEN h[i] ELSE q[i - 1]
  <2>1. /\ l \in Seq(Players) /\ Len(l) = Len(h) + Len(q)
        /\ \A i \in 1 .. Len(h) + Len(q) : l[i] = IF i <= Len(h) THEN h[i] ELSE q[i - Len(h)]
    BY <1>1, <1>2, ConcatProperties
  <2> HIDE DEF l
  <2> QED BY <1>2, <2>1
<1> HIDE DEF l, k
<1>6. DOMAIN l = 1 .. k + 1 /\ l[1] = r /\ Len(l) = k + 1
  BY <1>2, <1>5
<1>7. ASSUME NEW i \in 1 .. k PROVE l[i + 1] = q[i]
  <2>1. i + 1 \in 1 .. 1 + k /\ ~(i + 1 <= 1) /\ (i + 1) - 1 = i
    BY <1>2
  <2> QED BY <1>5, <2>1
<1>8. \A i \in 2 .. k + 1 : i - 1 \in 1 .. k /\ l[i] = q[i - 1]
  BY <1>2, <1>5
<1>9. Distinct(l)
  <2> SUFFICES ASSUME NEW i \in 1 .. k + 1, NEW j \in 1 .. k + 1, l[i] = l[j] PROVE i = j
    BY <1>6 DEF Distinct
  <2>1. CASE i = 1
    BY <1>2, <1>3, <1>6, <1>8, <2>1
  <2>2. CASE j = 1
    BY <1>2, <1>3, <1>6, <1>8, <2>2
  <2>3. CASE i # 1 /\ j # 1
    <3>1. i \in 2 .. k + 1 /\ j \in 2 .. k + 1
      BY <1>2, <2>3
    <3>2. i - 1 = j - 1
      BY <1>3, <1>8, <3>1
    <3> QED BY <1>2, <3>1, <3>2
  <2> QED BY <2>1, <2>2, <2>3
<1>10. ToSet(l) = {r} \cup ToSet(q)
  <2>1. ASSUME NEW i \in 1 .. k + 1 PROVE l[i] \in {r} \cup ToSet(q)
    <3>1. i = 1 \/ i \in 2 .. k + 1
      BY <1>2
    <3> QED BY <1>2, <1>6, <1>8, <3>1 DEF ToSet
  <2>2. r \in ToSet(l)
    <3>1. 1 \in DOMAIN l
      BY <1>2, <1>6
    <3> QED BY <1>6, <3>1 DEF ToSet
  <2>3. ASSUME NEW i \in 1 .. k PROVE q[i] \in ToSet(l)
    <3>1. i + 1 \in DOMAIN l
      BY <1>2, <1>6
    <3> QED BY <1>7, <3>1 DEF ToSet
  <2> QED BY <1>2, <1>6, <2>1, <2>2, <2>3 DEF ToSet
<1> QED BY <1>2, <1>4, <1>5, <1>6, <1>7, <1>9, <1>10 DEF k, q, r

\* The next in line is promoted: the line goes on without its first.
LEMMA PromotionKeepsOrder ==
  ASSUME NEW m \in Matches, Sound(m), NEW n, Promotes(m, n)
  PROVE  KeepsOrder(Line(m), Line(n))
<1> DEFINE q == m.join_queue
           s == Line(m)
           t == Line(n)
           k == Len(q)
<1>1. q \in Seq(Players)
  BY DEF Matches
<1>2. CASE m.state # "JOIN_PENDING" \/ q = << >>
  <2>1. s = << >> \/ t = << >>
    BY <1>2 DEF Line, Promotes
  <2> QED BY <2>1, EmptyKeepsOrder
<1>3. CASE m.state = "JOIN_PENDING" /\ q # << >>
  <2>1. t = <<Head(q)>> \o Tail(q)
    BY <1>3 DEF Line, Promotes
  <2>2. t = q
    BY <1>1, <1>3, <2>1, HeadTailProperties
  <2>3. /\ s \in Seq(Players) /\ k \in Nat /\ Len(s) = k + 1 /\ Distinct(s)
        /\ \A i \in 1 .. k : s[i + 1] = q[i]
    BY <1>3, LineFields
  <2> HIDE DEF s, t, k
  <2>4. DOMAIN s = 1 .. k + 1 /\ DOMAIN t = 1 .. k
    BY <1>1, <2>2, <2>3 DEF k
  <2> DEFINE f == [i \in DOMAIN t |-> i + 1]
  <2>5. /\ f \in [DOMAIN t -> DOMAIN s]
        /\ \A i \in DOMAIN t : t[i] = s[f[i]]
        /\ \A i, j \in DOMAIN t : i < j => f[i] < f[j]
        /\ DOMAIN s \subseteq Nat /\ DOMAIN t \subseteq Nat
    BY <2>2, <2>3, <2>4
  <2> HIDE DEF f
  <2>6. KeepsOrder(s, t)
    BY <2>3, <2>5, PartKeepsOrder
  <2> QED BY <2>6 DEF s, t
<1> QED BY <1>2, <1>3

\* Somebody leaves the queue: the others close up.
LEMMA RemovalKeepsOrder ==
  ASSUME NEW m \in Matches, Sound(m), NEW p \in Players
  PROVE  KeepsOrder(Line(m), Line(remove_from_join_queue(m, p)))
<1> DEFINE n == remove_from_join_queue(m, p)
           q == m.join_queue
           s == Line(m)
           t == Line(n)
           r == m.pending_requester_id
           l == Len(q)
<1>1. /\ n.state = m.state /\ n.pending_requester_id = r
      /\ \/ n.join_queue = q
         \/ \E k \in 1 .. Len(q) : q[k] = p /\ n.join_queue = RemoveAt(q, k)
  BY RemovedFields
<1> HIDE DEF n
<1>2. CASE m.state # "JOIN_PENDING" \/ n.join_queue = q
  <2>1. s = t \/ s = << >>
    BY <1>1, <1>2 DEF Line
  <2>2. KeepsOrder(s, t)
    BY <2>1, EmptyKeepsOrder, SameKeepsOrder
  <2> QED BY <2>2 DEF n
<1>3. ASSUME m.state = "JOIN_PENDING", NEW k \in 1 .. Len(q), n.join_queue = RemoveAt(q, k)
      PROVE  KeepsOrder(s, t)
  <2> DEFINE c == RemoveAt(q, k)
             h == <<r>>
  <2>0. q \in Seq(Players) /\ r \in Players
    BY <1>3 DEF Matches, Sound, SeatsMatchState
  <2>1. /\ s \in Seq(Players) /\ l \in Nat /\ Len(s) = l + 1 /\ Distinct(s) /\ s[1] = r
        /\ \A i \in 1 .. l : s[i + 1] = q[i]
    BY <1>3, LineFields
  <2>2. /\ c \in Seq(Players) /\ Len(c) = l - 1
        /\ \A i \in 1 .. l - 1 : c[i] = IF i < k THEN q[i] ELSE q[i + 1]
    BY <2>0, RemoveAtIsSeq
  <2>3. t = h \o c /\ h \in Seq(Players) /\ Len(h) = 1 /\ h[1] = r
    BY <1>1, <1>3, <2>0 DEF Line
  <2> HIDE DEF s, t, c, h, l
  <2>4. k \in 1 .. l
    BY <1>3 DEF l
  <2>5. /\ t \in Seq(Players) /\ Len(t) = 1 + (l - 1)
        /\ \A i \in 1 .. 1 + (l - 1) : t[i] = IF i <= 1 THEN h[i] ELSE c[i - 1]
    <3> DEFINE u == h \o c
    <3>1. h \in Seq(Players) /\ c \in Seq(Players)
      BY <2>2, <2>3
    <3>2. /\ u \in Seq(Players) /\ Len(u) = Len(h) + Len(c)
          /\ \A i \in 1 .. Len(h) + Len(c) : u[i] = IF i <= Len(h) THEN h[i] ELSE c[i - Len(h)]
      BY <3>1, ConcatProperties
    <3>3. t = u
      BY <2>3
    <3> HIDE DEF u
    <3>4. Len(h) = 1 /\ Len(c) = l - 1
      BY <2>2, <2>3
    <3> QED BY <3>2, <3>3, <3>4
  <2>6. DOMAIN s = 1 .. l + 1 /\ DOMAIN t = 1 .. l
    BY <2>1, <2>4, <2>5
  <2> DEFINE f == [i \in DOMAIN t |-> IF i <= k THEN i ELSE i + 1]
  <2>7. /\ f \in [DOMAIN t -> DOMAIN s]
        /\ \A i, j \in DOMAIN t : i < j => f[i] < f[j]
        /\ DOMAIN s \subseteq Nat /\ DOMAIN t \subseteq Nat
    BY <2>1, <2>4, <2>6
  <2>8. ASSUME NEW i \in 1 .. l PROVE t[i] = s[f[i]]
    <3>1. CASE i = 1
      <4>1. i \in 1 .. 1 + (l - 1) /\ i <= 1 /\ i <= k
        BY <2>1, <2>4, <3>1
      <4>2. t[i] = h[i] /\ f[i] = i
        BY <2>5, <2>6, <4>1
      <4> HIDE DEF f
      <4> QED BY <2>1, <2>3, <3>1, <4>2
    <3>2. CASE i # 1
      <4> DEFINE j == i - 1
      <4>1. /\ j \in 1 .. l - 1 /\ j \in 1 .. l /\ j + 1 \in 1 .. l /\ j + 1 = i
            /\ (j < k <=> i <= k) /\ t[i] = c[j]
        BY <2>1, <2>4, <2>5, <3>2
      <4>2. f[i] = IF i <= k THEN j + 1 ELSE (j + 1) + 1
        BY <2>6, <4>1
      <4>3. s[j + 1] = q[j] /\ s[(j + 1) + 1] = q[j + 1]
        BY <2>1, <4>1
      <4>4. c[j] = IF j < k THEN q[j] ELSE q[j + 1]
        BY <2>2, <4>1
      <4> HIDE DEF j, f
      <4> QED BY <4>1, <4>2, <4>3, <4>4
    <3> QED BY <3>1, <3>2
  <2>9. \A i \in DOMAIN t : t[i] = s[f[i]]
    BY <2>6, <2>8
  <2> HIDE DEF f
  <2> QED BY <2>1, <2>7, <2>9, PartKeepsOrder
<1> QED BY <1>1, <1>2, <1>3 DEF n

\* The line of m after a step.
LEMMA StepKeepsOrder ==
  ASSUME TypeOK, NEW id \in DOMAIN matches, Sound(matches[id]), [Next]_vars
  PROVE  KeepsOrder(Line(matches[id]), Line(matches'[id]))
<1> DEFINE m == matches[id]
           n == matches'[id]
           Goal == KeepsOrder(Line(m), Line(n))
<1>1. m \in Matches /\ Sound(m) /\ OwnerPlaysFirst(m)
  BY DEF TypeOK, Sound
<1>2. n.state # "JOIN_PENDING" \/ m.state # "JOIN_PENDING" => Goal
  BY EmptyKeepsOrder DEF Line
<1>3. SameRequests(m, n) /\ n.state = m.state => Goal
  BY SameKeepsOrder DEF Line, SameRequests
<1>4. CASE Keep(id)
  BY <1>3, <1>4, KeptFields
<1>5. ASSUME NEW p \in Players, RequestDone(p, id) PROVE Goal
  <2>1. CASE AskFirst(p, id)
    BY <1>1, <1>2, <2>1 DEF AskFirst, Sound, SeatsMatchState
  <2>2. CASE Queue(p, id)
    <3>1. /\ n.state = m.state /\ n.pending_requester_id = m.pending_requester_id
          /\ n.join_queue = Append(m.join_queue, p)
      BY <1>1, <2>2, RequestFields DEF Queue
    <3>2. p \notin {m.pending_requester_id} \cup ToSet(m.join_queue)
      BY <2>2, NewcomerNotInLine DEF Queue
    <3>3. CASE m.state = "JOIN_PENDING"
      <4> DEFINE h == <<m.pending_requester_id>>
                 q == m.join_queue
      <4>1. m.pending_requester_id \in Players /\ q \in Seq(Players)
        BY <1>1, <3>3 DEF Matches, Sound, SeatsMatchState
      <4>2. Line(m) = h \o q /\ Line(n) = h \o Append(q, p) /\ h \in Seq(Players)
        BY <3>1, <3>3, <4>1 DEF Line
      <4> HIDE DEF h, q
      <4>3. h \o Append(q, p) = Append(h \o q, p)
        BY <4>1, <4>2
      <4>4. Line(m) \in Seq(Players) /\ p \notin ToSet(Line(m))
        BY <1>1, <3>2, <3>3, LineFields
      <4> QED BY <4>2, <4>3, <4>4, AppendKeepsOrder
    <3> QED BY <1>2, <3>3
  <2>3. ASSUME NEW column \in Columns, Drop(p, id, column) PROVE Goal
    BY <1>1, <1>2, <2>3, PlayedFields DEF Drop
  <2>4. CASE TakeOver(p, id) \/ Replay(p, id)
    BY <1>1, <1>2, <2>4, SessionFields DEF TakeOver, Replay
  <2>5. CASE Vote(p, id)
    BY <1>1, <1>3, <2>5, SessionFields DEF Vote
  <2>6. CASE Quit(p, id)
    BY <1>1, <1>2, <1>3, <2>6, LeftFields DEF Quit
  <2> QED BY <1>5, <2>1, <2>2, <2>3, <2>4, <2>5, <2>6 DEF RequestDone
<1>6. ASSUME NEW p \in Players, AnswerDone(p, id) PROVE Goal
  <2>1. CASE Accept(p, id)
    BY <1>1, <1>2, <2>1, AcceptedFields DEF Accept
  <2>2. CASE Refuse(p, id)
    BY <1>1, <2>2, DecisionFields, PromotionKeepsOrder DEF Refuse
  <2>3. CASE Withdraw(p, id)
    BY <1>1, <2>3, DecisionFields, PromotionKeepsOrder DEF Withdraw
  <2>4. CASE LeaveQueue(p, id)
    BY <1>1, <2>4, RemovalKeepsOrder DEF LeaveQueue
  <2> QED BY <1>6, <2>1, <2>2, <2>3, <2>4 DEF AnswerDone
<1>7. ASSUME NEW p \in Players, Clean(p, id) PROVE Goal
  <2>1. n = CleanUp(m, p)
    BY <1>7 DEF Clean
  <2> DEFINE o == CleanUpMessages(m, p, id)
  <2>2. CASE CleanSeat(m, p, id, n, o)
    BY <1>1, <1>2, <1>3, <2>2, LeftFields DEF CleanSeat
  <2>3. CASE CleanRequest(m, p, id, n, o)
    BY <1>1, <2>3, PromoteFields, PromotionKeepsOrder DEF CleanRequest
  <2>4. CASE CleanQueue(m, p, n)
    BY <1>1, <2>4, RemovalKeepsOrder DEF CleanQueue
  <2>5. CASE m.state # "JOIN_PENDING" /\ n = m
    BY <1>2, <2>5
  <2> HIDE DEF o
  <2> QED BY <1>1, <2>1, <2>2, <2>3, <2>4, <2>5, CleanUpCases DEF o
<1> QED BY <1>4, <1>5, <1>6, <1>7, StepEffect

\* The order of the line of a match (FirstComeFirstDecided: the shifting of the
\* array in dequeue_join_request and remove_from_join_queue): whoever stays in
\* the line keeps his place before those behind him and those who come, in
\* every step of every client, whatever the number of matches and of clients.
THEOREM RequestsAreDecidedInOrder == Spec => FirstComeFirstDecided
<1>1. TypeOK /\ AllSound /\ [Next]_vars =>
        [\A id \in DOMAIN matches :
           LET was == Line(matches[id])
               is  == Line(matches'[id])
           IN  \A a \in ToSet(was) \cap ToSet(is), b \in ToSet(is) :
                 b \notin ToSet(was) \/ Before(was, a, b) => Before(is, a, b)]_vars
  <2> SUFFICES ASSUME TypeOK, AllSound, [Next]_vars, NEW id \in DOMAIN matches
               PROVE  KeepsOrder(Line(matches[id]), Line(matches'[id]))
    BY DEF KeepsOrder
  <2>1. Sound(matches[id])
    BY DEF AllSound
  <2> QED BY <2>1, StepKeepsOrder
<1> QED BY <1>1, TypeCorrect, SoundInvariant, PTL DEF Spec, FirstComeFirstDecided
=============================================================================
