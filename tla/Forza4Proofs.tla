---------------------------- MODULE Forza4Proofs ----------------------------
(***************************************************************************)
(* Proofs about the clients and the server together, for any number of     *)
(* either and any number of messages on the way.                           *)
(*                                                                         *)
(* The inductive invariants, one for each part, say of every client        *)
(*   AllTyped    what its record may hold (Clients), given the table;      *)
(*   AllCame     that it has done nothing before its player connected;     *)
(*   AllPut      that the popup of a request in decision is open, on its   *)
(*               way or answered (Put);                                    *)
(*   AllPatient  that who stands on the waiting screen is in the line, or  *)
(*               will hear how his request ended (Patient);                *)
(*   AllAware    that what it will show, once it has handled what is on    *)
(*               its way, is so at the server (Aware).                     *)
(*                                                                         *)
(* A step of the whole is a step of the server, whose effect on the table  *)
(* ObligationProofs has described and whose messages are mail (Mailings),  *)
(* or it is a step of one client alone.  So each invariant is kept in two  *)
(* parts: what arrives, and what the client makes of it.                   *)
(***************************************************************************)
EXTENDS Forza4Properties, ObligationProofs

-----------------------------------------------------------------------------
(* Sequences with some of their elements left out.                         *)

\* f[i] is what is left of the first i elements of s, for every i up to n.
Thins(f, s, kept, n) ==
  f = [i \in 0 .. n |-> IF i = 0 THEN << >>
                        ELSE IF i \in kept THEN Append(f[i - 1], s[i]) ELSE f[i - 1]]

LEMMA ThinsAt ==
  ASSUME NEW f, NEW s, NEW kept, NEW n, Thins(f, s, kept, n), NEW i \in 0 .. n
  PROVE  f[i] = IF i = 0 THEN << >>
                ELSE IF i \in kept THEN Append(f[i - 1], s[i]) ELSE f[i - 1]
<1> DEFINE g == [j \in 0 .. n |-> IF j = 0 THEN << >>
                                  ELSE IF j \in kept THEN Append(f[j - 1], s[j]) ELSE f[j - 1]]
<1>1. g[i] = IF i = 0 THEN << >>
             ELSE IF i \in kept THEN Append(f[i - 1], s[i]) ELSE f[i - 1]
  OBVIOUS
<1>2. f = g
  BY DEF Thins
<1> HIDE DEF g
<1> QED BY <1>1, <1>2

LEMMA ThinningExists ==
  ASSUME NEW s, NEW kept, NEW n \in Nat
  PROVE  \E f : Thins(f, s, kept, n)
<1> DEFINE Next1(f, i) == IF i \in kept THEN Append(f[i - 1], s[i]) ELSE f[i - 1]
           T == {j \in 0 .. n : ~ \E f : Thins(f, s, kept, j)}
<1>1. SUFFICES ASSUME T # {} PROVE FALSE
  <2>1. n \in 0 .. n
    OBVIOUS
  <2> QED BY <2>1
<1>2. PICK t \in T : \A u \in T : t <= u
  <2>1. T \in SUBSET Nat
    OBVIOUS
  <2> HIDE DEF T
  <2> QED BY <1>1, <2>1, LeastExists
<1>3. t \in 0 .. n /\ ~ \E f : Thins(f, s, kept, t)
  BY <1>2
<1>4. CASE t = 0
  <2> DEFINE g == [i \in 0 .. 0 |-> << >>]
  <2>1. g = [i \in 0 .. 0 |-> IF i = 0 THEN << >> ELSE Next1(g, i)]
    OBVIOUS
  <2>2. Thins(g, s, kept, 0)
    BY <2>1 DEF Thins
  <2> QED BY <1>3, <1>4, <2>2
<1>5. CASE t # 0
  <2>1. t - 1 \in 0 .. n /\ t - 1 \notin T
    BY <1>2, <1>3, <1>5
  <2>2. PICK f : Thins(f, s, kept, t - 1)
    BY <2>1
  <2> DEFINE g == [i \in 0 .. t |-> IF i = 0 THEN << >> ELSE Next1(f, i)]
             h == [i \in 0 .. t |-> IF i = 0 THEN << >> ELSE Next1(g, i)]
  <2>3. ASSUME NEW i \in 0 .. t - 1 PROVE f[i] = g[i]
    <3>1. f[i] = IF i = 0 THEN << >> ELSE Next1(f, i)
      BY <2>2, ThinsAt
    <3>2. i \in 0 .. t
      BY <1>3
    <3> QED BY <3>1, <3>2
  <2>4. \A i \in 0 .. t : i # 0 => i - 1 \in 0 .. t - 1
    BY <1>3
  <2>5. \A i \in 0 .. t : i # 0 => f[i - 1] = g[i - 1]
    BY <2>3, <2>4
  <2>6. /\ \A i \in 0 .. t : g[i] = IF i = 0 THEN << >> ELSE Next1(f, i)
        /\ \A i \in 0 .. t : h[i] = IF i = 0 THEN << >> ELSE Next1(g, i)
        /\ g = [i \in 0 .. t |-> g[i]] /\ h = [i \in 0 .. t |-> h[i]]
    OBVIOUS
  <2>7. \A i \in 0 .. t : g[i] = h[i]
    <3> HIDE DEF g, h
    <3> QED BY <2>5, <2>6
  <2>8. g = h
    <3> HIDE DEF g, h
    <3> QED BY <2>6, <2>7
  <2>9. Thins(g, s, kept, t)
    <3> HIDE DEF g
    <3> QED BY <2>8 DEF Thins
  <2> QED BY <1>3, <2>9
<1> QED BY <1>4, <1>5

LEMMA SelectThins ==
  ASSUME NEW s, NEW kept, Len(s) \in Nat
  PROVE  \E f : Thins(f, s, kept, Len(s)) /\ SelectPlaces(s, kept) = f[Len(s)]
<1> DEFINE f == CHOOSE f : Thins(f, s, kept, Len(s))
<1>1. Thins(f, s, kept, Len(s))
  BY ThinningExists
<1>2. SelectPlaces(s, kept) = f[Len(s)]
  BY DEF SelectPlaces, Thins
<1> HIDE DEF f
<1> QED BY <1>1, <1>2

\* What is selected is a sequence of what may be selected.
LEMMA SelectType ==
  ASSUME NEW S, NEW s \in Seq(S), NEW kept, NEW T, \A i \in DOMAIN s : i \in kept => s[i] \in T
  PROVE  SelectPlaces(s, kept) \in Seq(T)
<1> DEFINE n == Len(s)
<1>1. n \in Nat /\ DOMAIN s = 1 .. n
  OBVIOUS
<1>2. PICK f : Thins(f, s, kept, n) /\ SelectPlaces(s, kept) = f[n]
  BY <1>1, SelectThins
<1> HIDE DEF n
<1> DEFINE P(i) == f[i] \in Seq(T)
           W == {i \in 0 .. n : ~P(i)}
<1>3. SUFFICES ASSUME W # {} PROVE FALSE
  <2>1. n \in 0 .. n
    BY <1>1
  <2> QED BY <1>2, <2>1
<1>4. PICK t \in W : \A u \in W : t <= u
  <2>1. W \in SUBSET Nat
    BY <1>1
  <2> HIDE DEF W
  <2> QED BY <1>3, <2>1, LeastExists
<1>5. t \in 0 .. n /\ ~P(t)
  BY <1>4
<1>6. f[t] = IF t = 0 THEN << >> ELSE IF t \in kept THEN Append(f[t - 1], s[t]) ELSE f[t - 1]
  BY <1>2, <1>5, ThinsAt
<1>7. CASE t = 0
  BY <1>5, <1>6, <1>7
<1>8. CASE t # 0
  <2>1. t - 1 \in 0 .. n /\ ~(t <= t - 1) /\ t \in DOMAIN s
    BY <1>1, <1>5, <1>8
  <2>2. P(t - 1)
    BY <1>4, <2>1
  <2>3. t \in kept => s[t] \in T
    BY <2>1
  <2> HIDE DEF W
  <2> QED BY <1>5, <1>6, <1>8, <2>2, <2>3
<1> QED BY <1>7, <1>8

\* Nothing that may be selected is lost.
LEMMA SelectHolds ==
  ASSUME NEW S, NEW s \in Seq(S), NEW kept, NEW i \in DOMAIN s, i \in kept
  PROVE  \E l \in DOMAIN SelectPlaces(s, kept) : SelectPlaces(s, kept)[l] = s[i]
<1> DEFINE n == Len(s)
<1>1. n \in Nat /\ DOMAIN s = 1 .. n /\ \A j \in 1 .. n : s[j] \in S
  OBVIOUS
<1>2. PICK f : Thins(f, s, kept, n) /\ SelectPlaces(s, kept) = f[n]
  BY <1>1, SelectThins
<1>3. \A j \in 0 .. n : f[j] \in Seq(S)
  <2> DEFINE P(j) == f[j] \in Seq(S)
             W == {j \in 0 .. n : ~P(j)}
  <2>1. SUFFICES ASSUME W # {} PROVE FALSE
    OBVIOUS
  <2> HIDE DEF n
  <2>2. PICK t \in W : \A u \in W : t <= u
    <3>1. W \in SUBSET Nat
      BY <1>1
    <3> HIDE DEF W
    <3> QED BY <2>1, <3>1, LeastExists
  <2>3. t \in 0 .. n /\ ~P(t)
    BY <2>2
  <2>4. f[t] = IF t = 0 THEN << >> ELSE IF t \in kept THEN Append(f[t - 1], s[t]) ELSE f[t - 1]
    BY <1>2, <2>3, ThinsAt
  <2>5. CASE t = 0
    BY <2>3, <2>4, <2>5
  <2>6. CASE t # 0
    <3>1. t - 1 \in 0 .. n /\ ~(t <= t - 1) /\ s[t] \in S
      BY <1>1, <2>3, <2>6
    <3>2. P(t - 1)
      BY <2>2, <3>1
    <3> HIDE DEF W
    <3> QED BY <2>3, <2>4, <2>6, <3>1, <3>2
  <2> QED BY <2>5, <2>6
<1> HIDE DEF n
<1> DEFINE P(j) == \E l \in DOMAIN f[j] : f[j][l] = s[i]
           W == {j \in i .. n : ~P(j)}
<1>4. SUFFICES ASSUME W # {} PROVE FALSE
  <2>1. n \in i .. n
    BY <1>1
  <2> QED BY <1>2, <2>1
<1>5. PICK t \in W : \A u \in W : t <= u
  <2>1. W \in SUBSET Nat
    BY <1>1
  <2> HIDE DEF W
  <2> QED BY <1>4, <2>1, LeastExists
<1>6. t \in i .. n /\ t \in 1 .. n /\ t \in 0 .. n /\ t # 0 /\ ~P(t)
  BY <1>1, <1>5
<1>7. f[t] = IF t \in kept THEN Append(f[t - 1], s[t]) ELSE f[t - 1]
  BY <1>2, <1>6, ThinsAt
<1> DEFINE a == f[t - 1]
<1>8. a \in Seq(S) /\ s[t] \in S
  <2>1. t - 1 \in 0 .. n
    BY <1>1, <1>6
  <2> QED BY <1>1, <1>3, <1>6, <2>1
<1>9. CASE t = i
  <2> HIDE DEF a
  <2>1. f[t] = Append(a, s[t])
    BY <1>7, <1>9 DEF a
  <2>2. Len(a) + 1 \in DOMAIN f[t] /\ f[t][Len(a) + 1] = s[t]
    BY <1>8, <2>1
  <2> QED BY <1>6, <1>9, <2>2
<1>10. CASE t # i
  <2>1. t - 1 \in i .. n /\ ~(t <= t - 1)
    BY <1>1, <1>6, <1>10
  <2>2. P(t - 1)
    BY <1>5, <2>1
  <2>3. PICK l \in DOMAIN a : a[l] = s[i]
    BY <2>2
  <2> HIDE DEF a, W
  <2>4. l \in DOMAIN f[t] /\ f[t][l] = a[l]
    BY <1>7, <1>8, <2>3 DEF a
  <2> QED BY <1>6, <2>3, <2>4
<1> QED BY <1>9, <1>10

\* A list of lists, flattened.
LEMMA FlattenType ==
  ASSUME NEW S, NEW s \in Seq(Seq(S))
  PROVE  FlattenSeq(s) \in Seq(S)
<1> DEFINE n == Len(s)
<1>1. n \in Nat /\ \A j \in 1 .. n : s[j] \in Seq(S)
  OBVIOUS
<1>2. CASE n = 0
  <2>1. s = << >> /\ << >> \in Seq(S)
    BY <1>2
  <2> QED BY <1>2, <2>1 DEF FlattenSeq
<1>3. CASE n # 0
  <2>1. PICK f : Gathers(f, s, n) /\ FlattenSeq(s) = f[n]
    BY <1>1, <1>3, FlattenGathers
  <2> HIDE DEF n
  <2> DEFINE W == {j \in 1 .. n : f[j] \notin Seq(S)}
  <2>2. SUFFICES ASSUME W # {} PROVE FALSE
    BY <1>1, <1>3, <2>1
  <2>3. PICK t \in W : \A u \in W : t <= u
    <3>1. W \in SUBSET Nat
      BY <1>1
    <3> HIDE DEF W
    <3> QED BY <2>2, <3>1, LeastExists
  <2>4. t \in 1 .. n /\ f[t] \notin Seq(S)
    BY <2>3
  <2>5. f[t] = IF t = 1 THEN s[t] ELSE f[t - 1] \o s[t]
    BY <2>1, <2>4, GathersAt
  <2>6. t # 1
    BY <1>1, <2>4, <2>5
  <2>7. t - 1 \in 1 .. n /\ ~(t <= t - 1)
    BY <1>1, <2>4, <2>6
  <2> DEFINE a == f[t - 1]
             b == s[t]
  <2>8. a \in Seq(S) /\ b \in Seq(S) /\ f[t] = a \o b
    BY <1>1, <2>3, <2>4, <2>5, <2>6, <2>7
  <2> HIDE DEF a, b, W
  <2>9. a \o b \in Seq(S)
    BY <2>8, ConcatProperties
  <2> QED BY <2>4, <2>8, <2>9
<1> QED BY <1>2, <1>3

-----------------------------------------------------------------------------
(* What the server may send.                                               *)

\* The requests that are answered, and what else is sent.
AnswerNames == {"register", "unknown", "create_match", "list_matches", "join_match",
                "accept_join", "reject_join", "cancel_join", "move", "rematch"}

NoticeNames == {"match_started", "match_unavailable", "match_closed", "opponent_left", "move",
                "join_request", "join_request_obsolete", "join_request_promoted",
                "join_request_rejected"}

Contents ==
  Details \cup {"error", "full", "new_session", "waiting_for_opponent_vote",
                "not_active", "not_turn", "invalid"}
          \cup SUBSET (Nat \X MatchStates)

\* The answers that make a client enter a match.
Entering == {"create_match", "join_match", "rematch"}

\* A message names a match of the table wherever the client will look it up,
\* and a request to take part names the one that is pending on it.
Letters(table) ==
  {msg \in [type   : {"RESPONSE", "NOTIFICATION"},
            action : AnswerNames \cup NoticeNames,
            match  : Nat,
            detail : Contents] :
     /\ msg.type = "NOTIFICATION" => msg.match \in DOMAIN table
     /\ msg.type = "NOTIFICATION" /\ msg.action = "join_request" =>
          /\ msg.detail = table[msg.match].pending_requester_id
          /\ msg.detail \in Players
     /\ msg.type = "RESPONSE" /\ msg.action \in Entering /\ msg.detail \in Statuses =>
          msg.match \in DOMAIN table
     /\ msg.type = "RESPONSE" => msg.action \in AnswerNames
     /\ msg.type = "RESPONSE" /\ msg.action = "move" => msg.detail \notin Statuses}

\* Nothing is sent to a client who is not there.
Mailings(table) ==
  {o \in [Players -> Seq(Letters(table))] : \A q \in Players : ~Connected(q) => o[q] = << >>}

LEMMA SilenceIsMail == \A table : Silence \in Mailings(table)
<1> SUFFICES ASSUME NEW table PROVE Silence \in Mailings(table)
  OBVIOUS
<1>1. << >> \in Seq(Letters(table))
  OBVIOUS
<1> QED BY <1>1 DEF Silence, Mailings

LEMMA SendIsMail ==
  ASSUME NEW table, NEW msg \in Letters(table), NEW recipients
  PROVE  Send(recipients, msg) \in Mailings(table)
<1>1. <<msg>> \in Seq(Letters(table)) /\ << >> \in Seq(Letters(table))
  OBVIOUS
<1> QED BY <1>1 DEF Send, Mailings

LEMMA BothAreMail ==
  ASSUME NEW table, NEW a \in Mailings(table), NEW b \in Mailings(table)
  PROVE  a ++ b \in Mailings(table)
<1>1. ASSUME NEW q \in Players PROVE a[q] \o b[q] \in Seq(Letters(table))
  BY ConcatProperties DEF Mailings
<1>2. ASSUME NEW q \in Players, ~Connected(q) PROVE a[q] \o b[q] = << >>
  BY <1>2 DEF Mailings
<1> QED BY <1>1, <1>2 DEF ++, Mailings

LEMMA AnswerIsMail ==
  ASSUME NEW table, NEW action \in AnswerNames, NEW id \in Nat, NEW detail \in Contents,
         action \in Entering /\ detail \in Statuses => id \in DOMAIN table,
         action = "move" => detail \notin Statuses,
         NEW recipients
  PROVE  Send(recipients, Response(action, id, detail)) \in Mailings(table)
<1>1. Response(action, id, detail) \in Letters(table)
  BY DEF Response, Letters
<1> QED BY <1>1, SendIsMail

LEMMA NoticeIsMail ==
  ASSUME NEW table, NEW action \in NoticeNames, action # "join_request",
         NEW id \in DOMAIN table, id \in Nat, NEW detail \in Contents, NEW recipients
  PROVE  Send(recipients, Notification(action, id, detail)) \in Mailings(table)
<1>1. Notification(action, id, detail) \in Letters(table)
  BY DEF Notification, Letters
<1> QED BY <1>1, SendIsMail

LEMMA AskIsMail ==
  ASSUME NEW table, NEW id \in DOMAIN table, id \in Nat,
         table[id].pending_requester_id \in Players
  PROVE  Ask(table[id], id) \in Mailings(table)
<1> DEFINE q == table[id].pending_requester_id
<1>1. q \in Contents
  BY DEF Contents, Details
<1> HIDE DEF q
<1>2. "join_request" \in NoticeNames
  BY DEF NoticeNames
<1>3. Notification("join_request", id, q) \in Letters(table)
  BY <1>1, <1>2 DEF Notification, Letters, q
<1> QED BY <1>3, SendIsMail DEF Ask, q

-----------------------------------------------------------------------------
(* What the handlers send.                                                 *)

LEMMA AnnouncementsAreMail ==
  ASSUME NEW table, NEW id \in DOMAIN table, id \in Nat, NEW m \in Matches, NEW p, NEW q,
         NEW reason \in {"left", "disconnect"}
  PROVE  /\ Started(m, id) \in Mailings(table)
         /\ Closed(m, id) \in Mailings(table)
         /\ Unavailable(id, p, q) \in Mailings(table)
         /\ LeftMessages(m, p, id, reason) \in Mailings(table)
         /\ table[id] \in Matches => AnnouncePromotion(table[id], id) \in Mailings(table)
<1>1. /\ m.player1_id \in Contents /\ m.player2_id \in Contents
      /\ {"all", "closed", "started", "left", "disconnect", "pending"} \subseteq Contents
  BY DEF Matches, Contents, Details, Words
<1>2. /\ {"match_started", "match_unavailable", "match_closed", "opponent_left",
          "join_request_obsolete", "join_request_promoted"} \subseteq NoticeNames
      /\ \A a \in {"match_started", "match_unavailable", "match_closed", "opponent_left",
                   "join_request_obsolete", "join_request_promoted"} : a # "join_request"
  BY DEF NoticeNames
<1>3. Started(m, id) \in Mailings(table)
  <2>1. /\ Send({m.player1_id}, Notification("match_started", id, m.player2_id))
             \in Mailings(table)
        /\ Send({m.player2_id}, Notification("match_started", id, m.player1_id))
             \in Mailings(table)
    BY <1>1, <1>2, NoticeIsMail
  <2> QED BY <2>1, BothAreMail DEF Started
<1>4. Closed(m, id) \in Mailings(table)
  BY <1>1, <1>2, NoticeIsMail DEF Closed
<1>5. \A a, b : Unavailable(id, a, b) \in Mailings(table)
  BY <1>1, <1>2, NoticeIsMail DEF Unavailable
<1>6. LeftMessages(m, p, id, reason) \in Mailings(table)
  <2> DEFINE o == get_opponent_id(m, p)
             l == Send({o}, Notification("opponent_left", id, reason))
             c == Send({o}, Notification("match_closed", id, "closed"))
             u == Unavailable(id, p, o)
  <2>1. l \in Mailings(table) /\ c \in Mailings(table)
    BY <1>1, <1>2, NoticeIsMail
  <2>2. u \in Mailings(table)
    BY <1>5
  <2>3. LeftMessages(m, p, id, reason) \in {l ++ u, Closed(m, id), c, Silence}
    BY DEF LeftMessages
  <2> HIDE DEF l, c, u
  <2> QED BY <1>4, <2>1, <2>2, <2>3, BothAreMail, SilenceIsMail
<1>7. ASSUME table[id] \in Matches PROVE AnnouncePromotion(table[id], id) \in Mailings(table)
  <2> DEFINE r == table[id].pending_requester_id
             b == Send({r}, Notification("join_request_promoted", id, "pending"))
  <2>1. CASE r = NoPlayer
    BY <2>1, SilenceIsMail DEF AnnouncePromotion
  <2>2. CASE r # NoPlayer
    <3>1. r \in Players
      BY <1>7, <2>2 DEF Matches
    <3>2. Ask(table[id], id) \in Mailings(table)
      BY <3>1, AskIsMail
    <3>3. b \in Mailings(table)
      BY <1>1, <1>2, NoticeIsMail
    <3>4. AnnouncePromotion(table[id], id) = Ask(table[id], id) ++ b
      BY <2>2 DEF AnnouncePromotion
    <3> HIDE DEF b
    <3> QED BY <3>2, <3>3, <3>4, BothAreMail
  <2> QED BY <2>1, <2>2
<1> QED BY <1>3, <1>4, <1>5, <1>6, <1>7

LEMMA CleanUpIsMail ==
  ASSUME NEW table, NEW id \in DOMAIN table, id \in Nat, NEW m \in Matches, NEW p \in Players,
         table[id] = CleanUp(m, p), table[id] \in Matches
  PROVE  CleanUpMessages(m, p, id) \in Mailings(table)
<1>1. CASE /\ m.state = "JOIN_PENDING" /\ m.creator_id # p /\ m.pending_requester_id = p
  <2>1. table[id] = PromoteNext(m) /\ CleanUpMessages(m, p, id) = AnnouncePromotion(table[id], id)
    BY <1>1 DEF CleanUp, CleanUpMessages
  <2> QED BY <2>1, AnnouncementsAreMail
<1>2. CASE ~(m.state = "JOIN_PENDING" /\ m.creator_id # p /\ m.pending_requester_id = p)
  <2>1. CleanUpMessages(m, p, id)
          \in {LeftMessages(m, p, id, "disconnect"), Closed(m, id), Silence}
    BY <1>2 DEF CleanUpMessages
  <2>2. LeftMessages(m, p, id, "disconnect") \in Mailings(table) /\ Closed(m, id) \in Mailings(table)
    BY AnnouncementsAreMail
  <2> QED BY <2>1, <2>2, SilenceIsMail
<1> QED BY <1>1, <1>2

\* A request that fails.
LEMMA FailureIsMail ==
  ASSUME NEW table, NEW p, NEW action \in AnswerNames, NEW id \in Nat,
         NEW error \in {"error", "full", "not_active", "not_turn", "invalid"}
  PROVE  Send({p}, Response(action, id, error)) \in Mailings(table)
<1>1. error \in Contents /\ error \notin Statuses
  BY DEF Contents, Statuses
<1> QED BY <1>1, AnswerIsMail

\* Words that may be the answer to a request about a match there is.
LEMMA AnswerAboutMatchIsMail ==
  ASSUME NEW table, NEW p, NEW action \in AnswerNames \ {"move"}, NEW id \in DOMAIN table, id \in Nat,
         NEW word \in {"ok", "pending", "queued", "new_session", "waiting_for_opponent_vote"}
  PROVE  Send({p}, Response(action, id, word)) \in Mailings(table)
<1>1. word \in Contents
  BY DEF Contents, Details, Words
<1> QED BY <1>1, AnswerIsMail

LEMMA RequestIsMail ==
  ASSUME TypeOK, TypeOK', DOMAIN matches \subseteq DOMAIN matches', NEW p \in Players, Request(p)
  PROVE  out' \in Mailings(matches')
<1>0. /\ matches \in Seq(Matches) /\ matches' \in Seq(Matches)
      /\ \A id \in DOMAIN matches : id \in DOMAIN matches' /\ id \in Nat
  BY DEF TypeOK
<1>1. {"register", "unknown", "create_match", "list_matches", "join_match", "rematch"}
        \subseteq AnswerNames \ {"move"} /\ "move" \in AnswerNames
  BY DEF AnswerNames
<1>2. ASSUME NEW action \in AnswerNames, NEW id \in Nat, NEW error,
             error \in {"error", "full", "not_active", "not_turn", "invalid"},
             Fails(p, action, id, error)
      PROVE  out' \in Mailings(matches')
  BY <1>2, FailureIsMail DEF Fails
<1>3. CASE Register(p)
  <2>1. "ok" \in Contents /\ "register" \notin Entering
    BY DEF Contents, Details, Words, Entering
  <2> QED BY <1>1, <1>3, <2>1, AnswerIsMail DEF Register
<1>4. CASE UnknownAction(p)
  BY <1>1, <1>4, FailureIsMail DEF UnknownAction
<1>5. CASE ListMatches(p)
  <2> DEFINE l == {<<id, matches[id].state>> : id \in {i \in DOMAIN matches : Listed(i)}}
  <2>1. l \in SUBSET (Nat \X MatchStates)
    <3>1. ASSUME NEW id \in DOMAIN matches PROVE <<id, matches[id].state>> \in Nat \X MatchStates
      <4>1. matches[id] \in Matches /\ id \in Nat
        BY <1>0
      <4>2. matches[id].state \in MatchStates
        BY <4>1 DEF Matches
      <4> QED BY <4>1, <4>2
    <3> QED BY <3>1
  <2> HIDE DEF l
  <2>2. l \in Contents /\ "list_matches" \notin Entering
    BY <2>1 DEF Contents, Entering
  <2> QED BY <1>1, <1>5, <2>2, AnswerIsMail DEF ListMatches, l
<1>6. CASE CreateMatch(p)
  <2>1. CASE Fails(p, "create_match", 0, "error")
    BY <1>1, <1>2, <2>1
  <2>2. CASE /\ matches' = Append(matches, create_match(p))
             /\ out' = Send({p}, Response("create_match", Len(matches'), "ok"))
    <3>1. Len(matches') \in DOMAIN matches' /\ Len(matches') \in Nat
      BY <1>0, <2>2
    <3> QED BY <1>1, <2>2, <3>1, AnswerAboutMatchIsMail
  <2> QED BY <1>6, <2>1, <2>2 DEF CreateMatch
<1>7. ASSUME NEW id \in MatchIds, JoinMatch(p, id) PROVE out' \in Mailings(matches')
  <2> DEFINE m == matches'[id]
             answer(word) == Send({p}, Response("join_match", id, word))
  <2>1. CASE Fails(p, "join_match", id, "error") \/ Fails(p, "join_match", id, "full")
    BY <1>1, <1>2, <2>1 DEF MatchIds
  <2>2. CASE /\ Found(id) /\ matches' = [matches EXCEPT ![id] = AskedFirst(@, p)]
             /\ out' = answer("pending") ++ Ask(m, id)
    <3>1. id \in DOMAIN matches /\ id \in DOMAIN matches' /\ id \in Nat
      BY <1>0, <2>2 DEF Found
    <3>2. matches[id] \in Matches /\ m = AskedFirst(matches[id], p)
      BY <1>0, <2>2, <3>1
    <3>3. m.pending_requester_id \in Players
      BY <3>2, RequestFields
    <3>4. answer("pending") \in Mailings(matches') /\ Ask(m, id) \in Mailings(matches')
      BY <1>1, <3>1, <3>3, AskIsMail, AnswerAboutMatchIsMail
    <3> HIDE DEF answer
    <3> QED BY <2>2, <3>4, BothAreMail
  <2>3. CASE Found(id) /\ out' = answer("queued")
    BY <1>0, <1>1, <2>3, AnswerAboutMatchIsMail DEF Found
  <2> QED BY <1>7, <2>1, <2>2, <2>3 DEF JoinMatch
<1>8. ASSUME NEW id \in MatchIds, NEW column \in Columns, Move(p, id, column)
      PROVE  out' \in Mailings(matches')
  <2> DEFINE result == MoveResult(matches[id], p, column)
             m == matches[id]
             u == Unavailable(id, m.player1_id, m.player2_id)
             s == Send({m.player1_id, m.player2_id}, Notification("move", id, result))
  <2>1. result \in {"not_active", "not_turn", "invalid", "win", "draw", "ok"}
    BY DEF MoveResult
  <2>2. CASE Fails(p, "move", id, "error") \/ (result \notin Accepted /\ Fails(p, "move", id, result))
    <3>1. CASE Fails(p, "move", id, "error")
      BY <1>1, <1>2, <3>1 DEF MatchIds
    <3>2. CASE result \notin Accepted /\ Fails(p, "move", id, result)
      <4>1. result \in {"error", "full", "not_active", "not_turn", "invalid"} /\ id \in Nat
        BY <2>1, <3>2 DEF Accepted, MatchIds
      <4> HIDE DEF result
      <4> QED BY <1>1, <1>2, <3>2, <4>1
    <3> QED BY <2>2, <3>1, <3>2
  <2>3. CASE Found(id) /\ out' = (IF result = "ok" THEN Silence ELSE u) ++ s /\ result \in Accepted
    <3>1. id \in DOMAIN matches /\ id \in DOMAIN matches' /\ id \in Nat
      BY <1>0, <2>3 DEF Found
    <3>2. m \in Matches
      BY <1>0, <3>1
    <3>3. u \in Mailings(matches')
      BY <3>1, <3>2, AnnouncementsAreMail
    <3>4. result \in Contents /\ "move" \in NoticeNames /\ "move" # "join_request"
      BY <2>3 DEF Accepted, Contents, Details, Words, NoticeNames
    <3> HIDE DEF result
    <3>5. s \in Mailings(matches')
      BY <3>1, <3>4, NoticeIsMail
    <3> HIDE DEF u, s
    <3> QED BY <2>3, <3>3, <3>5, BothAreMail, SilenceIsMail
  <2> QED BY <1>8, <2>2, <2>3 DEF Move
<1>9. ASSUME NEW id \in MatchIds, Rematch(p, id) PROVE out' \in Mailings(matches')
  <2> DEFINE answer(word) == Send({p}, Response("rematch", id, word))
  <2>1. CASE Fails(p, "rematch", id, "error")
    BY <1>1, <1>2, <2>1 DEF MatchIds
  <2>2. CASE Found(id)
    <3>1. id \in DOMAIN matches' /\ id \in Nat /\ matches'[id] \in Matches
      BY <1>0, <2>2 DEF Found
    <3>2. /\ answer("new_session") \in Mailings(matches') /\ answer("ok") \in Mailings(matches')
          /\ answer("waiting_for_opponent_vote") \in Mailings(matches')
      BY <1>1, <3>1, AnswerAboutMatchIsMail
    <3>3. Started(matches'[id], id) \in Mailings(matches')
      BY <3>1, AnnouncementsAreMail
    <3> HIDE DEF answer
    <3>4. answer("ok") ++ Started(matches'[id], id) \in Mailings(matches')
      BY <3>2, <3>3, BothAreMail
    <3> QED BY <1>9, <2>1, <3>2, <3>4 DEF Rematch, answer
  <2> QED BY <1>9, <2>1, <2>2 DEF Rematch, MayRematch
<1>10. ASSUME NEW id \in MatchIds, QuitMatch(p, id) PROVE out' \in Mailings(matches')
  <2>1. CASE out' = Silence
    BY <2>1, SilenceIsMail
  <2>2. CASE Found(id) /\ out' = LeftMessages(matches[id], p, id, "left")
    BY <1>0, <2>2, AnnouncementsAreMail DEF Found
  <2> QED BY <1>10, <2>1, <2>2 DEF QuitMatch
<1> QED BY <1>3, <1>4, <1>5, <1>6, <1>7, <1>8, <1>9, <1>10 DEF Request

LEMMA AnswersAreMail ==
  ASSUME TypeOK, TypeOK', DOMAIN matches \subseteq DOMAIN matches',
         NEW p \in Players, NEW id \in MatchIds, Answer(p, id)
  PROVE  out' \in Mailings(matches')
<1>0. /\ matches \in Seq(Matches) /\ matches' \in Seq(Matches) /\ id \in Nat
      /\ id \in DOMAIN matches => /\ id \in DOMAIN matches' /\ matches[id] \in Matches
                                  /\ matches'[id] \in Matches
  BY DEF TypeOK, MatchIds
<1>1. /\ {"accept_join", "reject_join", "cancel_join"} \subseteq AnswerNames \ {"move"}
      /\ \A action \in {"accept_join", "reject_join", "cancel_join"} : action \notin Entering
  BY DEF AnswerNames, Entering
<1>2. ASSUME NEW action \in {"accept_join", "reject_join"}, NothingToDecide(p, action, id)
      PROVE  out' \in Mailings(matches')
  <2>1. CASE Fails(p, action, id, "error")
    BY <1>0, <1>1, <1>2, <2>1, FailureIsMail DEF Fails
  <2>2. CASE /\ Found(id) /\ matches[id].withdrawn_requester_id # NoPlayer
             /\ out' = Send({p}, Response(action, id, matches[id].withdrawn_requester_id))
    <3> DEFINE w == matches[id].withdrawn_requester_id
    <3>1. w \in Contents
      BY <1>0, <2>2 DEF Found, Matches, Contents, Details
    <3> HIDE DEF w
    <3> QED BY <1>0, <1>1, <1>2, <2>2, <3>1, AnswerIsMail DEF w
  <2> QED BY <1>2, <2>1, <2>2 DEF NothingToDecide
<1>3. CASE AcceptJoin(p, id)
  <2>1. CASE HasRequestFor(p, id)
    <3> DEFINE m == matches[id]
               r == m.pending_requester_id
               a == Send({p}, Response("accept_join", id, "ok"))
               b == Send({m.player1_id}, Notification("match_started", id, r))
               c == Send({r}, Notification("match_started", id, m.player1_id))
               d == Send(ToSet(m.join_queue), Notification("join_request_obsolete", id, "started"))
               e == Unavailable(id, m.player1_id, r)
    <3>1. id \in DOMAIN matches /\ id \in DOMAIN matches' /\ m \in Matches
      BY <1>0, <2>1 DEF HasRequestFor, Found
    <3>2. r \in Contents /\ m.player1_id \in Contents /\ "started" \in Contents
      BY <3>1 DEF Matches, Contents, Details, Words
    <3>3. {"match_started", "join_request_obsolete"} \subseteq NoticeNames
      BY DEF NoticeNames
    <3>4. a \in Mailings(matches') /\ e \in Mailings(matches')
      BY <1>0, <1>1, <3>1, AnswerAboutMatchIsMail, AnnouncementsAreMail
    <3>5. b \in Mailings(matches') /\ c \in Mailings(matches') /\ d \in Mailings(matches')
      BY <1>0, <3>1, <3>2, <3>3, NoticeIsMail
    <3>6. out' = a ++ b ++ c ++ d ++ e
      BY <1>3, <2>1 DEF AcceptJoin, NothingToDecide
    <3> HIDE DEF a, b, c, d, e
    <3>7. a ++ b ++ c \in Mailings(matches')
      BY <3>4, <3>5, BothAreMail
    <3> QED BY <3>4, <3>5, <3>6, <3>7, BothAreMail
  <2> QED BY <1>2, <1>3, <2>1 DEF AcceptJoin
<1>4. CASE RejectJoin(p, id)
  <2>1. CASE HasRequestFor(p, id)
    <3> DEFINE r == matches[id].pending_requester_id
               a == Send({p}, Response("reject_join", id, "ok"))
               b == Send({r}, Notification("join_request_rejected", id, p))
               c == AnnouncePromotion(matches'[id], id)
    <3>1. id \in DOMAIN matches /\ id \in DOMAIN matches'
      BY <1>0, <2>1 DEF HasRequestFor, Found
    <3>2. p \in Contents /\ "join_request_rejected" \in NoticeNames
      BY DEF Contents, Details, NoticeNames
    <3>3. a \in Mailings(matches') /\ c \in Mailings(matches')
      BY <1>0, <1>1, <3>1, AnswerAboutMatchIsMail, AnnouncementsAreMail
    <3>4. b \in Mailings(matches')
      BY <1>0, <3>1, <3>2, NoticeIsMail
    <3>5. out' = a ++ b ++ c
      BY <1>4, <2>1 DEF RejectJoin, NothingToDecide
    <3> HIDE DEF a, b, c
    <3> QED BY <3>3, <3>4, <3>5, BothAreMail
  <2> QED BY <1>2, <1>4, <2>1 DEF RejectJoin
<1>5. CASE CancelJoin(p, id)
  <2> DEFINE a == AnnouncePromotion(matches'[id], id)
             b == Send({p}, Response("cancel_join", id, "ok"))
  <2>1. b \in Mailings(matches')
    <3>1. "ok" \in Contents
      BY DEF Contents, Details, Words
    <3> QED BY <1>0, <1>1, <3>1, AnswerIsMail
  <2>2. Found(id) => a \in Mailings(matches')
    BY <1>0, AnnouncementsAreMail DEF Found
  <2>3. out' = b \/ (Found(id) /\ out' = a ++ b)
    BY <1>5 DEF CancelJoin
  <2> HIDE DEF a, b
  <2> QED BY <2>1, <2>2, <2>3, BothAreMail
<1> QED BY <1>3, <1>4, <1>5 DEF Answer

LEMMA DisconnectionIsMail ==
  ASSUME TypeOK, TypeOK', NEW p \in Players, Disconnect(p)
  PROVE  out' \in Mailings(matches')
<1> DEFINE s(q) == [id \in DOMAIN matches |-> CleanUpMessages(matches[id], p, id)[q]]
<1>1. /\ matches \in Seq(Matches) /\ DOMAIN matches = 1 .. Len(matches) /\ Len(matches) \in Nat
      /\ matches' \in Seq(Matches)
  BY DEF TypeOK
<1>2. ASSUME NEW id \in DOMAIN matches
      PROVE  CleanUpMessages(matches[id], p, id) \in Mailings(matches')
  <2>1. id \in DOMAIN matches' /\ id \in Nat /\ matches[id] \in Matches
    BY <1>1 DEF Disconnect
  <2>2. matches'[id] \in Matches /\ matches'[id] = CleanUp(matches[id], p)
    BY <1>1, <2>1 DEF Disconnect
  <2> QED BY <2>1, <2>2, CleanUpIsMail
<1>3. ASSUME NEW q \in Players PROVE FlattenSeq(s(q)) \in Seq(Letters(matches'))
  <2>1. \A id \in 1 .. Len(matches) :
          CleanUpMessages(matches[id], p, id)[q] \in Seq(Letters(matches'))
    BY <1>1, <1>2 DEF Mailings
  <2>2. s(q) \in Seq(Seq(Letters(matches')))
    BY <1>1, <2>1, IsASeq
  <2> HIDE DEF s
  <2> QED BY <2>2, FlattenType
<1>4. ASSUME NEW q \in Players, ~Connected(q) PROVE FlattenSeq(s(q)) = << >>
  <2>1. << >> \in Seq({})
    OBVIOUS
  <2>2. \A id \in 1 .. Len(matches) : CleanUpMessages(matches[id], p, id)[q] \in Seq({})
    BY <1>1, <1>2, <1>4, <2>1 DEF Mailings
  <2>3. s(q) \in Seq(Seq({}))
    BY <1>1, <2>2, IsASeq
  <2> HIDE DEF s
  <2>4. FlattenSeq(s(q)) \in Seq({})
    BY <2>3, FlattenType
  <2> QED BY <2>4
<1>5. out' = [q \in Players |-> FlattenSeq(s(q))]
  BY DEF Disconnect
<1> HIDE DEF s
<1> QED BY <1>3, <1>4, <1>5 DEF Mailings

\* Whatever is sent is mail.
LEMMA StepIsMail ==
  ASSUME TypeOK, TypeOK', Next
  PROVE  out' \in Mailings(matches')
<1>1. DOMAIN matches \subseteq DOMAIN matches'
  BY TableGrows
<1>2. CASE RefuseConnection
  BY <1>2, SilenceIsMail DEF RefuseConnection
<1>3. ASSUME NEW p \in Players, Session(p) PROVE out' \in Mailings(matches')
  BY <1>3, DisconnectionIsMail, SilenceIsMail DEF Session, Connect, MarkDisconnected
<1> QED BY <1>1, <1>2, <1>3, RequestIsMail, AnswersAreMail DEF Next

-----------------------------------------------------------------------------
(* What arrives at a client.                                               *)

\* The messages whose turn, and those whose match, the client takes over.
ShowsTurn(msg) ==
  \/ msg.type = "RESPONSE" /\ msg.action \in {"create_match", "rematch"} /\ ~IsError(msg)
  \/ msg.type = "NOTIFICATION" /\ msg.action \in {"match_started", "move"}

NamesMatch(msg) ==
  \/ msg.type = "RESPONSE" /\ msg.action \in Entering /\ ~IsError(msg)
  \/ msg.type = "NOTIFICATION"

\* The messages a client may find in its inbox when the matches are ids.
Post(ids) ==
  {msg \in [type   : {"RESPONSE", "NOTIFICATION"},
            action : AnswerNames \cup NoticeNames,
            match  : Nat,
            detail : Contents,
            number : 0 .. 2,
            turn   : {0} \cup Symbols,
            winner : Players \cup {NoPlayer}] :
     /\ ShowsTurn(msg) => msg.turn \in Symbols
     /\ NamesMatch(msg) => msg.match \in ids
     /\ msg.type = "NOTIFICATION" /\ msg.action = "join_request" => msg.detail \in Players
     /\ msg.type = "RESPONSE" => msg.action \in AnswerNames}

\* What Arriving makes of one message.
Arrived(q, msg, table) ==
  IF msg.action \in {"create_match", "rematch", "match_started", "move"} /\ ~IsError(msg)
  THEN Received(q, msg, table[msg.match]) ELSE Bare(msg)

\* The detail tells an error from an answer after the step as before.
LEMMA DetailKeeps ==
  ASSUME NEW table, NEW msg \in Letters(table)
  PROVE  /\ Detail(msg) \in Contents
         /\ msg.type = "RESPONSE" => (Detail(msg) \in Statuses <=> msg.detail \in Statuses)
<1>1. "error" \in Contents /\ "ok" \in Contents /\ msg.detail \in Contents
  BY DEF Contents, Details, Words, Letters
<1>2. "error" \notin Statuses /\ "ok" \in Statuses
  BY DEF Statuses
<1> QED BY <1>1, <1>2 DEF Detail, IsError

LEMMA ReceivedType ==
  ASSUME NEW q \in Players, NEW table \in Seq(Matches), NEW msg \in Letters(table)
  PROVE  Arrived(q, msg, table) \in Post(DOMAIN table)
<1> DEFINE d == Detail(msg)
           a == Arrived(q, msg, table)
           m == table[msg.match]
<1>1. /\ msg.type \in {"RESPONSE", "NOTIFICATION"} /\ msg.match \in Nat
      /\ msg.action \in AnswerNames \cup NoticeNames
      /\ msg.type = "NOTIFICATION" => msg.match \in DOMAIN table
      /\ msg.type = "RESPONSE" /\ msg.action \in Entering /\ msg.detail \in Statuses =>
           msg.match \in DOMAIN table
      /\ msg.type = "RESPONSE" => msg.action \in AnswerNames
      /\ msg.type = "RESPONSE" /\ msg.action = "move" => msg.detail \notin Statuses
      /\ msg.type = "NOTIFICATION" /\ msg.action = "join_request" => msg.detail \in Players
  BY DEF Letters
<1>2. d \in Contents /\ (msg.type = "RESPONSE" => (d \in Statuses <=> msg.detail \in Statuses))
  BY DetailKeeps
<1>3. msg.type = "NOTIFICATION" /\ msg.action = "join_request" => d = msg.detail
  BY DEF Detail, IsError
<1> HIDE DEF d
<1>4. CASE /\ msg.action \in {"create_match", "rematch", "match_started", "move"}
           /\ ~IsError(msg)
  <2>1. msg.match \in DOMAIN table
    <3>1. CASE msg.type = "NOTIFICATION"
      BY <1>1, <3>1
    <3>2. CASE msg.type = "RESPONSE"
      <4>1. msg.action # "match_started"
        BY <1>1, <3>2 DEF AnswerNames
      <4>2. msg.detail \in Statuses
        BY <1>4, <3>2 DEF IsError
      <4> QED BY <1>1, <1>4, <3>2, <4>1, <4>2 DEF Entering
    <3> QED BY <1>1, <3>1, <3>2
  <2>2. m \in Matches
    BY <2>1
  <2>3. m.current_turn \in Symbols /\ m.winner_id \in Players \cup {NoPlayer}
    BY <2>2 DEF Matches
  <2> HIDE DEF m
  <2>4. a = [type |-> msg.type, action |-> msg.action, match |-> msg.match, detail |-> d,
             number |-> IF q = m.player1_id THEN 1 ELSE 2,
             turn |-> m.current_turn, winner |-> m.winner_id]
    BY <1>4 DEF Arrived, Received, m, d
  <2> HIDE DEF a
  <2>5. msg.action # "join_request"
    BY <1>4
  <2> QED BY <1>1, <1>2, <2>1, <2>3, <2>4, <2>5 DEF Post, a
<1>5. CASE ~(/\ msg.action \in {"create_match", "rematch", "match_started", "move"}
             /\ ~IsError(msg))
  <2>1. a = [type |-> msg.type, action |-> msg.action, match |-> msg.match, detail |-> d,
             number |-> 0, turn |-> 0, winner |-> NoPlayer]
    BY <1>5 DEF Arrived, Bare, d
  <2> HIDE DEF a
  <2>2. ~ShowsTurn(a)
    BY <1>2, <1>5, <2>1 DEF ShowsTurn, IsError
  <2>3. NamesMatch(a) => a.match \in DOMAIN table
    BY <1>1, <1>2, <2>1 DEF NamesMatch, IsError
  <2> QED BY <1>1, <1>2, <1>3, <2>1, <2>2, <2>3 DEF Post, a
<1> QED BY <1>4, <1>5

LEMMA ArrivalType ==
  ASSUME NEW q \in Players, NEW table \in Seq(Matches), NEW messages \in Seq(Letters(table))
  PROVE  Arriving(q, messages, table) \in Seq(Post(DOMAIN table))
<1> DEFINE kept == {k \in DOMAIN messages : Heeded(messages[k])}
           heeded == SelectPlaces(messages, kept)
<1>1. heeded \in Seq(Letters(table))
  <2>1. \A i \in DOMAIN messages : i \in kept => messages[i] \in Letters(table)
    OBVIOUS
  <2> HIDE DEF kept
  <2> QED BY <2>1, SelectType
<1>2. Arriving(q, messages, table) = [k \in DOMAIN heeded |-> Arrived(q, heeded[k], table)]
  BY DEF Arriving, Arrived
<1> HIDE DEF heeded
<1>3. /\ DOMAIN heeded = 1 .. Len(heeded) /\ Len(heeded) \in Nat
      /\ \A k \in 1 .. Len(heeded) : heeded[k] \in Letters(table)
  BY <1>1
<1>4. \A k \in 1 .. Len(heeded) : Arrived(q, heeded[k], table) \in Post(DOMAIN table)
  BY <1>3, ReceivedType
<1>5. [k \in 1 .. Len(heeded) |-> Arrived(q, heeded[k], table)] \in Seq(Post(DOMAIN table))
  BY <1>3, <1>4, IsASeq
<1> QED BY <1>2, <1>3, <1>5

\* A message the client heeds arrives.
LEMMA ArrivalHolds ==
  ASSUME NEW q \in Players, NEW table \in Seq(Matches), NEW messages \in Seq(Letters(table)),
         NEW i \in DOMAIN messages, Heeded(messages[i])
  PROVE  \E l \in DOMAIN Arriving(q, messages, table) :
           Arriving(q, messages, table)[l] = Arrived(q, messages[i], table)
<1> DEFINE kept == {k \in DOMAIN messages : Heeded(messages[k])}
           heeded == SelectPlaces(messages, kept)
<1>1. PICK l \in DOMAIN heeded : heeded[l] = messages[i]
  <2>1. i \in kept
    OBVIOUS
  <2> HIDE DEF kept
  <2> QED BY <2>1, SelectHolds
<1>2. Arriving(q, messages, table) = [k \in DOMAIN heeded |-> Arrived(q, heeded[k], table)]
  BY DEF Arriving, Arrived
<1> HIDE DEF heeded
<1>3. /\ l \in DOMAIN Arriving(q, messages, table)
      /\ Arriving(q, messages, table)[l] = Arrived(q, heeded[l], table)
  BY <1>1, <1>2
<1> QED BY <1>1, <1>3

-----------------------------------------------------------------------------
(* The states a client may be in.                                          *)

\* A request to take part is about a match there may be, and so is every errand
\* but the two that are about none.
Dialogs ==
  {d \in [kind  : {"request", "choice", "lost", "lobby", "queued", "info"},
          match : MatchOrNone,
          asker : Players \cup {NoMatch}] : d.kind = "request" => d.match \in MatchIds}

Errands ==
  {r \in Requests : r.action \notin {"register", "create_match"} => r.match \in MatchIds}

\* The model states in which the client has a match.
Engaged == {"WAITING", "ACTIVE", "JOIN_PENDING"}

Clients(ids) ==
  {c \in [registered     : BOOLEAN,
          matchState     : ModelStates,
          currentMatchId : ids \cup {NoMatch},
          myPlayerNumber : 0 .. 2,
          currentTurn    : Symbols,
          screen         : Screens,
          dialogs        : Seq(Dialogs),
          outbox         : Seq(Errands),
          inbox          : Seq(Post(ids))] :
     c.matchState \in Engaged => c.currentMatchId # NoMatch /\ c.screen # "lobby"}

LEMMA NewClientType == \A ids : NewClient \in Clients(ids)
<1> SUFFICES ASSUME NEW ids PROVE NewClient \in Clients(ids)
  OBVIOUS
<1>1. << >> \in Seq(Dialogs) /\ << >> \in Seq(Errands) /\ << >> \in Seq(Post(ids))
  OBVIOUS
<1>2. /\ "NONE" \in ModelStates /\ "NONE" \notin Engaged /\ "lobby" \in Screens
      /\ 1 \in Symbols /\ 0 \in 0 .. 2
  BY DEF ModelStates, Engaged, Screens, Symbols
<1> QED BY <1>1, <1>2 DEF NewClient, Clients

\* As the table grows a client stays one.
LEMMA ClientGrows ==
  ASSUME NEW ids, NEW more, ids \subseteq more, NEW c \in Clients(ids)
  PROVE  c \in Clients(more)
<1>1. Post(ids) \subseteq Post(more)
  BY DEF Post
<1>2. c.inbox \in Seq(Post(ids))
  BY DEF Clients
<1>3. c.inbox \in Seq(Post(more))
  BY <1>1, <1>2
<1> QED BY <1>3 DEF Clients

LEMMA InboxGrows ==
  ASSUME NEW ids, NEW c \in Clients(ids), NEW post \in Seq(Post(ids))
  PROVE  [c EXCEPT !.inbox = @ \o post] \in Clients(ids)
<1> DEFINE b == c.inbox
<1>1. b \in Seq(Post(ids))
  BY DEF Clients
<1> HIDE DEF b
<1>2. b \o post \in Seq(Post(ids))
  BY <1>1, ConcatProperties
<1> HIDE DEF b
<1>3. [c EXCEPT !.inbox = b \o post] \in Clients(ids)
  BY <1>2 DEF Clients
<1> QED BY <1>3 DEF b

LEMMA OutboxShrinks ==
  ASSUME NEW ids, NEW c \in Clients(ids), c.outbox # << >>
  PROVE  /\ [c EXCEPT !.outbox = Tail(@)] \in Clients(ids)
         /\ Head(c.outbox) \in Errands
<1> DEFINE b == c.outbox
<1>1. b \in Seq(Errands) /\ b # << >>
  BY DEF Clients
<1> HIDE DEF b
<1>2. Tail(b) \in Seq(Errands) /\ Head(b) \in Errands
  BY <1>1
<1>3. [c EXCEPT !.outbox = Tail(b)] \in Clients(ids)
  BY <1>2 DEF Clients
<1> QED BY <1>2, <1>3 DEF b

LEMMA ErrandSent ==
  ASSUME NEW ids, NEW c \in Clients(ids), NEW r \in Errands
  PROVE  sendMessage(c, r) \in Clients(ids)
<1> DEFINE b == c.outbox
<1>1. b \in Seq(Errands)
  BY DEF Clients
<1> HIDE DEF b
<1>2. Append(b, r) \in Seq(Errands)
  BY <1>1
<1>3. [c EXCEPT !.outbox = Append(b, r)] \in Clients(ids)
  BY <1>2 DEF Clients
<1> QED BY <1>3 DEF sendMessage, b

LEMMA ShowType ==
  ASSUME NEW ids, NEW c \in Clients(ids), NEW d \in Dialogs
  PROVE  Show(c, d) \in Clients(ids)
<1> DEFINE b == c.dialogs
<1>1. b \in Seq(Dialogs)
  BY DEF Clients
<1> HIDE DEF b
<1>2. Append(b, d) \in Seq(Dialogs)
  BY <1>1
<1>3. [c EXCEPT !.dialogs = Append(b, d)] \in Clients(ids)
  BY <1>2 DEF Clients
<1> QED BY <1>3 DEF Show, b

LEMMA DialogType ==
  /\ \A kind \in {"choice", "lost", "lobby", "queued", "info"} : Dialog(kind) \in Dialogs
  /\ \A id \in MatchIds, asker \in Players : RequestDialog(id, asker) \in Dialogs
BY DEF Dialog, RequestDialog, Dialogs, MatchOrNone

LEMMA ErrandType ==
  /\ \A action \in {"register", "create_match"} : createRequestMessage(action, 0, 0) \in Errands
  /\ \A action \in {"join_match", "cancel_join", "move", "rematch", "quit_match"},
        id \in MatchIds, column \in 0 .. BOARD_COLS - 1 :
       createRequestMessage(action, id, column) \in Errands
  /\ \A action \in {"accept_join", "reject_join"}, id \in MatchIds, asker \in Players \cup {NoMatch} :
       [createRequestMessage(action, id, 0) EXCEPT !.about = asker] \in Errands
<1>1. 0 \in 0 .. BOARD_COLS - 1 /\ 0 \in 0 .. MAX_MATCHES /\ MatchIds \subseteq 0 .. MAX_MATCHES
  BY BoardAssumption, ServerAssumption DEF MatchIds
<1>2. ASSUME NEW action \in {"register", "create_match"}
      PROVE  createRequestMessage(action, 0, 0) \in Errands
  BY <1>1, <1>2 DEF createRequestMessage, Errands, Requests
<1>3. ASSUME NEW action \in {"join_match", "cancel_join", "move", "rematch", "quit_match"},
             NEW id \in MatchIds, NEW column \in 0 .. BOARD_COLS - 1
      PROVE  createRequestMessage(action, id, column) \in Errands
  BY <1>1, <1>3 DEF createRequestMessage, Errands, Requests
<1>4. ASSUME NEW action \in {"accept_join", "reject_join"}, NEW id \in MatchIds,
             NEW asker \in Players \cup {NoMatch}
      PROVE  [createRequestMessage(action, id, 0) EXCEPT !.about = asker] \in Errands
  BY <1>1, <1>4 DEF createRequestMessage, Errands, Requests
<1> QED BY <1>2, <1>3, <1>4

LEMMA LobbyType ==
  ASSUME NEW ids, NEW c \in Clients(ids)
  PROVE  returnToLobby(c) \in Clients(ids)
<1>1. "NONE" \in ModelStates /\ "NONE" \notin Engaged /\ "lobby" \in Screens
  BY DEF ModelStates, Engaged, Screens
<1> QED BY <1>1 DEF returnToLobby, Clients

LEMMA QueuedClosedType ==
  ASSUME NEW ids, NEW c \in Clients(ids)
  PROVE  closeQueuedInfoDialogIfOpen(c) \in Clients(ids)
<1> DEFINE b == c.dialogs
           kept == {k \in DOMAIN b : b[k].kind # "queued"}
<1>1. b \in Seq(Dialogs)
  BY DEF Clients
<1>2. \A i \in DOMAIN b : i \in kept => b[i] \in Dialogs
  BY <1>1
<1>3. SelectPlaces(b, kept) \in Seq(Dialogs)
  <2> HIDE DEF b, kept
  <2> QED BY <1>1, <1>2, SelectType
<1>4. closeQueuedInfoDialogIfOpen(c) = [c EXCEPT !.dialogs = SelectPlaces(b, kept)]
  BY DEF closeQueuedInfoDialogIfOpen
<1> HIDE DEF b, kept
<1> QED BY <1>3, <1>4 DEF Clients

-----------------------------------------------------------------------------
(* What the user and the messages make of a client.                        *)

LEMMA CurrentSent ==
  ASSUME NEW ids \in SUBSET MatchIds, NEW c \in Clients(ids),
         NEW action \in {"cancel_join", "rematch", "quit_match"}
  PROVE  SendOfCurrent(c, action) \in Clients(ids)
<1>1. c.currentMatchId \in ids \cup {NoMatch} /\ 0 \in 0 .. BOARD_COLS - 1
  BY BoardAssumption DEF Clients
<1>2. c.currentMatchId # NoMatch => createRequestMessage(action, c.currentMatchId, 0) \in Errands
  BY <1>1, ErrandType
<1> QED BY <1>2, ErrandSent DEF SendOfCurrent

LEMMA LeavingType ==
  ASSUME NEW ids \in SUBSET MatchIds, NEW c \in Clients(ids)
  PROVE  leaveMatch(c) \in Clients(ids) /\ cancelJoinRequest(c) \in Clients(ids)
BY CurrentSent, LobbyType, QueuedClosedType DEF leaveMatch, cancelJoinRequest

LEMMA FrontType ==
  ASSUME NEW S, NEW s \in Seq(S), s # << >>
  PROVE  /\ Front(s) \in Seq(S) /\ Last(s) \in S
         /\ Len(Front(s)) = Len(s) - 1 /\ Len(s) \in Nat \ {0}
         /\ \A i \in 1 .. Len(s) - 1 : Front(s)[i] = s[i]
         /\ Last(s) = s[Len(s)]
<1>1. Len(s) \in Nat \ {0}
  BY EmptySeq
<1>2. Front(s) = [i \in 1 .. Len(s) - 1 |-> s[i]]
  BY <1>1 DEF Front
<1>3. \A i \in 1 .. Len(s) - 1 : s[i] \in S
  BY <1>1
<1>4. Len(s) - 1 \in Nat
  BY <1>1
<1>5. Front(s) \in Seq(S) /\ Len(Front(s)) = Len(s) - 1
  BY <1>2, <1>3, <1>4, IsASeq
<1> QED BY <1>1, <1>2, <1>5 DEF Last

LEMMA ClosedType ==
  ASSUME NEW ids \in SUBSET MatchIds, NEW c \in Clients(ids), c.dialogs # << >>,
         NEW yes \in BOOLEAN
  PROVE  CloseDialog(c, yes) \in Clients(ids)
<1> DEFINE b == c.dialogs
           d == Last(b)
           below == [c EXCEPT !.dialogs = Front(b)]
<1>1. b \in Seq(Dialogs) /\ b # << >>
  BY DEF Clients
<1>2. Front(b) \in Seq(Dialogs) /\ d \in Dialogs
  <2> HIDE DEF b
  <2> QED BY <1>1, FrontType
<1>3. CloseDialog(c, yes) =
        CASE d.kind = "request" -> AnswerToRequest(below, d, yes)
          [] d.kind = "choice"  -> IF yes THEN requestRematch(below) ELSE leaveMatch(below)
          [] d.kind = "lost"    -> leaveMatch(below)
          [] d.kind = "lobby"   -> returnToLobby(below)
          [] OTHER              -> below
  BY DEF CloseDialog
<1> HIDE DEF b, d
<1>4. below \in Clients(ids)
  BY <1>2 DEF Clients
<1> HIDE DEF below
<1>5. d.kind = "request" => AnswerToRequest(below, d, yes) \in Clients(ids)
  <2> SUFFICES ASSUME d.kind = "request" PROVE AnswerToRequest(below, d, yes) \in Clients(ids)
    OBVIOUS
  <2> DEFINE action == IF yes THEN "accept_join" ELSE "reject_join"
             r == [createRequestMessage(action, d.match, 0) EXCEPT !.about = d.asker]
  <2>1. d.match \in MatchIds /\ d.asker \in Players \cup {NoMatch}
    BY <1>2 DEF Dialogs
  <2>2. r \in Errands
    BY <2>1, ErrandType
  <2>3. AnswerToRequest(below, d, yes) = sendMessage(below, r)
    BY DEF AnswerToRequest
  <2> HIDE DEF r
  <2> QED BY <1>4, <2>2, <2>3, ErrandSent
<1>6. requestRematch(below) \in Clients(ids) /\ leaveMatch(below) \in Clients(ids)
  BY <1>4, CurrentSent, LeavingType DEF requestRematch
<1>7. returnToLobby(below) \in Clients(ids)
  BY <1>4, LobbyType
<1> QED BY <1>3, <1>4, <1>5, <1>6, <1>7

LEMMA WaitsType ==
  ASSUME NEW ids \in SUBSET MatchIds, NEW c \in Clients(ids), NEW msg \in Post(ids),
         msg.match \in ids, msg.turn \in Symbols
  PROVE  Waits(c, msg) \in Clients(ids)
<1>1. "WAITING" \in ModelStates /\ "game" \in Screens /\ msg.match # NoMatch /\ 1 \in 0 .. 2
  BY ClientAssumption DEF ModelStates, Screens, MatchIds, Post
<1>2. Waits(c, msg) = [c EXCEPT !.currentMatchId = msg.match, !.myPlayerNumber = 1,
                                !.currentTurn = msg.turn, !.matchState = "WAITING",
                                !.screen = "game"]
  BY DEF Waits, applyMatchState, Clients
<1> QED BY <1>1, <1>2 DEF Clients

LEMMA StartedType ==
  ASSUME NEW ids \in SUBSET MatchIds, NEW c \in Clients(ids), NEW msg \in Post(ids),
         msg.match \in ids, msg.turn \in Symbols
  PROVE  started(c, msg) \in Clients(ids)
<1> DEFINE b == closeQueuedInfoDialogIfOpen(c)
<1>1. "ACTIVE" \in ModelStates /\ "game" \in Screens /\ msg.match # NoMatch
      /\ msg.number \in 0 .. 2
  BY ClientAssumption DEF ModelStates, Screens, MatchIds, Post
<1>2. b \in Clients(ids)
  BY QueuedClosedType
<1> HIDE DEF b
<1>3. started(c, msg) = [b EXCEPT !.currentMatchId = msg.match, !.myPlayerNumber = msg.number,
                                  !.currentTurn = msg.turn, !.matchState = "ACTIVE",
                                  !.screen = "game"]
  BY <1>2 DEF started, applyMatchState, Clients, b
<1> QED BY <1>1, <1>2, <1>3 DEF Clients

LEMMA FinishedType ==
  ASSUME NEW ids, NEW c \in Clients(ids)
  PROVE  [c EXCEPT !.matchState = "FINISHED"] \in Clients(ids)
BY DEF Clients, ModelStates, Engaged

LEMMA MovedType ==
  ASSUME NEW ids, NEW c \in Clients(ids), NEW msg, msg.turn \in Symbols, NEW me
  PROVE  moved(c, msg, me) \in Clients(ids)
<1> DEFINE shown == [c EXCEPT !.currentTurn = msg.turn]
           over == [shown EXCEPT !.matchState = "FINISHED"]
<1>1. shown \in Clients(ids)
  BY DEF Clients
<1> HIDE DEF shown
<1>2. over \in Clients(ids)
  BY <1>1, FinishedType
<1> HIDE DEF over
<1>3. Show(over, Dialog("choice")) \in Clients(ids) /\ Show(over, Dialog("lost")) \in Clients(ids)
  BY <1>2, ShowType, DialogType
<1>4. moved(c, msg, me) \in {shown, Show(over, Dialog("choice")), Show(over, Dialog("lost"))}
  BY DEF moved, shown, over
<1> QED BY <1>1, <1>3, <1>4

LEMMA ResponseType ==
  ASSUME NEW ids \in SUBSET MatchIds, NEW c \in Clients(ids), NEW msg \in Post(ids),
         msg.type = "RESPONSE", ~IsError(msg)
  PROVE  handleResponse(c, msg) \in Clients(ids)
<1>1. /\ msg.action \in Entering => msg.match \in ids
      /\ msg.action \in {"create_match", "rematch"} => msg.turn \in Symbols
  BY DEF Post, NamesMatch, ShowsTurn
<1>2. CASE msg.action = "register"
  <2>1. [c EXCEPT !.registered = TRUE] \in Clients(ids)
    BY DEF Clients
  <2> QED BY <1>2, <2>1 DEF handleResponse
<1>3. CASE msg.action \in {"create_match", "rematch"}
  <2>1. Waits(c, msg) \in Clients(ids)
    BY <1>1, <1>3, WaitsType DEF Entering
  <2>2. Show(c, Dialog("info")) \in Clients(ids)
    BY ShowType, DialogType
  <2>3. handleResponse(c, msg) \in {Waits(c, msg), Show(c, Dialog("info")), c}
    BY <1>3 DEF handleResponse
  <2> QED BY <2>1, <2>2, <2>3
<1>4. CASE msg.action = "join_match"
  <2> DEFINE asked == [c EXCEPT !.currentMatchId = msg.match, !.matchState = "JOIN_PENDING",
                                !.screen = "join_waiting"]
  <2>1. /\ "JOIN_PENDING" \in ModelStates /\ "join_waiting" \in Screens /\ msg.match # NoMatch
        /\ msg.match \in ids
    BY <1>1, <1>4, ClientAssumption DEF ModelStates, Screens, MatchIds, Entering, Post
  <2>2. asked \in Clients(ids)
    BY <2>1 DEF Clients
  <2>3. handleResponse(c, msg) \in {asked, Show(asked, Dialog("queued"))}
    BY <1>4 DEF handleResponse
  <2> HIDE DEF asked
  <2>4. Show(asked, Dialog("queued")) \in Clients(ids)
    BY <2>2, ShowType, DialogType
  <2> QED BY <2>2, <2>3, <2>4
<1>5. CASE msg.action \notin {"register", "create_match", "rematch", "join_match"}
  BY <1>5 DEF handleResponse
<1> QED BY <1>2, <1>3, <1>4, <1>5

LEMMA NotificationType ==
  ASSUME NEW ids \in SUBSET MatchIds, NEW c \in Clients(ids), NEW msg \in Post(ids),
         msg.type = "NOTIFICATION", NEW me
  PROVE  handleNotification(c, msg, me) \in Clients(ids)
<1>1. /\ msg.match \in ids
      /\ msg.action \in {"match_started", "move"} => msg.turn \in Symbols
      /\ msg.action = "join_request" => msg.detail \in Players
  BY DEF Post, NamesMatch, ShowsTurn
<1> DEFINE q == closeQueuedInfoDialogIfOpen(c)
           f == [c EXCEPT !.matchState = "FINISHED"]
<1>2. q \in Clients(ids) /\ f \in Clients(ids)
  BY QueuedClosedType, FinishedType
<1>3. /\ Show(q, Dialog("lobby")) \in Clients(ids) /\ Show(f, Dialog("lobby")) \in Clients(ids)
      /\ Show(c, Dialog("lobby")) \in Clients(ids)
  <2> HIDE DEF q, f
  <2> QED BY <1>2, ShowType, DialogType
<1>4. CASE msg.action = "match_started"
  BY <1>1, <1>4, StartedType DEF handleNotification
<1>5. CASE msg.action = "join_request"
  <2>1. Show(c, RequestDialog(msg.match, msg.detail)) \in Clients(ids)
    BY <1>1, <1>5, ShowType, DialogType
  <2> QED BY <1>5, <2>1 DEF handleNotification
<1>6. CASE msg.action = "move"
  BY <1>1, <1>6, MovedType DEF handleNotification
<1>7. CASE msg.action \notin {"match_started", "join_request", "move"}
  <2>1. handleNotification(c, msg, me) \in
          {Show(q, Dialog("lobby")), q, Show(f, Dialog("lobby")), Show(c, Dialog("lobby")), c}
    BY <1>7 DEF handleNotification
  <2> HIDE DEF q, f
  <2> QED BY <1>2, <1>3, <2>1
<1> QED BY <1>4, <1>5, <1>6, <1>7

LEMMA HandledType ==
  ASSUME NEW ids \in SUBSET MatchIds, NEW c \in Clients(ids), c.inbox # << >>, NEW me
  PROVE  handleMessage(c, me) \in Clients(ids)
<1> DEFINE b == c.inbox
           msg == Head(b)
           rest == [c EXCEPT !.inbox = Tail(b)]
<1>1. b \in Seq(Post(ids)) /\ b # << >>
  BY DEF Clients
<1>2. msg \in Post(ids) /\ Tail(b) \in Seq(Post(ids))
  <2> HIDE DEF b
  <2> QED BY <1>1
<1>3. handleMessage(c, me) =
        CASE IsError(msg)            -> Show(rest, Dialog("info"))
          [] ~IsError(msg) /\ msg.type = "RESPONSE" -> handleResponse(rest, msg)
          [] msg.type = "NOTIFICATION" -> handleNotification(rest, msg, me)
  BY DEF handleMessage
<1> HIDE DEF b, msg
<1>4. rest \in Clients(ids)
  BY <1>2 DEF Clients
<1> HIDE DEF rest
<1>5. Show(rest, Dialog("info")) \in Clients(ids)
  BY <1>4, ShowType, DialogType
<1>6. msg.type \in {"RESPONSE", "NOTIFICATION"} /\ (IsError(msg) => msg.type = "RESPONSE")
  BY <1>2 DEF Post, IsError
<1>7. ~IsError(msg) /\ msg.type = "RESPONSE" => handleResponse(rest, msg) \in Clients(ids)
  BY <1>2, <1>4, ResponseType
<1>8. msg.type = "NOTIFICATION" => handleNotification(rest, msg, me) \in Clients(ids)
  BY <1>2, <1>4, NotificationType
<1> QED BY <1>3, <1>5, <1>6, <1>7, <1>8

-----------------------------------------------------------------------------
(* The steps of the whole are steps of the server.                         *)

ClientsTyped == client \in [Players -> Clients(DOMAIN matches)]

AllTyped == /\ TypeOK
            /\ AllSound
            /\ DOMAIN matches \subseteq MatchIds
            /\ ClientsTyped

LEMMA TableFits ==
  ASSUME TypeOK, [Next]_vars, DOMAIN matches \subseteq MatchIds
  PROVE  DOMAIN matches' \subseteq MatchIds
<1>1. matches \in Seq(Matches) /\ DOMAIN matches = 1 .. Len(matches) /\ Len(matches) \in Nat
  BY DEF TypeOK
<1>2. ASSUME NEW p \in Players, Creates(p) PROVE DOMAIN matches' \subseteq MatchIds
  BY <1>1, <1>2, ServerAssumption DEF Creates, MatchIds
<1> QED BY <1>2, TableAfter

LEMMA ServedIsHandled ==
  ASSUME NEW p \in Players, NEW request \in Errands, Handler(p, request)
  PROVE  Request(p) \/ \E id \in MatchIds : Answer(p, id)
<1>1. /\ request.action \notin {"register", "create_match"} => request.match \in MatchIds
      /\ request.column \in Columns
  BY BoardAssumption DEF Errands, Requests, Columns
<1>2. CASE request.action \in {"register", "create_match"}
  BY <1>2 DEF Handler, Request
<1>3. CASE request.action \notin {"register", "create_match"}
  BY <1>1, <1>3 DEF Handler, Request, Answer
<1> QED BY <1>2, <1>3

\* What the server does at one client's instance.
LEMMA ServerActs ==
  ASSUME AllTyped, NEW p \in Players, Open(p) \/ Serve(p) \/ Lose(p) \/ Mark(p)
  PROVE  Next
<1>1. CASE Open(p) \/ Lose(p) \/ Mark(p)
  BY <1>1 DEF Open, Lose, Mark, Next, Session
<1>2. CASE Serve(p)
  <2> DEFINE request == Head(client[p].outbox)
  <2>1. request \in Errands
    BY <1>2, OutboxShrinks DEF AllTyped, ClientsTyped, Serve
  <2>2. Handler(p, request)
    BY <1>2 DEF Serve
  <2> HIDE DEF request
  <2> QED BY <2>1, <2>2, ServedIsHandled DEF Next
<1> QED BY <1>1, <1>2

LEMMA ServerSteps ==
  ASSUME AllTyped, [SystemNext]_allVars
  PROVE  [Next]_vars
<1>1. CASE UNCHANGED allVars
  BY <1>1 DEF allVars
<1>2. ASSUME NEW p \in Players, Open(p) \/ Serve(p) \/ Lose(p) \/ Mark(p) PROVE Next
  BY <1>2, ServerActs
<1>3. ASSUME NEW p \in Players, HandleMessage(p) \/ User(p) PROVE UNCHANGED vars
  BY <1>3 DEF HandleMessage, User, ClickCreate, ClickCancel, ClickLeave, ClickJoin, ClickColumn,
              AnswerDialog, Acts
<1> QED BY <1>1, <1>2, <1>3 DEF SystemNext

LEMMA DeliveryType ==
  ASSUME TypeOK', out' \in Mailings(matches'),
         NEW clients \in [Players -> Clients(DOMAIN matches')], Deliver(clients)
  PROVE  ClientsTyped'
<1>1. matches' \in Seq(Matches)
  BY DEF TypeOK
<1>2. ASSUME NEW q \in Players
      PROVE  [clients[q] EXCEPT !.inbox = @ \o Arriving(q, out'[q], matches')]
               \in Clients(DOMAIN matches')
  <2>1. out'[q] \in Seq(Letters(matches'))
    BY DEF Mailings
  <2>2. Arriving(q, out'[q], matches') \in Seq(Post(DOMAIN matches'))
    BY <1>1, <2>1, ArrivalType
  <2> QED BY <2>2, InboxGrows
<1> QED BY <1>2 DEF Deliver, ClientsTyped

LEMMA UserType ==
  ASSUME NEW ids \in SUBSET MatchIds, ids = DOMAIN matches, client \in [Players -> Clients(ids)],
         NEW p \in Players, User(p)
  PROVE  client' \in [Players -> Clients(ids)]
<1> DEFINE c == client[p]
<1>0. c \in Clients(ids) /\ 0 \in 0 .. BOARD_COLS - 1
  BY BoardAssumption
<1>1. ASSUME NEW after \in Clients(ids), Acts(p, after)
      PROVE  client' \in [Players -> Clients(ids)]
  BY <1>1 DEF Acts
<1>2. CASE ClickCreate(p)
  <2>1. sendMessage(c, createRequestMessage("create_match", 0, 0)) \in Clients(ids)
    BY <1>0, ErrandSent, ErrandType
  <2> QED BY <1>1, <1>2, <2>1 DEF ClickCreate
<1>3. CASE ClickCancel(p)
  BY <1>0, <1>1, <1>3, LeavingType DEF ClickCancel
<1>4. CASE ClickLeave(p)
  BY <1>0, <1>1, <1>4, LeavingType DEF ClickLeave
<1>5. ASSUME NEW id \in MatchIds, ClickJoin(p, id) PROVE client' \in [Players -> Clients(ids)]
  <2>1. sendMessage(c, createRequestMessage("join_match", id, 0)) \in Clients(ids)
    BY <1>0, ErrandSent, ErrandType
  <2> QED BY <1>1, <1>5, <2>1 DEF ClickJoin
<1>6. ASSUME NEW column \in 0 .. BOARD_COLS - 1, ClickColumn(p, column)
      PROVE  client' \in [Players -> Clients(ids)]
  <2>1. c.currentMatchId \in MatchIds
    BY <1>0, <1>6 DEF ClickColumn, MayClickColumn, Clients
  <2>2. sendMessage(c, createRequestMessage("move", c.currentMatchId, column)) \in Clients(ids)
    BY <1>0, <2>1, ErrandSent, ErrandType
  <2> QED BY <1>1, <1>6, <2>2 DEF ClickColumn
<1>7. ASSUME NEW yes \in BOOLEAN, AnswerDialog(p, yes)
      PROVE  client' \in [Players -> Clients(ids)]
  BY <1>0, <1>1, <1>7, ClosedType DEF AnswerDialog
<1> QED BY <1>2, <1>3, <1>4, <1>5, <1>6, <1>7 DEF User

LEMMA StepPreservesClients ==
  ASSUME AllTyped, TypeOK', DOMAIN matches' \subseteq MatchIds, [SystemNext]_allVars
  PROVE  ClientsTyped'
<1> DEFINE ids == DOMAIN matches
           more == DOMAIN matches'
<1>0. ids \in SUBSET MatchIds /\ client \in [Players -> Clients(ids)]
  BY DEF AllTyped, ClientsTyped
<1>1. CASE UNCHANGED allVars
  BY <1>1 DEF allVars, vars, ClientsTyped, AllTyped
<1>2. client \in [Players -> Clients(more)]
  <2>1. ids \subseteq more
    BY ServerSteps, TableGrows DEF AllTyped
  <2>2. Clients(ids) \subseteq Clients(more)
    BY <2>1, ClientGrows
  <2> QED BY <1>0, <2>2
<1>3. ASSUME NEW p \in Players, Open(p) \/ Serve(p) \/ Lose(p) \/ Mark(p) PROVE ClientsTyped'
  <2>1. out' \in Mailings(matches')
    BY <1>3, ServerActs, StepIsMail DEF AllTyped
  <2>2. CASE Open(p)
    <3>1. sendMessage(client[p], createRequestMessage("register", 0, 0)) \in Clients(more)
      BY <1>2, ErrandSent, ErrandType
    <3> QED BY <1>2, <2>2, <3>1 DEF Open, ClientsTyped
  <2>3. CASE Serve(p)
    <3> DEFINE clients == [client EXCEPT ![p].outbox = Tail(@)]
    <3>1. [client[p] EXCEPT !.outbox = Tail(@)] \in Clients(more)
      BY <1>2, <2>3, OutboxShrinks DEF Serve
    <3>2. clients \in [Players -> Clients(more)]
      BY <1>2, <3>1
    <3>3. Deliver(clients)
      BY <2>3 DEF Serve
    <3> HIDE DEF clients
    <3> QED BY <2>1, <3>2, <3>3, DeliveryType
  <2>4. CASE Lose(p)
    <3> DEFINE clients == [client EXCEPT ![p] = NewClient]
    <3>1. clients \in [Players -> Clients(more)]
      BY <1>2, NewClientType
    <3>2. Deliver(clients)
      BY <2>4 DEF Lose
    <3> HIDE DEF clients
    <3> QED BY <2>1, <3>1, <3>2, DeliveryType
  <2>5. CASE Mark(p)
    BY <1>2, <2>5 DEF Mark, ClientsTyped
  <2> QED BY <1>3, <2>2, <2>3, <2>4, <2>5
<1>4. ASSUME NEW p \in Players, HandleMessage(p) PROVE ClientsTyped'
  <2>1. handleMessage(client[p], p) \in Clients(ids)
    BY <1>0, <1>4, HandledType DEF HandleMessage
  <2> QED BY <1>0, <1>4, <2>1 DEF HandleMessage, ClientsTyped, vars
<1>5. ASSUME NEW p \in Players, User(p) PROVE ClientsTyped'
  <2>1. client' \in [Players -> Clients(ids)]
    BY <1>0, <1>5, UserType
  <2>2. matches' = matches
    BY <1>5 DEF User, ClickCreate, ClickCancel, ClickLeave, ClickJoin, ClickColumn,
                AnswerDialog, Acts, vars
  <2> QED BY <2>1, <2>2 DEF ClientsTyped
<1> QED BY <1>1, <1>3, <1>4, <1>5 DEF SystemNext

LEMMA StepPreservesAll ==
  ASSUME AllTyped, [SystemNext]_allVars
  PROVE  AllTyped'
<1>1. [Next]_vars
  BY ServerSteps
<1>2. TypeOK' /\ AllSound'
  BY <1>1, StepPreservesType, StepPreservesSound DEF AllTyped
<1>3. (DOMAIN matches \subseteq MatchIds)'
  BY <1>1, TableFits DEF AllTyped
<1>4. ClientsTyped'
  BY <1>2, <1>3, StepPreservesClients
<1> QED BY <1>2, <1>3, <1>4 DEF AllTyped

LEMMA InitialAll == SystemInit => AllTyped
<1> SUFFICES ASSUME SystemInit PROVE AllTyped
  OBVIOUS
<1>1. TypeOK /\ AllSound
  BY InitialTypes, InitialSound DEF SystemInit
<1>2. DOMAIN matches \subseteq MatchIds
  BY DEF SystemInit, Init
<1>3. ClientsTyped
  BY NewClientType DEF SystemInit, ClientsTyped
<1> QED BY <1>1, <1>2, <1>3 DEF AllTyped

LEMMA AllInvariant == System => []AllTyped
BY InitialAll, StepPreservesAll, PTL DEF System

\* The server of the whole system is the server of module Server: whatever the
\* clients' screens and dialogs let them send is a request main.c serves, so all
\* that holds of Spec holds here.
THEOREM SystemIsServer == System => Spec
<1>1. SystemInit => Init
  BY DEF SystemInit
<1>2. AllTyped /\ [SystemNext]_allVars => [Next]_vars
  BY ServerSteps
<1> QED BY <1>1, <1>2, AllInvariant, PTL DEF System, Spec

\* A client is about no match or one that was created, a request names a match
\* where one is asked for, and every dialog is one GameController opens
\* (ClientTypeOK).
THEOREM ClientTypeCorrect == System => []ClientTypeOK
<1>1. AllTyped => ClientTypeOK
  <2> SUFFICES ASSUME AllTyped, NEW p \in Players
               PROVE  LET c == client[p]
                      IN  /\ c.registered \in BOOLEAN /\ c.matchState \in ModelStates
                          /\ c.screen \in Screens
                          /\ c.currentMatchId \in DOMAIN matches \cup {NoMatch}
                          /\ c.matchState \in {"WAITING", "ACTIVE", "JOIN_PENDING"} =>
                               c.currentMatchId # NoMatch /\ c.screen # "lobby"
                          /\ c.myPlayerNumber \in 0 .. 2 /\ c.currentTurn \in Symbols
                          /\ ToSet(c.outbox) \subseteq Requests
                          /\ ToSet(c.dialogs) \subseteq
                               [kind  : {"request", "choice", "lost", "lobby", "queued", "info"},
                                match : MatchOrNone,
                                asker : Players \cup {NoMatch}]
    BY DEF ClientTypeOK
  <2> DEFINE c == client[p]
  <2>1. c \in Clients(DOMAIN matches)
    BY DEF AllTyped, ClientsTyped
  <2> HIDE DEF c
  <2>2. c.outbox \in Seq(Errands) /\ c.dialogs \in Seq(Dialogs)
    BY <2>1 DEF Clients
  <2>3. ToSet(c.outbox) \subseteq Errands /\ ToSet(c.dialogs) \subseteq Dialogs
    BY <2>2 DEF ToSet
  <2>4. /\ ToSet(c.outbox) \subseteq Requests
        /\ ToSet(c.dialogs) \subseteq
             [kind  : {"request", "choice", "lost", "lobby", "queued", "info"},
              match : MatchOrNone,
              asker : Players \cup {NoMatch}]
    BY <2>3 DEF Errands, Dialogs
  <2>5. /\ c.registered \in BOOLEAN /\ c.matchState \in ModelStates
        /\ c.screen \in Screens
        /\ c.currentMatchId \in DOMAIN matches \cup {NoMatch}
        /\ c.matchState \in {"WAITING", "ACTIVE", "JOIN_PENDING"} =>
             c.currentMatchId # NoMatch /\ c.screen # "lobby"
        /\ c.myPlayerNumber \in 0 .. 2 /\ c.currentTurn \in Symbols
    BY <2>1 DEF Clients, Engaged
  <2> QED BY <2>4, <2>5 DEF c
<1> QED BY <1>1, AllInvariant, PTL

-----------------------------------------------------------------------------
(* No request is forgotten: what happens to the match.                     *)

\* A match is new, and open, or was there before.
LEMMA NewMatchIsOpen ==
  ASSUME TypeOK, [Next]_vars, NEW id \in DOMAIN matches', id \notin DOMAIN matches
  PROVE  matches'[id].state = "WAITING_FOR_OPPONENT" /\ Serving(matches'[id].creator_id)
                                                     /\ player_state' = player_state
<1>1. matches \in Seq(Matches)
  BY DEF TypeOK
<1>2. PICK p \in Players : Serving(p) /\ Creates(p)
  BY TableAfter
<1>3. matches'[id] = create_match(p)
  BY <1>1, <1>2 DEF Creates
<1> QED BY <1>2, <1>3 DEF create_match, Creates

\* Only a connection brings a player.
LEMMA ServedBefore ==
  ASSUME TypeOK, NEW q \in Players, Serving(q)', NEW p \in Players,
         \/ Disconnect(p) \/ MarkDisconnected(p) \/ Request(p)
         \/ \E id \in MatchIds : Answer(p, id)
  PROVE  Serving(q)
<1>1. CASE Disconnect(p)
  BY <1>1 DEF Disconnect, Serving, Connected
<1>2. CASE MarkDisconnected(p)
  BY <1>2 DEF TypeOK, MarkDisconnected, Serving, Connected
<1>3. CASE Register(p)
  BY <1>3 DEF TypeOK, Register, Serving, Connected
<1>4. CASE Request(p) /\ ~Register(p)
  BY <1>4 DEF Request, UnknownAction, CreateMatch, ListMatches, JoinMatch, Move, Rematch, QuitMatch,
              Serving, Connected
<1>5. ASSUME NEW id \in MatchIds, Answer(p, id) PROVE Serving(q)
  BY <1>5 DEF Answer, AcceptJoin, RejectJoin, CancelJoin, Serving, Connected
<1> QED BY <1>1, <1>2, <1>3, <1>4, <1>5

LEMMA ServingBefore ==
  ASSUME TypeOK, [Next]_vars, NEW q \in Players, Serving(q)'
  PROVE  Serving(q) \/ (player_state[q] = "NULL" /\ Connect(q))
<1>1. CASE UNCHANGED vars \/ RefuseConnection
  BY <1>1 DEF vars, RefuseConnection, Serving, Connected
<1>2. ASSUME NEW p \in Players, Connect(p) PROVE Serving(q) \/ Connect(q)
  BY <1>2 DEF TypeOK, Connect, Serving, Connected
<1> QED BY <1>1, <1>2, ServedBefore DEF Next, Session, Connect

\* Who was once connected has come.
LEMMA ComeStays ==
  ASSUME TypeOK, [Next]_vars, NEW q \in Players, player_state[q] # "NULL"
  PROVE  player_state'[q] # "NULL"
<1>1. CASE UNCHANGED vars \/ RefuseConnection
  BY <1>1 DEF vars, RefuseConnection
<1>2. ASSUME NEW p \in Players, Session(p) PROVE player_state'[q] # "NULL"
  BY <1>2 DEF TypeOK, Session, Connect, Disconnect, MarkDisconnected
<1>3. ASSUME NEW p \in Players, Request(p) PROVE player_state'[q] # "NULL"
  BY <1>3 DEF TypeOK, Request, Register, UnknownAction, CreateMatch, ListMatches, JoinMatch, Move,
              Rematch, QuitMatch
<1>4. ASSUME NEW p \in Players, NEW id \in MatchIds, Answer(p, id) PROVE player_state'[q] # "NULL"
  BY <1>4 DEF Answer, AcceptJoin, RejectJoin, CancelJoin
<1> QED BY <1>1, <1>2, <1>3, <1>4 DEF Next

\* The creator of a match changes only when the winner of its last game opens it
\* again, and as long as a request is in decision it does not.
LEMMA CreatorKept ==
  ASSUME TypeOK, NEW id \in DOMAIN matches, Sound(matches[id]), [Next]_vars
  PROVE  LET m == matches[id]
             n == matches'[id]
         IN  /\ \/ n.creator_id = m.creator_id
                \/ \E p \in Players : Serving(p) /\ n.creator_id = p
             /\ n.state = "JOIN_PENDING" /\ n.pending_requester_id = m.pending_requester_id =>
                  m.state = "JOIN_PENDING" /\ n.creator_id = m.creator_id
<1> DEFINE m == matches[id]
           n == matches'[id]
           Goal == /\ \/ n.creator_id = m.creator_id
                      \/ \E p \in Players : Serving(p) /\ n.creator_id = p
                   /\ n.state = "JOIN_PENDING" /\ n.pending_requester_id = m.pending_requester_id =>
                        m.state = "JOIN_PENDING" /\ n.creator_id = m.creator_id
<1>1. m \in Matches /\ Sound(m) /\ OwnerPlaysFirst(m)
  BY DEF TypeOK, Sound
<1>2. CASE Keep(id)
  BY <1>2, KeptFields DEF SameSeats
<1>3. ASSUME SameSeats(m, n), n.state \in {m.state, "ABANDONED", "ACTIVE", "FINISHED"} PROVE Goal
  BY <1>3 DEF SameSeats
<1>4. ASSUME Promotes(m, n), m.pending_requester_id # NoPlayer PROVE Goal
  <2>1. SameSeats(m, n)
    BY <1>4 DEF Promotes
  <2>2. CASE n.state = "JOIN_PENDING"
    <3>1. n.pending_requester_id \in ToSet(m.join_queue)
      <4>1. n.pending_requester_id # NoPlayer
        <5>1. m.join_queue \in Seq(Players) /\ m.join_queue # << >>
          BY <1>1, <1>4, <2>2 DEF Promotes, Matches
        <5>2. Head(m.join_queue) \in Players
          BY <5>1
        <5> QED BY <1>4, <2>2, <5>2, MatchAssumption DEF Promotes
      <4> QED BY <1>1, <1>4, <4>1, PromotedIsFirst
    <3>2. n.pending_requester_id # m.pending_requester_id
      BY <1>1, <3>1 DEF Sound, RequestsInLine
    <3> QED BY <2>1, <3>2 DEF SameSeats
  <2>3. CASE n.state # "JOIN_PENDING"
    BY <2>1, <2>3 DEF SameSeats
  <2> QED BY <2>2, <2>3
<1>5. ASSUME NEW p \in Players, Serving(p), RequestDone(p, id) PROVE Goal
  <2>1. CASE AskFirst(p, id)
    <3>1. SameSeats(m, n) /\ n.pending_requester_id = p /\ m.pending_requester_id = NoPlayer
      BY <1>1, <2>1, RequestFields DEF AskFirst
    <3> QED BY <3>1, MatchAssumption DEF SameSeats
  <2>2. CASE Queue(p, id)
    BY <1>1, <1>3, <2>2, RequestFields DEF Queue
  <2>3. CASE TakeOver(p, id)
    BY <1>1, <1>5, <2>3, SessionFields DEF TakeOver
  <2>4. CASE Replay(p, id) \/ Vote(p, id)
    BY <1>1, <1>3, <2>4, SessionFields DEF Replay, Vote
  <2>5. CASE Quit(p, id)
    BY <1>1, <1>3, <2>5, LeftFields DEF Quit
  <2>6. ASSUME NEW column \in Columns, Drop(p, id, column) PROVE Goal
    BY <1>1, <1>3, <2>6, PlayedFields DEF Drop
  <2> QED BY <1>5, <2>1, <2>2, <2>3, <2>4, <2>5, <2>6 DEF RequestDone
<1>6. ASSUME NEW p \in Players, AnswerDone(p, id) PROVE Goal
  <2>1. CASE Accept(p, id)
    BY <1>1, <2>1, AcceptedFields DEF Accept
  <2>2. CASE Refuse(p, id)
    BY <1>1, <1>4, <2>2, DecisionFields DEF Refuse
  <2>3. CASE Withdraw(p, id)
    BY <1>1, <1>4, <2>3, DecisionFields, MatchAssumption DEF Withdraw
  <2>4. CASE LeaveQueue(p, id)
    BY <1>1, <1>3, <2>4, RemovedFields DEF LeaveQueue
  <2> QED BY <1>6, <2>1, <2>2, <2>3, <2>4 DEF AnswerDone
<1>7. ASSUME NEW p \in Players, Clean(p, id) PROVE Goal
  <2> DEFINE o == CleanUpMessages(m, p, id)
  <2>1. n = CleanUp(m, p)
    BY <1>7 DEF Clean
  <2>2. \/ CleanSeat(m, p, id, n, o) \/ CleanRequest(m, p, id, n, o) \/ CleanQueue(m, p, n)
        \/ n = m
    BY <1>1, <2>1, CleanUpCases
  <2>3. CASE CleanSeat(m, p, id, n, o)
    BY <1>1, <1>3, <2>3, LeftFields DEF CleanSeat
  <2>4. CASE CleanRequest(m, p, id, n, o)
    BY <1>1, <1>4, <2>4, PromoteFields, MatchAssumption DEF CleanRequest
  <2>5. CASE CleanQueue(m, p, n)
    BY <1>1, <1>3, <2>5, RemovedFields DEF CleanQueue
  <2>6. CASE n = m
    BY <1>3, <2>6 DEF SameSeats
  <2> QED BY <2>2, <2>3, <2>4, <2>5, <2>6
<1> QED BY <1>2, <1>3, <1>5, <1>6, <1>7, StepEffect

\* A request in decision was so before the step, or the creator is told of it now.
LEMMA AskedOrKept ==
  ASSUME TypeOK, TypeOK', NEW id \in DOMAIN matches, Sound(matches[id]), Sound(matches[id])',
         [Next]_vars, matches'[id].state = "JOIN_PENDING", Connected(matches'[id].creator_id)
  PROVE  LET m == matches[id]
             n == matches'[id]
         IN  \/ Tells(out', n.creator_id, {"join_request"}, id)
             \/ /\ m.state = "JOIN_PENDING" /\ n.creator_id = m.creator_id
                /\ n.pending_requester_id = m.pending_requester_id
<1> DEFINE m == matches[id]
           n == matches'[id]
<1>1. n \in Matches
  BY MatchesStay
<1>2. n.pending_requester_id # NoPlayer /\ n.creator_id \in Players
  BY <1>1 DEF Sound, SeatsMatchState, Matches
<1>3. CASE n.pending_requester_id # m.pending_requester_id
  BY <1>2, <1>3, AsksCreator
<1>4. CASE n.pending_requester_id = m.pending_requester_id
  BY <1>4, CreatorKept
<1> QED BY <1>3, <1>4

\* What the creator may answer settles the matter.
LEMMA AnswerSettles ==
  ASSUME TypeOK, NEW id \in DOMAIN matches, Sound(matches[id]), matches[id].state = "JOIN_PENDING",
         NEW p \in Players, p = matches[id].creator_id,
         AcceptJoin(p, id) \/ RejectJoin(p, id) \/ QuitMatch(p, id)
  PROVE  \/ matches'[id].state # "JOIN_PENDING"
         \/ /\ Tells(out', matches'[id].creator_id, {"join_request"}, id)
            /\ matches'[id].creator_id = p
<1> DEFINE m == matches[id]
           n == matches'[id]
<1>1. m \in Matches /\ Sound(m) /\ m.pending_requester_id # NoPlayer /\ matches \in Seq(Matches)
  BY DEF TypeOK, Sound, SeatsMatchState
<1>2. HasRequestFor(p, id)
  BY <1>1 DEF HasRequestFor, Found
<1>3. CASE AcceptJoin(p, id)
  <2>1. n = [Seated(m) EXCEPT !.join_queue = << >>]
    BY <1>1, <1>2, <1>3 DEF AcceptJoin, NothingToDecide
  <2> QED BY <1>1, <2>1, AcceptedFields
<1>4. CASE RejectJoin(p, id)
  <2>1. Refuse(p, id) /\ Connected(p)
    BY <1>1, <1>2, <1>4 DEF RejectJoin, NothingToDecide, Refuse, Serving
  <2>2. Promotes(m, n)
    BY <1>1, <2>1, DecisionFields DEF Refuse
  <2>3. CASE n.pending_requester_id = NoPlayer
    <3>1. m.join_queue \in Seq(Players)
      BY <1>1 DEF Matches
    <3>2. m.join_queue # << >> => Head(m.join_queue) \in Players
      BY <3>1
    <3> QED BY <2>2, <2>3, <3>2, MatchAssumption DEF Promotes
  <2>4. CASE n.pending_requester_id # NoPlayer
    <3>1. n.creator_id = p
      BY <2>2 DEF Promotes, SameSeats
    <3> QED BY <2>1, <2>4, <3>1, RefusalTells
  <2> QED BY <2>3, <2>4
<1>5. CASE QuitMatch(p, id)
  <2>1. is_player_in_match(m, p)
    BY <1>1 DEF Sound, OwnerPlaysFirst, is_player_in_match
  <2>2. n = Left(m, p)
    BY <1>1, <1>5, <2>1 DEF QuitMatch, Found
  <2> QED BY <1>1, <2>2, LeftFields
<1> QED BY <1>3, <1>4, <1>5

-----------------------------------------------------------------------------
(* No request is forgotten: what happens at the creator's client.          *)

\* The request of asker about match id is put to the creator whose client is c,
\* or something he has sent settles it.
Put(c, id, asker) ==
  \/ \E k \in DOMAIN c.inbox : /\ c.inbox[k].action = "join_request"
                               /\ c.inbox[k].match = id
                               /\ c.inbox[k].detail = asker
  \/ RequestDialog(id, asker) \in ToSet(c.dialogs)
  \/ About(c.outbox, {"accept_join", "reject_join", "quit_match"}, id)

\* h has the messages of c, on the way in and out, and the dialogs but those
\* about a place in the queue.
Keeps(c, h) ==
  /\ h.inbox = c.inbox /\ h.outbox = c.outbox
  /\ \A d \in ToSet(c.dialogs) : d.kind # "queued" => d \in ToSet(h.dialogs)

LEMMA KeepsTrans ==
  ASSUME NEW a, NEW b, NEW c, Keeps(a, b), Keeps(b, c)
  PROVE  Keeps(a, c)
BY DEF Keeps

LEMMA ShowKeeps ==
  ASSUME NEW ids, NEW c \in Clients(ids), NEW d \in Dialogs
  PROVE  Keeps(c, Show(c, d)) /\ d \in ToSet(Show(c, d).dialogs)
<1> DEFINE b == c.dialogs
<1>1. b \in Seq(Dialogs)
  BY DEF Clients
<1>2. /\ Show(c, d).inbox = c.inbox /\ Show(c, d).outbox = c.outbox
      /\ Show(c, d).dialogs = Append(b, d)
  BY DEF Show, Clients
<1> HIDE DEF b
<1>3. ToSet(b) \subseteq ToSet(Append(b, d)) /\ d \in ToSet(Append(b, d))
  <2>1. /\ DOMAIN b = 1 .. Len(b) /\ Len(b) \in Nat
        /\ DOMAIN Append(b, d) = 1 .. Len(b) + 1
        /\ \A i \in 1 .. Len(b) : Append(b, d)[i] = b[i]
        /\ Append(b, d)[Len(b) + 1] = d
    BY <1>1
  <2>2. \A i \in 1 .. Len(b) : i \in 1 .. Len(b) + 1
    BY <2>1
  <2>3. Len(b) + 1 \in 1 .. Len(b) + 1
    BY <2>1
  <2> QED BY <2>1, <2>2, <2>3 DEF ToSet
<1> QED BY <1>2, <1>3 DEF Keeps, b

LEMMA QueuedClosedKeeps ==
  ASSUME NEW ids, NEW c \in Clients(ids)
  PROVE  Keeps(c, closeQueuedInfoDialogIfOpen(c))
<1> DEFINE b == c.dialogs
           kept == {k \in DOMAIN b : b[k].kind # "queued"}
           s == SelectPlaces(b, kept)
           h == closeQueuedInfoDialogIfOpen(c)
<1>1. b \in Seq(Dialogs)
  BY DEF Clients
<1>2. h.inbox = c.inbox /\ h.outbox = c.outbox /\ h.dialogs = s
  BY DEF closeQueuedInfoDialogIfOpen, Clients
<1>3. ASSUME NEW d \in ToSet(b), d.kind # "queued" PROVE d \in ToSet(s)
  <2>1. PICK i \in DOMAIN b : b[i] = d
    BY DEF ToSet
  <2>2. i \in kept
    BY <1>3, <2>1
  <2> HIDE DEF b, kept
  <2>3. \E l \in DOMAIN s : s[l] = b[i]
    BY <1>1, <2>2, SelectHolds
  <2> QED BY <2>1, <2>3 DEF ToSet
<1> HIDE DEF h, s
<1> QED BY <1>2, <1>3 DEF Keeps, h

LEMMA MovedKeeps ==
  ASSUME NEW ids, NEW c \in Clients(ids), NEW msg, msg.turn \in Symbols, NEW me
  PROVE  Keeps(c, moved(c, msg, me))
<1> DEFINE shown == [c EXCEPT !.currentTurn = msg.turn]
           over == [shown EXCEPT !.matchState = "FINISHED"]
<1>1. shown \in Clients(ids) /\ Keeps(c, shown)
  BY DEF Clients, Keeps
<1> HIDE DEF shown
<1>2. over \in Clients(ids) /\ Keeps(shown, over)
  <2>1. over \in Clients(ids)
    BY <1>1, FinishedType
  <2> QED BY <1>1, <2>1 DEF Clients, Keeps
<1> HIDE DEF over
<1>3. Keeps(over, Show(over, Dialog("choice"))) /\ Keeps(over, Show(over, Dialog("lost")))
  BY <1>2, ShowKeeps, DialogType
<1>4. moved(c, msg, me) \in {shown, Show(over, Dialog("choice")), Show(over, Dialog("lost"))}
  BY DEF moved, shown, over
<1> QED BY <1>1, <1>2, <1>3, <1>4, KeepsTrans

LEMMA ResponseKeeps ==
  ASSUME NEW ids \in SUBSET MatchIds, NEW c \in Clients(ids), NEW msg \in Post(ids),
         msg.type = "RESPONSE", ~IsError(msg)
  PROVE  Keeps(c, handleResponse(c, msg))
<1> DEFINE r == [c EXCEPT !.registered = TRUE]
           asked == [c EXCEPT !.currentMatchId = msg.match, !.matchState = "JOIN_PENDING",
                              !.screen = "join_waiting"]
<1>1. Keeps(c, c) /\ Keeps(c, r) /\ Keeps(c, Waits(c, msg)) /\ Keeps(c, asked)
  BY DEF Keeps, Waits, applyMatchState, Clients
<1>2. Keeps(c, Show(c, Dialog("info")))
  BY ShowKeeps, DialogType
<1>3. CASE msg.action = "join_match"
  <2>1. asked \in Clients(ids)
    <3>1. /\ "JOIN_PENDING" \in ModelStates /\ "join_waiting" \in Screens /\ msg.match # NoMatch
          /\ msg.match \in ids
      BY <1>3, ClientAssumption
         DEF ModelStates, Screens, MatchIds, Entering, Post, NamesMatch
    <3> QED BY <3>1 DEF Clients
  <2> HIDE DEF asked
  <2>2. Keeps(asked, Show(asked, Dialog("queued")))
    BY <2>1, ShowKeeps, DialogType
  <2>3. handleResponse(c, msg) \in {asked, Show(asked, Dialog("queued"))}
    BY <1>3 DEF handleResponse, asked
  <2> QED BY <1>1, <2>2, <2>3, KeepsTrans
<1>4. CASE msg.action # "join_match"
  <2>1. handleResponse(c, msg) \in {c, r, Waits(c, msg), Show(c, Dialog("info"))}
    BY <1>4 DEF handleResponse
  <2> HIDE DEF r
  <2> QED BY <1>1, <1>2, <2>1
<1> QED BY <1>3, <1>4

LEMMA NotificationKeeps ==
  ASSUME NEW ids \in SUBSET MatchIds, NEW c \in Clients(ids), NEW msg \in Post(ids),
         msg.type = "NOTIFICATION", NEW me
  PROVE  LET h == handleNotification(c, msg, me)
         IN  /\ Keeps(c, h)
             /\ msg.action = "join_request" =>
                  RequestDialog(msg.match, msg.detail) \in ToSet(h.dialogs)
             /\ msg.action \in {"join_request_rejected", "join_request_obsolete"} =>
                  Dialog("lobby") \in ToSet(h.dialogs)
<1> DEFINE h == handleNotification(c, msg, me)
           q == closeQueuedInfoDialogIfOpen(c)
           f == [c EXCEPT !.matchState = "FINISHED"]
           l == Dialog("lobby")
<1>1. /\ msg.match \in ids
      /\ msg.action \in {"match_started", "move"} => msg.turn \in Symbols
      /\ msg.action = "join_request" => msg.detail \in Players
  BY DEF Post, NamesMatch, ShowsTurn
<1>2. q \in Clients(ids) /\ f \in Clients(ids) /\ l \in Dialogs
  BY QueuedClosedType, FinishedType, DialogType
<1>3. Keeps(c, c) /\ Keeps(c, q) /\ Keeps(c, f)
  <2>1. Keeps(c, c) /\ Keeps(c, f)
    BY DEF Keeps, Clients
  <2> QED BY <2>1, QueuedClosedKeeps
<1> HIDE DEF q, f, l
<1>4. /\ Keeps(c, Show(q, l)) /\ l \in ToSet(Show(q, l).dialogs)
      /\ Keeps(c, Show(f, l)) /\ Keeps(c, Show(c, l))
  <2>1. /\ Keeps(q, Show(q, l)) /\ l \in ToSet(Show(q, l).dialogs)
        /\ Keeps(f, Show(f, l)) /\ Keeps(c, Show(c, l))
    BY <1>2, ShowKeeps
  <2> QED BY <1>3, <2>1, KeepsTrans
<1>5. CASE msg.action = "match_started"
  <2>1. Keeps(q, started(c, msg))
    <3>1. started(c, msg) = [q EXCEPT !.currentMatchId = msg.match, !.myPlayerNumber = msg.number,
                                      !.currentTurn = msg.turn, !.matchState = "ACTIVE",
                                      !.screen = "game"]
      BY <1>2 DEF started, applyMatchState, Clients, q
    <3> QED BY <1>2, <3>1 DEF Keeps, Clients
  <2>2. h = started(c, msg)
    BY <1>5 DEF handleNotification
  <2> HIDE DEF h
  <2> QED BY <1>3, <1>5, <2>1, <2>2, KeepsTrans DEF h
<1>6. CASE msg.action = "join_request"
  <2> DEFINE d == RequestDialog(msg.match, msg.detail)
  <2>1. d \in Dialogs
    BY <1>1, <1>6, DialogType
  <2>2. h = Show(c, d)
    BY <1>6 DEF handleNotification
  <2> HIDE DEF h, d
  <2>3. Keeps(c, h) /\ d \in ToSet(h.dialogs)
    BY <2>1, <2>2, ShowKeeps
  <2> QED BY <1>6, <2>3 DEF h, d
<1>7. CASE msg.action = "move"
  <2>1. h = moved(c, msg, me)
    BY <1>7 DEF handleNotification
  <2>2. Keeps(c, h)
    BY <1>1, <1>7, <2>1, MovedKeeps
  <2> QED BY <1>7, <2>2
<1>8. CASE msg.action \in {"join_request_rejected", "join_request_obsolete"}
  <2>1. h = Show(q, l)
    BY <1>8 DEF handleNotification, q, l
  <2> HIDE DEF h
  <2> QED BY <1>4, <1>8, <2>1 DEF h, l
<1>9. CASE msg.action \notin {"match_started", "join_request", "move", "join_request_rejected",
                              "join_request_obsolete"}
  <2>1. h \in {q, Show(f, l), Show(c, l), c}
    BY <1>9 DEF handleNotification, q, f, l
  <2> HIDE DEF h
  <2> QED BY <1>3, <1>4, <1>9, <2>1 DEF h
<1> QED BY <1>5, <1>6, <1>7, <1>8, <1>9

\* Once a message is handled it is gone, and nothing else is.
LEMMA HandledKeeps ==
  ASSUME NEW ids \in SUBSET MatchIds, NEW c \in Clients(ids), c.inbox # << >>, NEW me
  PROVE  LET h   == handleMessage(c, me)
             msg == Head(c.inbox)
         IN  /\ h.inbox = Tail(c.inbox) /\ h.outbox = c.outbox
             /\ \A d \in ToSet(c.dialogs) : d.kind # "queued" => d \in ToSet(h.dialogs)
             /\ msg.action = "join_request" =>
                  RequestDialog(msg.match, msg.detail) \in ToSet(h.dialogs)
             /\ msg.action \in {"join_request_rejected", "join_request_obsolete"} =>
                  Dialog("lobby") \in ToSet(h.dialogs)
<1> DEFINE h == handleMessage(c, me)
           b == c.inbox
           msg == Head(b)
           rest == [c EXCEPT !.inbox = Tail(b)]
<1>1. b \in Seq(Post(ids)) /\ b # << >>
  BY DEF Clients
<1>2. msg \in Post(ids) /\ Tail(b) \in Seq(Post(ids))
  <2> HIDE DEF b
  <2> QED BY <1>1
<1>3. h = CASE IsError(msg)            -> Show(rest, Dialog("info"))
            [] ~IsError(msg) /\ msg.type = "RESPONSE" -> handleResponse(rest, msg)
            [] msg.type = "NOTIFICATION" -> handleNotification(rest, msg, me)
  BY DEF handleMessage
<1>4. rest \in Clients(ids) /\ rest.inbox = Tail(b) /\ rest.outbox = c.outbox
      /\ rest.dialogs = c.dialogs
  <2> HIDE DEF b
  <2> QED BY <1>2 DEF Clients
<1> HIDE DEF b, msg, rest, h
<1>5. msg.type \in {"RESPONSE", "NOTIFICATION"} /\ (IsError(msg) => msg.type = "RESPONSE")
  BY <1>2 DEF Post, IsError
<1>6. msg.type = "RESPONSE" =>
        msg.action \notin {"join_request", "join_request_rejected", "join_request_obsolete"}
  BY <1>2 DEF Post, AnswerNames
<1>7. /\ Keeps(rest, h)
      /\ msg.action = "join_request" => RequestDialog(msg.match, msg.detail) \in ToSet(h.dialogs)
      /\ msg.action \in {"join_request_rejected", "join_request_obsolete"} =>
           Dialog("lobby") \in ToSet(h.dialogs)
  <2>1. CASE IsError(msg)
    <3>1. Keeps(rest, Show(rest, Dialog("info")))
      BY <1>4, ShowKeeps, DialogType
    <3> QED BY <1>3, <1>5, <1>6, <2>1, <3>1
  <2>2. CASE ~IsError(msg) /\ msg.type = "RESPONSE"
    <3>1. Keeps(rest, handleResponse(rest, msg))
      BY <1>2, <1>4, <2>2, ResponseKeeps
    <3> QED BY <1>3, <1>6, <2>2, <3>1
  <2>3. CASE ~IsError(msg) /\ msg.type = "NOTIFICATION"
    <3>1. h = handleNotification(rest, msg, me)
      BY <1>3, <2>3
    <3> QED BY <1>2, <1>4, <2>3, <3>1, NotificationKeeps
  <2> QED BY <1>5, <2>1, <2>2, <2>3
<1> QED BY <1>4, <1>7 DEF Keeps, h, b, msg

\* The elements of a sequence, in what is left of it and in what is made of it.
LEMMA TailHolds ==
  ASSUME NEW S, NEW s \in Seq(S), NEW k \in DOMAIN s, k # 1
  PROVE  k - 1 \in DOMAIN Tail(s) /\ Tail(s)[k - 1] = s[k]
<1>1. /\ DOMAIN s = 1 .. Len(s) /\ Len(s) \in Nat
  OBVIOUS
<1>2. s # << >>
  BY <1>1
<1>3. /\ Tail(s) \in Seq(S) /\ Len(Tail(s)) = Len(s) - 1
      /\ \A i \in 1 .. Len(s) - 1 : Tail(s)[i] = s[i + 1]
  BY <1>2, HeadTailProperties
<1>4. k - 1 \in 1 .. Len(s) - 1 /\ (k - 1) + 1 = k
  BY <1>1
<1>5. DOMAIN Tail(s) = 1 .. Len(s) - 1
  BY <1>1, <1>3
<1> QED BY <1>3, <1>4, <1>5

LEMMA LongerHolds ==
  ASSUME NEW S, NEW s \in Seq(S), NEW t \in Seq(S), NEW k \in DOMAIN s
  PROVE  k \in DOMAIN (s \o t) /\ (s \o t)[k] = s[k]
<1>1. /\ s \o t \in Seq(S) /\ Len(s \o t) = Len(s) + Len(t)
      /\ \A i \in 1 .. Len(s) + Len(t) :
           (s \o t)[i] = IF i <= Len(s) THEN s[i] ELSE t[i - Len(s)]
  BY ConcatProperties
<1>2. Len(s) \in Nat /\ Len(t) \in Nat /\ k \in 1 .. Len(s) /\ DOMAIN (s \o t) = 1 .. Len(s \o t)
  BY <1>1
<1>3. k \in 1 .. Len(s) + Len(t) /\ k <= Len(s)
  BY <1>2
<1> QED BY <1>1, <1>2, <1>3

LEMMA PostHolds ==
  ASSUME NEW S, NEW s \in Seq(S), NEW t \in Seq(S), NEW k \in DOMAIN t
  PROVE  Len(s) + k \in DOMAIN (s \o t) /\ (s \o t)[Len(s) + k] = t[k]
<1>1. /\ s \o t \in Seq(S) /\ Len(s \o t) = Len(s) + Len(t)
      /\ \A i \in 1 .. Len(s) + Len(t) :
           (s \o t)[i] = IF i <= Len(s) THEN s[i] ELSE t[i - Len(s)]
  BY ConcatProperties
<1>2. Len(s) \in Nat /\ Len(t) \in Nat /\ k \in 1 .. Len(t) /\ DOMAIN (s \o t) = 1 .. Len(s \o t)
  BY <1>1
<1>3. Len(s) + k \in 1 .. Len(s) + Len(t) /\ ~(Len(s) + k <= Len(s)) /\ (Len(s) + k) - Len(s) = k
  BY <1>2
<1> QED BY <1>1, <1>2, <1>3

LEMMA PutGrows ==
  ASSUME NEW ids, NEW c \in Clients(ids), NEW post \in Seq(Post(ids)), NEW id, NEW asker,
         Put(c, id, asker)
  PROVE  Put([c EXCEPT !.inbox = @ \o post], id, asker)
<1> DEFINE b == c.inbox
           h == [c EXCEPT !.inbox = b \o post]
<1>1. b \in Seq(Post(ids))
  BY DEF Clients
<1>2. h.inbox = b \o post /\ h.outbox = c.outbox /\ h.dialogs = c.dialogs
  BY DEF Clients
<1> HIDE DEF h, b
<1>3. ASSUME NEW k \in DOMAIN b, b[k].action = "join_request", b[k].match = id, b[k].detail = asker
      PROVE  Put(h, id, asker)
  <2>1. k \in DOMAIN h.inbox /\ h.inbox[k] = b[k]
    BY <1>1, <1>2, LongerHolds
  <2> QED BY <1>3, <2>1 DEF Put
<1>4. Put(h, id, asker)
  BY <1>2, <1>3 DEF Put, b
<1> QED BY <1>4 DEF h, b

LEMMA PutHandled ==
  ASSUME NEW ids \in SUBSET MatchIds, NEW c \in Clients(ids), c.inbox # << >>, NEW me,
         NEW id, NEW asker, Put(c, id, asker)
  PROVE  Put(handleMessage(c, me), id, asker)
<1> DEFINE h == handleMessage(c, me)
           b == c.inbox
           msg == Head(b)
<1>1. /\ h.inbox = Tail(b) /\ h.outbox = c.outbox
      /\ \A d \in ToSet(c.dialogs) : d.kind # "queued" => d \in ToSet(h.dialogs)
      /\ msg.action = "join_request" => RequestDialog(msg.match, msg.detail) \in ToSet(h.dialogs)
  BY HandledKeeps
<1>2. b \in Seq(Post(ids)) /\ b # << >>
  BY DEF Clients
<1>3. msg = b[1]
  <2> HIDE DEF b
  <2> QED BY <1>2
<1> HIDE DEF h, b, msg
<1>4. ASSUME NEW k \in DOMAIN b, b[k].action = "join_request", b[k].match = id, b[k].detail = asker
      PROVE  Put(h, id, asker)
  <2>1. CASE k = 1
    BY <1>1, <1>3, <1>4, <2>1 DEF Put
  <2>2. CASE k # 1
    <3>1. k - 1 \in DOMAIN Tail(b) /\ Tail(b)[k - 1] = b[k]
      BY <1>2, <2>2, TailHolds
    <3> QED BY <1>1, <1>4, <3>1 DEF Put
  <2> QED BY <2>1, <2>2
<1>5. RequestDialog(id, asker).kind # "queued"
  BY DEF RequestDialog
<1> QED BY <1>1, <1>4, <1>5 DEF Put, b, h

LEMMA PutServed ==
  ASSUME NEW ids, NEW c \in Clients(ids), c.outbox # << >>, NEW id, NEW asker, Put(c, id, asker)
  PROVE  \/ Put([c EXCEPT !.outbox = Tail(@)], id, asker)
         \/ /\ Head(c.outbox).action \in {"accept_join", "reject_join", "quit_match"}
            /\ Head(c.outbox).match = id
<1> DEFINE b == c.outbox
           h == [c EXCEPT !.outbox = Tail(b)]
<1>1. b \in Seq(Errands) /\ b # << >>
  BY DEF Clients
<1>2. h.inbox = c.inbox /\ h.outbox = Tail(b) /\ h.dialogs = c.dialogs
  BY DEF Clients
<1>3. Head(b) = b[1]
  <2> HIDE DEF b
  <2> QED BY <1>1
<1> HIDE DEF h, b
<1>4. ASSUME NEW k \in DOMAIN b, b[k].action \in {"accept_join", "reject_join", "quit_match"},
             b[k].match = id
      PROVE  \/ Put(h, id, asker)
             \/ /\ Head(b).action \in {"accept_join", "reject_join", "quit_match"}
                /\ Head(b).match = id
  <2>1. CASE k = 1
    BY <1>3, <1>4, <2>1
  <2>2. CASE k # 1
    <3>1. k - 1 \in DOMAIN Tail(b) /\ Tail(b)[k - 1] = b[k]
      BY <1>1, <2>2, TailHolds
    <3> QED BY <1>2, <1>4, <3>1 DEF Put, About
  <2> QED BY <2>1, <2>2
<1> QED BY <1>2, <1>4 DEF Put, About, b, h

\* h has sent more than c, and has the same messages to handle.
SendsMore(c, h) ==
  /\ h.inbox = c.inbox
  /\ \A k \in DOMAIN c.outbox : k \in DOMAIN h.outbox /\ h.outbox[k] = c.outbox[k]

LEMMA ErrandSendsMore ==
  ASSUME NEW ids, NEW c \in Clients(ids), NEW r \in Errands
  PROVE  LET h == sendMessage(c, r)
         IN  /\ SendsMore(c, h) /\ h.dialogs = c.dialogs
             /\ Len(c.outbox) + 1 \in DOMAIN h.outbox /\ h.outbox[Len(c.outbox) + 1] = r
<1> DEFINE b == c.outbox
<1>1. b \in Seq(Errands)
  BY DEF Clients
<1>2. sendMessage(c, r) = [c EXCEPT !.outbox = Append(b, r)]
  BY DEF sendMessage
<1> HIDE DEF b
<1>3. /\ \A k \in DOMAIN b : k \in DOMAIN Append(b, r) /\ Append(b, r)[k] = b[k]
      /\ Len(b) + 1 \in DOMAIN Append(b, r) /\ Append(b, r)[Len(b) + 1] = r
  <2>1. /\ DOMAIN b = 1 .. Len(b) /\ Len(b) \in Nat
        /\ DOMAIN Append(b, r) = 1 .. Len(b) + 1
        /\ \A i \in 1 .. Len(b) : Append(b, r)[i] = b[i]
        /\ Append(b, r)[Len(b) + 1] = r
    BY <1>1
  <2>2. \A i \in 1 .. Len(b) : i \in 1 .. Len(b) + 1
    BY <2>1
  <2>3. Len(b) + 1 \in 1 .. Len(b) + 1
    BY <2>1
  <2> QED BY <2>1, <2>2, <2>3
<1>4. /\ sendMessage(c, r).inbox = c.inbox /\ sendMessage(c, r).outbox = Append(b, r)
      /\ sendMessage(c, r).dialogs = c.dialogs
  BY <1>2 DEF Clients
<1> QED BY <1>3, <1>4 DEF SendsMore, b

LEMMA SendsMoreTrans ==
  ASSUME NEW a, NEW b, NEW c, SendsMore(a, b), SendsMore(b, c)
  PROVE  SendsMore(a, c)
BY DEF SendsMore

LEMMA CurrentSendsMore ==
  ASSUME NEW ids \in SUBSET MatchIds, NEW c \in Clients(ids),
         NEW action \in {"cancel_join", "rematch", "quit_match"}
  PROVE  SendsMore(c, SendOfCurrent(c, action)) /\ SendOfCurrent(c, action).dialogs = c.dialogs
<1>1. c.currentMatchId \in ids \cup {NoMatch} /\ 0 \in 0 .. BOARD_COLS - 1
  BY BoardAssumption DEF Clients
<1>2. c.currentMatchId # NoMatch => createRequestMessage(action, c.currentMatchId, 0) \in Errands
  BY <1>1, ErrandType
<1>3. SendsMore(c, c)
  BY DEF SendsMore
<1> QED BY <1>2, <1>3, ErrandSendsMore DEF SendOfCurrent

LEMMA LeavingSendsMore ==
  ASSUME NEW ids \in SUBSET MatchIds, NEW c \in Clients(ids)
  PROVE  /\ SendsMore(c, returnToLobby(c)) /\ returnToLobby(c).dialogs = c.dialogs
         /\ SendsMore(c, leaveMatch(c)) /\ leaveMatch(c).dialogs = c.dialogs
         /\ SendsMore(c, cancelJoinRequest(c))
<1> DEFINE s == SendOfCurrent(c, "quit_match")
           q == closeQueuedInfoDialogIfOpen(c)
           t == SendOfCurrent(q, "cancel_join")
<1>1. ASSUME NEW b \in Clients(ids)
      PROVE  SendsMore(b, returnToLobby(b)) /\ returnToLobby(b).dialogs = b.dialogs
  BY DEF SendsMore, returnToLobby, Clients
<1>2. s \in Clients(ids) /\ SendsMore(c, s) /\ s.dialogs = c.dialogs
  BY CurrentSent, CurrentSendsMore
<1>3. q \in Clients(ids)
  BY QueuedClosedType
<1>4. SendsMore(c, q)
  BY QueuedClosedKeeps DEF Keeps, SendsMore
<1>5. t \in Clients(ids) /\ SendsMore(q, t)
  <2> HIDE DEF q
  <2> QED BY <1>3, CurrentSent, CurrentSendsMore
<1>6. leaveMatch(c) = returnToLobby(s) /\ cancelJoinRequest(c) = returnToLobby(t)
  BY DEF leaveMatch, cancelJoinRequest
<1> HIDE DEF s, q, t
<1>7. SendsMore(c, t)
  BY <1>4, <1>5, SendsMoreTrans
<1>8. SendsMore(c, leaveMatch(c)) /\ leaveMatch(c).dialogs = c.dialogs
  BY <1>1, <1>2, <1>6, SendsMoreTrans
<1>9. SendsMore(c, cancelJoinRequest(c))
  BY <1>1, <1>5, <1>6, <1>7, SendsMoreTrans
<1> QED BY <1>1, <1>8, <1>9

\* A dialog closes on top of the others; one with a request leaves an answer.
LEMMA ClosedSendsMore ==
  ASSUME NEW ids \in SUBSET MatchIds, NEW c \in Clients(ids), c.dialogs # << >>,
         NEW yes \in BOOLEAN
  PROVE  LET h == CloseDialog(c, yes)
             d == Last(c.dialogs)
         IN  /\ SendsMore(c, h) /\ h.dialogs = Front(c.dialogs)
             /\ d.kind = "request" => About(h.outbox, {"accept_join", "reject_join"}, d.match)
<1> DEFINE b == c.dialogs
           d == Last(b)
           below == [c EXCEPT !.dialogs = Front(b)]
           h == CloseDialog(c, yes)
<1>1. b \in Seq(Dialogs) /\ b # << >>
  BY DEF Clients
<1>2. Front(b) \in Seq(Dialogs) /\ d \in Dialogs
  <2> HIDE DEF b
  <2> QED BY <1>1, FrontType
<1>3. h = CASE d.kind = "request" -> AnswerToRequest(below, d, yes)
            [] d.kind = "choice"  -> IF yes THEN requestRematch(below) ELSE leaveMatch(below)
            [] d.kind = "lost"    -> leaveMatch(below)
            [] d.kind = "lobby"   -> returnToLobby(below)
            [] OTHER              -> below
  BY DEF CloseDialog
<1> HIDE DEF b, d
<1>4. below \in Clients(ids)
  BY <1>2 DEF Clients
<1>5. SendsMore(c, below) /\ below.dialogs = Front(b) /\ SendsMore(below, below)
  BY DEF SendsMore, Clients
<1> HIDE DEF below, h
<1>6. CASE d.kind = "request"
  <2> DEFINE action == IF yes THEN "accept_join" ELSE "reject_join"
             r == [createRequestMessage(action, d.match, 0) EXCEPT !.about = d.asker]
  <2>1. d.match \in MatchIds /\ d.asker \in Players \cup {NoMatch}
    BY <1>2, <1>6 DEF Dialogs
  <2>2. r \in Errands
    BY <2>1, ErrandType
  <2>3. h = sendMessage(below, r)
    BY <1>3, <1>6 DEF AnswerToRequest
  <2>4. r.action \in {"accept_join", "reject_join"} /\ r.match = d.match
    BY DEF createRequestMessage
  <2> HIDE DEF r
  <2>5. /\ SendsMore(below, h) /\ h.dialogs = below.dialogs
        /\ Len(below.outbox) + 1 \in DOMAIN h.outbox /\ h.outbox[Len(below.outbox) + 1] = r
    BY <1>4, <2>2, <2>3, ErrandSendsMore
  <2>6. About(h.outbox, {"accept_join", "reject_join"}, d.match)
    BY <2>4, <2>5 DEF About
  <2>7. SendsMore(c, h)
    BY <1>5, <2>5, SendsMoreTrans
  <2> QED BY <1>5, <2>5, <2>6, <2>7 DEF h, b, d
<1>7. CASE d.kind # "request"
  <2>1. /\ SendsMore(below, requestRematch(below)) /\ requestRematch(below).dialogs = below.dialogs
        /\ SendsMore(below, leaveMatch(below)) /\ leaveMatch(below).dialogs = below.dialogs
        /\ SendsMore(below, returnToLobby(below)) /\ returnToLobby(below).dialogs = below.dialogs
    BY <1>4, CurrentSendsMore, LeavingSendsMore DEF requestRematch
  <2>2. h \in {requestRematch(below), leaveMatch(below), returnToLobby(below), below}
    BY <1>3, <1>7
  <2>3. SendsMore(below, h) /\ h.dialogs = below.dialogs
    BY <1>5, <2>1, <2>2
  <2>4. SendsMore(c, h)
    BY <1>5, <2>3, SendsMoreTrans
  <2> QED BY <1>5, <1>7, <2>3, <2>4 DEF h, b, d
<1> QED BY <1>6, <1>7

\* What a user does: on the screen when no dialog is open, or to the last dialog.
LEMMA UserSends ==
  ASSUME NEW ids \in SUBSET MatchIds, client \in [Players -> Clients(ids)],
         NEW p \in Players, User(p)
  PROVE  \E after :
           /\ client' = [client EXCEPT ![p] = after]
           /\ SendsMore(client[p], after)
           /\ \/ client[p].dialogs = << >>
              \/ /\ client[p].dialogs # << >>
                 /\ \E yes \in BOOLEAN : after = CloseDialog(client[p], yes)
<1> DEFINE c == client[p]
           Goal == \E after :
                     /\ client' = [client EXCEPT ![p] = after]
                     /\ SendsMore(c, after)
                     /\ \/ c.dialogs = << >>
                        \/ c.dialogs # << >> /\ \E yes \in BOOLEAN : after = CloseDialog(c, yes)
<1>0. c \in Clients(ids) /\ 0 \in 0 .. BOARD_COLS - 1
  BY BoardAssumption
<1>1. ASSUME NEW after, Acts(p, after), SendsMore(c, after), c.dialogs = << >> PROVE Goal
  BY <1>1 DEF Acts
<1>2. ASSUME NEW r \in Errands, Acts(p, sendMessage(c, r)), c.dialogs = << >> PROVE Goal
  BY <1>0, <1>1, <1>2, ErrandSendsMore
<1>3. CASE ClickCreate(p)
  BY <1>2, <1>3, ErrandType DEF ClickCreate, On, Unblocked
<1>4. CASE ClickCancel(p)
  BY <1>0, <1>1, <1>4, LeavingSendsMore DEF ClickCancel, On, Unblocked
<1>5. CASE ClickLeave(p)
  BY <1>0, <1>1, <1>5, LeavingSendsMore DEF ClickLeave, On, Unblocked
<1>6. ASSUME NEW id \in MatchIds, ClickJoin(p, id) PROVE Goal
  BY <1>0, <1>2, <1>6, ErrandType DEF ClickJoin, On, Unblocked
<1>7. ASSUME NEW column \in 0 .. BOARD_COLS - 1, ClickColumn(p, column) PROVE Goal
  <2>1. c.currentMatchId \in MatchIds
    BY <1>0, <1>7 DEF ClickColumn, MayClickColumn, Clients
  <2>2. createRequestMessage("move", c.currentMatchId, column) \in Errands
    BY <1>7, <2>1, ErrandType
  <2> QED BY <1>2, <1>7, <2>2 DEF ClickColumn, On, Unblocked
<1>8. ASSUME NEW yes \in BOOLEAN, AnswerDialog(p, yes) PROVE Goal
  <2>1. SendsMore(c, CloseDialog(c, yes))
    BY <1>0, <1>8, ClosedSendsMore DEF AnswerDialog
  <2> QED BY <1>8, <2>1 DEF AnswerDialog, Acts
<1> QED BY <1>3, <1>4, <1>5, <1>6, <1>7, <1>8 DEF User

LEMMA PutActed ==
  ASSUME NEW ids \in SUBSET MatchIds, NEW c \in Clients(ids), NEW h, SendsMore(c, h),
         \/ c.dialogs = << >>
         \/ c.dialogs # << >> /\ \E yes \in BOOLEAN : h = CloseDialog(c, yes),
         NEW id, NEW asker, Put(c, id, asker)
  PROVE  Put(h, id, asker)
<1> DEFINE b == c.dialogs
           d == Last(b)
           r == RequestDialog(id, asker)
<1>1. CASE ~(r \in ToSet(b))
  BY <1>1 DEF Put, About, SendsMore
<1>2. CASE r \in ToSet(b)
  <2>1. b \in Seq(Dialogs) /\ b # << >>
    BY <1>2 DEF Clients, ToSet
  <2>2. PICK yes \in BOOLEAN : h = CloseDialog(c, yes)
    BY <2>1
  <2>3. /\ h.dialogs = Front(b)
        /\ d.kind = "request" => About(h.outbox, {"accept_join", "reject_join"}, d.match)
    BY <2>1, <2>2, ClosedSendsMore
  <2>4. PICK k \in DOMAIN b : b[k] = r
    BY <1>2 DEF ToSet
  <2>5. r.kind = "request" /\ r.match = id
    BY DEF RequestDialog
  <2> HIDE DEF b, d, r
  <2>6. /\ Front(b) \in Seq(Dialogs)
        /\ Len(Front(b)) = Len(b) - 1 /\ Len(b) \in Nat \ {0}
        /\ \A i \in 1 .. Len(b) - 1 : Front(b)[i] = b[i]
        /\ d = b[Len(b)]
    BY <2>1, FrontType DEF d
  <2>7. k \in 1 .. Len(b) /\ DOMAIN Front(b) = 1 .. Len(b) - 1
    BY <2>1, <2>4, <2>6
  <2>8. CASE k = Len(b)
    BY <2>3, <2>4, <2>5, <2>6, <2>8 DEF Put, About
  <2>9. CASE k # Len(b)
    <3>1. k \in DOMAIN Front(b) /\ Front(b)[k] = r
      BY <2>4, <2>6, <2>7, <2>9
    <3> QED BY <2>3, <3>1 DEF Put, ToSet, r
  <2> QED BY <2>8, <2>9
<1> QED BY <1>1, <1>2

\* A request the creator is told of has been put to him.
LEMMA ToldIsPut ==
  ASSUME TypeOK', out' \in Mailings(matches'), NEW clients \in [Players -> Clients(DOMAIN matches')],
         Deliver(clients), NEW q \in Players, NEW id, Tells(out', q, {"join_request"}, id)
  PROVE  Put(client'[q], id, matches'[id].pending_requester_id)
<1> DEFINE o == out'[q]
           a == Arriving(q, o, matches')
           b == clients[q].inbox
           c == client'[q]
<1>1. /\ matches' \in Seq(Matches) /\ o \in Seq(Letters(matches'))
      /\ b \in Seq(Post(DOMAIN matches')) /\ clients[q] \in Clients(DOMAIN matches')
  BY DEF TypeOK, Mailings, Clients
<1>2. a \in Seq(Post(DOMAIN matches'))
  BY <1>1, ArrivalType
<1>3. c.inbox = b \o a
  <2>1. c = [clients[q] EXCEPT !.inbox = @ \o a]
    BY DEF Deliver
  <2> HIDE DEF a, c
  <2> QED BY <1>1, <2>1 DEF Clients
<1>4. PICK k \in DOMAIN o : o[k].action = "join_request" /\ o[k].match = id
  BY DEF Tells
<1>5. /\ o[k] \in Letters(matches') /\ o[k].type = "NOTIFICATION"
      /\ o[k].detail = matches'[id].pending_requester_id
  <2>1. o[k] \in Letters(matches')
    BY <1>1, <1>4
  <2>2. "join_request" \notin AnswerNames
    BY DEF AnswerNames
  <2>3. o[k].type = "NOTIFICATION"
    BY <1>4, <2>1, <2>2 DEF Letters
  <2> QED BY <1>4, <2>1, <2>3 DEF Letters
<1>6. Heeded(o[k])
  BY <1>4 DEF Heeded
<1>7. PICK l \in DOMAIN a : a[l] = Arrived(q, o[k], matches')
  <2> HIDE DEF o
  <2> QED BY <1>1, <1>6, ArrivalHolds DEF o
<1> HIDE DEF a, b, o
<1>8. /\ a[l].action = "join_request" /\ a[l].match = id
      /\ a[l].detail = matches'[id].pending_requester_id
  <2>1. a[l] = Bare(o[k])
    BY <1>4, <1>7 DEF Arrived
  <2> QED BY <1>4, <1>5, <2>1 DEF Bare, Detail, IsError
<1>9. Len(b) + l \in DOMAIN (b \o a) /\ (b \o a)[Len(b) + l] = a[l]
  BY <1>1, <1>2, <1>7, PostHolds
<1> HIDE DEF c
<1>10. Put(c, id, matches'[id].pending_requester_id)
  BY <1>3, <1>8, <1>9 DEF Put
<1> QED BY <1>10 DEF c

-----------------------------------------------------------------------------
(* No request is forgotten: the invariant.                                 *)

\* The creator of a match has been connected, and a player who has not has a
\* client that has done nothing.
AllCame ==
  /\ \A id \in DOMAIN matches : player_state[matches[id].creator_id] # "NULL"
  /\ \A p \in Players : player_state[p] = "NULL" => client[p] = NewClient

LEMMA CreatorsCame ==
  ASSUME TypeOK, TypeOK', AllSound, [Next]_vars, AllCame, NEW id \in DOMAIN matches'
  PROVE  player_state'[matches'[id].creator_id] # "NULL"
<1>1. CASE id \notin DOMAIN matches
  BY <1>1, NewMatchIsOpen DEF Serving, Connected
<1>2. CASE id \in DOMAIN matches
  <2>1. matches[id].creator_id \in Players /\ Sound(matches[id])
    <3>1. matches[id] \in Matches
      BY <1>2 DEF TypeOK
    <3> QED BY <1>2, <3>1 DEF AllSound, Matches
  <2>2. CASE matches'[id].creator_id = matches[id].creator_id
    BY <1>2, <2>1, <2>2, ComeStays DEF AllCame
  <2>3. CASE \E p \in Players : Serving(p) /\ matches'[id].creator_id = p
    BY <2>3, ComeStays DEF Serving, Connected
  <2> QED BY <1>2, <2>1, <2>2, <2>3, CreatorKept
<1> QED BY <1>1, <1>2

\* Nothing arrives at a client whose player is not there.
LEMMA NothingArrives ==
  ASSUME NEW q \in Players, NEW table
  PROVE  Arriving(q, << >>, table) = << >>
<1> DEFINE s == << >>
           kept == {k \in DOMAIN s : Heeded(s[k])}
           heeded == SelectPlaces(s, kept)
<1>1. s \in Seq({}) /\ \A i \in DOMAIN s : i \in kept => s[i] \in {}
  OBVIOUS
<1>2. heeded \in Seq({})
  <2> HIDE DEF s, kept
  <2> QED BY <1>1, SelectType
<1>3. heeded = << >>
  <2> HIDE DEF heeded
  <2> QED BY <1>2
<1>4. Arriving(q, s, table) =
        [k \in DOMAIN heeded |->
           IF heeded[k].action \in {"create_match", "rematch", "match_started", "move"}
                /\ ~IsError(heeded[k])
           THEN Received(q, heeded[k], table[heeded[k].match]) ELSE Bare(heeded[k])]
  BY DEF Arriving
<1> HIDE DEF heeded
<1> QED BY <1>3, <1>4

LEMMA StepPreservesCame ==
  ASSUME AllTyped, AllTyped', AllCame, [SystemNext]_allVars
  PROVE  AllCame'
<1>1. [Next]_vars /\ TypeOK /\ TypeOK' /\ AllSound
  BY ServerSteps DEF AllTyped
<1>2. \A id \in DOMAIN matches' : player_state'[matches'[id].creator_id] # "NULL"
  BY <1>1, CreatorsCame
<1>3. ASSUME NEW q \in Players, player_state'[q] = "NULL" PROVE client'[q] = NewClient
  <2>0. player_state[q] = "NULL" /\ client[q] = NewClient /\ ~Connected(q)
    BY <1>1, <1>3, ComeStays DEF AllCame, Connected
  <2>1. CASE UNCHANGED allVars
    BY <2>0, <2>1 DEF allVars
  <2>2. ASSUME NEW clients, clients[q] = NewClient, Deliver(clients), out' \in Mailings(matches')
        PROVE  client'[q] = NewClient
    <3>1. out'[q] = << >>
      BY <2>0, <2>2 DEF Mailings
    <3>2. client'[q] = [NewClient EXCEPT !.inbox = @ \o << >>]
      BY <2>2, <3>1, NothingArrives DEF Deliver
    <3>3. << >> \o << >> = << >>
      OBVIOUS
    <3>4. NewClient.inbox = << >> /\ [NewClient EXCEPT !.inbox = << >>] = NewClient
      <4>1. NewClient.inbox = << >>
        BY DEF NewClient
      <4>2. NewClient \in Clients({})
        BY NewClientType
      <4> HIDE DEF NewClient
      <4> QED BY <4>1, <4>2 DEF Clients
    <3> HIDE DEF NewClient
    <3> QED BY <3>2, <3>3, <3>4
  <2>3. ASSUME NEW p \in Players, Open(p) \/ Serve(p) \/ Lose(p) \/ Mark(p)
        PROVE  client'[q] = NewClient
    <3>1. out' \in Mailings(matches')
      BY <1>1, <2>3, ServerActs, StepIsMail
    <3>2. CASE Open(p)
      <4>1. p # q
        BY <1>1, <1>3, <3>2 DEF Open, Connect, TypeOK
      <4> QED BY <2>0, <3>2, <4>1 DEF Open, AllTyped, ClientsTyped
    <3>3. CASE Serve(p)
      <4>1. p # q
        BY <2>0, <3>3 DEF Serve, NewClient
      <4> QED BY <2>0, <2>2, <3>1, <3>3, <4>1 DEF Serve, AllTyped, ClientsTyped
    <3>4. CASE Lose(p)
      BY <2>0, <2>2, <3>1, <3>4 DEF Lose, AllTyped, ClientsTyped
    <3>5. CASE Mark(p)
      BY <2>0, <3>5 DEF Mark
    <3> QED BY <2>3, <3>2, <3>3, <3>4, <3>5
  <2>4. ASSUME NEW p \in Players, HandleMessage(p) PROVE client'[q] = NewClient
    <3>1. NewClient.inbox = << >>
      BY DEF NewClient
    <3>2. p # q
      BY <2>0, <2>4, <3>1 DEF HandleMessage
    <3> QED BY <2>0, <2>4, <3>2 DEF HandleMessage, AllTyped, ClientsTyped
  <2>5. ASSUME NEW p \in Players, User(p) PROVE client'[q] = NewClient
    <3>1. CASE p = q
      BY <2>0, <2>5, <3>1 DEF User, ClickCreate, ClickCancel, ClickLeave, ClickJoin, ClickColumn,
                              AnswerDialog, On, NewClient
    <3>2. CASE p # q
      BY <2>0, <2>5, <3>2, UserSends DEF AllTyped, ClientsTyped
    <3> QED BY <3>1, <3>2
  <2> QED BY <2>1, <2>3, <2>4, <2>5 DEF SystemNext
<1> QED BY <1>2, <1>3 DEF AllCame

AllPut ==
  \A id \in DOMAIN matches :
    matches[id].state = "JOIN_PENDING" /\ Serving(matches[id].creator_id) =>
      Put(client[matches[id].creator_id], id, matches[id].pending_requester_id)

\* The client of q after messages have been sent.
LEMMA Delivered ==
  ASSUME NEW ids, NEW clients \in [Players -> Clients(ids)], Deliver(clients), NEW q \in Players
  PROVE  client'[q] = [clients[q] EXCEPT !.inbox = @ \o Arriving(q, out'[q], matches')]
BY DEF Deliver

LEMMA ServerStepKeepsPut ==
  ASSUME AllTyped, AllTyped', AllCame, AllPut,
         NEW s \in Players, Open(s) \/ Serve(s) \/ Lose(s) \/ Mark(s),
         NEW id \in DOMAIN matches', matches'[id].state = "JOIN_PENDING",
         NEW q \in Players, q = matches'[id].creator_id, Serving(q)',
         NEW a, a = matches'[id].pending_requester_id,
         NEW more, more = DOMAIN matches'
  PROVE  Put(client'[q], id, a)
<1> DEFINE m == matches[id]
<1>1. /\ Next /\ [Next]_vars /\ TypeOK /\ TypeOK' /\ AllSound /\ AllSound'
      /\ out' \in Mailings(matches')
  BY ServerActs, StepIsMail DEF AllTyped
<1>2. id \in DOMAIN matches
  BY <1>1, NewMatchIsOpen
<1>3. /\ m \in Matches /\ matches'[id] \in Matches /\ Sound(m) /\ Sound(m)'
      /\ q = matches'[id].creator_id
  <2>1. m \in Matches /\ matches'[id] \in Matches
    BY <1>1, <1>2, MatchesStay DEF TypeOK
  <2> QED BY <1>1, <1>2, <2>1 DEF AllSound
<1>4. player_state[q] # "NULL"
  <2>1. CASE q = m.creator_id
    BY <1>2, <2>1 DEF AllCame
  <2>2. CASE \E p \in Players : Serving(p) /\ q = p
    BY <2>2 DEF Serving, Connected
  <2> QED BY <1>1, <1>2, <1>3, <2>1, <2>2, CreatorKept
<1>5. Serving(q)
  BY <1>1, <1>3, <1>4, ServingBefore
<1>6. \/ Tells(out', q, {"join_request"}, id)
      \/ m.state = "JOIN_PENDING" /\ q = m.creator_id /\ a = m.pending_requester_id
  BY <1>1, <1>2, <1>3, <1>5, AskedOrKept DEF Serving
<1>7. /\ client \in [Players -> Clients(more)]
      /\ more \in SUBSET MatchIds
  <2>1. DOMAIN matches \subseteq more
    BY <1>1, TableGrows
  <2>2. Clients(DOMAIN matches) \subseteq Clients(more)
    BY <2>1, ClientGrows
  <2> QED BY <2>2 DEF AllTyped, ClientsTyped
<1>8. m.state = "JOIN_PENDING" /\ q = m.creator_id /\ a = m.pending_requester_id =>
        Put(client[q], id, a)
  BY <1>2, <1>5 DEF AllPut
<1> HIDE DEF m
<1>9. ASSUME NEW clients \in [Players -> Clients(more)], Deliver(clients),
             Tells(out', q, {"join_request"}, id)
      PROVE  Put(client'[q], id, a)
  BY <1>1, <1>3, <1>9, ToldIsPut
<1>10. ASSUME NEW clients \in [Players -> Clients(more)], Deliver(clients),
              Put(clients[q], id, a)
       PROVE  Put(client'[q], id, a)
  <2> DEFINE post == Arriving(q, out'[q], matches')
  <2>1. post \in Seq(Post(more))
    BY <1>1, <1>3, ArrivalType DEF Mailings, TypeOK
  <2>2. client'[q] = [clients[q] EXCEPT !.inbox = @ \o post]
    BY <1>3, <1>10, Delivered
  <2> HIDE DEF post
  <2>3. clients[q] \in Clients(more) /\ Put(clients[q], id, a)
    BY <1>10
  <2>4. Put([clients[q] EXCEPT !.inbox = @ \o post], id, a)
    BY <2>1, <2>3, PutGrows
  <2> QED BY <2>2, <2>4
<1>11. CASE Open(s)
  <2>1. s # q /\ out' = Silence
    BY <1>4, <1>11 DEF Open, Connect
  <2>2. ~Tells(out', q, {"join_request"}, id)
    BY <1>3, <2>1 DEF Silence, Tells
  <2>3. client'[q] = client[q]
    BY <1>3, <1>7, <1>11, <2>1 DEF Open
  <2> QED BY <1>6, <1>8, <2>2, <2>3
<1>12. CASE Mark(s)
  <2>1. client' = client /\ out' = Silence
    BY <1>12 DEF Mark, MarkDisconnected
  <2>2. ~Tells(out', q, {"join_request"}, id)
    BY <1>3, <2>1 DEF Silence, Tells
  <2> QED BY <1>6, <1>8, <2>1, <2>2
<1>13. CASE Lose(s)
  <2> DEFINE clients == [client EXCEPT ![s] = NewClient]
  <2>1. clients \in [Players -> Clients(more)] /\ Deliver(clients)
    BY <1>7, <1>13, NewClientType DEF Lose
  <2>2. s # q
    <3>1. leaving' = leaving \cup {s}
      BY <1>13 DEF Lose, Disconnect
    <3> QED BY <3>1 DEF Serving
  <2>3. clients[q] = client[q]
    BY <1>3, <1>7, <2>2
  <2> HIDE DEF clients
  <2> QED BY <1>6, <1>8, <1>9, <1>10, <2>1, <2>3
<1>14. CASE Serve(s)
  <2> DEFINE r == Head(client[s].outbox)
             left == [client[s] EXCEPT !.outbox = Tail(@)]
             clients == [client EXCEPT ![s] = left]
  <2>1. left \in Clients(more) /\ r \in Errands
    BY <1>7, <1>14, OutboxShrinks DEF Serve
  <2>2. Handler(s, r) /\ clients = [client EXCEPT ![s].outbox = Tail(@)]
    BY <1>14 DEF Serve
  <2>3. clients \in [Players -> Clients(more)]
    BY <1>7, <2>1
  <2>4. Deliver(clients)
    BY <1>14, <2>2 DEF Serve
  <2>5. CASE Tells(out', q, {"join_request"}, id)
    <3> HIDE DEF clients
    <3> QED BY <1>9, <2>3, <2>4, <2>5
  <2>6. CASE m.state = "JOIN_PENDING" /\ q = m.creator_id /\ a = m.pending_requester_id
    <3>1. Put(client[q], id, a)
      BY <1>8, <2>6
    <3>2. CASE s # q
      <4>1. clients[q] = client[q]
        BY <1>3, <1>7, <3>2
      <4> HIDE DEF clients
      <4> QED BY <1>10, <2>3, <2>4, <3>1, <4>1
    <3>3. CASE s = q /\ Put(left, id, a)
      <4>1. clients[q] = left
        BY <1>3, <1>7, <3>3
      <4> HIDE DEF clients, left
      <4> QED BY <1>10, <2>3, <2>4, <3>3, <4>1
    <3>4. CASE s = q /\ ~Put(left, id, a)
      <4>1. r.action \in {"accept_join", "reject_join", "quit_match"} /\ r.match = id
            <5>1. client[s] \in Clients(more) /\ client[s].outbox # << >> /\ Put(client[s], id, a)
          BY <1>7, <1>14, <3>1, <3>4 DEF Serve
        <5>2. \/ Put(left, id, a)
              \/ r.action \in {"accept_join", "reject_join", "quit_match"} /\ r.match = id
          BY <5>1, PutServed
        <5> QED BY <3>4, <5>2
      <4> HIDE DEF r
      <4>2. AcceptJoin(q, id) \/ RejectJoin(q, id) \/ QuitMatch(q, id)
        BY <2>2, <3>4, <4>1 DEF Handler
      <4>3. matches'[id].state # "JOIN_PENDING" \/ Tells(out', q, {"join_request"}, id)
        BY <1>1, <1>2, <1>3, <2>6, <4>2, AnswerSettles DEF m
      <4>4. Tells(out', q, {"join_request"}, id)
        BY <4>3
      <4> HIDE DEF clients
      <4> QED BY <1>9, <2>3, <2>4, <4>4
    <3> QED BY <3>2, <3>3, <3>4
  <2> QED BY <1>6, <2>5, <2>6
<1> QED BY <1>11, <1>12, <1>13, <1>14

LEMMA StepPreservesPut ==
  ASSUME AllTyped, AllTyped', AllCame, AllPut, [SystemNext]_allVars
  PROVE  AllPut'
<1> SUFFICES ASSUME NEW id \in DOMAIN matches', matches'[id].state = "JOIN_PENDING",
                    NEW q \in Players, q = matches'[id].creator_id, Serving(q)'
             PROVE  Put(client'[q], id, matches'[id].pending_requester_id)
  <2>1. \A id \in DOMAIN matches' : matches'[id].creator_id \in Players
    <3>1. \A id \in DOMAIN matches' : matches'[id] \in Matches
      BY DEF AllTyped, TypeOK
    <3> QED BY <3>1 DEF Matches
  <2> QED BY <2>1 DEF AllPut, Serving, Connected
<1> DEFINE a == matches[id].pending_requester_id
<1>1. ASSUME UNCHANGED vars, client'[q] = client[q] \/ (Put(client[q], id, a) => Put(client'[q], id, a))
      PROVE  Put(client'[q], id, matches'[id].pending_requester_id)
  <2>1. /\ matches' = matches /\ id \in DOMAIN matches /\ matches[id].state = "JOIN_PENDING"
        /\ Serving(q) /\ q = matches[id].creator_id
    BY <1>1 DEF vars, Serving, Connected
  <2>2. Put(client[q], id, a)
    BY <2>1 DEF AllPut
  <2>3. Put(client'[q], id, a)
    BY <1>1, <2>2
  <2> QED BY <2>1, <2>3
<1>2. CASE UNCHANGED allVars
  BY <1>1, <1>2 DEF allVars
<1>3. ASSUME NEW s \in Players, Open(s) \/ Serve(s) \/ Lose(s) \/ Mark(s)
      PROVE  Put(client'[q], id, matches'[id].pending_requester_id)
  BY <1>3, ServerStepKeepsPut
<1>4. DOMAIN matches \in SUBSET MatchIds /\ client \in [Players -> Clients(DOMAIN matches)]
  BY DEF AllTyped, ClientsTyped
<1>5. ASSUME NEW p \in Players, HandleMessage(p)
      PROVE  Put(client'[q], id, matches'[id].pending_requester_id)
  <2>1. UNCHANGED vars /\ client[p].inbox # << >> /\ client[p] \in Clients(DOMAIN matches)
    BY <1>4, <1>5 DEF HandleMessage
  <2>2. CASE p # q
    BY <1>1, <1>4, <1>5, <2>1, <2>2 DEF HandleMessage
  <2>3. CASE p = q
    <3>1. client'[q] = handleMessage(client[q], q)
      BY <1>4, <1>5, <2>1, <2>3 DEF HandleMessage
    <3>2. Put(client[q], id, a) => Put(client'[q], id, a)
      BY <1>4, <2>1, <2>3, <3>1, PutHandled
    <3> QED BY <1>1, <2>1, <3>2
  <2> QED BY <2>2, <2>3
<1>6. ASSUME NEW p \in Players, User(p)
      PROVE  Put(client'[q], id, matches'[id].pending_requester_id)
  <2>1. UNCHANGED vars /\ client[p] \in Clients(DOMAIN matches)
    BY <1>4, <1>6 DEF User, ClickCreate, ClickCancel, ClickLeave, ClickJoin, ClickColumn,
                            AnswerDialog, Acts
  <2>2. PICK after :
          /\ client' = [client EXCEPT ![p] = after]
          /\ SendsMore(client[p], after)
          /\ \/ client[p].dialogs = << >>
             \/ /\ client[p].dialogs # << >>
                /\ \E yes \in BOOLEAN : after = CloseDialog(client[p], yes)
    BY <1>4, <1>6, UserSends
  <2>3. CASE p # q
    BY <1>1, <1>4, <2>1, <2>2, <2>3
  <2>4. CASE p = q
    <3>1. client'[q] = after
      BY <1>4, <2>1, <2>2, <2>4
    <3>2. Put(client[q], id, a) => Put(client'[q], id, a)
      BY <1>4, <2>1, <2>2, <2>4, <3>1, PutActed
    <3> QED BY <1>1, <2>1, <3>2
  <2> QED BY <2>3, <2>4
<1> QED BY <1>2, <1>3, <1>5, <1>6 DEF SystemNext

\* The next requester is put to the creator whatever happened to the one before
\* (NoRequestForgotten): the popup is open or on its way, or an answer of the
\* creator's is (PROMOTE in main.c, handleJoinRequest and the answers of the
\* popup in GameController), on any network and with any number of clients.
THEOREM RequestsStayPut == System => []NoRequestForgotten
<1>1. SystemInit => AllCame /\ AllPut
  BY DEF SystemInit, Init, AllCame, AllPut
<1>2. AllTyped /\ AllTyped' /\ (AllCame /\ AllPut) /\ [SystemNext]_allVars => (AllCame /\ AllPut)'
  BY StepPreservesCame, StepPreservesPut
<1>3. AllPut => NoRequestForgotten
  BY DEF AllPut, NoRequestForgotten, Put
<1> QED BY <1>1, <1>2, <1>3, AllInvariant, PTL DEF System

-----------------------------------------------------------------------------
(* Who is told that his request has been taken: only who asked.            *)

LEMMA SendTellsOnly ==
  ASSUME NEW recipients, NEW q \in Players, NEW actions, NEW id, NEW msg,
         Tells(Send(recipients, msg), q, actions, id)
  PROVE  q \in recipients /\ msg.action \in actions /\ msg.match = id
<1>1. PICK k \in DOMAIN Send(recipients, msg)[q] :
         /\ Send(recipients, msg)[q][k].action \in actions
         /\ Send(recipients, msg)[q][k].match = id
  BY DEF Tells
<1>2. Send(recipients, msg)[q] \in {<<msg>>, << >>}
      /\ (q \notin recipients => Send(recipients, msg)[q] = << >>)
  BY DEF Send
<1>3. DOMAIN << >> = {} /\ DOMAIN <<msg>> = {1} /\ <<msg>>[1] = msg
  OBVIOUS
<1> QED BY <1>1, <1>2, <1>3

\* What a concatenation holds is of one part or the other.
LEMMA ConcatAt ==
  ASSUME NEW S, NEW s \in Seq(S), NEW t \in Seq(S), NEW k \in DOMAIN (s \o t)
  PROVE  \/ k \in DOMAIN s /\ (s \o t)[k] = s[k]
         \/ \E j \in DOMAIN t : k = Len(s) + j /\ (s \o t)[k] = t[j]
<1>1. /\ Len(s) \in Nat /\ Len(t) \in Nat /\ DOMAIN s = 1 .. Len(s) /\ DOMAIN t = 1 .. Len(t)
      /\ k \in 1 .. (Len(s) + Len(t))
  BY ConcatProperties
<1>2. CASE k <= Len(s)
  BY <1>1, <1>2, ConcatProperties
<1>3. CASE k > Len(s)
  <2>1. k - Len(s) \in 1 .. Len(t)
    BY <1>1, <1>3
  <2>2. (s \o t)[k] = t[k - Len(s)] /\ k = Len(s) + (k - Len(s))
    BY <1>1, <1>3, ConcatProperties
  <2> QED BY <1>1, <2>1, <2>2
<1> QED BY <1>1, <1>2, <1>3

LEMMA BothTellOnly ==
  ASSUME NEW a \in Outboxes, NEW b \in Outboxes, NEW q \in Players, NEW actions, NEW id,
         Tells(a ++ b, q, actions, id)
  PROVE  Tells(a, q, actions, id) \/ Tells(b, q, actions, id)
<1> DEFINE s == a[q]
           t == b[q]
<1>1. s \in Seq(Messages) /\ t \in Seq(Messages) /\ (a ++ b)[q] = s \o t
  BY DEF Outboxes, ++
<1>2. PICK k \in DOMAIN (a ++ b)[q] :
         (a ++ b)[q][k].action \in actions /\ (a ++ b)[q][k].match = id
  BY DEF Tells
<1> HIDE DEF s, t
<1>3. \/ k \in DOMAIN s /\ (s \o t)[k] = s[k]
      \/ \E j \in DOMAIN t : (s \o t)[k] = t[j]
  BY <1>1, <1>2, ConcatAt
<1> QED BY <1>1, <1>2, <1>3 DEF Tells, s, t

\* What changes which match a client is in, or whose turn it shows.
News == {"join_match", "create_match", "rematch", "match_started", "move"}

\* Nothing in o has one of these names.
Mute(o, names) == \A q \in Players : \A id : ~Tells(o, q, names, id)

LEMMA MuteSend ==
  ASSUME NEW names, NEW recipients, NEW msg, msg.action \notin names
  PROVE  Mute(Send(recipients, msg), names)
<1>1. ASSUME NEW q \in Players, NEW id, Tells(Send(recipients, msg), q, names, id)
      PROVE  FALSE
  <2>1. msg.action \in names
    BY <1>1, SendTellsOnly
  <2> QED BY <2>1
<1> QED BY <1>1 DEF Mute

LEMMA MuteNotice ==
  ASSUME NEW names, NEW recipients, NEW action, action \notin names, NEW id, NEW detail
  PROVE  /\ Mute(Send(recipients, Notification(action, id, detail)), names)
         /\ Mute(Send(recipients, Response(action, id, detail)), names)
BY MuteSend, NotificationFields

LEMMA MuteBoth ==
  ASSUME NEW names, NEW a \in Outboxes, NEW b \in Outboxes, Mute(a, names), Mute(b, names)
  PROVE  Mute(a ++ b, names) /\ a ++ b \in Outboxes
BY BothTellOnly, BothType DEF Mute

LEMMA MuteSilence == \A names : Mute(Silence, names) /\ Silence \in Outboxes
BY SilenceType DEF Mute, Tells, Silence

LEMMA MuteAnnouncements ==
  ASSUME NEW names \in SUBSET News, NEW m \in Matches, NEW id \in Nat, NEW p, NEW q
  PROVE  /\ Mute(Ask(m, id), names) /\ Mute(Closed(m, id), names)
         /\ "match_started" \notin names => Mute(Started(m, id), names)
         /\ Mute(Unavailable(id, p, q), names) /\ Mute(AnnouncePromotion(m, id), names)
<1>1. /\ m.creator_id \in Players /\ m.player1_id \in Details /\ m.player2_id \in Details
      /\ m.pending_requester_id \in Details /\ "pending" \in Details
  BY DEF Matches, Details, Words
<1>2. "match_started" \in Actions /\ "join_request_promoted" \in Actions
  BY DEF Actions
<1>3. Mute(Ask(m, id), names) /\ Mute(Closed(m, id), names) /\ Mute(Unavailable(id, p, q), names) /\ Ask(m, id) \in Outboxes
  BY MuteNotice, AnnouncementTypes DEF Ask, Closed, Unavailable, News
<1>4. "match_started" \notin names => Mute(Started(m, id), names)
  BY <1>1, <1>2, MuteNotice, NotifyType, MuteBoth DEF Started
<1>5. Mute(AnnouncePromotion(m, id), names)
  BY <1>1, <1>2, <1>3, MuteNotice, NotifyType, MuteBoth, MuteSilence DEF AnnouncePromotion, News
<1> QED BY <1>3, <1>4, <1>5

LEMMA MuteLeft ==
  ASSUME NEW names \in SUBSET News, NEW m \in Matches, NEW id \in Nat, NEW p, NEW reason \in {"left", "disconnect"}
  PROVE  Mute(LeftMessages(m, p, id, reason), names)
<1> DEFINE opponent == get_opponent_id(m, p)
           left == Send({opponent}, Notification("opponent_left", id, reason))
<1>1. Mute(left, names) /\ left \in Outboxes
  <2>1. reason \in Details /\ "opponent_left" \in Actions
    BY DEF Details, Words, Actions
  <2> QED BY <2>1, MuteNotice, NotifyType DEF News
<1>2. Mute(Unavailable(id, p, opponent), names) /\ Unavailable(id, p, opponent) \in Outboxes
      /\ Mute(Closed(m, id), names)
  BY MuteAnnouncements, AnnouncementTypes
<1>3. Mute(Send({opponent}, Notification("match_closed", id, "closed")), names)
  BY MuteNotice DEF News
<1> HIDE DEF opponent, left
<1>4. Mute(left ++ Unavailable(id, p, opponent), names)
  BY <1>1, <1>2, MuteBoth
<1> QED BY <1>2, <1>3, <1>4, MuteSilence DEF LeftMessages, opponent, left

LEMMA MuteCleanUp ==
  ASSUME NEW names \in SUBSET News, NEW m \in Matches, NEW id \in Nat, NEW p \in Players
  PROVE  Mute(CleanUpMessages(m, p, id), names)
<1>1. PromoteNext(m) \in Matches
  BY RequestType
<1>2. Mute(AnnouncePromotion(PromoteNext(m), id), names) /\ Mute(Closed(m, id), names)
  BY <1>1, MuteAnnouncements
<1> QED BY <1>2, MuteLeft, MuteSilence DEF CleanUpMessages

LEMMA MuteDisconnection ==
  ASSUME NEW names \in SUBSET News, TypeOK, NEW p \in Players, Disconnect(p)
  PROVE  Mute(out', names)
<1> DEFINE Others == {msg \in Messages : msg.action \notin names}
           s(q) == [id \in DOMAIN matches |-> CleanUpMessages(matches[id], p, id)[q]]
<1>1. matches \in Seq(Matches) /\ DOMAIN matches = 1 .. Len(matches) /\ Len(matches) \in Nat
  BY DEF TypeOK
<1>2. ASSUME NEW q \in Players, NEW id \in 1 .. Len(matches)
      PROVE  CleanUpMessages(matches[id], p, id)[q] \in Seq(Others)
  <2> DEFINE o == CleanUpMessages(matches[id], p, id)
             t == o[q]
  <2>1. matches[id] \in Matches /\ id \in Nat
    BY <1>1, <1>2
  <2>2. o \in Outboxes /\ Mute(o, names)
    BY <2>1, CleanUpMessagesType, MuteCleanUp
  <2> HIDE DEF o
  <2>3. t \in Seq(Messages)
    BY <2>2 DEF Outboxes
  <2>4. \A k \in DOMAIN t : t[k].action \notin names
    BY <2>2 DEF Mute, Tells
  <2>5. \A k \in 1 .. Len(t) : t[k] \in Others
    <3> HIDE DEF t
    <3> QED BY <2>3, <2>4
  <2>6. Len(t) \in Nat /\ t = [k \in 1 .. Len(t) |-> t[k]]
    <3> HIDE DEF t
    <3> QED BY <2>3
  <2>7. t \in Seq(Others)
    <3> HIDE DEF t, Others
    <3> QED BY <2>5, <2>6, IsASeq
  <2> QED BY <2>7 DEF o
<1>3. ASSUME NEW q \in Players PROVE FlattenSeq(s(q)) \in Seq(Others)
  <2>1. s(q) \in Seq(Seq(Others))
    <3> HIDE DEF Others
    <3> QED BY <1>1, <1>2, <1>3, IsASeq
  <2> HIDE DEF s, Others
  <2> QED BY <2>1, FlattenType
<1>4. \A q \in Players : out'[q] \in Seq(Others)
  BY <1>3 DEF Disconnect
<1>5. ASSUME NEW q \in Players, NEW id, Tells(out', q, names, id)
      PROVE  FALSE
  <2>1. PICK k \in DOMAIN out'[q] : out'[q][k].action \in names
    BY <1>5 DEF Tells
  <2>2. out'[q] \in Seq(Others)
    BY <1>4
  <2>3. out'[q][k] \in Others
    <3> HIDE DEF Others
    <3> QED BY <2>1, <2>2
  <2> QED BY <2>1, <2>3
<1> QED BY <1>5 DEF Mute

LEMMA MuteAnswer ==
  ASSUME NEW names \in SUBSET News, TypeOK, TypeOK',
         NEW p \in Players, NEW i \in MatchIds, Answer(p, i),
         "match_started" \in names => ~(AcceptJoin(p, i) /\ HasRequestFor(p, i))
  PROVE  Mute(out', names)
<1>0. matches \in Seq(Matches) /\ matches' \in Seq(Matches)
  BY DEF TypeOK
<1>1. ASSUME NEW action \in {"accept_join", "reject_join"}, NothingToDecide(p, action, i)
      PROVE  Mute(out', names)
  BY <1>1, MuteNotice DEF NothingToDecide, Fails, News
<1>2. /\ \A recipients : \A action \in {"accept_join", "reject_join", "cancel_join"} :
            Send(recipients, Response(action, i, "ok")) \in Outboxes
      /\ \A recipients : \A action \in {"accept_join", "reject_join", "cancel_join"} :
            Mute(Send(recipients, Response(action, i, "ok")), names)
  <2>1. "ok" \in Details /\ {"accept_join", "reject_join", "cancel_join"} \subseteq Actions /\ i \in Nat
    BY ServerAssumption DEF Details, Words, Actions, MatchIds
  <2> QED BY <2>1, NotifyType, MuteNotice DEF News
<1>3. ASSUME NEW m \in Matches, NEW detail \in Players, NEW action \in {"match_started", "join_request_rejected",
                                                        "join_request_obsolete"} \ names,
             NEW recipients
      PROVE  /\ Send(recipients, Notification(action, i, detail)) \in Outboxes
             /\ Mute(Send(recipients, Notification(action, i, detail)), names)
             /\ Send(recipients, Notification(action, i, "started")) \in Outboxes
             /\ Mute(Send(recipients, Notification(action, i, "started")), names)
  <2>1. /\ detail \in Details /\ "started" \in Details /\ action \in Actions /\ i \in Nat
        /\ action \notin names
    BY <1>3, ServerAssumption DEF Details, Words, Actions, MatchIds
  <2> QED BY <2>1, NotifyType, MuteNotice
<1>4. CASE AcceptJoin(p, i) /\ ~NothingToDecide(p, "accept_join", i)
  <2> DEFINE m == matches[i]
             accepted == m.pending_requester_id
             a == Send({p}, Response("accept_join", i, "ok"))
             b == Send({m.player1_id}, Notification("match_started", i, accepted))
             c == Send({accepted}, Notification("match_started", i, m.player1_id))
             d == Send(ToSet(m.join_queue), Notification("join_request_obsolete", i, "started"))
             e == Unavailable(i, m.player1_id, accepted)
  <2>1. out' = a ++ b ++ c ++ d ++ e /\ HasRequestFor(p, i)
    BY <1>4 DEF AcceptJoin
  <2>2. m \in Matches /\ i \in Nat /\ m.player1_id \in Players /\ accepted \in Players
    <3>1. m \in Matches /\ i \in Nat /\ m.pending_requester_id # NoPlayer
      BY <1>0, <2>1, ServerAssumption DEF HasRequestFor, Found, MatchIds
    <3> QED BY <3>1 DEF Matches
  <2>2a. /\ "match_started" \in {"match_started", "join_request_rejected", "join_request_obsolete"} \ names
        /\ "join_request_obsolete" \in {"match_started", "join_request_rejected",
                                        "join_request_obsolete"} \ names
    BY <1>4, <2>1 DEF News
  <2>3. a \in Outboxes /\ b \in Outboxes /\ c \in Outboxes /\ d \in Outboxes /\ e \in Outboxes
    BY <1>2, <1>3, <2>2, <2>2a, AnnouncementTypes
  <2>4. Mute(a, names) /\ Mute(b, names) /\ Mute(c, names) /\ Mute(d, names) /\ Mute(e, names)
    BY <1>2, <1>3, <2>2, <2>2a, MuteAnnouncements
  <2> HIDE DEF a, b, c, d, e
  <2>5. Mute(a ++ b, names) /\ a ++ b \in Outboxes
    BY <2>3, <2>4, MuteBoth
  <2>6. Mute(a ++ b ++ c, names) /\ a ++ b ++ c \in Outboxes
    BY <2>3, <2>4, <2>5, MuteBoth
  <2>7. Mute(a ++ b ++ c ++ d, names) /\ a ++ b ++ c ++ d \in Outboxes
    BY <2>3, <2>4, <2>6, MuteBoth
  <2>8. Mute(a ++ b ++ c ++ d ++ e, names)
    BY <2>3, <2>4, <2>7, MuteBoth
  <2> QED BY <2>1, <2>8
<1>5. CASE RejectJoin(p, i) /\ ~NothingToDecide(p, "reject_join", i)
  <2> DEFINE m == matches[i]
             a == Send({p}, Response("reject_join", i, "ok"))
             b == Send({m.pending_requester_id}, Notification("join_request_rejected", i, p))
             c == AnnouncePromotion(matches'[i], i)
  <2>1. out' = a ++ b ++ c /\ HasRequestFor(p, i) /\ matches' = [matches EXCEPT ![i] = Refused(@)]
    BY <1>5 DEF RejectJoin
  <2>2. m \in Matches /\ matches'[i] \in Matches /\ i \in Nat
    BY <1>0, <2>1, ServerAssumption DEF HasRequestFor, Found, MatchIds
  <2>3. a \in Outboxes /\ b \in Outboxes /\ c \in Outboxes /\ Mute(a, names) /\ Mute(b, names) /\ Mute(c, names)
    <3>1. "join_request_rejected" \in {"match_started", "join_request_rejected",
                                       "join_request_obsolete"} \ names
      BY DEF News
    <3> QED BY <1>2, <1>3, <2>2, <3>1, AnnouncementTypes, MuteAnnouncements
  <2> HIDE DEF a, b, c
  <2>4. Mute(a ++ b, names) /\ a ++ b \in Outboxes
    BY <2>3, MuteBoth
  <2>5. Mute(a ++ b ++ c, names)
    BY <2>3, <2>4, MuteBoth
  <2> QED BY <2>1, <2>5
<1>6. CASE CancelJoin(p, i)
  <2> DEFINE a == AnnouncePromotion(matches'[i], i)
             b == Send({p}, Response("cancel_join", i, "ok"))
  <2>1. \/ out' = b
        \/ out' = a ++ b /\ i \in DOMAIN matches'
    BY <1>0, <1>6 DEF CancelJoin, Found
  <2>2. b \in Outboxes /\ Mute(b, names)
    BY <1>2
  <2>3. i \in DOMAIN matches' => a \in Outboxes /\ Mute(a, names)
    <3>1. i \in Nat
      BY ServerAssumption DEF MatchIds
    <3>2. i \in DOMAIN matches' => matches'[i] \in Matches
      BY <1>0
    <3> QED BY <3>1, <3>2, AnnouncementTypes, MuteAnnouncements
  <2> HIDE DEF a, b
  <2> QED BY <2>1, <2>2, <2>3, MuteBoth
<1> QED BY <1>1, <1>4, <1>5, <1>6 DEF Answer, AcceptJoin, RejectJoin

LEMMA MuteRequest ==
  ASSUME NEW names \in SUBSET News, TypeOK, TypeOK',
         NEW p \in Players, NEW i \in MatchIds, NEW column \in Columns,
         \/ Register(p) \/ QuitMatch(p, i)
         \/ CreateMatch(p) /\ "create_match" \notin names
         \/ Move(p, i, column) /\ "move" \notin names
         \/ Rematch(p, i) /\ names \cap {"rematch", "match_started"} = {}
  PROVE  Mute(out', names)
<1>0. matches \in Seq(Matches) /\ matches' \in Seq(Matches) /\ i \in Nat
  BY ServerAssumption DEF TypeOK, MatchIds
<1>1. CASE Register(p) \/ (CreateMatch(p) /\ "create_match" \notin names)
  BY <1>1, MuteNotice DEF Register, CreateMatch, Fails, News
<1>2. CASE QuitMatch(p, i)
  <2>1. CASE out' = Silence
    BY <2>1, MuteSilence
  <2>2. CASE Found(i) /\ out' = LeftMessages(matches[i], p, i, "left")
    <3>1. matches[i] \in Matches
      BY <1>0, <2>2 DEF Found
    <3> QED BY <1>0, <2>2, <3>1, MuteLeft
  <2> QED BY <1>2, <2>1, <2>2 DEF QuitMatch
<1>3. CASE Move(p, i, column) /\ "move" \notin names
  <2> DEFINE m == matches[i]
             result == MoveResult(m, p, column)
             a == IF result = "ok" THEN Silence ELSE Unavailable(i, m.player1_id, m.player2_id)
             b == Send({m.player1_id, m.player2_id}, Notification("move", i, result))
  <2>1. CASE \E error : Fails(p, "move", i, error)
    BY <1>3, <2>1, MuteNotice DEF Fails
  <2>2. CASE Found(i) /\ result \in Accepted /\ out' = a ++ b
    <3>1. m \in Matches /\ result \in Details /\ "move" \in Actions
      BY <1>0, <2>2 DEF Found, Accepted, Details, Words, Actions
    <3> HIDE DEF m, result
    <3>2. a \in Outboxes /\ b \in Outboxes /\ Mute(a, names) /\ Mute(b, names)
      BY <1>0, <1>3, <3>1, AnnouncementTypes, MuteAnnouncements, MuteSilence, NotifyType, MuteNotice
    <3> HIDE DEF a, b
    <3> QED BY <2>2, <3>2, MuteBoth
  <2> QED BY <1>3, <2>1, <2>2 DEF Move
<1>4. CASE Rematch(p, i) /\ names \cap {"rematch", "match_started"} = {}
  <2>1. CASE \E word : out' = Send({p}, Response("rematch", i, word))
    BY <1>4, <2>1, MuteNotice
  <2>2. CASE MayRematch(p, i) /\ out' = Send({p}, Response("rematch", i, "ok")) ++ Started(matches'[i], i)
               /\ i \in DOMAIN matches'
    <3> DEFINE a == Send({p}, Response("rematch", i, "ok"))
               b == Started(matches'[i], i)
    <3>1. matches'[i] \in Matches /\ "ok" \in Details /\ "rematch" \in Actions
      BY <1>0, <2>2 DEF Details, Words, Actions
    <3>2. a \in Outboxes /\ b \in Outboxes /\ Mute(a, names) /\ Mute(b, names)
      BY <1>0, <1>4, <3>1, AnnouncementTypes, MuteAnnouncements, NotifyType, MuteNotice
    <3> HIDE DEF a, b
    <3>3. Mute(a ++ b, names)
      BY <3>2, MuteBoth
    <3> QED BY <2>2, <3>3 DEF a, b
  <2> QED BY <1>0, <1>4, <2>1, <2>2 DEF Rematch, Fails, MayRematch, Found
<1> QED BY <1>1, <1>2, <1>3, <1>4

\* The answer that lets q in.
LetsIn(o, q, k) ==
  /\ k \in DOMAIN o[q]
  /\ o[q][k].type = "RESPONSE" /\ o[q][k].action = "join_match" /\ o[q][k].detail \in Statuses

LEMMA MuteLetsNobodyIn ==
  ASSUME NEW o, Mute(o, {"join_match"}), NEW q \in Players, NEW k, LetsIn(o, q, k)
  PROVE  FALSE
<1>1. k \in DOMAIN o[q] /\ o[q][k].action \in {"join_match"} /\ o[q][k].match = o[q][k].match
  BY DEF LetsIn
<1>2. Tells(o, q, {"join_match"}, o[q][k].match)
  BY <1>1 DEF Tells
<1> QED BY <1>2 DEF Mute

LEMMA SendLetsIn ==
  ASSUME NEW recipients, NEW msg, NEW q \in Players, NEW k, LetsIn(Send(recipients, msg), q, k)
  PROVE  Send(recipients, msg)[q][k] = msg /\ q \in recipients
<1>1. Send(recipients, msg)[q] \in {<<msg>>, << >>}
      /\ (q \notin recipients => Send(recipients, msg)[q] = << >>)
  BY DEF Send
<1>2. DOMAIN << >> = {} /\ DOMAIN <<msg>> = {1} /\ <<msg>>[1] = msg
  OBVIOUS
<1> QED BY <1>1, <1>2 DEF LetsIn

LEMMA BothLetIn ==
  ASSUME NEW a \in Outboxes, NEW b \in Outboxes, Mute(b, {"join_match"}), NEW q \in Players, NEW k,
         LetsIn(a ++ b, q, k)
  PROVE  LetsIn(a, q, k) /\ (a ++ b)[q][k] = a[q][k]
<1> DEFINE s == a[q]
           t == b[q]
<1>1. s \in Seq(Messages) /\ t \in Seq(Messages) /\ (a ++ b)[q] = s \o t
  BY DEF Outboxes, ++
<1>2. k \in DOMAIN (a ++ b)[q]
  BY DEF LetsIn
<1> HIDE DEF s, t
<1>3. \/ k \in DOMAIN s /\ (s \o t)[k] = s[k]
      \/ \E j \in DOMAIN t : (s \o t)[k] = t[j]
  BY <1>1, <1>2, ConcatAt
<1>4. ASSUME NEW j \in DOMAIN t, (s \o t)[k] = t[j] PROVE FALSE
  <2>1. LetsIn(b, q, j)
    BY <1>1, <1>4 DEF LetsIn, t
  <2> QED BY <2>1, MuteLetsNobodyIn
<1> QED BY <1>1, <1>3, <1>4 DEF LetsIn, s

\* Who is let in stands in the line of the match (JOIN_MATCH).
LEMMA JoinLetsIn ==
  ASSUME TypeOK, TypeOK', AllSound, NEW p \in Players, NEW i \in MatchIds, JoinMatch(p, i),
         NEW q \in Players, NEW k, LetsIn(out', q, k)
  PROVE  q = p /\ i = out'[q][k].match /\ i \in DOMAIN matches' /\ WaitsFor(q, i)'
<1> DEFINE m == matches[i]
           n == matches'[i]
<1>0. matches \in Seq(Matches) /\ matches' \in Seq(Matches) /\ i \in Nat
  BY ServerAssumption DEF TypeOK, MatchIds
<1>1. ASSUME NEW error \in {"error", "full"}, Fails(p, "join_match", i, error) PROVE FALSE
  <2>1. out'[q][k] = Response("join_match", i, error)
    BY <1>1, SendLetsIn DEF Fails
  <2> QED BY <1>1, <2>1 DEF Response, LetsIn, Statuses
<1>2. CASE /\ Found(i) /\ matches' = [matches EXCEPT ![i] = AskedFirst(@, p)]
           /\ out' = Send({p}, Response("join_match", i, "pending")) ++ Ask(matches'[i], i)
  <2> DEFINE r == Response("join_match", i, "pending")
             a == Send({p}, r)
             b == Ask(matches'[i], i)
  <2>1. m \in Matches /\ i \in DOMAIN matches' /\ n = AskedFirst(m, p) /\ n \in Matches
    BY <1>0, <1>2 DEF Found
  <2>2. b \in Outboxes /\ Mute(b, {"join_match"})
    BY <1>0, <2>1, AnnouncementTypes, MuteAnnouncements DEF News
  <2>3. a \in Outboxes
    <3>1. "pending" \in Details /\ "join_match" \in Actions
      BY DEF Details, Words, Actions
    <3> QED BY <1>0, <3>1, NotifyType
  <2>4. out' = a ++ b
    BY <1>2
  <2> HIDE DEF a, b
  <2>5. LetsIn(a, q, k) /\ out'[q][k] = a[q][k]
    BY <2>2, <2>3, <2>4, BothLetIn
  <2>6. a[q][k] = r /\ q \in {p}
    BY <2>5, SendLetsIn DEF a
  <2>7. r.match = i
    BY NotificationFields
  <2>8. n.state = "JOIN_PENDING" /\ n.pending_requester_id = p
    BY <2>1, RequestFields
  <2> QED BY <2>1, <2>5, <2>6, <2>7, <2>8 DEF WaitsFor, Waiters
<1>3. CASE /\ Found(i) /\ MayAsk(m, p) /\ m.pending_requester_id # NoPlayer
           /\ matches' = [matches EXCEPT ![i] = enqueue_join_request(@, p)]
           /\ out' = Send({p}, Response("join_match", i, "queued"))
  <2> DEFINE r == Response("join_match", i, "queued")
  <2>1. m \in Matches /\ i \in DOMAIN matches' /\ n = enqueue_join_request(m, p) /\ Sound(m)
    BY <1>0, <1>3 DEF Found, AllSound
  <2>2. out'[q][k] = r /\ q \in {p}
    <3>1. out' = Send({p}, r)
      BY <1>3
    <3> HIDE DEF r
    <3>2. LetsIn(Send({p}, r), q, k)
      BY <3>1
    <3> QED BY <3>1, <3>2, SendLetsIn
  <2>3. r.match = i
    BY NotificationFields
  <2>4. m.state = "JOIN_PENDING"
    BY <1>3, <2>1 DEF MayAsk, Sound, SeatsMatchState
  <2>5. n.state = "JOIN_PENDING" /\ n.join_queue = Append(m.join_queue, p)
    BY <2>1, <2>4, RequestFields
  <2>6. p \in ToSet(Append(m.join_queue, p))
    <3> DEFINE s == m.join_queue
               l == Append(s, p)
    <3>1. s \in Seq(Players)
      BY <2>1 DEF Matches
    <3> HIDE DEF s
    <3>2. Len(s) + 1 \in DOMAIN l /\ l[Len(s) + 1] = p
      BY <3>1
    <3> HIDE DEF l
    <3>3. p \in ToSet(l)
      BY <3>2 DEF ToSet
    <3> QED BY <3>3 DEF l, s
  <2> QED BY <2>1, <2>2, <2>3, <2>5, <2>6 DEF WaitsFor, Waiters
<1> QED BY <1>1, <1>2, <1>3 DEF JoinMatch

-----------------------------------------------------------------------------
(* A client that waits, and what it may hear.                              *)

\* The message that lets the client in.
Entered(msg) == msg.type = "RESPONSE" /\ msg.action = "join_match" /\ msg.detail \in Statuses

LEMMA ArrivalFrom ==
  ASSUME NEW q \in Players, NEW table \in Seq(Matches), NEW messages \in Seq(Letters(table)),
         NEW k \in DOMAIN Arriving(q, messages, table)
  PROVE  \E j \in DOMAIN messages : Arriving(q, messages, table)[k] = Arrived(q, messages[j], table)
<1> DEFINE kept == {i \in DOMAIN messages : Heeded(messages[i])}
           heeded == SelectPlaces(messages, kept)
           Some == {messages[i] : i \in DOMAIN messages}
<1>1. heeded \in Seq(Some)
  <2>1. \A i \in DOMAIN messages : i \in kept => messages[i] \in Some
    OBVIOUS
  <2> HIDE DEF kept, Some
  <2> QED BY <2>1, SelectType
<1>2. Arriving(q, messages, table) = [i \in DOMAIN heeded |-> Arrived(q, heeded[i], table)]
  BY DEF Arriving, Arrived
<1> HIDE DEF heeded
<1>3. k \in DOMAIN heeded /\ Arriving(q, messages, table)[k] = Arrived(q, heeded[k], table)
  BY <1>2
<1>4. heeded[k] \in Some
  <2> HIDE DEF Some
  <2> QED BY <1>1, <1>3
<1>5. PICK j \in DOMAIN messages : heeded[k] = messages[j]
  BY <1>4
<1> QED BY <1>3, <1>5

LEMMA EnteredArrives ==
  ASSUME NEW o, NEW q \in Players, NEW table \in Seq(Matches), o[q] \in Seq(Letters(table)),
         NEW k \in DOMAIN Arriving(q, o[q], table), Entered(Arriving(q, o[q], table)[k])
  PROVE  \E j : LetsIn(o, q, j) /\ o[q][j].match = Arriving(q, o[q], table)[k].match
<1> DEFINE a == Arriving(q, o[q], table)[k]
<1>1. PICK j \in DOMAIN o[q] : a = Arrived(q, o[q][j], table)
  BY ArrivalFrom
<1> DEFINE msg == o[q][j]
<1>2. msg \in Letters(table)
  OBVIOUS
<1> HIDE DEF a, msg
<1>3. a.type = "RESPONSE" /\ a.action = "join_match" /\ a.detail \in Statuses
  BY DEF Entered, a
<1>4. /\ a.type = msg.type /\ a.action = msg.action /\ a.match = msg.match
      /\ a.detail = Detail(msg)
  BY <1>1 DEF Arrived, Received, Bare, msg
<1>5. msg.detail \in Statuses
  BY <1>2, <1>3, <1>4, DetailKeeps
<1> QED BY <1>1, <1>3, <1>4, <1>5 DEF LetsIn, msg, a

\* Whoever is told of the end of his request will handle it.
LEMMA EndingArrives ==
  ASSUME NEW o, NEW q \in Players, NEW table \in Seq(Matches), o[q] \in Seq(Letters(table)),
         NEW id, Tells(o, q, Endings, id)
  PROVE  \E k \in DOMAIN Arriving(q, o[q], table) :
           /\ Arriving(q, o[q], table)[k].action \in Endings
           /\ Arriving(q, o[q], table)[k].match = id
<1> DEFINE s == o[q]
           a == Arriving(q, s, table)
<1>1. PICK j \in DOMAIN s : s[j].action \in Endings /\ s[j].match = id
  BY DEF Tells
<1>2. Heeded(s[j])
  BY <1>1 DEF Heeded, Endings
<1>3. s \in Seq(Letters(table))
  OBVIOUS
<1> HIDE DEF s
<1>4. PICK k \in DOMAIN a : a[k] = Arrived(q, s[j], table)
  BY <1>1, <1>2, <1>3, ArrivalHolds
<1>5. a[k].action = s[j].action /\ a[k].match = s[j].match
  BY <1>4 DEF Arrived, Received, Bare
<1> QED BY <1>1, <1>4, <1>5 DEF s

\* h waits for a decision only where c does.
AsPending(c, h) ==
  h.matchState = "JOIN_PENDING" =>
    c.matchState = "JOIN_PENDING" /\ h.currentMatchId = c.currentMatchId

LEMMA ShowAsPending ==
  ASSUME NEW ids, NEW c \in Clients(ids), NEW d
  PROVE  AsPending(c, Show(c, d)) /\ AsPending(c, closeQueuedInfoDialogIfOpen(c))
BY DEF AsPending, Show, closeQueuedInfoDialogIfOpen, Clients

LEMMA ResponsePending ==
  ASSUME NEW ids \in SUBSET MatchIds, NEW c \in Clients(ids), NEW msg \in Post(ids),
         msg.type = "RESPONSE", ~IsError(msg)
  PROVE  LET h == handleResponse(c, msg)
         IN  \/ AsPending(c, h)
             \/ Entered(msg) /\ h.currentMatchId = msg.match
<1> DEFINE h == handleResponse(c, msg)
           asked == [c EXCEPT !.currentMatchId = msg.match, !.matchState = "JOIN_PENDING",
                              !.screen = "join_waiting"]
           r == [c EXCEPT !.registered = TRUE]
<1>1. CASE msg.action = "join_match"
  <2>1. Entered(msg)
    BY <1>1 DEF Entered, IsError
  <2>2. h \in {asked, Show(asked, Dialog("queued"))}
    BY <1>1 DEF handleResponse
  <2>3. asked.currentMatchId = msg.match /\ Show(asked, Dialog("queued")).currentMatchId = msg.match
    BY DEF Clients, Show
  <2> HIDE DEF asked, h
  <2> QED BY <2>1, <2>2, <2>3 DEF h
<1>2. CASE msg.action # "join_match"
  <2>1. h \in {c, r, Waits(c, msg), Show(c, Dialog("info"))}
    BY <1>2 DEF handleResponse
  <2>2. AsPending(c, c) /\ AsPending(c, r) /\ AsPending(c, Waits(c, msg))
    BY DEF AsPending, Waits, applyMatchState, Clients
  <2>3. AsPending(c, Show(c, Dialog("info")))
    BY ShowAsPending
  <2> HIDE DEF r, h
  <2> QED BY <2>1, <2>2, <2>3 DEF h
<1> QED BY <1>1, <1>2

LEMMA NotificationPending ==
  ASSUME NEW ids \in SUBSET MatchIds, NEW c \in Clients(ids), NEW msg \in Post(ids),
         msg.type = "NOTIFICATION", NEW me
  PROVE  LET h == handleNotification(c, msg, me)
         IN  /\ AsPending(c, h)
             /\ h.matchState = "JOIN_PENDING" => msg.action # "match_started"
<1> DEFINE h == handleNotification(c, msg, me)
           q == closeQueuedInfoDialogIfOpen(c)
           over == [c EXCEPT !.matchState = "FINISHED"]
<1>1. /\ msg.action \in {"match_started", "move"} => msg.turn \in Symbols
      /\ msg.match \in ids
  BY DEF Post, NamesMatch, ShowsTurn
<1>2. q \in Clients(ids) /\ AsPending(c, q)
  BY QueuedClosedType, ShowAsPending
<1>3. ASSUME NEW d PROVE AsPending(c, Show(c, d)) /\ AsPending(c, Show(q, d))
  <2>1. AsPending(c, Show(c, d))
    BY ShowAsPending
  <2>2. AsPending(q, Show(q, d))
    <3> HIDE DEF q
    <3> QED BY <1>2, ShowAsPending
  <2> HIDE DEF q
  <2> QED BY <1>2, <2>1, <2>2 DEF AsPending
<1>4. ASSUME NEW d PROVE AsPending(c, Show(over, d))
  BY DEF AsPending, Show, Clients
<1>5. started(c, msg).matchState = "ACTIVE"
  <2> HIDE DEF q
  <2>1. started(c, msg) = [applyMatchState(q, msg.match, msg.number, msg.turn)
                             EXCEPT !.matchState = "ACTIVE", !.screen = "game"]
    BY DEF started, q
  <2> QED BY <1>2, <2>1 DEF applyMatchState, Clients
<1>6. AsPending(c, moved(c, msg, me))
  BY DEF AsPending, moved, Show, Clients
<1>7. CASE msg.action = "match_started"
  <2>1. h = started(c, msg)
    BY <1>7 DEF handleNotification
  <2> QED BY <1>5, <2>1 DEF AsPending
<1>8. CASE msg.action = "move"
  <2>1. h = moved(c, msg, me)
    BY <1>8 DEF handleNotification
  <2> HIDE DEF h
  <2> QED BY <1>6, <1>8, <2>1 DEF h
<1>9. CASE msg.action \notin {"match_started", "move"}
  <2>1. \/ h \in {c, q} \/ \E d : h \in {Show(c, d), Show(q, d), Show(over, d)}
    BY <1>9 DEF handleNotification
  <2>2. AsPending(c, c)
    BY DEF AsPending
  <2> HIDE DEF q, over, h
  <2>3. AsPending(c, h)
    BY <1>2, <1>3, <1>4, <2>1, <2>2
  <2> QED BY <1>9, <2>3 DEF h
<1> QED BY <1>7, <1>8, <1>9

LEMMA HandledPending ==
  ASSUME NEW ids \in SUBSET MatchIds, NEW c \in Clients(ids), c.inbox # << >>, NEW me
  PROVE  LET h   == handleMessage(c, me)
             msg == Head(c.inbox)
         IN  h.matchState = "JOIN_PENDING" =>
               \/ Entered(msg) /\ h.currentMatchId = msg.match
               \/ /\ c.matchState = "JOIN_PENDING" /\ h.currentMatchId = c.currentMatchId
                  /\ msg.action # "match_started"
<1> DEFINE h == handleMessage(c, me)
           b == c.inbox
           msg == Head(b)
           rest == [c EXCEPT !.inbox = Tail(b)]
<1>1. b \in Seq(Post(ids)) /\ b # << >>
  BY DEF Clients
<1>2. msg \in Post(ids) /\ Tail(b) \in Seq(Post(ids))
  <2> HIDE DEF b
  <2> QED BY <1>1
<1>3. h = CASE IsError(msg)            -> Show(rest, Dialog("info"))
            [] ~IsError(msg) /\ msg.type = "RESPONSE" -> handleResponse(rest, msg)
            [] msg.type = "NOTIFICATION" -> handleNotification(rest, msg, me)
  BY DEF handleMessage
<1>4. /\ rest \in Clients(ids) /\ rest.matchState = c.matchState
      /\ rest.currentMatchId = c.currentMatchId
  <2> HIDE DEF b
  <2> QED BY <1>2 DEF Clients
<1> HIDE DEF b, msg, rest, h
<1>5. msg.type \in {"RESPONSE", "NOTIFICATION"} /\ (IsError(msg) => msg.type = "RESPONSE")
  BY <1>2 DEF Post, IsError
<1>6. msg.type = "RESPONSE" => msg.action # "match_started"
  BY <1>2 DEF Post, AnswerNames
<1>7. /\ \/ AsPending(rest, h)
         \/ Entered(msg) /\ h.currentMatchId = msg.match
      /\ h.matchState = "JOIN_PENDING" => msg.action # "match_started"
  <2>1. CASE IsError(msg)
    BY <1>3, <1>4, <1>5, <1>6, <2>1, ShowAsPending
  <2>2. CASE ~IsError(msg) /\ msg.type = "RESPONSE"
    <3>1. h = handleResponse(rest, msg)
      BY <1>3, <2>2
    <3> QED BY <1>2, <1>4, <1>6, <2>2, <3>1, ResponsePending
  <2>3. CASE ~IsError(msg) /\ msg.type = "NOTIFICATION"
    <3>1. h = handleNotification(rest, msg, me)
      BY <1>3, <2>3
    <3> QED BY <1>2, <1>4, <2>3, <3>1, NotificationPending
  <2> QED BY <1>5, <2>1, <2>2, <2>3
<1> QED BY <1>4, <1>7 DEF AsPending, h, msg, b

\* c will hear, past the first from messages of its inbox, how its request for
\* match id ended.
Hears(c, from, id) ==
  \E k \in DOMAIN c.inbox : k > from /\ c.inbox[k].action \in Endings /\ c.inbox[k].match = id

\* Nothing c has heard or will hear makes it wait for a decision.
Unconcerned(c) ==
  c.matchState # "JOIN_PENDING" /\ \A k \in DOMAIN c.inbox : ~Entered(c.inbox[k])

\* What holds of a client whose player stands in the given lines: it has one
\* request on its way at most, none once it has been let in, and withdraws one
\* only when it has left the waiting screen; and whatever lets it in, or has let
\* it in, is true or will be called off.
Patient(c, lines) ==
  /\ Len(c.outbox) <= 1
  /\ c.outbox # << >> => \A k \in DOMAIN c.inbox : ~Entered(c.inbox[k])
  /\ \A k \in DOMAIN c.outbox : c.outbox[k].action = "cancel_join" => c.matchState # "JOIN_PENDING"
  /\ \A k \in DOMAIN c.inbox : Entered(c.inbox[k]) =>
       c.inbox[k].match \in lines \/ Hears(c, k, c.inbox[k].match)
  /\ c.matchState = "JOIN_PENDING" =>
       \/ c.currentMatchId \in lines
       \/ Hears(c, 0, c.currentMatchId)
       \/ \E d \in ToSet(c.dialogs) : d.kind = "lobby"

LEMMA PatientHandled ==
  ASSUME NEW ids \in SUBSET MatchIds, NEW c \in Clients(ids), c.inbox # << >>, NEW me,
         NEW lines, Patient(c, lines)
  PROVE  Patient(handleMessage(c, me), lines)
<1> DEFINE h == handleMessage(c, me)
           b == c.inbox
           msg == Head(b)
<1>1. /\ h.inbox = Tail(b) /\ h.outbox = c.outbox
      /\ \A d \in ToSet(c.dialogs) : d.kind # "queued" => d \in ToSet(h.dialogs)
      /\ msg.action \in {"join_request_rejected", "join_request_obsolete"} =>
           Dialog("lobby") \in ToSet(h.dialogs)
  BY HandledKeeps
<1>2. h.matchState = "JOIN_PENDING" =>
        \/ Entered(msg) /\ h.currentMatchId = msg.match
        \/ /\ c.matchState = "JOIN_PENDING" /\ h.currentMatchId = c.currentMatchId
           /\ msg.action # "match_started"
  BY HandledPending
<1>3. b \in Seq(Post(ids)) /\ b # << >>
  BY DEF Clients
<1>4. msg = b[1] /\ 1 \in DOMAIN b
  <2> HIDE DEF b
  <2> QED BY <1>3
<1>5. \A k \in DOMAIN Tail(b) : k \in Nat /\ k > 0 /\ k + 1 \in DOMAIN b /\ Tail(b)[k] = b[k + 1]
  <2> HIDE DEF b
  <2> QED BY <1>3
<1> HIDE DEF h, b, msg
<1>6. ASSUME NEW k \in DOMAIN b, k # 1
      PROVE  k \in Nat /\ k - 1 \in DOMAIN Tail(b) /\ Tail(b)[k - 1] = b[k]
  BY <1>3, <1>6, TailHolds
<1>7. ASSUME NEW from \in Nat, NEW id, Hears(c, from + 1, id) PROVE Hears(h, from, id)
  <2>1. PICK k \in DOMAIN b : k > from + 1 /\ b[k].action \in Endings /\ b[k].match = id
    BY <1>7 DEF Hears, b
  <2>2. k # 1 /\ k \in Nat
    BY <1>3, <2>1
  <2>3. k - 1 \in DOMAIN Tail(b) /\ Tail(b)[k - 1] = b[k] /\ k - 1 > from
    BY <1>6, <2>1, <2>2
  <2> QED BY <1>1, <2>1, <2>3 DEF Hears
<1>8. Len(h.outbox) <= 1
  BY <1>1 DEF Patient
<1>9. h.outbox # << >> => \A k \in DOMAIN h.inbox : ~Entered(h.inbox[k])
  BY <1>1, <1>5 DEF Patient, b
<1>10. \A k \in DOMAIN h.outbox : h.outbox[k].action = "cancel_join" => h.matchState # "JOIN_PENDING"
  <2> SUFFICES ASSUME NEW k \in DOMAIN c.outbox, c.outbox[k].action = "cancel_join",
                      h.matchState = "JOIN_PENDING"
               PROVE  FALSE
    BY <1>1
  <2>1. Entered(msg)
    BY <1>2 DEF Patient
  <2>2. c.outbox # << >>
    OBVIOUS
  <2> QED BY <1>4, <2>1, <2>2 DEF Patient, b
<1>11. \A k \in DOMAIN h.inbox : Entered(h.inbox[k]) =>
         h.inbox[k].match \in lines \/ Hears(h, k, h.inbox[k].match)
  <2> SUFFICES ASSUME NEW k \in DOMAIN Tail(b), Entered(Tail(b)[k])
               PROVE  Tail(b)[k].match \in lines \/ Hears(h, k, Tail(b)[k].match)
    BY <1>1
  <2>1. k \in Nat /\ k + 1 \in DOMAIN b /\ Tail(b)[k] = b[k + 1]
    BY <1>5
  <2>2. b[k + 1].match \in lines \/ Hears(c, k + 1, b[k + 1].match)
    BY <2>1 DEF Patient, b
  <2> QED BY <1>7, <2>1, <2>2
<1>12. ASSUME h.matchState = "JOIN_PENDING"
       PROVE  \/ h.currentMatchId \in lines
              \/ Hears(h, 0, h.currentMatchId)
              \/ \E d \in ToSet(h.dialogs) : d.kind = "lobby"
  <2>1. CASE Entered(msg) /\ h.currentMatchId = msg.match
    <3>1. msg.match \in lines \/ Hears(c, 0 + 1, msg.match)
      BY <1>4, <2>1 DEF Patient, b
    <3> QED BY <1>7, <2>1, <3>1
  <2>2. CASE /\ c.matchState = "JOIN_PENDING" /\ h.currentMatchId = c.currentMatchId
             /\ msg.action # "match_started"
    <3> DEFINE id == c.currentMatchId
    <3>1. \/ id \in lines \/ Hears(c, 0, id)
          \/ \E d \in ToSet(c.dialogs) : d.kind = "lobby"
      BY <2>2 DEF Patient
    <3>2. ASSUME NEW d \in ToSet(c.dialogs), d.kind = "lobby" PROVE d \in ToSet(h.dialogs)
      BY <1>1, <3>2
    <3>3. ASSUME Hears(c, 0, id)
          PROVE  Hears(h, 0, id) \/ \E d \in ToSet(h.dialogs) : d.kind = "lobby"
      <4>1. PICK k \in DOMAIN b : k > 0 /\ b[k].action \in Endings /\ b[k].match = id
        BY <3>3 DEF Hears, b
      <4>2. CASE k = 1
        <5>1. msg.action \in {"join_request_rejected", "join_request_obsolete"}
          BY <1>4, <2>2, <4>1, <4>2 DEF Endings
        <5>2. Dialog("lobby").kind = "lobby"
          BY DEF Dialog
        <5> QED BY <1>1, <5>1, <5>2
      <4>3. CASE k # 1
        <5>1. k > 0 + 1
          BY <1>3, <4>1, <4>3
        <5>2. Hears(c, 0 + 1, id)
          BY <4>1, <5>1 DEF Hears, b
        <5> QED BY <1>7, <5>2
      <4> QED BY <4>2, <4>3
    <3> QED BY <2>2, <3>1, <3>2, <3>3
  <2> QED BY <1>2, <1>12, <2>1, <2>2
<1>13. Patient(h, lines)
  BY <1>8, <1>9, <1>10, <1>11, <1>12 DEF Patient
<1> QED BY <1>13 DEF h

LEMMA PatientServed ==
  ASSUME NEW ids, NEW c \in Clients(ids), c.outbox # << >>, NEW lines, Patient(c, lines)
  PROVE  LET left == [c EXCEPT !.outbox = Tail(@)]
         IN  /\ Patient(left, lines) /\ left.outbox = << >>
             /\ \A k \in DOMAIN left.inbox : ~Entered(left.inbox[k])
             /\ Head(c.outbox).action = "cancel_join" => Unconcerned(left)
<1> DEFINE b == c.outbox
           left == [c EXCEPT !.outbox = Tail(b)]
<1>1. b \in Seq(Errands) /\ b # << >> /\ Len(b) <= 1
  BY DEF Clients, Patient
<1>2. Tail(b) = << >> /\ Head(b) = b[1] /\ 1 \in DOMAIN b
  <2> HIDE DEF b
  <2> QED BY <1>1
<1>3. /\ left.outbox = << >> /\ left.inbox = c.inbox /\ left.dialogs = c.dialogs
      /\ left.matchState = c.matchState /\ left.currentMatchId = c.currentMatchId
  BY <1>2 DEF Clients
<1>4. \A k \in DOMAIN left.inbox : ~Entered(left.inbox[k])
  BY <1>1, <1>3 DEF Patient
<1>5. Head(b).action = "cancel_join" => Unconcerned(left)
  BY <1>2, <1>3, <1>4 DEF Patient, Unconcerned
<1>6. \A from, id : Hears(left, from, id) <=> Hears(c, from, id)
  BY <1>3 DEF Hears
<1> HIDE DEF b, left
<1>7. Len(<< >>) <= 1 /\ DOMAIN << >> = {}
  OBVIOUS
<1>8. Patient(left, lines)
  BY <1>3, <1>4, <1>6, <1>7 DEF Patient
<1> QED BY <1>3, <1>4, <1>5, <1>8 DEF left, b

\* What post tells client c of the lines its player stands in, those before and
\* those after: where a line ends it hears of it, and what lets it in is true.
Truthful(post, c, before, lines) ==
  /\ \A id \in before :
       \/ id \in lines \/ Unconcerned(c)
       \/ \E k \in DOMAIN post : post[k].action \in Endings /\ post[k].match = id
  /\ \A k \in DOMAIN post : Entered(post[k]) => post[k].match \in lines /\ c.outbox = << >>

LEMMA PatientGets ==
  ASSUME NEW ids, NEW c \in Clients(ids), NEW post \in Seq(Post(ids)),
         NEW lines, NEW more, Patient(c, lines), Truthful(post, c, lines, more)
  PROVE  Patient([c EXCEPT !.inbox = @ \o post], more)
<1> DEFINE b == c.inbox
           h == [c EXCEPT !.inbox = b \o post]
<1>1. b \in Seq(Post(ids)) /\ Len(b) \in Nat /\ DOMAIN b = 1 .. Len(b)
  BY DEF Clients
<1>2. /\ h.inbox = b \o post /\ h.outbox = c.outbox /\ h.dialogs = c.dialogs
      /\ h.matchState = c.matchState /\ h.currentMatchId = c.currentMatchId
  BY DEF Clients
<1> HIDE DEF h, b
<1>3. ASSUME NEW k \in DOMAIN (b \o post)
      PROVE  \/ k \in DOMAIN b /\ (b \o post)[k] = b[k]
             \/ \E j \in DOMAIN post : (b \o post)[k] = post[j]
  BY <1>1, ConcatAt
<1>4. ASSUME NEW from, NEW id, Hears(c, from, id) PROVE Hears(h, from, id)
  <2>1. PICK k \in DOMAIN b : k > from /\ b[k].action \in Endings /\ b[k].match = id
    BY <1>4 DEF Hears, b
  <2>2. k \in DOMAIN (b \o post) /\ (b \o post)[k] = b[k]
    BY <1>1, LongerHolds
  <2> QED BY <1>2, <2>1, <2>2 DEF Hears
<1>5. ASSUME NEW from \in 0 .. Len(b), NEW id,
             \E k \in DOMAIN post : post[k].action \in Endings /\ post[k].match = id
      PROVE  Hears(h, from, id)
  <2>1. PICK k \in DOMAIN post : post[k].action \in Endings /\ post[k].match = id
    BY <1>5
  <2>2. Len(b) + k \in DOMAIN (b \o post) /\ (b \o post)[Len(b) + k] = post[k]
    BY <1>1, PostHolds
  <2>3. Len(b) + k > from
    <3>1. k \in Nat /\ k > 0
      OBVIOUS
    <3> QED BY <1>1, <3>1
  <2> QED BY <1>2, <2>1, <2>2, <2>3 DEF Hears
<1>6. ASSUME NEW from \in 0 .. Len(b), NEW id, id \in lines \/ Hears(c, from, id)
      PROVE  id \in more \/ Unconcerned(c) \/ Hears(h, from, id)
  BY <1>4, <1>5, <1>6 DEF Truthful
<1>7. h.outbox # << >> => \A k \in DOMAIN h.inbox : ~Entered(h.inbox[k])
  <2> SUFFICES ASSUME c.outbox # << >>, NEW k \in DOMAIN (b \o post), Entered((b \o post)[k])
               PROVE  FALSE
    BY <1>2
  <2>1. \A i \in DOMAIN b : ~Entered(b[i])
    BY DEF Patient, b
  <2> QED BY <1>3, <2>1 DEF Truthful
<1>8. \A k \in DOMAIN h.inbox : Entered(h.inbox[k]) =>
        h.inbox[k].match \in more \/ Hears(h, k, h.inbox[k].match)
  <2> SUFFICES ASSUME NEW k \in DOMAIN (b \o post), Entered((b \o post)[k])
               PROVE  (b \o post)[k].match \in more \/ Hears(h, k, (b \o post)[k].match)
    BY <1>2
  <2>1. CASE k \in DOMAIN b /\ (b \o post)[k] = b[k]
    <3>1. b[k].match \in lines \/ Hears(c, k, b[k].match)
      BY <2>1 DEF Patient, b
    <3>2. k \in 0 .. Len(b) /\ ~Unconcerned(c)
      BY <1>1, <2>1 DEF Unconcerned, b
    <3> QED BY <1>6, <2>1, <3>1, <3>2
  <2>2. CASE \E j \in DOMAIN post : (b \o post)[k] = post[j]
    BY <2>2 DEF Truthful
  <2> QED BY <1>3, <2>1, <2>2
<1>9. ASSUME h.matchState = "JOIN_PENDING"
      PROVE  \/ h.currentMatchId \in more
             \/ Hears(h, 0, h.currentMatchId)
             \/ \E d \in ToSet(h.dialogs) : d.kind = "lobby"
  <2>1. \/ c.currentMatchId \in lines \/ Hears(c, 0, c.currentMatchId)
        \/ \E d \in ToSet(c.dialogs) : d.kind = "lobby"
    BY <1>2, <1>9 DEF Patient
  <2>2. 0 \in 0 .. Len(b) /\ ~Unconcerned(c)
    BY <1>1, <1>2, <1>9 DEF Unconcerned
  <2> QED BY <1>2, <1>6, <2>1, <2>2
<1>10. Patient(h, more)
  BY <1>2, <1>7, <1>8, <1>9 DEF Patient
<1> QED BY <1>10 DEF h, b

\* The requests of a client that has left its match.
Farewells == {"cancel_join", "quit_match"}

\* What the user of c makes of it when nothing is on its way to or from c: one
\* request at most, and no match it shows or waits for that c did not.
ActsOnce(c, h) ==
  /\ h.inbox = << >> /\ Len(h.outbox) <= 1
  /\ h.matchState \in Engaged =>
       /\ \A k \in DOMAIN h.outbox : h.outbox[k].action \notin Farewells
       /\ h.matchState = c.matchState /\ h.currentMatchId = c.currentMatchId
       /\ h.myPlayerNumber = c.myPlayerNumber /\ h.currentTurn = c.currentTurn
       /\ \A d \in ToSet(c.dialogs) : d.kind = "lobby" => d \in ToSet(h.dialogs)

LEMMA SendsOnce ==
  ASSUME NEW ids, NEW c \in Clients(ids), c.inbox = << >>, c.outbox = << >>, NEW r \in Errands
  PROVE  LET h == sendMessage(c, r)
         IN  /\ h.inbox = << >> /\ Len(h.outbox) <= 1
             /\ r.action \notin Farewells => ActsOnce(c, h)
<1> DEFINE h == sendMessage(c, r)
<1>1. Append(<< >>, r) = <<r>>
  OBVIOUS
<1>2. h = [c EXCEPT !.outbox = <<r>>]
  BY <1>1 DEF sendMessage
<1>3. /\ h.inbox = << >> /\ h.outbox = <<r>> /\ h.dialogs = c.dialogs
      /\ h.matchState = c.matchState /\ h.currentMatchId = c.currentMatchId
      /\ h.myPlayerNumber = c.myPlayerNumber /\ h.currentTurn = c.currentTurn
  BY <1>2 DEF Clients
<1>4. Len(<<r>>) <= 1 /\ DOMAIN <<r>> = {1} /\ <<r>>[1] = r
  OBVIOUS
<1> HIDE DEF h
<1>5. r.action \notin Farewells => ActsOnce(c, h)
  BY <1>3, <1>4 DEF ActsOnce
<1> QED BY <1>3, <1>4, <1>5 DEF h

LEMMA CurrentOnce ==
  ASSUME NEW ids \in SUBSET MatchIds, NEW c \in Clients(ids), c.inbox = << >>, c.outbox = << >>,
         NEW action \in {"cancel_join", "rematch", "quit_match"}
  PROVE  LET h == SendOfCurrent(c, action)
         IN  /\ h.inbox = << >> /\ Len(h.outbox) <= 1
             /\ action = "rematch" => ActsOnce(c, h)
<1> DEFINE r == createRequestMessage(action, c.currentMatchId, 0)
<1>1. c.currentMatchId \in ids \cup {NoMatch} /\ 0 \in 0 .. BOARD_COLS - 1
  BY BoardAssumption DEF Clients
<1>2. c.currentMatchId # NoMatch => r \in Errands
  BY <1>1, ErrandType
<1>3. r.action = action /\ "rematch" \notin Farewells
  BY DEF createRequestMessage, Farewells
<1>4. Len(<< >>) <= 1 /\ DOMAIN << >> = {}
  OBVIOUS
<1>5. ActsOnce(c, c)
  BY <1>4 DEF ActsOnce
<1>6. SendOfCurrent(c, action) = IF c.currentMatchId = NoMatch THEN c ELSE sendMessage(c, r)
  BY DEF SendOfCurrent
<1> HIDE DEF r
<1>7. CASE c.currentMatchId = NoMatch
  BY <1>4, <1>5, <1>6, <1>7
<1>8. CASE c.currentMatchId # NoMatch
  BY <1>2, <1>3, <1>6, <1>8, SendsOnce
<1> QED BY <1>7, <1>8

\* Back in the lobby a client waits for nothing.
LEMMA LobbyOnce ==
  ASSUME NEW ids, NEW b \in Clients(ids), b.inbox = << >>, Len(b.outbox) <= 1, NEW c
  PROVE  ActsOnce(c, returnToLobby(b))
<1>1. LET h == returnToLobby(b)
      IN  h.inbox = b.inbox /\ h.outbox = b.outbox /\ h.matchState = "NONE"
  BY DEF returnToLobby, Clients
<1> QED BY <1>1 DEF ActsOnce, Engaged

LEMMA LeavesOnce ==
  ASSUME NEW ids \in SUBSET MatchIds, NEW c \in Clients(ids), c.inbox = << >>, c.outbox = << >>
  PROVE  ActsOnce(c, leaveMatch(c)) /\ ActsOnce(c, cancelJoinRequest(c))
<1> DEFINE s == SendOfCurrent(c, "quit_match")
           q == closeQueuedInfoDialogIfOpen(c)
           t == SendOfCurrent(q, "cancel_join")
<1>1. s \in Clients(ids) /\ s.inbox = << >> /\ Len(s.outbox) <= 1
  BY CurrentSent, CurrentOnce
<1>2. q \in Clients(ids) /\ q.inbox = << >> /\ q.outbox = << >>
  <2>1. q.inbox = c.inbox /\ q.outbox = c.outbox
    BY QueuedClosedKeeps DEF Keeps
  <2> QED BY <2>1, QueuedClosedType
<1>3. t \in Clients(ids) /\ t.inbox = << >> /\ Len(t.outbox) <= 1
  <2> HIDE DEF q
  <2> QED BY <1>2, CurrentSent, CurrentOnce
<1>4. leaveMatch(c) = returnToLobby(s) /\ cancelJoinRequest(c) = returnToLobby(t)
  BY DEF leaveMatch, cancelJoinRequest
<1> HIDE DEF s, q, t
<1> QED BY <1>1, <1>3, <1>4, LobbyOnce

LEMMA ClosesOnce ==
  ASSUME NEW ids \in SUBSET MatchIds, NEW c \in Clients(ids), c.dialogs # << >>,
         c.inbox = << >>, c.outbox = << >>, NEW yes \in BOOLEAN
  PROVE  ActsOnce(c, CloseDialog(c, yes))
<1> DEFINE b == c.dialogs
           d == Last(b)
           below == [c EXCEPT !.dialogs = Front(b)]
           h == CloseDialog(c, yes)
<1>1. b \in Seq(Dialogs) /\ b # << >>
  BY DEF Clients
<1>2. /\ Front(b) \in Seq(Dialogs) /\ d \in Dialogs
      /\ Len(Front(b)) = Len(b) - 1 /\ Len(b) \in Nat \ {0}
      /\ \A i \in 1 .. Len(b) - 1 : Front(b)[i] = b[i]
      /\ d = b[Len(b)]
  <2> HIDE DEF b
  <2> QED BY <1>1, FrontType
<1>3. h = CASE d.kind = "request" -> AnswerToRequest(below, d, yes)
            [] d.kind = "choice"  -> IF yes THEN requestRematch(below) ELSE leaveMatch(below)
            [] d.kind = "lost"    -> leaveMatch(below)
            [] d.kind = "lobby"   -> returnToLobby(below)
            [] OTHER              -> below
  BY DEF CloseDialog
<1> HIDE DEF b, d
<1>4. below \in Clients(ids)
  BY <1>2 DEF Clients
<1>5. /\ below.inbox = << >> /\ below.outbox = << >> /\ below.dialogs = Front(b)
      /\ below.matchState = c.matchState /\ below.currentMatchId = c.currentMatchId
      /\ below.myPlayerNumber = c.myPlayerNumber /\ below.currentTurn = c.currentTurn
  BY DEF Clients
<1>6. Len(<< >>) <= 1 /\ DOMAIN << >> = {}
  OBVIOUS
<1> HIDE DEF below, h
<1>7. CASE d.kind = "lobby"
  <2>1. h = returnToLobby(below)
    BY <1>3, <1>7
  <2>2. ActsOnce(c, h)
    BY <1>4, <1>5, <1>6, <2>1, LobbyOnce
  <2> QED BY <2>2 DEF h
<1>8. CASE d.kind # "lobby"
  <2>1. ASSUME NEW e \in ToSet(b), e.kind = "lobby" PROVE e \in ToSet(below.dialogs)
    <3>1. PICK k \in DOMAIN b : b[k] = e
      BY <2>1 DEF ToSet
    <3>2. k \in 1 .. Len(b) /\ DOMAIN Front(b) = 1 .. Len(b) - 1
      BY <1>1, <1>2, <3>1
    <3>3. k # Len(b)
      BY <1>2, <1>8, <2>1, <3>1
    <3>4. k \in 1 .. Len(b) - 1
      BY <1>2, <3>2, <3>3
    <3>5. k \in DOMAIN Front(b) /\ Front(b)[k] = e
      BY <1>2, <3>1, <3>2, <3>4
    <3> QED BY <1>5, <3>5 DEF ToSet
  <2>2. ActsOnce(below, h)
    <3>1. CASE d.kind = "request"
      <4> DEFINE action == IF yes THEN "accept_join" ELSE "reject_join"
                 r == [createRequestMessage(action, d.match, 0) EXCEPT !.about = d.asker]
      <4>1. d.match \in MatchIds /\ d.asker \in Players \cup {NoMatch}
        BY <1>2, <3>1 DEF Dialogs
      <4>2. r \in Errands
        BY <4>1, ErrandType
      <4>3. h = sendMessage(below, r)
        BY <1>3, <3>1 DEF AnswerToRequest
      <4>4. r.action \notin Farewells
        BY DEF createRequestMessage, Farewells
      <4> HIDE DEF r
      <4> QED BY <1>4, <1>5, <4>2, <4>3, <4>4, SendsOnce
    <3>2. CASE d.kind # "request"
      <4>1. ActsOnce(below, requestRematch(below)) /\ ActsOnce(below, leaveMatch(below))
        BY <1>4, <1>5, CurrentOnce, LeavesOnce DEF requestRematch
      <4>2. ActsOnce(below, below)
        BY <1>5, <1>6 DEF ActsOnce
      <4>3. h \in {requestRematch(below), leaveMatch(below), below}
        BY <1>3, <1>8, <3>2
      <4> QED BY <4>1, <4>2, <4>3
    <3> QED BY <3>1, <3>2
  <2>3. ActsOnce(c, h)
    BY <1>5, <2>1, <2>2 DEF ActsOnce, b
  <2> QED BY <2>3 DEF h
<1> QED BY <1>7, <1>8

LEMMA UserActsOnce ==
  ASSUME NEW ids \in SUBSET MatchIds, client \in [Players -> Clients(ids)],
         NEW p \in Players, User(p), Caught(p)
  PROVE  \E after : client' = [client EXCEPT ![p] = after] /\ ActsOnce(client[p], after)
<1> DEFINE c == client[p]
           Goal == \E after : client' = [client EXCEPT ![p] = after] /\ ActsOnce(c, after)
<1>0. c \in Clients(ids) /\ 0 \in 0 .. BOARD_COLS - 1 /\ c.inbox = << >> /\ c.outbox = << >>
  BY BoardAssumption DEF Caught
<1>1. ASSUME NEW after, Acts(p, after), ActsOnce(c, after) PROVE Goal
  BY <1>1 DEF Acts
<1>2. ASSUME NEW r \in Errands, Acts(p, sendMessage(c, r)), r.action \notin Farewells PROVE Goal
  BY <1>0, <1>1, <1>2, SendsOnce
<1>3. \A action : \A match : \A column :
        createRequestMessage(action, match, column).action = action
  BY DEF createRequestMessage
<1>4. CASE ClickCreate(p)
  BY <1>2, <1>3, <1>4, ErrandType DEF ClickCreate, Farewells
<1>5. CASE ClickCancel(p)
  BY <1>0, <1>1, <1>5, LeavesOnce DEF ClickCancel
<1>6. CASE ClickLeave(p)
  BY <1>0, <1>1, <1>6, LeavesOnce DEF ClickLeave
<1>7. ASSUME NEW id \in MatchIds, ClickJoin(p, id) PROVE Goal
  BY <1>0, <1>2, <1>3, <1>7, ErrandType DEF ClickJoin, Farewells
<1>8. ASSUME NEW column \in 0 .. BOARD_COLS - 1, ClickColumn(p, column) PROVE Goal
  <2>1. c.currentMatchId \in MatchIds
    BY <1>0, <1>8 DEF ClickColumn, MayClickColumn, Clients
  <2>2. createRequestMessage("move", c.currentMatchId, column) \in Errands
    BY <1>8, <2>1, ErrandType
  <2> QED BY <1>2, <1>3, <1>8, <2>2 DEF ClickColumn, Farewells
<1>9. ASSUME NEW yes \in BOOLEAN, AnswerDialog(p, yes) PROVE Goal
  BY <1>0, <1>1, <1>9, ClosesOnce DEF AnswerDialog
<1> QED BY <1>4, <1>5, <1>6, <1>7, <1>8, <1>9 DEF User

LEMMA PatientActs ==
  ASSUME NEW c, c.inbox = << >>, NEW h, ActsOnce(c, h), NEW lines, Patient(c, lines)
  PROVE  Patient(h, lines)
<1>1. DOMAIN << >> = {}
  OBVIOUS
<1>2. \A from, id : ~Hears(c, from, id)
  BY <1>1 DEF Hears
<1> QED BY <1>1, <1>2 DEF ActsOnce, Patient, Engaged, Farewells

\* Where p waits for a decision.
Lines(p) == {id \in DOMAIN matches : WaitsFor(p, id)}

\* Whom a request takes out of a line is told so, unless he asked for it.
LEMMA ServedTells ==
  ASSUME TypeOK, AllSound, NEW s \in Players, NEW r \in Errands, Handler(s, r),
         NEW q \in Players, Connected(q),
         NEW id \in DOMAIN matches, WaitsFor(q, id), ~WaitsFor(q, id)'
  PROVE  Tells(out', q, Endings, id) \/ (q = s /\ r.action = "cancel_join")
<1>1. Sound(matches[id]) /\ ~Keep(id)
  BY WaiterFields DEF AllSound
<1>2. /\ r.action \notin {"register", "create_match"} => r.match \in MatchIds
      /\ r.column \in Columns
  BY BoardAssumption DEF Errands, Requests, Columns
<1>3. CASE r.action = "cancel_join"
  <2>1. CancelJoin(s, r.match)
    BY <1>3 DEF Handler
  <2>2. Withdraw(s, id) \/ LeaveQueue(s, id)
    BY <1>1, <1>2, <1>3, <2>1, WithdrawalEffect
  <2> QED BY <1>1, <1>3, <2>2, WithdrawalDropsNobodyElse
<1>4. CASE r.action \in {"accept_join", "reject_join"}
  <2>1. AcceptJoin(s, r.match) \/ RejectJoin(s, r.match)
    BY <1>4 DEF Handler
  <2>2. Accept(s, id) \/ Refuse(s, id)
    BY <1>1, <1>2, <1>4, <2>1, DecisionEffect
  <2> QED BY <1>1, <2>2, DecisionDropsNobody
<1>5. CASE r.action \notin {"accept_join", "reject_join", "cancel_join"}
  <2>1. Request(s)
    <3>1. CASE r.action \in {"register", "create_match"}
      BY <3>1 DEF Handler, Request
    <3>2. CASE r.action \notin {"register", "create_match"}
      BY <1>2, <1>5, <3>2 DEF Handler, Request
    <3> QED BY <3>1, <3>2
  <2>2. RequestDone(s, id)
    BY <1>1, <2>1, RequestEffect
  <2> QED BY <1>1, <2>2, RequestDropsNobody
<1> QED BY <1>3, <1>4, <1>5

\* Only who asks is let in, and he stands in line then.
LEMMA ServedLetsIn ==
  ASSUME TypeOK, TypeOK', AllSound, NEW s \in Players, NEW r \in Errands, Handler(s, r),
         NEW q \in Players, NEW k, LetsIn(out', q, k), NEW id, id = out'[q][k].match
  PROVE  q = s /\ id \in DOMAIN matches' /\ WaitsFor(q, id)'
<1>1. /\ r.action \notin {"register", "create_match"} => r.match \in MatchIds
      /\ r.column \in Columns
  BY BoardAssumption DEF Errands, Requests, Columns
<1>2. ~Mute(out', {"join_match"}) /\ {"join_match"} \in SUBSET News
  BY MuteLetsNobodyIn DEF News
<1>3. CASE r.action = "join_match"
  <2>1. JoinMatch(s, r.match) /\ r.match \in MatchIds
    BY <1>1, <1>3 DEF Handler
  <2>2. q = s /\ r.match = id /\ r.match \in DOMAIN matches' /\ WaitsFor(q, r.match)'
    BY <2>1, JoinLetsIn
  <2> QED BY <2>2
<1>4. CASE r.action \in {"accept_join", "reject_join", "cancel_join"}
  <2>1. Answer(s, r.match) /\ r.match \in MatchIds
    BY <1>1, <1>4 DEF Handler, Answer
  <2> QED BY <1>2, <2>1, MuteAnswer
<1>5. CASE r.action \notin {"join_match", "accept_join", "reject_join", "cancel_join"}
  <2>1. CASE r.action \in {"register", "create_match"}
    <3>1. Register(s) \/ CreateMatch(s)
      BY <2>1 DEF Handler
    <3>2. 1 \in MatchIds
      BY ServerAssumption DEF MatchIds
    <3> QED BY <1>1, <1>2, <3>1, <3>2, MuteRequest
  <2>2. CASE r.action \notin {"register", "create_match"}
    <3>1. Move(s, r.match, r.column) \/ Rematch(s, r.match) \/ QuitMatch(s, r.match)
      BY <1>5, <2>2 DEF Handler
    <3> QED BY <1>1, <1>2, <2>2, <3>1, MuteRequest
  <2> QED BY <2>1, <2>2
<1> QED BY <1>3, <1>4, <1>5

\* The same of what o holds for q, before Arriving.
TellsTruly(o, q, c, before, lines) ==
  /\ \A id \in before : id \in lines \/ Unconcerned(c) \/ Tells(o, q, Endings, id)
  /\ \A k : LetsIn(o, q, k) => o[q][k].match \in lines /\ c.outbox = << >>

LEMMA MailKeepsPatient ==
  ASSUME NEW table \in Seq(Matches), NEW o, NEW q \in Players, o[q] \in Seq(Letters(table)),
         NEW c \in Clients(DOMAIN table), NEW before, NEW lines, Patient(c, before),
         TellsTruly(o, q, c, before, lines)
  PROVE  Patient([c EXCEPT !.inbox = @ \o Arriving(q, o[q], table)], lines)
<1> DEFINE post == Arriving(q, o[q], table)
<1>1. post \in Seq(Post(DOMAIN table))
  BY ArrivalType
<1>2. ASSUME NEW id, Tells(o, q, Endings, id)
      PROVE  \E k \in DOMAIN post : post[k].action \in Endings /\ post[k].match = id
  BY <1>2, EndingArrives
<1>3. ASSUME NEW k \in DOMAIN post, Entered(post[k])
      PROVE  post[k].match \in lines /\ c.outbox = << >>
  <2>1. PICK j : LetsIn(o, q, j) /\ o[q][j].match = post[k].match
    BY <1>3, EnteredArrives
  <2> QED BY <2>1 DEF TellsTruly
<1> HIDE DEF post
<1>4. Truthful(post, c, before, lines)
  BY <1>2, <1>3 DEF Truthful, TellsTruly
<1>5. Patient([c EXCEPT !.inbox = @ \o post], lines)
  BY <1>1, <1>4, PatientGets
<1> QED BY <1>5 DEF post

LEMMA DeliveryKeepsPatient ==
  ASSUME TypeOK', out' \in Mailings(matches'), NEW more, more = DOMAIN matches',
         NEW clients \in [Players -> Clients(more)], Deliver(clients),
         NEW q \in Players, NEW before, NEW lines, Patient(clients[q], before),
         TellsTruly(out', q, clients[q], before, lines)
  PROVE  Patient(client'[q], lines)
<1>1. matches' \in Seq(Matches) /\ out'[q] \in Seq(Letters(matches'))
  BY DEF TypeOK, Mailings
<1>2. clients[q] \in Clients(DOMAIN matches')
  OBVIOUS
<1>3. client'[q] = [clients[q] EXCEPT !.inbox = @ \o Arriving(q, out'[q], matches')]
  BY Delivered
<1>4. Patient([clients[q] EXCEPT !.inbox = @ \o Arriving(q, out'[q], matches')], lines)
  BY <1>1, <1>2, MailKeepsPatient
<1> QED BY <1>3, <1>4

AllPatient == \A p \in Players : Serving(p) => Patient(client[p], Lines(p))

LEMMA NewIsPatient == \A lines : Patient(NewClient, lines)
<1>1. Len(<< >>) <= 1 /\ DOMAIN << >> = {}
  OBVIOUS
<1> QED BY <1>1 DEF Patient, NewClient

LEMMA OpenedIsPatient ==
  ASSUME NEW lines
  PROVE  Patient(sendMessage(NewClient, createRequestMessage("register", 0, 0)), lines)
<1> DEFINE r == createRequestMessage("register", 0, 0)
<1>1. r \in Errands
  BY ErrandType
<1>2. r.action \notin Farewells
  BY DEF createRequestMessage, Farewells
<1>3. NewClient.inbox = << >> /\ NewClient.outbox = << >>
  BY DEF NewClient
<1>4. NewClient \in Clients({}) /\ Patient(NewClient, lines)
  BY NewClientType, NewIsPatient
<1> HIDE DEF r, NewClient
<1>5. ActsOnce(NewClient, sendMessage(NewClient, r))
  BY <1>1, <1>2, <1>3, <1>4, SendsOnce
<1> QED BY <1>3, <1>4, <1>5, PatientActs DEF r

LEMMA ServeKeepsPatient ==
  ASSUME AllTyped, AllTyped', AllPatient, NEW s \in Players, Serve(s),
         NEW q \in Players, Serving(q), NEW lines, lines = Lines(q)'
  PROVE  Patient(client'[q], lines)
<1> DEFINE before == Lines(q)
           more == DOMAIN matches'
           r == Head(client[s].outbox)
           left == [client[s] EXCEPT !.outbox = Tail(@)]
           clients == [client EXCEPT ![s] = left]
<1>1. /\ Next /\ [Next]_vars /\ TypeOK /\ TypeOK' /\ AllSound /\ AllSound'
      /\ out' \in Mailings(matches') /\ Connected(q) /\ DOMAIN matches \subseteq more
  BY ServerActs, StepIsMail, TableGrows DEF AllTyped, Serving
<1>2. client \in [Players -> Clients(more)]
  <2>1. Clients(DOMAIN matches) \subseteq Clients(more)
    BY <1>1, ClientGrows
  <2> QED BY <2>1 DEF AllTyped, ClientsTyped
<1>3. left \in Clients(more) /\ r \in Errands
  BY <1>2, OutboxShrinks DEF Serve
<1>4. Handler(s, r) /\ clients = [client EXCEPT ![s].outbox = Tail(@)] /\ Serving(s)
  <2>1. Handler(s, r) /\ clients = [client EXCEPT ![s].outbox = Tail(@)]
    BY DEF Serve
  <2>2. Serving(s)
    <3> HIDE DEF r
    <3> QED BY <2>1 DEF Handler, Register, CreateMatch, JoinMatch, AcceptJoin, RejectJoin,
                        CancelJoin, Move, Rematch, QuitMatch
  <2> QED BY <2>1, <2>2
<1>5. clients \in [Players -> Clients(more)] /\ Deliver(clients)
  <2>1. Deliver(clients)
    BY <1>4 DEF Serve
  <2> QED BY <1>2, <1>3, <2>1
<1>6. /\ Patient(left, Lines(s)) /\ left.outbox = << >>
      /\ r.action = "cancel_join" => Unconcerned(left)
  <2>1. client[s] \in Clients(more) /\ client[s].outbox # << >> /\ Patient(client[s], Lines(s))
    BY <1>2, <1>4 DEF Serve, AllPatient
  <2> QED BY <2>1, PatientServed
<1>7. /\ q = s => clients[q] = left
      /\ q # s => clients[q] = client[q]
  BY <1>2
<1> HIDE DEF left, clients, r
<1>8. Patient(clients[q], before)
  BY <1>6, <1>7 DEF AllPatient
<1>9. ASSUME NEW id \in before
      PROVE  id \in lines \/ Unconcerned(clients[q]) \/ Tells(out', q, Endings, id)
  <2>1. id \in DOMAIN matches /\ id \in more /\ WaitsFor(q, id)
    BY <1>1, <1>9 DEF Lines
  <2>2. CASE WaitsFor(q, id)'
    BY <2>1, <2>2 DEF Lines
  <2>3. CASE ~WaitsFor(q, id)'
    <3>1. Tells(out', q, Endings, id) \/ (q = s /\ r.action = "cancel_join")
      BY <1>1, <1>3, <1>4, <2>1, <2>3, ServedTells
    <3> QED BY <1>6, <1>7, <3>1
  <2> QED BY <2>2, <2>3
<1>10. ASSUME NEW k, LetsIn(out', q, k)
       PROVE  out'[q][k].match \in lines /\ clients[q].outbox = << >>
  <2>1. PICK id : id = out'[q][k].match
    OBVIOUS
  <2>2. q = s /\ id \in DOMAIN matches' /\ WaitsFor(q, id)'
    BY <1>1, <1>3, <1>4, <1>10, <2>1, ServedLetsIn
  <2>3. id \in lines
    BY <2>2 DEF Lines
  <2> QED BY <1>6, <1>7, <2>1, <2>2, <2>3
<1>11. TellsTruly(out', q, clients[q], before, lines)
  <2> HIDE DEF before
  <2> QED BY <1>9, <1>10 DEF TellsTruly
<1> HIDE DEF before
<1> QED BY <1>1, <1>5, <1>8, <1>11, DeliveryKeepsPatient

LEMMA LoseKeepsPatient ==
  ASSUME AllTyped, AllTyped', AllPatient, NEW s \in Players, Lose(s),
         NEW q \in Players, Serving(q), q # s, NEW lines, lines = Lines(q)'
  PROVE  Patient(client'[q], lines)
<1> DEFINE before == Lines(q)
           more == DOMAIN matches'
           clients == [client EXCEPT ![s] = NewClient]
<1>1. /\ Next /\ [Next]_vars /\ TypeOK /\ TypeOK' /\ AllSound /\ AllSound'
      /\ out' \in Mailings(matches') /\ Connected(q) /\ Disconnect(s)
  BY ServerActs, StepIsMail DEF AllTyped, Serving, Lose
<1>2. client \in [Players -> Clients(more)]
  <2>1. DOMAIN matches \subseteq more
    BY <1>1, TableGrows
  <2>2. Clients(DOMAIN matches) \subseteq Clients(more)
    BY <2>1, ClientGrows
  <2> QED BY <2>2 DEF AllTyped, ClientsTyped
<1>3. clients \in [Players -> Clients(more)] /\ Deliver(clients) /\ clients[q] = client[q]
  BY <1>2, NewClientType DEF Lose
<1> HIDE DEF clients
<1>4. Patient(clients[q], before)
  BY <1>3 DEF AllPatient
<1>5. ASSUME NEW id \in before
      PROVE  id \in lines \/ Tells(out', q, Endings, id)
  <2>1. id \in DOMAIN matches /\ id \in more /\ WaitsFor(q, id) /\ Sound(matches[id])
    BY <1>1, <1>5, TableGrows DEF Lines, AllSound
  <2>2. Keep(id) \/ Clean(s, id)
    BY <1>1, <2>1, SessionEffect DEF Session
  <2>3. CASE WaitsFor(q, id)'
    BY <2>1, <2>3 DEF Lines
  <2>4. CASE ~WaitsFor(q, id)'
    BY <1>1, <2>1, <2>2, <2>4, WaiterFields, CleanDropsNobodyElse
  <2> QED BY <2>3, <2>4
<1>6. \A k : ~LetsIn(out', q, k)
  <2>1. Mute(out', {"join_match"})
    BY <1>1, MuteDisconnection DEF News
  <2> QED BY <2>1, MuteLetsNobodyIn
<1>7. TellsTruly(out', q, clients[q], before, lines)
  <2> HIDE DEF before
  <2> QED BY <1>5, <1>6 DEF TellsTruly
<1> HIDE DEF before
<1> QED BY <1>1, <1>3, <1>4, <1>7, DeliveryKeepsPatient

LEMMA ServerStepKeepsPatient ==
  ASSUME AllTyped, AllTyped', AllCame, AllPatient,
         NEW s \in Players, Open(s) \/ Serve(s) \/ Lose(s) \/ Mark(s),
         NEW q \in Players, Serving(q)', NEW lines, lines = Lines(q)'
  PROVE  Patient(client'[q], lines)
<1>1. /\ Next /\ TypeOK /\ client \in [Players -> Clients(DOMAIN matches)]
  BY ServerActs DEF AllTyped, ClientsTyped
<1>2. CASE Open(s) /\ s = q
  <2>1. client[s] = NewClient
    BY <1>2 DEF Open, Connect, AllCame
  <2>2. client'[q] = sendMessage(NewClient, createRequestMessage("register", 0, 0))
    BY <1>1, <1>2, <2>1 DEF Open
  <2> QED BY <2>2, OpenedIsPatient
<1>3. CASE Open(s) /\ s # q
  <2>1. matches' = matches /\ client'[q] = client[q]
    BY <1>1, <1>3 DEF Open, Connect
  <2>2. Serving(q)
    BY <1>1, <1>3 DEF Open, Connect, Serving, Connected, TypeOK
  <2>3. lines = Lines(q)
    BY <2>1 DEF Lines, WaitsFor
  <2> QED BY <2>1, <2>2, <2>3 DEF AllPatient
<1>4. CASE Mark(s)
  <2>1. matches' = matches /\ client' = client
    BY <1>4 DEF Mark, MarkDisconnected
  <2>2. Serving(q)
    BY <1>1, <1>4, ServedBefore DEF Mark
  <2>3. lines = Lines(q)
    BY <2>1 DEF Lines, WaitsFor
  <2> QED BY <2>1, <2>2, <2>3 DEF AllPatient
<1>5. CASE Serve(s)
  <2> DEFINE r == Head(client[s].outbox)
  <2>1. r \in Errands /\ Handler(s, r)
    BY <1>1, <1>5, OutboxShrinks DEF Serve
  <2> HIDE DEF r
  <2>2. Serving(q)
    BY <1>1, <2>1, ServedIsHandled, ServedBefore
  <2> QED BY <1>5, <2>2, ServeKeepsPatient
<1>6. CASE Lose(s)
  <2>1. Serving(q)
    BY <1>1, <1>6, ServedBefore DEF Lose
  <2>2. q # s
    <3>1. leaving' = leaving \cup {s}
      BY <1>6 DEF Lose, Disconnect
    <3> QED BY <3>1 DEF Serving
  <2> QED BY <1>6, <2>1, <2>2, LoseKeepsPatient
<1> QED BY <1>2, <1>3, <1>4, <1>5, <1>6

LEMMA StepPreservesPatient ==
  ASSUME AllTyped, AllTyped', AllCame, AllPatient, [PromptNext]_allVars
  PROVE  AllPatient'
<1> SUFFICES ASSUME NEW q \in Players, Serving(q)', NEW lines, lines = Lines(q)'
             PROVE  Patient(client'[q], lines)
  BY DEF AllPatient
<1>1. ASSUME UNCHANGED vars
      PROVE  Serving(q) /\ lines = Lines(q)
  BY <1>1 DEF vars, Serving, Connected, Lines, WaitsFor
<1>2. CASE UNCHANGED allVars
  BY <1>1, <1>2 DEF allVars, AllPatient
<1>3. ASSUME NEW s \in Players, Open(s) \/ Serve(s) \/ Lose(s) \/ Mark(s)
      PROVE  Patient(client'[q], lines)
  BY <1>3, ServerStepKeepsPatient
<1>4. DOMAIN matches \in SUBSET MatchIds /\ client \in [Players -> Clients(DOMAIN matches)]
  BY DEF AllTyped, ClientsTyped
<1>5. ASSUME NEW p \in Players, HandleMessage(p)
      PROVE  Patient(client'[q], lines)
  <2>1. Serving(q) /\ lines = Lines(q) /\ client[q] \in Clients(DOMAIN matches)
    BY <1>1, <1>4, <1>5 DEF HandleMessage
  <2>2. Patient(client[q], lines)
    BY <2>1 DEF AllPatient
  <2>3. CASE p # q
    BY <1>4, <1>5, <2>2, <2>3 DEF HandleMessage
  <2>4. CASE p = q
    <3>1. client'[q] = handleMessage(client[q], q) /\ client[q].inbox # << >>
      BY <1>4, <1>5, <2>4 DEF HandleMessage
    <3>2. Patient(handleMessage(client[q], q), lines)
      BY <1>4, <2>1, <2>2, <3>1, PatientHandled
    <3> QED BY <3>1, <3>2
  <2> QED BY <2>3, <2>4
<1>6. ASSUME NEW p \in Players, Caught(p), User(p)
      PROVE  Patient(client'[q], lines)
  <2>1. UNCHANGED vars
    BY <1>6 DEF User, ClickCreate, ClickCancel, ClickLeave, ClickJoin, ClickColumn,
                AnswerDialog, Acts
  <2>2. Serving(q) /\ lines = Lines(q)
    BY <1>1, <2>1
  <2>3. Patient(client[q], lines)
    BY <2>2 DEF AllPatient
  <2>4. PICK after : client' = [client EXCEPT ![p] = after] /\ ActsOnce(client[p], after)
    BY <1>4, <1>6, UserActsOnce
  <2>5. CASE p # q
    BY <1>4, <2>3, <2>4, <2>5
  <2>6. CASE p = q
    <3>1. client'[q] = after /\ client[q].inbox = << >> /\ ActsOnce(client[q], after)
      BY <1>4, <1>6, <2>4, <2>6 DEF Caught
    <3>2. Patient(after, lines)
      BY <2>3, <3>1, PatientActs
    <3> QED BY <3>1, <3>2
  <2> QED BY <2>5, <2>6
<1> QED BY <1>2, <1>3, <1>5, <1>6 DEF PromptNext

\* A prompt user is a user.
LEMMA PromptIsSystem == [PromptNext]_allVars => [SystemNext]_allVars
BY DEF PromptNext, SystemNext

LEMMA PatientIsHeard ==
  ASSUME AllTyped, AllPatient
  PROVE  NobodyWaitsInVain
<1> SUFFICES ASSUME NEW p \in Players, Serving(p), client[p].matchState = "JOIN_PENDING"
             PROVE  LET c  == client[p]
                        id == c.currentMatchId
                    IN  \/ matches[id].state = "JOIN_PENDING"
                             /\ p \in {matches[id].pending_requester_id} \cup ToSet(matches[id].join_queue)
                        \/ About(c.inbox, {"match_started", "join_request_rejected",
                                           "join_request_obsolete"}, id)
                        \/ \E k \in DOMAIN c.dialogs : c.dialogs[k].kind = "lobby"
  BY DEF NobodyWaitsInVain
<1> DEFINE c == client[p]
           id == c.currentMatchId
<1>1. \/ id \in Lines(p)
      \/ Hears(c, 0, id)
      \/ \E d \in ToSet(c.dialogs) : d.kind = "lobby"
  BY DEF AllPatient, Patient
<1>2. id \in Lines(p) => /\ matches[id].state = "JOIN_PENDING"
                         /\ p \in {matches[id].pending_requester_id} \cup ToSet(matches[id].join_queue)
  BY DEF Lines, WaitsFor, Waiters
<1>3. Hears(c, 0, id) => About(c.inbox, {"match_started", "join_request_rejected",
                                         "join_request_obsolete"}, id)
  BY DEF Hears, About, Endings
<1>4. (\E d \in ToSet(c.dialogs) : d.kind = "lobby") =>
        \E k \in DOMAIN c.dialogs : c.dialogs[k].kind = "lobby"
  BY DEF ToSet
<1> QED BY <1>1, <1>2, <1>3, <1>4

\* A client on the waiting screen stands in the line of the match it waits for, or
\* is about to learn what became of its request (NobodyWaitsInVain), as long as
\* its user does nothing more while an answer is on its way: whatever the others
\* do, whichever requests cross, and whoever is lost (PROMOTE, REJECT_JOIN,
\* ACCEPT_JOIN, QUIT_MATCH and client_thread_handler in main.c, handleResponse and
\* handleNotification in GameController).
THEOREM WaitingIsNotInVain == PromptSystem => []NobodyWaitsInVain
<1>1. PromptSystem => System
  BY PromptIsSystem, PTL DEF PromptSystem, System
<1>2. SystemInit => AllCame /\ AllPatient
  <2>1. SystemInit => AllCame
    BY DEF SystemInit, Init, AllCame
  <2>2. SystemInit => AllPatient
    BY NewIsPatient DEF SystemInit, AllPatient
  <2> QED BY <2>1, <2>2
<1>3. AllTyped /\ AllTyped' /\ (AllCame /\ AllPatient) /\ [PromptNext]_allVars =>
        (AllCame /\ AllPatient)'
  BY StepPreservesCame, StepPreservesPatient, PromptIsSystem
<1>4. AllTyped /\ AllPatient => NobodyWaitsInVain
  BY PatientIsHeard
<1> QED BY <1>1, <1>2, <1>3, <1>4, AllInvariant, PTL DEF PromptSystem

-----------------------------------------------------------------------------
(* What a client is sent about its match, letter by letter.                *)

Carries(o, q, l) == \E k \in DOMAIN o[q] : o[q][k] = l

LEMMA SendCarries ==
  ASSUME NEW recipients, NEW msg, NEW q \in Players, NEW l
  PROVE  Carries(Send(recipients, msg), q, l) <=> l = msg /\ q \in recipients /\ Connected(q)
<1>1. DOMAIN << >> = {} /\ DOMAIN <<msg>> = {1} /\ <<msg>>[1] = msg
  OBVIOUS
<1>2. CASE q \in recipients /\ Connected(q)
  <2>1. Send(recipients, msg)[q] = <<msg>>
    BY <1>2 DEF Send
  <2> QED BY <1>1, <1>2, <2>1 DEF Carries
<1>3. CASE ~(q \in recipients /\ Connected(q))
  <2>1. Send(recipients, msg)[q] = << >>
    BY <1>3 DEF Send
  <2> QED BY <1>1, <1>3, <2>1 DEF Carries
<1> QED BY <1>2, <1>3

LEMMA BothCarry ==
  ASSUME NEW a \in Outboxes, NEW b \in Outboxes, NEW q \in Players, NEW l
  PROVE  Carries(a ++ b, q, l) <=> Carries(a, q, l) \/ Carries(b, q, l)
<1> DEFINE s == a[q]
           t == b[q]
<1>1. s \in Seq(Messages) /\ t \in Seq(Messages) /\ (a ++ b)[q] = s \o t
  BY DEF Outboxes, ++
<1> HIDE DEF s, t
<1>2. ASSUME NEW k \in DOMAIN (s \o t)
      PROVE  \/ k \in DOMAIN s /\ (s \o t)[k] = s[k]
             \/ \E j \in DOMAIN t : (s \o t)[k] = t[j]
  BY <1>1, <1>2, ConcatAt
<1>3. ASSUME NEW k \in DOMAIN s PROVE k \in DOMAIN (s \o t) /\ (s \o t)[k] = s[k]
  BY <1>1, ConcatProperties
<1>4. ASSUME NEW k \in DOMAIN t
      PROVE  Len(s) + k \in DOMAIN (s \o t) /\ (s \o t)[Len(s) + k] = t[k]
  BY <1>1, ConcatProperties
<1>5. Carries(a ++ b, q, l) <=> \E k \in DOMAIN (s \o t) : (s \o t)[k] = l
  BY <1>1 DEF Carries
<1>6. /\ Carries(a, q, l) <=> \E k \in DOMAIN s : s[k] = l
      /\ Carries(b, q, l) <=> \E k \in DOMAIN t : t[k] = l
  BY DEF Carries, s, t
<1> QED BY <1>2, <1>3, <1>4, <1>5, <1>6

LEMMA MuteCarries ==
  ASSUME NEW names, NEW o, Mute(o, names), NEW q \in Players, NEW l, Carries(o, q, l)
  PROVE  l.action \notin names
<1>1. l.action \in names => Tells(o, q, names, l.match)
  BY DEF Carries, Tells
<1> QED BY <1>1 DEF Mute

\* The messages that make the client wait in a match of its own, show a game
\* that begins, a move of it, or its end; and those after which it shows no more
\* what it showed before.
Opens(msg) ==
  /\ msg.type = "RESPONSE"
  /\ \/ msg.action = "create_match" /\ msg.detail \in Statuses
     \/ msg.action = "rematch" /\ msg.detail = "new_session"

Starts(msg) == msg.action = "match_started"

Moves(msg) == msg.type = "NOTIFICATION" /\ msg.action = "move"

Finishes(msg) ==
  /\ msg.type = "NOTIFICATION"
  /\ msg.action = "opponent_left" \/ (msg.action = "move" /\ msg.detail # "ok")

Diverts(msg) == Opens(msg) \/ Entered(msg) \/ Starts(msg) \/ Finishes(msg)

Tidings(msg) == Opens(msg) \/ Starts(msg) \/ Moves(msg)

LEMMA MuteBringsNoTidings ==
  ASSUME NEW o, Mute(o, News \ {"join_match"}), NEW q \in Players, NEW l, Carries(o, q, l)
  PROVE  ~Tidings(l)
<1>1. l.action \notin News \ {"join_match"}
  BY MuteCarries
<1> QED BY <1>1 DEF Tidings, Opens, Starts, Moves, News

-----------------------------------------------------------------------------
(* Where a player stands in a match of the table.                          *)

\* q waits in match id of his own; plays in it; it is closed for good; q plays
\* in it, or did when it was closed.
Owns(table, q, id) ==
  /\ table[id].state \in {"WAITING_FOR_OPPONENT", "JOIN_PENDING"}
  /\ table[id].creator_id = q

Plays(table, q, id) == table[id].state = "ACTIVE" /\ is_player_in_match(table[id], q)

Dead(table, id) == table[id].state = "ABANDONED" /\ table[id].pending_requester_id = NoPlayer

Stuck(table, q, id) ==
  is_player_in_match(table[id], q) /\ (table[id].state = "ACTIVE" \/ Dead(table, id))

\* What serving one request does to a match: only quit_match leaves it.
LEMMA HandlerEffect ==
  ASSUME TypeOK, NEW s \in Players, NEW r \in Errands, Handler(s, r), NEW id \in DOMAIN matches
  PROVE  \/ Keep(id)
         \/ AskFirst(s, id) \/ Queue(s, id) \/ TakeOver(s, id) \/ Replay(s, id) \/ Vote(s, id)
         \/ \E column \in Columns : Drop(s, id, column)
         \/ r.action = "quit_match" /\ Quit(s, id)
         \/ AnswerDone(s, id)
<1>0. matches \in Seq(Matches)
  BY DEF TypeOK
<1>1. r.column \in Columns
  BY BoardAssumption DEF Errands, Requests, Columns
<1> DEFINE i == r.match
           column == r.column
<1>2. CASE Register(s)
  BY <1>2 DEF Register, Keep
<1>3. CASE CreateMatch(s)
  <2>1. matches'[id] = matches[id]
    BY <1>0, <1>3 DEF CreateMatch, Fails
  <2> QED BY <1>3, <2>1 DEF CreateMatch, Keep
<1> HIDE DEF i, column
<1>4. CASE JoinMatch(s, i)
  BY <1>0, <1>4 DEF JoinMatch, Fails, Found, Keep, AskFirst, Queue
<1>5. CASE Move(s, i, column)
  BY <1>0, <1>1, <1>5 DEF Move, Fails, Found, Keep, Drop, column
<1>6. CASE Rematch(s, i)
  BY <1>0, <1>6 DEF Rematch, Fails, MayRematch, Found, Keep, TakeOver, Replay, Vote
<1>7. CASE QuitMatch(s, i) /\ r.action = "quit_match"
  BY <1>0, <1>7 DEF QuitMatch, Found, Keep, Quit
<1>8. CASE r.action \in {"accept_join", "reject_join", "cancel_join"}
  <2>1. i \in MatchIds
    BY <1>8 DEF Errands, i
  <2>2. Answer(s, i)
    BY <1>8 DEF Handler, Answer, i
  <2> QED BY <2>1, <2>2, AnswerEffect
<1> QED BY <1>2, <1>3, <1>4, <1>5, <1>6, <1>7, <1>8 DEF Handler, i, column

LEMMA KeptTurn ==
  ASSUME TypeOK, NEW id \in DOMAIN matches, Keep(id)
  PROVE  matches'[id].current_turn = matches[id].current_turn
<1>1. matches[id] \in Matches
  BY DEF TypeOK
<1> QED BY <1>1 DEF Keep, Matches

LEMMA RemovedTurn ==
  ASSUME NEW m \in Matches, NEW p
  PROVE  remove_from_join_queue(m, p).current_turn = m.current_turn
<1> DEFINE n == [m EXCEPT !.join_queue = RemoveAt(@, QueuePosition(m, p))]
<1>1. n.current_turn = m.current_turn
  BY DEF Matches
<1>2. remove_from_join_queue(m, p) \in {m, n}
  BY DEF remove_from_join_queue
<1> HIDE DEF n
<1> QED BY <1>1, <1>2

LEMMA OpenFields ==
  ASSUME TypeOK, AllSound, NEW id \in DOMAIN matches, NEW q \in Players, Owns(matches, q, id)
  PROVE  LET m == matches[id]
         IN  /\ m \in Matches /\ id \in Nat /\ Sound(m) /\ OwnerPlaysFirst(m)
             /\ m.player2_id = NoPlayer /\ m.player1_id = q
             /\ m.state \in {"WAITING_FOR_OPPONENT", "JOIN_PENDING"}
             /\ \A p \in Players : is_player_in_match(m, p) => p = q
<1> DEFINE m == matches[id]
<1>1. m \in Matches /\ id \in Nat /\ Sound(m)
  BY DEF TypeOK, AllSound
<1>2. OwnerPlaysFirst(m) /\ m.player2_id = NoPlayer /\ m.player1_id = q
  BY <1>1 DEF Sound, SeatsMatchState, OwnerPlaysFirst, Owns
<1> QED BY <1>1, <1>2, MatchAssumption DEF is_player_in_match, Owns

\* An open match stays its owner's until a game begins, which he is told, or he
\* leaves it himself (ACCEPT_JOIN, REJECT_JOIN, CANCEL_JOIN, JOIN_MATCH).
LEMMA OwnerStays ==
  ASSUME TypeOK, AllSound, NEW s \in Players, NEW r \in Errands, Handler(s, r),
         NEW id \in DOMAIN matches, NEW q \in Players, Connected(q), Owns(matches, q, id)
  PROVE  \/ Owns(matches', q, id)
         \/ Tells(out', q, {"match_started"}, id)
         \/ q = s /\ r.action = "quit_match"
<1> DEFINE m == matches[id]
           n == matches'[id]
<1>1. /\ m \in Matches /\ id \in Nat /\ Sound(m) /\ OwnerPlaysFirst(m)
      /\ m.player2_id = NoPlayer /\ m.player1_id = q
      /\ m.state \in {"WAITING_FOR_OPPONENT", "JOIN_PENDING"} /\ m.creator_id = q
      /\ \A p \in Players : is_player_in_match(m, p) => p = q
  BY OpenFields DEF Owns
<1> SUFFICES ASSUME ~(q = s /\ r.action = "quit_match"), ~Tells(out', q, {"match_started"}, id)
             PROVE  Owns(matches', q, id)
  OBVIOUS
<1>2. CASE Keep(id)
  <2>1. SameSeats(m, n) /\ n.state = m.state
    BY <1>2, KeptFields
  <2> QED BY <1>1, <2>1 DEF SameSeats, Owns
<1>3. CASE AskFirst(s, id) \/ Queue(s, id)
  <2>1. SameSeats(m, n) /\ n.state \in {m.state, "JOIN_PENDING"}
    BY <1>1, <1>3, RequestFields DEF AskFirst, Queue
  <2> QED BY <1>1, <2>1 DEF SameSeats, Owns
<1>4. ~TakeOver(s, id) /\ ~Replay(s, id) /\ ~Vote(s, id)
  BY <1>1 DEF TakeOver, Replay, Vote, MayRematch
<1>5. ASSUME NEW column \in Columns, Drop(s, id, column) PROVE FALSE
  BY <1>1, <1>5, PlayedFields DEF Drop
<1>6. ~(r.action = "quit_match" /\ Quit(s, id))
  BY <1>1 DEF Quit
<1>7. CASE Accept(s, id)
  BY <1>1, <1>7, AcceptanceTells
<1>8. CASE Refuse(s, id) \/ Withdraw(s, id)
  <2>1. Promotes(m, n)
    BY <1>1, <1>8, DecisionFields DEF Refuse, Withdraw
  <2> QED BY <1>1, <2>1 DEF Promotes, SameSeats, Owns
<1>9. CASE LeaveQueue(s, id)
  <2>1. SameSeats(m, n) /\ n.state = m.state
    BY <1>1, <1>9, RemovedFields DEF LeaveQueue
  <2> QED BY <1>1, <2>1 DEF SameSeats, Owns
<1> QED BY <1>2, <1>3, <1>4, <1>5, <1>6, <1>7, <1>8, <1>9, HandlerEffect DEF AnswerDone

\* The same when another is lost.
LEMMA OwnerStaysBehind ==
  ASSUME TypeOK, AllSound, NEW s \in Players, Disconnect(s),
         NEW id \in DOMAIN matches, NEW q \in Players, q # s, Owns(matches, q, id)
  PROVE  Owns(matches', q, id)
<1> DEFINE m == matches[id]
           n == matches'[id]
           o == CleanUpMessages(m, s, id)
<1>1. /\ m \in Matches /\ id \in Nat /\ OwnerPlaysFirst(m)
      /\ m.state \in {"WAITING_FOR_OPPONENT", "JOIN_PENDING"} /\ m.creator_id = q
      /\ \A p \in Players : is_player_in_match(m, p) => p = q
  BY OpenFields DEF Owns
<1>2. n = CleanUp(m, s)
  BY DEF Disconnect
<1>3. ~CleanSeat(m, s, id, n, o)
  BY <1>1 DEF CleanSeat
<1>4. CASE CleanRequest(m, s, id, n, o)
  <2>1. Promotes(m, n)
    BY <1>1, <1>4, PromoteFields DEF CleanRequest
  <2> QED BY <1>1, <2>1 DEF Promotes, SameSeats, Owns
<1>5. CASE CleanQueue(m, s, n)
  <2>1. SameSeats(m, n) /\ n.state = m.state
    BY <1>1, <1>5, RemovedFields DEF CleanQueue
  <2> QED BY <1>1, <2>1 DEF SameSeats, Owns
<1>6. CASE n = m
  BY <1>1, <1>6 DEF Owns
<1> QED BY <1>1, <1>2, <1>3, <1>4, <1>5, <1>6, CleanUpCases

\* A match that is closed for good stays so.
LEMMA DeadStays ==
  ASSUME TypeOK, AllSound, [Next]_vars, NEW id \in DOMAIN matches, Dead(matches, id)
  PROVE  Dead(matches', id) /\ SameSeats(matches[id], matches'[id])
<1> DEFINE m == matches[id]
           n == matches'[id]
           Stays == SameSeats(m, n) /\ n.state = "ABANDONED" /\ n.pending_requester_id = NoPlayer
<1>1. /\ m \in Matches /\ id \in Nat /\ Sound(m) /\ OwnerPlaysFirst(m)
      /\ m.state = "ABANDONED" /\ m.pending_requester_id = NoPlayer
  BY DEF TypeOK, AllSound, Dead, Sound
<1>2. Keep(id) => Stays
  BY <1>1, KeptFields DEF SameRequests
<1>3. ASSUME NEW p \in Players, RequestDone(p, id) PROVE Stays
  <2>1. /\ ~AskFirst(p, id) /\ ~Queue(p, id) /\ ~TakeOver(p, id) /\ ~Replay(p, id)
        /\ ~Vote(p, id)
    BY <1>1 DEF AskFirst, Queue, MayAsk, TakeOver, Replay, MayRematch, Vote
  <2>2. ASSUME NEW column \in Columns, Drop(p, id, column) PROVE FALSE
    BY <1>1, <2>2, PlayedFields DEF Drop
  <2>3. Quit(p, id)
    BY <1>3, <2>1, <2>2 DEF RequestDone
  <2> QED BY <1>1, <2>3, LeftFields DEF Quit, SameRequests
<1>4. ASSUME NEW p \in Players, AnswerDone(p, id) PROVE Stays
  <2>1. LeaveQueue(p, id)
    BY <1>1, <1>4, MatchAssumption DEF AnswerDone, Accept, Refuse, Withdraw
  <2> QED BY <1>1, <2>1, RemovedFields DEF LeaveQueue
<1>5. ASSUME NEW p \in Players, Clean(p, id) PROVE Stays
  <2>1. n = CleanUp(m, p)
    BY <1>5 DEF Clean
  <2>2. n = m
    BY <1>1, <2>1, CleanUpCases DEF CleanSeat, CleanRequest, CleanQueue
  <2> QED BY <1>1, <2>2 DEF SameSeats
<1> HIDE DEF Stays
<1>6. Stays
  BY <1>2, <1>3, <1>4, <1>5, StepEffect
<1> QED BY <1>6 DEF Stays, Dead

\* A player keeps his seat in a running game; the turn passes only with a move
\* he is told of, and the game ends with one, or is closed for good.
LEMMA PlayerStays ==
  ASSUME TypeOK, AllSound, [Next]_vars, NEW id \in DOMAIN matches,
         NEW q \in Players, Connected(q), Plays(matches, q, id)
  PROVE  LET m == matches[id]
             n == matches'[id]
         IN  /\ SameSeats(m, n)
             /\ \/ /\ n.state = "ACTIVE"
                   /\ \/ n.current_turn = m.current_turn
                      \/ \E l : Carries(out', q, l) /\ Moves(l)
                \/ Dead(matches', id)
                \/ \E l : Carries(out', q, l) /\ Moves(l) /\ Finishes(l)
<1> DEFINE m == matches[id]
           n == matches'[id]
           Told(l) == Carries(out', q, l) /\ Moves(l)
           Goes ==
             /\ SameSeats(m, n)
             /\ \/ n.state = "ACTIVE" /\ n.current_turn = m.current_turn
                \/ n.state = "ACTIVE" /\ \E l : Told(l)
                \/ n.state = "ABANDONED" /\ n.pending_requester_id = NoPlayer
                \/ \E l : Told(l) /\ Finishes(l)
<1>1. /\ m \in Matches /\ id \in Nat /\ Sound(m) /\ OwnerPlaysFirst(m) /\ m.state = "ACTIVE"
      /\ is_player_in_match(m, q) /\ m.pending_requester_id = NoPlayer
  BY NoDecision DEF TypeOK, AllSound, Plays, Sound
<1>2. Keep(id) => Goes
  BY <1>1, KeptFields, KeptTurn
<1>3. ASSUME n = Left(m, q) \/ \E p : n = Left(m, p) PROVE Goes
  BY <1>1, <1>3, LeftFields DEF SameRequests
<1>4. ASSUME NEW p \in Players, NEW column \in Columns, Drop(p, id, column) PROVE Goes
  <2> DEFINE result == MoveResult(m, p, column)
             l == Notification("move", id, result)
             a == IF result = "ok" THEN Silence ELSE Unavailable(id, m.player1_id, m.player2_id)
             b == Send({m.player1_id, m.player2_id}, l)
  <2>1. out' = a ++ b /\ result \in Accepted /\ n = Played(m, p, column)
    BY <1>4 DEF Drop
  <2>2. /\ SameSeats(m, n) /\ n.state = IF result = "ok" THEN "ACTIVE" ELSE "FINISHED"
    BY <1>1, <2>1, PlayedFields
  <2>3. result \in Details /\ "move" \in Actions
    BY <2>1 DEF Accepted, Details, Words, Actions
  <2>4. l.type = "NOTIFICATION" /\ l.action = "move" /\ l.detail = result
    BY DEF Notification
  <2> HIDE DEF result
  <2>5. a \in Outboxes /\ b \in Outboxes
    BY <1>1, <2>3, AnnouncementTypes, SilenceType, NotifyType
  <2>6. Carries(b, q, l)
    <3>1. q \in {m.player1_id, m.player2_id}
      BY <1>1 DEF is_player_in_match
    <3> HIDE DEF l
    <3> QED BY <3>1, SendCarries
  <2> HIDE DEF a, b, l
  <2>7. Carries(out', q, l)
    BY <2>1, <2>5, <2>6, BothCarry
  <2>8. Told(l) /\ (result # "ok" => Finishes(l))
    BY <2>4, <2>7 DEF Moves, Finishes
  <2> HIDE DEF Told
  <2> QED BY <2>2, <2>8
<1>5. ASSUME NEW p \in Players, RequestDone(p, id) PROVE Goes
  <2>1. /\ ~AskFirst(p, id) /\ ~Queue(p, id) /\ ~TakeOver(p, id) /\ ~Replay(p, id)
        /\ ~Vote(p, id)
    BY <1>1 DEF AskFirst, Queue, MayAsk, TakeOver, Replay, MayRematch, Vote
  <2>2. Quit(p, id) => Goes
    BY <1>3 DEF Quit
  <2> HIDE DEF Goes
  <2> QED BY <1>4, <1>5, <2>1, <2>2 DEF RequestDone
<1>6. ASSUME NEW p \in Players, AnswerDone(p, id) PROVE Goes
  <2>1. LeaveQueue(p, id)
    BY <1>1, <1>6, MatchAssumption DEF AnswerDone, Accept, Refuse, Withdraw
  <2> QED BY <1>1, <2>1, RemovedFields, RemovedTurn DEF LeaveQueue
<1>7. ASSUME NEW p \in Players, Clean(p, id) PROVE Goes
  <2>1. n = CleanUp(m, p)
    BY <1>7 DEF Clean
  <2>2. n = Left(m, p) \/ n = m
    BY <1>1, <2>1, CleanUpCases DEF CleanSeat, CleanRequest, CleanQueue
  <2> QED BY <1>1, <1>3, <2>2 DEF SameSeats
<1> HIDE DEF Goes
<1>8. Goes
  BY <1>2, <1>5, <1>6, <1>7, StepEffect
<1> QED BY <1>8 DEF Goes, Dead

-----------------------------------------------------------------------------
(* What a client is told about its match is true.                          *)

\* q's letters about a match that opens, a game that begins or a move are all
\* about match g, and after the step it is as they say; the first only go to s.
TruthOf(q, s, g) ==
  \A l : Carries(out', q, l) =>
    /\ Tidings(l) => l.match = g /\ g \in DOMAIN matches'
    /\ Opens(l) => q = s /\ Owns(matches', q, g)
    /\ Starts(l) => Plays(matches', q, g)
    /\ Moves(l) => Finishes(l) \/ Stuck(matches', q, g)

LEMMA NoTidings ==
  ASSUME Mute(out', News \ {"join_match"}), NEW q \in Players, NEW s
  PROVE  \E g : TruthOf(q, s, g)
BY MuteBringsNoTidings DEF TruthOf, Tidings

LEMMA CreateIsTrue ==
  ASSUME TypeOK, TypeOK', NEW s \in Players, CreateMatch(s), NEW q \in Players
  PROVE  \E g : TruthOf(q, s, g)
<1>1. matches \in Seq(Matches) /\ DOMAIN matches = 1 .. Len(matches) /\ Len(matches) \in Nat
  BY DEF TypeOK
<1>2. CASE Fails(s, "create_match", 0, "error")
  <2> DEFINE r == Response("create_match", 0, "error")
  <2>1. r.type = "RESPONSE" /\ r.action = "create_match" /\ r.detail = "error"
    BY DEF Response
  <2>2. ~Tidings(r)
    BY <2>1 DEF Tidings, Opens, Starts, Moves, Statuses
  <2>3. out' = Send({s}, r)
    BY <1>2 DEF Fails
  <2> HIDE DEF r
  <2> QED BY <2>2, <2>3, SendCarries DEF TruthOf, Tidings
<1>3. CASE /\ matches' = Append(matches, create_match(s))
           /\ out' = Send({s}, Response("create_match", Len(matches'), "ok"))
  <2> DEFINE g == Len(matches')
             r == Response("create_match", g, "ok")
  <2>1. g \in DOMAIN matches' /\ matches'[g] = create_match(s)
    BY <1>1, <1>3
  <2>2. Owns(matches', s, g)
    BY <2>1 DEF create_match, Owns
  <2>3. r.type = "RESPONSE" /\ r.action = "create_match" /\ r.match = g
    BY DEF Response
  <2>4. ~Starts(r) /\ ~Moves(r)
    BY <2>3 DEF Starts, Moves
  <2>5. out' = Send({s}, r)
    BY <1>3
  <2> HIDE DEF r, g
  <2>6. \A l : Carries(out', q, l) => l = r /\ q = s
    BY <2>5, SendCarries
  <2>7. TruthOf(q, s, g)
    BY <2>1, <2>2, <2>3, <2>4, <2>6 DEF TruthOf
  <2> QED BY <2>7
<1> QED BY <1>2, <1>3 DEF CreateMatch

LEMMA JoinIsTrue ==
  ASSUME TypeOK, TypeOK', NEW s \in Players, NEW i \in MatchIds, JoinMatch(s, i), NEW q \in Players
  PROVE  \E g : TruthOf(q, s, g)
<1> DEFINE names == News \ {"join_match"}
<1>0. matches \in Seq(Matches) /\ i \in Nat /\ names \in SUBSET News
  BY ServerAssumption DEF TypeOK, MatchIds
<1>1. "join_match" \notin names /\ "pending" \in Details /\ "join_match" \in Actions
  BY DEF Details, Words, Actions
<1> HIDE DEF names
<1>2. ASSUME NEW word PROVE Mute(Send({s}, Response("join_match", i, word)), names)
  BY <1>1, MuteNotice
<1>3. CASE /\ Found(i) /\ matches' = [matches EXCEPT ![i] = AskedFirst(@, s)]
           /\ out' = Send({s}, Response("join_match", i, "pending")) ++ Ask(matches'[i], i)
  <2>1. i \in DOMAIN matches' /\ matches'[i] \in Matches
    BY <1>0, <1>3 DEF Found, TypeOK
  <2>2. Ask(matches'[i], i) \in Outboxes /\ Mute(Ask(matches'[i], i), names)
    BY <1>0, <2>1, AnnouncementTypes, MuteAnnouncements
  <2>3. Send({s}, Response("join_match", i, "pending")) \in Outboxes
    BY <1>0, <1>1, NotifyType
  <2>4. Mute(out', names)
    BY <1>2, <1>3, <2>2, <2>3, MuteBoth
  <2> QED BY <2>4, NoTidings DEF names
<1>4. CASE \E word : out' = Send({s}, Response("join_match", i, word))
  <2>1. Mute(out', names)
    BY <1>2, <1>4
  <2> QED BY <2>1, NoTidings DEF names
<1> QED BY <1>3, <1>4 DEF JoinMatch, Fails

LEMMA AnswerIsTrue ==
  ASSUME TypeOK, TypeOK', AllSound, NEW s \in Players, NEW i \in MatchIds, Answer(s, i),
         NEW q \in Players
  PROVE  \E g : TruthOf(q, s, g)
<1>0. matches \in Seq(Matches) /\ i \in Nat
  BY ServerAssumption DEF TypeOK, MatchIds
<1>1. CASE ~(AcceptJoin(s, i) /\ HasRequestFor(s, i))
  <2>1. Mute(out', News \ {"join_match"})
    BY <1>1, MuteAnswer
  <2> QED BY <2>1, NoTidings
<1>2. CASE AcceptJoin(s, i) /\ HasRequestFor(s, i)
  <2> DEFINE m == matches[i]
             n == matches'[i]
             r == m.pending_requester_id
             a == Send({s}, Response("accept_join", i, "ok"))
             b == Send({m.player1_id}, Notification("match_started", i, r))
             c == Send({r}, Notification("match_started", i, m.player1_id))
             d == Send(ToSet(m.join_queue), Notification("join_request_obsolete", i, "started"))
             e == Unavailable(i, m.player1_id, r)
             Only == {"match_started"}
  <2>1. m \in Matches /\ Sound(m) /\ r # NoPlayer /\ i \in DOMAIN matches
    BY <1>0, <1>2 DEF HasRequestFor, Found, AllSound
  <2>2. out' = a ++ b ++ c ++ d ++ e
        /\ matches' = [matches EXCEPT ![i] = [Seated(m) EXCEPT !.join_queue = << >>]]
    BY <1>2 DEF AcceptJoin, NothingToDecide
  <2>3. /\ n = [Seated(m) EXCEPT !.join_queue = << >>] /\ i \in DOMAIN matches'
    BY <1>0, <2>1, <2>2
  <2>4. n.state = "ACTIVE" /\ n.player1_id = m.player1_id /\ n.player2_id = r
    BY <2>1, <2>3, AcceptedFields
  <2>5. r \in Details /\ m.player1_id \in Details
    BY <2>1 DEF Matches, Details
  <2>6. a \in Outboxes /\ b \in Outboxes /\ c \in Outboxes /\ d \in Outboxes /\ e \in Outboxes
    BY <1>0, <2>1, <2>5, NotifyType, AnnouncementTypes DEF Actions, Words, Details
  <2>7. /\ \A id : ~Tells(a, q, Only, id) /\ ~Tells(d, q, Only, id) /\ ~Tells(e, q, Only, id)
        /\ \A id : Tells(b, q, Only, id) => id = i /\ q = m.player1_id
        /\ \A id : Tells(c, q, Only, id) => id = i /\ q = r
    <3>1. ASSUME NEW recipients, NEW action, NEW detail, NEW id,
                 \/ Tells(Send(recipients, Notification(action, i, detail)), q, Only, id)
                 \/ Tells(Send(recipients, Response(action, i, detail)), q, Only, id)
          PROVE  q \in recipients /\ action \in Only /\ id = i
      BY <3>1, SendTellsOnly, NotificationFields
    <3> QED BY <3>1 DEF Unavailable
  <2> HIDE DEF a, b, c, d, e, Only
  <2>8. ASSUME NEW id, Tells(out', q, Only, id)
        PROVE  id = i /\ q \in {m.player1_id, r}
    <3>1. a ++ b \in Outboxes
      BY <2>6, BothType
    <3>2. a ++ b ++ c \in Outboxes
      BY <2>6, <3>1, BothType
    <3>3. a ++ b ++ c ++ d \in Outboxes
      BY <2>6, <3>2, BothType
    <3>4. Tells(a ++ b ++ c ++ d, q, Only, id)
      BY <2>2, <2>6, <2>7, <2>8, <3>3, BothTellOnly
    <3>5. Tells(a ++ b ++ c, q, Only, id)
      BY <2>6, <2>7, <3>2, <3>4, BothTellOnly
    <3>6. Tells(a ++ b, q, Only, id) \/ Tells(c, q, Only, id)
      BY <2>6, <3>1, <3>5, BothTellOnly
    <3>7. Tells(b, q, Only, id) \/ Tells(c, q, Only, id)
      BY <2>6, <2>7, <3>6, BothTellOnly
    <3> QED BY <2>7, <3>7
  <2>9. Mute(out', News \ Only)
    BY <1>2, MuteAnswer DEF Only
  <2>10. ASSUME NEW l, Carries(out', q, l)
         PROVE  /\ Tidings(l) => Starts(l) /\ l.match = i /\ q \in {m.player1_id, r}
                /\ ~Opens(l) /\ ~Moves(l)
    <3>1. l.action \notin News \ Only
      BY <2>9, <2>10, MuteCarries
    <3>2. ~Opens(l) /\ ~Moves(l)
      BY <3>1 DEF Opens, Moves, News, Only
    <3>3. Starts(l) => Tells(out', q, Only, l.match)
      BY <2>10 DEF Carries, Tells, Starts, Only
    <3> QED BY <2>8, <3>2, <3>3 DEF Tidings
  <2>11. q \in {m.player1_id, r} => Plays(matches', q, i)
    BY <2>4 DEF Plays, is_player_in_match
  <2>12. TruthOf(q, s, i)
    BY <2>3, <2>10, <2>11 DEF TruthOf, Tidings
  <2> QED BY <2>12
<1> QED BY <1>1, <1>2

LEMMA MoveIsTrue ==
  ASSUME TypeOK, TypeOK', NEW s \in Players, NEW i \in MatchIds, NEW column \in Columns,
         Move(s, i, column), NEW q \in Players
  PROVE  \E g : TruthOf(q, s, g)
<1>0. matches \in Seq(Matches) /\ i \in Nat
  BY ServerAssumption DEF TypeOK, MatchIds
<1>1. ASSUME NEW error, Fails(s, "move", i, error) PROVE \E g : TruthOf(q, s, g)
  <2> DEFINE r == Response("move", i, error)
  <2>1. r.type = "RESPONSE" /\ r.action = "move"
    BY DEF Response
  <2>2. ~Tidings(r)
    BY <2>1 DEF Tidings, Opens, Starts, Moves
  <2>3. out' = Send({s}, r)
    BY <1>1 DEF Fails
  <2> HIDE DEF r
  <2>4. \A l : Carries(out', q, l) => ~Tidings(l)
    BY <2>2, <2>3, SendCarries
  <2>5. TruthOf(q, s, i)
    BY <2>4 DEF TruthOf, Tidings
  <2> QED BY <2>5
<1>2. CASE Found(i) /\ Drop(s, i, column) /\ matches' = [matches EXCEPT ![i] = Played(@, s, column)]
  <2> DEFINE m == matches[i]
             n == matches'[i]
             result == MoveResult(m, s, column)
             seats == {m.player1_id, m.player2_id}
             r == Notification("move", i, result)
             a == IF result = "ok" THEN Silence ELSE Unavailable(i, m.player1_id, m.player2_id)
             b == Send(seats, r)
             names == News \ {"join_match"}
  <2>1. out' = a ++ b /\ result \in Accepted /\ n = Played(m, s, column)
    BY <1>2 DEF Drop
  <2>2. m \in Matches /\ i \in DOMAIN matches'
    BY <1>0, <1>2 DEF Found
  <2>3. SameSeats(m, n) /\ n.state = IF result = "ok" THEN "ACTIVE" ELSE "FINISHED"
    BY <2>1, <2>2, PlayedFields
  <2>4. result \in Details /\ "move" \in Actions
    BY <2>1 DEF Accepted, Details, Words, Actions
  <2>5. r.type = "NOTIFICATION" /\ r.action = "move" /\ r.match = i /\ r.detail = result
    BY DEF Notification
  <2> HIDE DEF result
  <2>6. a \in Outboxes /\ b \in Outboxes /\ Mute(a, names)
    BY <1>0, <2>2, <2>4, AnnouncementTypes, SilenceType, NotifyType, MuteSilence, MuteAnnouncements
  <2> HIDE DEF r, seats, names
  <2>7. \A l : Carries(b, q, l) => l = r /\ q \in seats
    BY SendCarries
  <2> HIDE DEF a, b
  <2>8. \A l : Carries(out', q, l) => ~Tidings(l) \/ (l = r /\ q \in seats)
    BY <2>1, <2>6, <2>7, BothCarry, MuteBringsNoTidings DEF names
  <2>9. ~Opens(r) /\ ~Starts(r) /\ (Finishes(r) \/ result = "ok")
    BY <2>5 DEF Opens, Starts, Finishes
  <2>10. result = "ok" /\ q \in seats => Stuck(matches', q, i)
    BY <2>3 DEF Stuck, is_player_in_match, SameSeats, seats
  <2>11. TruthOf(q, s, i)
    BY <2>2, <2>5, <2>8, <2>9, <2>10 DEF TruthOf, Tidings
  <2> QED BY <2>11
<1>3. \/ \E error : Fails(s, "move", i, error)
      \/ Found(i) /\ Drop(s, i, column) /\ matches' = [matches EXCEPT ![i] = Played(@, s, column)]
  BY <1>0 DEF Move, Drop, Found
<1> QED BY <1>1, <1>2, <1>3

LEMMA RematchIsTrue ==
  ASSUME TypeOK, TypeOK', NEW s \in Players, NEW i \in MatchIds, Rematch(s, i), NEW q \in Players
  PROVE  \E g : TruthOf(q, s, g)
<1>0. matches \in Seq(Matches) /\ i \in Nat
  BY ServerAssumption DEF TypeOK, MatchIds
<1>1. ASSUME NEW word, word # "new_session",
             NEW l, Carries(Send({s}, Response("rematch", i, word)), q, l)
      PROVE  ~Tidings(l)
  <2> DEFINE r == Response("rematch", i, word)
  <2>1. r.type = "RESPONSE" /\ r.action = "rematch" /\ r.detail = word
    BY DEF Response
  <2>2. ~Tidings(r)
    BY <1>1, <2>1 DEF Tidings, Opens, Starts, Moves
  <2> HIDE DEF r
  <2>3. l = r
    BY <1>1, SendCarries DEF r
  <2> QED BY <2>2, <2>3
<1>2. ASSUME NEW word \in {"error", "waiting_for_opponent_vote"},
             out' = Send({s}, Response("rematch", i, word))
      PROVE  \E g : TruthOf(q, s, g)
  BY <1>1, <1>2 DEF TruthOf, Tidings
<1>3. CASE /\ MayRematch(s, i) /\ matches' = [matches EXCEPT ![i] = open_new_session_as_owner(@, s)]
           /\ out' = Send({s}, Response("rematch", i, "new_session"))
  <2> DEFINE r == Response("rematch", i, "new_session")
  <2>1. /\ matches[i] \in Matches /\ i \in DOMAIN matches'
        /\ matches'[i] = open_new_session_as_owner(matches[i], s)
    BY <1>0, <1>3 DEF MayRematch, Found
  <2>2. Owns(matches', s, i)
    BY <2>1, SessionFields DEF Owns
  <2>3. r.type = "RESPONSE" /\ r.action = "rematch" /\ r.match = i
    BY DEF Response
  <2>4. ~Starts(r) /\ ~Moves(r)
    BY <2>3 DEF Starts, Moves
  <2>5. out' = Send({s}, r)
    BY <1>3
  <2> HIDE DEF r
  <2>6. \A l : Carries(out', q, l) => l = r /\ q = s
    BY <2>5, SendCarries
  <2>7. TruthOf(q, s, i)
    BY <2>1, <2>2, <2>3, <2>4, <2>6 DEF TruthOf
  <2> QED BY <2>7
<1>4. CASE /\ MayRematch(s, i) /\ matches' = [matches EXCEPT ![i] = reset_match_for_rematch(@)]
           /\ out' = Send({s}, Response("rematch", i, "ok")) ++ Started(matches'[i], i)
  <2> DEFINE n == matches'[i]
             b == Notification("match_started", i, n.player2_id)
             c == Notification("match_started", i, n.player1_id)
             as == Send({s}, Response("rematch", i, "ok"))
             bs == Send({n.player1_id}, b)
             cs == Send({n.player2_id}, c)
  <2>1. /\ matches[i] \in Matches /\ i \in DOMAIN matches' /\ n \in Matches
        /\ n = reset_match_for_rematch(matches[i])
    BY <1>0, <1>4 DEF MayRematch, Found, TypeOK
  <2>2. n.state = "ACTIVE"
    BY <2>1, SessionFields
  <2>3. n.player2_id \in Details /\ n.player1_id \in Details
    BY <2>1 DEF Matches, Details
  <2>4. as \in Outboxes /\ bs \in Outboxes /\ cs \in Outboxes
    BY <1>0, <2>3, NotifyType DEF Actions, Words, Details
  <2>5. out' = as ++ (bs ++ cs)
    BY <1>4 DEF Started
  <2>6. /\ b.type = "NOTIFICATION" /\ b.action = "match_started" /\ b.match = i
        /\ c.type = "NOTIFICATION" /\ c.action = "match_started" /\ c.match = i
    BY DEF Notification
  <2>7. ~Opens(b) /\ ~Moves(b) /\ ~Opens(c) /\ ~Moves(c)
    BY <2>6 DEF Opens, Moves
  <2> HIDE DEF b, c, n
  <2>8. \A l : Carries(as, q, l) => ~Tidings(l)
    BY <1>1
  <2>9. /\ \A l : Carries(bs, q, l) => l = b /\ q = n.player1_id
        /\ \A l : Carries(cs, q, l) => l = c /\ q = n.player2_id
    BY SendCarries
  <2> HIDE DEF as, bs, cs
  <2>10. bs ++ cs \in Outboxes
    BY <2>4, BothType
  <2>11. \A l : Carries(out', q, l) => Carries(as, q, l) \/ Carries(bs, q, l) \/ Carries(cs, q, l)
    BY <2>4, <2>5, <2>10, BothCarry
  <2>12. q \in {n.player1_id, n.player2_id} => Plays(matches', q, i)
    BY <2>2 DEF Plays, is_player_in_match, n
  <2>13. TruthOf(q, s, i)
    BY <2>1, <2>6, <2>7, <2>8, <2>9, <2>11, <2>12 DEF TruthOf, Tidings
  <2> QED BY <2>13
<1>5. CASE \E error \in {"error"} : Fails(s, "rematch", i, error)
  BY <1>2, <1>5 DEF Fails
<1> QED BY <1>2, <1>3, <1>4, <1>5 DEF Rematch

LEMMA ServedIsTrue ==
  ASSUME TypeOK, TypeOK', AllSound, NEW s \in Players, NEW r \in Errands, Handler(s, r),
         NEW q \in Players
  PROVE  \E g : TruthOf(q, s, g)
<1>1. /\ r.action \notin {"register", "create_match"} => r.match \in MatchIds
      /\ r.column \in Columns
  BY BoardAssumption DEF Errands, Requests, Columns
<1>2. 1 \in MatchIds
  BY ServerAssumption DEF MatchIds
<1>3. CASE Register(s)
  <2>1. Mute(out', News \ {"join_match"})
    BY <1>1, <1>2, <1>3, MuteRequest
  <2> QED BY <2>1, NoTidings
<1>4. CASE QuitMatch(s, r.match) /\ r.match \in MatchIds
  <2>1. Mute(out', News \ {"join_match"})
    BY <1>1, <1>4, MuteRequest
  <2> QED BY <2>1, NoTidings
<1>5. CASE Answer(s, r.match) /\ r.match \in MatchIds
  BY <1>5, AnswerIsTrue
<1> QED BY <1>1, <1>3, <1>4, <1>5, CreateIsTrue, JoinIsTrue, MoveIsTrue, RematchIsTrue
        DEF Handler, Answer

-----------------------------------------------------------------------------
(* What a client shows, and will show as each message it is sent is handled. *)

\* Place 0 is what it shows now, place k what it will once message k is handled.
Places(c) == {0} \cup DOMAIN c.inbox

ShowsOwn(c, k) == IF k = 0 THEN c.matchState = "WAITING" ELSE Opens(c.inbox[k])

ShowsGame(c, k) == IF k = 0 THEN c.matchState = "ACTIVE" ELSE Starts(c.inbox[k])

MatchAt(c, k) == IF k = 0 THEN c.currentMatchId ELSE c.inbox[k].match

SeatAt(c, k) == IF k = 0 THEN c.myPlayerNumber ELSE c.inbox[k].number

TurnAt(c, k) == IF k = 0 THEN c.currentTurn ELSE c.inbox[k].turn

\* No later message puts something else in its place.
Lasts(c, k) == \A j \in DOMAIN c.inbox : j > k => ~Diverts(c.inbox[j])

\* The turn shown from place k on will in the end be t.
TurnLasts(c, k, t) ==
  \A j \in Places(c) :
    /\ j = k \/ (j > k /\ Moves(c.inbox[j]))
    /\ \A i \in DOMAIN c.inbox : i > j => ~Moves(c.inbox[i])
    => TurnAt(c, j) = t

\* What holds of a player at the server: the matches he owns, those he plays and
\* in which seat, those closed for good, those that hold a seat of his, and the
\* turn of each.
Standing(table, q) ==
  [own   |-> {id \in DOMAIN table : Owns(table, q, id)},
   plays |-> {x \in (DOMAIN table) \X {1, 2} :
                /\ table[x[1]].state = "ACTIVE"
                /\ q = IF x[2] = 1 THEN table[x[1]].player1_id ELSE table[x[1]].player2_id},
   over  |-> {id \in DOMAIN table : Dead(table, id)},
   stuck |-> {id \in DOMAIN table : Stuck(table, q, id)},
   turn  |-> [id \in DOMAIN table |-> table[id].current_turn]]

Right(c, k, w) ==
  /\ ShowsOwn(c, k) => MatchAt(c, k) \in w.own
  /\ ShowsGame(c, k) =>
       \/ MatchAt(c, k) \in w.over
       \/ /\ <<MatchAt(c, k), SeatAt(c, k)>> \in w.plays
          /\ \/ \E id \in w.stuck : id # MatchAt(c, k)
             \/ TurnLasts(c, k, w.turn[MatchAt(c, k)])

\* What holds of a client whose player stands as w says: what it will in the end
\* show is right; a match it opens is told it only when it has nothing on its
\* way, and it leaves one only when it does not show it.
Aware(c, w) ==
  /\ c.outbox # << >> => \A k \in DOMAIN c.inbox : ~Opens(c.inbox[k])
  /\ \A k \in DOMAIN c.outbox : c.outbox[k].action = "quit_match" => c.matchState # "WAITING"
  /\ \A k \in Places(c) : Lasts(c, k) => Right(c, k, w)

\* A message changes what is shown to what it says, to nothing, or not at all.
Turns(h, msg) ==
  /\ h.matchState = "WAITING" => Opens(msg)
  /\ h.matchState = "ACTIVE" => Starts(msg)
  /\ h.currentMatchId = msg.match /\ h.currentTurn = msg.turn
  /\ Starts(msg) => h.myPlayerNumber = msg.number

Remains(c, h, msg) ==
  /\ ~Diverts(msg)
  /\ h.matchState = c.matchState /\ h.currentMatchId = c.currentMatchId
  /\ h.myPlayerNumber = c.myPlayerNumber
  /\ h.currentTurn = IF Moves(msg) THEN msg.turn ELSE c.currentTurn

Shown(c, h, msg) ==
  h.matchState \notin {"WAITING", "ACTIVE"} \/ Turns(h, msg) \/ Remains(c, h, msg)

\* h shows of its match what c does.
LooksAs(c, h) ==
  /\ h.matchState = c.matchState /\ h.currentMatchId = c.currentMatchId
  /\ h.myPlayerNumber = c.myPlayerNumber /\ h.currentTurn = c.currentTurn

LEMMA ShowLooksAs ==
  ASSUME NEW ids, NEW c \in Clients(ids), NEW d
  PROVE  LooksAs(c, Show(c, d)) /\ LooksAs(c, closeQueuedInfoDialogIfOpen(c))
BY DEF LooksAs, Show, closeQueuedInfoDialogIfOpen, Clients

LEMMA ResponseShows ==
  ASSUME NEW ids \in SUBSET MatchIds, NEW c \in Clients(ids), NEW msg \in Post(ids),
         msg.type = "RESPONSE", ~IsError(msg)
  PROVE  Shown(c, handleResponse(c, msg), msg)
<1> DEFINE h == handleResponse(c, msg)
           w == Waits(c, msg)
           asked == [c EXCEPT !.currentMatchId = msg.match, !.matchState = "JOIN_PENDING",
                              !.screen = "join_waiting"]
           r == [c EXCEPT !.registered = TRUE]
<1>1. msg.action \in AnswerNames /\ msg.detail \in Statuses
  BY DEF Post, IsError
<1>2. ~Moves(msg) /\ ~Starts(msg) /\ ~Finishes(msg)
  BY <1>1 DEF Moves, Starts, Finishes, AnswerNames
<1>3. CASE msg.action = "join_match"
  <2>1. h \in {asked, Show(asked, Dialog("queued"))}
    BY <1>3 DEF handleResponse
  <2>2. asked.matchState = "JOIN_PENDING" /\ Show(asked, Dialog("queued")).matchState = "JOIN_PENDING"
    BY DEF Clients, Show
  <2> HIDE DEF asked, h
  <2>3. Shown(c, h, msg)
    BY <2>1, <2>2 DEF Shown
  <2> QED BY <2>3 DEF h
<1>4. CASE msg.action = "create_match" \/ (msg.action = "rematch" /\ msg.detail = "new_session")
  <2>1. h = w
    BY <1>4 DEF handleResponse
  <2>2. Opens(msg)
    BY <1>1, <1>4 DEF Opens
  <2>3. w.matchState = "WAITING" /\ w.currentMatchId = msg.match /\ w.currentTurn = msg.turn
    BY DEF Waits, applyMatchState, Clients
  <2> HIDE DEF w, h
  <2>4. Turns(h, msg)
    BY <1>2, <2>1, <2>2, <2>3 DEF Turns
  <2> QED BY <2>4 DEF Shown, h
<1>5. CASE /\ msg.action \notin {"join_match", "create_match"}
           /\ ~(msg.action = "rematch" /\ msg.detail = "new_session")
  <2>1. h \in {c, r, Show(c, Dialog("info"))}
    BY <1>5 DEF handleResponse
  <2>2. LooksAs(c, c) /\ LooksAs(c, r)
    BY DEF LooksAs, Clients
  <2>3. LooksAs(c, Show(c, Dialog("info")))
    BY ShowLooksAs
  <2>4. ~Diverts(msg)
    BY <1>2, <1>5 DEF Diverts, Opens, Entered
  <2> HIDE DEF r, h
  <2>5. Remains(c, h, msg)
    BY <1>2, <2>1, <2>2, <2>3, <2>4 DEF Remains, LooksAs
  <2> QED BY <2>5 DEF Shown, h
<1> QED BY <1>3, <1>4, <1>5

LEMMA NotificationShows ==
  ASSUME NEW ids \in SUBSET MatchIds, NEW c \in Clients(ids), NEW msg \in Post(ids),
         msg.type = "NOTIFICATION", NEW me
  PROVE  Shown(c, handleNotification(c, msg, me), msg)
<1> DEFINE h == handleNotification(c, msg, me)
           q == closeQueuedInfoDialogIfOpen(c)
           over == [c EXCEPT !.matchState = "FINISHED"]
           shown == [c EXCEPT !.currentTurn = msg.turn]
           ended == [shown EXCEPT !.matchState = "FINISHED"]
<1>1. q \in Clients(ids) /\ LooksAs(c, q)
  BY QueuedClosedType, ShowLooksAs
<1>2. ~Opens(msg) /\ ~Entered(msg)
  BY DEF Opens, Entered
<1>3. CASE msg.action = "match_started"
  <2>1. h = [applyMatchState(q, msg.match, msg.number, msg.turn)
               EXCEPT !.matchState = "ACTIVE", !.screen = "game"]
    BY <1>3 DEF handleNotification, started
  <2> HIDE DEF q, h
  <2>2. /\ h.matchState = "ACTIVE" /\ h.currentMatchId = msg.match
        /\ h.currentTurn = msg.turn /\ h.myPlayerNumber = msg.number
    BY <1>1, <2>1 DEF applyMatchState, Clients
  <2>3. Turns(h, msg)
    BY <1>3, <2>2 DEF Turns, Starts
  <2> QED BY <2>3 DEF Shown, h
<1>4. CASE msg.action = "move"
  <2>1. IF msg.detail = "ok" THEN h = shown ELSE \E d : h = Show(ended, d)
    BY <1>4 DEF handleNotification, moved
  <2>2. /\ shown.matchState = c.matchState /\ shown.currentMatchId = c.currentMatchId
        /\ shown.myPlayerNumber = c.myPlayerNumber /\ shown.currentTurn = msg.turn
    BY DEF Clients
  <2>3. \A d : Show(ended, d).matchState = "FINISHED"
    BY DEF Clients, Show
  <2>4. Moves(msg) /\ ~Starts(msg)
    BY <1>4 DEF Moves, Starts
  <2> HIDE DEF shown, ended, h
  <2>6. CASE msg.detail = "ok"
    <3>1. ~Diverts(msg)
      BY <1>2, <1>4, <2>4, <2>6 DEF Diverts, Finishes
    <3>2. Remains(c, h, msg)
      BY <2>1, <2>2, <2>4, <2>6, <3>1 DEF Remains
    <3> QED BY <3>2 DEF Shown, h
  <2>7. CASE msg.detail # "ok"
    <3>1. Shown(c, h, msg)
      BY <2>1, <2>3, <2>7 DEF Shown
    <3> QED BY <3>1 DEF h
  <2> QED BY <2>6, <2>7
<1>5. CASE msg.action = "opponent_left"
  <2>1. h = Show(over, Dialog("lobby"))
    BY <1>5 DEF handleNotification
  <2>2. Show(over, Dialog("lobby")).matchState = "FINISHED"
    BY DEF Clients, Show
  <2> QED BY <2>1, <2>2 DEF Shown
<1>6. CASE msg.action \notin {"match_started", "move", "opponent_left"}
  <2>1. \/ h \in {c, q} \/ \E d : h \in {Show(c, d), Show(q, d)}
    BY <1>6 DEF handleNotification
  <2>2. LooksAs(c, c)
    BY DEF LooksAs
  <2>3. ASSUME NEW d PROVE LooksAs(c, Show(c, d)) /\ LooksAs(q, Show(q, d))
    <3>1. LooksAs(c, Show(c, d))
      BY ShowLooksAs
    <3>2. LooksAs(q, Show(q, d))
      <4> HIDE DEF q
      <4> QED BY <1>1, ShowLooksAs
    <3> QED BY <3>1, <3>2
  <2>4. ~Diverts(msg) /\ ~Moves(msg)
    BY <1>2, <1>6 DEF Diverts, Finishes, Starts, Moves
  <2> HIDE DEF q, h
  <2>5. LooksAs(c, h)
    BY <1>1, <2>1, <2>2, <2>3 DEF LooksAs
  <2>6. Remains(c, h, msg)
    BY <2>4, <2>5 DEF Remains, LooksAs
  <2> QED BY <2>6 DEF Shown, h
<1> QED BY <1>3, <1>4, <1>5, <1>6

LEMMA HandledShows ==
  ASSUME NEW ids \in SUBSET MatchIds, NEW c \in Clients(ids), c.inbox # << >>, NEW me
  PROVE  Shown(c, handleMessage(c, me), Head(c.inbox))
<1> DEFINE h == handleMessage(c, me)
           b == c.inbox
           msg == Head(b)
           rest == [c EXCEPT !.inbox = Tail(b)]
<1>1. b \in Seq(Post(ids)) /\ b # << >>
  BY DEF Clients
<1>2. msg \in Post(ids) /\ Tail(b) \in Seq(Post(ids))
  <2> HIDE DEF b
  <2> QED BY <1>1
<1>3. h = CASE IsError(msg)            -> Show(rest, Dialog("info"))
            [] ~IsError(msg) /\ msg.type = "RESPONSE" -> handleResponse(rest, msg)
            [] msg.type = "NOTIFICATION" -> handleNotification(rest, msg, me)
  BY DEF handleMessage
<1>4. rest \in Clients(ids) /\ LooksAs(c, rest)
  <2> HIDE DEF b
  <2> QED BY <1>2 DEF Clients, LooksAs
<1> HIDE DEF b, msg, rest, h
<1>5. msg.type \in {"RESPONSE", "NOTIFICATION"} /\ (IsError(msg) => msg.type = "RESPONSE")
      /\ (msg.type = "RESPONSE" => msg.action \in AnswerNames)
  BY <1>2 DEF Post, IsError
<1>6. Shown(rest, h, msg)
  <2>1. CASE IsError(msg)
    <3>1. h = Show(rest, Dialog("info"))
      BY <1>3, <1>5, <2>1
    <3>2. LooksAs(rest, h)
      BY <1>4, <3>1, ShowLooksAs
    <3>3. msg.type = "RESPONSE" /\ msg.detail \notin Statuses /\ msg.action \in AnswerNames
      BY <1>5, <2>1 DEF IsError
    <3>4. ~Diverts(msg) /\ ~Moves(msg)
      BY <3>3 DEF Diverts, Opens, Entered, Starts, Finishes, Moves, AnswerNames, Statuses
    <3> QED BY <3>2, <3>4 DEF Shown, Remains, LooksAs
  <2>2. CASE ~IsError(msg) /\ msg.type = "RESPONSE"
    BY <1>2, <1>3, <1>4, <2>2, ResponseShows
  <2>3. CASE ~IsError(msg) /\ msg.type = "NOTIFICATION"
    <3>1. h = handleNotification(rest, msg, me)
      BY <1>3, <2>3
    <3> QED BY <1>2, <1>4, <2>3, <3>1, NotificationShows
  <2> QED BY <1>5, <2>1, <2>2, <2>3
<1>7. Shown(c, h, msg)
  BY <1>4, <1>6 DEF Shown, Remains, LooksAs
<1> QED BY <1>7 DEF h, msg, b

LEMMA LooksRight ==
  ASSUME NEW c, NEW h, LooksAs(c, h), h.inbox = c.inbox, NEW k, NEW w
  PROVE  /\ Lasts(h, k) <=> Lasts(c, k)
         /\ Right(h, k, w) <=> Right(c, k, w)
<1>1. /\ MatchAt(h, k) = MatchAt(c, k) /\ SeatAt(h, k) = SeatAt(c, k)
      /\ ShowsOwn(h, k) <=> ShowsOwn(c, k)
      /\ ShowsGame(h, k) <=> ShowsGame(c, k)
  BY DEF LooksAs, MatchAt, SeatAt, ShowsOwn, ShowsGame
<1>2. \A j : TurnAt(h, j) = TurnAt(c, j)
  BY DEF LooksAs, TurnAt
<1>3. Places(h) = Places(c) /\ (Lasts(h, k) <=> Lasts(c, k))
  BY DEF Places, Lasts
<1>4. \A t : TurnLasts(h, k, t) <=> TurnLasts(c, k, t)
  BY <1>2, <1>3 DEF TurnLasts
<1> QED BY <1>1, <1>3, <1>4 DEF Right

LEMMA AwareHandled ==
  ASSUME NEW ids \in SUBSET MatchIds, NEW c \in Clients(ids), c.inbox # << >>, NEW me,
         NEW w, Aware(c, w)
  PROVE  Aware(handleMessage(c, me), w)
<1> DEFINE h == handleMessage(c, me)
           b == c.inbox
           msg == Head(b)
<1>1. h.inbox = Tail(b) /\ h.outbox = c.outbox
  BY HandledKeeps
<1>2. Shown(c, h, msg)
  BY HandledShows
<1>3. b \in Seq(Post(ids)) /\ b # << >>
  BY DEF Clients
<1>4. msg = b[1] /\ 1 \in DOMAIN b
  <2> HIDE DEF b
  <2> QED BY <1>3
<1>5. \A k \in DOMAIN Tail(b) : k \in Nat /\ k > 0 /\ k + 1 \in DOMAIN b /\ Tail(b)[k] = b[k + 1]
  <2> HIDE DEF b
  <2> QED BY <1>3
<1> HIDE DEF h, b, msg
<1>6. ASSUME NEW k \in DOMAIN b, k # 1
      PROVE  k \in Nat /\ k > 1 /\ k - 1 \in DOMAIN Tail(b) /\ Tail(b)[k - 1] = b[k]
  <2>1. k - 1 \in DOMAIN Tail(b) /\ Tail(b)[k - 1] = b[k]
    BY <1>3, <1>6, TailHolds
  <2>2. k \in Nat /\ k > 1
    BY <1>3, <1>6
  <2> QED BY <2>1, <2>2
<1>7. ASSUME NEW k \in Nat, Lasts(h, k) PROVE Lasts(c, k + 1)
  <2> SUFFICES ASSUME NEW j \in DOMAIN b, j > k + 1 PROVE ~Diverts(b[j])
    BY DEF Lasts, b
  <2>1. j # 1
    BY <1>7
  <2>2. j - 1 \in DOMAIN Tail(b) /\ Tail(b)[j - 1] = b[j] /\ j - 1 > k
    BY <1>6, <1>7, <2>1
  <2> QED BY <1>1, <1>7, <2>2 DEF Lasts
<1>8. ASSUME NEW k \in DOMAIN Tail(b)
      PROVE  /\ k # 0 /\ k + 1 # 0 /\ k \in Nat /\ k + 1 \in Places(c)
             /\ h.inbox[k] = c.inbox[k + 1]
  BY <1>1, <1>5, <1>8 DEF Places, b
<1>9. ASSUME NEW j \in Nat, \A i \in DOMAIN h.inbox : i > j => ~Moves(h.inbox[i])
      PROVE  \A i \in DOMAIN c.inbox : i > j + 1 => ~Moves(c.inbox[i])
  <2> SUFFICES ASSUME NEW i \in DOMAIN b, i > j + 1 PROVE ~Moves(b[i])
    BY DEF b
  <2>1. i # 1
    BY <1>9
  <2>2. i - 1 \in DOMAIN Tail(b) /\ Tail(b)[i - 1] = b[i] /\ i - 1 > j
    BY <1>6, <1>9, <2>1
  <2> QED BY <1>1, <1>9, <2>2
\* From where something is handled, to where it waited to be.
<1>10. ASSUME NEW from \in Nat, NEW k \in Nat, from \in {0, k + 1}, from = 0 => k = 0,
              k = 0 /\ from = 1 => h.currentTurn = msg.turn,
              from = 0 => h.currentTurn = IF Moves(msg) THEN msg.turn ELSE c.currentTurn,
              NEW t, TurnLasts(c, from, t)
       PROVE  TurnLasts(h, k, t)
  <2> SUFFICES ASSUME NEW j \in Places(h), j = k \/ (j > k /\ Moves(h.inbox[j])),
                      \A i \in DOMAIN h.inbox : i > j => ~Moves(h.inbox[i])
               PROVE  TurnAt(h, j) = t
    BY DEF TurnLasts
  <2>1. CASE j # 0
    <3>1. j \in DOMAIN Tail(b)
      BY <1>1, <2>1 DEF Places
    <3>2. /\ j + 1 # 0 /\ j \in Nat /\ j + 1 \in Places(c) /\ h.inbox[j] = c.inbox[j + 1]
      BY <1>8, <3>1
    <3>3. \A i \in DOMAIN c.inbox : i > j + 1 => ~Moves(c.inbox[i])
      BY <1>9, <3>2
    <3>4. j + 1 = from \/ (j + 1 > from /\ Moves(c.inbox[j + 1]))
      BY <1>10, <2>1, <3>2
    <3>5. TurnAt(c, j + 1) = t
      BY <1>10, <3>2, <3>3, <3>4 DEF TurnLasts
    <3> QED BY <2>1, <3>2, <3>5 DEF TurnAt
  <2>2. CASE j = 0
    <3>1. k = 0 /\ TurnAt(h, j) = h.currentTurn
      BY <1>10, <2>2 DEF TurnAt
    <3>2. \A i \in DOMAIN c.inbox : i > 1 => ~Moves(c.inbox[i])
      BY <1>9, <2>2
    <3>3. 1 \in Places(c) /\ TurnAt(c, 1) = msg.turn /\ c.inbox[1] = msg
      BY <1>4 DEF Places, TurnAt, b
    <3>4. CASE from = 1 \/ Moves(msg)
      <4>1. 1 = from \/ (1 > from /\ Moves(c.inbox[1]))
        BY <1>10, <3>1, <3>3, <3>4
      <4>2. TurnAt(c, 1) = t
        BY <1>10, <3>2, <3>3, <4>1 DEF TurnLasts
      <4> QED BY <1>10, <3>1, <3>3, <3>4, <4>2
    <3>5. CASE from # 1 /\ ~Moves(msg)
      <4>1. from = 0 /\ 0 \in Places(c) /\ TurnAt(c, 0) = c.currentTurn
        BY <1>10, <3>1, <3>5 DEF Places, TurnAt
      <4>2. ASSUME NEW i \in DOMAIN c.inbox PROVE ~Moves(c.inbox[i])
        <5>1. CASE i = 1
          BY <3>3, <3>5, <5>1
        <5>2. CASE i # 1
          BY <1>6, <3>2, <5>2 DEF b
        <5> QED BY <5>1, <5>2
      <4>3. TurnAt(c, 0) = t
        BY <1>10, <4>1, <4>2 DEF TurnLasts
      <4> QED BY <1>10, <3>1, <3>5, <4>1, <4>3
    <3> QED BY <3>4, <3>5
  <2> QED BY <2>1, <2>2
<1>11. ASSUME NEW k \in Places(h), NEW from \in Places(c), Right(c, from, w),
              ShowsOwn(h, k) => ShowsOwn(c, from),
              ShowsGame(h, k) => ShowsGame(c, from) /\ SeatAt(h, k) = SeatAt(c, from),
              MatchAt(h, k) = MatchAt(c, from),
              \A t : TurnLasts(c, from, t) => TurnLasts(h, k, t)
       PROVE  Right(h, k, w)
  BY <1>11 DEF Right
<1>12. ASSUME NEW k \in Places(h), Lasts(h, k) PROVE Right(h, k, w)
  <2>1. CASE k # 0
    <3>1. k \in DOMAIN Tail(b)
      BY <1>1, <2>1 DEF Places
    <3>2. /\ k # 0 /\ k + 1 # 0 /\ k \in Nat /\ k + 1 \in Places(c)
          /\ h.inbox[k] = c.inbox[k + 1]
      BY <1>8, <3>1
    <3>3. Right(c, k + 1, w)
      BY <1>7, <1>12, <3>2 DEF Aware
    <3>4. /\ ShowsOwn(h, k) => ShowsOwn(c, k + 1)
          /\ ShowsGame(h, k) => ShowsGame(c, k + 1)
          /\ SeatAt(h, k) = SeatAt(c, k + 1) /\ MatchAt(h, k) = MatchAt(c, k + 1)
      BY <3>2 DEF ShowsOwn, ShowsGame, SeatAt, MatchAt
    <3>5. \A t : TurnLasts(c, k + 1, t) => TurnLasts(h, k, t)
      BY <1>10, <3>2
    <3> QED BY <1>11, <3>2, <3>3, <3>4, <3>5
  <2>2. CASE k = 0 /\ h.matchState \notin {"WAITING", "ACTIVE"}
    BY <2>2 DEF Right, ShowsOwn, ShowsGame
  <2>3. CASE k = 0 /\ Turns(h, msg)
    <3>1. 1 \in Places(c) /\ c.inbox[1] = msg
      BY <1>4 DEF Places, b
    <3>2. Right(c, 1, w)
      BY <1>7, <1>12, <2>3, <3>1 DEF Aware
    <3>3. /\ ShowsOwn(h, k) => ShowsOwn(c, 1)
          /\ ShowsGame(h, k) => ShowsGame(c, 1) /\ SeatAt(h, k) = SeatAt(c, 1)
          /\ MatchAt(h, k) = MatchAt(c, 1) /\ h.currentTurn = msg.turn
      BY <2>3, <3>1 DEF Turns, ShowsOwn, ShowsGame, SeatAt, MatchAt
    <3>4. \A t : TurnLasts(c, 1, t) => TurnLasts(h, k, t)
      BY <1>10, <2>3, <3>3
    <3> QED BY <1>11, <3>1, <3>2, <3>3, <3>4
  <2>4. CASE k = 0 /\ Remains(c, h, msg)
    <3>1. 0 \in Places(c)
      BY DEF Places
    <3>2. Lasts(c, 0)
      <4> SUFFICES ASSUME NEW j \in DOMAIN b PROVE ~Diverts(b[j])
        BY DEF Lasts, b
      <4>1. CASE j = 1
        BY <1>4, <2>4, <4>1 DEF Remains
      <4>2. CASE j # 1
        <5>1. j > 0 + 1 /\ Lasts(c, 0 + 1)
          BY <1>6, <1>7, <1>12, <2>4, <4>2
        <5> QED BY <5>1 DEF Lasts, b
      <4> QED BY <4>1, <4>2
    <3>3. Right(c, 0, w)
      BY <3>1, <3>2 DEF Aware
    <3>4. /\ ShowsOwn(h, k) => ShowsOwn(c, 0)
          /\ ShowsGame(h, k) => ShowsGame(c, 0)
          /\ SeatAt(h, k) = SeatAt(c, 0) /\ MatchAt(h, k) = MatchAt(c, 0)
          /\ h.currentTurn = IF Moves(msg) THEN msg.turn ELSE c.currentTurn
      BY <2>4 DEF Remains, ShowsOwn, ShowsGame, SeatAt, MatchAt
    <3>5. \A t : TurnLasts(c, 0, t) => TurnLasts(h, k, t)
      BY <1>10, <2>4, <3>4
    <3> QED BY <1>11, <3>1, <3>3, <3>4, <3>5
  <2> QED BY <1>2, <2>1, <2>2, <2>3, <2>4 DEF Shown
<1>13. h.outbox # << >> => \A k \in DOMAIN h.inbox : ~Opens(h.inbox[k])
  BY <1>1, <1>5 DEF Aware, b
<1>14. \A k \in DOMAIN h.outbox : h.outbox[k].action = "quit_match" => h.matchState # "WAITING"
  <2> SUFFICES ASSUME NEW k \in DOMAIN c.outbox, c.outbox[k].action = "quit_match",
                      h.matchState = "WAITING"
               PROVE  FALSE
    BY <1>1
  <2>1. Opens(msg)
    BY <1>2 DEF Aware, Shown, Turns, Remains
  <2>2. c.outbox # << >>
    OBVIOUS
  <2> QED BY <1>4, <2>1, <2>2 DEF Aware, b
<1>15. Aware(h, w)
  BY <1>12, <1>13, <1>14 DEF Aware
<1> QED BY <1>15 DEF h

\* Nothing c shows or will show is a match of its own.
Unexpecting(c) ==
  c.matchState # "WAITING" /\ \A k \in DOMAIN c.inbox : ~Opens(c.inbox[k])

LEMMA AwareServed ==
  ASSUME NEW ids, NEW c \in Clients(ids), c.outbox # << >>, Len(c.outbox) <= 1,
         NEW w, Aware(c, w)
  PROVE  LET left == [c EXCEPT !.outbox = Tail(@)]
         IN  /\ Aware(left, w) /\ left.outbox = << >>
             /\ Head(c.outbox).action = "quit_match" => Unexpecting(left)
<1> DEFINE b == c.outbox
           left == [c EXCEPT !.outbox = Tail(b)]
<1>1. b \in Seq(Errands) /\ b # << >> /\ Len(b) <= 1
  BY DEF Clients
<1>2. Tail(b) = << >> /\ Head(b) = b[1] /\ 1 \in DOMAIN b
  <2> HIDE DEF b
  <2> QED BY <1>1
<1>3. left.outbox = << >> /\ left.inbox = c.inbox /\ LooksAs(c, left)
  BY <1>2 DEF Clients, LooksAs
<1> HIDE DEF left
<1>4. Head(b).action = "quit_match" => Unexpecting(left)
  BY <1>1, <1>2, <1>3 DEF Aware, Unexpecting, LooksAs
<1>5. DOMAIN << >> = {} /\ Places(left) = Places(c)
  BY <1>3 DEF Places
<1>6. \A k \in Places(left) : Lasts(left, k) => Right(left, k, w)
  BY <1>3, <1>5, LooksRight DEF Aware
<1>7. Aware(left, w)
  BY <1>3, <1>5, <1>6 DEF Aware
<1> QED BY <1>3, <1>4, <1>7 DEF left, b

LEMMA AwareActs ==
  ASSUME NEW c, c.inbox = << >>, NEW h, ActsOnce(c, h), NEW w, Aware(c, w)
  PROVE  Aware(h, w)
<1>1. DOMAIN << >> = {} /\ h.inbox = << >> /\ Places(h) = {0} /\ Places(c) = {0}
  BY DEF ActsOnce, Places
<1>2. CASE h.matchState \in Engaged
  <2>1. LooksAs(c, h)
    BY <1>2 DEF ActsOnce, LooksAs
  <2>2. \A k \in Places(h) : Lasts(h, k) => Right(h, k, w)
    BY <1>1, <2>1, LooksRight DEF Aware
  <2> QED BY <1>1, <1>2, <2>2 DEF Aware, ActsOnce, Farewells
<1>3. CASE h.matchState \notin Engaged
  <2>1. h.matchState \notin {"WAITING", "ACTIVE"}
    BY <1>3 DEF Engaged
  <2>2. Right(h, 0, w)
    BY <2>1 DEF Right, ShowsOwn, ShowsGame
  <2> QED BY <1>1, <2>1, <2>2 DEF Aware
<1> QED BY <1>2, <1>3

LEMMA NewIsAware == \A w : Aware(NewClient, w)
<1>1. DOMAIN << >> = {}
  OBVIOUS
<1>2. /\ NewClient.matchState = "NONE" /\ NewClient.inbox = << >> /\ NewClient.outbox = << >>
  BY DEF NewClient
<1>3. \A w : Right(NewClient, 0, w)
  BY <1>2 DEF Right, ShowsOwn, ShowsGame
<1> QED BY <1>1, <1>2, <1>3 DEF Aware, Places

LEMMA OpenedIsAware ==
  ASSUME NEW w
  PROVE  Aware(sendMessage(NewClient, createRequestMessage("register", 0, 0)), w)
<1> DEFINE r == createRequestMessage("register", 0, 0)
<1>1. r \in Errands
  BY ErrandType
<1>2. r.action \notin Farewells
  BY DEF createRequestMessage, Farewells
<1>3. NewClient.inbox = << >> /\ NewClient.outbox = << >>
  BY DEF NewClient
<1>4. NewClient \in Clients({}) /\ Aware(NewClient, w)
  BY NewClientType, NewIsAware
<1> HIDE DEF r, NewClient
<1>5. ActsOnce(NewClient, sendMessage(NewClient, r))
  BY <1>1, <1>2, <1>3, <1>4, SendsOnce
<1> QED BY <1>3, <1>4, <1>5, AwareActs DEF r

\* What post tells client c of match g is so, where its player stands as v says.
Reports(post, c, g, v) ==
  \A k \in DOMAIN post :
    /\ Opens(post[k]) => post[k].match \in v.own /\ c.outbox = << >>
    /\ Starts(post[k]) => <<post[k].match, post[k].number>> \in v.plays
    /\ Starts(post[k]) \/ Moves(post[k]) => post[k].match = g /\ post[k].turn = v.turn[g]
    /\ Moves(post[k]) => Finishes(post[k]) \/ g \in v.stuck

\* Where its player stood as w says he stands now, or post tells c of it.
Abides(post, c, w, v) ==
  \/ \E k \in DOMAIN post : Diverts(post[k])
  \/ /\ w.own \subseteq v.own \/ Unexpecting(c)
     /\ w.over \subseteq v.over /\ w.stuck \subseteq v.stuck
     /\ \A id, n : <<id, n>> \in w.plays =>
          \/ id \in v.over
          \/ /\ <<id, n>> \in v.plays
             /\ v.turn[id] = w.turn[id] \/ \E k \in DOMAIN post : Moves(post[k])

LEMMA AwareGets ==
  ASSUME NEW ids, NEW c \in Clients(ids), NEW post \in Seq(Post(ids)), NEW w, NEW v, NEW g,
         Aware(c, w), Reports(post, c, g, v), Abides(post, c, w, v)
  PROVE  Aware([c EXCEPT !.inbox = @ \o post], v)
<1> DEFINE b == c.inbox
           h == [c EXCEPT !.inbox = b \o post]
<1>1. b \in Seq(Post(ids)) /\ Len(b) \in Nat /\ DOMAIN b = 1 .. Len(b)
  BY DEF Clients
<1>2. h.inbox = b \o post /\ h.outbox = c.outbox /\ LooksAs(c, h)
  BY DEF Clients, LooksAs
<1> HIDE DEF h, b
<1>3. ASSUME NEW k \in DOMAIN b
      PROVE  /\ k \in DOMAIN h.inbox /\ h.inbox[k] = b[k]
             /\ k # 0 /\ k \in Nat /\ k <= Len(b)
  <2>1. k \in DOMAIN (b \o post) /\ (b \o post)[k] = b[k]
    BY <1>1, LongerHolds
  <2> QED BY <1>1, <1>2, <2>1
<1>4. ASSUME NEW j \in DOMAIN post
      PROVE  /\ Len(b) + j \in DOMAIN h.inbox /\ h.inbox[Len(b) + j] = post[j]
             /\ Len(b) + j # 0 /\ Len(b) + j \in Nat /\ Len(b) + j > Len(b)
  <2>1. Len(b) + j \in DOMAIN (b \o post) /\ (b \o post)[Len(b) + j] = post[j]
    BY <1>1, PostHolds
  <2>2. j \in Nat /\ j > 0
    OBVIOUS
  <2> QED BY <1>1, <1>2, <2>1, <2>2
<1>5. ASSUME NEW k \in DOMAIN h.inbox
      PROVE  \/ k \in DOMAIN b /\ h.inbox[k] = b[k]
             \/ \E j \in DOMAIN post : k = Len(b) + j /\ h.inbox[k] = post[j]
  BY <1>1, <1>2, <1>5, ConcatAt
<1>6. \A k \in Places(c) : k \in Nat /\ k <= Len(b)
  BY <1>1, <1>3 DEF Places, b
<1>7. \A k \in Places(h) : k \in Places(c) \/ \E j \in DOMAIN post : k = Len(b) + j
  BY <1>5 DEF Places, b
<1>8. ASSUME NEW k \in Places(c)
      PROVE  /\ MatchAt(h, k) = MatchAt(c, k) /\ SeatAt(h, k) = SeatAt(c, k)
             /\ TurnAt(h, k) = TurnAt(c, k)
             /\ ShowsOwn(h, k) <=> ShowsOwn(c, k)
             /\ ShowsGame(h, k) <=> ShowsGame(c, k)
  <2>1. CASE k = 0
    BY <1>2, <2>1 DEF LooksAs, MatchAt, SeatAt, TurnAt, ShowsOwn, ShowsGame
  <2>2. CASE k # 0
    <3>1. h.inbox[k] = c.inbox[k]
      BY <1>3, <1>8, <2>2 DEF Places, b
    <3> QED BY <2>2, <3>1 DEF MatchAt, SeatAt, TurnAt, ShowsOwn, ShowsGame
  <2> QED BY <2>1, <2>2
\* What post says, at its places.
<1>9. ASSUME NEW j \in DOMAIN post
      PROVE  /\ MatchAt(h, Len(b) + j) = post[j].match /\ SeatAt(h, Len(b) + j) = post[j].number
             /\ TurnAt(h, Len(b) + j) = post[j].turn
             /\ ShowsOwn(h, Len(b) + j) <=> Opens(post[j])
             /\ ShowsGame(h, Len(b) + j) <=> Starts(post[j])
  BY <1>4, <1>9 DEF MatchAt, SeatAt, TurnAt, ShowsOwn, ShowsGame
<1>10. ASSUME NEW k \in DOMAIN post, Starts(post[k])
       PROVE  TurnLasts(h, Len(b) + k, v.turn[g])
  <2> SUFFICES ASSUME NEW j \in Places(h), \/ j = Len(b) + k
                                           \/ j > Len(b) + k /\ Moves(h.inbox[j])
               PROVE  TurnAt(h, j) = v.turn[g]
    BY DEF TurnLasts
  <2>1. j \notin Places(c)
    BY <1>1, <1>4, <1>6, <1>10
  <2>2. PICK l \in DOMAIN post : j = Len(b) + l
    BY <1>7, <2>1
  <2>3. l = k \/ Moves(post[l])
    <3>1. l \in Nat /\ k \in Nat
      OBVIOUS
    <3> QED BY <1>1, <1>4, <2>2, <3>1
  <2> QED BY <1>9, <1>10, <2>2, <2>3 DEF Reports
<1>11. ASSUME NEW k \in Places(c), NEW i \in DOMAIN post, Moves(post[i])
       PROVE  TurnLasts(h, k, v.turn[g])
  <2> SUFFICES ASSUME NEW j \in Places(h), j = k \/ (j > k /\ Moves(h.inbox[j])),
                      \A n \in DOMAIN h.inbox : n > j => ~Moves(h.inbox[n])
               PROVE  TurnAt(h, j) = v.turn[g]
    BY DEF TurnLasts
  <2>1. j \notin Places(c)
    <3>1. Len(b) + i \in DOMAIN h.inbox /\ h.inbox[Len(b) + i] = post[i] /\ Len(b) + i > Len(b)
          /\ Len(b) + i \in Nat
      BY <1>4
    <3>2. ~(Len(b) + i > j)
      BY <1>11, <3>1
    <3> QED BY <1>1, <1>6, <3>1, <3>2
  <2>2. PICK l \in DOMAIN post : j = Len(b) + l
    BY <1>7, <2>1
  <2>3. Moves(post[l])
    BY <1>4, <2>1, <2>2
  <2> QED BY <1>9, <2>2, <2>3 DEF Reports
<1>12. ASSUME NEW k \in Places(c), NEW t, TurnLasts(c, k, t), \A i \in DOMAIN post : ~Moves(post[i])
       PROVE  TurnLasts(h, k, t)
  <2> SUFFICES ASSUME NEW j \in Places(h), j = k \/ (j > k /\ Moves(h.inbox[j])),
                      \A n \in DOMAIN h.inbox : n > j => ~Moves(h.inbox[n])
               PROVE  TurnAt(h, j) = t
    BY DEF TurnLasts
  <2>1. j \in Places(c)
    <3>1. ASSUME NEW l \in DOMAIN post, j = Len(b) + l PROVE j = k
      BY <1>4, <1>12, <3>1
    <3> QED BY <1>7, <3>1
  <2>2. j = k \/ (j > k /\ Moves(c.inbox[j]))
    <3>1. CASE j # k
      <4>1. j > k /\ Moves(h.inbox[j]) /\ k \in Nat /\ j \in Nat
        BY <1>6, <2>1, <3>1
      <4>2. j # 0
        BY <1>6, <4>1
      <4>3. h.inbox[j] = c.inbox[j]
        BY <1>3, <2>1, <4>2 DEF Places, b
      <4> QED BY <4>1, <4>3
    <3> QED BY <3>1
  <2>3. \A n \in DOMAIN c.inbox : n > j => ~Moves(c.inbox[n])
    BY <1>3 DEF b
  <2>4. TurnAt(c, j) = t
    BY <1>12, <2>1, <2>2, <2>3 DEF TurnLasts
  <2> QED BY <1>8, <2>1, <2>4
\* What post shows is right.
<1>13. ASSUME NEW k \in DOMAIN post PROVE Right(h, Len(b) + k, v)
  <2>1. ShowsOwn(h, Len(b) + k) => MatchAt(h, Len(b) + k) \in v.own
    BY <1>9 DEF Reports
  <2>2. ASSUME Starts(post[k])
        PROVE  /\ <<MatchAt(h, Len(b) + k), SeatAt(h, Len(b) + k)>> \in v.plays
               /\ TurnLasts(h, Len(b) + k, v.turn[MatchAt(h, Len(b) + k)])
    BY <1>9, <1>10, <2>2 DEF Reports
  <2> QED BY <1>9, <2>1, <2>2 DEF Right
\* What was right, and is not put aside by post, is right.
<1>14. ASSUME NEW k \in Places(c), Lasts(h, k) PROVE Right(h, k, v)
  <2>1. Lasts(c, k)
    BY <1>3, <1>14 DEF Lasts, b
  <2>2. Right(c, k, w)
    BY <2>1 DEF Aware
  <2>3. ASSUME NEW j \in DOMAIN post PROVE ~Diverts(post[j])
    <3>1. Len(b) + j \in DOMAIN h.inbox /\ h.inbox[Len(b) + j] = post[j] /\ Len(b) + j > k
      BY <1>1, <1>4, <1>6
    <3> QED BY <1>14, <3>1 DEF Lasts
  <2>4. /\ w.own \subseteq v.own \/ Unexpecting(c)
        /\ w.over \subseteq v.over /\ w.stuck \subseteq v.stuck
        /\ \A id, n : <<id, n>> \in w.plays =>
             \/ id \in v.over
             \/ /\ <<id, n>> \in v.plays
                /\ v.turn[id] = w.turn[id] \/ \E i \in DOMAIN post : Moves(post[i])
    BY <2>3 DEF Abides
  <2> DEFINE id == MatchAt(c, k)
             n == SeatAt(c, k)
  <2>5. ShowsOwn(c, k) => id \in v.own
    <3>1. Unexpecting(c) => ~ShowsOwn(c, k)
      BY DEF Unexpecting, ShowsOwn, Places
    <3> QED BY <2>2, <2>4, <3>1 DEF Right
  <2>6. ASSUME ShowsGame(c, k), id \notin v.over
        PROVE  /\ <<id, n>> \in v.plays
               /\ (\E i \in v.stuck : i # id) \/ TurnLasts(h, k, v.turn[id])
    <3> HIDE DEF id, n
    <3>1. <<id, n>> \in w.plays /\ ((\E i \in w.stuck : i # id) \/ TurnLasts(c, k, w.turn[id]))
      BY <2>2, <2>4, <2>6 DEF Right, id, n
    <3>2. <<id, n>> \in v.plays
          /\ (v.turn[id] = w.turn[id] \/ \E i \in DOMAIN post : Moves(post[i]))
      BY <2>4, <2>6, <3>1
    <3>3. CASE \E i \in w.stuck : i # id
      BY <2>4, <3>2, <3>3
    <3>4. CASE TurnLasts(c, k, w.turn[id]) /\ \A i \in DOMAIN post : ~Moves(post[i])
      BY <1>12, <3>2, <3>4
    <3>5. CASE \E i \in DOMAIN post : Moves(post[i])
      <4>1. PICK i \in DOMAIN post : Moves(post[i])
        BY <3>5
      <4>2. g \in v.stuck
        BY <2>3, <4>1 DEF Reports, Diverts
      <4>3. TurnLasts(h, k, v.turn[g])
        BY <1>11, <4>1
      <4> QED BY <3>2, <4>2, <4>3
    <3> QED BY <3>1, <3>2, <3>3, <3>4, <3>5
  <2> HIDE DEF id, n
  <2>7. /\ MatchAt(h, k) = id /\ SeatAt(h, k) = n
        /\ ShowsOwn(h, k) <=> ShowsOwn(c, k)
        /\ ShowsGame(h, k) <=> ShowsGame(c, k)
    BY <1>8 DEF id, n
  <2> QED BY <2>5, <2>6, <2>7 DEF Right
<1>15. \A k \in Places(h) : Lasts(h, k) => Right(h, k, v)
  BY <1>7, <1>13, <1>14
<1>16. h.outbox # << >> => \A k \in DOMAIN h.inbox : ~Opens(h.inbox[k])
  <2> SUFFICES ASSUME c.outbox # << >>, NEW k \in DOMAIN h.inbox, Opens(h.inbox[k])
               PROVE  FALSE
    BY <1>2
  <2>1. \A i \in DOMAIN b : ~Opens(b[i])
    BY DEF Aware, b
  <2> QED BY <1>5, <2>1 DEF Reports
<1>17. \A k \in DOMAIN h.outbox : h.outbox[k].action = "quit_match" => h.matchState # "WAITING"
  BY <1>2 DEF Aware, LooksAs
<1>18. Aware(h, v)
  BY <1>15, <1>16, <1>17 DEF Aware
<1> QED BY <1>18 DEF h, b

-----------------------------------------------------------------------------
(* What the server sends, and where the player stands, at the client.      *)

LEMMA StandingIs ==
  ASSUME NEW table, NEW q, NEW id, NEW n
  PROVE  LET v == Standing(table, q)
         IN  /\ id \in v.own <=> id \in DOMAIN table /\ Owns(table, q, id)
             /\ <<id, n>> \in v.plays <=>
                  /\ id \in DOMAIN table /\ n \in {1, 2} /\ table[id].state = "ACTIVE"
                  /\ q = IF n = 1 THEN table[id].player1_id ELSE table[id].player2_id
             /\ id \in v.over <=> id \in DOMAIN table /\ Dead(table, id)
             /\ id \in v.stuck <=> id \in DOMAIN table /\ Stuck(table, q, id)
             /\ id \in DOMAIN table => v.turn[id] = table[id].current_turn
BY DEF Standing

\* A letter says at the client what it says, with the turn and the seat of the
\* match it is about.
LEMMA LetterSays ==
  ASSUME NEW q \in Players, NEW table, NEW l \in Letters(table)
  PROVE  LET a == Arrived(q, l, table)
         IN  /\ a.match = l.match
             /\ Opens(a) <=> Opens(l)
             /\ Starts(a) <=> Starts(l)
             /\ Moves(a) <=> Moves(l)
             /\ Finishes(a) <=> Finishes(l)
             /\ Starts(l) \/ Moves(l) => a.turn = table[l.match].current_turn
             /\ Starts(l) => a.number = IF q = table[l.match].player1_id THEN 1 ELSE 2
             /\ Starts(l) \/ Moves(l) \/ Finishes(l) => Heeded(l)
<1> DEFINE a == Arrived(q, l, table)
           m == table[l.match]
           r == [type |-> l.type, action |-> l.action, match |-> l.match, detail |-> Detail(l),
                 number |-> IF q = m.player1_id THEN 1 ELSE 2,
                 turn |-> m.current_turn, winner |-> m.winner_id]
           s == [type |-> l.type, action |-> l.action, match |-> l.match, detail |-> Detail(l),
                 number |-> 0, turn |-> 0, winner |-> NoPlayer]
<1>1. /\ l.type \in {"RESPONSE", "NOTIFICATION"}
      /\ l.type = "RESPONSE" => l.action \in AnswerNames
      /\ l.type = "RESPONSE" => (Detail(l) \in Statuses <=> l.detail \in Statuses)
  BY DetailKeeps DEF Letters
<1>2. Starts(l) => l.type = "NOTIFICATION"
  BY <1>1 DEF Starts, AnswerNames
<1>3. a = IF l.action \in {"create_match", "rematch", "match_started", "move"} /\ ~IsError(l)
          THEN r ELSE s
  BY DEF Arrived, Received, Bare
<1>4. Starts(l) \/ Moves(l) => a = r
  BY <1>2, <1>3 DEF Starts, Moves, IsError
<1>5. a.type = l.type /\ a.action = l.action /\ a.match = l.match /\ a.detail = Detail(l)
  BY <1>3
<1>6. /\ Starts(l) \/ Moves(l) => a.turn = m.current_turn
      /\ Starts(l) => a.number = IF q = m.player1_id THEN 1 ELSE 2
  BY <1>4
<1> HIDE DEF a, m, r, s
<1>7. l.action = "rematch" => (Detail(l) = "new_session" <=> l.detail = "new_session")
  BY DEF Detail, IsError, Statuses
<1>8. l.type = "NOTIFICATION" /\ l.action = "move" => Detail(l) = l.detail
  BY DEF Detail, IsError
<1>9. Opens(a) <=> Opens(l)
  BY <1>1, <1>5, <1>7 DEF Opens
<1>10. (Starts(a) <=> Starts(l)) /\ (Moves(a) <=> Moves(l)) /\ (Finishes(a) <=> Finishes(l))
  BY <1>5, <1>8 DEF Starts, Moves, Finishes
<1>11. Starts(l) \/ Moves(l) \/ Finishes(l) => Heeded(l)
  BY DEF Starts, Moves, Finishes, Heeded
<1> QED BY <1>5, <1>6, <1>9, <1>10, <1>11 DEF a, m

\* What q is told when a step takes him from w to v: a match of his own or a game
\* ends, and the turn passes, only with a letter to him; but who expects no match
\* of his own has left it himself.
Warned(q, c, w, v) ==
  \/ \E l : Carries(out', q, l) /\ (Starts(l) \/ Finishes(l))
  \/ /\ w.own \subseteq v.own \/ Unexpecting(c)
     /\ w.over \subseteq v.over /\ w.stuck \subseteq v.stuck
     /\ \A id, n : <<id, n>> \in w.plays =>
          \/ id \in v.over
          \/ /\ <<id, n>> \in v.plays
             /\ v.turn[id] = w.turn[id] \/ \E l : Carries(out', q, l) /\ Moves(l)

LEMMA DeliveryKeepsAware ==
  ASSUME TypeOK', out' \in Mailings(matches'), NEW more, more = DOMAIN matches',
         NEW clients \in [Players -> Clients(more)], Deliver(clients),
         NEW q \in Players, NEW s, q = s => clients[q].outbox = << >>,
         NEW w, NEW v, v = Standing(matches', q), Aware(clients[q], w),
         NEW g, TruthOf(q, s, g), Warned(q, clients[q], w, v)
  PROVE  Aware(client'[q], v)
<1> DEFINE table == matches'
           letters == out'[q]
           post == Arriving(q, letters, table)
           c == clients[q]
<1>1. table \in Seq(Matches) /\ letters \in Seq(Letters(table)) /\ c \in Clients(more)
  BY DEF TypeOK, Mailings
<1>2. client'[q] = [c EXCEPT !.inbox = @ \o post]
  BY Delivered
<1>3. post \in Seq(Post(more))
  BY <1>1, ArrivalType
<1>4. ASSUME NEW k \in DOMAIN post
      PROVE  \E l \in Letters(table) : Carries(out', q, l) /\ post[k] = Arrived(q, l, table)
  <2>1. PICK j \in DOMAIN letters : post[k] = Arrived(q, letters[j], table)
    <3> HIDE DEF table, letters
    <3> QED BY <1>1, ArrivalFrom
  <2>2. Carries(out', q, letters[j])
    BY DEF Carries
  <2>3. letters[j] \in Letters(table)
    <3> HIDE DEF table, letters
    <3> QED BY <1>1
  <2> QED BY <2>1, <2>2, <2>3
<1>5. ASSUME NEW l, Carries(out', q, l), Starts(l) \/ Moves(l) \/ Finishes(l)
      PROVE  l \in Letters(table) /\ \E k \in DOMAIN post : post[k] = Arrived(q, l, table)
  <2>1. PICK j \in DOMAIN letters : letters[j] = l
    BY <1>5 DEF Carries
  <2>2. l \in Letters(table)
    <3> HIDE DEF table, letters
    <3> QED BY <1>1, <2>1
  <2>3. Heeded(letters[j])
    BY <1>5, <2>1, <2>2, LetterSays
  <2> HIDE DEF table, letters
  <2> QED BY <1>1, <2>1, <2>2, <2>3, ArrivalHolds
<1> HIDE DEF post, letters
<1>6. Reports(post, c, g, v)
  <2> SUFFICES ASSUME NEW k \in DOMAIN post
               PROVE  /\ Opens(post[k]) => post[k].match \in v.own /\ c.outbox = << >>
                      /\ Starts(post[k]) => <<post[k].match, post[k].number>> \in v.plays
                      /\ Starts(post[k]) \/ Moves(post[k]) =>
                           post[k].match = g /\ post[k].turn = v.turn[g]
                      /\ Moves(post[k]) => Finishes(post[k]) \/ g \in v.stuck
    BY DEF Reports
  <2>1. PICK l \in Letters(table) : Carries(out', q, l) /\ post[k] = Arrived(q, l, table)
    BY <1>4
  <2> DEFINE a == post[k]
  <2>2. /\ a.match = l.match
        /\ Opens(a) <=> Opens(l)
        /\ Starts(a) <=> Starts(l)
        /\ Moves(a) <=> Moves(l)
        /\ Finishes(a) <=> Finishes(l)
        /\ Starts(l) \/ Moves(l) => a.turn = table[l.match].current_turn
        /\ Starts(l) => a.number = IF q = table[l.match].player1_id THEN 1 ELSE 2
    BY <2>1, LetterSays
  <2>3. /\ Tidings(l) => l.match = g /\ g \in DOMAIN table
        /\ Opens(l) => q = s /\ Owns(table, q, g)
        /\ Starts(l) => Plays(table, q, g)
        /\ Moves(l) => Finishes(l) \/ Stuck(table, q, g)
    BY <2>1 DEF TruthOf
  <2> HIDE DEF a, table
  <2>4. g \in DOMAIN table =>
          /\ Owns(table, q, g) => g \in v.own
          /\ Stuck(table, q, g) => g \in v.stuck
          /\ v.turn[g] = table[g].current_turn
          /\ Plays(table, q, g) => <<g, IF q = table[g].player1_id THEN 1 ELSE 2>> \in v.plays
    <3>1. v = Standing(table, q)
      BY DEF table
    <3> QED BY <3>1, StandingIs DEF Plays, is_player_in_match
  <2>5. /\ Opens(a) => a.match \in v.own /\ c.outbox = << >>
        /\ Starts(a) => <<a.match, a.number>> \in v.plays
        /\ Starts(a) \/ Moves(a) => a.match = g /\ a.turn = v.turn[g]
        /\ Moves(a) => Finishes(a) \/ g \in v.stuck
    BY <2>2, <2>3, <2>4 DEF Tidings
  <2> QED BY <2>5 DEF a
<1>7. Abides(post, c, w, v)
  <2>1. ASSUME NEW l, Carries(out', q, l), Starts(l) \/ Finishes(l)
        PROVE  \E k \in DOMAIN post : Diverts(post[k])
    BY <1>5, <2>1, LetterSays DEF Diverts
  <2>2. ASSUME NEW l, Carries(out', q, l), Moves(l)
        PROVE  \E k \in DOMAIN post : Moves(post[k])
    BY <1>5, <2>2, LetterSays
  <2> HIDE DEF table
  <2> QED BY <2>1, <2>2 DEF Abides, Warned
<1> HIDE DEF table, c
<1>8. Aware([c EXCEPT !.inbox = @ \o post], v)
  BY <1>1, <1>3, <1>6, <1>7, AwareGets DEF c
<1> QED BY <1>2, <1>8

LEMMA StepWarns ==
  ASSUME TypeOK, TypeOK', AllSound, [Next]_vars, NEW q \in Players, Connected(q), NEW c,
         NEW w, w = Standing(matches, q), NEW v, v = Standing(matches', q),
         \A id \in DOMAIN matches : Owns(matches, q, id) =>
           \/ Owns(matches', q, id) \/ Tells(out', q, {"match_started"}, id) \/ Unexpecting(c)
  PROVE  Warned(q, c, w, v)
<1> SUFFICES ASSUME \A l : Carries(out', q, l) => ~Starts(l) /\ ~Finishes(l)
             PROVE  /\ w.own \subseteq v.own \/ Unexpecting(c)
                    /\ w.over \subseteq v.over /\ w.stuck \subseteq v.stuck
                    /\ \A id, n : <<id, n>> \in w.plays =>
                         \/ id \in v.over
                         \/ /\ <<id, n>> \in v.plays
                            /\ \/ v.turn[id] = w.turn[id]
                               \/ \E l : Carries(out', q, l) /\ Moves(l)
  BY DEF Warned
<1>1. DOMAIN matches \subseteq DOMAIN matches'
  BY TableGrows
<1>2. ASSUME NEW id, id \in w.own, ~Unexpecting(c) PROVE id \in v.own
  <2>1. id \in DOMAIN matches /\ Owns(matches, q, id)
    BY <1>2, StandingIs
  <2>2. ~Tells(out', q, {"match_started"}, id)
    <3>1. \A l : Carries(out', q, l) => l.action # "match_started"
      BY DEF Starts
    <3> QED BY <3>1 DEF Tells, Carries
  <2>3. Owns(matches', q, id)
    BY <1>2, <2>1, <2>2
  <2> QED BY <1>1, <2>1, <2>3, StandingIs
<1>3. ASSUME NEW id, id \in w.over PROVE id \in v.over
  <2>1. id \in DOMAIN matches /\ Dead(matches, id)
    BY <1>3, StandingIs
  <2>2. Dead(matches', id)
    BY <2>1, DeadStays
  <2> QED BY <1>1, <2>1, <2>2, StandingIs
<1>4. ASSUME NEW id \in DOMAIN matches, Plays(matches, q, id)
      PROVE  LET m == matches[id]
                 n == matches'[id]
             IN  /\ SameSeats(m, n)
                 /\ \/ /\ n.state = "ACTIVE"
                       /\ \/ n.current_turn = m.current_turn
                          \/ \E l : Carries(out', q, l) /\ Moves(l)
                    \/ Dead(matches', id)
  BY <1>4, PlayerStays
<1>5. ASSUME NEW id, id \in w.stuck PROVE id \in v.stuck
  <2>1. id \in DOMAIN matches /\ Stuck(matches, q, id)
    BY <1>5, StandingIs
  <2>2. SameSeats(matches[id], matches'[id])
        /\ (matches'[id].state = "ACTIVE" \/ Dead(matches', id))
    <3>1. CASE Dead(matches, id)
      BY <2>1, <3>1, DeadStays
    <3>2. CASE Plays(matches, q, id)
      BY <1>4, <2>1, <3>2
    <3> QED BY <2>1, <3>1, <3>2 DEF Stuck, Plays
  <2>3. Stuck(matches', q, id)
    BY <2>1, <2>2 DEF Stuck, is_player_in_match, SameSeats
  <2> QED BY <1>1, <2>1, <2>3, StandingIs
<1>6. ASSUME NEW id, NEW n, <<id, n>> \in w.plays
      PROVE  \/ id \in v.over
             \/ /\ <<id, n>> \in v.plays
                /\ \/ v.turn[id] = w.turn[id]
                   \/ \E l : Carries(out', q, l) /\ Moves(l)
  <2>1. /\ id \in DOMAIN matches /\ id \in DOMAIN matches' /\ n \in {1, 2}
        /\ matches[id].state = "ACTIVE"
        /\ q = IF n = 1 THEN matches[id].player1_id ELSE matches[id].player2_id
    BY <1>1, <1>6, StandingIs
  <2>2. Plays(matches, q, id)
    BY <2>1 DEF Plays, is_player_in_match
  <2>3. /\ SameSeats(matches[id], matches'[id])
        /\ \/ /\ matches'[id].state = "ACTIVE"
              /\ \/ matches'[id].current_turn = matches[id].current_turn
                 \/ \E l : Carries(out', q, l) /\ Moves(l)
           \/ Dead(matches', id)
    BY <1>4, <2>1, <2>2
  <2>4. Dead(matches', id) => id \in v.over
    BY <2>1, StandingIs
  <2>5. matches'[id].state = "ACTIVE" => <<id, n>> \in v.plays
    BY <2>1, <2>3, StandingIs DEF SameSeats
  <2>6. v.turn[id] = matches'[id].current_turn /\ w.turn[id] = matches[id].current_turn
    BY <2>1 DEF Standing
  <2> QED BY <2>3, <2>4, <2>5, <2>6
<1> QED BY <1>2, <1>3, <1>5, <1>6

AllAware == \A p \in Players : Serving(p) => Aware(client[p], Standing(matches, p))

LEMMA ServeKeepsAware ==
  ASSUME AllTyped, AllTyped', AllPatient, AllAware, NEW s \in Players, Serve(s),
         NEW q \in Players, Serving(q), NEW v, v = Standing(matches', q)
  PROVE  Aware(client'[q], v)
<1> DEFINE w == Standing(matches, q)
           more == DOMAIN matches'
           r == Head(client[s].outbox)
           left == [client[s] EXCEPT !.outbox = Tail(@)]
           clients == [client EXCEPT ![s] = left]
<1>1. /\ Next /\ [Next]_vars /\ TypeOK /\ TypeOK' /\ AllSound /\ AllSound'
      /\ out' \in Mailings(matches') /\ Connected(q) /\ DOMAIN matches \subseteq more
  BY ServerActs, StepIsMail, TableGrows DEF AllTyped, Serving
<1>2. client \in [Players -> Clients(more)]
  <2>1. Clients(DOMAIN matches) \subseteq Clients(more)
    BY <1>1, ClientGrows
  <2> QED BY <2>1 DEF AllTyped, ClientsTyped
<1>3. left \in Clients(more) /\ r \in Errands
  BY <1>2, OutboxShrinks DEF Serve
<1>4. Handler(s, r) /\ clients = [client EXCEPT ![s].outbox = Tail(@)] /\ Serving(s)
  <2>1. Handler(s, r) /\ clients = [client EXCEPT ![s].outbox = Tail(@)]
    BY DEF Serve
  <2>2. Serving(s)
    <3> HIDE DEF r
    <3> QED BY <2>1 DEF Handler, Register, CreateMatch, JoinMatch, AcceptJoin, RejectJoin,
                        CancelJoin, Move, Rematch, QuitMatch
  <2> QED BY <2>1, <2>2
<1>5. clients \in [Players -> Clients(more)] /\ Deliver(clients)
  <2>1. Deliver(clients)
    BY <1>4 DEF Serve
  <2> QED BY <1>2, <1>3, <2>1
<1>6. /\ Aware(left, Standing(matches, s)) /\ left.outbox = << >>
      /\ r.action = "quit_match" => Unexpecting(left)
  <2>1. /\ client[s] \in Clients(more) /\ client[s].outbox # << >> /\ Len(client[s].outbox) <= 1
        /\ Aware(client[s], Standing(matches, s))
    BY <1>2, <1>4 DEF Serve, AllPatient, AllAware, Patient
  <2> QED BY <2>1, AwareServed
<1>7. /\ q = s => clients[q] = left
      /\ q # s => clients[q] = client[q]
  BY <1>2
<1> HIDE DEF left, clients, r
<1>8. Aware(clients[q], w)
  BY <1>6, <1>7 DEF AllAware
<1>9. ASSUME NEW id \in DOMAIN matches, Owns(matches, q, id)
      PROVE  \/ Owns(matches', q, id) \/ Tells(out', q, {"match_started"}, id)
             \/ Unexpecting(clients[q])
  BY <1>1, <1>3, <1>4, <1>6, <1>7, <1>9, OwnerStays
<1> HIDE DEF w
<1>10. Warned(q, clients[q], w, v)
  BY <1>1, <1>9, StepWarns DEF w
<1>11. PICK g : TruthOf(q, s, g)
  BY <1>1, <1>3, <1>4, ServedIsTrue
<1>12. q = s => clients[q].outbox = << >>
  BY <1>6, <1>7
<1> QED BY <1>1, <1>5, <1>8, <1>10, <1>11, <1>12, DeliveryKeepsAware

LEMMA LoseKeepsAware ==
  ASSUME AllTyped, AllTyped', AllAware, NEW s \in Players, Lose(s),
         NEW q \in Players, Serving(q), q # s, NEW v, v = Standing(matches', q)
  PROVE  Aware(client'[q], v)
<1> DEFINE w == Standing(matches, q)
           more == DOMAIN matches'
           clients == [client EXCEPT ![s] = NewClient]
<1>1. /\ Next /\ [Next]_vars /\ TypeOK /\ TypeOK' /\ AllSound /\ AllSound'
      /\ out' \in Mailings(matches') /\ Connected(q) /\ Disconnect(s)
  BY ServerActs, StepIsMail DEF AllTyped, Serving, Lose
<1>2. client \in [Players -> Clients(more)]
  <2>1. DOMAIN matches \subseteq more
    BY <1>1, TableGrows
  <2>2. Clients(DOMAIN matches) \subseteq Clients(more)
    BY <2>1, ClientGrows
  <2> QED BY <2>2 DEF AllTyped, ClientsTyped
<1>3. clients \in [Players -> Clients(more)] /\ Deliver(clients) /\ clients[q] = client[q]
  BY <1>2, NewClientType DEF Lose
<1> HIDE DEF clients
<1>4. Aware(clients[q], w)
  BY <1>3 DEF AllAware
<1>5. \A id \in DOMAIN matches : Owns(matches, q, id) => Owns(matches', q, id)
  BY <1>1, OwnerStaysBehind
<1> HIDE DEF w
<1>6. Warned(q, clients[q], w, v)
  BY <1>1, <1>5, StepWarns DEF w
<1>7. PICK g : TruthOf(q, s, g)
  <2>1. Mute(out', News \ {"join_match"})
    BY <1>1, MuteDisconnection DEF News
  <2> QED BY <2>1, NoTidings
<1> QED BY <1>1, <1>3, <1>4, <1>6, <1>7, DeliveryKeepsAware

LEMMA ServerStepKeepsAware ==
  ASSUME AllTyped, AllTyped', AllCame, AllPatient, AllAware,
         NEW s \in Players, Open(s) \/ Serve(s) \/ Lose(s) \/ Mark(s),
         NEW q \in Players, Serving(q)', NEW v, v = Standing(matches', q)
  PROVE  Aware(client'[q], v)
<1>1. /\ Next /\ TypeOK /\ client \in [Players -> Clients(DOMAIN matches)]
  BY ServerActs DEF AllTyped, ClientsTyped
<1>2. CASE Open(s) /\ s = q
  <2>1. client[s] = NewClient
    BY <1>2 DEF Open, Connect, AllCame
  <2>2. client'[q] = sendMessage(NewClient, createRequestMessage("register", 0, 0))
    BY <1>1, <1>2, <2>1 DEF Open
  <2> QED BY <2>2, OpenedIsAware
<1>3. CASE Open(s) /\ s # q
  <2>1. matches' = matches /\ client'[q] = client[q]
    BY <1>1, <1>3 DEF Open, Connect
  <2>2. Serving(q)
    BY <1>1, <1>3 DEF Open, Connect, Serving, Connected, TypeOK
  <2> QED BY <2>1, <2>2 DEF AllAware
<1>4. CASE Mark(s)
  <2>1. matches' = matches /\ client' = client
    BY <1>4 DEF Mark, MarkDisconnected
  <2>2. Serving(q)
    BY <1>1, <1>4, ServedBefore DEF Mark
  <2> QED BY <2>1, <2>2 DEF AllAware
<1>5. CASE Serve(s)
  <2> DEFINE r == Head(client[s].outbox)
  <2>1. r \in Errands /\ Handler(s, r)
    BY <1>1, <1>5, OutboxShrinks DEF Serve
  <2> HIDE DEF r
  <2>2. Serving(q)
    BY <1>1, <2>1, ServedIsHandled, ServedBefore
  <2> QED BY <1>5, <2>2, ServeKeepsAware
<1>6. CASE Lose(s)
  <2>1. Serving(q)
    BY <1>1, <1>6, ServedBefore DEF Lose
  <2>2. q # s
    <3>1. leaving' = leaving \cup {s}
      BY <1>6 DEF Lose, Disconnect
    <3> QED BY <3>1 DEF Serving
  <2> QED BY <1>6, <2>1, <2>2, LoseKeepsAware
<1> QED BY <1>2, <1>3, <1>4, <1>5, <1>6

LEMMA StepPreservesAware ==
  ASSUME AllTyped, AllTyped', AllCame, AllPatient, AllAware, [PromptNext]_allVars
  PROVE  AllAware'
<1> SUFFICES ASSUME NEW q \in Players, Serving(q)', NEW v, v = Standing(matches', q)
             PROVE  Aware(client'[q], v)
  BY DEF AllAware
<1>1. ASSUME UNCHANGED vars
      PROVE  Serving(q) /\ v = Standing(matches, q)
  BY <1>1 DEF vars, Serving, Connected
<1>2. CASE UNCHANGED allVars
  BY <1>1, <1>2 DEF allVars, AllAware
<1>3. ASSUME NEW s \in Players, Open(s) \/ Serve(s) \/ Lose(s) \/ Mark(s)
      PROVE  Aware(client'[q], v)
  BY <1>3, ServerStepKeepsAware
<1>4. DOMAIN matches \in SUBSET MatchIds /\ client \in [Players -> Clients(DOMAIN matches)]
  BY DEF AllTyped, ClientsTyped
<1>5. ASSUME NEW p \in Players, HandleMessage(p)
      PROVE  Aware(client'[q], v)
  <2>1. Serving(q) /\ v = Standing(matches, q) /\ client[q] \in Clients(DOMAIN matches)
    BY <1>1, <1>4, <1>5 DEF HandleMessage
  <2>2. Aware(client[q], v)
    BY <2>1 DEF AllAware
  <2>3. CASE p # q
    BY <1>4, <1>5, <2>2, <2>3 DEF HandleMessage
  <2>4. CASE p = q
    <3>1. client'[q] = handleMessage(client[q], q) /\ client[q].inbox # << >>
      BY <1>4, <1>5, <2>4 DEF HandleMessage
    <3>2. Aware(handleMessage(client[q], q), v)
      BY <1>4, <2>1, <2>2, <3>1, AwareHandled
    <3> QED BY <3>1, <3>2
  <2> QED BY <2>3, <2>4
<1>6. ASSUME NEW p \in Players, Caught(p), User(p)
      PROVE  Aware(client'[q], v)
  <2>1. UNCHANGED vars
    BY <1>6 DEF User, ClickCreate, ClickCancel, ClickLeave, ClickJoin, ClickColumn,
                AnswerDialog, Acts
  <2>2. Serving(q) /\ v = Standing(matches, q)
    BY <1>1, <2>1
  <2>3. Aware(client[q], v)
    BY <2>2 DEF AllAware
  <2>4. PICK after : client' = [client EXCEPT ![p] = after] /\ ActsOnce(client[p], after)
    BY <1>4, <1>6, UserActsOnce
  <2>5. CASE p # q
    BY <1>4, <2>3, <2>4, <2>5
  <2>6. CASE p = q
    <3>1. client'[q] = after /\ client[q].inbox = << >> /\ ActsOnce(client[q], after)
      BY <1>4, <1>6, <2>4, <2>6 DEF Caught
    <3>2. Aware(after, v)
      BY <2>3, <3>1, AwareActs
    <3> QED BY <3>1, <3>2
  <2> QED BY <2>5, <2>6
<1> QED BY <1>2, <1>3, <1>5, <1>6 DEF PromptNext

LEMMA AwareIsTrue ==
  ASSUME AllTyped, AllAware
  PROVE  ScreensTellTheTruth
<1> SUFFICES ASSUME NEW p \in Players, Idle(p)
             PROVE  LET c == client[p]
                        m == matches[c.currentMatchId]
                    IN  /\ c.matchState = "WAITING" =>
                             m.state \in {"WAITING_FOR_OPPONENT", "JOIN_PENDING"} /\ m.creator_id = p
                        /\ c.matchState = "ACTIVE" /\ m.state # "ABANDONED" =>
                             PlaysAsShown(p) /\ (SeatedElsewhere(p) \/ c.currentTurn = m.current_turn)
  BY DEF ScreensTellTheTruth
<1> DEFINE c == client[p]
           id == c.currentMatchId
           w == Standing(matches, p)
<1>1. Aware(c, w) /\ c.inbox = << >>
  BY DEF AllAware, Idle, Caught
<1>2. DOMAIN << >> = {}
  OBVIOUS
<1>3. 0 \in Places(c) /\ Lasts(c, 0)
  BY <1>1, <1>2 DEF Places, Lasts
<1>4. /\ c.matchState = "WAITING" => id \in w.own
      /\ c.matchState = "ACTIVE" =>
           \/ id \in w.over
           \/ /\ <<id, c.myPlayerNumber>> \in w.plays
              /\ (\E i \in w.stuck : i # id) \/ c.currentTurn = w.turn[id]
  <2>1. Right(c, 0, w)
    BY <1>1, <1>3 DEF Aware
  <2>2. \A t : TurnLasts(c, 0, t) => c.currentTurn = t
    BY <1>1, <1>2, <1>3 DEF TurnLasts, TurnAt
  <2> QED BY <2>1, <2>2 DEF Right, ShowsOwn, ShowsGame, MatchAt, SeatAt
<1> HIDE DEF w
<1>5. id \in w.own =>
        matches[id].state \in {"WAITING_FOR_OPPONENT", "JOIN_PENDING"} /\ matches[id].creator_id = p
  <2>1. id \in w.own => Owns(matches, p, id)
    BY DEF w, Standing
  <2> QED BY <2>1 DEF Owns
<1>6. id \in w.over => matches[id].state = "ABANDONED"
  BY StandingIs DEF w, Dead
<1>7. <<id, c.myPlayerNumber>> \in w.plays =>
        PlaysAsShown(p) /\ w.turn[id] = matches[id].current_turn
  BY StandingIs DEF w, PlaysAsShown
<1>8. (\E i \in w.stuck : i # id) => SeatedElsewhere(p)
  BY StandingIs DEF w, SeatedElsewhere, Stuck
<1> QED BY <1>4, <1>5, <1>6, <1>7, <1>8

\* A screen that has heard everything tells the truth (ScreensTellTheTruth): who
\* waits for an opponent owns an open match, who plays does so in the seat and at
\* the turn he sees, but for a match he closed himself while it was started and
\* for a seat left in another match; as long as a user does nothing more while an
\* answer is on its way, and with any number of clients and matches
\* (GameController and GameModel against CREATE_MATCH, ACCEPT_JOIN, MOVE, REMATCH,
\* QUIT_MATCH and client_thread_handler in main.c).
THEOREM ScreensAreTrue == PromptSystem => []ScreensTellTheTruth
<1>1. PromptSystem => System
  BY PromptIsSystem, PTL DEF PromptSystem, System
<1>2. SystemInit => AllCame /\ AllPatient /\ AllAware
  <2>1. SystemInit => AllCame
    BY DEF SystemInit, Init, AllCame
  <2>2. SystemInit => AllPatient
    BY NewIsPatient DEF SystemInit, AllPatient
  <2>3. SystemInit => AllAware
    BY NewIsAware DEF SystemInit, AllAware
  <2> QED BY <2>1, <2>2, <2>3
<1>3. AllTyped /\ AllTyped' /\ (AllCame /\ AllPatient /\ AllAware) /\ [PromptNext]_allVars =>
        (AllCame /\ AllPatient /\ AllAware)'
  BY StepPreservesCame, StepPreservesPatient, StepPreservesAware, PromptIsSystem
<1>4. AllTyped /\ AllAware => ScreensTellTheTruth
  BY AwareIsTrue
<1> QED BY <1>1, <1>2, <1>3, <1>4, AllInvariant, PTL DEF PromptSystem
=============================================================================
