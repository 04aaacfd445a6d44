--------------------------- MODULE FramingProofs ---------------------------
(***************************************************************************)
(* Proofs about the receiving end of a connection.  The inductive          *)
(* invariant says where, in the bytes buffered and in flight, each line    *)
(* not yet taken ends: off[i] is the place of the newline of line i.       *)
(***************************************************************************)
EXTENDS FramingProperties, SequenceTheorems, TLAPS

B == Bytes \cup {NL}

Stream == buf \o net

\* off places the lines of ls from number k + 1 to N in the n bytes of s, which
\* may end before the last of them does.
Places(off, k, N, ls, n, s) ==
  /\ off \in [k .. N -> Nat]
  /\ off[k] = 0
  /\ \A i \in k + 1 .. N : off[i] = off[i - 1] + Len(ls[i]) + 1
  /\ \A i, j \in k .. N : i <= j => off[i] <= off[j]
  /\ \A i \in k + 1 .. N :
       /\ \A j \in 1 .. Len(ls[i]) : off[i - 1] + j <= n => s[off[i - 1] + j] = ls[i][j]
       /\ off[i] <= n => s[off[i]] = NL
  /\ n <= off[N]

\* s goes as far as the last of those lines does.
Whole(off, N, n) == n = off[N]

Refused == msg = Error("refused")

\* The bytes on their way are the lines not yet taken, and all of them unless
\* the connection was reset.
Carried == \E off : /\ Places(off, Len(taken), Len(sent), sent, Len(Stream), Stream)
                    /\ client # "reset" => Whole(off, Len(sent), Len(Stream))

\* The lines taken are the first lines sent.
TakenInOrder == /\ Len(taken) <= Len(sent)
                /\ \A i \in 1 .. Len(taken) : taken[i] = sent[i]

\* An error is the last thing the thread sees, and it tells the truth.
ErrorsSound ==
  /\ msg.kind = "error" => pc \in {"look", "gone"}
  /\ pc = "gone" => msg.kind = "error"
  /\ msg = Error("closed") => /\ client # "open"
                              /\ client = "closed" => Len(taken) = Len(sent)
  /\ msg = Error("complaint") => Len(taken) > 0 /\ taken[Len(taken)] \in Complaints
  /\ \A i \in 1 .. Len(taken) : taken[i] \in Complaints => msg = Error("complaint")

IInv == /\ TypeOK
        /\ BufferFits
        /\ ShortLinesNeverRefused
        /\ TakenInOrder
        /\ ErrorsSound
        /\ sockerr => client = "reset"
        /\ ~Refused => Carried

-----------------------------------------------------------------------------
\* The first newline of a buffer that begins with the line l is the one after
\* l: what is cut out is l, and what is left are the bytes behind it.
LEMMA CutLine ==
  ASSUME NEW b \in Seq(B), NEW l \in Seq(Bytes), HasLine(b),
         \A j \in 1 .. Len(l) : j <= Len(b) => b[j] = l[j],
         Len(l) + 1 <= Len(b) => b[Len(l) + 1] = NL
  PROVE  /\ FirstNewline(b) = Len(l) + 1
         /\ Len(l) + 1 <= Len(b)
         /\ SubSeq(b, 1, FirstNewline(b) - 1) = l
         /\ Rest(b) \in Seq(B)
         /\ Len(Rest(b)) = Len(b) - (Len(l) + 1)
         /\ \A i \in 1 .. Len(Rest(b)) : Rest(b)[i] = b[i + (Len(l) + 1)]
<1> DEFINE n == Len(l) + 1
<1>1. Len(l) \in Nat /\ Len(b) \in Nat /\ \A j \in 1 .. Len(l) : l[j] \in Bytes
  BY LenProperties, ElementOfSeq
<1>2. \A j \in 1 .. Len(l) : l[j] # NL
  BY <1>1, FramingAssumption
<1>3. PICK p \in 1 .. Len(b) : b[p] = NL
  BY DEF HasLine
<1>4. p > Len(l)
  BY <1>1, <1>2, <1>3
<1>5. n \in 1 .. Len(b) /\ b[n] = NL
  BY <1>1, <1>3, <1>4
<1>6. \A j \in 1 .. n - 1 : b[j] # NL
  BY <1>1, <1>2, <1>5
<1>7. \A i \in 1 .. Len(b) :
        (b[i] = NL /\ \A j \in 1 .. i - 1 : b[j] # NL) => i = n
  BY <1>1, <1>5, <1>6
<1>8. FirstNewline(b) = n
  BY <1>5, <1>6, <1>7 DEF FirstNewline
<1>9. \A i \in 1 .. Len(b) : b[i] \in B
  BY ElementOfSeq
<1>10. SubSeq(b, 1, n - 1) = l
  <2>1. /\ SubSeq(b, 1, n - 1) \in Seq(B)
        /\ Len(SubSeq(b, 1, n - 1)) = Len(l)
        /\ \A i \in 1 .. n - 1 : SubSeq(b, 1, n - 1)[i] = b[i]
    BY <1>1, <1>5, <1>9, SubSeqProperties, Z3
  <2>2. l \in Seq(B)
    BY SeqMonotonic DEF B
  <2> QED
    BY <2>1, <2>2, <1>1, <1>5, SeqEqual
<1>11. /\ SubSeq(b, n + 1, Len(b)) \in Seq(B)
       /\ Len(SubSeq(b, n + 1, Len(b))) = Len(b) - n
       /\ \A i \in 1 .. Len(b) - n : SubSeq(b, n + 1, Len(b))[i] = b[i + n]
  <2>1. \A i \in n + 1 .. Len(b) : b[i] \in B
    BY <1>1, <1>9
  <2>2. n + 1 \in Int /\ Len(b) \in Int
    BY <1>1
  <2>3. /\ SubSeq(b, n + 1, Len(b)) \in Seq(B)
        /\ Len(SubSeq(b, n + 1, Len(b))) = IF n + 1 <= Len(b) THEN Len(b) - (n + 1) + 1 ELSE 0
        /\ \A i \in 1 .. Len(b) - (n + 1) + 1 :
             SubSeq(b, n + 1, Len(b))[i] = b[(n + 1) + i - 1]
    BY <2>1, <2>2, SubSeqProperties
  <2> QED
    BY <2>3, <1>1, <1>5
<1> QED
  BY <1>1, <1>5, <1>8, <1>10, <1>11 DEF Rest

-----------------------------------------------------------------------------
\* The m bytes of t are the n bytes of s but the first c.
Behind(t, m, s, n, c) == m = n - c /\ \A i \in 1 .. m : t[i] = s[i + c]

LensAreNat(ls, k, N) == \A i \in k + 1 .. N : Len(ls[i]) \in Nat

\* o places the lines from number k + 2 on in what is left.
PlacesAfter(off, n, o, k, N, ls, m, t) ==
  Places(o, k + 1, N, ls, m, t) /\ (Whole(off, N, n) => Whole(o, N, m))

\* Once the line k + 1 is consumed from s, the lines after it have their places
\* in what is left.
LEMMA PlacesOfRest ==
  ASSUME NEW k \in Nat, NEW ls, NEW N \in Nat, k + 1 <= N, LensAreNat(ls, k, N),
         NEW s, NEW n \in Nat, NEW t, NEW m \in Nat,
         NEW off, Places(off, k, N, ls, n, s),
         Behind(t, m, s, n, off[k + 1])
  PROVE  \E o : PlacesAfter(off, n, o, k, N, ls, m, t)
<1> DEFINE c == off[k + 1]
           o == [i \in k + 1 .. N |-> off[i] - c]
<1>1. /\ off \in [k .. N -> Nat]
      /\ \A i \in k + 1 .. N : off[i] = off[i - 1] + Len(ls[i]) + 1
      /\ \A i, j \in k .. N : i <= j => off[i] <= off[j]
      /\ \A i \in k + 1 .. N : \A j \in 1 .. Len(ls[i]) :
           off[i - 1] + j <= n => s[off[i - 1] + j] = ls[i][j]
      /\ \A i \in k + 1 .. N : off[i] <= n => s[off[i]] = NL
      /\ n <= off[N]
  BY DEF Places
<1>2. c \in Nat /\ \A i \in k + 1 .. N : off[i] \in Nat /\ off[i] - c \in Nat
  <2>1. k + 1 \in k .. N /\ \A i \in k + 1 .. N : i \in k .. N /\ k + 1 <= i
    OBVIOUS
  <2>2. c \in Nat /\ \A i \in k + 1 .. N : off[i] \in Nat /\ c <= off[i]
    BY <1>1, <2>1
  <2> QED
    BY <2>2
<1>3. o \in [k + 1 .. N -> Nat] /\ o[k + 1] = 0
  BY <1>1, <1>2
<1>4. \A i \in k + 1 .. N : o[i] = off[i] - c
  OBVIOUS
<1>5. c \in Nat /\ m = n - c
  BY <1>2 DEF Behind
<1> HIDE DEF c, o
<1>6. ASSUME NEW i \in (k + 1) + 1 .. N
      PROVE  /\ off[i] \in Nat /\ off[i - 1] \in Nat /\ Len(ls[i]) \in Nat
             /\ o[i] = off[i] - c /\ o[i - 1] = off[i - 1] - c
             /\ o[i] = o[i - 1] + Len(ls[i]) + 1
  <2>1. i \in k + 1 .. N /\ i - 1 \in k + 1 .. N
    OBVIOUS
  <2>2. /\ off[i] \in Nat /\ off[i - 1] \in Nat /\ Len(ls[i]) \in Nat
        /\ off[i] = off[i - 1] + Len(ls[i]) + 1
    BY <1>1, <2>1 DEF LensAreNat
  <2>3. o[i] = off[i] - c /\ o[i - 1] = off[i - 1] - c
    BY <1>4, <2>1
  <2> QED
    BY <2>2, <2>3, <1>5
<1>7. \A i, j \in k + 1 .. N : i <= j => o[i] <= o[j]
  <2> TAKE i, j \in k + 1 .. N
  <2>1. i \in k .. N /\ j \in k .. N
    OBVIOUS
  <2>2. off[i] \in Nat /\ off[j] \in Nat /\ (i <= j => off[i] <= off[j])
    BY <1>1, <2>1
  <2> QED
    BY <2>2, <1>4, <1>5
<1>8. m <= o[N] /\ (n = off[N] => m = o[N])
  <2>1. o[N] = off[N] - c /\ off[N] \in Nat /\ n <= off[N]
    BY <1>1, <1>2, <1>4
  <2> QED
    BY <2>1, <1>5
<1>9. ASSUME NEW i \in (k + 1) + 1 .. N
      PROVE  /\ \A j \in 1 .. Len(ls[i]) : o[i - 1] + j <= m => t[o[i - 1] + j] = ls[i][j]
             /\ o[i] <= m => t[o[i]] = NL
  <2>1. /\ off[i] \in Nat /\ off[i - 1] \in Nat /\ Len(ls[i]) \in Nat
        /\ o[i] = off[i] - c /\ o[i - 1] = off[i - 1] - c
        /\ o[i] = o[i - 1] + Len(ls[i]) + 1
        /\ i \in k + 1 .. N
    BY <1>6
  <2>2. o[i - 1] \in Nat /\ o[i] \in Nat
    BY <1>3
  <2>5. /\ off[i] \in Nat /\ off[i - 1] \in Nat
        /\ o[i] = off[i] - c /\ o[i - 1] = off[i - 1] - c
        /\ o[i] >= 1
    BY <2>1, <2>2
  <2>3. ASSUME NEW j \in 1 .. Len(ls[i]), o[i - 1] + j <= m
        PROVE  t[o[i - 1] + j] = ls[i][j]
    <3>0. j \in Nat /\ j >= 1
      BY <2>1
    <3>1. o[i - 1] + j \in 1 .. m
      BY <2>2, <2>3, <3>0
    <3>4. (o[i - 1] + j) + c = off[i - 1] + j
      BY <2>5, <3>0, <1>5
    <3>2. (o[i - 1] + j) + c = off[i - 1] + j /\ off[i - 1] + j <= n
      BY <3>4, <2>2, <2>3, <3>0, <1>5
    <3>3. t[o[i - 1] + j] = s[off[i - 1] + j]
      BY <3>1, <3>2 DEF c, Behind
    <3> QED
      BY <1>1, <2>1, <3>2, <3>3
  <2>4. ASSUME o[i] <= m PROVE t[o[i]] = NL
    <3>1. o[i] \in 1 .. m /\ o[i] + c = off[i] /\ off[i] <= n
      BY <2>5, <2>2, <2>4, <1>5
    <3>2. t[o[i]] = s[off[i]]
      BY <3>1 DEF c, Behind
    <3> QED
      BY <1>1, <2>1, <3>1, <3>2
  <2> QED
    BY <2>3, <2>4
<1> QED
  BY <1>3, <1>6, <1>7, <1>8, <1>9 DEF Places, Whole, PlacesAfter

\* s begins with the L bytes of l and a newline, as far as its n bytes go.
BeginsWith(s, n, l, L) == /\ \A j \in 1 .. L : j <= n => s[j] = l[j]
                          /\ L + 1 <= n => s[L + 1] = NL

\* The stream begins with the first line that is not yet taken.
LEMMA FirstPlace ==
  ASSUME NEW k \in Nat, NEW N \in Nat, k + 1 <= N, NEW ls, NEW s, NEW n \in Nat,
         Len(ls[k + 1]) \in Nat,
         NEW off, Places(off, k, N, ls, n, s)
  PROVE  off[k + 1] = Len(ls[k + 1]) + 1 /\ BeginsWith(s, n, ls[k + 1], Len(ls[k + 1]))
<1> DEFINE L == Len(ls[k + 1])
<1>1. k + 1 \in k + 1 .. N /\ (k + 1) - 1 = k
  OBVIOUS
<1>2. off[k] = 0 /\ off[k + 1] = off[k] + L + 1
  BY <1>1 DEF Places
<1>3. off[k + 1] = L + 1
  BY <1>2
<1>4. /\ \A j \in 1 .. L : off[k] + j <= n => s[off[k] + j] = ls[k + 1][j]
      /\ off[k + 1] <= n => s[off[k + 1]] = NL
  BY <1>1 DEF Places
<1>5. \A j \in 1 .. L : 0 + j = j
  OBVIOUS
<1> QED
  BY <1>2, <1>3, <1>4, <1>5 DEF BeginsWith

\* Cutting a line: it is the next one sent, and the bytes that stay are the
\* lines after it.
LEMMA CutTakesNextLine ==
  ASSUME TypeOK, TakenInOrder, Carried, NEW b \in Seq(B), HasLine(b),
         net' \in Seq(B), b \o net' = Stream, Cut(b), UNCHANGED <<sent, client>>
  PROVE  /\ Len(taken) + 1 \in 1 .. Len(sent)
         /\ taken' = Append(taken, sent[Len(taken) + 1])
         /\ msg' = parse_json_message(sent[Len(taken) + 1])
         /\ buf' \in Seq(B) /\ Len(buf') <= Len(b)
         /\ Carried'
<1> DEFINE k == Len(taken)
           l == sent[k + 1]
<1>1. /\ sent \in Seq(Lines) /\ taken \in Seq(Seq(Bytes)) /\ buf \in Seq(B) /\ net \in Seq(B)
      /\ k \in Nat /\ Len(sent) \in Nat /\ Len(b) \in Nat /\ Len(net') \in Nat
      /\ k <= Len(sent)
  BY LenProperties DEF TypeOK, TakenInOrder, B
<1>2. /\ Len(Stream) = Len(b) + Len(net')
      /\ \A i \in 1 .. Len(b) + Len(net') :
           Stream[i] = IF i <= Len(b) THEN b[i] ELSE net'[i - Len(b)]
  BY ConcatProperties
<1>3. PICK off : /\ Places(off, k, Len(sent), sent, Len(Stream), Stream)
                 /\ client # "reset" => Whole(off, Len(sent), Len(Stream))
  BY DEF Carried
<1>4. Len(b) >= 1
  <2>1. PICK p \in 1 .. Len(b) : b[p] = NL
    BY DEF HasLine
  <2> QED
    BY <2>1, <1>1
<1>5. k + 1 \in 1 .. Len(sent)
  <2>1. off[k] = 0 /\ Len(Stream) <= off[Len(sent)]
    BY <1>3 DEF Places
  <2>2. Len(Stream) \in Nat /\ Len(Stream) >= 1
    BY <1>1, <1>2, <1>4
  <2>3. k # Len(sent)
    BY <2>1, <2>2
  <2> QED
    BY <1>1, <2>3
<1>b. /\ k + 1 <= Len(sent) /\ Len(Stream) \in Nat
      /\ Places(off, k, Len(sent), sent, Len(Stream), Stream)
  BY <1>1, <1>2, <1>3, <1>5
<1>6. l \in Seq(Bytes) /\ Len(l) \in Nat
  <2>1. l \in Lines
    BY <1>1, <1>5, ElementOfSeq
  <2> QED
    BY <2>1, FramingAssumption, LenProperties
<1>7. off[k + 1] = Len(l) + 1 /\ BeginsWith(Stream, Len(Stream), l, Len(l))
  BY <1>1, <1>b, <1>6, FirstPlace
<1>a. /\ \A i \in 1 .. Len(b) : Stream[i] = b[i]
      /\ \A i \in 1 .. Len(net') : Stream[i + Len(b)] = net'[i]
  BY <1>1, <1>2
<1>8. BeginsWith(b, Len(b), l, Len(l))
  <2>1. Len(Stream) >= Len(b) /\ \A j \in 1 .. Len(l) : j <= Len(b) => j \in 1 .. Len(b)
    BY <1>1, <1>2, <1>6
  <2>2. \A j \in 1 .. Len(l) : j <= Len(b) => b[j] = l[j]
    BY <2>1, <1>1, <1>2, <1>6, <1>7, <1>a DEF BeginsWith
  <2>3. Len(l) + 1 <= Len(b) => b[Len(l) + 1] = NL
    BY <2>1, <1>1, <1>2, <1>6, <1>7, <1>a DEF BeginsWith
  <2> QED
    BY <2>2, <2>3 DEF BeginsWith
<1>9. /\ FirstNewline(b) = Len(l) + 1
      /\ Len(l) + 1 <= Len(b)
      /\ SubSeq(b, 1, FirstNewline(b) - 1) = l
      /\ Rest(b) \in Seq(B)
      /\ Len(Rest(b)) = Len(b) - (Len(l) + 1)
      /\ \A i \in 1 .. Len(Rest(b)) : Rest(b)[i] = b[i + (Len(l) + 1)]
  BY <1>6, <1>8, CutLine DEF BeginsWith
<1>10. taken' = Append(taken, l) /\ msg' = parse_json_message(l) /\ buf' = Rest(b)
  BY <1>9 DEF Cut
<1>11. Len(taken') = k + 1
  BY <1>1, <1>6, <1>10
<1>12. Behind(Stream', Len(Stream'), Stream, Len(Stream), off[k + 1])
  <2>1. /\ Len(Stream') = Len(Rest(b)) + Len(net')
        /\ \A i \in 1 .. Len(Rest(b)) + Len(net') :
             Stream'[i] = IF i <= Len(Rest(b)) THEN Rest(b)[i] ELSE net'[i - Len(Rest(b))]
    BY <1>9, <1>10, ConcatProperties DEF Stream
  <2>2. PICK c \in Nat, r \in Nat, n \in Nat, m \in Nat :
          c = off[k + 1] /\ r = Len(Rest(b)) /\ n = Len(b) /\ m = Len(net')
    <3>1. Len(Rest(b)) \in Nat
      BY <1>9, LenProperties
    <3>2. off[k + 1] \in Nat
      BY <1>6, <1>7
    <3> QED
      BY <3>1, <3>2, <1>1
  <2>3. c <= n /\ r = n - c /\ Len(Stream) = n + m /\ Len(Stream') = r + m
    BY <1>2, <1>7, <1>9, <2>1, <2>2
  <2>4. ASSUME NEW i \in 1 .. r PROVE Stream'[i] = Stream[i + c]
    <3>1. Stream'[i] = Rest(b)[i]
      BY <2>1, <2>2
    <3>2. Rest(b)[i] = b[i + c]
      BY <1>7, <1>9, <2>2
    <3>3. i + c \in 1 .. n
      BY <2>3
    <3> QED
      BY <3>1, <3>2, <3>3, <1>a, <2>2
  <2>5. ASSUME NEW i \in r + 1 .. r + m PROVE Stream'[i] = Stream[i + c]
    <3>1. i \in 1 .. r + m /\ ~(i <= r) /\ i - r \in 1 .. m /\ (i - r) + n = i + c
      BY <2>3
    <3>2. Stream'[i] = net'[i - r]
      BY <2>1, <2>2, <3>1
    <3>3. Stream[(i - r) + n] = net'[i - r]
      BY <1>a, <2>2, <3>1
    <3> QED
      BY <3>1, <3>2, <3>3
  <2>7. ASSUME NEW i \in 1 .. r + m PROVE Stream'[i] = Stream[i + c]
    <3>1. i \in 1 .. r \/ i \in r + 1 .. r + m
      BY <2>2
    <3> QED
      BY <2>4, <2>5, <3>1
  <2>8. Len(Stream') = Len(Stream) - c
    BY <2>3
  <2> QED
    BY <2>2, <2>3, <2>7, <2>8 DEF Behind
<1>13. Carried'
  <2>1. LensAreNat(sent, k, Len(sent))
    BY <1>1, ElementOfSeq, LenProperties, FramingAssumption DEF LensAreNat
  <2>2. Len(Stream) \in Nat /\ Len(Stream') \in Nat
    BY <1>1, <1>9, <1>10, ConcatProperties, LenProperties DEF Stream
  <2>3. \E o : /\ Places(o, k + 1, Len(sent), sent, Len(Stream'), Stream')
               /\ Whole(off, Len(sent), Len(Stream)) => Whole(o, Len(sent), Len(Stream'))
    <3>1. PICK N \in Nat, n \in Nat, m \in Nat, q \in Nat :
            N = Len(sent) /\ n = Len(Stream) /\ m = Len(Stream') /\ q = k
      BY <1>1, <2>2
    <3>2. /\ q + 1 <= N /\ LensAreNat(sent, q, N) /\ Places(off, q, N, sent, n, Stream)
          /\ Behind(Stream', m, Stream, n, off[q + 1])
      BY <1>b, <1>12, <2>1, <3>1
    <3>3. PICK o : PlacesAfter(off, n, o, q, N, sent, m, Stream')
      BY <3>2, PlacesOfRest
    <3> QED
      BY <3>1, <3>3 DEF PlacesAfter
  <2> QED
    BY <1>3, <1>11, <2>3 DEF Carried
<1>14. buf' \in Seq(B) /\ Len(buf') <= Len(b)
  <2>1. Len(Rest(b)) \in Nat
    BY <1>9, LenProperties
  <2>3. PICK n \in Nat, m \in Nat, r \in Nat :
          n = Len(b) /\ m = Len(l) /\ r = Len(Rest(b))
    BY <1>1, <1>6, <2>1
  <2>4. r = n - (m + 1)
    BY <1>9, <2>3
  <2>5. r <= n
    BY <2>4
  <2>2. Len(Rest(b)) <= Len(b)
    BY <2>3, <2>5
  <2> QED
    BY <1>9, <1>10, <2>2
<1> QED
  BY <1>5, <1>10, <1>13, <1>14
-----------------------------------------------------------------------------
\* The m bytes of t are the first of s.
Begins(t, m, s) == \A i \in 1 .. m : t[i] = s[i]

\* A stream that is cut short (its last bytes are lost) keeps the places.
LEMMA PlacesOfPrefix ==
  ASSUME NEW k \in Nat, NEW N \in Nat, k <= N, NEW ls, LensAreNat(ls, k, N),
         NEW s, NEW n \in Nat, NEW t, NEW m \in Nat, m <= n,
         NEW off, Places(off, k, N, ls, n, s), Begins(t, m, s)
  PROVE  Places(off, k, N, ls, m, t)
<1>1. /\ off \in [k .. N -> Nat]
      /\ off[k] = 0
      /\ \A i \in k + 1 .. N : off[i] = off[i - 1] + Len(ls[i]) + 1
      /\ \A i, j \in k .. N : i <= j => off[i] <= off[j]
      /\ n <= off[N]
  BY DEF Places
<1>2. m <= off[N]
  <2>1. off[N] \in Nat
    BY <1>1
  <2> QED
    BY <1>1, <2>1
<1>3. ASSUME NEW i \in k + 1 .. N
      PROVE  /\ \A j \in 1 .. Len(ls[i]) : off[i - 1] + j <= m => t[off[i - 1] + j] = ls[i][j]
             /\ off[i] <= m => t[off[i]] = NL
  <2>1. i \in k .. N /\ i - 1 \in k .. N
    OBVIOUS
  <2>2. PICK x \in Nat, y \in Nat, L \in Nat : x = off[i - 1] /\ y = off[i] /\ L = Len(ls[i])
    BY <1>1, <2>1 DEF LensAreNat
  <2>3. y >= 1
    <3>1. y = x + L + 1
      BY <1>1, <2>2
    <3> QED
      BY <3>1
  <2>4. /\ \A j \in 1 .. L : x + j <= n => s[x + j] = ls[i][j]
        /\ y <= n => s[y] = NL
    BY <2>2 DEF Places
  <2>5. ASSUME NEW j \in 1 .. L, x + j <= m PROVE t[x + j] = ls[i][j]
    <3>1. x + j \in 1 .. m /\ x + j <= n
      BY <2>5
    <3> QED
      BY <2>4, <3>1 DEF Begins
  <2>6. ASSUME y <= m PROVE t[y] = NL
    <3>1. y \in 1 .. m /\ y <= n
      BY <2>3, <2>6
    <3> QED
      BY <2>4, <3>1 DEF Begins
  <2> QED
    BY <2>2, <2>5, <2>6
<1> QED
  BY <1>1, <1>2, <1>3 DEF Places

\* ls2 are the N lines of ls and one more.
Extends(ls2, N, ls) == \A i \in 1 .. N : ls2[i] = ls[i]

\* The m bytes of t are the n of s, the L of l and a newline.
Glued(t, m, s, n, l, L) == /\ m = n + L + 1
                           /\ \A i \in 1 .. n : t[i] = s[i]
                           /\ \A j \in 1 .. L : t[n + j] = l[j]
                           /\ t[m] = NL

PlacesMore(o, k, N, ls, m, t) == Places(o, k, N + 1, ls, m, t) /\ Whole(o, N + 1, m)

\* A line written behind a stream that goes as far as its lines do.
LEMMA PlacesOfMore ==
  ASSUME NEW k \in Nat, NEW N \in Nat, k <= N, NEW ls, NEW ls2,
         LensAreNat(ls, k, N), Extends(ls2, N, ls),
         NEW L \in Nat, L = Len(ls2[N + 1]),
         NEW s, NEW n \in Nat, NEW t, NEW m \in Nat, Glued(t, m, s, n, ls2[N + 1], L),
         NEW off, Places(off, k, N, ls, n, s), Whole(off, N, n)
  PROVE  \E o : PlacesMore(o, k, N, ls2, m, t)
<1> DEFINE o == [i \in k .. N + 1 |-> IF i = N + 1 THEN m ELSE off[i]]
<1>1. /\ off \in [k .. N -> Nat]
      /\ off[k] = 0
      /\ \A i \in k + 1 .. N : off[i] = off[i - 1] + Len(ls[i]) + 1
      /\ \A i, j \in k .. N : i <= j => off[i] <= off[j]
      /\ off[N] = n
  BY DEF Places, Whole
<1>2. o \in [k .. N + 1 -> Nat] /\ o[k] = 0 /\ o[N + 1] = m
  BY <1>1
<1>3. \A i \in k .. N : o[i] = off[i]
  OBVIOUS
<1>4. m = n + L + 1
  BY DEF Glued
<1> HIDE DEF o
<1>5. ASSUME NEW i \in k + 1 .. N + 1
      PROVE  o[i] = o[i - 1] + Len(ls2[i]) + 1
  <2>1. CASE i = N + 1
    <3>1. o[i - 1] = n /\ o[i] = m
      <4>1. i - 1 = N /\ N \in k .. N
        BY <2>1
      <4> QED
        BY <4>1, <1>1, <1>2, <1>3, <2>1
    <3> QED
      BY <3>1, <2>1, <1>4
  <2>2. CASE i # N + 1
    <3>1. i \in k + 1 .. N /\ i - 1 \in k .. N /\ i \in k .. N /\ i \in 1 .. N
      BY <2>2
    <3>2. ls2[i] = ls[i]
      BY <3>1 DEF Extends
    <3>3. o[i] = off[i] /\ o[i - 1] = off[i - 1]
      BY <1>3, <3>1
    <3> QED
      BY <1>1, <3>1, <3>2, <3>3
  <2> QED
    BY <2>1, <2>2
<1>6. ASSUME NEW i \in k .. N + 1, NEW j \in k .. N + 1, i <= j PROVE o[i] <= o[j]
  <2>1. CASE j = N + 1
    <3>1. CASE i = N + 1
      BY <2>1, <3>1, <1>2
    <3>2. CASE i # N + 1
      <4>1. i \in k .. N /\ N \in k .. N /\ i <= N
        BY <3>2
      <4>2. o[i] = off[i] /\ off[i] \in Nat /\ off[i] <= n
        BY <4>1, <1>1, <1>3
      <4>3. off[i] <= m
        BY <4>2, <1>4
      <4> QED
        BY <4>2, <4>3, <2>1, <1>2
    <3> QED
      BY <3>1, <3>2
  <2>2. CASE j # N + 1
    <3>1. i \in k .. N /\ j \in k .. N
      BY <2>2, <1>6
    <3> QED
      BY <3>1, <1>1, <1>3, <1>6
  <2> QED
    BY <2>1, <2>2
<1>7. ASSUME NEW i \in k + 1 .. N + 1
      PROVE  /\ \A j \in 1 .. Len(ls2[i]) : o[i - 1] + j <= m => t[o[i - 1] + j] = ls2[i][j]
             /\ o[i] <= m => t[o[i]] = NL
  <2>1. CASE i = N + 1
    <3>1. o[i - 1] = n /\ o[i] = m
      <4>1. i - 1 = N /\ N \in k .. N
        BY <2>1
      <4> QED
        BY <4>1, <1>1, <1>2, <1>3, <2>1
    <3> QED
      BY <3>1, <2>1 DEF Glued
  <2>2. CASE i # N + 1
    <3>1. i \in k + 1 .. N /\ i - 1 \in k .. N /\ i \in k .. N /\ i \in 1 .. N
      BY <2>2
    <3>2. PICK x \in Nat, y \in Nat, K \in Nat :
            x = off[i - 1] /\ y = off[i] /\ K = Len(ls[i])
      BY <1>1, <3>1 DEF LensAreNat
    <3>3. ls2[i] = ls[i] /\ o[i - 1] = x /\ o[i] = y
      BY <1>3, <3>1, <3>2 DEF Extends
    <3>4. y = x + K + 1 /\ y <= n
      <4>1. N \in k .. N /\ i <= N
        BY <3>1
      <4> QED
        BY <1>1, <3>1, <3>2, <4>1
    <3>5. /\ \A j \in 1 .. K : x + j <= n => s[x + j] = ls[i][j]
          /\ y <= n => s[y] = NL
      BY <3>1, <3>2 DEF Places
    <3>6. ASSUME NEW j \in 1 .. K PROVE t[x + j] = ls[i][j]
      <4>1. x + j \in 1 .. n /\ x + j <= n
        BY <3>4
      <4> QED
        BY <4>1, <3>5 DEF Glued
    <3>7. t[y] = NL
      <4>1. y \in 1 .. n
        BY <3>4
      <4> QED
        BY <4>1, <3>5, <3>4 DEF Glued
    <3> QED
      BY <3>2, <3>3, <3>6, <3>7
  <2> QED
    BY <2>1, <2>2
<1>8. m <= o[N + 1]
  BY <1>2
<1> QED
  BY <1>2, <1>5, <1>6, <1>7, <1>8 DEF PlacesMore, Places, Whole
-----------------------------------------------------------------------------
(* The steps.                                                              *)

\* The types, in the form the steps use them.
LEMMA Types ==
  ASSUME TypeOK, TakenInOrder
  PROVE  /\ sent \in Seq(Lines) /\ taken \in Seq(Seq(Bytes))
         /\ buf \in Seq(B) /\ net \in Seq(B) /\ Stream \in Seq(B)
         /\ Len(sent) \in Nat /\ Len(taken) \in Nat /\ Len(buf) \in Nat
         /\ Len(net) \in Nat /\ Len(Stream) \in Nat
         /\ Len(taken) <= Len(sent)
         /\ LensAreNat(sent, Len(taken), Len(sent))
         /\ \A l \in Lines : l \in Seq(Bytes) /\ l \in Seq(B) /\ Len(l) \in Nat
<1>1. /\ sent \in Seq(Lines) /\ taken \in Seq(Seq(Bytes)) /\ buf \in Seq(B) /\ net \in Seq(B)
      /\ Len(taken) <= Len(sent)
  BY DEF TypeOK, TakenInOrder, B
<1>2. Stream \in Seq(B)
  BY <1>1, ConcatProperties DEF Stream
<1>3. /\ Len(sent) \in Nat /\ Len(taken) \in Nat /\ Len(buf) \in Nat
      /\ Len(net) \in Nat /\ Len(Stream) \in Nat
  BY <1>1, <1>2, LenProperties
<1>4. \A l \in Lines : l \in Seq(Bytes) /\ l \in Seq(B) /\ Len(l) \in Nat
  <2> TAKE l \in Lines
  <2>1. l \in Seq(Bytes)
    BY FramingAssumption
  <2>2. Bytes \subseteq B
    BY DEF B
  <2>3. l \in Seq(B)
    BY <2>1, <2>2, SeqMonotonic
  <2> QED
    BY <2>1, <2>3, LenProperties
<1>5. LensAreNat(sent, Len(taken), Len(sent))
  <2>1. ASSUME NEW i \in Len(taken) + 1 .. Len(sent) PROVE Len(sent[i]) \in Nat
    <3>1. i \in 1 .. Len(sent)
      BY <1>3
    <3>2. sent[i] \in Lines
      BY <1>1, <3>1, ElementOfSeq
    <3> QED
      BY <1>4, <3>2
  <2> QED
    BY <2>1 DEF LensAreNat
<1> QED
  BY <1>1, <1>2, <1>3, <1>4, <1>5

\* A step that leaves the bytes on their way and the lines alone.
LEMMA CarriedStays ==
  ASSUME Carried, Stream' = Stream, UNCHANGED <<sent, taken>>,
         client' # "reset" => client # "reset"
  PROVE  Carried'
BY DEF Carried

\* A line written joins the bytes on their way.
LEMMA WriteCarries ==
  ASSUME TypeOK, TakenInOrder, Carried, NEW l \in Lines, Write(l)
  PROVE  Carried'
<1> DEFINE k == Len(taken)
           N == Len(sent)
           L == Len(l)
<1>1. /\ sent \in Seq(Lines) /\ buf \in Seq(B) /\ net \in Seq(B) /\ Stream \in Seq(B)
      /\ k \in Nat /\ N \in Nat /\ k <= N /\ LensAreNat(sent, k, N)
      /\ Len(Stream) \in Nat /\ Len(buf) \in Nat /\ Len(net) \in Nat
      /\ l \in Seq(B) /\ L \in Nat
  BY Types
<1>2. /\ client = "open" /\ sent' = Append(sent, l) /\ net' = (net \o l) \o <<NL>>
      /\ UNCHANGED <<client, buf, taken>>
  BY DEF Write
<1>3. PICK off : /\ Places(off, k, N, sent, Len(Stream), Stream)
                 /\ Whole(off, N, Len(Stream))
  BY <1>2 DEF Carried
<1>4. Len(sent') = N + 1 /\ sent'[N + 1] = l /\ Extends(sent', N, sent)
  <2>1. /\ Len(sent') = N + 1 /\ sent'[N + 1] = l
        /\ \A i \in 1 .. N : sent'[i] = sent[i]
    BY <1>1, <1>2
  <2> QED
    BY <2>1 DEF Extends
<1>5. /\ Stream' \in Seq(B) /\ Len(Stream') \in Nat
      /\ Glued(Stream', Len(Stream'), Stream, Len(Stream), l, L)
  <2>1. NL \in B /\ <<NL>> \in Seq(B) /\ Len(<<NL>>) = 1 /\ <<NL>>[1] = NL
    BY DEF B
  <2>2. net \o l \in Seq(B) /\ net' \in Seq(B)
    BY <1>1, <1>2, <2>1, ConcatProperties
  <2>3. Stream' = (buf \o (net \o l)) \o <<NL>>
    BY <1>1, <1>2, <2>1, <2>2, ConcatAssociative DEF Stream
  <2>4. buf \o (net \o l) = Stream \o l
    BY <1>1, ConcatAssociative DEF Stream
  <2>5. Stream' = (Stream \o l) \o <<NL>>
    BY <2>3, <2>4
  <2>6. PICK n \in Nat, K \in Nat : n = Len(Stream) /\ K = L
    BY <1>1
  <2>7. /\ Stream \o l \in Seq(B) /\ Len(Stream \o l) = n + K
        /\ \A i \in 1 .. n + K : (Stream \o l)[i] = IF i <= n THEN Stream[i] ELSE l[i - n]
    BY <1>1, <2>6, ConcatProperties
  <2>8. /\ Stream' \in Seq(B) /\ Len(Stream') = n + K + 1
        /\ \A i \in 1 .. n + K + 1 :
             Stream'[i] = IF i <= n + K THEN (Stream \o l)[i] ELSE <<NL>>[i - (n + K)]
    BY <2>1, <2>5, <2>6, <2>7, ConcatProperties
  <2>9. \A i \in 1 .. n : Stream'[i] = Stream[i]
    <3> TAKE i \in 1 .. n
    <3>1. i \in 1 .. n + K /\ i \in 1 .. n + K + 1 /\ i <= n /\ i <= n + K
      OBVIOUS
    <3>2. Stream'[i] = (Stream \o l)[i]
      BY <2>8, <3>1
    <3>3. (Stream \o l)[i] = Stream[i]
      BY <2>7, <3>1
    <3> QED
      BY <3>2, <3>3
  <2>10. \A j \in 1 .. K : Stream'[n + j] = l[j]
    <3> TAKE j \in 1 .. K
    <3>1. /\ n + j \in 1 .. n + K /\ ~(n + j <= n) /\ (n + j) - n = j
          /\ n + j \in 1 .. n + K + 1 /\ n + j <= n + K
      OBVIOUS
    <3>2. Stream'[n + j] = (Stream \o l)[n + j]
      BY <2>8, <3>1
    <3>3. (Stream \o l)[n + j] = l[j]
      BY <2>7, <3>1
    <3> QED
      BY <3>2, <3>3
  <2>11. Stream'[n + K + 1] = NL
    <3>1. n + K + 1 \in 1 .. n + K + 1 /\ ~(n + K + 1 <= n + K) /\ (n + K + 1) - (n + K) = 1
      OBVIOUS
    <3> QED
      BY <2>1, <2>8, <3>1
  <2>12. Len(Stream') \in Nat
    BY <2>8
  <2> QED
    BY <2>6, <2>8, <2>9, <2>10, <2>11, <2>12 DEF Glued
<1>6. PICK n \in Nat, m \in Nat, q \in Nat, M \in Nat, K \in Nat :
        n = Len(Stream) /\ m = Len(Stream') /\ q = k /\ M = N /\ K = Len(sent'[N + 1])
  BY <1>1, <1>4, <1>5
<1>7. /\ q <= M /\ LensAreNat(sent, q, M) /\ Extends(sent', M, sent) /\ K = Len(sent'[M + 1])
      /\ Glued(Stream', m, Stream, n, sent'[M + 1], K)
      /\ Places(off, q, M, sent, n, Stream) /\ Whole(off, M, n)
  BY <1>1, <1>3, <1>4, <1>5, <1>6
<1>8. PICK o : PlacesMore(o, q, M, sent', m, Stream')
  BY <1>7, PlacesOfMore
<1> QED
  BY <1>2, <1>4, <1>6, <1>8 DEF PlacesMore, Carried

\* When the connection breaks, some of the last bytes are lost.
LEMMA ResetCarries ==
  ASSUME TypeOK, TakenInOrder, Carried, Reset
  PROVE  Carried' /\ net' \in Seq(B)
<1> DEFINE k == Len(taken)
           N == Len(sent)
<1>1. /\ buf \in Seq(B) /\ net \in Seq(B) /\ Stream \in Seq(B)
      /\ k \in Nat /\ N \in Nat /\ k <= N /\ LensAreNat(sent, k, N)
      /\ Len(Stream) \in Nat /\ Len(buf) \in Nat /\ Len(net) \in Nat
  BY Types
<1>2. PICK c \in 0 .. Len(net) : net' = SubSeq(net, 1, c)
  BY DEF Reset
<1>3. /\ net' \in Seq(B) /\ Len(net') = c
      /\ \A i \in 1 .. c : net'[i] = net[i]
  <2>1. \A i \in 1 .. c : net[i] \in B
    BY <1>1, ElementOfSeq
  <2>2. /\ net' \in Seq(B) /\ Len(net') = IF 1 <= c THEN c - 1 + 1 ELSE 0
        /\ \A i \in 1 .. c - 1 + 1 : net'[i] = net[1 + i - 1]
    BY <1>2, <2>1, SubSeqProperties
  <2> QED
    BY <2>2, <1>2
<1>4. /\ Len(Stream') \in Nat /\ Len(Stream') <= Len(Stream)
      /\ Begins(Stream', Len(Stream'), Stream)
  <2>1. PICK x \in Nat, y \in Nat : x = Len(buf) /\ y = Len(net)
    BY <1>1
  <2>2. /\ Len(Stream) = x + y
        /\ \A i \in 1 .. x + y : Stream[i] = IF i <= x THEN buf[i] ELSE net[i - x]
    BY <1>1, <2>1, ConcatProperties DEF Stream
  <2>3. /\ Len(Stream') = x + c
        /\ \A i \in 1 .. x + c : Stream'[i] = IF i <= x THEN buf[i] ELSE net'[i - x]
    BY <1>1, <1>3, <2>1, ConcatProperties DEF Stream, Reset
  <2>4. c \in Nat /\ c <= y
    BY <2>1, <1>1
  <2>5. ASSUME NEW i \in 1 .. x + c PROVE Stream'[i] = Stream[i]
    <3>1. CASE i <= x
      <4>1. i \in 1 .. x + y
        BY <2>4
      <4> QED
        BY <2>2, <2>3, <3>1, <4>1
    <3>2. CASE ~(i <= x)
      <4>1. i \in 1 .. x + y /\ i - x \in 1 .. c
        BY <2>4, <3>2
      <4> QED
        BY <2>2, <2>3, <1>3, <3>2, <4>1
    <3> QED
      BY <3>1, <3>2
  <2>6. x + c \in Nat /\ x + c <= x + y
    BY <2>4
  <2> QED
    BY <2>2, <2>3, <2>5, <2>6 DEF Begins
<1>5. PICK off : Places(off, k, N, sent, Len(Stream), Stream)
  BY DEF Carried
<1>6. PICK n \in Nat, m \in Nat, q \in Nat, M \in Nat :
        n = Len(Stream) /\ m = Len(Stream') /\ q = k /\ M = N
  BY <1>1, <1>4
<1>7. /\ q <= M /\ LensAreNat(sent, q, M) /\ m <= n
      /\ Places(off, q, M, sent, n, Stream) /\ Begins(Stream', m, Stream)
  BY <1>1, <1>4, <1>5, <1>6
<1>8. Places(off, q, M, sent, m, Stream')
  BY <1>7, PlacesOfPrefix
<1>9. client' = "reset" /\ UNCHANGED <<sent, taken>>
  BY DEF Reset
<1> QED
  BY <1>3, <1>6, <1>8, <1>9 DEF Carried

LEMMA Regroup == \A x, y, z \in Seq(B) : (x \o y) \o z = x \o (y \o z)
BY ConcatAssociative

\* A chunk is taken from the front of the bytes in flight.
LEMMA ChunkSplits ==
  ASSUME buf \in Seq(B), net \in Seq(B), NEW n \in 1 .. Len(net)
  PROVE  /\ SubSeq(net, 1, n) \in Seq(B) /\ Len(SubSeq(net, 1, n)) = n
         /\ buf \o SubSeq(net, 1, n) \in Seq(B)
         /\ Len(buf \o SubSeq(net, 1, n)) = Len(buf) + n
         /\ SubSeq(net, n + 1, Len(net)) \in Seq(B)
         /\ (buf \o SubSeq(net, 1, n)) \o SubSeq(net, n + 1, Len(net)) = Stream
<1>1. Len(net) \in Nat /\ Len(buf) \in Nat /\ \A i \in 1 .. Len(net) : net[i] \in B
  BY LenProperties, ElementOfSeq
<1>2. SubSeq(net, 1, n) \in Seq(B) /\ Len(SubSeq(net, 1, n)) = n
  <2>1. \A i \in 1 .. n : net[i] \in B
    BY <1>1
  <2> QED
    BY <2>1, <1>1, SubSeqProperties
<1>3. SubSeq(net, n + 1, Len(net)) \in Seq(B)
  <2>1. \A i \in n + 1 .. Len(net) : net[i] \in B
    BY <1>1
  <2> QED
    BY <2>1, <1>1, SubSeqProperties
<1>4. SubSeq(net, 1, n) \o SubSeq(net, n + 1, Len(net)) = net
  <2>1. 1 \in 1 .. Len(net) + 1 /\ n \in 1 - 1 .. Len(net) /\ Len(net) \in n .. Len(net)
    BY <1>1
  <2>2. SubSeq(net, 1, n) \o SubSeq(net, n + 1, Len(net)) = SubSeq(net, 1, Len(net))
    BY <2>1, ConcatAdjacentSubSeq
  <2> QED
    BY <2>2, SubSeqFull
<1>5. (buf \o SubSeq(net, 1, n)) \o SubSeq(net, n + 1, Len(net)) = Stream
  <2>2. (buf \o SubSeq(net, 1, n)) \o SubSeq(net, n + 1, Len(net))
          = buf \o (SubSeq(net, 1, n) \o SubSeq(net, n + 1, Len(net)))
    BY <1>2, <1>3, Regroup
  <2> QED
    BY <2>2, <1>4 DEF Stream
<1> QED
  BY <1>1, <1>2, <1>3, <1>5, ConcatProperties
-----------------------------------------------------------------------------
\* What is buffered without a newline is a part of the next line.
LEMMA IncompleteLine ==
  ASSUME TypeOK, TakenInOrder, Carried, ~HasLine(buf)
  PROVE  /\ Len(taken) = Len(sent) => Len(buf) = 0
         /\ Len(taken) < Len(sent) => /\ Len(buf) <= Len(sent[Len(taken) + 1])
                                      /\ client = "closed" => Len(buf) < Len(Stream)
<1> DEFINE l == sent[Len(taken) + 1]
<1>1. /\ buf \in Seq(B) /\ net \in Seq(B) /\ sent \in Seq(Lines)
      /\ Len(taken) \in Nat /\ Len(sent) \in Nat /\ Len(buf) \in Nat /\ Len(net) \in Nat
      /\ Len(Stream) \in Nat
      /\ LensAreNat(sent, Len(taken), Len(sent))
  BY Types
<1>2. PICK q \in Nat, N \in Nat, n \in Nat, x \in Nat, y \in Nat :
        q = Len(taken) /\ N = Len(sent) /\ n = Len(Stream) /\ x = Len(buf) /\ y = Len(net)
  BY <1>1
<1>3. PICK off : /\ Places(off, q, N, sent, n, Stream)
                 /\ client # "reset" => Whole(off, N, n)
  BY <1>2 DEF Carried
<1>4. /\ n = x + y
      /\ \A i \in 1 .. x : Stream[i] = buf[i]
  <2>1. /\ n = x + y
        /\ \A i \in 1 .. x + y : Stream[i] = IF i <= x THEN buf[i] ELSE net[i - x]
    BY <1>1, <1>2, ConcatProperties DEF Stream
  <2>2. ASSUME NEW i \in 1 .. x PROVE Stream[i] = buf[i]
    <3>1. i \in 1 .. x + y /\ i <= x
      OBVIOUS
    <3> QED
      BY <2>1, <3>1
  <2> QED
    BY <2>1, <2>2
<1>5. CASE q = N
  <2>1. off[q] = 0 /\ n <= off[N]
    BY <1>3 DEF Places
  <2>2. x = 0
    BY <2>1, <1>4, <1>5
  <2> QED
    BY <2>2, <1>2, <1>5
<1>6. CASE q < N
  <2>1. PICK L \in Nat : L = Len(l)
    <3>1. q + 1 \in q + 1 .. N
      BY <1>6
    <3> QED
      BY <3>1, <1>1, <1>2 DEF LensAreNat
  <2>2. off[q + 1] = L + 1 /\ BeginsWith(Stream, n, l, L)
    <3>1. q + 1 <= N /\ Len(sent[q + 1]) \in Nat /\ l = sent[q + 1]
      BY <1>2, <1>6, <2>1
    <3>2. off[q + 1] = Len(sent[q + 1]) + 1 /\ BeginsWith(Stream, n, sent[q + 1], Len(sent[q + 1]))
      BY <3>1, <1>3, FirstPlace
    <3> QED
      BY <3>1, <3>2, <2>1
  <2>3. x <= L
    <3> SUFFICES ASSUME ~(x <= L) PROVE FALSE
      OBVIOUS
    <3>1. L + 1 \in 1 .. x /\ L + 1 <= n
      BY <1>4
    <3>2. buf[L + 1] = NL
      BY <3>1, <2>2, <1>4 DEF BeginsWith
    <3> QED
      BY <3>1, <3>2, <1>2 DEF HasLine
  <2>4. client = "closed" => x < n
    <3> SUFFICES ASSUME client = "closed" PROVE x < n
      OBVIOUS
    <3>1. n = off[N] /\ off \in [q .. N -> Nat]
          /\ \A i, j \in q .. N : i <= j => off[i] <= off[j]
      BY <1>3 DEF Whole, Places
    <3>2. q + 1 \in q .. N /\ N \in q .. N /\ q + 1 <= N
      BY <1>6
    <3>3. L + 1 <= n
      BY <3>1, <3>2, <2>2
    <3> QED
      BY <3>3, <2>3
  <2> QED
    BY <1>2, <1>6, <2>1, <2>3, <2>4
<1> QED
  BY <1>2, <1>5, <1>6

\* When every line is within the limit, a chunk fits on top of what is buffered
\* without a newline.
LEMMA ChunkFits ==
  ASSUME TypeOK, TakenInOrder, Carried, ~HasLine(buf), NEW n \in 1 .. CHUNK, TooBig(n)
  PROVE  \E i \in 1 .. Len(sent) : Len(sent[i]) > Limit
<1>1. Len(taken) \in Nat /\ Len(sent) \in Nat /\ Len(buf) \in Nat /\ Len(taken) <= Len(sent)
      /\ LensAreNat(sent, Len(taken), Len(sent))
  BY Types
<1>2. CHUNK \in Nat /\ BUFSIZE \in Nat /\ CHUNK < BUFSIZE /\ n \in Nat /\ n <= CHUNK
  BY FramingAssumption
<1>3. Len(buf) > Limit
  BY <1>1, <1>2 DEF TooBig, Limit
<1>4. Len(taken) # Len(sent)
  <2>1. Limit >= 0 /\ Limit \in Int
    BY <1>2 DEF Limit
  <2>2. Len(buf) # 0
    BY <1>3, <2>1
  <2> QED
    BY <2>2, IncompleteLine
<1>5. PICK i \in Nat : i = Len(taken) + 1
  BY <1>1
<1>6. i \in 1 .. Len(sent) /\ i \in Len(taken) + 1 .. Len(sent)
  BY <1>1, <1>4, <1>5
<1>7. Len(buf) <= Len(sent[i])
  BY <1>1, <1>4, <1>5, IncompleteLine
<1>8. Len(sent[i]) \in Nat
  BY <1>1, <1>6 DEF LensAreNat
<1>9. Len(sent[i]) > Limit
  <2>1. PICK x \in Nat, y \in Nat, z \in Int : x = Len(buf) /\ y = Len(sent[i]) /\ z = Limit
    BY <1>1, <1>2, <1>8 DEF Limit
  <2> QED
    BY <2>1, <1>3, <1>7
<1> QED
  BY <1>6, <1>9

\* When a client that closed in good order has nothing more on its way, every
\* line of it has been taken.
LEMMA AllTaken ==
  ASSUME TypeOK, TakenInOrder, Carried, ~HasLine(buf), net = << >>, client = "closed"
  PROVE  Len(taken) = Len(sent)
<1>1. Len(taken) \in Nat /\ Len(sent) \in Nat /\ Len(taken) <= Len(sent)
      /\ buf \in Seq(B) /\ Len(buf) \in Nat
  BY Types
<1>2. Stream = buf
  BY <1>1, ConcatEmptySeq DEF Stream
<1>3. ~(Len(buf) < Len(Stream))
  BY <1>1, <1>2
<1> QED
  BY <1>1, <1>3, IncompleteLine
-----------------------------------------------------------------------------
LEMMA InitIInv == Init => IInv
<1> SUFFICES ASSUME Init PROVE IInv
  OBVIOUS
<1>1. TypeOK
  BY EmptySeq DEF Init, TypeOK, Messages, Empty
<1>2. Len(sent) = 0 /\ Len(taken) = 0 /\ Len(buf) = 0 /\ Stream = << >> /\ Len(Stream) = 0
  <2>1. << >> \in Seq(B)
    BY EmptySeq
  <2> QED
    BY <2>1, EmptySeq, ConcatEmptySeq DEF Init, Stream
<1>3. BufferFits /\ ShortLinesNeverRefused /\ TakenInOrder /\ ErrorsSound
  BY <1>2, FramingAssumption
    DEF Init, BufferFits, ShortLinesNeverRefused, TakenInOrder, ErrorsSound, Empty, Error
<1>4. Carried
  <2> DEFINE off == [i \in 0 .. 0 |-> 0]
  <2>1. Places(off, 0, 0, sent, 0, Stream) /\ Whole(off, 0, 0)
    BY DEF Places, Whole
  <2> QED
    BY <1>2, <2>1 DEF Carried
<1> QED
  BY <1>1, <1>3, <1>4 DEF IInv, Init

\* Taking a line: it is the next one, and an error it carries is the first.
LEMMA TakeKeeps ==
  ASSUME IInv, ~Refused, Carried, msg.kind # "error",
         NEW b \in Seq(B), HasLine(b), Len(b) <= BUFSIZE - 1,
         net' \in Seq(B), b \o net' = Stream, Cut(b), pc' = "look",
         UNCHANGED <<sent, client>>, sockerr' = sockerr
  PROVE  IInv'
<1> DEFINE k == Len(taken)
           l == sent[k + 1]
<1>1. TypeOK /\ TakenInOrder /\ ErrorsSound
  BY DEF IInv
<1>2. /\ k + 1 \in 1 .. Len(sent) /\ taken' = Append(taken, l)
      /\ msg' = parse_json_message(l)
      /\ buf' \in Seq(B) /\ Len(buf') <= Len(b)
      /\ Carried'
  BY <1>1, CutTakesNextLine
<1>3. /\ sent \in Seq(Lines) /\ taken \in Seq(Seq(Bytes)) /\ k \in Nat /\ Len(sent) \in Nat
      /\ Len(b) \in Nat
  BY <1>1, Types, LenProperties
<1>4. l \in Lines /\ l \in Seq(Bytes)
  <2>1. l \in Lines
    BY <1>2, <1>3, ElementOfSeq
  <2> QED
    BY <2>1, FramingAssumption
<1>5. msg' \in {Error("complaint"), Request, Empty}
      /\ (msg' = Error("complaint") <=> l \in Complaints)
  BY <1>2 DEF parse_json_message, Error, Request, Empty
<1>6. /\ taken' \in Seq(Seq(Bytes)) /\ Len(taken') = k + 1 /\ taken'[k + 1] = l
      /\ \A i \in 1 .. k : taken'[i] = taken[i]
  BY <1>2, <1>3, <1>4
<1>7. TypeOK'
  BY <1>1, <1>2, <1>5, <1>6 DEF TypeOK, B, Messages
<1>8. BufferFits'
  <2>1. Len(buf') \in Nat
    BY <1>2, LenProperties
  <2> QED
    BY <1>2, <1>3, <2>1, FramingAssumption DEF BufferFits
<1>9. ShortLinesNeverRefused' /\ ~Refused'
  BY <1>5 DEF ShortLinesNeverRefused, Refused, Error, Request, Empty
<1>10. TakenInOrder'
  <2>1. \A i \in 1 .. k : taken'[i] = sent[i]
    BY <1>1, <1>6 DEF TakenInOrder
  <2>2. \A i \in 1 .. k + 1 : i \in 1 .. k \/ i = k + 1
    BY <1>3
  <2>3. \A i \in 1 .. k + 1 : taken'[i] = sent[i]
    BY <1>6, <2>1, <2>2
  <2>4. k + 1 <= Len(sent)
    BY <1>2
  <2> QED
    BY <1>6, <2>3, <2>4 DEF TakenInOrder
<1>11. ErrorsSound'
  <2>1. msg' # Error("closed") /\ pc' # "gone"
    BY <1>5 DEF Error, Request, Empty
  <2>2. msg' = Error("complaint") => Len(taken') > 0 /\ taken'[Len(taken')] \in Complaints
    BY <1>3, <1>5, <1>6
  <2>3. ASSUME NEW i \in 1 .. k + 1, taken'[i] \in Complaints PROVE msg' = Error("complaint")
    <3>1. CASE i = k + 1
      BY <1>5, <1>6, <2>3, <3>1
    <3>2. CASE i # k + 1
      <4>1. i \in 1 .. k
        BY <1>3, <3>2
      <4>2. taken[i] \in Complaints
        BY <4>1, <1>6, <2>3
      <4>3. msg = Error("complaint")
        BY <4>1, <4>2, <1>1 DEF ErrorsSound
      <4> QED
        BY <4>3 DEF Error
    <3> QED
      BY <3>1, <3>2
  <2> QED
    BY <2>1, <2>2, <2>3, <1>6 DEF ErrorsSound
<1> QED
  BY <1>2, <1>7, <1>8, <1>9, <1>10, <1>11 DEF IInv

\* What a call of receive_message leaves, when it cuts no line.
LEMMA ReceiveKeeps ==
  ASSUME IInv, Receive
  PROVE  IInv'
<1>1. TypeOK /\ TakenInOrder /\ ErrorsSound /\ BufferFits /\ ShortLinesNeverRefused
  BY DEF IInv
<1>2. /\ pc = "receive" /\ pc' = "look" /\ UNCHANGED <<sent, client>>
  BY DEF Receive
<1>3. msg.kind # "error"
  BY <1>1, <1>2 DEF ErrorsSound
<1>4. ~Refused /\ Carried
  <2>1. ~Refused
    BY <1>3 DEF Refused, Error
  <2> QED
    BY <2>1 DEF IInv
<1>5. /\ buf \in Seq(B) /\ net \in Seq(B) /\ Len(buf) \in Nat /\ Len(net) \in Nat
      /\ Len(sent) \in Nat /\ Len(taken) \in Nat
      /\ CHUNK \in Nat /\ BUFSIZE \in Nat /\ CHUNK < BUFSIZE /\ CHUNK > 0
  BY <1>1, Types, FramingAssumption
<1>6. \A i \in 1 .. Len(taken) : taken[i] \notin Complaints
  <2>1. msg # Error("complaint")
    BY <1>3 DEF Error
  <2> QED
    BY <2>1, <1>1 DEF ErrorsSound
<1>7. CASE BufferedLine
  <2>1. HasLine(buf) /\ Cut(buf) /\ net' = net /\ sockerr' = sockerr
    BY <1>7 DEF BufferedLine
  <2>2. buf \o net' = Stream /\ net' \in Seq(B) /\ Len(buf) <= BUFSIZE - 1
    BY <1>1, <1>5, <2>1 DEF Stream, BufferFits
  <2> QED
    BY <1>2, <1>3, <1>4, <1>5, <2>1, <2>2, TakeKeeps
<1>8. ASSUME NEW n \in 1 .. Smaller(CHUNK, Len(net)), Chunk(n) PROVE IInv'
  <2> DEFINE b == buf \o SubSeq(net, 1, n)
  <2>1. n \in 1 .. CHUNK /\ n \in 1 .. Len(net)
    BY <1>5 DEF Smaller
  <2>2. /\ b \in Seq(B) /\ Len(b) = Len(buf) + n
        /\ SubSeq(net, n + 1, Len(net)) \in Seq(B)
        /\ b \o SubSeq(net, n + 1, Len(net)) = Stream
    BY <1>5, <2>1, ChunkSplits
  <2>3. /\ ~HasLine(buf) /\ net' = SubSeq(net, n + 1, Len(net)) /\ sockerr' = sockerr
    BY <1>8 DEF Chunk
  <2>4. CASE TooBig(n) /\ buf' = << >> /\ msg' = Error("refused") /\ UNCHANGED taken
    <3>1. \E i \in 1 .. Len(sent) : Len(sent[i]) > Limit
      BY <1>1, <1>4, <2>1, <2>3, <2>4, ChunkFits
    <3>2. TypeOK'
      BY <1>1, <1>2, <2>2, <2>3, <2>4, EmptySeq DEF TypeOK, B, Messages
    <3>3. BufferFits' /\ ShortLinesNeverRefused'
      <4>1. Len(buf') = 0
        BY <2>4, EmptySeq
      <4> QED
        BY <1>2, <1>5, <3>1, <4>1 DEF BufferFits, ShortLinesNeverRefused, Limit
    <3>4. TakenInOrder'
      BY <1>1, <1>2, <2>4 DEF TakenInOrder
    <3>5. ErrorsSound'
      BY <1>2, <1>6, <2>4 DEF ErrorsSound, Error
    <3> QED
      BY <1>2, <2>3, <2>4, <3>2, <3>3, <3>4, <3>5 DEF IInv, Refused
  <2>5. CASE ~TooBig(n) /\ HasLine(b) /\ Cut(b)
    <3>1. Len(b) <= BUFSIZE - 1
      BY <1>5, <2>1, <2>2, <2>5 DEF TooBig
    <3>2. net' \in Seq(B) /\ b \o net' = Stream
      BY <2>2, <2>3
    <3> HIDE DEF b
    <3> QED
      BY <1>2, <1>3, <1>4, <2>2, <2>3, <2>5, <3>1, <3>2, TakeKeeps
  <2>6. CASE ~TooBig(n) /\ buf' = b /\ msg' = Empty /\ UNCHANGED taken
    <3>1. TypeOK'
      BY <1>1, <1>2, <2>2, <2>3, <2>6 DEF TypeOK, B, Messages
    <3>2. BufferFits' /\ ShortLinesNeverRefused' /\ ~Refused'
      BY <1>5, <2>1, <2>2, <2>6
        DEF TooBig, BufferFits, ShortLinesNeverRefused, Refused, Empty, Error
    <3>3. TakenInOrder'
      BY <1>1, <1>2, <2>6 DEF TakenInOrder
    <3>4. ErrorsSound'
      BY <1>2, <1>6, <2>6 DEF ErrorsSound, Empty, Error
    <3>5. Stream' = Stream
      BY <2>2, <2>3, <2>6 DEF Stream
    <3>6. Carried'
      BY <1>2, <1>4, <2>6, <3>5, CarriedStays
    <3> QED
      BY <1>2, <2>3, <3>1, <3>2, <3>3, <3>4, <3>6 DEF IInv
  <2> QED
    BY <1>8, <2>4, <2>5, <2>6 DEF Chunk
<1>9. CASE EndOfStream
  <2>1. /\ ~HasLine(buf) /\ net = << >> /\ client # "open" /\ ~sockerr
        /\ msg' = Error("closed") /\ UNCHANGED <<net, sockerr, buf, taken>>
    BY <1>9 DEF EndOfStream
  <2>2. client = "closed" => Len(taken) = Len(sent)
    BY <1>1, <1>4, <2>1, AllTaken
  <2>3. TypeOK' /\ BufferFits' /\ ShortLinesNeverRefused' /\ ~Refused' /\ TakenInOrder'
    BY <1>1, <1>2, <2>1
      DEF TypeOK, BufferFits, ShortLinesNeverRefused, Refused, TakenInOrder, Messages, Error
  <2>4. ErrorsSound'
    BY <1>2, <1>6, <2>1, <2>2 DEF ErrorsSound, Error
  <2>5. Carried'
    BY <1>2, <1>4, <2>1, CarriedStays DEF Stream
  <2> QED
    BY <1>2, <2>1, <2>3, <2>4, <2>5 DEF IInv
<1>10. CASE RecvError
  <2>1. sockerr' = FALSE /\ msg' = Empty /\ UNCHANGED <<net, buf, taken>>
    BY <1>10 DEF RecvError
  <2>2. TypeOK' /\ BufferFits' /\ ShortLinesNeverRefused' /\ ~Refused' /\ TakenInOrder'
    BY <1>1, <1>2, <2>1
      DEF TypeOK, BufferFits, ShortLinesNeverRefused, Refused, TakenInOrder, Messages,
          Error, Empty
  <2>3. ErrorsSound'
    BY <1>2, <1>6, <2>1 DEF ErrorsSound, Error, Empty
  <2>4. Carried'
    BY <1>2, <1>4, <2>1, CarriedStays DEF Stream
  <2> QED
    BY <1>2, <2>1, <2>2, <2>3, <2>4 DEF IInv
<1> QED
  BY <1>7, <1>8, <1>9, <1>10 DEF Receive

\* The steps of the thread that touch none of the bytes.
LEMMA LoopKeeps ==
  ASSUME IInv, Top \/ Select \/ Look \/ HandleRequest
  PROVE  IInv'
<1>1. UNCHANGED <<sent, client, net, sockerr, buf, msg, taken>>
  BY DEF Top, Select, Look, HandleRequest
<1>2. Stream' = Stream /\ (Refused' <=> Refused)
  BY <1>1 DEF Stream, Refused
<1>3. ~Refused => Carried'
  BY <1>1, <1>2, CarriedStays DEF IInv
<1>4. TypeOK /\ ErrorsSound
  BY DEF IInv
<1>5. pc' \in {"loop", "select", "receive", "look", "handle", "gone"}
  BY <1>4 DEF Top, Select, Look, HandleRequest, AfterReceive, TypeOK, Messages,
              Error, Empty, Request
<1>6. TypeOK'
  BY <1>1, <1>4, <1>5 DEF TypeOK
<1>7. ErrorsSound'
  <2>1. (msg.kind = "error" => pc' \in {"look", "gone"}) /\ (pc' = "gone" => msg.kind = "error")
    BY <1>4 DEF Top, Select, Look, HandleRequest, AfterReceive, ErrorsSound, TypeOK,
                Messages, Error, Empty, Request
  <2> QED
    BY <1>1, <1>4, <2>1 DEF ErrorsSound
<1> QED
  BY <1>1, <1>2, <1>3, <1>6, <1>7
    DEF IInv, BufferFits, ShortLinesNeverRefused, TakenInOrder

LEMMA NextKeeps == IInv /\ [Next]_vars => IInv'
<1> SUFFICES ASSUME IInv, [Next]_vars PROVE IInv'
  OBVIOUS
<1>1. /\ TypeOK /\ TakenInOrder /\ ErrorsSound /\ BufferFits /\ ShortLinesNeverRefused
      /\ sockerr => client = "reset"
      /\ ~Refused => Carried
  BY DEF IInv
<1>2. ASSUME NEW l \in Lines, Write(l) PROVE IInv'
  <2>1. /\ client = "open" /\ sent' = Append(sent, l) /\ net' = (net \o l) \o <<NL>>
        /\ UNCHANGED <<client, sockerr, buf, pc, msg, taken>>
    BY <1>2 DEF Write
  <2>2. ~Refused => Carried'
    BY <1>1, <1>2, WriteCarries
  <2>3. net' \in Seq(B) /\ sent' \in Seq(Lines) /\ Len(sent') = Len(sent) + 1
        /\ Len(sent) \in Nat /\ Len(taken) \in Nat /\ Len(taken) <= Len(sent)
        /\ \A i \in 1 .. Len(sent) : sent'[i] = sent[i]
    <3>1. net \in Seq(B) /\ l \in Seq(B) /\ sent \in Seq(Lines) /\ Len(sent) \in Nat
          /\ Len(taken) \in Nat /\ Len(taken) <= Len(sent)
      BY <1>1, Types
    <3>2. <<NL>> \in Seq(B)
      BY DEF B
    <3> QED
      BY <2>1, <3>1, <3>2, ConcatProperties
  <2>4. TypeOK'
    BY <1>1, <2>1, <2>3 DEF TypeOK, B
  <2>5. TakenInOrder'
    BY <1>1, <2>1, <2>3 DEF TakenInOrder
  <2>6. ShortLinesNeverRefused'
    <3>1. ASSUME NEW i \in 1 .. Len(sent), Len(sent[i]) > Limit
          PROVE  i \in 1 .. Len(sent') /\ Len(sent'[i]) > Limit
      BY <2>3, <3>1
    <3> QED
      BY <1>1, <2>1, <3>1 DEF ShortLinesNeverRefused, Limit
  <2> QED
    BY <1>1, <2>1, <2>2, <2>4, <2>5, <2>6 DEF IInv, BufferFits, ErrorsSound, Refused
<1>3. CASE Close
  <2>1. client = "open" /\ client' = "closed" /\ UNCHANGED <<sent, net, sockerr, buf, pc, msg, taken>>
    BY <1>3 DEF Close
  <2>2. Carried => Carried'
    BY <2>1, CarriedStays DEF Stream
  <2>3. msg # Error("closed")
    BY <1>1, <2>1 DEF ErrorsSound
  <2> QED
    BY <1>1, <2>1, <2>2, <2>3
      DEF IInv, TypeOK, BufferFits, ShortLinesNeverRefused, TakenInOrder, ErrorsSound, Refused
<1>4. CASE Reset
  <2>1. client = "open" /\ client' = "reset" /\ UNCHANGED <<sent, buf, pc, msg, taken>>
        /\ sockerr' = TRUE
    BY <1>4 DEF Reset
  <2>2. ~Refused => Carried' /\ net' \in Seq(B)
    BY <1>1, <1>4, ResetCarries
  <2>3. net' \in Seq(B)
    <3>1. PICK c \in 0 .. Len(net) : net' = SubSeq(net, 1, c)
      BY <1>4 DEF Reset
    <3>2. net \in Seq(B) /\ Len(net) \in Nat
      BY <1>1, Types
    <3>3. \A i \in 1 .. c : net[i] \in B
      BY <3>2, ElementOfSeq
    <3> QED
      BY <3>1, <3>3, SubSeqProperties
  <2>4. msg # Error("closed")
    BY <1>1, <2>1 DEF ErrorsSound
  <2> QED
    BY <1>1, <2>1, <2>2, <2>3, <2>4
      DEF IInv, TypeOK, B, BufferFits, ShortLinesNeverRefused, TakenInOrder, ErrorsSound, Refused
<1>5. CASE Thread
  BY <1>5, ReceiveKeeps, LoopKeeps DEF Thread
<1>6. CASE UNCHANGED vars
  <2>1. Carried => Carried'
    BY <1>6, CarriedStays DEF Stream, vars
  <2> QED
    BY <1>1, <1>6, <2>1
      DEF vars, IInv, TypeOK, BufferFits, ShortLinesNeverRefused, TakenInOrder, ErrorsSound, Refused
<1> QED
  BY <1>2, <1>3, <1>4, <1>5, <1>6 DEF Next, Gone
-----------------------------------------------------------------------------
LEMMA Invariance == Spec => []IInv
<1>1. Init => IInv
  BY InitIInv
<1>2. IInv /\ [Next]_vars => IInv'
  BY NextKeeps
<1> QED
  BY <1>1, <1>2, PTL DEF Spec

\* Every variable of the receiving end has its type in every reachable state.
THEOREM FramingTypes == Spec => []TypeOK
<1>1. IInv => TypeOK
  BY DEF IInv
<1> QED
  BY <1>1, Invariance, PTL

\* receive_message stays within rb->buf for every size of chunk, buffer and line.
THEOREM BufferNeverOverflows == Spec => []BufferFits
<1>1. IInv => BufferFits
  BY DEF IInv
<1> QED
  BY <1>1, Invariance, PTL

\* No client is refused for lines of at most BUFSIZE - CHUNK - 1 bytes.
THEOREM ShortLinesKept == Spec => []ShortLinesNeverRefused
<1>1. IInv => ShortLinesNeverRefused
  BY DEF IInv
<1> QED
  BY <1>1, Invariance, PTL

-----------------------------------------------------------------------------
(* The refinement, as far as safety goes.                                  *)

LEMMA LineTaken ==
  ASSUME IInv, ~Refused, Carried, msg.kind # "error", pc = "receive",
         NEW b \in Seq(B), HasLine(b), net' \in Seq(B), b \o net' = Stream, Cut(b),
         pc' = "look", UNCHANGED <<sent, client>>
  PROVE  Channel!Take
<1>1. TypeOK /\ TakenInOrder /\ ErrorsSound
  BY DEF IInv
<1>2. /\ Len(taken) + 1 \in 1 .. Len(sent)
      /\ taken' = Append(taken, sent[Len(taken) + 1])
  BY <1>1, CutTakesNextLine
<1>3. \A i \in 1 .. Len(taken) : taken[i] \notin Complaints
  BY <1>1 DEF ErrorsSound, Error
<1>4. Len(taken) + 1 <= Len(sent)
  BY <1>2
<1> QED
  BY <1>2, <1>3, <1>4 DEF Channel!Take, Channel!Next1

LEMMA ReceiveSimulates ==
  ASSUME IInv, Receive
  PROVE  Channel!Take \/ UNCHANGED Channel!vars
<1>1. TypeOK /\ ErrorsSound
  BY DEF IInv
<1>2. pc = "receive" /\ pc' = "look" /\ UNCHANGED <<sent, client>>
  BY DEF Receive
<1>3. msg.kind # "error"
  BY <1>1, <1>2 DEF ErrorsSound
<1>4. ~Refused /\ Carried
  <2>1. ~Refused
    BY <1>3 DEF Refused, Error
  <2> QED
    BY <2>1 DEF IInv
<1>5. buf \in Seq(B) /\ net \in Seq(B) /\ Len(net) \in Nat /\ CHUNK \in Nat
  BY <1>1, Types, FramingAssumption DEF IInv
<1>6. CASE BufferedLine
  <2>1. HasLine(buf) /\ Cut(buf) /\ net' \in Seq(B) /\ buf \o net' = Stream
    BY <1>5, <1>6 DEF BufferedLine, Stream
  <2> QED
    BY <1>2, <1>3, <1>4, <1>5, <2>1, LineTaken
<1>7. ASSUME NEW n \in 1 .. Smaller(CHUNK, Len(net)), Chunk(n)
      PROVE  Channel!Take \/ UNCHANGED Channel!vars
  <2> DEFINE b == buf \o SubSeq(net, 1, n)
  <2>1. n \in 1 .. Len(net)
    BY <1>5 DEF Smaller
  <2>2. /\ b \in Seq(B) /\ net' \in Seq(B) /\ b \o net' = Stream
    BY <1>5, <1>7, <2>1, ChunkSplits DEF Chunk
  <2>3. CASE HasLine(b) /\ Cut(b)
    <3> HIDE DEF b
    <3> QED
      BY <1>2, <1>3, <1>4, <2>2, <2>3, LineTaken
  <2>4. CASE UNCHANGED taken
    BY <1>2, <2>4 DEF Channel!vars
  <2> QED
    BY <1>7, <2>3, <2>4 DEF Chunk
<1>8. CASE EndOfStream \/ RecvError
  BY <1>2, <1>8 DEF EndOfStream, RecvError, Channel!vars
<1> QED
  BY <1>6, <1>7, <1>8 DEF Receive

LEMMA StepSimulates == IInv /\ [Next]_vars => [Channel!Next]_(Channel!vars)
<1> SUFFICES ASSUME IInv, [Next]_vars PROVE [Channel!Next]_(Channel!vars)
  OBVIOUS
<1>1. TypeOK /\ ErrorsSound /\ ShortLinesNeverRefused
  BY DEF IInv
<1>2. ASSUME NEW l \in Lines, Write(l) PROVE Channel!Next
  BY <1>2 DEF Write, Channel!Next, Channel!Write
<1>3. CASE Close \/ Reset
  BY <1>3 DEF Close, Reset, Channel!Next, Channel!Leave
<1>4. CASE Receive
  BY <1>4, ReceiveSimulates DEF Channel!Next
<1>5. CASE Top \/ Select \/ HandleRequest
  BY <1>5 DEF Top, Select, HandleRequest, Channel!vars
<1>6. CASE Look
  <2>1. pc = "look" /\ UNCHANGED <<sent, client, taken>>
    BY <1>6 DEF Look
  <2>2. CASE msg.kind # "error"
    <3>1. pc' # "gone"
      BY <1>1, <1>6, <2>2 DEF Look, AfterReceive, TypeOK, Messages, Error, Empty, Request
    <3> QED
      BY <2>1, <3>1 DEF Channel!vars
  <2>3. CASE msg.kind = "error"
    <3>1. pc' = "gone"
      BY <1>6, <2>3 DEF Look, AfterReceive
    <3>2. msg \in {Error("closed"), Error("refused"), Error("complaint")}
      BY <1>1, <2>3 DEF TypeOK, Messages, Empty, Request
    <3>3. Channel!MayEnd
      <4>1. CASE msg = Error("closed")
        <5>1. client # "open" /\ (client = "closed" => Len(taken) = Len(sent))
          BY <1>1, <4>1 DEF ErrorsSound
        <5>2. client \in {"closed", "reset"}
          BY <1>1, <5>1 DEF TypeOK
        <5>3. Len(sent) \in Nat
          BY <1>1, LenProperties DEF TypeOK
        <5>4. client = "closed" => Len(taken) + 1 > Len(sent)
          BY <5>1, <5>3
        <5> QED
          BY <5>2, <5>4 DEF Channel!MayEnd, Channel!Next1
      <4>2. CASE msg = Error("refused")
        BY <1>1, <4>2 DEF ShortLinesNeverRefused, Channel!MayEnd, Channel!TooLong
      <4>3. CASE msg = Error("complaint")
        <5>1. Len(taken) \in Nat
          BY <1>1, LenProperties DEF TypeOK
        <5>2. Len(taken) \in 1 .. Len(taken) /\ taken[Len(taken)] \in Complaints
          BY <1>1, <4>3, <5>1 DEF ErrorsSound
        <5> QED
          BY <5>2 DEF Channel!MayEnd
      <4> QED
        BY <3>2, <4>1, <4>2, <4>3
    <3> QED
      BY <2>1, <3>1, <3>3 DEF Channel!End, Channel!Next
  <2> QED
    BY <2>2, <2>3
<1>7. CASE UNCHANGED vars
  BY <1>7 DEF vars, Channel!vars
<1> QED
  BY <1>2, <1>3, <1>4, <1>5, <1>6, <1>7 DEF Next, Thread, Gone

\* For every size of chunk and buffer and every set of lines, the receiving end
\* takes the lines of a client whole, in order and once, and gives up only when
\* the channel of lines may.
THEOREM ChannelOfLines == Spec => LinesWholeInOrder
<1>1. Init => Channel!Init
  BY DEF Init, Channel!Init
<1>2. IInv /\ [Next]_vars => [Channel!Next]_(Channel!vars)
  BY StepSimulates
<1> QED
  BY <1>1, <1>2, Invariance, PTL DEF Spec, LinesWholeInOrder
=============================================================================
