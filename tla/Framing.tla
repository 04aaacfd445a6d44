------------------------------ MODULE Framing ------------------------------
(***************************************************************************)
(* The receiving end of one connection: the receive loop of                *)
(* client_thread_handler (main.c) and receive_message (network.c), which   *)
(* cuts lines out of a stream of bytes that arrives in arbitrary pieces.   *)
(*                                                                         *)
(* A byte is NL or a member of Bytes; what parse_json_message finds in a   *)
(* line is told by the sets the line belongs to.  The kernel's part (how   *)
(* many bytes a recv returns, what is lost when the peer resets) is a      *)
(* nondeterministic choice.                                                *)
(***************************************************************************)
EXTENDS Integers, Sequences

CONSTANTS CHUNK,            \* sizeof(chunk), 2048
          BUFSIZE,          \* sizeof(rb->buf), 4096
          NL,               \* the newline
          Bytes,            \* the other bytes
          Lines,            \* what a client may write between two newlines
          Complaints,       \* the lines whose "error" field is not empty
          Untyped,          \* the lines without a "type" field
          MaxLines          \* bound: the lines a client writes

ASSUME FramingAssumption == /\ CHUNK \in Nat \ {0}
                            /\ BUFSIZE \in Nat /\ BUFSIZE > CHUNK
                            /\ NL \notin Bytes
                            /\ Lines \subseteq Seq(Bytes)
                            /\ Complaints \subseteq Lines
                            /\ Untyped \subseteq Lines
                            /\ MaxLines \in Nat

VARIABLES sent,             \* the lines the client has written
          client,           \* "open", "closed" (in order) or "reset"
          net,              \* the bytes written and not yet received
          sockerr,          \* an error of the socket the next recv reports
          buf,              \* rb->buf[0 .. rb->len - 1]
          pc,               \* where the thread is in its loop
          msg,              \* what receive_message has returned
          taken             \* the lines handed to parse_json_message

vars == <<sent, client, net, sockerr, buf, pc, msg, taken>>

\* The values of msg: msg.error set, msg.type empty, or a request.
Error(why) == [kind |-> "error", why |-> why]
Empty      == [kind |-> "empty", why |-> "nothing"]
Request    == [kind |-> "request", why |-> "nothing"]

Messages == {Error("closed"), Error("refused"), Error("complaint"), Empty, Request}

Smaller(a, b) == IF a < b THEN a ELSE b

-----------------------------------------------------------------------------
(* The client and the network.                                             *)

Init == /\ sent = << >> /\ client = "open" /\ net = << >> /\ sockerr = FALSE
        /\ buf = << >> /\ pc = "loop" /\ msg = Empty
        /\ taken = << >>

\* NetworkClient.sendMessage writes a line and its newline in one go.
Write(l) == /\ client = "open"
            /\ Len(sent) < MaxLines
            /\ sent' = Append(sent, l)
            /\ net' = net \o l \o <<NL>>
            /\ UNCHANGED <<client, sockerr, buf, pc, msg, taken>>

\* The client closes its socket: the server will receive the rest, then 0.
Close == /\ client = "open"
         /\ client' = "closed"
         /\ UNCHANGED <<sent, net, sockerr, buf, pc, msg, taken>>

\* The connection breaks: what had not arrived is lost.
Reset == /\ client = "open"
         /\ client' = "reset"
         /\ sockerr' = TRUE
         /\ \E n \in 0 .. Len(net) : net' = SubSeq(net, 1, n)
         /\ UNCHANGED <<sent, buf, pc, msg, taken>>

-----------------------------------------------------------------------------
(* receive_message.                                                        *)

\* memchr(rb->buf, '\n', rb->len) != NULL
HasLine(b) == \E i \in 1 .. Len(b) : b[i] = NL

\* A slip the checks must notice: the search begins at the wrong end (memrchr).
LastNewline(b) ==
  CHOOSE i \in 1 .. Len(b) : b[i] = NL /\ \A j \in i + 1 .. Len(b) : b[j] # NL

\* The index of the first newline.
FirstNewline(b) ==
  CHOOSE i \in 1 .. Len(b) : b[i] = NL /\ \A j \in 1 .. i - 1 : b[j] # NL

\* parse_json_message, as far as the loop looks at the result.  A line that the
\* client did not write is taken to have no type.
parse_json_message(l) == IF l \in Complaints THEN Error("complaint")
                         ELSE IF l \in Lines \ Untyped THEN Request
                         ELSE Empty

\* A slip the checks must notice: what follows the line is dropped.
RestDropped(b) == << >>

\* memmove: what is left once the first line and its newline are consumed.
Rest(b) == SubSeq(b, FirstNewline(b) + 1, Len(b))

\* The first line is cut out of b and parsed.
Cut(b) == LET line == SubSeq(b, 1, FirstNewline(b) - 1)
          IN  /\ buf' = Rest(b)
              /\ taken' = Append(taken, line)
              /\ msg' = parse_json_message(line)

\* A slip the checks must notice: the last usable byte is not counted.
TooBigByOne(n) == Len(buf) + n > BUFSIZE - 2

\* A slip the checks must notice: no room is kept for the final '\0'.
TooBigNoRoom(n) == Len(buf) + n > BUFSIZE

\* The chunk does not fit in the buffer, whose last byte is for the '\0'.
TooBig(n) == Len(buf) + n > BUFSIZE - 1

BufferedLine == HasLine(buf) /\ Cut(buf) /\ UNCHANGED <<net, sockerr>>

\* recv returned n > 0 bytes.
Chunk(n) ==
  /\ ~HasLine(buf)
  /\ net' = SubSeq(net, n + 1, Len(net))
  /\ UNCHANGED sockerr
  /\ LET b == buf \o SubSeq(net, 1, n)
     IN  \/ /\ TooBig(n)
            /\ buf' = << >> /\ msg' = Error("refused") /\ UNCHANGED taken
         \/ /\ ~TooBig(n) /\ HasLine(b)
            /\ Cut(b)
         \/ /\ ~TooBig(n) /\ ~HasLine(b)
            /\ buf' = b /\ msg' = Empty /\ UNCHANGED taken

\* recv returned 0: the stream has ended.
EndOfStream == /\ ~HasLine(buf)
               /\ net = << >> /\ client # "open" /\ ~sockerr
               /\ msg' = Error("closed")
               /\ UNCHANGED <<net, sockerr, buf, taken>>

\* recv returned -1: an error of the socket is passed over, and reported once.
RecvError == /\ ~HasLine(buf)
             /\ net = << >> /\ sockerr
             /\ sockerr' = FALSE /\ msg' = Empty
             /\ UNCHANGED <<net, buf, taken>>

-----------------------------------------------------------------------------
(* The loop of the thread.                                                 *)

\* A slip the checks must notice: a line already buffered waits for select.
NeverBuffered == FALSE

has_buffered_line == HasLine(buf)

\* The top of the loop: select is called only when no line is buffered.
Top == /\ pc = "loop"
       /\ pc' = IF has_buffered_line THEN "receive" ELSE "select"
       /\ UNCHANGED <<sent, client, net, sockerr, buf, msg, taken>>

\* select reports the socket readable; its time-out only runs the loop again.
Select == /\ pc = "select"
          /\ net # << >> \/ client # "open"
          /\ pc' = "receive"
          /\ UNCHANGED <<sent, client, net, sockerr, buf, msg, taken>>

Receive == /\ pc = "receive"
           /\ \/ BufferedLine
              \/ \E n \in 1 .. Smaller(CHUNK, Len(net)) : Chunk(n)
              \/ EndOfStream
              \/ RecvError
           /\ pc' = "look"
           /\ UNCHANGED <<sent, client>>

\* A slip the checks must notice: an error without a type is not looked at.
AfterReceiveTypeFirst(m) == IF m.kind # "request" THEN "loop" ELSE "handle"

\* The error of a message is looked at before its type.
AfterReceive(m) == CASE m.kind = "error" -> "gone"
                     [] m.kind = "empty" -> "loop"
                     [] m.kind = "request" -> "handle"

Look == /\ pc = "look"
        /\ pc' = AfterReceive(msg)
        /\ UNCHANGED <<sent, client, net, sockerr, buf, msg, taken>>

\* The handler of the request, which ends by itself (Connections).
HandleRequest == /\ pc = "handle"
                 /\ pc' = "loop"
                 /\ UNCHANGED <<sent, client, net, sockerr, buf, msg, taken>>

Thread == Top \/ Select \/ Receive \/ Look \/ HandleRequest

\* The receive loop is left and the thread cleans up: nothing more is read.
Gone == pc = "gone" /\ UNCHANGED vars

Next == \/ \E l \in Lines : Write(l)
        \/ Close
        \/ Reset
        \/ Thread
        \/ Gone

\* The thread goes on when it can: the client promises nothing.
Spec == Init /\ [][Next]_vars /\ WF_vars(Thread)
=============================================================================
