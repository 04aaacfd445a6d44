-------------------------- MODULE FramingProperties --------------------------
(* What the receiving end of a connection must guarantee.                  *)
EXTENDS Framing

\* The longest line that fits whatever else its pieces arrive with: one byte
\* less than BUFSIZE - CHUNK, which its newline takes.
Limit == BUFSIZE - CHUNK - 1

Channel == INSTANCE LineChannel WITH over <- pc = "gone"

\* Every variable of Framing has its type, and a thread that has just received
\* (pc = "look") has the result of this call in msg.
TypeOK == /\ sent \in Seq(Lines)
          /\ client \in {"open", "closed", "reset"}
          /\ net \in Seq(Bytes \cup {NL})
          /\ sockerr \in BOOLEAN
          /\ buf \in Seq(Bytes \cup {NL})
          /\ pc \in {"loop", "select", "receive", "look", "handle", "gone"}
          /\ msg \in Messages
          /\ taken \in Seq(Seq(Bytes))

\* receive_message never writes past the end of rb->buf: what it holds leaves
\* room for the '\0' it puts after it (memcpy and rb->buf[rb->len] = '\0').
BufferFits == Len(buf) <= BUFSIZE - 1

\* A client all of whose lines are within the limit is never refused, however
\* its lines are cut into pieces or glued together: the largest chunk on top of
\* the longest incomplete line fills the buffer exactly.
ShortLinesNeverRefused ==
  msg = Error("refused") => \E i \in 1 .. Len(sent) : Len(sent[i]) > Limit

\* The connection is a channel of lines (LineChannel), its safety: the lines are
\* taken whole, in order, each once, however they are cut or glued together, and
\* the thread leaves its loop only for the reasons the channel has.
LinesWholeInOrder == Channel!Init /\ [][Channel!Next]_(Channel!vars)

\* The same with the liveness of the channel: a line that is there is taken
\* without waiting for more traffic (has_buffered_line), and the loop is left
\* when it must be.
ImplementsLineChannel == Channel!Spec

\* The thread of a client that has gone, in order or not, leaves its loop and
\* cleans up, whatever it still had to read (the opponent waits for it).
DisconnectionNoticed == (client # "open") ~> (pc = "gone")
=============================================================================
