---------------------------- MODULE LineChannel ----------------------------
(***************************************************************************)
(* What the protocol takes a connection to be: a channel of lines.  The    *)
(* server takes the lines of a client whole, in the order they were        *)
(* written, each once; it takes every line there is without waiting for    *)
(* another; and it ends the connection only when the client has gone, when *)
(* a line reports an error of the client, or when a line is too long.      *)
(***************************************************************************)
EXTENDS Naturals, Sequences

CONSTANTS Lines,            \* what a client may write between two newlines
          Complaints,       \* the lines whose "error" field is not empty
          Limit             \* the longest line the channel promises to carry

VARIABLES sent,             \* the lines written by the client, in order
          taken,            \* the lines taken by the server, in order
          client,           \* "open", "closed" or "reset"
          over              \* the server has ended the connection

vars == <<sent, taken, client, over>>

Init == sent = << >> /\ taken = << >> /\ client = "open" /\ over = FALSE

Write(l) == /\ client = "open"
            /\ sent' = Append(sent, l)
            /\ UNCHANGED <<taken, client, over>>

Leave(how) == /\ client = "open"
              /\ client' = how
              /\ UNCHANGED <<sent, taken, over>>

Next1 == Len(taken) + 1             \* the number of the next line to take

Take == /\ ~over
        /\ Next1 <= Len(sent)
        /\ \A i \in 1 .. Len(taken) : taken[i] \notin Complaints
        /\ taken' = Append(taken, sent[Next1])
        /\ UNCHANGED <<sent, client, over>>

TooLong == \E i \in 1 .. Len(sent) : Len(sent[i]) > Limit

\* A client that closed in good order has had all its lines taken.
MayEnd == \/ client = "reset"
          \/ client = "closed" /\ Next1 > Len(sent)
          \/ \E i \in 1 .. Len(taken) : taken[i] \in Complaints
          \/ TooLong

End == ~over /\ MayEnd /\ over' = TRUE /\ UNCHANGED <<sent, taken, client>>

Next == \/ \E l \in Lines : Write(l)
        \/ \E how \in {"closed", "reset"} : Leave(how)
        \/ Take
        \/ End

\* A line that is there is taken, and a connection that must end does.
Fairness == WF_vars(Take) /\ WF_vars(client # "open" /\ End)

Spec == Init /\ [][Next]_vars /\ Fairness
=============================================================================
