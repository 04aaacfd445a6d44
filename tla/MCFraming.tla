----------------------------- MODULE MCFraming -----------------------------
(* The receiving end of a connection for TLC: a chunk of 3 bytes and a     *)
(* buffer of 7, so lines up to 3 bytes and their newline are within the    *)
(* limit; of the long lines one may fit by luck, the other cannot.         *)
EXTENDS FramingProperties

CONSTANTS x, y

\* Within the limit: the empty line, and lines that differ in length and content.
ShortLines == {<< >>, <<y, x>>, <<x, y, y>>}

LongLines == {<<y, x, x, y>>, <<y, y, y, y, y, y, y>>}

AllLines == ShortLines \cup LongLines

Blank == {<< >>}

Complaining == {<<y, x>>}
=============================================================================
