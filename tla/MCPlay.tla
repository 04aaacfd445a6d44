------------------------------- MODULE MCPlay -------------------------------
(* Module Play for TLC.                                                    *)
EXTENDS Play

\* No action reads result, so states that differ only in it have the same
\* successors: TLC keeps one of them, and still checks the action properties
\* on every step it generates.
GameOnly == match
=============================================================================
