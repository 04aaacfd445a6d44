------------------------------ MODULE MCServer ------------------------------
(* The server and its properties for TLC.                                  *)
EXTENDS ServerProperties, TLC

\* The players are interchangeable: no action names one of them.
Symmetry == Permutations(Players)

\* No action reads out, and no guard tells a registered client from one that has
\* only connected: states that differ only there have the same successors.  The
\* action properties are checked on every step all the same.
WithoutRegistration ==
  <<matches, leaving, [p \in Players |-> Connected(p)],
    {p \in Players : player_state[p] = "NULL"}>>
=============================================================================
