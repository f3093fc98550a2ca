------------------------------ MODULE MCAccess ------------------------------
(* A small instance of Access for TLC. *)
EXTENDS Access, TLC

CONSTANTS a, b, tab1, tab2

\* Two setups, overlapping or one after the other; one setup while a tab tries
\* to log in; and two tabs on a database that is set up.
ThreeEpisodes ==
  {[setups |-> Setups, tabs |-> {}, done |-> FALSE],
   [setups |-> {a}, tabs |-> {tab1}, done |-> FALSE],
   [setups |-> {}, tabs |-> {tab1, tab2}, done |-> TRUE]}
=============================================================================
