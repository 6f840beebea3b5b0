-------------------------- MODULE MCServerProcess --------------------------
(***************************************************************************)
(* A small instance of ServerProcess: a report and a push of one agent,   *)
(* perhaps known already, and the sweeper, which makes as many passes as   *)
(* it likes.                                                               *)
(***************************************************************************)
EXTENDS ServerProcess

CONSTANTS u1, m1, r1

AllClients == {m1, r1, Sweeper}
AllToU1 == [c \in Messages \cup Requests |-> u1]
=============================================================================
