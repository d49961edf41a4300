------------------------------- MODULE MCCLI -------------------------------
(***************************************************************************)
(* Instances of CLI for TLC.                                               *)
(***************************************************************************)
EXTENDS CLI

\* A database opened, a call that is complete and one that is not, a command
\* that needs no argument, and the way out.
MCLines ==
    {[cmd |-> "OPEN", words |-> 2], [cmd |-> "PUT", words |-> 3],
     [cmd |-> "GET", words |-> 1], [cmd |-> "HELP", words |-> 1],
     [cmd |-> "EXIT", words |-> 1]}
=============================================================================
