------------------------------ MODULE MCRunner ------------------------------
(***************************************************************************)
(* Instances of Runner for TLC: every request has a task id of its own,    *)
(* and a cancel message is meant for one of the requests.                  *)
(***************************************************************************)
EXTENDS Runner

OwnIds == [m \in Requests \cup Cancels |->
             IF m \in Requests THEN m ELSE CHOOSE r \in Requests : TRUE]

=============================================================================
