------------------------------ MODULE Delivery ------------------------------
(***************************************************************************)
(* What the client promises the handler about a result given to Send: it   *)
(* goes to the peer at most once, the client alone decides when to drop    *)
(* it, and a result that has been dropped is never retried.                *)
(***************************************************************************)
CONSTANT Results

VARIABLE fate   \* fate[r]: what has become of result r

Pending == {r \in Results : fate[r] = "pending"}

Init == fate = [r \in Results |-> "new"]

\* Send accepts the result, or drops it at once.
Submit(r) ==
  /\ fate[r] = "new"
  /\ \E f \in {"pending", "lost"} : fate' = [fate EXCEPT ![r] = f]

\* The result is written to a connection.
Transmit(r) == fate[r] = "pending" /\ fate' = [fate EXCEPT ![r] = "sent"]

\* Results are dropped: a write failed, a buffer was replaced, the process ended.
Lose(S) == fate' = [r \in Results |-> IF r \in S THEN "lost" ELSE fate[r]]

Next == \/ \E r \in Results : Submit(r) \/ Transmit(r)
        \/ \E S \in SUBSET Pending : Lose(S)

Spec == Init /\ [][Next]_fate

=============================================================================
