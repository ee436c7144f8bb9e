-------------------------- MODULE MCPeopleScenarios --------------------------
(* PeopleMutation with one set of contending requests at a time: the others have *)
(* begun and lost their connection before their first statement, a state that   *)
(* Begin and Abort reach from Init.                                           *)
EXTENDS MCPeopleMutation

CONSTANT Scenarios

Lost == [NewTx EXCEPT !.phase = "done"]

MCInit ==
  /\ Seeded
  /\ \E sent \in Scenarios :
       /\ tx = [r \in Requests |-> IF r \in sent THEN NewTx ELSE Lost]
       /\ reply = [r \in Requests |-> Answer(IF r \in sent THEN "none" ELSE "failed")]

MCSpec == MCInit /\ [][Next]_vars /\ Fairness
==============================================================================
