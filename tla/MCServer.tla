------------------------------ MODULE MCServer ------------------------------
(* Server with one database thread, two io threads and two clients: the      *)
(* populated tables of MCWorkerPool, and a request each of another kind.     *)
EXTENDS MCWorkerPool, Server

ServerRequests ==
    For([c \in {"c1", "c2"} |-> IF c = "c1" THEN {Login("alice", "pass")}
                                           ELSE {Status(1, "bob")}])

ServerWorkloads == {ServerRequests}

MCServerInit == MCInit /\ ServerInit

MCServerSpec == MCServerInit /\ [][ServerNext]_serverVars /\ ServerFairness
=============================================================================
