------------------------------- MODULE MCGateway -------------------------------
(***************************************************************************)
(* Three scenarios: one client that makes any two requests of the library; *)
(* two clients whose requests on one file meet in two workers, with        *)
(* losses and a shutdown; and two clients that share a worker, one of      *)
(* which makes another request, perhaps after a timeout.                   *)
(***************************************************************************)
EXTENDS Gateway

CONSTANTS c1, c2, w1, w2

MCScenarios ==
    <<[requests |-> Library,
       limit |-> 2, clients |-> {c1}, workers |-> {w1}, faults |-> {"timeout"}],
      [requests |-> set_file_read_request \cup set_delete_file_request
                   \cup {r \in set_file_write_request : ~r.cached},
       limit |-> 2, clients |-> {c1, c2}, workers |-> {w1, w2},
       faults |-> {"loss", "stop"}],
      [requests |-> {r \in set_file_write_request \cup set_file_read_request :
                        ~r.cached /\ (r.op = "WRITE_FILE" => r.size > 0)},
       limit |-> 3, clients |-> {c1, c2}, workers |-> {w1}, faults |-> {"timeout"}]>>
================================================================================
