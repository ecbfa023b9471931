----------------------------- MODULE FileService -----------------------------
(***************************************************************************)
(* What the clients of the proxy are promised: a file has one payload,     *)
(* which only a write and a delete of that file change, each in one step.  *)
(***************************************************************************)
CONSTANTS Names, Data, Empty, Nil

VARIABLE content    \* payload of every file, Nil if there is none

Init == content = [f \in Names |-> Nil]

Write(f, d) == content' = [content EXCEPT ![f] = d]

Delete(f) == content[f] # Nil /\ content' = [content EXCEPT ![f] = Nil]

Next == \E f \in Names : Delete(f) \/ \E d \in Data \cup {Empty} : Write(f, d)

Spec == Init /\ [][Next]_content

=============================================================================
