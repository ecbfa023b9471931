----------------------------- MODULE MoveService -----------------------------
(***************************************************************************)
(* FileService with renames and copies: each takes the payload of a file   *)
(* to another name in one step.  A file in the way of a rename is deleted  *)
(* before.                                                                 *)
(***************************************************************************)
EXTENDS FileService

Rename(s, d) ==
    /\ content[s] # Nil /\ content[d] = Nil
    /\ content' = [content EXCEPT ![d] = content[s], ![s] = Nil]

Copy(s, d) ==
    /\ content[s] # Nil
    /\ content' = [content EXCEPT ![d] = content[s]]

MSpec == Init /\ [][Next \/ \E s, d \in Names : Rename(s, d) \/ Copy(s, d)]_content

=============================================================================
