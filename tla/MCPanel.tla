------------------------------ MODULE MCPanel ------------------------------
(* Two processes of the server, two identifiers and two clients: the second  *)
(* client has the identifier of the first, or another one, in the same       *)
(* process or in the next.                                                   *)
EXTENDS Panel

\* The identifiers are alike, so the first client that is announced may have
\* this one: what another does is the same under another name.
FirstId == CHOOSE id \in Ids : TRUE
NamedInOrder == issued # {} => FirstId \in IdsOf(issued)
=============================================================================
