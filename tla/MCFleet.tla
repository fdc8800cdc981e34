------------------------------- MODULE MCFleet -------------------------------
(***************************************************************************)
(* Fleet on a small instance: one declared and one later registered edp,   *)
(* updates that change a token, change another instance than the one that  *)
(* was read, or have an empty token.  Two clients edit at once only while  *)
(* nobody reads the fleet: their race concerns the registry alone.         *)
(***************************************************************************)
EXTENDS Fleet, TLC

CONSTANTS a, b, x, y, first, second

MCConfig == <<[label |-> a, base |-> x, token |-> first]>>
MCCreations == {[label |-> b, base |-> y, token |-> NoToken]}
MCBodies == {[id |-> Omitted, label |-> Omitted, base |-> Omitted, token |-> second],
             [id |-> 2, label |-> b, base |-> x, token |-> Omitted],
             [id |-> Omitted, label |-> Omitted, base |-> Omitted, token |-> NoToken]}

Interchangeable == Permutations(Clients)

OneEditor == \A c, d \in Clients : edit[c] # None /\ edit[d] # None => c = d
Unseen    == page = NoAnswer /\ \A q \in Requests : ask[q] = NotAsked

MCSpec == Init /\ [][Next /\ (OneEditor' \/ Unseen')]_vars
=============================================================================
