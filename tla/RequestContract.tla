-------------------------- MODULE RequestContract --------------------------
(***************************************************************************)
(* What a request does to the session, seen from its caller: Request with  *)
(* the memory of the session each request found, to be compared with the   *)
(* outcomes of SessionBroadcast that Session.tla takes as single steps.    *)
(***************************************************************************)
EXTENDS Request

VARIABLE found      \* players and leader when request() is called

ContractInit == Init /\ found = [players |-> players, leader |-> leader]

ContractNext ==
  /\ Next
  /\ found' = IF requests' # requests
              THEN [players |-> players, leader |-> leader] ELSE found

ContractSpec == ContractInit /\ [][ContractNext]_<<vars, found>>

\* How a request ends for the caller, when its behaviour is defined.
ReturnedResult == IF pc = "script" THEN "sent" ELSE result

\* request() either returns, or leaves with one of its exceptions, having lost
\* players whose connection is broken and no other, with its leader replaced by
\* the first player left and never by one it lost, whatever the interleaving.
RequestKeepsContract ==
  [][ InRequest /\ pc' \in {"script", "ended"} =>
        [ players |-> players, leader |-> leader,
          result |-> ReturnedResult ]'
            \in RequestOutcomes(found.players, found.leader, running, dead)
    ]_vars
=============================================================================
