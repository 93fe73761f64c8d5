---------------------------- MODULE SessionCall ----------------------------
(***************************************************************************)
(* A call of Session::start as the lobby sees it: connections may break    *)
(* until it ends, in one step, with one of the outcomes of SessionOutcomes.*)
(***************************************************************************)
EXTENDS SessionOutcomes

VARIABLES
  entrants,   \* Entrants: the ids, the caller's and those left at the end
  sockets,    \* entrants who hold their socket
  dead,       \* entrants whose connection is broken
  saved,      \* the players of the checkpoint, none for a new game
  missing,    \* argument missing_entrants
  result      \* "none" until the session ends


callVars == <<entrants, sockets, dead, saved, missing, result>>

CInit ==
  /\ entrants \in (SUBSET Ids) \ {{}}
  /\ sockets = entrants
  /\ dead \subseteq Ids
  /\ saved \in SUBSET Ids /\ missing \in BOOLEAN
  /\ result = "none"

\* A connection breaks.
CDrop ==
  /\ result = "none"
  /\ \E p \in Ids : dead' = dead \cup {p}
  /\ UNCHANGED <<entrants, sockets, saved, missing, result>>

\* The whole session.
CStart ==
  /\ result = "none"
  /\ \E e \in SessionOutcomes(entrants, dead, saved, missing) :
       /\ entrants' = e.entrants
       /\ sockets' = e.sockets
       /\ result' = e.result
  /\ UNCHANGED <<dead, saved, missing>>

CNext == CDrop \/ CStart

CSpec == CInit /\ [][CNext]_callVars
=============================================================================
