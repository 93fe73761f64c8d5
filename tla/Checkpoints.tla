---------------------------- MODULE Checkpoints ----------------------------
(***************************************************************************)
(* The store of checkpoints (server/LocalGameBuilder.cpp:94-156), one file *)
(* that outlives the sessions and the server, with the instruction that    *)
(* saves into it (server/instructions/Base.lua:99-106) in the sessions of  *)
(* Instructions.tla, and the games loaded from it.  The server may crash   *)
(* at any step of a session and be started again.                          *)
(***************************************************************************)
EXTENDS Instructions

CONSTANTS
  Names,       \* the names a checkpoint may get
  NoName,
  Found        \* what the file may hold when the server is first started

\* GameState: what is saved of a session, the players it has, the living among
\* them and the leader.
Parties ==
  UNION { [hp : [ids -> 0 .. MaxHp], alive : SUBSET ids, boss : ids] :
          ids \in SUBSET Ids }

ASSUME NamesAssumption == NoName \notin Names
ASSUME FoundAssumption ==
  \A content \in Found : \A n \in DOMAIN content : content[n] \in Parties

VARIABLES
  file,        \* the content of chkpts_: a function from names to parties
  whole,       \* the file is one that can be read
  draft,       \* what is being written
  name,        \* final_name, of the checkpoint being saved
  promised     \* history: the parties the players were told are saved, by name

storeVars == <<file, whole, draft, name, promised>>
vars == <<playVars, storeVars>>

Nothing == <<>>       \* no checkpoint, and no draft

\* The party of the session, as it is saved.
Party == [ hp    |-> [p \in players |-> hp[p]],
           alive |-> alive \cap players,
           boss  |-> leader ]

NotSaved == draft' = Nothing /\ name' = NoName

Init ==
  /\ NoSession
  /\ file \in Found /\ whole = TRUE
  /\ promised = file
  /\ draft = Nothing /\ name = NoName

-----------------------------------------------------------------------------
(* LocalGameBuilder::save, called by Session::checkpoint.                  *)

\* Unable to read or to write, it throws.
SaveFails ==
  /\ Throws("error")
  /\ UNCHANGED <<dead, sessionVars, hp, running, chosen, taskVars>>

\* A fault: a name that is taken is not looked for.
NameAlwaysFree == whole

\* The name, with its random suffix, is in no use.
NameFree == whole /\ name' \notin DOMAIN file

\* What a set of parties is with that of the session, under the name n.
WithParty(parties, n) ==
  [ m \in DOMAIN parties \cup {n} |-> IF m = n THEN Party ELSE parties[m] ]

\* The file is read, then opened to be written, which empties it.
BeginSave ==
  /\ Begins
  /\ name' \in Names
  /\ NameFree
  /\ draft' = WithParty(file, name')
  /\ file' = Nothing /\ whole' = FALSE
  /\ GoesOn("write")
  /\ UNCHANGED <<dead, sessionVars, hp, running, chosen, taskVars, promised>>

\* It cannot be read, or the checkpoint already exists.
RefuseSave ==
  /\ Begins
  /\ whole => DOMAIN file # {}
  /\ SaveFails
  /\ UNCHANGED storeVars

\* The content is written, but what the stream still holds is by its
\* destructor, after the failures were looked for: it may be cut unnoticed.
WriteFile ==
  /\ pc = "write"
  /\ \/ file' = draft /\ whole' = TRUE
     \/ UNCHANGED <<file, whole>>
  /\ draft' = Nothing
  /\ GoesOn("tell")
  /\ UNCHANGED <<dead, sessionVars, hp, running, chosen, taskVars, name,
                 promised>>

\* The writing is seen to fail, and leaves the file as it is.
WriteFails ==
  /\ pc = "write"
  /\ SaveFails
  /\ NotSaved
  /\ UNCHANGED <<file, whole, promised>>

\* The instruction tells everyone the name, and asks the leader to confirm.
TellName ==
  /\ pc = "tell"
  /\ Broadcast(leader, "ask")
  /\ promised' = WithParty(promised, name)
  /\ name' = NoName
  /\ UNCHANGED <<dead, alive, hp, running, chosen, taskVars, file, whole,
                 draft>>

-----------------------------------------------------------------------------
(* LocalGameBuilder::load, called by Session::gameFromCheckpoint.          *)

\* The party of the entrants, among those saved: some may be missing.  The
\* leader who saved leads if it is here, otherwise the first player does.
Restored(party, entrants) ==
  [ hp    |-> [p \in entrants |-> party.hp[p]],
    alive |-> entrants \cap party.alive,
    boss  |-> IF party.boss \in entrants THEN party.boss
                                         ELSE FirstOf(entrants) ]

\* A game is loaded.  With an unknown entrant, or nobody alive, it is not.
LoadGame ==
  /\ whole
  /\ \E n \in DOMAIN file :
       \E entrants \in SUBSET DOMAIN file[n].hp :
         /\ entrants \cap file[n].alive # {}
         /\ SessionBegins(Restored(file[n], entrants))
  /\ UNCHANGED storeVars

\* The server crashes, and is started again.
Crash ==
  /\ pc # "lobby"
  /\ SessionEnds
  /\ NotSaved
  /\ UNCHANGED <<file, whole, promised>>

-----------------------------------------------------------------------------
SessionThread ==
  \/ Play /\ UNCHANGED storeVars
  \/ BeginSave \/ RefuseSave \/ WriteFile \/ WriteFails \/ TellName

Lobby == (NewGame /\ UNCHANGED storeVars) \/ LoadGame

Environment ==
  \/ Crash
  \/ StopSession /\ UNCHANGED storeVars
  \/ \E p \in Ids : Drop(p) /\ UNCHANGED storeVars

Next == SessionThread \/ Lobby \/ Environment

Spec == Init /\ [][Next]_vars

\* Where an instruction has asked its players for a reply.
AtQuestion == pc \in {"ask", "asked", "confirm"}

\* The session thread goes on in an instruction; but nobody need reply, and a
\* request ends by itself only when the session is stopped.
FairSpec ==
  Spec /\ WF_vars(SessionThread /\ InInstruction /\ (AtQuestion => ~running))

-----------------------------------------------------------------------------
(* Properties.                                                             *)

\* As long as the file can be read it has every checkpoint whose name the
\* players were told, with the party as it was then, through later sessions,
\* other checkpoints and crashes of the server.  A crash that comes while it
\* is written, or a write that fails, seen or not, ends this for all of them.
PromisedLoads ==
  whole => \A n \in DOMAIN promised :
             n \in DOMAIN file /\ file[n] = promised[n]

\* An instruction that begins comes to its end, or to a question to players who
\* need not answer it, whoever dies or is lost during it; one that is stopped
\* comes to its end.
InstructionEnds == InInstruction ~> ~InInstruction \/ (AtQuestion /\ running)
=============================================================================
