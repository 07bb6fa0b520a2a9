--------------------------- MODULE InterviewBook ---------------------------
(***************************************************************************)
(* What the MeetMind backend promises about interviews and workspaces,     *)
(* without statements, requests or transactions.  An interview is entered  *)
(* whole, with its candidate and its summary, in a workspace of its        *)
(* interviewer, and its first one makes that workspace.  Nothing entered   *)
(* is ever changed.                                                        *)
(*                                                                         *)
(* The exception is part of the promise: a user who has no workspace yet   *)
(* may race, and a user who raced may get more than one.  Whoever has a    *)
(* workspace before any race has this one and no other for good.           *)
(* Interviews implements this specification.                               *)
(***************************************************************************)
CONSTANTS
  User, Workspace, Interview,
  NoUser, NoWorkspace          \* "no row"

VARIABLES
  creator,   \* who a workspace was made by
  team,      \* the members of a workspace
  entry,     \* what is entered about an interview
  raced      \* users whose first interviews were created side by side

vars == <<creator, team, entry, raced>>

HomesOf(u) == {w \in Workspace : u \in team[w]}

NoEntry ==
  [interviewer |-> NoUser, workspace |-> NoWorkspace, candidate |-> NoWorkspace,
   summary |-> FALSE]

Init ==
  /\ creator = [w \in Workspace |-> NoUser]
  /\ team = [w \in Workspace |-> {}]
  /\ entry = [i \in Interview |-> NoEntry]
  /\ raced = {}

\* The interview i of u, its candidate and its summary are entered in w.
Enter(i, u, w) ==
  /\ entry[i] = NoEntry
  /\ entry' = [entry EXCEPT ![i] =
       [interviewer |-> u, workspace |-> w, candidate |-> w, summary |-> TRUE]]

\* A user who did not race uses the one workspace there is.
Create(i, u, w) ==
  /\ w \in HomesOf(u)
  /\ u \in raced \/ HomesOf(u) = {w}
  /\ Enter(i, u, w)
  /\ UNCHANGED <<creator, team, raced>>

\* The first interview makes the workspace of the user, and only it does.
CreateFirst(i, u, w) ==
  /\ u \in raced \/ HomesOf(u) = {}
  /\ creator[w] = NoUser /\ team[w] = {}
  /\ creator' = [creator EXCEPT ![w] = u]
  /\ team' = [team EXCEPT ![w] = {u}]
  /\ Enter(i, u, w)
  /\ UNCHANGED raced

\* Only a user without a workspace can race.
Race(u) ==
  /\ HomesOf(u) = {}
  /\ raced' = raced \cup {u}
  /\ UNCHANGED <<creator, team, entry>>

Next ==
  \E u \in User :
    \/ \E i \in Interview, w \in Workspace : Create(i, u, w) \/ CreateFirst(i, u, w)
    \/ Race(u)

Spec == Init /\ [][Next]_vars

\* What a user may rely on: an entry and a workspace stay as they were made,
\* and who has a workspace and did not race by then never gets another one.
Kept ==
  /\ \A i \in Interview : entry[i] # NoEntry => entry'[i] = entry[i]
  /\ \A w \in Workspace : creator[w] # NoUser =>
       creator'[w] = creator[w] /\ team'[w] = team[w]
  /\ \A u \in User \ raced : HomesOf(u) # {} =>
       u \notin raced' /\ HomesOf(u)' = HomesOf(u)
OnlyKept == [][Kept]_vars
=============================================================================
