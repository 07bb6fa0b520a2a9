----------------------------- MODULE Interviews -----------------------------
(***************************************************************************)
(* Interviews and default workspaces of the MeetMind backend:              *)
(* InterviewService.create_interview with _get_or_create_workspace, and    *)
(* InterviewService.get_interview.                                         *)
(*                                                                         *)
(* A request runs in one database session; what it flushes is seen by      *)
(* nobody else before its commit (PostgreSQL, READ COMMITTED).  An action  *)
(* is what runs between two awaits on the database.  A candidate and a     *)
(* summary are identified with the interview they are inserted for.        *)
(***************************************************************************)
EXTENDS Naturals, FiniteSets

CONSTANTS
  User, Workspace, Interview,   \* rows, identified by their UUIDs
  Request,                      \* slots for requests in flight
  NoUser, NoWorkspace           \* "no row"

ASSUME NoValueAssumption == NoUser \notin User /\ NoWorkspace \notin Workspace

VARIABLES
  \* The committed tables.
  createdBy,     \* workspaces.created_by
  members,       \* rows of workspace_members: pairs of workspace and user
  interviewer,   \* interviews.interviewer_id
  placed,        \* interviews.workspace_id
  candidate,     \* candidates.workspace_id of the interview's candidate
  summarized,    \* interviews with a row of interview_summaries
  \* The request in each slot.
  pc,            \* what it does next
  user,          \* the authenticated user
  label,         \* whether role_title, or title for want of one, fits
  space,         \* the workspace the interview goes to
  written,       \* the rows it has flushed and not committed
  \* History, read by no guard.
  raced          \* users with two requests that both make their first workspace

tables == <<createdBy, members, interviewer, placed, candidate, summarized>>
locals == <<pc, user, label, space, written>>
vars   == <<tables, locals, raced>>

PC == {"idle", "lookup", "member", "candidate", "interview", "summary"}
Row == {"workspace", "member", "candidate", "interview"}

Stored(i) == interviewer[i] # NoUser
MemberOf(u) == {w \in Workspace : <<w, u>> \in members}
\* The request is making a workspace of its own.
Making(r) == "workspace" \in written[r]

Init ==
  /\ createdBy = [w \in Workspace |-> NoUser]
  /\ members = {}
  /\ interviewer = [i \in Interview |-> NoUser]
  /\ placed = [i \in Interview |-> NoWorkspace]
  /\ candidate = [i \in Interview |-> NoWorkspace]
  /\ summarized = {}
  /\ pc = [r \in Request |-> "idle"]
  /\ user = [r \in Request |-> NoUser]
  /\ label = [r \in Request |-> "fits"]
  /\ space = [r \in Request |-> NoWorkspace]
  /\ written = [r \in Request |-> {}]
  /\ raced = {}

\* The session is closed and what was not committed is rolled back.
Finish(r) ==
  /\ pc' = [pc EXCEPT ![r] = "idle"]
  /\ user' = [user EXCEPT ![r] = NoUser]
  /\ label' = [label EXCEPT ![r] = "fits"]
  /\ space' = [space EXCEPT ![r] = NoWorkspace]
  /\ written' = [written EXCEPT ![r] = {}]

\* A flush sends the INSERT of one row.
Flush(r, from, row, to) ==
  /\ pc[r] = from
  /\ pc' = [pc EXCEPT ![r] = to]
  /\ written' = [written EXCEPT ![r] = @ \cup {row}]

\* The column f once the rows r has flushed are committed.
Published(r, row, f, x, value) ==
  IF row \in written[r] THEN [f EXCEPT ![x] = value] ELSE f

\* Bound: a request starts while an interview and a workspace are left for it.
RowsLeft ==
  Cardinality({i \in Interview : ~Stored(i)})
    > Cardinality({r \in Request : pc[r] # "idle"})

-----------------------------------------------------------------------------
(* create_interview.                                                        *)

\* Mutant of RoleTitle: the value is taken as it comes.
RoleTitleUnchecked(title, role) == IF role = "none" THEN title ELSE "fits"

\* role_title = request.role_title or request.title; the column takes 120
\* characters, a title may have 200.
RoleTitle(title, role) ==
  IF role = "none" /\ title = "long" THEN "too_long" ELSE "fits"

\* get_current_user has found the user.
Arrive(r, u) ==
  /\ RowsLeft
  /\ pc[r] = "idle"
  /\ pc' = [pc EXCEPT ![r] = "lookup"]
  /\ user' = [user EXCEPT ![r] = u]
  /\ \E title \in {"short", "long"}, role \in {"none", "given"} :
       label' = [label EXCEPT ![r] = RoleTitle(title, role)]
  /\ UNCHANGED <<tables, space, written, raced>>

\* _get_or_create_workspace: the user's only workspace.
LookupFinds(r) ==
  /\ pc[r] = "lookup"
  /\ \E w \in Workspace : MemberOf(user[r]) = {w} /\ space' = [space EXCEPT ![r] = w]
  /\ pc' = [pc EXCEPT ![r] = "candidate"]
  /\ UNCHANGED <<tables, user, label, written, raced>>

\* Mutant of LookupNone: the workspace is committed at once.
LookupNoneCommits(r) ==
  /\ MemberOf(user[r]) = {}
  /\ Flush(r, "lookup", "workspace", "member")
  /\ \E w \in Workspace :
       /\ createdBy[w] = NoUser
       /\ \A q \in Request : space[q] # w
       /\ space' = [space EXCEPT ![r] = w]
       /\ createdBy' = [createdBy EXCEPT ![w] = user[r]]
  /\ UNCHANGED <<members, interviewer, placed, candidate, summarized, user, label, raced>>

\* Mutant of LookupNone: a workspace of the user is not looked for.
LookupSkipped(r) ==
  /\ Flush(r, "lookup", "workspace", "member")
  /\ \E w \in Workspace :
       /\ createdBy[w] = NoUser
       /\ \A q \in Request : space[q] # w
       /\ space' = [space EXCEPT ![r] = w]
  /\ raced' = IF \E q \in Request : Making(q) /\ user[q] = user[r]
              THEN raced \cup {user[r]} ELSE raced
  /\ UNCHANGED <<tables, user, label>>

\* None: a default workspace is flushed.
LookupNone(r) ==
  /\ MemberOf(user[r]) = {}
  /\ Flush(r, "lookup", "workspace", "member")
  /\ \E w \in Workspace :
       /\ createdBy[w] = NoUser
       /\ \A q \in Request : space[q] # w
       /\ space' = [space EXCEPT ![r] = w]
  /\ raced' = IF \E q \in Request : Making(q) /\ user[q] = user[r]
              THEN raced \cup {user[r]} ELSE raced
  /\ UNCHANGED <<tables, user, label>>

\* scalar_one_or_none met two rows: MultipleResultsFound, a 500.
LookupFails(r) ==
  /\ pc[r] = "lookup"
  /\ \E w1, w2 \in MemberOf(user[r]) : w1 # w2
  /\ Finish(r)
  /\ UNCHANGED <<tables, raced>>

\* Mutant of FlushMember: the member row is left to a later request.
FlushNoMember(r) ==
  /\ pc[r] = "member"
  /\ pc' = [pc EXCEPT ![r] = "candidate"]
  /\ UNCHANGED <<tables, user, label, space, written, raced>>

FlushMember(r) ==
  /\ Flush(r, "member", "member", "candidate")
  /\ UNCHANGED <<tables, user, label, space, raced>>

FlushCandidate(r) ==
  /\ Flush(r, "candidate", "candidate", "interview")
  /\ UNCHANGED <<tables, user, label, space, raced>>

FlushInterview(r) ==
  /\ label[r] = "fits"
  /\ Flush(r, "interview", "interview", "summary")
  /\ UNCHANGED <<tables, user, label, space, raced>>

\* PostgreSQL refuses a value that is too long for the column: a 500.
FlushInterviewFails(r) ==
  /\ pc[r] = "interview"
  /\ label[r] = "too_long"
  /\ Finish(r)
  /\ UNCHANGED <<tables, raced>>

\* The commit sends the INSERT of the summary and publishes every row.
Commit(r) ==
  /\ pc[r] = "summary"
  /\ \E i \in Interview :
       /\ ~Stored(i)
       /\ interviewer' = Published(r, "interview", interviewer, i, user[r])
       /\ placed' = Published(r, "interview", placed, i, space[r])
       /\ candidate' = Published(r, "candidate", candidate, i, space[r])
       /\ summarized' = summarized \cup {i}
  /\ createdBy' = Published(r, "workspace", createdBy, space[r], user[r])
  /\ members' = IF "member" \in written[r]
                THEN members \cup {<<space[r], user[r]>>} ELSE members
  /\ Finish(r)
  /\ UNCHANGED raced

\* A statement fails, the client goes away, the worker is killed.
Abort(r) ==
  /\ pc[r] # "idle"
  /\ Finish(r)
  /\ UNCHANGED <<tables, raced>>

Create(r) ==
  \/ LookupFinds(r) \/ LookupNone(r) \/ LookupFails(r)
  \/ FlushMember(r) \/ FlushCandidate(r)
  \/ FlushInterview(r) \/ FlushInterviewFails(r)
  \/ Commit(r)

Next ==
  \E r \in Request : (\E u \in User : Arrive(r, u)) \/ Create(r) \/ Abort(r)

Spec == Init /\ [][Next]_vars

-----------------------------------------------------------------------------
(* get_interview, which changes nothing: 404, or whether the answer names   *)
(* the candidate (or "Unknown") and has a summary.                          *)

GetInterview(i, u) ==
  IF interviewer[i] # u THEN [found |-> FALSE]
  ELSE [found |-> TRUE, candidate |-> candidate[i] # NoWorkspace,
        summary |-> i \in summarized]

-----------------------------------------------------------------------------
(* Properties.                                                              *)

TypeOK ==
  /\ createdBy \in [Workspace -> User \cup {NoUser}]
  /\ members \subseteq Workspace \X User
  /\ interviewer \in [Interview -> User \cup {NoUser}]
  /\ placed \in [Interview -> Workspace \cup {NoWorkspace}]
  /\ candidate \in [Interview -> Workspace \cup {NoWorkspace}]
  /\ summarized \subseteq Interview
  /\ pc \in [Request -> PC]
  /\ user \in [Request -> User \cup {NoUser}]
  /\ label \in [Request -> {"fits", "too_long"}]
  /\ space \in [Request -> Workspace \cup {NoWorkspace}]
  /\ written \in [Request -> SUBSET Row]
  /\ raced \subseteq User

\* Whatever is interrupted, rolled back or interleaved: an interview can be
\* read back by its interviewer, and by nobody else, with its candidate and
\* its summary; interview and candidate belong to one workspace, and the
\* interviewer is a member of it.
InterviewsWhole ==
  \A i \in Interview : Stored(i) =>
    /\ \A u \in User :
         GetInterview(i, u) = IF u = interviewer[i]
                              THEN [found |-> TRUE, candidate |-> TRUE, summary |-> TRUE]
                              ELSE [found |-> FALSE]
    /\ candidate[i] = placed[i]
    /\ <<placed[i], interviewer[i]>> \in members

\* A default workspace never stands alone: its creator is its one member, and
\* the interview it was made for is in it, however often the first attempts
\* of the user failed half-way.
WorkspacesInUse ==
  \A w \in Workspace :
    /\ createdBy[w] = NoUser => \A u \in User : <<w, u>> \notin members
    /\ createdBy[w] # NoUser =>
         /\ \A u \in User : <<w, u>> \in members <=> u = createdBy[w]
         /\ \E i \in Interview : Stored(i) /\ placed[i] = w

\* A user has one workspace, unless two requests were making the first one at
\* the same time.
OneWorkspaceUnlessRaced ==
  \A u \in User \ raced : \A w1, w2 \in MemberOf(u) : w1 = w2

\* What the service promises, without its statements and sessions: every
\* create_interview happens at once, at its commit, or not at all.
Book == INSTANCE InterviewBook WITH
  creator <- createdBy,
  team <- [ws \in Workspace |-> {m \in User : <<ws, m>> \in members}],
  entry <- [iv \in Interview |->
    [interviewer |-> interviewer[iv], workspace |-> placed[iv],
     candidate |-> candidate[iv], summary |-> iv \in summarized]]

\* Interviews implements its abstract specification: whatever is interleaved
\* or rolled back, create_interview enters an interview whole, and makes a
\* workspace for a user who has none, or raced while having none.
ImplementsBook == Book!Spec

\* What the docstring of _get_or_create_workspace says: the user's first
\* workspace, or a new one; there is no third outcome.
FirstWorkspaceReturned == [][\A r \in Request : ~LookupFails(r)]_vars

-----------------------------------------------------------------------------
(* The inductive invariant behind the safety properties.                    *)

\* What a request has flushed when it is about to do its next step.
FlushedInOrder ==
  \A r \in Request :
    /\ pc[r] \in {"idle", "lookup"} => written[r] = {} /\ space[r] = NoWorkspace
    /\ pc[r] = "member" => written[r] = {"workspace"}
    /\ pc[r] \in {"candidate", "interview", "summary"} =>
         ("member" \in written[r] <=> Making(r))
    /\ pc[r] \in {"interview", "summary"} => "candidate" \in written[r]
    /\ pc[r] = "summary" => "interview" \in written[r]

\* A request works in a workspace of its user: a committed one, or one it is
\* making and shares with no other request.
SpaceIsTheUsers ==
  /\ \A r \in Request : pc[r] # "idle" => user[r] \in User
  /\ \A r \in Request : pc[r] \notin {"idle", "lookup"} =>
       /\ space[r] \in Workspace
       /\ Making(r) => createdBy[space[r]] = NoUser
       /\ ~Making(r) => <<space[r], user[r]>> \in members
  /\ \A r, q \in Request :
       Making(r) /\ Making(q) /\ space[r] = space[q] => r = q

\* Unless raced, a user whose first workspace is being made has none yet, and
\* one request makes it.
FirstOfTheUser ==
  \A r \in Request : Making(r) /\ user[r] \notin raced =>
    /\ MemberOf(user[r]) = {}
    /\ \A q \in Request : Making(q) /\ user[q] = user[r] => q = r

IInv ==
  /\ TypeOK
  /\ InterviewsWhole /\ WorkspacesInUse /\ OneWorkspaceUnlessRaced
  /\ FlushedInOrder /\ SpaceIsTheUsers /\ FirstOfTheUser

=============================================================================
