--------------------------- MODULE InterviewsProofs ---------------------------
(***************************************************************************)
(* IInv is an inductive invariant of Interviews, for any number of users,  *)
(* workspaces, interviews and requests: what is committed is whole, and a  *)
(* user gets a second default workspace only by a race of first requests.  *)
(***************************************************************************)
EXTENDS Interviews, TLAPS

\* The conjuncts of IInv that speak of committed rows only.
TablesInv == InterviewsWhole /\ WorkspacesInUse

\* The conjuncts about requests in flight, with the one race that matters.
RequestsInv ==
  FlushedInOrder /\ SpaceIsTheUsers /\ FirstOfTheUser /\ OneWorkspaceUnlessRaced

\* A step that commits nothing keeps what is said of the tables.
LEMMA TablesFrame ==
  ASSUME IInv, UNCHANGED tables
  PROVE  TablesInv'
BY DEF IInv, TablesInv, InterviewsWhole, WorkspacesInUse, GetInterview, Stored,
   tables

\* The tables start empty and no request is in flight.
LEMMA Initiation == Init => IInv
<1> SUFFICES ASSUME Init PROVE IInv
  OBVIOUS
<1>1. TypeOK
  BY DEF Init, TypeOK, PC
<1>2. TablesInv
  BY DEF Init, TablesInv, InterviewsWhole, WorkspacesInUse, Stored
<1>3. RequestsInv
  BY DEF Init, RequestsInv, FlushedInOrder, SpaceIsTheUsers, FirstOfTheUser,
     OneWorkspaceUnlessRaced, Making, MemberOf
<1> QED BY <1>1, <1>2, <1>3 DEF IInv, TablesInv, RequestsInv

-----------------------------------------------------------------------------
(* Steps that commit nothing.                                               *)

LEMMA ArrivePreserves ==
  ASSUME IInv, NEW r \in Request, NEW u \in User, Arrive(r, u)
  PROVE  IInv'
<1>1. TypeOK'
  BY DEF IInv, Arrive, RoleTitle, TypeOK, PC, tables
<1>2. TablesInv'
  BY TablesFrame DEF Arrive
<1>3. RequestsInv'
  BY DEF IInv, RequestsInv, Arrive, TypeOK, FlushedInOrder, SpaceIsTheUsers,
     FirstOfTheUser, OneWorkspaceUnlessRaced, Making, MemberOf, tables
<1> QED BY <1>1, <1>2, <1>3 DEF IInv, TablesInv, RequestsInv

LEMMA LookupFindsPreserves ==
  ASSUME IInv, NEW r \in Request, LookupFinds(r)
  PROVE  IInv'
<1>1. PICK w \in Workspace : /\ MemberOf(user[r]) = {w}
                             /\ space' = [space EXCEPT ![r] = w]
  BY DEF LookupFinds
<1>2. <<w, user[r]>> \in members
  BY <1>1 DEF MemberOf
<1>3. TypeOK'
  BY <1>1 DEF IInv, LookupFinds, TypeOK, PC, tables
<1>4. TablesInv'
  BY TablesFrame DEF LookupFinds
<1>5. RequestsInv'
  BY <1>1, <1>2 DEF IInv, RequestsInv, LookupFinds, TypeOK, FlushedInOrder,
     SpaceIsTheUsers, FirstOfTheUser, OneWorkspaceUnlessRaced, Making, MemberOf,
     tables
<1> QED BY <1>3, <1>4, <1>5 DEF IInv, TablesInv, RequestsInv

\* The workspace is fresh and taken by no other request; if the user has
\* another one in the making, the race is on record.
LEMMA LookupNonePreserves ==
  ASSUME IInv, NEW r \in Request, LookupNone(r)
  PROVE  IInv'
<1>1. PICK w \in Workspace : /\ createdBy[w] = NoUser
                             /\ \A q \in Request : space[q] # w
                             /\ space' = [space EXCEPT ![r] = w]
  BY DEF LookupNone
<1>2. /\ written' = [written EXCEPT ![r] = {"workspace"}]
      /\ pc[r] = "lookup" /\ pc' = [pc EXCEPT ![r] = "member"]
      /\ user[r] \in User
  BY DEF IInv, LookupNone, Flush, FlushedInOrder, SpaceIsTheUsers, TypeOK
<1>3. TypeOK'
  BY <1>1, <1>2 DEF IInv, LookupNone, TypeOK, PC, Row, tables
<1>4. TablesInv'
  BY TablesFrame DEF LookupNone
<1>5. FlushedInOrder'
  BY <1>1, <1>2 DEF IInv, LookupNone, TypeOK, FlushedInOrder, Making
<1>6. SpaceIsTheUsers'
  BY <1>1, <1>2 DEF IInv, LookupNone, TypeOK, SpaceIsTheUsers, Making, tables
<1>7. FirstOfTheUser'
  BY <1>1, <1>2 DEF IInv, LookupNone, TypeOK, FirstOfTheUser, Making, MemberOf,
     tables
<1>8. OneWorkspaceUnlessRaced'
  BY DEF IInv, LookupNone, OneWorkspaceUnlessRaced, MemberOf, tables
<1> QED BY <1>3, <1>4, <1>5, <1>6, <1>7, <1>8 DEF IInv, TablesInv

LEMMA FlushPreserves ==
  ASSUME IInv, NEW r \in Request,
         FlushMember(r) \/ FlushCandidate(r) \/ FlushInterview(r)
  PROVE  IInv'
<1>1. TypeOK'
  BY DEF IInv, FlushMember, FlushCandidate, FlushInterview, Flush, TypeOK, PC,
     Row, tables
<1>2. TablesInv'
  BY TablesFrame DEF FlushMember, FlushCandidate, FlushInterview
<1>3. \A q \in Request : Making(q)' <=> Making(q)
  BY DEF IInv, FlushMember, FlushCandidate, FlushInterview, Flush, Making,
     TypeOK
<1>4. FlushedInOrder'
  BY <1>3 DEF IInv, FlushMember, FlushCandidate, FlushInterview, Flush, TypeOK,
     FlushedInOrder, Making
<1>5. SpaceIsTheUsers'
  BY <1>3 DEF IInv, FlushMember, FlushCandidate, FlushInterview, Flush, TypeOK,
     SpaceIsTheUsers, tables
<1>6. FirstOfTheUser' /\ OneWorkspaceUnlessRaced'
  BY <1>3 DEF IInv, FlushMember, FlushCandidate, FlushInterview, Flush, TypeOK,
     FirstOfTheUser, OneWorkspaceUnlessRaced, MemberOf, tables
<1> QED BY <1>1, <1>2, <1>4, <1>5, <1>6 DEF IInv, TablesInv

\* An error or an abort rolls back.
LEMMA RollbackPreserves ==
  ASSUME IInv, NEW r \in Request, Finish(r), UNCHANGED <<tables, raced>>
  PROVE  IInv'
<1>1. TypeOK'
  BY DEF IInv, Finish, TypeOK, PC, tables
<1>2. TablesInv'
  BY TablesFrame
<1>3. RequestsInv'
  BY DEF IInv, RequestsInv, Finish, TypeOK, FlushedInOrder, SpaceIsTheUsers,
     FirstOfTheUser, OneWorkspaceUnlessRaced, Making, MemberOf, tables
<1> QED BY <1>1, <1>2, <1>3 DEF IInv, TablesInv, RequestsInv

-----------------------------------------------------------------------------
(* The commit.                                                              *)

LEMMA CommitPreserves ==
  ASSUME IInv, NEW r \in Request, Commit(r)
  PROVE  IInv'
<1> DEFINE w == space[r]
           u == user[r]
<1>1. PICK i \in Interview :
        /\ ~Stored(i)
        /\ interviewer' = [interviewer EXCEPT ![i] = u]
        /\ placed' = [placed EXCEPT ![i] = w]
        /\ candidate' = [candidate EXCEPT ![i] = w]
        /\ summarized' = summarized \cup {i}
  BY DEF IInv, Commit, Published, FlushedInOrder
<1>2. w \in Workspace /\ u \in User /\ u # NoUser /\ w # NoWorkspace
  BY NoValueAssumption DEF IInv, Commit, SpaceIsTheUsers
<1>3. CASE Making(r)
  <2>1. /\ createdBy' = [createdBy EXCEPT ![w] = u]
        /\ members' = members \cup {<<w, u>>}
        /\ createdBy[w] = NoUser
    BY <1>3 DEF IInv, Commit, Published, Making, FlushedInOrder, SpaceIsTheUsers
  <2>2. \A x \in User : <<w, x>> \notin members
    BY <1>2, <2>1 DEF IInv, WorkspacesInUse
  <2>3. TypeOK'
    BY <1>1, <1>2, <2>1 DEF IInv, Commit, Finish, TypeOK, PC
  <2>4. InterviewsWhole'
    BY <1>1, <1>2, <2>1 DEF IInv, InterviewsWhole, GetInterview, Stored, TypeOK
  <2>5. WorkspacesInUse'
    BY <1>1, <1>2, <2>1, <2>2 DEF IInv, WorkspacesInUse, Stored, TypeOK
  <2>6. FlushedInOrder'
    BY DEF IInv, Commit, Finish, FlushedInOrder, Making, TypeOK
  <2>7. SpaceIsTheUsers'
    BY <1>2, <1>3, <2>1, <2>2 DEF IInv, Commit, Finish, SpaceIsTheUsers,
       FlushedInOrder, Making, TypeOK
  <2>8. u \in raced \/ MemberOf(u) = {}
    BY <1>3 DEF IInv, FirstOfTheUser
  <2>9. OneWorkspaceUnlessRaced'
    BY <1>2, <2>1, <2>8 DEF IInv, Commit, OneWorkspaceUnlessRaced, MemberOf
  <2>10. FirstOfTheUser'
    BY <1>2, <1>3, <2>1 DEF IInv, Commit, Finish, FirstOfTheUser, MemberOf,
       Making, TypeOK
  <2> QED BY <2>3, <2>4, <2>5, <2>6, <2>7, <2>9, <2>10 DEF IInv
<1>4. CASE ~Making(r)
  <2>1. UNCHANGED <<createdBy, members>> /\ <<w, u>> \in members
    BY <1>4 DEF IInv, Commit, Published, Making, FlushedInOrder, SpaceIsTheUsers
  <2>2. TypeOK'
    BY <1>1, <1>2, <2>1 DEF IInv, Commit, Finish, TypeOK, PC
  <2>3. InterviewsWhole'
    BY <1>1, <1>2, <2>1 DEF IInv, InterviewsWhole, GetInterview, Stored, TypeOK
  <2>4. WorkspacesInUse'
    BY <1>1, <1>2, <2>1 DEF IInv, WorkspacesInUse, Stored, TypeOK
  <2>5. FlushedInOrder'
    BY DEF IInv, Commit, Finish, FlushedInOrder, Making, TypeOK
  <2>6. SpaceIsTheUsers'
    BY <2>1 DEF IInv, Commit, Finish, SpaceIsTheUsers, Making, TypeOK
  <2>7. FirstOfTheUser' /\ OneWorkspaceUnlessRaced'
    BY <2>1 DEF IInv, Commit, Finish, FirstOfTheUser, OneWorkspaceUnlessRaced,
       MemberOf, Making, TypeOK
  <2> QED BY <2>2, <2>3, <2>4, <2>5, <2>6, <2>7 DEF IInv
<1> QED BY <1>3, <1>4

LEMMA StutterPreserves ==
  ASSUME IInv, UNCHANGED vars
  PROVE  IInv'
<1>1. TypeOK'
  BY DEF IInv, TypeOK, vars, tables, locals
<1>2. TablesInv'
  BY TablesFrame DEF vars
<1>3. RequestsInv'
  BY DEF IInv, RequestsInv, FlushedInOrder, SpaceIsTheUsers, FirstOfTheUser,
     OneWorkspaceUnlessRaced, Making, MemberOf, vars, tables, locals
<1> QED BY <1>1, <1>2, <1>3 DEF IInv, TablesInv, RequestsInv

-----------------------------------------------------------------------------
(* The theorems.                                                            *)

LEMMA Consecution == IInv /\ [Next]_vars => IInv'
<1> SUFFICES ASSUME IInv, [Next]_vars PROVE IInv'
  OBVIOUS
<1>1. ASSUME NEW r \in Request, NEW u \in User, Arrive(r, u)
      PROVE  IInv'
  BY <1>1, ArrivePreserves
<1>2. ASSUME NEW r \in Request, LookupFinds(r) \/ LookupNone(r)
      PROVE  IInv'
  BY <1>2, LookupFindsPreserves, LookupNonePreserves
<1>3. ASSUME NEW r \in Request,
             FlushMember(r) \/ FlushCandidate(r) \/ FlushInterview(r)
      PROVE  IInv'
  BY <1>3, FlushPreserves
<1>4. ASSUME NEW r \in Request,
             LookupFails(r) \/ FlushInterviewFails(r) \/ Abort(r)
      PROVE  IInv'
  BY <1>4, RollbackPreserves DEF LookupFails, FlushInterviewFails, Abort
<1>5. ASSUME NEW r \in Request, Commit(r)
      PROVE  IInv'
  BY <1>5, CommitPreserves
<1>6. CASE UNCHANGED vars
  BY <1>6, StutterPreserves
<1> QED BY <1>1, <1>2, <1>3, <1>4, <1>5, <1>6 DEF Next, Create

\* IInv holds in every state the system reaches.
THEOREM InductiveInvariant == Spec => []IInv
<1>1. Init => IInv
  BY Initiation
<1>2. IInv /\ [Next]_vars => IInv'
  BY Consecution
<1> QED BY <1>1, <1>2, PTL DEF Spec

\* Tables and requests keep their types.
THEOREM TypeCorrect == Spec => []TypeOK
<1>1. IInv => TypeOK
  BY DEF IInv
<1> QED BY <1>1, InductiveInvariant, PTL

\* A committed interview is whole and in a workspace of its interviewer
\* (create_interview, get_interview).
THEOREM InterviewsAlwaysWhole == Spec => []InterviewsWhole
<1>1. IInv => InterviewsWhole
  BY DEF IInv
<1> QED BY <1>1, InductiveInvariant, PTL

\* A committed default workspace has its owner and an interview
\* (_get_or_create_workspace only flushes).
THEOREM NoWorkspaceAlone == Spec => []WorkspacesInUse
<1>1. IInv => WorkspacesInUse
  BY DEF IInv
<1> QED BY <1>1, InductiveInvariant, PTL

\* A second default workspace takes two requests that make the first one at
\* the same time (_get_or_create_workspace).
THEOREM OneWorkspace == Spec => []OneWorkspaceUnlessRaced
<1>1. IInv => OneWorkspaceUnlessRaced
  BY DEF IInv
<1> QED BY <1>1, InductiveInvariant, PTL

=============================================================================
