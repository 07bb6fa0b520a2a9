------------------------ MODULE InterviewsRefinement ------------------------
(***************************************************************************)
(* Interviews implements InterviewBook, for any number of users,           *)
(* workspaces, interviews and requests.  The commit of a create_interview  *)
(* enters an interview, in the workspace the request looked up or in the   *)
(* one it made; a lookup beside another one may put a race on record; what *)
(* is only flushed changes nothing of the book.                            *)
(***************************************************************************)
EXTENDS InterviewsProofs

\* The mapped variables that are not variables of Interviews.
Team == [w \in Workspace |-> {u \in User : <<w, u>> \in members}]
Entry ==
  [i \in Interview |->
    [interviewer |-> interviewer[i], workspace |-> placed[i],
     candidate |-> candidate[i], summary |-> i \in summarized]]

\* An interview that is not stored left nothing behind: no workspace, no
\* candidate, no summary.
NothingLeft ==
  \A i \in Interview : ~Stored(i) =>
    /\ placed[i] = NoWorkspace /\ candidate[i] = NoWorkspace
    /\ i \notin summarized

\* The tables are empty at the start, and so is the book.
LEMMA InitRefines == Init => Book!Init /\ NothingLeft
<1> SUFFICES ASSUME Init PROVE Book!Init /\ NothingLeft
  OBVIOUS
<1>1. \A w \in Workspace : {u \in User : <<w, u>> \in members} = {}
  BY DEF Init
<1>2. \A i \in Interview : /\ interviewer[i] = NoUser
                            /\ placed[i] = NoWorkspace
                            /\ candidate[i] = NoWorkspace
                            /\ (i \in summarized) = FALSE
  BY DEF Init
<1>3. Book!Init
  BY <1>1, <1>2 DEF Init, Book!Init, Book!NoEntry
<1> QED BY <1>2, <1>3 DEF NothingLeft

\* The homes of a user in the book are the workspaces the lookup finds.
LEMMA SameHomes ==
  ASSUME NEW u \in User
  PROVE  Book!HomesOf(u) = MemberOf(u)
BY DEF Book!HomesOf, MemberOf

\* A step commits, puts a race on record, or changes nothing of the book.
LEMMA StepCases ==
  ASSUME [Next]_vars
  PROVE  \/ UNCHANGED <<tables, raced>>
         \/ \E r \in Request : LookupNone(r) \/ Commit(r)
BY DEF Next, Create, vars, Arrive, LookupFinds, LookupFails, FlushMember,
   FlushCandidate, FlushInterview, FlushInterviewFails, Abort

\* What a commit writes, about one interview that was not stored.
LEMMA CommitWrites ==
  ASSUME IInv, NEW r \in Request, Commit(r)
  PROVE  /\ user[r] \in User /\ space[r] \in Workspace
         /\ \E i \in Interview :
              /\ ~Stored(i)
              /\ interviewer' = [interviewer EXCEPT ![i] = user[r]]
              /\ placed' = [placed EXCEPT ![i] = space[r]]
              /\ candidate' = [candidate EXCEPT ![i] = space[r]]
              /\ summarized' = summarized \cup {i}
<1>1. user[r] \in User /\ space[r] \in Workspace
  BY DEF IInv, Commit, SpaceIsTheUsers
<1>2. {"candidate", "interview"} \subseteq written[r]
  BY DEF IInv, Commit, FlushedInOrder
<1> QED BY <1>1, <1>2 DEF Commit, Published

\* All rows of an interview come with one commit.
LEMMA NothingLeftPreserved ==
  ASSUME IInv, NothingLeft, [Next]_vars
  PROVE  NothingLeft'
<1>1. CASE UNCHANGED <<tables, raced>>
  BY <1>1 DEF NothingLeft, Stored, tables
<1>2. ASSUME NEW r \in Request, LookupNone(r) PROVE NothingLeft'
  BY <1>2 DEF LookupNone, NothingLeft, Stored, tables
<1>3. ASSUME NEW r \in Request, Commit(r) PROVE NothingLeft'
  <2>1. user[r] # NoUser
    BY <1>3, CommitWrites, NoValueAssumption
  <2> QED BY <1>3, <2>1, CommitWrites DEF NothingLeft, Stored, IInv, TypeOK
<1> QED BY <1>1, <1>2, <1>3, StepCases

-----------------------------------------------------------------------------

\* A lookup that finds no workspace leaves the book alone or puts the race of a
\* user without a workspace on record.
LEMMA LookupRefines ==
  ASSUME IInv, NEW r \in Request, LookupNone(r)
  PROVE  [Book!Next]_Book!vars
<1>1. user[r] \in User /\ MemberOf(user[r]) = {}
  BY DEF IInv, LookupNone, Flush, SpaceIsTheUsers
<1>2. UNCHANGED <<createdBy, Team, Entry>>
  BY DEF LookupNone, tables, Team, Entry
<1>3. CASE raced' = raced
  BY <1>2, <1>3 DEF Book!vars, Team, Entry
<1>4. CASE raced' = raced \cup {user[r]}
  <2>1. Book!Race(user[r])
    BY <1>1, <1>2, <1>4, SameHomes DEF Book!Race, Team, Entry
  <2> QED BY <1>1, <2>1 DEF Book!Next
<1> QED BY <1>3, <1>4 DEF LookupNone

\* A commit enters the interview of the request, in the workspace it found
\* there, or with the first workspace of the user.
LEMMA CommitRefines ==
  ASSUME IInv, NothingLeft, NEW r \in Request, Commit(r)
  PROVE  Book!Next
<1>1. PICK u \in User, w \in Workspace : u = user[r] /\ w = space[r]
  BY CommitWrites
<1>2. PICK i \in Interview :
        /\ ~Stored(i)
        /\ interviewer' = [interviewer EXCEPT ![i] = u]
        /\ placed' = [placed EXCEPT ![i] = w]
        /\ candidate' = [candidate EXCEPT ![i] = w]
        /\ summarized' = summarized \cup {i}
  BY <1>1, CommitWrites
<1>3. Book!Enter(i, u, w)
  <2>1. Entry[i] = Book!NoEntry
    <3>1. /\ interviewer[i] = NoUser /\ placed[i] = NoWorkspace
          /\ candidate[i] = NoWorkspace /\ (i \in summarized) = FALSE
      BY <1>2 DEF NothingLeft, Stored
    <3> QED BY <3>1 DEF Entry, Book!NoEntry
  <2>2. Entry' = [Entry EXCEPT ![i] =
          [interviewer |-> u, workspace |-> w, candidate |-> w, summary |-> TRUE]]
    <3> DEFINE E(j) == [interviewer |-> interviewer[j], workspace |-> placed[j],
                        candidate |-> candidate[j], summary |-> j \in summarized]
    <3>1. E(i)' = [interviewer |-> u, workspace |-> w, candidate |-> w,
                   summary |-> TRUE]
      <4>1. (i \in summarized') = TRUE
        BY <1>2
      <4>2. interviewer'[i] = u /\ placed'[i] = w /\ candidate'[i] = w
        BY <1>2 DEF IInv, TypeOK
      <4> QED BY <4>1, <4>2
    <3>2. ASSUME NEW j \in Interview, j # i PROVE E(j)' = E(j)
      <4>1. (j \in summarized') = (j \in summarized)
        BY <1>2, <3>2
      <4>2. /\ interviewer'[j] = interviewer[j] /\ placed'[j] = placed[j]
            /\ candidate'[j] = candidate[j]
        BY <1>2, <3>2 DEF IInv, TypeOK
      <4> QED BY <4>1, <4>2
    <3>3. \A j \in Interview : /\ Entry[j] = E(j)
                               /\ Entry'[j] = E(j)'
      BY DEF Entry
    <3>4. /\ Entry = [j \in Interview |-> Entry[j]]
          /\ Entry' = [j \in Interview |-> Entry'[j]]
      BY DEF Entry
    <3> HIDE DEF E
    <3> QED BY <3>1, <3>2, <3>3, <3>4
  <2> QED BY <2>1, <2>2 DEF Book!Enter, Entry
<1>4. ASSUME Making(r) PROVE Book!CreateFirst(i, u, w)
  <2>1. /\ createdBy' = [createdBy EXCEPT ![w] = u]
        /\ members' = members \cup {<<w, u>>}
        /\ createdBy[w] = NoUser
    BY <1>1, <1>4 DEF IInv, Commit, Published, Making, FlushedInOrder, SpaceIsTheUsers
  <2>2. Team[w] = {}
    BY <1>1, <2>1 DEF IInv, WorkspacesInUse, Team
  <2>3. Team' = [Team EXCEPT ![w] = {u}]
    BY <1>1, <2>1, <2>2 DEF Team
  <2>4. u \in raced \/ Book!HomesOf(u) = {}
    BY <1>1, <1>4, SameHomes DEF IInv, FirstOfTheUser
  <2>5. Book!CreateFirst(i, u, w)
    BY <1>3, <2>1, <2>2, <2>3, <2>4 DEF Commit, Book!CreateFirst, Team
  <2> QED BY <2>5
<1>5. ASSUME ~Making(r) PROVE Book!Create(i, u, w)
  <2>1. UNCHANGED <<createdBy, members, raced>> /\ <<w, u>> \in members
    BY <1>1, <1>5 DEF IInv, Commit, Published, Making, FlushedInOrder, SpaceIsTheUsers
  <2>2. w \in MemberOf(u) /\ (u \in raced \/ MemberOf(u) = {w})
    BY <1>1, <2>1 DEF IInv, OneWorkspaceUnlessRaced, MemberOf
  <2>3. Book!Create(i, u, w)
    BY <1>1, <1>3, <2>1, <2>2, SameHomes DEF Book!Create
  <2> QED BY <2>3
<1>6. Book!Create(i, u, w) \/ Book!CreateFirst(i, u, w)
  BY <1>4, <1>5
<1> QED BY <1>1, <1>6 DEF Book!Next

-----------------------------------------------------------------------------

\* Every step of Interviews is a step of the book or none.
LEMMA StepRefines ==
  ASSUME IInv, NothingLeft, [Next]_vars
  PROVE  [Book!Next]_Book!vars
<1>1. CASE UNCHANGED <<tables, raced>>
  BY <1>1 DEF tables, Book!vars
<1>2. ASSUME NEW r \in Request, LookupNone(r) \/ Commit(r)
      PROVE  [Book!Next]_Book!vars
  BY <1>2, LookupRefines, CommitRefines
<1> QED BY <1>1, <1>2, StepCases

\* Interviews implements the book: whatever requests overlap, fail half-way or
\* are rolled back (create_interview, _get_or_create_workspace).
THEOREM Implementation == Spec => ImplementsBook
<1>1. Init => Book!Init /\ NothingLeft
  BY InitRefines
<1>2. IInv /\ NothingLeft /\ [Next]_vars => NothingLeft'
  BY NothingLeftPreserved
<1>3. IInv /\ NothingLeft /\ [Next]_vars => [Book!Next]_Book!vars
  BY StepRefines
<1> QED BY <1>1, <1>2, <1>3, InductiveInvariant, PTL
       DEF Spec, ImplementsBook, Book!Spec

\* What the book promises holds of the tables: no step changes a stored
\* interview or the members of a workspace, and a user who has a workspace and
\* did not race by then never gets another one.
THEOREM KeptForGood == Spec => Book!OnlyKept
<1>1. ASSUME IInv, NothingLeft, [Next]_vars PROVE [Book!Kept]_Book!vars
  <2>1. /\ createdBy \in [Workspace -> User \cup {NoUser}]
        /\ Team \in [Workspace -> SUBSET User]
        /\ DOMAIN Entry = Interview
    BY <1>1 DEF IInv, TypeOK, Team, Entry
  <2>2. CASE UNCHANGED Book!vars
    BY <2>2
  <2>3. ASSUME NEW u \in User, NEW i \in Interview, NEW w \in Workspace,
               Book!Create(i, u, w)
        PROVE  Book!Kept
    BY <2>1, <2>3 DEF Book!Create, Book!Enter, Book!Kept, Book!HomesOf, Team, Entry
  <2>4. ASSUME NEW u \in User, NEW i \in Interview, NEW w \in Workspace,
               Book!CreateFirst(i, u, w)
        PROVE  Book!Kept
    <3>1. /\ u \in raced \/ Book!HomesOf(u) = {}
          /\ createdBy[w] = NoUser /\ createdBy' = [createdBy EXCEPT ![w] = u]
          /\ Team' = [Team EXCEPT ![w] = {u}]
          /\ Team[w] = {}
          /\ UNCHANGED raced
      BY <2>4 DEF Book!CreateFirst, Team
    <3>2. /\ Entry[i] = Book!NoEntry
          /\ \A j \in Interview : j # i => Entry'[j] = Entry[j]
      BY <2>1, <2>4 DEF Book!CreateFirst, Book!Enter, Entry
    <3>3. ASSUME NEW x \in User, x \notin raced, Book!HomesOf(x) # {}
          PROVE  Book!HomesOf(x)' = Book!HomesOf(x)
      <4>1. x # u
        BY <3>1, <3>3
      <4>2. \A v \in Workspace : x \in Team'[v] <=> x \in Team[v]
        BY <2>1, <3>1, <4>1
      <4> QED BY <4>2 DEF Book!HomesOf, Team
    <3> QED BY <2>1, <3>1, <3>2, <3>3 DEF Book!Kept, Team, Entry
  <2>5. ASSUME NEW u \in User, Book!Race(u)
        PROVE  Book!Kept
    BY <2>1, <2>5 DEF Book!Race, Book!Kept, Book!HomesOf, Team, Entry
  <2> QED BY <1>1, <2>2, <2>3, <2>4, <2>5, StepRefines DEF Book!Next
<1>2. Init => NothingLeft
  BY InitRefines
<1>3. IInv /\ NothingLeft /\ [Next]_vars => NothingLeft'
  BY NothingLeftPreserved
<1>4. IInv /\ NothingLeft /\ [Next]_vars => [Book!Kept]_Book!vars
  BY <1>1
<1> QED BY <1>2, <1>3, <1>4, InductiveInvariant, PTL
       DEF Spec, Book!OnlyKept

=============================================================================
