--------------------------- MODULE MigrationsProofs ---------------------------
(***************************************************************************)
(* Migrations keeps a database well formed and the instants in it where    *)
(* they are, for every set of time zones and every bound on the drift.     *)
(* What a statement keeps is shown statement by statement; what a script   *)
(* and a command keep, by induction over their length.                     *)
(*                                                                         *)
(* The schema is followed in the same way, but exactly: what a statement   *)
(* does to a schema given as five sets, what a script makes of the schema  *)
(* of the closed set of revisions it runs on, and by induction over the    *)
(* scripts what a command makes of it.  What the models of app/models map  *)
(* to is the schema of all the revisions.                                  *)
(***************************************************************************)
EXTENDS Migrations, WellFoundedInduction, TLAPS

-----------------------------------------------------------------------------
(* Induction over the natural numbers, for a set that is to hold them all.  *)

\* A set of natural numbers has a least element.
LEMMA LeastNumber ==
  ASSUME NEW S, S \subseteq Nat, S # {}
  PROVE  \E m \in S : \A k \in S : ~(k < m)
<1> DEFINE R == {ss \in Nat \X Nat : ss[1] < ss[2]}
<1>1. IsWellFoundedOn(R, Nat)
  BY NatLessThanWellFounded DEF OpToRel
<1>2. \A a, b \in Nat : <<a, b>> \in R <=> a < b
  OBVIOUS
<1>3. PICK m \in S : \A k \in S : <<k, m>> \notin R
  BY <1>1, WFMin
<1> QED BY <1>2, <1>3

\* A set that holds 0 and with a number the next holds them all.
LEMMA SetInduction ==
  ASSUME NEW S, 0 \in S, \A n \in Nat : n \in S => n + 1 \in S
  PROVE  \A n \in Nat : n \in S
<1> SUFFICES ASSUME NEW n \in Nat, n \notin S PROVE FALSE
  OBVIOUS
<1>1. PICK m \in Nat \ S : \A k \in Nat \ S : ~(k < m)
  BY LeastNumber
<1>2. m - 1 \in Nat /\ m - 1 \in S
  BY <1>1
<1> QED BY <1>2

-----------------------------------------------------------------------------
(* What one statement keeps.                                                *)

TokenTimes == RefreshTokenTimes \cup VerificationTimes

\* The tables, columns and indexes of a database belong together.
WellFormed(d) ==
  /\ DOMAIN d = {"refs", "type", "drift", "index", "ok"}
  /\ \A t \in DOMAIN d.refs : d.refs[t] \subseteq DOMAIN d.refs
  /\ \A c \in DOMAIN d.type : c[1] \in DOMAIN d.refs
                              /\ d.type[c] \in {"naive", "aware", "other"}
  /\ DOMAIN d.drift = DOMAIN d.type
  /\ \A i \in d.index : i[1] \in DOMAIN d.refs

\* The dates of tokens are dates, and stand for an instant moved by the offset
\* of the server while they are aware; all others have not moved.
Steady(d, z) ==
  /\ \A c \in DOMAIN d.type \cap TokenTimes : d.type[c] \in {"naive", "aware"}
  /\ \A c \in DOMAIN d.type \ SummaryTimes :
       d.drift[c] = IF c \in TokenTimes /\ d.type[c] = "aware" THEN -z ELSE 0

\* What the statements of the scripts have in common: a conversion by the
\* server's zone is one of tokens or of interview_summaries and of nothing
\* else, and no statement adds the date of a token but with its table.
Harmless(s) ==
  /\ s.op \in {"create_table", "drop_table", "add_column", "drop_column",
               "alter_column", "create_index", "drop_index", "drop_unnamed"}
  /\ s.op = "add_column" =>
       s.type \in {"naive", "aware", "other"} /\ s.columns \cap TokenTimes = {}
  /\ s.op = "alter_column" =>
       /\ s.type \in {"naive", "aware"}
       /\ \/ s.using = "UTC" /\ s.columns \cap TokenTimes = {}
          \/ s.using = "server" /\ (s.columns \subseteq TokenTimes
                                    \/ s.columns \subseteq SummaryTimes)

\* A function restricted to S has the same values there.
LEMMA RestrictIs ==
  ASSUME NEW f, NEW S
  PROVE  /\ DOMAIN Restrict(f, S) = S
         /\ \A x \in S : Restrict(f, S)[x] = f[x]
BY DEF Restrict

\* New columns: of an existing table, and dates of tokens only without zone.
LEMMA WithColumnsKeeps ==
  ASSUME NEW d, NEW z \in Int, NEW type \in {"naive", "aware", "other"}, NEW columns,
         WellFormed(d), Steady(d, z),
         \A c \in columns : c[1] \in DOMAIN d.refs,
         type = "naive" \/ columns \cap TokenTimes = {}
  PROVE  /\ WellFormed(WithColumns(d, type, columns))
         /\ Steady(WithColumns(d, type, columns), z)
<1> DEFINE e == WithColumns(d, type, columns)
           newType == Over([c \in columns |-> type], d.type)
           newDrift == Over([c \in columns |-> 0], d.drift)
<1>0. e = [d EXCEPT !.type = newType, !.drift = newDrift]
  BY DEF WithColumns
<1> HIDE DEF e, newType, newDrift
<1>1. /\ DOMAIN e = {"refs", "type", "drift", "index", "ok"}
      /\ e.refs = d.refs /\ e.index = d.index
      /\ e.type = newType /\ e.drift = newDrift
  BY <1>0 DEF WellFormed
<1>2. /\ DOMAIN e.type = columns \cup DOMAIN d.type
      /\ DOMAIN e.drift = columns \cup DOMAIN d.type
      /\ \A c \in columns : e.type[c] = type /\ e.drift[c] = 0
      /\ \A c \in DOMAIN d.type \ columns :
           e.type[c] = d.type[c] /\ e.drift[c] = d.drift[c]
  BY <1>1 DEF WellFormed, newType, newDrift, Over
<1>3. WellFormed(e)
  BY <1>1, <1>2 DEF WellFormed
<1>4. Steady(e, z)
  BY <1>2 DEF Steady
<1> QED BY <1>3, <1>4 DEF e

\* Dropping columns keeps a database well formed and its instants where they are.
LEMMA WithoutColumnsKeeps ==
  ASSUME NEW d, NEW z \in Int, NEW columns, WellFormed(d), Steady(d, z)
  PROVE  /\ WellFormed(WithoutColumns(d, columns))
         /\ Steady(WithoutColumns(d, columns), z)
<1> DEFINE e == WithoutColumns(d, columns)
           kept == DOMAIN d.type \ columns
<1>1. /\ DOMAIN e = {"refs", "type", "drift", "index", "ok"}
      /\ e.refs = d.refs /\ e.index = d.index
      /\ e.type = Restrict(d.type, kept)
      /\ e.drift = Restrict(d.drift, kept)
  BY DEF WellFormed, WithoutColumns
<1>2. /\ DOMAIN e.type = kept /\ DOMAIN e.drift = kept
      /\ \A c \in kept : e.type[c] = d.type[c] /\ e.drift[c] = d.drift[c]
  BY <1>1, RestrictIs
<1>3. WellFormed(e)
  BY <1>1, <1>2 DEF WellFormed
<1>4. Steady(e, z)
  BY <1>2 DEF Steady
<1> QED BY <1>3, <1>4

\* A statement keeps a database well formed and its instants steady.
LEMMA ExecuteKeeps ==
  ASSUME NEW d, NEW z \in Int, NEW rows, NEW s,
         WellFormed(d), Steady(d, z), Harmless(s)
  PROVE  /\ WellFormed(Execute(d, s, rows, z))
         /\ Steady(Execute(d, s, rows, z), z)
<1>1. CASE ~(d.ok /\ Possible(d, s, rows))
  <2> DEFINE e == [d EXCEPT !.ok = FALSE]
  <2>1. /\ DOMAIN e = DOMAIN d /\ e.refs = d.refs /\ e.type = d.type
        /\ e.drift = d.drift /\ e.index = d.index
    BY DEF WellFormed
  <2>2. Execute(d, s, rows, z) = e
    BY <1>1 DEF Execute
  <2> HIDE DEF e
  <2> QED BY <2>1, <2>2 DEF WellFormed, Steady
<1>2. CASE d.ok /\ Possible(d, s, rows)
  <2> DEFINE e == Effect(d, s, z)
  <2>0. SUFFICES WellFormed(e) /\ Steady(e, z)
    BY <1>2 DEF Execute
  <2>1. CASE s.op = "create_table"
    <3> DEFINE refs == Over([t \in DOMAIN s.tables |-> s.tables[t].refs], d.refs)
               f == [d EXCEPT !.refs = refs]
    <3>1. /\ DOMAIN refs = DOMAIN s.tables \cup DOMAIN d.refs
          /\ \A t \in DOMAIN s.tables : refs[t] \subseteq DOMAIN d.refs
          /\ \A t \in DOMAIN d.refs : refs[t] = d.refs[t]
      BY <1>2, <2>1 DEF Possible, Over
    <3> HIDE DEF refs
    <3>2. /\ DOMAIN f = DOMAIN d /\ f.refs = refs /\ f.type = d.type
          /\ f.drift = d.drift /\ f.index = d.index
      BY DEF WellFormed
    <3>3. e = WithColumns(f, "naive", TimesOf(s.tables))
      BY <2>1 DEF Effect, refs
    <3> HIDE DEF f, e
    <3>4. WellFormed(f) /\ Steady(f, z)
      BY <3>1, <3>2 DEF WellFormed, Steady
    <3>5. \A c \in TimesOf(s.tables) : c[1] \in DOMAIN f.refs
      BY <3>1, <3>2 DEF TimesOf
    <3> QED BY <3>3, <3>4, <3>5, WithColumnsKeeps
  <2>2. CASE s.op = "drop_table"
    <3> DEFINE refs == Restrict(d.refs, DOMAIN d.refs \ s.names)
               f == [d EXCEPT !.refs = refs,
                              !.index = {i \in d.index : i[1] \notin s.names}]
               gone == {c \in DOMAIN d.type : c[1] \in s.names}
               kept == DOMAIN d.type \ gone
    <3>1. /\ DOMAIN refs = DOMAIN d.refs \ s.names
          /\ \A t \in DOMAIN refs : refs[t] = d.refs[t]
      BY RestrictIs
    <3>2. e = WithoutColumns(f, gone)
      BY <2>2 DEF Effect
    <3>3. \A t \in DOMAIN refs : refs[t] \subseteq DOMAIN refs
      BY <1>2, <2>2, <3>1 DEF Possible, WellFormed
    <3> HIDE DEF refs
    <3>4. /\ DOMAIN f = DOMAIN d /\ f.refs = refs /\ f.type = d.type
          /\ f.drift = d.drift /\ f.index = {i \in d.index : i[1] \notin s.names}
      BY DEF WellFormed
    <3> HIDE DEF f
    <3>5. /\ DOMAIN e = DOMAIN d /\ e.refs = refs /\ e.index = f.index
          /\ e.type = Restrict(d.type, kept) /\ e.drift = Restrict(d.drift, kept)
      BY <3>2, <3>4 DEF WithoutColumns, WellFormed
    <3> HIDE DEF e
    <3>6. /\ DOMAIN e.type = kept /\ DOMAIN e.drift = kept
          /\ \A c \in kept : e.type[c] = d.type[c] /\ e.drift[c] = d.drift[c]
      BY <3>5, RestrictIs
    <3> QED BY <3>1, <3>3, <3>4, <3>5, <3>6 DEF WellFormed, Steady
  <2>3. CASE s.op = "add_column"
    <3>1. e = WithColumns(d, s.type, s.columns)
      BY <2>3 DEF Effect
    <3> HIDE DEF e
    <3>2. \A c \in s.columns : c[1] \in DOMAIN d.refs
      BY <1>2, <2>3 DEF Possible
    <3> QED BY <2>3, <3>1, <3>2, WithColumnsKeeps DEF Harmless
  <2>4. CASE s.op = "drop_column"
    BY <2>4, WithoutColumnsKeeps DEF Effect
  <2>5. CASE s.op = "alter_column"
    <3> DEFINE type == Over([c \in s.columns |-> s.type], d.type)
               drift == Over([c \in s.columns |-> d.drift[c]
                                + Shift(d.type[c], s.type, s.using, z)], d.drift)
    <3>1. e = [d EXCEPT !.type = type, !.drift = drift]
      BY <2>5 DEF Effect
    <3>2. s.columns \subseteq DOMAIN d.type
      BY <1>2, <2>5 DEF Possible
    <3>3. /\ DOMAIN type = DOMAIN d.type
          /\ \A c \in s.columns : type[c] = s.type
          /\ \A c \in DOMAIN d.type \ s.columns : type[c] = d.type[c]
      BY <3>2 DEF Over
    <3>4. /\ DOMAIN drift = DOMAIN d.type
          /\ \A c \in s.columns :
               drift[c] = d.drift[c] + Shift(d.type[c], s.type, s.using, z)
          /\ \A c \in DOMAIN d.type \ s.columns : drift[c] = d.drift[c]
      BY <3>2 DEF Over, WellFormed
    <3> HIDE DEF e, type, drift
    <3>5. /\ DOMAIN e = DOMAIN d /\ e.refs = d.refs /\ e.index = d.index
          /\ e.type = type /\ e.drift = drift
      BY <3>1 DEF WellFormed
    <3>6. s.type \in {"naive", "aware"}
      BY <2>5 DEF Harmless
    <3>7. WellFormed(e)
      BY <3>2, <3>3, <3>4, <3>5, <3>6 DEF WellFormed
    <3>8. ASSUME NEW c \in s.columns, c \notin SummaryTimes
          PROVE  drift[c] = IF c \in TokenTimes /\ type[c] = "aware" THEN -z ELSE 0
      <4>1. CASE s.using = "UTC" /\ s.columns \cap TokenTimes = {}
        BY <3>2, <3>4, <3>8, <4>1 DEF Steady, Shift
      <4>2. CASE s.using = "server" /\ s.columns \subseteq TokenTimes
        BY <3>2, <3>3, <3>4, <3>6, <3>8, <4>2 DEF Steady, Shift
      <4> QED BY <2>5, <3>8, <4>1, <4>2 DEF Harmless
    <3>9. Steady(e, z)
      BY <3>2, <3>3, <3>4, <3>5, <3>6, <3>8 DEF Steady
    <3> QED BY <3>7, <3>9
  <2>6. CASE s.op \in {"create_index", "drop_index"}
    <3> DEFINE index == IF s.op = "create_index" THEN d.index \cup s.indexes
                        ELSE d.index \ s.indexes
    <3>0. e = [d EXCEPT !.index = index]
      BY <2>6 DEF Effect
    <3>1. \A i \in index : i[1] \in DOMAIN d.refs
      BY <1>2, <2>6 DEF Possible, WellFormed
    <3> HIDE DEF e, index
    <3>2. /\ DOMAIN e = DOMAIN d /\ e.refs = d.refs /\ e.type = d.type
          /\ e.drift = d.drift /\ e.index = index
      BY <3>0 DEF WellFormed
    <3> QED BY <3>1, <3>2 DEF WellFormed, Steady
  <2>7. s.op # "drop_unnamed"
    BY <1>2 DEF Possible
  <2> QED BY <2>1, <2>2, <2>3, <2>4, <2>5, <2>6, <2>7 DEF Harmless
<1> QED BY <1>1, <1>2

-----------------------------------------------------------------------------
(* The scripts, statement by statement.                                     *)

\* The dates of the two tables of tokens, one by one.
LEMMA TokenTimesAre ==
  TokenTimes = ({"refresh_tokens"} \X {"expires_at", "created_at"})
    \cup ({"email_verification_tokens"} \X {"expires_at", "used_at", "created_at"})
<1>1. RefreshTokenTimes = {"refresh_tokens"} \X {"expires_at", "created_at"}
  BY DEF RefreshTokenTimes, RefreshTokenTable, TimesOf, Table
<1>2. VerificationTimes
        = {"email_verification_tokens"} \X {"expires_at", "used_at", "created_at"}
  BY DEF VerificationTimes, VerificationTable, TimesOf, Table
<1> QED BY <1>1, <1>2 DEF TokenTimes

\* Whatever these statements are about.
LEMMA StructureHarmless ==
  /\ \A tables : Harmless(CreateTables(tables))
  /\ \A names : Harmless(DropTables(names))
  /\ \A columns : Harmless(DropColumns(columns))
  /\ \A indexes : Harmless(CreateIndex(indexes)) /\ Harmless(DropIndex(indexes))
  /\ Harmless(DropUnnamed)
BY DEF Harmless, CreateTables, DropTables, DropColumns, CreateIndex, DropIndex,
   DropUnnamed

\* A column is added harmlessly when it is no date of a token.
LEMMA AdditionHarmless ==
  ASSUME NEW columns, columns \cap TokenTimes = {},
         NEW type \in {"naive", "aware", "other"}
  PROVE  Harmless(AddColumns(type, columns)) /\ Harmless(AddRequired(type, columns))
BY DEF Harmless, AddColumns, AddRequired

\* A conversion is harmless by UTC but for tokens, by the server for tokens and summaries.
LEMMA ConversionHarmless ==
  ASSUME NEW columns, NEW type \in {"naive", "aware"}
  PROVE  /\ columns \cap TokenTimes = {} => Harmless(AlterType(columns, type, "UTC"))
         /\ columns \subseteq TokenTimes \/ columns \subseteq SummaryTimes =>
              Harmless(AlterType(columns, type, "server"))
BY DEF Harmless, AlterType

\* The columns the scripts add or convert by UTC are no dates of tokens.
LEMMA ColumnsAreNoTokens ==
  /\ PreferenceCreated \cap TokenTimes = {}
  /\ TokenHash \cap TokenTimes = {}
  /\ SyncTimes \cap TokenTimes = {}
  /\ IsVerified \cap TokenTimes = {}
  /\ RefreshUpdated \cap TokenTimes = {}
  /\ ContextColumns \cap TokenTimes = {}
  /\ ToScorecards \cap TokenTimes = {}
  /\ ToPasswordResets \cap TokenTimes = {}
  /\ ToTranscripts \cap TokenTimes = {}
  /\ ToWorkspaces \cap TokenTimes = {}
<1>1. PreferenceCreated \cap TokenTimes = {}
  BY TokenTimesAre DEF PreferenceCreated, Preferences, Columns
<1>2. /\ TokenHash \cap TokenTimes = {} /\ IsVerified \cap TokenTimes = {}
      /\ RefreshUpdated \cap TokenTimes = {} /\ ContextColumns \cap TokenTimes = {}
  BY TokenTimesAre DEF TokenHash, IsVerified, RefreshUpdated, ContextColumns
<1>3. SyncTimes \cap TokenTimes = {}
  BY TokenTimesAre DEF SyncTimes, Stamps, Columns, NewlyStamped, NewlyUpdated,
     NewlyCreated
<1>4. ToScorecards \cap TokenTimes = {}
  BY TokenTimesAre DEF ToScorecards, Stamps, Columns
<1>5. ToPasswordResets \cap TokenTimes = {}
  BY TokenTimesAre DEF ToPasswordResets, Stamps, Columns
<1>6. ToTranscripts \cap TokenTimes = {}
  BY TokenTimesAre DEF ToTranscripts, Stamps, Columns
<1>7. ToWorkspaces \cap TokenTimes = {}
  BY TokenTimesAre DEF ToWorkspaces, Stamps, Columns
<1> QED BY <1>1, <1>2, <1>3, <1>4, <1>5, <1>6, <1>7

\* A script of harmless statements.
HarmlessScript(statements) ==
  /\ Len(statements) \in Nat
  /\ \A i \in 1..Len(statements) : Harmless(statements[i])

\* Every statement of the twelve scripts is harmless.
LEMMA ScriptsHarmless ==
  ASSUME NEW r \in Revision
  PROVE  HarmlessScript(Script[r].up) /\ HarmlessScript(Script[r].down)
<1>1. HarmlessScript(Up_cacd) /\ HarmlessScript(Down_cacd)
  BY StructureHarmless DEF HarmlessScript, Up_cacd, Down_cacd
<1>2. HarmlessScript(Up_d44e) /\ HarmlessScript(Down_d44e)
  BY StructureHarmless, AdditionHarmless, ColumnsAreNoTokens
     DEF HarmlessScript, Up_d44e, Down_d44e
<1>3. HarmlessScript(Up_8d11) /\ HarmlessScript(Down_8d11)
  BY ConversionHarmless DEF HarmlessScript, Up_8d11, Down_8d11, TokenTimes
<1>4. HarmlessScript(Up_a8cb) /\ HarmlessScript(Down_a8cb)
  BY StructureHarmless, AdditionHarmless, ColumnsAreNoTokens
     DEF HarmlessScript, Up_a8cb, Down_a8cb
<1>5. HarmlessScript(Up_864d) /\ HarmlessScript(Down_864d)
  BY StructureHarmless DEF HarmlessScript, Up_864d, Down_864d
<1>6. HarmlessScript(Up_64a8) /\ HarmlessScript(Down_64a8)
  BY StructureHarmless DEF HarmlessScript, Up_64a8, Down_64a8
<1>7. HarmlessScript(<<>>)
  BY DEF HarmlessScript
<1>8. HarmlessScript(Up_7ba4) /\ HarmlessScript(Down_7ba4)
  BY StructureHarmless, AdditionHarmless, ColumnsAreNoTokens
     DEF HarmlessScript, Up_7ba4, Down_7ba4
<1>9. HarmlessScript(Up_2cda) /\ HarmlessScript(Down_2cda)
  BY ConversionHarmless DEF HarmlessScript, Up_2cda, Down_2cda, TokenTimes
<1>10. HarmlessScript(Up_8ba9)
  BY AdditionHarmless, ConversionHarmless, ColumnsAreNoTokens
     DEF HarmlessScript, Up_8ba9
<1>11. HarmlessScript(Down_8ba9)
  <2>1. Harmless(FromWorkspaces) /\ Harmless(FromTranscripts) /\ Harmless(FromScorecards)
    BY ConversionHarmless, ColumnsAreNoTokens
       DEF FromWorkspaces, FromTranscripts, FromScorecards
  <2>2. Harmless(FromPasswordResets)
    <3>1. (ToPasswordResets \ SummaryTimes) \cap TokenTimes = {}
      BY ColumnsAreNoTokens
    <3> QED BY <3>1, ConversionHarmless DEF FromPasswordResets
  <2>3. Harmless(FromSummaries)
    BY ConversionHarmless DEF FromSummaries
  <2> QED BY <2>1, <2>2, <2>3, StructureHarmless DEF HarmlessScript, Down_8ba9
<1>12. HarmlessScript(Up_480a) /\ HarmlessScript(Down_480a)
  BY StructureHarmless, AdditionHarmless, ColumnsAreNoTokens
     DEF HarmlessScript, Up_480a, Down_480a
<1> QED BY <1>1, <1>2, <1>3, <1>4, <1>5, <1>6, <1>7, <1>8, <1>9, <1>10, <1>11, <1>12
        DEF Script, Revises, Revision, Order

-----------------------------------------------------------------------------
(* What a script and a command keep.                                        *)

\* The databases between two statements of a script.
LEMMA RunSteps ==
  ASSUME NEW d, NEW statements, NEW rows, NEW z, Len(statements) \in Nat
  PROVE  \E after :
           /\ after[0] = d
           /\ \A n \in 1..Len(statements) :
                after[n] = Execute(after[n-1], statements[n], rows, z)
           /\ Run(d, statements, rows, z) = after[Len(statements)]
<1> DEFINE Upto(f, N) ==
             [n \in 0..N |-> IF n = 0 THEN d
                             ELSE Execute(f[n-1], statements[n], rows, z)]
           S == {N \in Nat : \E f : f = Upto(f, N)}
<1>1. 0 \in S
  <2> DEFINE f == [n \in 0..0 |-> d]
  <2>1. f = Upto(f, 0)
    OBVIOUS
  <2> QED BY <2>1
<1>2. ASSUME NEW N \in Nat, N \in S PROVE N + 1 \in S
  <2>1. PICK f : f = Upto(f, N)
    BY <1>2
  <2> DEFINE g == [n \in 0..(N + 1) |->
                     IF n <= N THEN f[n]
                     ELSE Execute(f[N], statements[N + 1], rows, z)]
  <2>2. ASSUME NEW n \in 0..(N + 1) PROVE g[n] = Upto(g, N + 1)[n]
    <3>1. CASE n = 0
      BY <2>1, <3>1
    <3>2. CASE n \in 1..N
      <4>1. g[n] = f[n] /\ g[n-1] = f[n-1]
        BY <3>2
      <4>2. f[n] = Execute(f[n-1], statements[n], rows, z)
        BY <2>1, <3>2
      <4> QED BY <3>2, <4>1, <4>2
    <3>3. CASE n = N + 1
      <4>1. n # 0 /\ n - 1 = N /\ g[N] = f[N]
        BY <3>3
      <4> QED BY <3>3, <4>1
    <3> QED BY <3>1, <3>2, <3>3
  <2>3. g = Upto(g, N + 1)
    BY <2>2
  <2> HIDE DEF g, Upto
  <2> QED BY <2>3
<1>3. Len(statements) \in S
  <2> HIDE DEF S
  <2> QED BY <1>1, <1>2, SetInduction
<1> DEFINE after == CHOOSE f : f = Upto(f, Len(statements))
<1>4. after = Upto(after, Len(statements))
  BY <1>3
<1>5. Run(d, statements, rows, z) = after[Len(statements)]
  BY DEF Run
<1> HIDE DEF after
<1> QED BY <1>4, <1>5

\* A harmless script keeps what its statements keep.
LEMMA RunKeeps ==
  ASSUME NEW d, NEW statements, NEW rows, NEW z \in Int,
         WellFormed(d), Steady(d, z), HarmlessScript(statements)
  PROVE  /\ WellFormed(Run(d, statements, rows, z))
         /\ Steady(Run(d, statements, rows, z), z)
<1>0. Len(statements) \in Nat
  BY DEF HarmlessScript
<1>1. PICK after :
        /\ after[0] = d
        /\ \A n \in 1..Len(statements) :
             after[n] = Execute(after[n-1], statements[n], rows, z)
        /\ Run(d, statements, rows, z) = after[Len(statements)]
  BY <1>0, RunSteps
<1> DEFINE Good(e) == WellFormed(e) /\ Steady(e, z)
           S == {n \in Nat : n <= Len(statements) => Good(after[n])}
<1>2. 0 \in S
  BY <1>1
<1>3. ASSUME NEW n \in Nat, n \in S PROVE n + 1 \in S
  <2> SUFFICES ASSUME n + 1 <= Len(statements) PROVE Good(after[n+1])
    OBVIOUS
  <2>1. Good(after[n]) /\ n + 1 \in 1..Len(statements)
    BY <1>0, <1>3
  <2>2. after[n+1] = Execute(after[n], statements[n+1], rows, z)
    BY <1>1, <2>1
  <2> QED BY <2>1, <2>2, ExecuteKeeps DEF HarmlessScript
<1>4. Len(statements) \in S
  <2> HIDE DEF S
  <2> QED BY <1>0, <1>2, <1>3, SetInduction
<1> QED BY <1>1, <1>4

\* The databases between two scripts of a command.
LEMMA RunAllSteps ==
  ASSUME NEW d, NEW S, NEW order, NEW way, NEW rows, NEW z, Len(order) \in Nat
  PROVE  \E after :
           /\ after[0] = d
           /\ \A n \in 1..Len(order) :
                after[n] = IF order[n] \in S
                           THEN Run(after[n-1], Script[order[n]][way], rows, z)
                           ELSE after[n-1]
           /\ RunAll(d, S, order, way, rows, z) = after[Len(order)]
<1> DEFINE Upto(f, N) ==
             [n \in 0..N |-> IF n = 0 THEN d
                             ELSE IF order[n] \in S
                             THEN Run(f[n-1], Script[order[n]][way], rows, z)
                             ELSE f[n-1]]
           T == {N \in Nat : \E f : f = Upto(f, N)}
<1>1. 0 \in T
  <2> DEFINE f == [n \in 0..0 |-> d]
  <2>1. f = Upto(f, 0)
    OBVIOUS
  <2> QED BY <2>1
<1>2. ASSUME NEW N \in Nat, N \in T PROVE N + 1 \in T
  <2>1. PICK f : f = Upto(f, N)
    BY <1>2
  <2> DEFINE e == IF order[N + 1] \in S
                  THEN Run(f[N], Script[order[N + 1]][way], rows, z) ELSE f[N]
             g == [n \in 0..(N + 1) |-> IF n <= N THEN f[n] ELSE e]
  <2>2. ASSUME NEW n \in 0..(N + 1) PROVE g[n] = Upto(g, N + 1)[n]
    <3>1. CASE n = 0
      BY <2>1, <3>1
    <3>2. CASE n \in 1..N
      <4>1. g[n] = f[n] /\ g[n-1] = f[n-1]
        BY <3>2
      <4>2. f[n] = IF order[n] \in S
                   THEN Run(f[n-1], Script[order[n]][way], rows, z) ELSE f[n-1]
        BY <2>1, <3>2
      <4> QED BY <3>2, <4>1, <4>2
    <3>3. CASE n = N + 1
      <4>1. n # 0 /\ n - 1 = N /\ g[N] = f[N]
        BY <3>3
      <4> QED BY <3>3, <4>1
    <3> QED BY <3>1, <3>2, <3>3
  <2>3. g = Upto(g, N + 1)
    BY <2>2
  <2> HIDE DEF g, Upto
  <2> QED BY <2>3
<1>3. Len(order) \in T
  <2> HIDE DEF T
  <2> QED BY <1>1, <1>2, SetInduction
<1> DEFINE after == CHOOSE f : f = Upto(f, Len(order))
<1>4. after = Upto(after, Len(order))
  BY <1>3
<1>5. RunAll(d, S, order, way, rows, z) = after[Len(order)]
  BY DEF RunAll
<1> HIDE DEF after
<1> QED BY <1>4, <1>5

\* A command keeps what its scripts keep.
LEMMA RunAllKeeps ==
  ASSUME NEW d, NEW S, NEW order, NEW way \in {"up", "down"}, NEW rows,
         NEW z \in Int, WellFormed(d), Steady(d, z),
         Len(order) \in Nat, \A n \in 1..Len(order) : order[n] \in Revision
  PROVE  /\ WellFormed(RunAll(d, S, order, way, rows, z))
         /\ Steady(RunAll(d, S, order, way, rows, z), z)
<1>1. PICK after :
        /\ after[0] = d
        /\ \A n \in 1..Len(order) :
             after[n] = IF order[n] \in S
                        THEN Run(after[n-1], Script[order[n]][way], rows, z)
                        ELSE after[n-1]
        /\ RunAll(d, S, order, way, rows, z) = after[Len(order)]
  BY RunAllSteps
<1> DEFINE Good(e) == WellFormed(e) /\ Steady(e, z)
           T == {n \in Nat : n <= Len(order) => Good(after[n])}
<1>2. 0 \in T
  BY <1>1
<1>3. ASSUME NEW n \in Nat, n \in T PROVE n + 1 \in T
  <2> SUFFICES ASSUME n + 1 <= Len(order) PROVE Good(after[n+1])
    OBVIOUS
  <2>1. Good(after[n]) /\ n + 1 \in 1..Len(order)
    BY <1>3
  <2>2. HarmlessScript(Script[order[n+1]][way])
    BY <2>1, ScriptsHarmless
  <2>3. \/ after[n+1] = after[n]
        \/ after[n+1] = Run(after[n], Script[order[n+1]][way], rows, z)
    BY <1>1, <2>1
  <2> QED BY <2>1, <2>2, <2>3, RunKeeps
<1>4. Len(order) \in T
  <2> HIDE DEF T
  <2> QED BY <1>2, <1>3, SetInduction
<1> QED BY <1>1, <1>4

-----------------------------------------------------------------------------
(* The revision graph.                                                      *)

\* A script revises only scripts that come before it.
LEMMA OrderIsSound ==
  /\ Len(Order) = 12
  /\ \A i, j \in 1..12 : Order[i] = Order[j] => i = j
  /\ \A i \in 1..12 :
       Script[Order[i]].parents \subseteq {Order[j] : j \in 1..(i - 1)}
<1>1. Len(Order) = 12 /\ \A i, j \in 1..12 : Order[i] = Order[j] => i = j
  BY DEF Order
<1>2. ASSUME NEW i \in 1..12
      PROVE  \A p \in Script[Order[i]].parents : \E j \in 1..(i - 1) : p = Order[j]
  BY SMTT(30) DEF Script, Revises, Revision, Order, MergedHeads
<1> QED BY <1>1, <1>2

\* What an upgrade adds is closed: it brings the ancestors of its target.
LEMMA AncestorsClosed ==
  ASSUME NEW r \in Revision
  PROVE  /\ Ancestors[r] \in Closed
         /\ r \in Ancestors[r]
         /\ \A q \in Ancestors[r] : Ancestors[q] \subseteq Ancestors[r]
<1>1. \A q \in Revision : Script[q].parents \subseteq Revision
  BY OrderIsSound DEF Revision
<1>2. Ancestors[r] \in Closed
  BY <1>1 DEF Ancestors, Closed
<1> QED BY <1>2 DEF Ancestors

\* No script comes, through others, before itself.
LEMMA NoCycle ==
  ASSUME NEW r \in Revision, NEW p \in Script[r].parents
  PROVE  p \in Revision /\ p \in Ancestors[r] /\ r \notin Ancestors[p]
<1>1. PICK i \in 1..12 : r = Order[i]
  BY OrderIsSound DEF Revision
<1> DEFINE B == {Order[j] : j \in 1..(i - 1)}
<1>2. p \in B /\ r \notin B /\ B \subseteq Revision
  BY <1>1, OrderIsSound DEF Revision
<1>3. B \in Closed
  <2> SUFFICES ASSUME NEW q \in B PROVE Script[q].parents \subseteq B
    BY <1>2 DEF Closed
  <2>1. PICK j \in 1..(i - 1) : q = Order[j]
    OBVIOUS
  <2>2. j \in 1..12 /\ \A k \in 1..(j - 1) : k \in 1..(i - 1)
    OBVIOUS
  <2> QED BY <2>1, <2>2, OrderIsSound
<1>4. r \notin Ancestors[p]
  BY <1>2, <1>3 DEF Ancestors
<1>5. p \in Ancestors[r]
  BY AncestorsClosed DEF Closed
<1> QED BY <1>2, <1>4, <1>5

-----------------------------------------------------------------------------
(* The tables and columns the scripts are about.                            *)

\* No two groups of cacd5554ba5a have a table in common.
LEMMA GroupsApart ==
  /\ DOMAIN Roots \cap DOMAIN UserTables = {}
  /\ (DOMAIN Roots \cup DOMAIN UserTables) \cap DOMAIN WorkspaceTables = {}
  /\ (DOMAIN Roots \cup DOMAIN UserTables \cup DOMAIN WorkspaceTables)
       \cap DOMAIN MeetingTables = {}
  /\ (DOMAIN Roots \cup DOMAIN UserTables \cup DOMAIN WorkspaceTables
        \cup DOMAIN MeetingTables) \cap DOMAIN SummaryTables = {}
  /\ (DOMAIN Roots \cup DOMAIN UserTables \cup DOMAIN WorkspaceTables
        \cup DOMAIN MeetingTables \cup DOMAIN SummaryTables)
       \cap DOMAIN InterviewTables = {}
  /\ (DOMAIN Roots \cup DOMAIN UserTables \cup DOMAIN WorkspaceTables
        \cup DOMAIN MeetingTables \cup DOMAIN SummaryTables \cup DOMAIN InterviewTables)
       \cap DOMAIN ScoreTables = {}
<1>1. /\ DOMAIN Roots \cap DOMAIN UserTables = {}
      /\ (DOMAIN Roots \cup DOMAIN UserTables) \cap DOMAIN WorkspaceTables = {}
  BY DEF Roots, UserTables, WorkspaceTables
<1>2. (DOMAIN Roots \cup DOMAIN UserTables \cup DOMAIN WorkspaceTables)
        \cap DOMAIN MeetingTables = {}
  BY DEF Roots, UserTables, WorkspaceTables, MeetingTables
<1>3. (DOMAIN Roots \cup DOMAIN UserTables \cup DOMAIN WorkspaceTables
         \cup DOMAIN MeetingTables) \cap DOMAIN SummaryTables = {}
  BY DEF Roots, UserTables, WorkspaceTables, MeetingTables, SummaryTables
<1>4. (DOMAIN Roots \cup DOMAIN UserTables \cup DOMAIN WorkspaceTables
         \cup DOMAIN MeetingTables \cup DOMAIN SummaryTables)
        \cap DOMAIN InterviewTables = {}
  BY DEF Roots, UserTables, WorkspaceTables, MeetingTables, SummaryTables,
     InterviewTables
<1>5. (DOMAIN Roots \cup DOMAIN UserTables \cup DOMAIN WorkspaceTables
         \cup DOMAIN MeetingTables \cup DOMAIN SummaryTables
         \cup DOMAIN InterviewTables) \cap DOMAIN ScoreTables = {}
  BY DEF Roots, UserTables, WorkspaceTables, MeetingTables, SummaryTables,
     InterviewTables, ScoreTables
<1> QED BY <1>1, <1>2, <1>3, <1>4, <1>5

\* The tables of cacd5554ba5a, group by group.
LEMMA FoundedIs ==
  /\ DOMAIN Founded = DOMAIN Roots \cup DOMAIN UserTables \cup DOMAIN WorkspaceTables
       \cup DOMAIN MeetingTables \cup DOMAIN SummaryTables
       \cup DOMAIN InterviewTables \cup DOMAIN ScoreTables
  /\ \A t \in DOMAIN Roots : Founded[t] = Roots[t]
  /\ \A t \in DOMAIN UserTables : Founded[t] = UserTables[t]
  /\ \A t \in DOMAIN WorkspaceTables : Founded[t] = WorkspaceTables[t]
  /\ \A t \in DOMAIN MeetingTables : Founded[t] = MeetingTables[t]
  /\ \A t \in DOMAIN SummaryTables : Founded[t] = SummaryTables[t]
  /\ \A t \in DOMAIN InterviewTables : Founded[t] = InterviewTables[t]
  /\ \A t \in DOMAIN ScoreTables : Founded[t] = ScoreTables[t]
BY GroupsApart DEF Founded, Over

\* What the tables of a group refer to is created before.
LEMMA RefsFound ==
  /\ \A t \in DOMAIN Roots : Roots[t].refs = {}
  /\ \A t \in DOMAIN UserTables : UserTables[t].refs = {"users"}
  /\ \A t \in DOMAIN WorkspaceTables :
       WorkspaceTables[t].refs \subseteq {"users", "workspaces"}
  /\ \A t \in DOMAIN MeetingTables :
       MeetingTables[t].refs
         \subseteq {"users", "workspaces", "meetings", "candidates", "integrations"}
  /\ \A t \in DOMAIN SummaryTables :
       SummaryTables[t].refs \subseteq
         {"users", "integrations", "meeting_summaries", "ask_mind_sessions",
          "integration_channels", "interviews", "meeting_participants", "transcripts"}
  /\ \A t \in DOMAIN InterviewTables :
       InterviewTables[t].refs \subseteq
         {"interview_summaries", "interview_transcripts", "interview_scorecards",
          "scorecard_categories"}
  /\ \A t \in DOMAIN ScoreTables : ScoreTables[t].refs = {"scorecard_scores"}
<1>1. /\ \A t \in DOMAIN Roots : Roots[t].refs = {}
      /\ \A t \in DOMAIN UserTables : UserTables[t].refs = {"users"}
      /\ \A t \in DOMAIN WorkspaceTables :
           WorkspaceTables[t].refs \subseteq {"users", "workspaces"}
  BY DEF Roots, UserTables, WorkspaceTables, Table
<1>2. \A t \in DOMAIN MeetingTables :
       MeetingTables[t].refs
         \subseteq {"users", "workspaces", "meetings", "candidates", "integrations"}
  BY DEF MeetingTables, Table
<1>3. \A t \in DOMAIN SummaryTables :
       SummaryTables[t].refs \subseteq
         {"users", "integrations", "meeting_summaries", "ask_mind_sessions",
          "integration_channels", "interviews", "meeting_participants", "transcripts"}
  BY DEF SummaryTables, Table
<1>4. /\ \A t \in DOMAIN InterviewTables :
       InterviewTables[t].refs \subseteq
         {"interview_summaries", "interview_transcripts", "interview_scorecards",
          "scorecard_categories"}
      /\ \A t \in DOMAIN ScoreTables : ScoreTables[t].refs = {"scorecard_scores"}
  BY DEF InterviewTables, ScoreTables, Table
<1> QED BY <1>1, <1>2, <1>3, <1>4

\* The date columns of a table.
LEMMA TimesOfIs ==
  ASSUME NEW tables, NEW c
  PROVE  c \in TimesOf(tables)
           <=> \E t \in DOMAIN tables : \E x \in tables[t].times : c = <<t, x>>
BY DEF TimesOf

\* A table with these date columns has none of those that are added to it.
Lacks(t, times) ==
  /\ t \in NewlyStamped => "created_at" \notin times /\ "updated_at" \notin times
  /\ t \in NewlyUpdated => "updated_at" \notin times
  /\ t \in NewlyCreated \cup Preferences => "created_at" \notin times

\* No table of cacd5554ba5a has a date a later script adds to it.
LEMMA FoundedLacks == \A t \in DOMAIN Founded : Lacks(t, Founded[t].times)
<1>1. \A t \in DOMAIN Roots : Lacks(t, Roots[t].times)
  BY DEF Roots, Table, Lacks, NewlyStamped, NewlyUpdated, NewlyCreated, Preferences
<1>2. \A t \in DOMAIN UserTables : Lacks(t, UserTables[t].times)
  BY DEF UserTables, Table, Lacks, NewlyStamped, NewlyUpdated, NewlyCreated, Preferences
<1>3. \A t \in DOMAIN WorkspaceTables : Lacks(t, WorkspaceTables[t].times)
  BY DEF WorkspaceTables, Table, Lacks, NewlyStamped, NewlyUpdated, NewlyCreated,
     Preferences
<1>4. \A t \in DOMAIN MeetingTables : Lacks(t, MeetingTables[t].times)
  BY DEF MeetingTables, Table, Lacks, NewlyStamped, NewlyUpdated, NewlyCreated,
     Preferences
<1>5. \A t \in DOMAIN SummaryTables : Lacks(t, SummaryTables[t].times)
  BY DEF SummaryTables, Table, Lacks, NewlyStamped, NewlyUpdated, NewlyCreated,
     Preferences
<1>6. \A t \in DOMAIN InterviewTables : Lacks(t, InterviewTables[t].times)
  BY DEF InterviewTables, Table, Lacks, NewlyStamped, NewlyUpdated, NewlyCreated,
     Preferences
<1>7. \A t \in DOMAIN ScoreTables : Lacks(t, ScoreTables[t].times)
  BY DEF ScoreTables, Table, Lacks, NewlyStamped, NewlyUpdated, NewlyCreated, Preferences
<1> QED BY <1>1, <1>2, <1>3, <1>4, <1>5, <1>6, <1>7, FoundedIs

\* 7ba4c8acd02e and d44e91e81013 add dates to tables of cacd5554ba5a only.
LEMMA AddedToFounded ==
  NewlyStamped \cup NewlyUpdated \cup NewlyCreated
    \cup Preferences \subseteq DOMAIN Founded
<1>1. NewlyStamped \subseteq DOMAIN Founded
  BY FoundedIs DEF NewlyStamped, WorkspaceTables, MeetingTables, SummaryTables,
     InterviewTables, ScoreTables
<1>2. NewlyUpdated \subseteq DOMAIN Founded
  BY FoundedIs DEF NewlyUpdated, UserTables, WorkspaceTables, MeetingTables,
     SummaryTables
<1>3. NewlyCreated \cup Preferences \subseteq DOMAIN Founded
  BY FoundedIs DEF NewlyCreated, Preferences, UserTables, SummaryTables
<1> QED BY <1>1, <1>2, <1>3

\* The fields of a table that are dates, and those that are not.
DateFields ==
  {"created_at", "updated_at", "last_seen_at", "expires_at", "used_at", "connected_at",
   "notified_at", "started_at", "ended_at", "joined_at", "scheduled_start",
   "scheduled_end", "generated_at"}

\* With the columns that are added to it, a table has both stamps.
Stamped(t, times) ==
  /\ times \subseteq DateFields
  /\ "created_at" \in times \/ t \in NewlyStamped \cup NewlyCreated \cup Preferences
  /\ "updated_at" \in times \/ t \in NewlyStamped \cup NewlyUpdated

\* With the dates added later, every table of cacd5554ba5a has both stamps.
LEMMA FoundedStamped == \A t \in DOMAIN Founded : Stamped(t, Founded[t].times)
<1>1. \A t \in DOMAIN Roots : Stamped(t, Roots[t].times)
  BY DEF Roots, Table, Stamped, DateFields, NewlyStamped, NewlyUpdated, NewlyCreated,
     Preferences
<1>2. \A t \in DOMAIN UserTables : Stamped(t, UserTables[t].times)
  BY DEF UserTables, Table, Stamped, DateFields, NewlyStamped, NewlyUpdated, NewlyCreated,
     Preferences
<1>3. \A t \in DOMAIN WorkspaceTables : Stamped(t, WorkspaceTables[t].times)
  BY DEF WorkspaceTables, Table, Stamped, DateFields, NewlyStamped, NewlyUpdated,
     NewlyCreated, Preferences
<1>4. \A t \in DOMAIN MeetingTables : Stamped(t, MeetingTables[t].times)
  BY DEF MeetingTables, Table, Stamped, DateFields, NewlyStamped, NewlyUpdated,
     NewlyCreated, Preferences
<1>5. \A t \in DOMAIN SummaryTables : Stamped(t, SummaryTables[t].times)
  BY DEF SummaryTables, Table, Stamped, DateFields, NewlyStamped, NewlyUpdated,
     NewlyCreated, Preferences
<1>6. \A t \in DOMAIN InterviewTables : Stamped(t, InterviewTables[t].times)
  BY DEF InterviewTables, Table, Stamped, DateFields, NewlyStamped, NewlyUpdated,
     NewlyCreated, Preferences
<1>7. \A t \in DOMAIN ScoreTables : Stamped(t, ScoreTables[t].times)
  BY DEF ScoreTables, Table, Stamped, DateFields, NewlyStamped, NewlyUpdated,
     NewlyCreated, Preferences
<1> QED BY <1>1, <1>2, <1>3, <1>4, <1>5, <1>6, <1>7, FoundedIs

\* The columns that are added to tables of cacd5554ba5a are new.
LEMMA TimesApart ==
  /\ SyncTimes \cap TimesOf(Founded) = {}
  /\ PreferenceCreated \cap TimesOf(Founded) = {}
  /\ SyncTimes \cap PreferenceCreated = {}
<1>1. SyncTimes \cap TimesOf(Founded) = {}
  BY FoundedLacks, TimesOfIs DEF Lacks, SyncTimes, Stamps, Columns
<1>2. PreferenceCreated \cap TimesOf(Founded) = {}
  BY FoundedLacks, TimesOfIs DEF Lacks, PreferenceCreated, Columns
<1>3. SyncTimes \cap PreferenceCreated = {}
  BY DEF SyncTimes, PreferenceCreated, Preferences, Stamps, Columns, NewlyStamped,
     NewlyUpdated, NewlyCreated
<1> QED BY <1>1, <1>2, <1>3

\* Dates of tables that exist when 8ba95b973a4a converts them.
LEMMA StandardizedFound ==
  Standardized \subseteq TimesOf(Founded) \cup PreferenceCreated \cup SyncTimes
<1> DEFINE known == TimesOf(Founded) \cup PreferenceCreated \cup SyncTimes
           Stamp(c) == \E t \in DOMAIN Founded :
                         c = <<t, "created_at">> \/ c = <<t, "updated_at">>
<1>1. ASSUME NEW c, Stamp(c) PROVE c \in known
  BY <1>1, FoundedStamped, TimesOfIs
     DEF Stamped, Stamps, Columns, SyncTimes, PreferenceCreated
<1>2. \A t \in DOMAIN Founded : \A x \in Founded[t].times : <<t, x>> \in known
  BY TimesOfIs
<1> HIDE DEF known
<1>3. \A c \in ToScorecards : Stamp(c) \/ c = <<"active_sessions", "last_seen_at">>
  BY FoundedIs DEF ToScorecards, Stamps, Columns, UserTables, WorkspaceTables,
     MeetingTables, SummaryTables, InterviewTables
<1>4. \A c \in ToPasswordResets :
        \/ Stamp(c)
        \/ c \in {"password_reset_tokens"} \X {"expires_at", "used_at"}
  BY FoundedIs DEF ToPasswordResets, Stamps, Columns, UserTables, WorkspaceTables,
     MeetingTables, SummaryTables, InterviewTables
<1>5. \A c \in ToTranscripts : Stamp(c)
  BY FoundedIs DEF ToTranscripts, Stamps, Columns, UserTables, WorkspaceTables,
     MeetingTables, SummaryTables, InterviewTables, ScoreTables
<1>6. \A c \in ToWorkspaces : Stamp(c)
  BY FoundedIs DEF ToWorkspaces, Stamps, Columns, Roots, UserTables, WorkspaceTables
<1>7. /\ "active_sessions" \in DOMAIN Founded
      /\ "last_seen_at" \in Founded["active_sessions"].times
      /\ "password_reset_tokens" \in DOMAIN Founded
      /\ {"expires_at", "used_at"} \subseteq Founded["password_reset_tokens"].times
  BY FoundedIs DEF UserTables, Table
<1>8. /\ <<"active_sessions", "last_seen_at">> \in known
      /\ {"password_reset_tokens"} \X {"expires_at", "used_at"} \subseteq known
  BY <1>2, <1>7
<1> HIDE DEF Stamp
<1>9. ToScorecards \subseteq known /\ ToPasswordResets \subseteq known
  BY <1>1, <1>3, <1>4, <1>8
<1>10. ToTranscripts \subseteq known /\ ToWorkspaces \subseteq known
  BY <1>1, <1>5, <1>6
<1> QED BY <1>9, <1>10 DEF Standardized, known

\* The two tables of tokens are not among those of cacd5554ba5a.
LEMMA NewTablesApart ==
  /\ DOMAIN RefreshTokenTable = {"refresh_tokens"}
  /\ DOMAIN VerificationTable = {"email_verification_tokens"}
  /\ "refresh_tokens" \notin DOMAIN Founded
  /\ "email_verification_tokens" \notin DOMAIN Founded
  /\ {"users", "active_sessions", "interview_summaries"} \subseteq DOMAIN Founded
<1>1. /\ DOMAIN RefreshTokenTable = {"refresh_tokens"}
      /\ DOMAIN VerificationTable = {"email_verification_tokens"}
  BY DEF RefreshTokenTable, VerificationTable
<1>2. \A t \in DOMAIN Founded : t \notin {"refresh_tokens", "email_verification_tokens"}
  BY FoundedIs DEF Roots, UserTables, WorkspaceTables, MeetingTables, SummaryTables,
     InterviewTables, ScoreTables
<1>3. {"users", "active_sessions", "interview_summaries"} \subseteq DOMAIN Founded
  BY FoundedIs DEF Roots, UserTables, SummaryTables
<1> QED BY <1>1, <1>2, <1>3

\* Every column belongs to a table, and is added by one statement.
LEMMA ColumnsPlaced ==
  /\ \A c \in TimesOf(Founded) \cup PreferenceCreated \cup SyncTimes :
       c[1] \in DOMAIN Founded /\ c[2] \in DateFields
  /\ \A c \in TokenHash \cup IsVerified \cup ContextColumns :
       c[1] \in DOMAIN Founded /\ c[2] \notin DateFields
  /\ \A c \in RefreshTokenTimes \cup RefreshUpdated : c[1] = "refresh_tokens"
  /\ \A c \in VerificationTimes : c[1] = "email_verification_tokens"
  /\ RefreshTokenTimes \cap RefreshUpdated = {}
  /\ TokenHash \cap IsVerified = {}
  /\ (TokenHash \cup IsVerified) \cap ContextColumns = {}
<1>1. \A c \in TimesOf(Founded) : c[1] \in DOMAIN Founded /\ c[2] \in DateFields
  BY FoundedStamped, TimesOfIs DEF Stamped
<1>2. \A c \in PreferenceCreated \cup SyncTimes :
       c[1] \in DOMAIN Founded /\ c[2] \in DateFields
  BY AddedToFounded DEF PreferenceCreated, SyncTimes, Stamps, Columns, DateFields
<1>3. \A c \in TokenHash \cup IsVerified \cup ContextColumns :
       c[1] \in DOMAIN Founded /\ c[2] \notin DateFields
  BY NewTablesApart DEF TokenHash, IsVerified, ContextColumns, DateFields
<1>4. \A c \in RefreshTokenTimes \cup RefreshUpdated : c[1] = "refresh_tokens"
  BY TimesOfIs, NewTablesApart DEF RefreshTokenTimes, RefreshUpdated
<1>5. \A c \in VerificationTimes : c[1] = "email_verification_tokens"
  BY TimesOfIs, NewTablesApart DEF VerificationTimes
<1>6. RefreshTokenTimes \cap RefreshUpdated = {}
  BY TimesOfIs DEF RefreshTokenTimes, RefreshUpdated, RefreshTokenTable, Table
<1>7. /\ TokenHash \cap IsVerified = {}
      /\ (TokenHash \cup IsVerified) \cap ContextColumns = {}
  BY DEF TokenHash, IsVerified, ContextColumns
<1> QED BY <1>1, <1>2, <1>3, <1>4, <1>5, <1>6, <1>7

-----------------------------------------------------------------------------
(* What one statement does to the schema.                                   *)

\* The functions and sets the statements are made of.
Each(C, type) == [c \in C |-> type]
RefsOf(tables) == [t \in DOMAIN tables |-> tables[t].refs]
Off(C, names) == {c \in C : c[1] \notin names}

\* d is a database in which nothing failed, with this schema.
Holds(d, refs, type, index) ==
  /\ DOMAIN d = {"refs", "type", "drift", "index", "ok"}
  /\ d.ok /\ d.refs = refs /\ d.type = type /\ d.index = index

\* d is a database in which a statement failed.
Failed(d) == DOMAIN d = {"refs", "type", "drift", "index", "ok"} /\ ~d.ok

\* A statement that cannot run leaves a failed database.
LEMMA ExecuteFails ==
  ASSUME NEW d, NEW s, NEW rows, NEW z,
         DOMAIN d = {"refs", "type", "drift", "index", "ok"},
         ~(d.ok /\ Possible(d, s, rows))
  PROVE  Failed(Execute(d, s, rows, z))
BY DEF Execute, Failed

\* What adding columns does to types and drifts.
LEMMA WithColumnsDoes ==
  ASSUME NEW d, NEW R, NEW T, NEW X, Holds(d, R, T, X), NEW type, NEW columns
  PROVE  Holds(WithColumns(d, type, columns), R, Over(Each(columns, type), T), X)
<1> DEFINE newType == Over(Each(columns, type), d.type)
           newDrift == Over([c \in columns |-> 0], d.drift)
<1>1. WithColumns(d, type, columns) = [d EXCEPT !.type = newType, !.drift = newDrift]
  BY DEF WithColumns, Each
<1>2. newType = Over(Each(columns, type), T)
  BY DEF Holds
<1> HIDE DEF newType, newDrift
<1> QED BY <1>1, <1>2 DEF Holds

\* What dropping columns does to the types.
LEMMA WithoutColumnsDoes ==
  ASSUME NEW d, NEW R, NEW T, NEW X, Holds(d, R, T, X), NEW columns
  PROVE  Holds(WithoutColumns(d, columns), R, Restrict(T, DOMAIN T \ columns), X)
BY DEF Holds, WithoutColumns

\* create_table: the new tables, with dates without zone.
LEMMA CreateDoes ==
  ASSUME NEW d, NEW R, NEW T, NEW X, Holds(d, R, T, X), NEW rows, NEW z, NEW tables,
         DOMAIN tables \cap DOMAIN R = {},
         \A t \in DOMAIN tables : tables[t].refs \subseteq DOMAIN R
  PROVE  Holds(Execute(d, CreateTables(tables), rows, z),
               Over(RefsOf(tables), R),
               Over(Each(TimesOf(tables), "naive"), T), X)
<1> DEFINE s == CreateTables(tables)
           refs == Over(RefsOf(tables), R)
           f == [d EXCEPT !.refs = refs]
<1>1. s.op = "create_table" /\ s.tables = tables
  BY DEF CreateTables
<1> HIDE DEF s, refs
<1>2. d.ok /\ Possible(d, s, rows)
  BY <1>1 DEF Possible, Holds
<1>3. Holds(f, refs, T, X)
  BY DEF Holds
<1> HIDE DEF f
<1>4. Effect(d, s, z) = WithColumns(f, "naive", TimesOf(tables))
  BY <1>1 DEF Effect, RefsOf, Holds, refs, f
<1> QED BY <1>2, <1>3, <1>4, WithColumnsDoes DEF Execute, s, refs

\* drop_table: the tables go with their columns and indexes.
LEMMA DropDoes ==
  ASSUME NEW d, NEW R, NEW T, NEW X, Holds(d, R, T, X), NEW rows, NEW z, NEW names,
         names \subseteq DOMAIN R, \A t \in DOMAIN R : R[t] \cap names = {}
  PROVE  Holds(Execute(d, DropTables(names), rows, z),
               Restrict(R, DOMAIN R \ names),
               Restrict(T, Off(DOMAIN T, names)),
               Off(X, names))
<1> DEFINE s == DropTables(names)
           f == [d EXCEPT !.refs = Restrict(R, DOMAIN R \ names),
                          !.index = Off(X, names)]
           gone == {c \in DOMAIN T : c[1] \in names}
<1>1. s.op = "drop_table" /\ s.names = names
  BY DEF DropTables
<1> HIDE DEF s
<1>2. d.ok /\ Possible(d, s, rows)
  BY <1>1 DEF Possible, Holds
<1>3. Holds(f, Restrict(R, DOMAIN R \ names), T, Off(X, names))
  BY DEF Holds
<1> HIDE DEF f
<1>4. Effect(d, s, z) = WithoutColumns(f, gone)
  BY <1>1 DEF Effect, Holds, f, Off
<1>5. DOMAIN T \ gone = Off(DOMAIN T, names)
  BY DEF Off
<1> QED BY <1>2, <1>3, <1>4, <1>5, WithoutColumnsDoes DEF Execute, s

\* add_column of a column that need not be filled.
LEMMA AddDoes ==
  ASSUME NEW d, NEW R, NEW T, NEW X, Holds(d, R, T, X), NEW rows, NEW z,
         NEW type, NEW columns, \A c \in columns : c[1] \in DOMAIN R /\ c \notin DOMAIN T
  PROVE  Holds(Execute(d, AddColumns(type, columns), rows, z),
               R, Over(Each(columns, type), T), X)
<1> DEFINE s == AddColumns(type, columns)
<1>1. s.op = "add_column" /\ s.type = type /\ s.columns = columns /\ ~s.required
  BY DEF AddColumns
<1> HIDE DEF s
<1>2. d.ok /\ Possible(d, s, rows)
  BY <1>1 DEF Possible, Holds
<1>3. Effect(d, s, z) = WithColumns(d, type, columns)
  BY <1>1 DEF Effect
<1> QED BY <1>2, <1>3, WithColumnsDoes DEF Execute, s

\* drop_column.
LEMMA DropColumnsDoes ==
  ASSUME NEW d, NEW R, NEW T, NEW X, Holds(d, R, T, X), NEW rows, NEW z,
         NEW columns, columns \subseteq DOMAIN T
  PROVE  Holds(Execute(d, DropColumns(columns), rows, z),
               R, Restrict(T, DOMAIN T \ columns), X)
<1> DEFINE s == DropColumns(columns)
<1>1. s.op = "drop_column" /\ s.columns = columns
  BY DEF DropColumns
<1> HIDE DEF s
<1>2. d.ok /\ Possible(d, s, rows)
  BY <1>1 DEF Possible, Holds
<1>3. Effect(d, s, z) = WithoutColumns(d, columns)
  BY <1>1 DEF Effect
<1> QED BY <1>2, <1>3, WithoutColumnsDoes DEF Execute, s

\* alter_column: the columns have the new type, whatever the zone.
LEMMA AlterDoes ==
  ASSUME NEW d, NEW R, NEW T, NEW X, Holds(d, R, T, X), NEW rows, NEW z,
         NEW columns, NEW type, NEW using, columns \subseteq DOMAIN T
  PROVE  Holds(Execute(d, AlterType(columns, type, using), rows, z),
               R, Over(Each(columns, type), T), X)
<1> DEFINE s == AlterType(columns, type, using)
           newType == Over(Each(columns, type), d.type)
           newDrift == Over([c \in columns |->
                          d.drift[c] + Shift(d.type[c], type, using, z)], d.drift)
<1>1. s.op = "alter_column" /\ s.columns = columns /\ s.type = type /\ s.using = using
  BY DEF AlterType
<1> HIDE DEF s
<1>2. d.ok /\ Possible(d, s, rows)
  BY <1>1 DEF Possible, Holds
<1>3. Effect(d, s, z) = [d EXCEPT !.type = newType, !.drift = newDrift]
  BY <1>1 DEF Effect, Each
<1>4. newType = Over(Each(columns, type), T)
  BY DEF Holds
<1> HIDE DEF newType, newDrift
<1> QED BY <1>2, <1>3, <1>4 DEF Execute, s, Holds

\* create_index and drop_index.
LEMMA IndexDoes ==
  ASSUME NEW d, NEW R, NEW T, NEW X, Holds(d, R, T, X), NEW rows, NEW z, NEW indexes
  PROVE  /\ (\A i \in indexes : i[1] \in DOMAIN R /\ i \notin X) =>
              Holds(Execute(d, CreateIndex(indexes), rows, z), R, T, X \cup indexes)
         /\ indexes \subseteq X =>
              Holds(Execute(d, DropIndex(indexes), rows, z), R, T, X \ indexes)
<1>1. ASSUME \A i \in indexes : i[1] \in DOMAIN R /\ i \notin X
      PROVE  Holds(Execute(d, CreateIndex(indexes), rows, z), R, T, X \cup indexes)
  <2> DEFINE s == CreateIndex(indexes)
  <2>1. s.op = "create_index" /\ s.indexes = indexes
    BY DEF CreateIndex
  <2> HIDE DEF s
  <2>2. d.ok /\ Possible(d, s, rows)
    BY <1>1, <2>1 DEF Possible, Holds
  <2>3. Effect(d, s, z) = [d EXCEPT !.index = X \cup indexes]
    BY <2>1 DEF Effect, Holds
  <2> QED BY <2>2, <2>3 DEF Execute, s, Holds
<1>2. ASSUME indexes \subseteq X
      PROVE  Holds(Execute(d, DropIndex(indexes), rows, z), R, T, X \ indexes)
  <2> DEFINE s == DropIndex(indexes)
  <2>1. s.op = "drop_index" /\ s.indexes = indexes
    BY DEF DropIndex
  <2> HIDE DEF s
  <2>2. d.ok /\ Possible(d, s, rows)
    BY <1>2, <2>1 DEF Possible, Holds
  <2>3. Effect(d, s, z) = [d EXCEPT !.index = X \ indexes]
    BY <2>1 DEF Effect, Holds
  <2> QED BY <2>2, <2>3 DEF Execute, s, Holds
<1> QED BY <1>1, <1>2

-----------------------------------------------------------------------------
(* A schema as five sets: its tables, its dates, the aware ones among them,  *)
(* its other columns, its indexes.                                          *)

Referring(T) == [t \in T |-> Tables[t].refs]

Schema(d, T, D, A, O, X) == Holds(d, Referring(T), Typed(D, A, O), X)

\* What new types for some columns do to the types of five sets.
LEMMA NaiveAdded ==
  ASSUME NEW D, NEW A, NEW O, NEW C, C \cap (A \cup O) = {}
  PROVE  Over(Each(C, "naive"), Typed(D, A, O)) = Typed(D \cup C, A, O)
BY DEF Over, Typed, Each

\* The same for dates with time zone.
LEMMA AwareAdded ==
  ASSUME NEW D, NEW A, NEW O, NEW C, C \cap O = {}
  PROVE  Over(Each(C, "aware"), Typed(D, A, O)) = Typed(D \cup C, A \cup C, O)
BY DEF Over, Typed, Each

\* The same for columns that are no dates.
LEMMA OtherAdded ==
  ASSUME NEW D, NEW A, NEW O, NEW C
  PROVE  Over(Each(C, "other"), Typed(D, A, O)) = Typed(D, A, O \cup C)
BY DEF Over, Typed, Each

\* The same for columns whose time zone is dropped.
LEMMA MadeNaive ==
  ASSUME NEW D, NEW A, NEW O, NEW C, C \subseteq D, C \cap O = {}
  PROVE  Over(Each(C, "naive"), Typed(D, A, O)) = Typed(D, A \ C, O)
BY DEF Over, Typed, Each

\* create_table on a schema of five sets.
LEMMA CreateSchema ==
  ASSUME NEW d, NEW T, NEW D, NEW A, NEW O, NEW X, Schema(d, T, D, A, O, X),
         NEW rows, NEW z, NEW tables,
         DOMAIN tables \cap T = {},
         \A t \in DOMAIN tables : tables[t].refs \subseteq T
                                  /\ tables[t].refs = Tables[t].refs,
         TimesOf(tables) \cap (A \cup O) = {}
  PROVE  Schema(Execute(d, CreateTables(tables), rows, z),
                T \cup DOMAIN tables, D \cup TimesOf(tables), A, O, X)
<1>1. DOMAIN Referring(T) = T
  BY DEF Referring
<1>2. Over(RefsOf(tables), Referring(T))
        = Referring(T \cup DOMAIN tables)
  BY DEF Over, Referring, RefsOf
<1>3. Over(Each(TimesOf(tables), "naive"), Typed(D, A, O))
        = Typed(D \cup TimesOf(tables), A, O)
  BY NaiveAdded
<1>4. Holds(Execute(d, CreateTables(tables), rows, z),
            Over(RefsOf(tables), Referring(T)),
            Over(Each(TimesOf(tables), "naive"), Typed(D, A, O)), X)
  BY <1>1, CreateDoes DEF Schema
<1> QED BY <1>2, <1>3, <1>4 DEF Schema

\* drop_table on a schema of five sets.
LEMMA DropSchema ==
  ASSUME NEW d, NEW T, NEW D, NEW A, NEW O, NEW X, Schema(d, T, D, A, O, X),
         NEW rows, NEW z, NEW names,
         names \subseteq T, \A t \in T : Tables[t].refs \cap names = {}
  PROVE  Schema(Execute(d, DropTables(names), rows, z), T \ names,
                Off(D, names), Off(A, names),
                Off(O, names), Off(X, names))
<1> DEFINE kept == Off(DOMAIN Typed(D, A, O), names)
<1>1. /\ DOMAIN Referring(T) = T
      /\ \A t \in T : Referring(T)[t] = Tables[t].refs
      /\ Restrict(Referring(T), T \ names) = Referring(T \ names)
  BY DEF Referring, Restrict
<1>2. Restrict(Typed(D, A, O), kept)
        = Typed(Off(D, names), Off(A, names),
                Off(O, names))
  BY DEF Restrict, Typed, Off
<1>3. Holds(Execute(d, DropTables(names), rows, z),
            Restrict(Referring(T), T \ names), Restrict(Typed(D, A, O), kept),
            Off(X, names))
  BY <1>1, DropDoes DEF Schema
<1> HIDE DEF kept
<1> QED BY <1>1, <1>2, <1>3 DEF Schema

\* add_column on a schema of five sets.
LEMMA AddSchema ==
  ASSUME NEW d, NEW T, NEW D, NEW A, NEW O, NEW X, Schema(d, T, D, A, O, X),
         NEW rows, NEW z, NEW C,
         \A c \in C : c[1] \in T /\ c \notin D \cup O
  PROVE  /\ C \cap A = {} =>
              Schema(Execute(d, AddColumns("naive", C), rows, z), T, D \cup C, A, O, X)
         /\ Schema(Execute(d, AddColumns("aware", C), rows, z), T, D \cup C, A \cup C,
                   O, X)
         /\ Schema(Execute(d, AddColumns("other", C), rows, z), T, D, A, O \cup C, X)
<1>1. ASSUME NEW type
      PROVE  Holds(Execute(d, AddColumns(type, C), rows, z),
                   Referring(T), Over(Each(C, type), Typed(D, A, O)), X)
  <2>1. DOMAIN Referring(T) = T /\ DOMAIN Typed(D, A, O) = D \cup O
    BY DEF Referring, Typed
  <2> QED BY <2>1, AddDoes DEF Schema
<1>2. C \cap O = {}
  OBVIOUS
<1>3. ASSUME C \cap A = {}
      PROVE  Schema(Execute(d, AddColumns("naive", C), rows, z), T, D \cup C, A, O, X)
  <2>1. Over(Each(C, "naive"), Typed(D, A, O)) = Typed(D \cup C, A, O)
    BY <1>2, <1>3, NaiveAdded
  <2> QED BY <1>1, <2>1 DEF Schema
<1>4. Schema(Execute(d, AddColumns("aware", C), rows, z), T, D \cup C, A \cup C, O, X)
  <2>1. Over(Each(C, "aware"), Typed(D, A, O)) = Typed(D \cup C, A \cup C, O)
    BY <1>2, AwareAdded
  <2> QED BY <1>1, <2>1 DEF Schema
<1>5. Schema(Execute(d, AddColumns("other", C), rows, z), T, D, A, O \cup C, X)
  <2>1. Over(Each(C, "other"), Typed(D, A, O)) = Typed(D, A, O \cup C)
    BY OtherAdded
  <2> QED BY <1>1, <2>1 DEF Schema
<1> QED BY <1>3, <1>4, <1>5

\* drop_column on a schema of five sets.
LEMMA DropColumnsSchema ==
  ASSUME NEW d, NEW T, NEW D, NEW A, NEW O, NEW X, Schema(d, T, D, A, O, X),
         NEW rows, NEW z, NEW C, C \subseteq D \cup O
  PROVE  Schema(Execute(d, DropColumns(C), rows, z), T, D \ C, A \ C, O \ C, X)
<1>1. Holds(Execute(d, DropColumns(C), rows, z), Referring(T),
            Restrict(Typed(D, A, O), (D \cup O) \ C), X)
  <2>1. DOMAIN Typed(D, A, O) = D \cup O
    BY DEF Typed
  <2> QED BY <2>1, DropColumnsDoes DEF Schema
<1>2. Restrict(Typed(D, A, O), (D \cup O) \ C) = Typed(D \ C, A \ C, O \ C)
  BY DEF Restrict, Typed
<1> QED BY <1>1, <1>2 DEF Schema

\* alter_column on a schema of five sets.
LEMMA AlterSchema ==
  ASSUME NEW d, NEW T, NEW D, NEW A, NEW O, NEW X, Schema(d, T, D, A, O, X),
         NEW rows, NEW z, NEW C, NEW using, C \subseteq D, C \cap O = {}
  PROVE  /\ Schema(Execute(d, AlterType(C, "aware", using), rows, z), T, D, A \cup C,
                   O, X)
         /\ Schema(Execute(d, AlterType(C, "naive", using), rows, z), T, D, A \ C, O, X)
<1>1. ASSUME NEW type
      PROVE  Holds(Execute(d, AlterType(C, type, using), rows, z),
                   Referring(T), Over(Each(C, type), Typed(D, A, O)), X)
  <2>1. DOMAIN Typed(D, A, O) = D \cup O
    BY DEF Typed
  <2> QED BY <2>1, AlterDoes DEF Schema
<1>2. Over(Each(C, "aware"), Typed(D, A, O)) = Typed(D, A \cup C, O)
  <2>1. D \cup C = D
    OBVIOUS
  <2> QED BY <2>1, AwareAdded
<1>3. Over(Each(C, "naive"), Typed(D, A, O)) = Typed(D, A \ C, O)
  BY MadeNaive
<1>4. Schema(Execute(d, AlterType(C, "aware", using), rows, z), T, D, A \cup C, O, X)
  BY <1>1, <1>2 DEF Schema
<1>5. Schema(Execute(d, AlterType(C, "naive", using), rows, z), T, D, A \ C, O, X)
  BY <1>1, <1>3 DEF Schema
<1> QED BY <1>4, <1>5

\* create_index on a schema of five sets.
LEMMA CreateIndexSchema ==
  ASSUME NEW d, NEW T, NEW D, NEW A, NEW O, NEW X, Schema(d, T, D, A, O, X),
         NEW rows, NEW z, NEW I, \A i \in I : i[1] \in T /\ i \notin X
  PROVE  Schema(Execute(d, CreateIndex(I), rows, z), T, D, A, O, X \cup I)
<1>1. DOMAIN Referring(T) = T
  BY DEF Referring
<1> QED BY <1>1, IndexDoes DEF Schema

\* drop_index on a schema of five sets.
LEMMA DropIndexSchema ==
  ASSUME NEW d, NEW T, NEW D, NEW A, NEW O, NEW X, Schema(d, T, D, A, O, X),
         NEW rows, NEW z, NEW I, I \subseteq X
  PROVE  Schema(Execute(d, DropIndex(I), rows, z), T, D, A, O, X \ I)
BY IndexDoes DEF Schema

\* add_column NOT NULL on a schema of five sets: it fails on rows.
LEMMA AddRequiredSchema ==
  ASSUME NEW d, NEW T, NEW D, NEW A, NEW O, NEW X, Schema(d, T, D, A, O, X),
         NEW rows \in BOOLEAN, NEW z, NEW C,
         \A c \in C : c[1] \in T /\ c \notin D \cup O
  PROVE  \/ Schema(Execute(d, AddRequired("other", C), rows, z), T, D, A, O \cup C, X)
         \/ rows /\ Failed(Execute(d, AddRequired("other", C), rows, z))
<1> DEFINE s == AddRequired("other", C)
<1>1. s.op = "add_column" /\ s.type = "other" /\ s.columns = C /\ s.required
  BY DEF AddRequired
<1> HIDE DEF s
<1>2. DOMAIN d.refs = T /\ DOMAIN d.type = D \cup O
  BY DEF Schema, Holds, Referring, Typed
<1>3. ASSUME ~rows PROVE Schema(Execute(d, s, rows, z), T, D, A, O \cup C, X)
  <2>1. d.ok /\ Possible(d, s, rows)
    BY <1>1, <1>2, <1>3 DEF Possible, Schema, Holds
  <2>2. Effect(d, s, z) = WithColumns(d, "other", C)
    BY <1>1 DEF Effect
  <2>3. Over(Each(C, "other"), Typed(D, A, O)) = Typed(D, A, O \cup C)
    BY OtherAdded
  <2>4. Holds(WithColumns(d, "other", C), Referring(T),
              Over(Each(C, "other"), Typed(D, A, O)), X)
    BY WithColumnsDoes DEF Schema
  <2> QED BY <2>1, <2>2, <2>3, <2>4 DEF Execute, Schema
<1>4. ASSUME rows, ~Failed(Execute(d, s, rows, z))
      PROVE  Schema(Execute(d, s, rows, z), T, D, A, O \cup C, X)
  <2>1. d.ok /\ Possible(d, s, rows)
    BY <1>4, ExecuteFails DEF Schema, Holds
  <2>2. Effect(d, s, z) = WithColumns(d, "other", C)
    BY <1>1 DEF Effect
  <2>3. Over(Each(C, "other"), Typed(D, A, O)) = Typed(D, A, O \cup C)
    BY OtherAdded
  <2>4. Holds(WithColumns(d, "other", C), Referring(T),
              Over(Each(C, "other"), Typed(D, A, O)), X)
    BY WithColumnsDoes DEF Schema
  <2> QED BY <2>1, <2>2, <2>3, <2>4 DEF Execute, Schema
<1> QED BY <1>3, <1>4 DEF s

\* A failed script stays failed.
LEMMA ExecuteStaysFailed ==
  ASSUME NEW d, NEW s, NEW rows, NEW z, Failed(d)
  PROVE  Failed(Execute(d, s, rows, z))
BY ExecuteFails DEF Failed

-----------------------------------------------------------------------------
(* What a script does to the schema.                                        *)

\* The twelve revisions.
LEMMA RevisionIs ==
  /\ \A r \in Revision :
       r \in {"cacd5554ba5a", "d44e91e81013", "8d114ef61fcc", "a8cbb47717b3",
             "864df66fbeb7", "64a8c4b4d071", "5b25f8695307", "7ba4c8acd02e",
             "2cdac93874a4", "6a2d8a454e64", "8ba95b973a4a", "480a265e5923"}
  /\ {"cacd5554ba5a", "d44e91e81013", "8d114ef61fcc", "a8cbb47717b3",
      "864df66fbeb7", "64a8c4b4d071", "5b25f8695307", "7ba4c8acd02e",
      "2cdac93874a4", "6a2d8a454e64", "8ba95b973a4a", "480a265e5923"}
       \subseteq Revision
<1>1. Revision = {Order[i] : i \in 1..12}
  BY OrderIsSound DEF Revision
<1> QED BY <1>1 DEF Order

\* What is below the revisions of a closed set.
LEMMA ClosedIs ==
  ASSUME NEW S \in Closed
  PROVE  /\ S \subseteq Revision
         /\ "d44e91e81013" \in S => "cacd5554ba5a" \in S
         /\ "8d114ef61fcc" \in S => "d44e91e81013" \in S
         /\ "a8cbb47717b3" \in S => "cacd5554ba5a" \in S
         /\ "864df66fbeb7" \in S => "a8cbb47717b3" \in S
         /\ "64a8c4b4d071" \in S => "cacd5554ba5a" \in S
         /\ "5b25f8695307" \in S => MergedHeads \subseteq S
         /\ "7ba4c8acd02e" \in S => "5b25f8695307" \in S
         /\ "2cdac93874a4" \in S => "7ba4c8acd02e" \in S
         /\ "6a2d8a454e64" \in S => "2cdac93874a4" \in S
         /\ "8ba95b973a4a" \in S => "6a2d8a454e64" \in S
         /\ "480a265e5923" \in S => "8ba95b973a4a" \in S
<1>1. /\ Script["d44e91e81013"].parents = {"cacd5554ba5a"}
      /\ Script["8d114ef61fcc"].parents = {"d44e91e81013"}
      /\ Script["a8cbb47717b3"].parents = {"cacd5554ba5a"}
      /\ Script["864df66fbeb7"].parents = {"a8cbb47717b3"}
      /\ Script["64a8c4b4d071"].parents = {"cacd5554ba5a"}
      /\ Script["5b25f8695307"].parents = MergedHeads
      /\ Script["7ba4c8acd02e"].parents = {"5b25f8695307"}
      /\ Script["2cdac93874a4"].parents = {"7ba4c8acd02e"}
      /\ Script["6a2d8a454e64"].parents = {"2cdac93874a4"}
      /\ Script["8ba95b973a4a"].parents = {"6a2d8a454e64"}
      /\ Script["480a265e5923"].parents = {"8ba95b973a4a"}
  BY RevisionIs DEF Script, Revises
<1>2. S \subseteq Revision /\ \A r \in S : Script[r].parents \subseteq S
  BY DEF Closed
<1> QED BY <1>1, <1>2

\* A closed set with a revision has what is below it.
LEMMA BelowIs ==
  ASSUME NEW S \in Closed
  PROVE  /\ S # {} => "cacd5554ba5a" \in S
         /\ "7ba4c8acd02e" \in S =>
              {"d44e91e81013", "8d114ef61fcc", "a8cbb47717b3", "864df66fbeb7",
               "64a8c4b4d071"} \subseteq S
         /\ "2cdac93874a4" \in S => "7ba4c8acd02e" \in S
         /\ "8ba95b973a4a" \in S => {"7ba4c8acd02e", "2cdac93874a4"} \subseteq S
         /\ "480a265e5923" \in S => "8ba95b973a4a" \in S
         /\ "864df66fbeb7" \in S => "a8cbb47717b3" \in S
         /\ "8d114ef61fcc" \in S => "d44e91e81013" \in S
         /\ "8ba95b973a4a" \in S => {"d44e91e81013", "8d114ef61fcc"} \subseteq S
BY ClosedIs, RevisionIs DEF MergedHeads

\* d has the schema of the revisions S.
HasSchema(d, S) ==
  Schema(d, TablesAt(S), DatesAt(S), AwareAt(S), OthersAt(S), IndexAt(S))

\* Scripts of no, one and two statements.
LEMMA RunNone ==
  ASSUME NEW d, NEW rows, NEW z PROVE Run(d, <<>>, rows, z) = d
BY RunSteps, Len(<<>>) = 0

\* A script of one statement.
LEMMA RunOne ==
  ASSUME NEW d, NEW rows, NEW z, NEW list, NEW s, Len(list) = 1, list[1] = s
  PROVE  Run(d, list, rows, z) = Execute(d, s, rows, z)
<1>1. PICK after :
        /\ after[0] = d
        /\ \A n \in 1..Len(list) : after[n] = Execute(after[n-1], list[n], rows, z)
        /\ Run(d, list, rows, z) = after[Len(list)]
  BY RunSteps
<1>2. 1 \in 1..Len(list) /\ 1 - 1 = 0
  OBVIOUS
<1>3. after[1] = Execute(after[1-1], list[1], rows, z)
  BY <1>1, <1>2
<1> QED BY <1>1, <1>2, <1>3

\* A script of two statements.
LEMMA RunTwo ==
  ASSUME NEW d, NEW rows, NEW z, NEW list, Len(list) \in Nat
  PROVE  Len(list) = 2 => Run(d, list, rows, z)
                            = Execute(Execute(d, list[1], rows, z), list[2], rows, z)
<1>1. PICK after :
        /\ after[0] = d
        /\ \A n \in 1..Len(list) : after[n] = Execute(after[n-1], list[n], rows, z)
        /\ Run(d, list, rows, z) = after[Len(list)]
  BY RunSteps
<1>2. SUFFICES ASSUME Len(list) = 2
               PROVE  Run(d, list, rows, z)
                        = Execute(Execute(d, list[1], rows, z), list[2], rows, z)
  OBVIOUS
<1>3. 1 \in 1..Len(list) /\ 2 \in 1..Len(list) /\ 1 - 1 = 0 /\ 2 - 1 = 1
  BY <1>2
<1>4. after[1] = Execute(after[1-1], list[1], rows, z)
  BY <1>1, <1>3
<1>5. after[2] = Execute(after[2-1], list[2], rows, z)
  BY <1>1, <1>3
<1> QED BY <1>1, <1>2, <1>3, <1>4, <1>5

\* A script of five statements.
LEMMA RunFive ==
  ASSUME NEW d, NEW rows, NEW z, NEW list, Len(list) \in Nat
  PROVE  Len(list) = 5 =>
           Run(d, list, rows, z)
             = Execute(Execute(Execute(Execute(Execute(
                 d, list[1], rows, z), list[2], rows, z), list[3], rows, z),
                 list[4], rows, z), list[5], rows, z)
<1>1. PICK after :
        /\ after[0] = d
        /\ \A n \in 1..Len(list) : after[n] = Execute(after[n-1], list[n], rows, z)
        /\ Run(d, list, rows, z) = after[Len(list)]
  BY RunSteps
<1> DEFINE d1 == Execute(d, list[1], rows, z)
           d2 == Execute(d1, list[2], rows, z)
           d3 == Execute(d2, list[3], rows, z)
           d4 == Execute(d3, list[4], rows, z)
           d5 == Execute(d4, list[5], rows, z)
<1> SUFFICES ASSUME Len(list) = 5 PROVE Run(d, list, rows, z) = d5
  OBVIOUS
<1>2. after[1] = Execute(after[0], list[1], rows, z)
  BY <1>1, 1 - 1 = 0
<1>3. after[2] = Execute(after[1], list[2], rows, z)
  BY <1>1, 2 - 1 = 1
<1>4. after[3] = Execute(after[2], list[3], rows, z)
  BY <1>1, 3 - 1 = 2
<1>5. after[4] = Execute(after[3], list[4], rows, z)
  BY <1>1, 4 - 1 = 3
<1>6. after[5] = Execute(after[4], list[5], rows, z)
  BY <1>1, 5 - 1 = 4
<1>7. after[1] = d1 /\ after[2] = d2
  BY <1>1, <1>2, <1>3
<1>8. after[3] = d3 /\ after[4] = d4
  BY <1>4, <1>5, <1>7
<1> QED BY <1>1, <1>6, <1>8

\* Every table is one of cacd5554ba5a or of one of the two scripts after it,
\* and refers to tables of cacd5554ba5a.
LEMMA TablesAre ==
  /\ DOMAIN Tables
       = DOMAIN Founded \cup DOMAIN RefreshTokenTable \cup DOMAIN VerificationTable
  /\ \A t \in DOMAIN Founded : Tables[t] = Founded[t]
  /\ \A t \in DOMAIN RefreshTokenTable : Tables[t] = RefreshTokenTable[t]
  /\ \A t \in DOMAIN VerificationTable : Tables[t] = VerificationTable[t]
  /\ \A t \in DOMAIN RefreshTokenTable : RefreshTokenTable[t].refs = {"users"}
  /\ \A t \in DOMAIN VerificationTable : VerificationTable[t].refs = {"users"}
<1>1. /\ \A t \in DOMAIN RefreshTokenTable : RefreshTokenTable[t].refs = {"users"}
      /\ \A t \in DOMAIN VerificationTable : VerificationTable[t].refs = {"users"}
  BY DEF RefreshTokenTable, VerificationTable, Table
<1> QED BY <1>1, NewTablesApart DEF Tables, Over

\* The tables of cacd5554ba5a refer to each other only.
LEMMA RefsAreFounded == \A t \in DOMAIN Founded : Founded[t].refs \subseteq DOMAIN Founded
<1>1. {"users", "workspaces", "meetings", "candidates", "integrations",
       "meeting_summaries", "ask_mind_sessions", "integration_channels", "interviews",
       "meeting_participants", "transcripts", "interview_summaries",
       "interview_transcripts", "interview_scorecards", "scorecard_categories",
       "scorecard_scores"} \subseteq DOMAIN Founded
  BY FoundedIs DEF Roots, UserTables, WorkspaceTables, MeetingTables, SummaryTables,
     InterviewTables
<1> QED BY <1>1, FoundedIs, RefsFound

\* Every index belongs to a table, and is created by one statement.
LEMMA IndexesPlaced ==
  /\ \A i \in InterviewIndexes \cup SegmentIndex \cup TurnIndex :
       i[1] \in DOMAIN Founded \ {"active_sessions"}
  /\ \A i \in TokenHashIndex \cup TokenHashUnique : i[1] = "active_sessions"
  /\ \A i \in VerificationIndex : i[1] = "email_verification_tokens"
  /\ TokenHashIndex \cap TokenHashUnique = {}
<1>1. {"interviews", "transcript_segments", "interview_transcript_turns"}
        \subseteq DOMAIN Founded
  BY FoundedIs DEF MeetingTables, SummaryTables, InterviewTables
<1>2. \A i \in InterviewIndexes \cup SegmentIndex \cup TurnIndex :
        i[1] \in {"interviews", "transcript_segments", "interview_transcript_turns"}
  BY DEF InterviewIndexes, SegmentIndex, TurnIndex
<1>3. /\ \A i \in TokenHashIndex \cup TokenHashUnique : i[1] = "active_sessions"
      /\ \A i \in VerificationIndex : i[1] = "email_verification_tokens"
      /\ TokenHashIndex \cap TokenHashUnique = {}
  BY DEF TokenHashIndex, TokenHashUnique, VerificationIndex
<1> QED BY <1>1, <1>2, <1>3

\* d44e91e81013
LEMMA Up_d44e_Does ==
  ASSUME NEW d, NEW rows, NEW z, NEW S \in Closed, HasSchema(d, S),
         "d44e91e81013" \notin S, "cacd5554ba5a" \in S
  PROVE  HasSchema(Run(d, Up_d44e, rows, z), S \cup {"d44e91e81013"})
<1> DEFINE r == "d44e91e81013"
           d1 == Execute(d, CreateTables(RefreshTokenTable), rows, z)
           d2 == Execute(d1, AddColumns("naive", PreferenceCreated), rows, z)
           T == TablesAt(S) \cup DOMAIN RefreshTokenTable
           D == DatesAt(S) \cup RefreshTokenTimes
<1>1. Run(d, Up_d44e, rows, z) = d2
  <2>1. /\ Len(Up_d44e) = 2 /\ Up_d44e[1] = CreateTables(RefreshTokenTable)
        /\ Up_d44e[2] = AddColumns("naive", PreferenceCreated)
    BY DEF Up_d44e
  <2> QED BY <2>1, RunTwo
<1>2. {"8d114ef61fcc", "7ba4c8acd02e", "2cdac93874a4", "8ba95b973a4a", "480a265e5923"}
        \cap S = {}
  BY BelowIs
<1>3. Schema(d1, T, D, AwareAt(S), OthersAt(S), IndexAt(S))
  <2>1. DOMAIN RefreshTokenTable \cap TablesAt(S) = {}
    BY NewTablesApart DEF TablesAt, With
  <2>2. \A t \in DOMAIN RefreshTokenTable :
          /\ RefreshTokenTable[t].refs \subseteq TablesAt(S)
          /\ RefreshTokenTable[t].refs = Tables[t].refs
    BY TablesAre, NewTablesApart DEF TablesAt, With
  <2>3. TimesOf(RefreshTokenTable) \cap (AwareAt(S) \cup OthersAt(S)) = {}
    BY <1>2, ColumnsPlaced, NewTablesApart DEF AwareAt, OthersAt, With, RefreshTokenTimes
  <2> QED BY <2>1, <2>2, <2>3, CreateSchema DEF HasSchema, RefreshTokenTimes
<1>4. Schema(d2, T, D \cup PreferenceCreated, AwareAt(S), OthersAt(S), IndexAt(S))
  <2>1. \A c \in PreferenceCreated : c[1] \in T /\ c \notin D \cup OthersAt(S)
    BY <1>2, ColumnsPlaced, NewTablesApart, TimesApart
       DEF TablesAt, DatesAt, OthersAt, With
  <2>2. PreferenceCreated \cap AwareAt(S) = {}
    BY <1>2, ColumnsPlaced, NewTablesApart DEF AwareAt, With
  <2> QED BY <1>3, <2>1, <2>2, AddSchema
<1>5. /\ T = TablesAt(S \cup {r}) /\ D \cup PreferenceCreated = DatesAt(S \cup {r})
      /\ AwareAt(S) = AwareAt(S \cup {r}) /\ OthersAt(S) = OthersAt(S \cup {r})
      /\ IndexAt(S) = IndexAt(S \cup {r})
  BY DEF TablesAt, DatesAt, AwareAt, OthersAt, IndexAt, With
<1> QED BY <1>1, <1>4, <1>5 DEF HasSchema

\* And back.
LEMMA Down_d44e_Does ==
  ASSUME NEW d, NEW rows, NEW z, NEW S \in Closed, HasSchema(d, S),
         "d44e91e81013" \in S, S \ {"d44e91e81013"} \in Closed
  PROVE  HasSchema(Run(d, Down_d44e, rows, z), S \ {"d44e91e81013"})
<1> DEFINE r == "d44e91e81013"
           d1 == Execute(d, DropColumns(PreferenceCreated), rows, z)
           d2 == Execute(d1, DropTables({"refresh_tokens"}), rows, z)
           D == DatesAt(S) \ PreferenceCreated
           A == AwareAt(S) \ PreferenceCreated
           O == OthersAt(S) \ PreferenceCreated
           names == {"refresh_tokens"}
<1>1. Run(d, Down_d44e, rows, z) = d2
  <2>1. /\ Len(Down_d44e) = 2 /\ Down_d44e[1] = DropColumns(PreferenceCreated)
        /\ Down_d44e[2] = DropTables({"refresh_tokens"})
    BY DEF Down_d44e
  <2> QED BY <2>1, RunTwo
<1>2. /\ {"8d114ef61fcc", "7ba4c8acd02e", "2cdac93874a4", "8ba95b973a4a", "480a265e5923"}
           \cap S = {}
      /\ "cacd5554ba5a" \in S
  BY BelowIs
<1>3. Schema(d1, TablesAt(S), D, A, O, IndexAt(S))
  <2>1. PreferenceCreated \subseteq DatesAt(S)
    BY DEF DatesAt, With
  <2> QED BY <2>1, DropColumnsSchema DEF HasSchema
<1>4. Schema(d2, TablesAt(S) \ names, Off(D, names), Off(A, names), Off(O, names),
             Off(IndexAt(S), names))
  <2>1. names \subseteq TablesAt(S)
    BY NewTablesApart DEF TablesAt, With
  <2>2. \A t \in TablesAt(S) : Tables[t].refs \cap names = {}
    BY TablesAre, NewTablesApart, RefsAreFounded DEF TablesAt, With
  <2> QED BY <1>3, <2>1, <2>2, DropSchema
<1>5. TablesAt(S) \ names = TablesAt(S \ {r}) /\ Off(D, names) = DatesAt(S \ {r})
  <2>1. TablesAt(S) \ names = TablesAt(S \ {r})
    BY <1>2, NewTablesApart DEF TablesAt, With
  <2>2. DatesAt(S \ {r}) = TimesOf(Founded)
          \cup With("64a8c4b4d071", S, VerificationTimes)
    BY <1>2 DEF DatesAt, With
  <2>3. D = (TimesOf(Founded) \cup RefreshTokenTimes
               \cup With("64a8c4b4d071", S, VerificationTimes)) \ PreferenceCreated
    BY <1>2 DEF DatesAt, With
  <2>4. Off(D, names) = TimesOf(Founded) \cup With("64a8c4b4d071", S, VerificationTimes)
    BY <2>3, NewTablesApart, ColumnsPlaced, TimesApart DEF With, Off
  <2> QED BY <2>1, <2>2, <2>4
<1>6. Off(A, names) = AwareAt(S \ {r}) /\ Off(O, names) = OthersAt(S \ {r})
  BY <1>2, NewTablesApart, ColumnsPlaced, TimesApart DEF AwareAt, OthersAt, With, Off
<1>7. Off(IndexAt(S), names) = IndexAt(S \ {r})
  BY IndexesPlaced, NewTablesApart DEF IndexAt, With, Off
<1> QED BY <1>1, <1>4, <1>5, <1>6, <1>7 DEF HasSchema

\* The merge 5b25f8695307 and 6a2d8a454e64 change nothing.
LEMMA EmptyScriptDoes ==
  ASSUME NEW d, NEW rows, NEW z, NEW S, HasSchema(d, S),
         NEW r \in {"5b25f8695307", "6a2d8a454e64"}
  PROVE  /\ HasSchema(Run(d, <<>>, rows, z), S \cup {r})
         /\ HasSchema(Run(d, <<>>, rows, z), S \ {r})
<1>1. ASSUME NEW U, \A q : q # r => (q \in U <=> q \in S)
      PROVE  /\ TablesAt(U) = TablesAt(S) /\ DatesAt(U) = DatesAt(S)
             /\ AwareAt(U) = AwareAt(S) /\ OthersAt(U) = OthersAt(S)
             /\ IndexAt(U) = IndexAt(S)
  BY <1>1 DEF TablesAt, DatesAt, AwareAt, OthersAt, IndexAt, With
<1>2. /\ \A q : q # r => (q \in S \cup {r} <=> q \in S)
      /\ \A q : q # r => (q \in S \ {r} <=> q \in S)
  OBVIOUS
<1>3. Run(d, <<>>, rows, z) = d
  BY RunNone
<1> QED BY <1>1, <1>2, <1>3 DEF HasSchema

\* 8d114ef61fcc
LEMMA Up_8d11_Does ==
  ASSUME NEW d, NEW rows, NEW z, NEW S \in Closed, HasSchema(d, S),
         "8d114ef61fcc" \notin S, S \cup {"8d114ef61fcc"} \in Closed
  PROVE  HasSchema(Run(d, Up_8d11, rows, z), S \cup {"8d114ef61fcc"})
<1> DEFINE r == "8d114ef61fcc"
           d1 == Execute(d, AlterType(RefreshTokenTimes, "aware", "server"), rows, z)
<1>1. Run(d, Up_8d11, rows, z) = d1
  <2>1. Len(Up_8d11) = 1 /\ Up_8d11[1] = AlterType(RefreshTokenTimes, "aware", "server")
    BY DEF Up_8d11
  <2> QED BY <2>1, RunOne
<1>2. "d44e91e81013" \in S
  BY BelowIs, ClosedIs
<1>3. RefreshTokenTimes \subseteq DatesAt(S) /\ RefreshTokenTimes \cap OthersAt(S) = {}
  BY <1>2, NewTablesApart, ColumnsPlaced DEF DatesAt, OthersAt, With
<1>4. Schema(d1, TablesAt(S), DatesAt(S), AwareAt(S) \cup RefreshTokenTimes, OthersAt(S),
             IndexAt(S))
  BY <1>3, AlterSchema DEF HasSchema
<1>5. /\ TablesAt(S) = TablesAt(S \cup {r}) /\ DatesAt(S) = DatesAt(S \cup {r})
      /\ AwareAt(S) \cup RefreshTokenTimes = AwareAt(S \cup {r})
      /\ OthersAt(S) = OthersAt(S \cup {r}) /\ IndexAt(S) = IndexAt(S \cup {r})
  BY DEF TablesAt, DatesAt, AwareAt, OthersAt, IndexAt, With
<1> QED BY <1>1, <1>4, <1>5 DEF HasSchema

\* And back.
LEMMA Down_8d11_Does ==
  ASSUME NEW d, NEW rows, NEW z, NEW S \in Closed, HasSchema(d, S),
         "8d114ef61fcc" \in S, S \ {"8d114ef61fcc"} \in Closed
  PROVE  HasSchema(Run(d, Down_8d11, rows, z), S \ {"8d114ef61fcc"})
<1> DEFINE r == "8d114ef61fcc"
           d1 == Execute(d, AlterType(RefreshTokenTimes, "naive", "server"), rows, z)
<1>1. Run(d, Down_8d11, rows, z) = d1
  <2>1. /\ Len(Down_8d11) = 1
        /\ Down_8d11[1] = AlterType(RefreshTokenTimes, "naive", "server")
    BY DEF Down_8d11
  <2> QED BY <2>1, RunOne
<1>2. "d44e91e81013" \in S /\ "8ba95b973a4a" \notin S
  BY BelowIs
<1>3. RefreshTokenTimes \subseteq DatesAt(S) /\ RefreshTokenTimes \cap OthersAt(S) = {}
  BY <1>2, NewTablesApart, ColumnsPlaced DEF DatesAt, OthersAt, With
<1>4. Schema(d1, TablesAt(S), DatesAt(S), AwareAt(S) \ RefreshTokenTimes, OthersAt(S),
             IndexAt(S))
  BY <1>3, AlterSchema DEF HasSchema
<1>5. /\ TablesAt(S) = TablesAt(S \ {r}) /\ DatesAt(S) = DatesAt(S \ {r})
      /\ OthersAt(S) = OthersAt(S \ {r}) /\ IndexAt(S) = IndexAt(S \ {r})
  BY DEF TablesAt, DatesAt, OthersAt, IndexAt, With
<1>6. AwareAt(S) \ RefreshTokenTimes = AwareAt(S \ {r})
  BY <1>2, NewTablesApart, ColumnsPlaced DEF AwareAt, With
<1> QED BY <1>1, <1>4, <1>5, <1>6 DEF HasSchema

\* 2cdac93874a4
LEMMA Up_2cda_Does ==
  ASSUME NEW d, NEW rows, NEW z, NEW S \in Closed, HasSchema(d, S),
         "2cdac93874a4" \notin S, S \cup {"2cdac93874a4"} \in Closed
  PROVE  HasSchema(Run(d, Up_2cda, rows, z), S \cup {"2cdac93874a4"})
<1> DEFINE r == "2cdac93874a4"
           d1 == Execute(d, AlterType(VerificationTimes, "aware", "server"), rows, z)
<1>1. Run(d, Up_2cda, rows, z) = d1
  <2>1. Len(Up_2cda) = 1 /\ Up_2cda[1] = AlterType(VerificationTimes, "aware", "server")
    BY DEF Up_2cda
  <2> QED BY <2>1, RunOne
<1>2. "64a8c4b4d071" \in S
  BY BelowIs, ClosedIs
<1>3. VerificationTimes \subseteq DatesAt(S) /\ VerificationTimes \cap OthersAt(S) = {}
  BY <1>2, NewTablesApart, ColumnsPlaced DEF DatesAt, OthersAt, With
<1>4. Schema(d1, TablesAt(S), DatesAt(S), AwareAt(S) \cup VerificationTimes, OthersAt(S),
             IndexAt(S))
  BY <1>3, AlterSchema DEF HasSchema
<1>5. /\ TablesAt(S) = TablesAt(S \cup {r}) /\ DatesAt(S) = DatesAt(S \cup {r})
      /\ AwareAt(S) \cup VerificationTimes = AwareAt(S \cup {r})
      /\ OthersAt(S) = OthersAt(S \cup {r}) /\ IndexAt(S) = IndexAt(S \cup {r})
  BY DEF TablesAt, DatesAt, AwareAt, OthersAt, IndexAt, With
<1> QED BY <1>1, <1>4, <1>5 DEF HasSchema

\* And back.
LEMMA Down_2cda_Does ==
  ASSUME NEW d, NEW rows, NEW z, NEW S \in Closed, HasSchema(d, S),
         "2cdac93874a4" \in S, S \ {"2cdac93874a4"} \in Closed
  PROVE  HasSchema(Run(d, Down_2cda, rows, z), S \ {"2cdac93874a4"})
<1> DEFINE r == "2cdac93874a4"
           d1 == Execute(d, AlterType(VerificationTimes, "naive", "server"), rows, z)
<1>1. Run(d, Down_2cda, rows, z) = d1
  <2>1. /\ Len(Down_2cda) = 1
        /\ Down_2cda[1] = AlterType(VerificationTimes, "naive", "server")
    BY DEF Down_2cda
  <2> QED BY <2>1, RunOne
<1>2. "64a8c4b4d071" \in S /\ "8ba95b973a4a" \notin S
  BY BelowIs
<1>3. VerificationTimes \subseteq DatesAt(S) /\ VerificationTimes \cap OthersAt(S) = {}
  BY <1>2, NewTablesApart, ColumnsPlaced DEF DatesAt, OthersAt, With
<1>4. Schema(d1, TablesAt(S), DatesAt(S), AwareAt(S) \ VerificationTimes, OthersAt(S),
             IndexAt(S))
  BY <1>3, AlterSchema DEF HasSchema
<1>5. /\ TablesAt(S) = TablesAt(S \ {r}) /\ DatesAt(S) = DatesAt(S \ {r})
      /\ OthersAt(S) = OthersAt(S \ {r}) /\ IndexAt(S) = IndexAt(S \ {r})
  BY DEF TablesAt, DatesAt, OthersAt, IndexAt, With
<1>6. AwareAt(S) \ VerificationTimes = AwareAt(S \ {r})
  BY <1>2, NewTablesApart, ColumnsPlaced DEF AwareAt, With
<1> QED BY <1>1, <1>4, <1>5, <1>6 DEF HasSchema

\* a8cbb47717b3: the only script that fails on the way up, on sessions that exist.
LEMMA Up_a8cb_Does ==
  ASSUME NEW d, NEW rows \in BOOLEAN, NEW z, NEW S \in Closed, HasSchema(d, S),
         "a8cbb47717b3" \notin S, S \cup {"a8cbb47717b3"} \in Closed
  PROVE  \/ HasSchema(Run(d, Up_a8cb, rows, z), S \cup {"a8cbb47717b3"})
         \/ rows /\ Failed(Run(d, Up_a8cb, rows, z))
<1> DEFINE r == "a8cbb47717b3"
           d1 == Execute(d, AddRequired("other", TokenHash), rows, z)
           d2 == Execute(d1, CreateIndex(TokenHashIndex), rows, z)
           O == OthersAt(S) \cup TokenHash
           X == IndexAt(S) \cup TokenHashIndex
<1>1. Run(d, Up_a8cb, rows, z) = d2
  <2>1. /\ Len(Up_a8cb) = 2 /\ Up_a8cb[1] = AddRequired("other", TokenHash)
        /\ Up_a8cb[2] = CreateIndex(TokenHashIndex)
    BY DEF Up_a8cb
  <2> QED BY <2>1, RunTwo
<1>2. /\ "cacd5554ba5a" \in S
      /\ {"864df66fbeb7", "7ba4c8acd02e", "480a265e5923"} \cap S = {}
  BY BelowIs, ClosedIs
<1>3. \A c \in TokenHash : c[1] \in TablesAt(S) /\ c \notin DatesAt(S) \cup OthersAt(S)
  BY <1>2, NewTablesApart, ColumnsPlaced DEF TablesAt, DatesAt, OthersAt, With
<1>4. \/ Schema(d1, TablesAt(S), DatesAt(S), AwareAt(S), O, IndexAt(S))
      \/ rows /\ Failed(d1)
  BY <1>3, AddRequiredSchema DEF HasSchema
<1>5. \A i \in TokenHashIndex : i[1] \in TablesAt(S) /\ i \notin IndexAt(S)
  BY <1>2, IndexesPlaced, NewTablesApart DEF TablesAt, IndexAt, With
<1>6. \/ Schema(d2, TablesAt(S), DatesAt(S), AwareAt(S), O, X)
      \/ rows /\ Failed(d2)
  BY <1>4, <1>5, CreateIndexSchema, ExecuteStaysFailed
<1>7. /\ TablesAt(S) = TablesAt(S \cup {r}) /\ DatesAt(S) = DatesAt(S \cup {r})
      /\ AwareAt(S) = AwareAt(S \cup {r}) /\ O = OthersAt(S \cup {r})
      /\ X = IndexAt(S \cup {r})
  BY <1>2 DEF TablesAt, DatesAt, AwareAt, OthersAt, IndexAt, With
<1> QED BY <1>1, <1>6, <1>7 DEF HasSchema

\* And back.
LEMMA Down_a8cb_Does ==
  ASSUME NEW d, NEW rows, NEW z, NEW S \in Closed, HasSchema(d, S),
         "a8cbb47717b3" \in S, S \ {"a8cbb47717b3"} \in Closed
  PROVE  HasSchema(Run(d, Down_a8cb, rows, z), S \ {"a8cbb47717b3"})
<1> DEFINE r == "a8cbb47717b3"
           d1 == Execute(d, DropIndex(TokenHashIndex), rows, z)
           d2 == Execute(d1, DropColumns(TokenHash), rows, z)
           X == IndexAt(S) \ TokenHashIndex
<1>1. Run(d, Down_a8cb, rows, z) = d2
  <2>1. /\ Len(Down_a8cb) = 2 /\ Down_a8cb[1] = DropIndex(TokenHashIndex)
        /\ Down_a8cb[2] = DropColumns(TokenHash)
    BY DEF Down_a8cb
  <2> QED BY <2>1, RunTwo
<1>2. {"864df66fbeb7", "7ba4c8acd02e", "8ba95b973a4a", "480a265e5923"} \cap S = {}
  BY BelowIs
<1>3. Schema(d1, TablesAt(S), DatesAt(S), AwareAt(S), OthersAt(S), X)
  <2>1. TokenHashIndex \subseteq IndexAt(S)
    BY <1>2 DEF IndexAt, With
  <2> QED BY <2>1, DropIndexSchema DEF HasSchema
<1>4. Schema(d2, TablesAt(S), DatesAt(S) \ TokenHash, AwareAt(S) \ TokenHash,
             OthersAt(S) \ TokenHash, X)
  <2>1. TokenHash \subseteq DatesAt(S) \cup OthersAt(S)
    BY DEF OthersAt, With
  <2> QED BY <1>3, <2>1, DropColumnsSchema
<1>5. /\ TablesAt(S) = TablesAt(S \ {r}) /\ OthersAt(S) \ TokenHash = OthersAt(S \ {r})
  BY <1>2, ColumnsPlaced DEF TablesAt, OthersAt, With
<1>6. DatesAt(S) \ TokenHash = DatesAt(S \ {r})
  BY <1>2, NewTablesApart, ColumnsPlaced DEF DatesAt, With
<1>7. AwareAt(S) \ TokenHash = AwareAt(S \ {r})
  BY <1>2, NewTablesApart, ColumnsPlaced DEF AwareAt, With
<1>8. X = IndexAt(S \ {r})
  BY <1>2, NewTablesApart, IndexesPlaced DEF IndexAt, With
<1> QED BY <1>1, <1>4, <1>5, <1>6, <1>7, <1>8 DEF HasSchema

\* 864df66fbeb7: its way down fails, whatever the database holds.
LEMMA Up_864d_Does ==
  ASSUME NEW d, NEW rows, NEW z, NEW S \in Closed, HasSchema(d, S),
         "864df66fbeb7" \notin S, S \cup {"864df66fbeb7"} \in Closed
  PROVE  HasSchema(Run(d, Up_864d, rows, z), S \cup {"864df66fbeb7"})
<1> DEFINE r == "864df66fbeb7"
           d1 == Execute(d, DropIndex(TokenHashIndex), rows, z)
           d2 == Execute(d1, CreateIndex(TokenHashUnique), rows, z)
           X == IndexAt(S) \ TokenHashIndex
<1>1. Run(d, Up_864d, rows, z) = d2
  <2>1. /\ Len(Up_864d) = 2 /\ Up_864d[1] = DropIndex(TokenHashIndex)
        /\ Up_864d[2] = CreateIndex(TokenHashUnique)
    BY DEF Up_864d
  <2> QED BY <2>1, RunTwo
<1>2. "a8cbb47717b3" \in S /\ "cacd5554ba5a" \in S
  BY BelowIs, ClosedIs
<1>3. Schema(d1, TablesAt(S), DatesAt(S), AwareAt(S), OthersAt(S), X)
  <2>1. TokenHashIndex \subseteq IndexAt(S)
    BY <1>2 DEF IndexAt, With
  <2> QED BY <2>1, DropIndexSchema DEF HasSchema
<1>4. Schema(d2, TablesAt(S), DatesAt(S), AwareAt(S), OthersAt(S), X \cup TokenHashUnique)
  <2>1. \A i \in TokenHashUnique : i[1] \in TablesAt(S) /\ i \notin X
    BY <1>2, IndexesPlaced, NewTablesApart DEF TablesAt, IndexAt, With
  <2> QED BY <1>3, <2>1, CreateIndexSchema
<1>5. /\ TablesAt(S) = TablesAt(S \cup {r}) /\ DatesAt(S) = DatesAt(S \cup {r})
      /\ AwareAt(S) = AwareAt(S \cup {r}) /\ OthersAt(S) = OthersAt(S \cup {r})
  BY DEF TablesAt, DatesAt, AwareAt, OthersAt, With
<1>6. X \cup TokenHashUnique = IndexAt(S \cup {r})
  BY <1>2, NewTablesApart, IndexesPlaced DEF IndexAt, With
<1> QED BY <1>1, <1>4, <1>5, <1>6 DEF HasSchema

\* There is no way back: the constraint has no name.
LEMMA Down_864d_Fails ==
  ASSUME NEW d, NEW rows, NEW z, NEW S, HasSchema(d, S)
  PROVE  Failed(Run(d, Down_864d, rows, z))
<1> DEFINE d1 == Execute(d, DropUnnamed, rows, z)
<1>1. Run(d, Down_864d, rows, z) = Execute(d1, CreateIndex(TokenHashIndex), rows, z)
  <2>1. /\ Len(Down_864d) = 2 /\ Down_864d[1] = DropUnnamed
        /\ Down_864d[2] = CreateIndex(TokenHashIndex)
    BY DEF Down_864d
  <2> QED BY <2>1, RunTwo
<1>2. ~Possible(d, DropUnnamed, rows)
  BY DEF Possible, DropUnnamed
<1>3. Failed(d1)
  BY <1>2, ExecuteFails DEF HasSchema, Schema, Holds
<1> QED BY <1>1, <1>3, ExecuteStaysFailed

\* 64a8c4b4d071
LEMMA Up_64a8_Does ==
  ASSUME NEW d, NEW rows, NEW z, NEW S \in Closed, HasSchema(d, S),
         "64a8c4b4d071" \notin S, S \cup {"64a8c4b4d071"} \in Closed
  PROVE  HasSchema(Run(d, Up_64a8, rows, z), S \cup {"64a8c4b4d071"})
<1> DEFINE r == "64a8c4b4d071"
           d1 == Execute(d, CreateTables(VerificationTable), rows, z)
           d2 == Execute(d1, CreateIndex(VerificationIndex), rows, z)
           T == TablesAt(S) \cup DOMAIN VerificationTable
           D == DatesAt(S) \cup VerificationTimes
<1>1. Run(d, Up_64a8, rows, z) = d2
  <2>1. /\ Len(Up_64a8) = 2 /\ Up_64a8[1] = CreateTables(VerificationTable)
        /\ Up_64a8[2] = CreateIndex(VerificationIndex)
    BY DEF Up_64a8
  <2> QED BY <2>1, RunTwo
<1>2. /\ "cacd5554ba5a" \in S
      /\ {"7ba4c8acd02e", "2cdac93874a4", "8ba95b973a4a", "480a265e5923"} \cap S = {}
  BY BelowIs, ClosedIs
<1>3. Schema(d1, T, D, AwareAt(S), OthersAt(S), IndexAt(S))
  <2>1. DOMAIN VerificationTable \cap TablesAt(S) = {}
    BY NewTablesApart DEF TablesAt, With
  <2>2. \A t \in DOMAIN VerificationTable :
          /\ VerificationTable[t].refs \subseteq TablesAt(S)
          /\ VerificationTable[t].refs = Tables[t].refs
    BY <1>2, TablesAre, NewTablesApart DEF TablesAt, With
  <2>3. TimesOf(VerificationTable) \cap (AwareAt(S) \cup OthersAt(S)) = {}
    BY <1>2, ColumnsPlaced, NewTablesApart DEF AwareAt, OthersAt, With, VerificationTimes
  <2> QED BY <2>1, <2>2, <2>3, CreateSchema DEF HasSchema, VerificationTimes
<1>4. Schema(d2, T, D, AwareAt(S), OthersAt(S), IndexAt(S) \cup VerificationIndex)
  <2>1. \A i \in VerificationIndex : i[1] \in T /\ i \notin IndexAt(S)
    BY <1>2, IndexesPlaced, NewTablesApart DEF IndexAt, With
  <2> QED BY <1>3, <2>1, CreateIndexSchema
<1>5. /\ T = TablesAt(S \cup {r}) /\ D = DatesAt(S \cup {r})
      /\ AwareAt(S) = AwareAt(S \cup {r}) /\ OthersAt(S) = OthersAt(S \cup {r})
      /\ IndexAt(S) \cup VerificationIndex = IndexAt(S \cup {r})
  BY DEF TablesAt, DatesAt, AwareAt, OthersAt, IndexAt, With
<1> QED BY <1>1, <1>4, <1>5 DEF HasSchema

\* And back.
LEMMA Down_64a8_Does ==
  ASSUME NEW d, NEW rows, NEW z, NEW S \in Closed, HasSchema(d, S),
         "64a8c4b4d071" \in S, S \ {"64a8c4b4d071"} \in Closed
  PROVE  HasSchema(Run(d, Down_64a8, rows, z), S \ {"64a8c4b4d071"})
<1> DEFINE r == "64a8c4b4d071"
           names == {"email_verification_tokens"}
           d1 == Execute(d, DropIndex(VerificationIndex), rows, z)
           d2 == Execute(d1, DropTables(names), rows, z)
           X == IndexAt(S) \ VerificationIndex
<1>1. Run(d, Down_64a8, rows, z) = d2
  <2>1. /\ Len(Down_64a8) = 2 /\ Down_64a8[1] = DropIndex(VerificationIndex)
        /\ Down_64a8[2] = DropTables(names)
    BY DEF Down_64a8
  <2> QED BY <2>1, RunTwo
<1>2. /\ "cacd5554ba5a" \in S
      /\ {"7ba4c8acd02e", "2cdac93874a4", "8ba95b973a4a", "480a265e5923"} \cap S = {}
  BY BelowIs
<1>3. Schema(d1, TablesAt(S), DatesAt(S), AwareAt(S), OthersAt(S), X)
  <2>1. VerificationIndex \subseteq IndexAt(S)
    BY DEF IndexAt, With
  <2> QED BY <2>1, DropIndexSchema DEF HasSchema
<1>4. Schema(d2, TablesAt(S) \ names, Off(DatesAt(S), names), Off(AwareAt(S), names),
             Off(OthersAt(S), names), Off(X, names))
  <2>1. names \subseteq TablesAt(S)
    BY NewTablesApart DEF TablesAt, With
  <2>2. \A t \in TablesAt(S) : Tables[t].refs \cap names = {}
    BY TablesAre, NewTablesApart, RefsAreFounded DEF TablesAt, With
  <2> QED BY <1>3, <2>1, <2>2, DropSchema
<1>5. TablesAt(S) \ names = TablesAt(S \ {r})
  BY <1>2, NewTablesApart DEF TablesAt, With
<1>6. Off(DatesAt(S), names) = DatesAt(S \ {r})
  BY <1>2, NewTablesApart, ColumnsPlaced DEF DatesAt, With, Off
<1>7. /\ Off(AwareAt(S), names) = AwareAt(S \ {r})
      /\ Off(OthersAt(S), names) = OthersAt(S \ {r})
  BY <1>2, NewTablesApart, ColumnsPlaced DEF AwareAt, OthersAt, With, Off
<1>8. Off(X, names) = IndexAt(S \ {r})
  BY <1>2, IndexesPlaced, NewTablesApart DEF IndexAt, With, Off
<1> QED BY <1>1, <1>4, <1>5, <1>6, <1>7, <1>8 DEF HasSchema

\* 7ba4c8acd02e: its way down creates an index that is there.
LEMMA Up_7ba4_Does ==
  ASSUME NEW d, NEW rows, NEW z, NEW S \in Closed, HasSchema(d, S),
         "7ba4c8acd02e" \notin S, S \cup {"7ba4c8acd02e"} \in Closed
  PROVE  HasSchema(Run(d, Up_7ba4, rows, z), S \cup {"7ba4c8acd02e"})
<1> DEFINE r == "7ba4c8acd02e"
           d1 == Execute(d, AddColumns("naive", SyncTimes), rows, z)
           d2 == Execute(d1, AddColumns("other", IsVerified), rows, z)
           D == DatesAt(S) \cup SyncTimes
           O == OthersAt(S) \cup IsVerified
<1>1. Run(d, Up_7ba4, rows, z) = d2
  <2>1. /\ Len(Up_7ba4) = 2 /\ Up_7ba4[1] = AddColumns("naive", SyncTimes)
        /\ Up_7ba4[2] = AddColumns("other", IsVerified)
    BY DEF Up_7ba4
  <2> QED BY <2>1, RunTwo
<1>2. /\ "cacd5554ba5a" \in S
      /\ {"2cdac93874a4", "8ba95b973a4a", "480a265e5923"} \cap S = {}
  BY BelowIs, ClosedIs
<1>3. Schema(d1, TablesAt(S), D, AwareAt(S), OthersAt(S), IndexAt(S))
  <2>1. \A c \in SyncTimes : c[1] \in TablesAt(S) /\ c \notin DatesAt(S) \cup OthersAt(S)
    BY <1>2, ColumnsPlaced, NewTablesApart, TimesApart DEF TablesAt, DatesAt, OthersAt,
       With
  <2>2. SyncTimes \cap AwareAt(S) = {}
    BY <1>2, ColumnsPlaced, NewTablesApart DEF AwareAt, With
  <2> QED BY <2>1, <2>2, AddSchema DEF HasSchema
<1>4. Schema(d2, TablesAt(S), D, AwareAt(S), O, IndexAt(S))
  <2>1. \A c \in IsVerified : c[1] \in TablesAt(S) /\ c \notin D \cup OthersAt(S)
    BY <1>2, ColumnsPlaced, NewTablesApart DEF TablesAt, DatesAt, OthersAt, With
  <2> QED BY <1>3, <2>1, AddSchema
<1>5. /\ TablesAt(S) = TablesAt(S \cup {r}) /\ D = DatesAt(S \cup {r})
      /\ AwareAt(S) = AwareAt(S \cup {r}) /\ O = OthersAt(S \cup {r})
      /\ IndexAt(S) = IndexAt(S \cup {r})
  BY DEF TablesAt, DatesAt, AwareAt, OthersAt, IndexAt, With
<1> QED BY <1>1, <1>4, <1>5 DEF HasSchema

\* There is no way back: the index it creates exists.
LEMMA Down_7ba4_Fails ==
  ASSUME NEW d, NEW rows, NEW z, NEW S \in Closed, HasSchema(d, S),
         "7ba4c8acd02e" \in S
  PROVE  Failed(Run(d, Down_7ba4, rows, z))
<1> DEFINE C == SyncTimes \cup IsVerified
           d1 == Execute(d, DropColumns(C), rows, z)
           d2 == Execute(d1, CreateIndex(VerificationIndex), rows, z)
<1>1. Run(d, Down_7ba4, rows, z) = d2
  <2>1. /\ Len(Down_7ba4) = 2 /\ Down_7ba4[1] = DropColumns(C)
        /\ Down_7ba4[2] = CreateIndex(VerificationIndex)
    BY DEF Down_7ba4
  <2> QED BY <2>1, RunTwo
<1>2. Schema(d1, TablesAt(S), DatesAt(S) \ C, AwareAt(S) \ C, OthersAt(S) \ C, IndexAt(S))
  <2>1. C \subseteq DatesAt(S) \cup OthersAt(S)
    BY DEF DatesAt, OthersAt, With
  <2> QED BY <2>1, DropColumnsSchema DEF HasSchema
<1>3. \E i \in VerificationIndex : i \in IndexAt(S)
  <2>1. "64a8c4b4d071" \in S
    BY BelowIs
  <2>2. \E i : i \in VerificationIndex
    BY DEF VerificationIndex
  <2> QED BY <2>1, <2>2 DEF IndexAt, With
<1>4. ~Possible(d1, CreateIndex(VerificationIndex), rows)
  BY <1>2, <1>3 DEF Possible, CreateIndex, Schema, Holds
<1> QED BY <1>1, <1>2, <1>4, ExecuteFails DEF Schema, Holds

\* 480a265e5923
LEMMA Up_480a_Does ==
  ASSUME NEW d, NEW rows, NEW z, NEW S \in Closed, HasSchema(d, S),
         "480a265e5923" \notin S, S \cup {"480a265e5923"} \in Closed
  PROVE  HasSchema(Run(d, Up_480a, rows, z), S \cup {"480a265e5923"})
<1> DEFINE r == "480a265e5923"
           d1 == Execute(d, AddColumns("other", ContextColumns), rows, z)
<1>1. Run(d, Up_480a, rows, z) = d1
  <2>1. Len(Up_480a) = 1 /\ Up_480a[1] = AddColumns("other", ContextColumns)
    BY DEF Up_480a
  <2> QED BY <2>1, RunOne
<1>2. "cacd5554ba5a" \in S
  BY BelowIs, ClosedIs
<1>3. \A c \in ContextColumns :
        c[1] \in TablesAt(S) /\ c \notin DatesAt(S) \cup OthersAt(S)
  BY <1>2, ColumnsPlaced, NewTablesApart DEF TablesAt, DatesAt, OthersAt, With
<1>4. Schema(d1, TablesAt(S), DatesAt(S), AwareAt(S), OthersAt(S) \cup ContextColumns,
             IndexAt(S))
  BY <1>3, AddSchema DEF HasSchema
<1>5. /\ TablesAt(S) = TablesAt(S \cup {r}) /\ DatesAt(S) = DatesAt(S \cup {r})
      /\ AwareAt(S) = AwareAt(S \cup {r})
      /\ OthersAt(S) \cup ContextColumns = OthersAt(S \cup {r})
      /\ IndexAt(S) = IndexAt(S \cup {r})
  BY DEF TablesAt, DatesAt, AwareAt, OthersAt, IndexAt, With
<1> QED BY <1>1, <1>4, <1>5 DEF HasSchema

\* And back.
LEMMA Down_480a_Does ==
  ASSUME NEW d, NEW rows, NEW z, NEW S \in Closed, HasSchema(d, S),
         "480a265e5923" \in S, S \ {"480a265e5923"} \in Closed
  PROVE  HasSchema(Run(d, Down_480a, rows, z), S \ {"480a265e5923"})
<1> DEFINE r == "480a265e5923"
           C == ContextColumns
           d1 == Execute(d, DropColumns(C), rows, z)
<1>1. Run(d, Down_480a, rows, z) = d1
  <2>1. Len(Down_480a) = 1 /\ Down_480a[1] = DropColumns(C)
    BY DEF Down_480a
  <2> QED BY <2>1, RunOne
<1>2. Schema(d1, TablesAt(S), DatesAt(S) \ C, AwareAt(S) \ C, OthersAt(S) \ C, IndexAt(S))
  <2>1. C \subseteq DatesAt(S) \cup OthersAt(S)
    BY DEF OthersAt, With
  <2> QED BY <2>1, DropColumnsSchema DEF HasSchema
<1>3. /\ TablesAt(S) = TablesAt(S \ {r}) /\ IndexAt(S) = IndexAt(S \ {r})
      /\ DatesAt(S) = DatesAt(S \ {r}) /\ AwareAt(S) = AwareAt(S \ {r})
  BY DEF TablesAt, DatesAt, AwareAt, IndexAt, With
<1>4. DatesAt(S) \ C = DatesAt(S)
  BY NewTablesApart, ColumnsPlaced DEF DatesAt, With
<1>5. AwareAt(S) \ C = AwareAt(S)
  BY NewTablesApart, ColumnsPlaced, StandardizedFound DEF AwareAt, With
<1>6. OthersAt(S) \ C = OthersAt(S \ {r})
  BY ColumnsPlaced DEF OthersAt, With
<1> QED BY <1>1, <1>2, <1>3, <1>4, <1>5, <1>6 DEF HasSchema

\* 8ba95b973a4a: five statements up, six down.
LEMMA StandardizedIs ==
  /\ Standardized \cap (RefreshTokenTimes \cup RefreshUpdated \cup VerificationTimes) = {}
  /\ Standardized \cap (TokenHash \cup IsVerified \cup ContextColumns) = {}
  /\ RefreshUpdated \cap (TokenHash \cup IsVerified \cup ContextColumns) = {}
  /\ SummaryTimes \subseteq ToPasswordResets
<1>1. /\ Standardized
           \cap (RefreshTokenTimes \cup RefreshUpdated \cup VerificationTimes) = {}
      /\ Standardized \cap (TokenHash \cup IsVerified \cup ContextColumns) = {}
      /\ RefreshUpdated \cap (TokenHash \cup IsVerified \cup ContextColumns) = {}
  BY StandardizedFound, ColumnsPlaced, NewTablesApart
<1>2. SummaryTimes \subseteq ToPasswordResets
  BY DEF SummaryTimes, ToPasswordResets, Stamps, Columns
<1> QED BY <1>1, <1>2

\* 8ba95b973a4a: the dates it converts get a time zone.
LEMMA Up_8ba9_Does ==
  ASSUME NEW d, NEW rows, NEW z, NEW S \in Closed, HasSchema(d, S),
         "8ba95b973a4a" \notin S, S \cup {"8ba95b973a4a"} \in Closed
  PROVE  HasSchema(Run(d, Up_8ba9, rows, z), S \cup {"8ba95b973a4a"})
<1> DEFINE r == "8ba95b973a4a"
           T == TablesAt(S)
           D == DatesAt(S)
           E == D \cup RefreshUpdated
           O == OthersAt(S)
           X == IndexAt(S)
           A1 == AwareAt(S) \cup ToScorecards
           A2 == A1 \cup ToPasswordResets
           A3 == A2 \cup RefreshUpdated
           A4 == A3 \cup ToTranscripts
           A5 == A4 \cup ToWorkspaces
<1> DEFINE d1 == Execute(d, AlterType(ToScorecards, "aware", "UTC"), rows, z)
           d2 == Execute(d1, AlterType(ToPasswordResets, "aware", "UTC"), rows, z)
           d3 == Execute(d2, AddColumns("aware", RefreshUpdated), rows, z)
           d4 == Execute(d3, AlterType(ToTranscripts, "aware", "UTC"), rows, z)
           d5 == Execute(d4, AlterType(ToWorkspaces, "aware", "UTC"), rows, z)
<1>2. /\ Len(Up_8ba9) = 5
      /\ Up_8ba9[1] = AlterType(ToScorecards, "aware", "UTC")
      /\ Up_8ba9[2] = AlterType(ToPasswordResets, "aware", "UTC")
      /\ Up_8ba9[3] = AddColumns("aware", RefreshUpdated)
      /\ Up_8ba9[4] = AlterType(ToTranscripts, "aware", "UTC")
      /\ Up_8ba9[5] = AlterType(ToWorkspaces, "aware", "UTC")
  BY DEF Up_8ba9
<1>3. Run(d, Up_8ba9, rows, z) = d5
  <2>1. Len(Up_8ba9) \in Nat
    BY <1>2
  <2> QED BY <1>2, <2>1, RunFive
<1> HIDE DEF d1, d2, d3, d4, d5
<1>4. /\ "7ba4c8acd02e" \in S /\ "cacd5554ba5a" \in S /\ "d44e91e81013" \in S
  BY BelowIs, ClosedIs
<1>5. /\ Standardized \subseteq D /\ Standardized \cap O = {}
      /\ \A c \in RefreshUpdated : c[1] \in T /\ c \notin D \cup O
  <2>1. Standardized \subseteq D /\ Standardized \cap O = {}
    BY <1>4, StandardizedFound, StandardizedIs DEF DatesAt, OthersAt, With
  <2>2. \A c \in RefreshUpdated : c[1] \in T /\ c \notin D \cup O
    BY <1>4, StandardizedIs, NewTablesApart, ColumnsPlaced
       DEF TablesAt, DatesAt, OthersAt, With
  <2> QED BY <2>1, <2>2
<1>6. Standardized = ToScorecards \cup ToPasswordResets \cup ToTranscripts
        \cup ToWorkspaces
  BY DEF Standardized
<1>7. Schema(d, T, D, AwareAt(S), O, X)
  BY DEF HasSchema
<1>8. /\ ToScorecards \subseteq D /\ ToScorecards \cap O = {}
      /\ ToPasswordResets \subseteq D /\ ToPasswordResets \cap O = {}
      /\ ToTranscripts \subseteq E /\ ToTranscripts \cap O = {}
      /\ ToWorkspaces \subseteq E /\ ToWorkspaces \cap O = {}
  <2> HIDE DEF D, O
  <2> QED BY <1>5, <1>6
<1> HIDE DEF T, D, O, X
<1>9. Schema(d1, T, D, A1, O, X)
  BY <1>7, <1>8, AlterSchema DEF d1
<1> HIDE DEF A1
<1>10. Schema(d2, T, D, A2, O, X)
  BY <1>8, <1>9, AlterSchema DEF d2
<1> HIDE DEF A2
<1>11. Schema(d3, T, E, A3, O, X)
  BY <1>5, <1>10, AddSchema DEF d3
<1> HIDE DEF A3, E
<1>12. Schema(d4, T, E, A4, O, X) /\ Schema(d5, T, E, A5, O, X)
  <2>1. Schema(d4, T, E, A4, O, X)
    BY <1>8, <1>11, AlterSchema DEF d4
  <2> HIDE DEF A4
  <2>2. Schema(d5, T, E, A5, O, X)
    BY <1>8, <2>1, AlterSchema DEF d5
  <2> QED BY <2>1, <2>2
<1>13. /\ T = TablesAt(S \cup {r}) /\ E = DatesAt(S \cup {r})
       /\ O = OthersAt(S \cup {r}) /\ X = IndexAt(S \cup {r})
  BY DEF T, D, E, O, X, TablesAt, DatesAt, OthersAt, IndexAt, With
<1>14. A5 = AwareAt(S \cup {r})
  BY <1>6 DEF A1, A2, A3, A4, A5, AwareAt, With
<1> QED BY <1>3, <1>12, <1>13, <1>14 DEF HasSchema

\* And back.
LEMMA Down_8ba9_Does ==
  ASSUME NEW d, NEW rows, NEW z, NEW S \in Closed, HasSchema(d, S),
         "8ba95b973a4a" \in S, S \ {"8ba95b973a4a"} \in Closed
  PROVE  HasSchema(Run(d, Down_8ba9, rows, z), S \ {"8ba95b973a4a"})
<1> DEFINE r == "8ba95b973a4a"
           T == TablesAt(S)
           D == DatesAt(S)
           A == AwareAt(S)
           O == OthersAt(S)
           X == IndexAt(S)
           Resets == ToPasswordResets \ SummaryTimes
           E == D \ RefreshUpdated
           A1 == A \ ToWorkspaces
           A2 == A1 \ ToTranscripts
           A3 == A2 \ RefreshUpdated
           A4 == A3 \ Resets
           A5 == A4 \ SummaryTimes
           A6 == A5 \ ToScorecards
           P == O \ RefreshUpdated
<1> DEFINE d1 == Execute(d, FromWorkspaces, rows, z)
           d2 == Execute(d1, FromTranscripts, rows, z)
           d3 == Execute(d2, DropColumns(RefreshUpdated), rows, z)
           d4 == Execute(d3, FromPasswordResets, rows, z)
           d5 == Execute(d4, FromSummaries, rows, z)
           d6 == Execute(d5, FromScorecards, rows, z)
<1>1. PICK after :
        /\ after[0] = d
        /\ \A n \in 1..Len(Down_8ba9) :
             after[n] = Execute(after[n-1], Down_8ba9[n], rows, z)
        /\ Run(d, Down_8ba9, rows, z) = after[Len(Down_8ba9)]
  <2>1. Len(Down_8ba9) \in Nat
    BY DEF Down_8ba9
  <2> QED BY <2>1, RunSteps
<1>2. /\ Len(Down_8ba9) = 6
      /\ Down_8ba9[1] = FromWorkspaces /\ Down_8ba9[2] = FromTranscripts
      /\ Down_8ba9[3] = DropColumns(RefreshUpdated) /\ Down_8ba9[4] = FromPasswordResets
      /\ Down_8ba9[5] = FromSummaries /\ Down_8ba9[6] = FromScorecards
  BY DEF Down_8ba9
<1>3. Run(d, Down_8ba9, rows, z) = d6
  <2>1. /\ after[1] = Execute(after[0], Down_8ba9[1], rows, z)
        /\ after[2] = Execute(after[1], Down_8ba9[2], rows, z)
        /\ after[3] = Execute(after[2], Down_8ba9[3], rows, z)
        /\ after[4] = Execute(after[3], Down_8ba9[4], rows, z)
        /\ after[5] = Execute(after[4], Down_8ba9[5], rows, z)
        /\ after[6] = Execute(after[5], Down_8ba9[6], rows, z)
    BY <1>1, <1>2, 1 - 1 = 0, 2 - 1 = 1, 3 - 1 = 2, 4 - 1 = 3, 5 - 1 = 4, 6 - 1 = 5
  <2> QED BY <1>1, <1>2, <2>1
<1> HIDE DEF d1, d2, d3, d4, d5, d6
<1>4. /\ "7ba4c8acd02e" \in S /\ "cacd5554ba5a" \in S /\ "d44e91e81013" \in S
  BY BelowIs, ClosedIs
<1>5. /\ Standardized \subseteq D /\ Standardized \cap O = {}
      /\ Standardized \cap RefreshUpdated = {}
      /\ RefreshUpdated \subseteq D
  <2>1. Standardized \subseteq D /\ Standardized \cap O = {}
    BY <1>4, StandardizedFound, StandardizedIs DEF DatesAt, OthersAt, With
  <2>2. RefreshUpdated \subseteq D
    BY DEF DatesAt, With
  <2> QED BY <2>1, <2>2, StandardizedIs
<1>6. Standardized = ToScorecards \cup ToPasswordResets \cup ToTranscripts
        \cup ToWorkspaces
  BY DEF Standardized
<1>7. Schema(d, T, D, A, O, X)
  BY DEF HasSchema
<1>8. /\ Resets \subseteq Standardized /\ SummaryTimes \subseteq Standardized
      /\ ToScorecards \subseteq Standardized /\ ToTranscripts \subseteq Standardized
      /\ ToWorkspaces \subseteq Standardized
  BY <1>6, StandardizedIs
<1>9. RefreshUpdated \subseteq D \cup O
  BY <1>5
<1> HIDE DEF T, D, A, O, X, Resets
<1>10. ASSUME NEW C, C \subseteq Standardized
       PROVE  /\ C \subseteq D /\ C \cap O = {}
              /\ C \subseteq E /\ C \cap P = {}
  BY <1>5, <1>10
<1>11. Schema(d1, T, D, A1, O, X)
  <2>1. ToWorkspaces \subseteq D /\ ToWorkspaces \cap O = {}
    BY <1>8, <1>10
  <2> QED BY <1>7, <2>1, AlterSchema DEF FromWorkspaces, d1
<1> HIDE DEF A1
<1>12. Schema(d2, T, D, A2, O, X)
  <2>1. ToTranscripts \subseteq D /\ ToTranscripts \cap O = {}
    BY <1>8, <1>10
  <2> QED BY <1>11, <2>1, AlterSchema DEF FromTranscripts, d2
<1> HIDE DEF A2
<1>13. Schema(d3, T, E, A3, P, X)
  BY <1>9, <1>12, DropColumnsSchema DEF d3
<1> HIDE DEF A3, E, P
<1>14. Schema(d4, T, E, A4, P, X)
  <2>1. Resets \subseteq E /\ Resets \cap P = {}
    BY <1>8, <1>10
  <2> QED BY <1>13, <2>1, AlterSchema DEF FromPasswordResets, Resets, d4
<1> HIDE DEF A4
<1>15. Schema(d5, T, E, A5, P, X)
  <2>1. SummaryTimes \subseteq E /\ SummaryTimes \cap P = {}
    BY <1>8, <1>10
  <2> QED BY <1>14, <2>1, AlterSchema DEF FromSummaries, d5
<1> HIDE DEF A5
<1>16. Schema(d6, T, E, A6, P, X)
  <2>1. ToScorecards \subseteq E /\ ToScorecards \cap P = {}
    BY <1>8, <1>10
  <2> QED BY <1>15, <2>1, AlterSchema DEF FromScorecards, d6
<1>19. T = TablesAt(S \ {r}) /\ X = IndexAt(S \ {r}) /\ P = OthersAt(S \ {r})
  BY StandardizedIs DEF T, X, O, P, TablesAt, IndexAt, OthersAt, With
<1>20. E = DatesAt(S \ {r})
  BY NewTablesApart, ColumnsPlaced DEF D, E, DatesAt, With
<1>21. A6 = A \ (Standardized \cup RefreshUpdated)
  BY <1>6, <1>8 DEF Resets, A1, A2, A3, A4, A5, A6
<1>22. A \ (Standardized \cup RefreshUpdated) = AwareAt(S \ {r})
  BY StandardizedIs, ColumnsPlaced, NewTablesApart DEF A, AwareAt, With
<1> QED BY <1>3, <1>16, <1>19, <1>20, <1>21, <1>22 DEF HasSchema

\* cacd5554ba5a: ten statements up, twelve down, from and to an empty database.
LEMMA FirstIsBase ==
  ASSUME NEW S \in Closed
  PROVE  "cacd5554ba5a" \notin S => S = {}
BY BelowIs

\* The groups of tables, in the order of their creation.
Upto2 == DOMAIN Roots \cup DOMAIN UserTables
Upto3 == Upto2 \cup DOMAIN WorkspaceTables
Upto4 == Upto3 \cup DOMAIN MeetingTables
Upto5 == Upto4 \cup DOMAIN SummaryTables
Upto6 == Upto5 \cup DOMAIN InterviewTables
Upto7 == Upto6 \cup DOMAIN ScoreTables

\* What the tables of a group refer to is there when they are created.
LEMMA RefsReached ==
  /\ {"users"} \subseteq DOMAIN Roots
  /\ {"users", "workspaces"} \subseteq Upto2
  /\ {"users", "workspaces", "meetings", "candidates", "integrations"} \subseteq Upto3
  /\ {"users", "integrations", "meeting_summaries", "ask_mind_sessions",
      "integration_channels", "interviews", "meeting_participants", "transcripts"}
       \subseteq Upto4
  /\ {"interview_summaries", "interview_transcripts", "interview_scorecards",
      "scorecard_categories"} \subseteq Upto5
  /\ {"scorecard_scores"} \subseteq Upto6
<1>1. {"users"} \subseteq DOMAIN Roots /\ {"users", "workspaces"} \subseteq Upto2
  BY DEF Roots, UserTables, Upto2
<1>2. {"meetings", "candidates", "integrations", "scorecard_categories"}
        \subseteq DOMAIN WorkspaceTables
  BY DEF WorkspaceTables
<1>3. {"meeting_summaries", "ask_mind_sessions", "integration_channels", "interviews",
       "meeting_participants", "transcripts"} \subseteq DOMAIN MeetingTables
  BY DEF MeetingTables
<1>4. {"interview_summaries", "interview_transcripts", "interview_scorecards"}
        \subseteq DOMAIN SummaryTables
  BY DEF SummaryTables
<1>5. {"scorecard_scores"} \subseteq DOMAIN InterviewTables
  BY DEF InterviewTables
<1> QED BY <1>1, <1>2, <1>3, <1>4, <1>5 DEF Upto3, Upto4, Upto5, Upto6

\* An index is created after its table and before the tables of the next group.
LEMMA IndexesReached ==
  /\ \A i \in InterviewIndexes : i[1] \in Upto4
  /\ \A i \in SegmentIndex : i[1] \in Upto5
  /\ \A i \in TurnIndex : i[1] \in Upto6
  /\ InterviewIndexes \cap SegmentIndex = {}
  /\ (InterviewIndexes \cup SegmentIndex) \cap TurnIndex = {}
<1>1. /\ "interviews" \in DOMAIN MeetingTables
      /\ "transcript_segments" \in DOMAIN SummaryTables
      /\ "interview_transcript_turns" \in DOMAIN InterviewTables
  BY DEF MeetingTables, SummaryTables, InterviewTables
<1>2. /\ \A i \in InterviewIndexes : i[1] = "interviews"
      /\ \A i \in SegmentIndex : i[1] = "transcript_segments"
      /\ \A i \in TurnIndex : i[1] = "interview_transcript_turns"
  BY DEF InterviewIndexes, SegmentIndex, TurnIndex
<1>3. /\ InterviewIndexes \cap SegmentIndex = {}
      /\ (InterviewIndexes \cup SegmentIndex) \cap TurnIndex = {}
  BY DEF InterviewIndexes, SegmentIndex, TurnIndex
<1> QED BY <1>1, <1>2, <1>3 DEF Upto4, Upto5, Upto6

\* The dates of a group of tables are those of cacd5554ba5a.
LEMMA TimesFounded ==
  TimesOf(Founded) = TimesOf(Roots) \cup TimesOf(UserTables) \cup TimesOf(WorkspaceTables)
    \cup TimesOf(MeetingTables) \cup TimesOf(SummaryTables) \cup TimesOf(InterviewTables)
    \cup TimesOf(ScoreTables)
BY FoundedIs, TimesOfIs

\* Creating a group of tables when the ones before it exist.
LEMMA GroupCreated ==
  ASSUME NEW d, NEW T, NEW D, NEW X, Schema(d, T, D, {}, {}, X), NEW rows, NEW z,
         NEW tables, DOMAIN tables \cap T = {}, DOMAIN tables \subseteq DOMAIN Founded,
         \A t \in DOMAIN tables : Founded[t] = tables[t] /\ tables[t].refs \subseteq T
  PROVE  Schema(Execute(d, CreateTables(tables), rows, z),
                T \cup DOMAIN tables, D \cup TimesOf(tables), {}, {}, X)
<1>1. \A t \in DOMAIN tables :
        /\ tables[t].refs \subseteq T
        /\ tables[t].refs = Tables[t].refs
  BY TablesAre
<1> QED BY <1>1, CreateSchema

\* cacd5554ba5a: all its tables, group after group.
LEMMA Up_cacd_Does ==
  ASSUME NEW d, NEW rows, NEW z, NEW S \in Closed, HasSchema(d, S),
         "cacd5554ba5a" \notin S
  PROVE  HasSchema(Run(d, Up_cacd, rows, z), S \cup {"cacd5554ba5a"})
<1> DEFINE r == "cacd5554ba5a"
           d1 == Execute(d, CreateTables(Roots), rows, z)
           d2 == Execute(d1, CreateTables(UserTables), rows, z)
           d3 == Execute(d2, CreateTables(WorkspaceTables), rows, z)
           d4 == Execute(d3, CreateTables(MeetingTables), rows, z)
           d5 == Execute(d4, CreateIndex(InterviewIndexes), rows, z)
           d6 == Execute(d5, CreateTables(SummaryTables), rows, z)
           d7 == Execute(d6, CreateIndex(SegmentIndex), rows, z)
           d8 == Execute(d7, CreateTables(InterviewTables), rows, z)
           d9 == Execute(d8, CreateIndex(TurnIndex), rows, z)
           d10 == Execute(d9, CreateTables(ScoreTables), rows, z)
           D1 == TimesOf(Roots)
           D2 == D1 \cup TimesOf(UserTables)
           D3 == D2 \cup TimesOf(WorkspaceTables)
           D4 == D3 \cup TimesOf(MeetingTables)
           D5 == D4 \cup TimesOf(SummaryTables)
           D6 == D5 \cup TimesOf(InterviewTables)
           D7 == D6 \cup TimesOf(ScoreTables)
           X1 == InterviewIndexes
           X2 == X1 \cup SegmentIndex
           X3 == X2 \cup TurnIndex
<1>1. PICK after :
        /\ after[0] = d
        /\ \A n \in 1..Len(Up_cacd) :
             after[n] = Execute(after[n-1], Up_cacd[n], rows, z)
        /\ Run(d, Up_cacd, rows, z) = after[Len(Up_cacd)]
  <2>1. Len(Up_cacd) \in Nat
    BY DEF Up_cacd
  <2> QED BY <2>1, RunSteps
<1>2. /\ Len(Up_cacd) = 10
      /\ Up_cacd[1] = CreateTables(Roots)
      /\ Up_cacd[2] = CreateTables(UserTables)
      /\ Up_cacd[3] = CreateTables(WorkspaceTables)
      /\ Up_cacd[4] = CreateTables(MeetingTables)
      /\ Up_cacd[5] = CreateIndex(InterviewIndexes)
      /\ Up_cacd[6] = CreateTables(SummaryTables)
      /\ Up_cacd[7] = CreateIndex(SegmentIndex)
      /\ Up_cacd[8] = CreateTables(InterviewTables)
      /\ Up_cacd[9] = CreateIndex(TurnIndex)
      /\ Up_cacd[10] = CreateTables(ScoreTables)
  BY DEF Up_cacd
<1>3. Run(d, Up_cacd, rows, z) = d10
  <2>1. /\ after[1] = Execute(after[0], Up_cacd[1], rows, z)
        /\ after[2] = Execute(after[1], Up_cacd[2], rows, z)
        /\ after[3] = Execute(after[2], Up_cacd[3], rows, z)
        /\ after[4] = Execute(after[3], Up_cacd[4], rows, z)
        /\ after[5] = Execute(after[4], Up_cacd[5], rows, z)
    BY <1>1, <1>2, 1 - 1 = 0, 2 - 1 = 1, 3 - 1 = 2, 4 - 1 = 3, 5 - 1 = 4
  <2>2. /\ after[6] = Execute(after[5], Up_cacd[6], rows, z)
        /\ after[7] = Execute(after[6], Up_cacd[7], rows, z)
        /\ after[8] = Execute(after[7], Up_cacd[8], rows, z)
        /\ after[9] = Execute(after[8], Up_cacd[9], rows, z)
        /\ after[10] = Execute(after[9], Up_cacd[10], rows, z)
    BY <1>1, <1>2, 6 - 1 = 5, 7 - 1 = 6, 8 - 1 = 7, 9 - 1 = 8, 10 - 1 = 9
  <2> QED BY <1>1, <1>2, <2>1, <2>2
<1> HIDE DEF d1, d2, d3, d4, d5, d6, d7, d8, d9, d10
<1>4. S = {}
  BY FirstIsBase
<1>5. Schema(d, {}, {}, {}, {}, {})
  <2>1. /\ TablesAt({}) = {} /\ DatesAt({}) = {} /\ AwareAt({}) = {}
        /\ OthersAt({}) = {} /\ IndexAt({}) = {}
    BY DEF TablesAt, DatesAt, AwareAt, OthersAt, IndexAt, With
  <2> QED BY <1>4, <2>1 DEF HasSchema
<1>6. Schema(d1, DOMAIN Roots, D1, {}, {}, {})
  <2>1. \A t \in DOMAIN Roots : Founded[t] = Roots[t] /\ Roots[t].refs \subseteq {}
    BY FoundedIs, RefsFound
  <2>2. DOMAIN Roots \subseteq DOMAIN Founded
    BY FoundedIs
  <2>3. Schema(d1, {} \cup DOMAIN Roots, {} \cup TimesOf(Roots), {}, {}, {})
    BY <1>5, <2>1, <2>2, GroupCreated DEF d1
  <2>4. {} \cup DOMAIN Roots = DOMAIN Roots /\ {} \cup TimesOf(Roots) = TimesOf(Roots)
    OBVIOUS
  <2> QED BY <2>3, <2>4
<1>7. Schema(d2, Upto2, D2, {}, {}, {})
  <2>1. \A t \in DOMAIN UserTables :
          /\ Founded[t] = UserTables[t]
          /\ UserTables[t].refs \subseteq DOMAIN Roots
    BY FoundedIs, RefsFound, RefsReached
  <2>2. DOMAIN UserTables \subseteq DOMAIN Founded
    BY FoundedIs
  <2>3. DOMAIN UserTables \cap DOMAIN Roots = {}
    BY GroupsApart
  <2> QED BY <1>6, <2>1, <2>2, <2>3, GroupCreated DEF d2, Upto2
<1>8. Schema(d3, Upto3, D3, {}, {}, {})
  <2>1. \A t \in DOMAIN WorkspaceTables :
          /\ Founded[t] = WorkspaceTables[t]
          /\ WorkspaceTables[t].refs \subseteq Upto2
    BY FoundedIs, RefsFound, RefsReached
  <2>2. DOMAIN WorkspaceTables \subseteq DOMAIN Founded
    BY FoundedIs
  <2>3. DOMAIN WorkspaceTables \cap Upto2 = {}
    BY GroupsApart DEF Upto2
  <2> QED BY <1>7, <2>1, <2>2, <2>3, GroupCreated DEF d3, Upto3
<1>9. Schema(d4, Upto4, D4, {}, {}, {})
  <2>1. \A t \in DOMAIN MeetingTables :
          /\ Founded[t] = MeetingTables[t]
          /\ MeetingTables[t].refs \subseteq Upto3
    BY FoundedIs, RefsFound, RefsReached
  <2>2. DOMAIN MeetingTables \subseteq DOMAIN Founded
    BY FoundedIs
  <2>3. DOMAIN MeetingTables \cap Upto3 = {}
    BY GroupsApart DEF Upto2, Upto3
  <2> QED BY <1>8, <2>1, <2>2, <2>3, GroupCreated DEF d4, Upto4
<1>10. Schema(d5, Upto4, D4, {}, {}, X1)
  <2>1. \A i \in InterviewIndexes : i[1] \in Upto4 /\ i \notin {}
    BY IndexesReached
  <2>2. Schema(d5, Upto4, D4, {}, {}, {} \cup InterviewIndexes)
    BY <1>9, <2>1, CreateIndexSchema DEF d5
  <2>3. {} \cup InterviewIndexes = InterviewIndexes
    OBVIOUS
  <2> QED BY <2>2, <2>3
<1>11. Schema(d6, Upto5, D5, {}, {}, X1)
  <2>1. \A t \in DOMAIN SummaryTables :
          /\ Founded[t] = SummaryTables[t]
          /\ SummaryTables[t].refs \subseteq Upto4
    BY FoundedIs, RefsFound, RefsReached
  <2>2. DOMAIN SummaryTables \subseteq DOMAIN Founded
    BY FoundedIs
  <2>3. DOMAIN SummaryTables \cap Upto4 = {}
    BY GroupsApart DEF Upto2, Upto3, Upto4
  <2> QED BY <1>10, <2>1, <2>2, <2>3, GroupCreated DEF d6, Upto5
<1>12. Schema(d7, Upto5, D5, {}, {}, X2)
  <2>1. \A i \in SegmentIndex : i[1] \in Upto5 /\ i \notin X1
    BY IndexesReached
  <2> QED BY <1>11, <2>1, CreateIndexSchema DEF d7
<1>13. Schema(d8, Upto6, D6, {}, {}, X2)
  <2>1. \A t \in DOMAIN InterviewTables :
          /\ Founded[t] = InterviewTables[t]
          /\ InterviewTables[t].refs \subseteq Upto5
    BY FoundedIs, RefsFound, RefsReached
  <2>2. DOMAIN InterviewTables \subseteq DOMAIN Founded
    BY FoundedIs
  <2>3. DOMAIN InterviewTables \cap Upto5 = {}
    BY GroupsApart DEF Upto2, Upto3, Upto4, Upto5
  <2> QED BY <1>12, <2>1, <2>2, <2>3, GroupCreated DEF d8, Upto6
<1>14. Schema(d9, Upto6, D6, {}, {}, X3)
  <2>1. \A i \in TurnIndex : i[1] \in Upto6 /\ i \notin X2
    BY IndexesReached
  <2> QED BY <1>13, <2>1, CreateIndexSchema DEF d9
<1>15. Schema(d10, Upto7, D7, {}, {}, X3)
  <2>1. \A t \in DOMAIN ScoreTables :
          /\ Founded[t] = ScoreTables[t]
          /\ ScoreTables[t].refs \subseteq Upto6
    BY FoundedIs, RefsFound, RefsReached
  <2>2. DOMAIN ScoreTables \subseteq DOMAIN Founded
    BY FoundedIs
  <2>3. DOMAIN ScoreTables \cap Upto6 = {}
    BY GroupsApart DEF Upto2, Upto3, Upto4, Upto5, Upto6
  <2> QED BY <1>14, <2>1, <2>2, <2>3, GroupCreated DEF d10, Upto7
<1>16. Upto7 = TablesAt({r}) /\ D7 = DatesAt({r})
  BY FoundedIs, TimesFounded DEF TablesAt, DatesAt, With, Upto2, Upto3, Upto4, Upto5,
     Upto6, Upto7
<1>17. /\ {} = AwareAt({r}) /\ {} = OthersAt({r}) /\ X3 = IndexAt({r})
  BY DEF AwareAt, OthersAt, IndexAt, With
<1> QED BY <1>3, <1>4, <1>15, <1>16, <1>17 DEF HasSchema

\* The dates of the tables T of cacd5554ba5a.
Dated(T) == {c \in TimesOf(Founded) : c[1] \in T}

\* Dropping tables no table refers to.
LEMMA GroupDropped ==
  ASSUME NEW d, NEW T, NEW X, Schema(d, T, Dated(T), {}, {}, X), NEW rows, NEW z,
         NEW names, names \subseteq T, T \subseteq DOMAIN Founded,
         \A t \in T : Founded[t].refs \cap names = {}, \A i \in X : i[1] \notin names
  PROVE  Schema(Execute(d, DropTables(names), rows, z),
                T \ names, Dated(T \ names), {}, {}, X)
<1>1. \A t \in T : Tables[t].refs \cap names = {}
  BY TablesAre
<1>2. /\ Off(Dated(T), names) = Dated(T \ names) /\ Off({}, names) = {}
      /\ Off(X, names) = X
  BY DEF Off, Dated
<1>3. Schema(Execute(d, DropTables(names), rows, z), T \ names, Off(Dated(T), names),
             Off({}, names), Off({}, names), Off(X, names))
  BY <1>1, DropSchema
<1> QED BY <1>2, <1>3

\* And back, to an empty database.
LEMMA Down_cacd_Does ==
  ASSUME NEW d, NEW rows, NEW z, NEW S \in Closed, HasSchema(d, S),
         "cacd5554ba5a" \in S, S \ {"cacd5554ba5a"} \in Closed
  PROVE  HasSchema(Run(d, Down_cacd, rows, z), S \ {"cacd5554ba5a"})
<1> DEFINE r == "cacd5554ba5a"
           N3 == DOMAIN InterviewTables \ {"scorecard_scores"}
           N5 == {"transcripts", "meeting_summaries", "meeting_participants",
                  "meeting_comments"}
           N6 == {"interviews", "integration_channels", "ask_mind_suggested_prompts",
                  "ask_mind_sessions"}
           X2 == InterviewIndexes \cup SegmentIndex
           X3 == X2 \cup TurnIndex
           T2 == Upto6 \ {"scorecard_scores"}
           T6 == Upto4 \ N5
           d1 == Execute(d, DropTables(DOMAIN ScoreTables), rows, z)
           d2 == Execute(d1, DropTables({"scorecard_scores"}), rows, z)
           d3 == Execute(d2, DropIndex(TurnIndex), rows, z)
           d4 == Execute(d3, DropTables(N3), rows, z)
           d5 == Execute(d4, DropIndex(SegmentIndex), rows, z)
           d6 == Execute(d5, DropTables(DOMAIN SummaryTables), rows, z)
           d7 == Execute(d6, DropTables(N5), rows, z)
           d8 == Execute(d7, DropIndex(InterviewIndexes), rows, z)
           d9 == Execute(d8, DropTables(N6), rows, z)
           d10 == Execute(d9, DropTables(DOMAIN WorkspaceTables), rows, z)
           d11 == Execute(d10, DropTables(DOMAIN UserTables), rows, z)
           d12 == Execute(d11, DropTables(DOMAIN Roots), rows, z)
<1>1. PICK after :
        /\ after[0] = d
        /\ \A n \in 1..Len(Down_cacd) :
             after[n] = Execute(after[n-1], Down_cacd[n], rows, z)
        /\ Run(d, Down_cacd, rows, z) = after[Len(Down_cacd)]
  <2>1. Len(Down_cacd) \in Nat
    BY DEF Down_cacd
  <2> QED BY <2>1, RunSteps
<1>2. /\ Len(Down_cacd) = 12
      /\ Down_cacd[1] = DropTables(DOMAIN ScoreTables)
      /\ Down_cacd[2] = DropTables({"scorecard_scores"})
      /\ Down_cacd[3] = DropIndex(TurnIndex)
      /\ Down_cacd[4] = DropTables(N3)
      /\ Down_cacd[5] = DropIndex(SegmentIndex)
      /\ Down_cacd[6] = DropTables(DOMAIN SummaryTables)
      /\ Down_cacd[7] = DropTables(N5)
      /\ Down_cacd[8] = DropIndex(InterviewIndexes)
      /\ Down_cacd[9] = DropTables(N6)
      /\ Down_cacd[10] = DropTables(DOMAIN WorkspaceTables)
      /\ Down_cacd[11] = DropTables(DOMAIN UserTables)
      /\ Down_cacd[12] = DropTables(DOMAIN Roots)
  BY DEF Down_cacd
<1>3. Run(d, Down_cacd, rows, z) = d12
  <2>1. /\ after[1] = Execute(after[0], Down_cacd[1], rows, z)
        /\ after[2] = Execute(after[1], Down_cacd[2], rows, z)
        /\ after[3] = Execute(after[2], Down_cacd[3], rows, z)
        /\ after[4] = Execute(after[3], Down_cacd[4], rows, z)
        /\ after[5] = Execute(after[4], Down_cacd[5], rows, z)
        /\ after[6] = Execute(after[5], Down_cacd[6], rows, z)
    BY <1>1, <1>2, 1 - 1 = 0, 2 - 1 = 1, 3 - 1 = 2, 4 - 1 = 3, 5 - 1 = 4, 6 - 1 = 5
  <2>2. /\ after[7] = Execute(after[6], Down_cacd[7], rows, z)
        /\ after[8] = Execute(after[7], Down_cacd[8], rows, z)
        /\ after[9] = Execute(after[8], Down_cacd[9], rows, z)
        /\ after[10] = Execute(after[9], Down_cacd[10], rows, z)
        /\ after[11] = Execute(after[10], Down_cacd[11], rows, z)
        /\ after[12] = Execute(after[11], Down_cacd[12], rows, z)
    BY <1>1, <1>2, 7 - 1 = 6, 8 - 1 = 7, 9 - 1 = 8, 10 - 1 = 9, 11 - 1 = 10, 12 - 1 = 11
  <2> QED BY <1>1, <1>2, <2>1, <2>2
<1> HIDE DEF d1, d2, d3, d4, d5, d6, d7, d8, d9, d10, d11, d12
<1> HIDE DEF N3, N5, N6, X2, X3
<1>4. S = {r}
  BY FirstIsBase
<1>5. Schema(d, Upto7, Dated(Upto7), {}, {}, X3)
  <2>1. /\ TablesAt({r}) = Upto7 /\ AwareAt({r}) = {} /\ OthersAt({r}) = {}
        /\ IndexAt({r}) = X3 /\ DatesAt({r}) = TimesOf(Founded)
    BY FoundedIs DEF TablesAt, DatesAt, AwareAt, OthersAt, IndexAt, With, X2, X3,
       Upto2, Upto3, Upto4, Upto5, Upto6, Upto7
  <2>2. TimesOf(Founded) = Dated(TablesAt({r}))
    BY ColumnsPlaced DEF Dated, TablesAt, With
  <2> QED BY <1>4, <2>1, <2>2 DEF HasSchema
<1>6. Schema(d1, Upto6, Dated(Upto6), {}, {}, X3)
  <2>1. /\ DOMAIN ScoreTables \subseteq Upto7
        /\ Upto7 \subseteq DOMAIN Founded
        /\ Upto7 \ DOMAIN ScoreTables = Upto6
    BY FoundedIs, GroupsApart DEF Upto2, Upto3, Upto4, Upto5, Upto6, Upto7
  <2>2. \A t \in Upto7 : Founded[t].refs \cap DOMAIN ScoreTables = {}
    BY FoundedIs, RefsFound DEF ScoreTables, Upto2, Upto3, Upto4, Upto5, Upto6, Upto7
  <2>3. \A i \in X3 : i[1] \notin DOMAIN ScoreTables
    BY DEF X2, X3, InterviewIndexes, SegmentIndex, TurnIndex, ScoreTables
  <2> QED BY <1>5, <2>1, <2>2, <2>3, GroupDropped DEF d1
<1>7. Schema(d2, T2, Dated(T2), {}, {}, X3)
  <2>1. /\ {"scorecard_scores"} \subseteq Upto6
        /\ Upto6 \subseteq DOMAIN Founded
        /\ Upto6 \ {"scorecard_scores"} = T2
    BY FoundedIs, GroupsApart DEF T2, Upto2, Upto3, Upto4, Upto5, Upto6, Upto7,
       InterviewTables
  <2>2. \A t \in Upto6 : Founded[t].refs \cap {"scorecard_scores"} = {}
    BY FoundedIs, RefsFound DEF Upto2, Upto3, Upto4, Upto5, Upto6, Upto7
  <2>3. \A i \in X3 : i[1] \notin {"scorecard_scores"}
    BY DEF X2, X3, InterviewIndexes, SegmentIndex, TurnIndex
  <2> QED BY <1>6, <2>1, <2>2, <2>3, GroupDropped DEF d2
<1>8. Schema(d3, T2, Dated(T2), {}, {}, X2)
  <2>1. TurnIndex \subseteq X3 /\ X3 \ TurnIndex = X2
    BY IndexesReached DEF X2, X3
  <2> QED BY <1>7, <2>1, DropIndexSchema DEF d3
<1>9. Schema(d4, Upto5, Dated(Upto5), {}, {}, X2)
  <2>1. N3 \subseteq T2 /\ T2 \subseteq DOMAIN Founded /\ T2 \ N3 = Upto5
    BY FoundedIs, GroupsApart DEF T2, N3, Upto2, Upto3, Upto4, Upto5, Upto6, Upto7,
       InterviewTables
  <2>2. \A t \in T2 : Founded[t].refs \cap N3 = {}
    BY FoundedIs, RefsFound DEF T2, N3, InterviewTables, Upto2, Upto3, Upto4, Upto5,
       Upto6, Upto7
  <2>3. \A i \in X2 : i[1] \notin N3
    BY DEF X2, X3, InterviewIndexes, SegmentIndex, TurnIndex, N3, InterviewTables
  <2> QED BY <1>8, <2>1, <2>2, <2>3, GroupDropped DEF d4
<1>10. Schema(d5, Upto5, Dated(Upto5), {}, {}, InterviewIndexes)
  <2>1. SegmentIndex \subseteq X2 /\ X2 \ SegmentIndex = InterviewIndexes
    BY IndexesReached DEF X2, X3
  <2> QED BY <1>9, <2>1, DropIndexSchema DEF d5
<1>11. Schema(d6, Upto4, Dated(Upto4), {}, {}, InterviewIndexes)
  <2>1. /\ DOMAIN SummaryTables \subseteq Upto5
        /\ Upto5 \subseteq DOMAIN Founded
        /\ Upto5 \ DOMAIN SummaryTables = Upto4
    BY FoundedIs, GroupsApart DEF Upto2, Upto3, Upto4, Upto5, Upto6, Upto7
  <2>2. \A t \in Upto5 : Founded[t].refs \cap DOMAIN SummaryTables = {}
    BY FoundedIs, RefsFound DEF SummaryTables, Upto2, Upto3, Upto4, Upto5, Upto6, Upto7
  <2>3. \A i \in InterviewIndexes : i[1] \notin DOMAIN SummaryTables
    BY DEF X2, X3, InterviewIndexes, SegmentIndex, TurnIndex, SummaryTables
  <2> QED BY <1>10, <2>1, <2>2, <2>3, GroupDropped DEF d6
<1>12. Schema(d7, T6, Dated(T6), {}, {}, InterviewIndexes)
  <2>1. N5 \subseteq Upto4 /\ Upto4 \subseteq DOMAIN Founded /\ Upto4 \ N5 = T6
    BY FoundedIs, GroupsApart DEF N5, T6, Upto2, Upto3, Upto4, Upto5, Upto6, Upto7,
       MeetingTables
  <2>2. \A t \in Upto4 : Founded[t].refs \cap N5 = {}
    BY FoundedIs, RefsFound DEF N5, Upto2, Upto3, Upto4, Upto5, Upto6, Upto7
  <2>3. \A i \in InterviewIndexes : i[1] \notin N5
    BY DEF X2, X3, InterviewIndexes, SegmentIndex, TurnIndex, N5
  <2> QED BY <1>11, <2>1, <2>2, <2>3, GroupDropped DEF d7
<1>13. Schema(d8, T6, Dated(T6), {}, {}, {})
  <2>1. /\ InterviewIndexes \subseteq InterviewIndexes
        /\ InterviewIndexes \ InterviewIndexes = {}
    BY IndexesReached DEF X2, X3
  <2> QED BY <1>12, <2>1, DropIndexSchema DEF d8
<1>14. Schema(d9, Upto3, Dated(Upto3), {}, {}, {})
  <2>1. N6 \subseteq T6 /\ T6 \subseteq DOMAIN Founded /\ T6 \ N6 = Upto3
    BY FoundedIs, GroupsApart DEF T6, N5, N6, Upto2, Upto3, Upto4, Upto5, Upto6, Upto7,
       MeetingTables
  <2>2. \A t \in T6 : Founded[t].refs \cap N6 = {}
    BY FoundedIs, RefsFound DEF T6, N5, N6, MeetingTables, Upto2, Upto3, Upto4, Upto5,
       Upto6, Upto7
  <2>3. \A i \in {} : i[1] \notin N6
    BY DEF X2, X3, InterviewIndexes, SegmentIndex, TurnIndex
  <2> QED BY <1>13, <2>1, <2>2, <2>3, GroupDropped DEF d9
<1>15. Schema(d10, Upto2, Dated(Upto2), {}, {}, {})
  <2>1. /\ DOMAIN WorkspaceTables \subseteq Upto3
        /\ Upto3 \subseteq DOMAIN Founded
        /\ Upto3 \ DOMAIN WorkspaceTables = Upto2
    BY FoundedIs, GroupsApart DEF Upto2, Upto3, Upto4, Upto5, Upto6, Upto7
  <2>2. \A t \in Upto3 : Founded[t].refs \cap DOMAIN WorkspaceTables = {}
    BY FoundedIs, RefsFound DEF WorkspaceTables, Upto2, Upto3, Upto4, Upto5, Upto6, Upto7
  <2>3. \A i \in {} : i[1] \notin DOMAIN WorkspaceTables
    BY DEF X2, X3, InterviewIndexes, SegmentIndex, TurnIndex
  <2> QED BY <1>14, <2>1, <2>2, <2>3, GroupDropped DEF d10
<1>16. Schema(d11, DOMAIN Roots, Dated(DOMAIN Roots), {}, {}, {})
  <2>1. /\ DOMAIN UserTables \subseteq Upto2
        /\ Upto2 \subseteq DOMAIN Founded
        /\ Upto2 \ DOMAIN UserTables = DOMAIN Roots
    BY FoundedIs, GroupsApart DEF Upto2, Upto3, Upto4, Upto5, Upto6, Upto7
  <2>2. \A t \in Upto2 : Founded[t].refs \cap DOMAIN UserTables = {}
    BY FoundedIs, RefsFound DEF UserTables, Upto2, Upto3, Upto4, Upto5, Upto6, Upto7
  <2>3. \A i \in {} : i[1] \notin DOMAIN UserTables
    BY DEF X2, X3, InterviewIndexes, SegmentIndex, TurnIndex
  <2> QED BY <1>15, <2>1, <2>2, <2>3, GroupDropped DEF d11
<1>17. Schema(d12, {}, Dated({}), {}, {}, {})
  <2>1. /\ DOMAIN Roots \subseteq DOMAIN Roots
        /\ DOMAIN Roots \subseteq DOMAIN Founded
        /\ DOMAIN Roots \ DOMAIN Roots = {}
    BY FoundedIs, GroupsApart DEF Upto2, Upto3, Upto4, Upto5, Upto6, Upto7
  <2>2. \A t \in DOMAIN Roots : Founded[t].refs \cap DOMAIN Roots = {}
    BY FoundedIs, RefsFound DEF Upto2, Upto3, Upto4, Upto5, Upto6, Upto7
  <2>3. \A i \in {} : i[1] \notin DOMAIN Roots
    BY DEF X2, X3, InterviewIndexes, SegmentIndex, TurnIndex
  <2> QED BY <1>16, <2>1, <2>2, <2>3, GroupDropped DEF d12
<1>18. /\ {} = TablesAt({}) /\ Dated({}) = DatesAt({}) /\ {} = AwareAt({})
      /\ {} = OthersAt({}) /\ {} = IndexAt({})
  BY DEF TablesAt, DatesAt, AwareAt, OthersAt, IndexAt, With, Dated
<1>19. S \ {r} = {}
  BY <1>4
<1> QED BY <1>3, <1>17, <1>18, <1>19 DEF HasSchema

-----------------------------------------------------------------------------
(* What a command does to the schema.                                       *)

\* The script of a revision on top of the closed set below it: it can fail for
\* one reason only.
LEMMA UpDoes ==
  ASSUME NEW d, NEW rows \in BOOLEAN, NEW z, NEW S \in Closed, HasSchema(d, S),
         NEW r \in Revision, r \notin S, S \cup {r} \in Closed
  PROVE  \/ HasSchema(Run(d, Script[r].up, rows, z), S \cup {r})
         \/ /\ r = "a8cbb47717b3" /\ rows
            /\ Failed(Run(d, Script[r].up, rows, z))
<1>1. CASE r = "cacd5554ba5a"
  <2>1. Script[r].up = Up_cacd
    BY <1>1 DEF Script, Revises
  <2> QED BY <1>1, <2>1, Up_cacd_Does
<1>2. CASE r = "d44e91e81013"
  <2>1. Script[r].up = Up_d44e
    BY <1>2 DEF Script, Revises
  <2>2. "cacd5554ba5a" \in S
    BY <1>2, BelowIs
  <2> QED BY <1>2, <2>1, <2>2, Up_d44e_Does
<1>3. CASE r = "8d114ef61fcc"
  <2>1. Script[r].up = Up_8d11
    BY <1>3 DEF Script, Revises
  <2> QED BY <1>3, <2>1, Up_8d11_Does
<1>4. CASE r = "a8cbb47717b3"
  <2>1. Script[r].up = Up_a8cb
    BY <1>4 DEF Script, Revises
  <2> QED BY <1>4, <2>1, Up_a8cb_Does
<1>5. CASE r = "864df66fbeb7"
  <2>1. Script[r].up = Up_864d
    BY <1>5 DEF Script, Revises
  <2> QED BY <1>5, <2>1, Up_864d_Does
<1>6. CASE r = "64a8c4b4d071"
  <2>1. Script[r].up = Up_64a8
    BY <1>6 DEF Script, Revises
  <2> QED BY <1>6, <2>1, Up_64a8_Does
<1>7. CASE r \in {"5b25f8695307", "6a2d8a454e64"}
  <2>1. Script[r].up = <<>>
    BY <1>7 DEF Script, Revises
  <2> QED BY <1>7, <2>1, EmptyScriptDoes
<1>8. CASE r = "7ba4c8acd02e"
  <2>1. Script[r].up = Up_7ba4
    BY <1>8 DEF Script, Revises
  <2> QED BY <1>8, <2>1, Up_7ba4_Does
<1>9. CASE r = "2cdac93874a4"
  <2>1. Script[r].up = Up_2cda
    BY <1>9 DEF Script, Revises
  <2> QED BY <1>9, <2>1, Up_2cda_Does
<1>10. CASE r = "8ba95b973a4a"
  <2>1. Script[r].up = Up_8ba9
    BY <1>10 DEF Script, Revises
  <2> QED BY <1>10, <2>1, Up_8ba9_Does
<1>11. CASE r = "480a265e5923"
  <2>1. Script[r].up = Up_480a
    BY <1>11 DEF Script, Revises
  <2> QED BY <1>11, <2>1, Up_480a_Does
<1> QED BY <1>1, <1>2, <1>3, <1>4, <1>5, <1>6, <1>7, <1>8, <1>9, <1>10, <1>11,
           RevisionIs

\* Undoing the script of a revision nothing applied revises: two cannot.
LEMMA DownDoes ==
  ASSUME NEW d, NEW rows, NEW z, NEW S \in Closed, HasSchema(d, S),
         NEW r \in S, S \ {r} \in Closed
  PROVE  \/ r \notin OneWay /\ HasSchema(Run(d, Script[r].down, rows, z), S \ {r})
         \/ r \in OneWay /\ Failed(Run(d, Script[r].down, rows, z))
<1>0. r \in Revision
  BY DEF Closed
<1>1. CASE r = "cacd5554ba5a"
  <2>1. Script[r].down = Down_cacd
    BY <1>0, <1>1 DEF Script, Revises
  <2> QED BY <1>1, <2>1, Down_cacd_Does DEF OneWay
<1>2. CASE r = "d44e91e81013"
  <2>1. Script[r].down = Down_d44e
    BY <1>0, <1>2 DEF Script, Revises
  <2> QED BY <1>2, <2>1, Down_d44e_Does DEF OneWay
<1>3. CASE r = "8d114ef61fcc"
  <2>1. Script[r].down = Down_8d11
    BY <1>0, <1>3 DEF Script, Revises
  <2> QED BY <1>3, <2>1, Down_8d11_Does DEF OneWay
<1>4. CASE r = "a8cbb47717b3"
  <2>1. Script[r].down = Down_a8cb
    BY <1>0, <1>4 DEF Script, Revises
  <2> QED BY <1>4, <2>1, Down_a8cb_Does DEF OneWay
<1>5. CASE r = "864df66fbeb7"
  <2>1. Script[r].down = Down_864d
    BY <1>0, <1>5 DEF Script, Revises
  <2> QED BY <1>5, <2>1, Down_864d_Fails DEF OneWay
<1>6. CASE r = "64a8c4b4d071"
  <2>1. Script[r].down = Down_64a8
    BY <1>0, <1>6 DEF Script, Revises
  <2> QED BY <1>6, <2>1, Down_64a8_Does DEF OneWay
<1>7. CASE r \in {"5b25f8695307", "6a2d8a454e64"}
  <2>1. Script[r].down = <<>>
    BY <1>0, <1>7 DEF Script, Revises
  <2> QED BY <1>7, <2>1, EmptyScriptDoes DEF OneWay
<1>8. CASE r = "7ba4c8acd02e"
  <2>1. Script[r].down = Down_7ba4
    BY <1>0, <1>8 DEF Script, Revises
  <2> QED BY <1>8, <2>1, Down_7ba4_Fails DEF OneWay
<1>9. CASE r = "2cdac93874a4"
  <2>1. Script[r].down = Down_2cda
    BY <1>0, <1>9 DEF Script, Revises
  <2> QED BY <1>9, <2>1, Down_2cda_Does DEF OneWay
<1>10. CASE r = "8ba95b973a4a"
  <2>1. Script[r].down = Down_8ba9
    BY <1>0, <1>10 DEF Script, Revises
  <2> QED BY <1>10, <2>1, Down_8ba9_Does DEF OneWay
<1>11. CASE r = "480a265e5923"
  <2>1. Script[r].down = Down_480a
    BY <1>0, <1>11 DEF Script, Revises
  <2> QED BY <1>11, <2>1, Down_480a_Does DEF OneWay
<1> QED BY <1>0, <1>1, <1>2, <1>3, <1>4, <1>5, <1>6, <1>7, <1>8, <1>9, <1>10, <1>11,
           RevisionIs

\* Nothing runs after a failure.
LEMMA RunStaysFailed ==
  ASSUME NEW d, NEW list, NEW rows, NEW z, Failed(d), Len(list) \in Nat
  PROVE  Failed(Run(d, list, rows, z))
<1>1. PICK after :
        /\ after[0] = d
        /\ \A n \in 1..Len(list) : after[n] = Execute(after[n-1], list[n], rows, z)
        /\ Run(d, list, rows, z) = after[Len(list)]
  BY RunSteps
<1> DEFINE N == {n \in Nat : n <= Len(list) => Failed(after[n])}
<1>2. 0 \in N
  BY <1>1
<1>3. ASSUME NEW n \in Nat, n \in N PROVE n + 1 \in N
  <2> SUFFICES ASSUME n + 1 <= Len(list) PROVE Failed(after[n+1])
    OBVIOUS
  <2>1. Failed(after[n]) /\ n + 1 \in 1..Len(list) /\ (n + 1) - 1 = n
    BY <1>3
  <2>2. after[n+1] = Execute(after[n], list[n+1], rows, z)
    BY <1>1, <2>1
  <2> QED BY <2>1, <2>2, ExecuteStaysFailed
<1>4. Len(list) \in N
  <2> HIDE DEF N
  <2> QED BY <1>2, <1>3, SetInduction
<1> QED BY <1>1, <1>4

\* The scripts of P on top of those of S: the schema of both.
LEMMA UpAllDoes ==
  ASSUME NEW d, NEW rows \in BOOLEAN, NEW z, NEW S \in Closed, HasSchema(d, S),
         NEW P, S \cup P \in Closed, S \cap P = {}
  PROVE  \/ HasSchema(UpAll(d, P, rows, z), S \cup P)
         \/ "a8cbb47717b3" \in P /\ rows /\ Failed(UpAll(d, P, rows, z))
<1>1. PICK after :
        /\ after[0] = d
        /\ \A n \in 1..Len(Order) :
             after[n] = IF Order[n] \in P
                        THEN Run(after[n-1], Script[Order[n]]["up"], rows, z)
                        ELSE after[n-1]
        /\ UpAll(d, P, rows, z) = after[Len(Order)]
  <2>1. Len(Order) \in Nat
    BY OrderIsSound
  <2>2. UpAll(d, P, rows, z) = RunAll(d, P, Order, "up", rows, z)
    BY DEF UpAll
  <2> QED BY <2>1, <2>2, RunAllSteps
<1> DEFINE Reached(n) == S \cup {q \in P : \E i \in 1..n : q = Order[i]}
           Good(n) == \/ HasSchema(after[n], Reached(n))
                      \/ "a8cbb47717b3" \in P /\ rows /\ Failed(after[n])
           N == {n \in Nat : n <= 12 => Good(n)}
<1>2. ASSUME NEW n \in 0..12 PROVE Reached(n) \in Closed
  <2>1. Reached(n) \subseteq Revision
    BY DEF Closed
  <2>2. ASSUME NEW q \in Reached(n), NEW p \in Script[q].parents PROVE p \in Reached(n)
    <3>1. CASE q \in S
      BY <3>1 DEF Closed
    <3>2. CASE q \in P /\ \E i \in 1..n : q = Order[i]
      <4>1. PICK i \in 1..n : q = Order[i]
        BY <3>2
      <4>2. i \in 1..12 /\ p \in S \cup P
        BY <3>2 DEF Closed
      <4>3. PICK j \in 1..(i - 1) : p = Order[j]
        BY <4>1, <4>2, OrderIsSound
      <4> QED BY <4>2, <4>3
    <3> QED BY <3>1, <3>2
  <2> QED BY <2>1, <2>2 DEF Closed
<1>3. 0 \in N
  <2>1. Reached(0) = S
    OBVIOUS
  <2> QED BY <1>1, <2>1
<1>4. ASSUME NEW n \in Nat, n \in N PROVE n + 1 \in N
  <2> SUFFICES ASSUME n + 1 <= 12 PROVE Good(n + 1)
    OBVIOUS
  <2> DEFINE r == Order[n + 1]
             d1 == after[n]
             d2 == after[n + 1]
  <2>1. Good(n) /\ n + 1 \in 1..Len(Order) /\ n \in 0..12 /\ n + 1 \in 0..12
    BY <1>4, OrderIsSound
  <2>2. d2 = IF r \in P THEN Run(d1, Script[r]["up"], rows, z) ELSE d1
    BY <1>1, <2>1
  <2>3. \A i \in 1..(n + 1) : i \in 1..n \/ i = n + 1
    OBVIOUS
  <2>4. CASE r \notin P
    <3>1. Reached(n + 1) = Reached(n)
      BY <2>3, <2>4
    <3> QED BY <2>1, <2>2, <2>4, <3>1
  <2>5. CASE r \in P
    <3>1. Reached(n + 1) = Reached(n) \cup {r}
      BY <2>3, <2>5
    <3>2. r \notin Reached(n)
      <4>1. r \notin S
        BY <2>5
      <4>2. \A i \in 1..n : Order[i] # Order[n + 1]
        BY <2>1, OrderIsSound
      <4> QED BY <4>1, <4>2
    <3>3. r \in Revision
      BY <2>5 DEF Closed
    <3>4. Reached(n) \in Closed /\ Reached(n) \cup {r} \in Closed
      BY <1>2, <2>1, <3>1
    <3>5. Script[r]["up"] = Script[r].up /\ Len(Script[r].up) \in Nat
      BY <3>3, ScriptsHarmless DEF HarmlessScript
    <3>6. CASE HasSchema(d1, Reached(n))
      <4>1. \/ HasSchema(d2, Reached(n) \cup {r})
            \/ r = "a8cbb47717b3" /\ rows /\ Failed(d2)
        <5> HIDE DEF Reached, d1, d2, r
        <5> QED BY <2>2, <2>5, <3>2, <3>3, <3>4, <3>6, UpDoes
      <4> QED BY <2>5, <3>1, <4>1
    <3>7. CASE "a8cbb47717b3" \in P /\ rows /\ Failed(d1)
      <4>1. Failed(d2)
        <5> HIDE DEF d1, d2, r
        <5> QED BY <2>2, <2>5, <3>5, <3>7, RunStaysFailed
      <4> QED BY <3>7, <4>1
    <3> QED BY <2>1, <3>6, <3>7
  <2> QED BY <2>4, <2>5
<1>5. 12 \in N
  <2> HIDE DEF N
  <2> QED BY <1>3, <1>4, SetInduction
<1>6. Reached(12) = S \cup P
  <2>1. \A q \in P : \E i \in 1..12 : q = Order[i]
    BY OrderIsSound DEF Closed, Revision
  <2> QED BY <2>1
<1>7. Good(12)
  BY <1>5
<1>8. UpAll(d, P, rows, z) = after[12]
  BY <1>1, OrderIsSound
<1> HIDE DEF Reached
<1> QED BY <1>6, <1>7, <1>8

\* Undoing the scripts of U, those on top of what stays.
LEMMA DownAllDoes ==
  ASSUME NEW d, NEW rows, NEW z, NEW S \in Closed, HasSchema(d, S),
         NEW U, U \subseteq S, S \ U \in Closed
  PROVE  \/ OneWay \cap U = {} /\ HasSchema(DownAll(d, U, rows, z), S \ U)
         \/ OneWay \cap U # {} /\ Failed(DownAll(d, U, rows, z))
<1> DEFINE Back == Reverse(Order)
<1>0. /\ Len(Back) = 12
      /\ \A n \in 1..12 : Back[n] = Order[13 - n]
  BY OrderIsSound DEF Reverse
<1>1. PICK after :
        /\ after[0] = d
        /\ \A n \in 1..Len(Back) :
             after[n] = IF Back[n] \in U
                        THEN Run(after[n-1], Script[Back[n]]["down"], rows, z)
                        ELSE after[n-1]
        /\ DownAll(d, U, rows, z) = after[Len(Back)]
  <2>1. Len(Back) \in Nat
    BY <1>0
  <2> HIDE DEF Back
  <2>2. DownAll(d, U, rows, z) = RunAll(d, U, Back, "down", rows, z)
    BY DEF DownAll, Back
  <2> QED BY <2>1, <2>2, RunAllSteps
<1> HIDE DEF Back
<1> DEFINE Left(n) == S \ {q \in U : \E i \in (13 - n)..12 : q = Order[i]}
           Good(n) == \/ OneWay \cap S \subseteq Left(n) /\ HasSchema(after[n], Left(n))
                      \/ OneWay \cap U # {} /\ Failed(after[n])
           N == {n \in Nat : n <= 12 => Good(n)}
<1>2. ASSUME NEW n \in 0..12 PROVE Left(n) \in Closed
  <2>1. Left(n) \subseteq Revision
    BY DEF Closed
  <2>2. ASSUME NEW q \in Left(n), NEW p \in Script[q].parents, p \notin Left(n)
        PROVE  FALSE
    <3>1. q \in S /\ p \in S
      BY DEF Closed
    <3>2. PICK j \in (13 - n)..12 : p \in U /\ p = Order[j]
      BY <2>2, <3>1
    <3>3. PICK i \in 1..12 : q = Order[i]
      BY <2>1, OrderIsSound DEF Revision
    <3>4. PICK k \in 1..(i - 1) : p = Order[k]
      BY <3>3, OrderIsSound
    <3>5. k = j
      <4>1. k \in 1..12 /\ j \in 1..12
        OBVIOUS
      <4> QED BY <3>2, <3>4, <4>1, OrderIsSound
    <3>6. i \in (13 - n)..12
      BY <3>5
    <3>7. q \in S \ U
      BY <3>1, <3>3, <3>6
    <3> QED BY <3>2, <3>7 DEF Closed
  <2> QED BY <2>1, <2>2 DEF Closed
<1>3. 0 \in N
  <2>1. Left(0) = S
    OBVIOUS
  <2> QED BY <1>1, <2>1
<1>4. ASSUME NEW n \in Nat, n \in N PROVE n + 1 \in N
  <2> SUFFICES ASSUME n + 1 <= 12 PROVE Good(n + 1)
    OBVIOUS
  <2> DEFINE r == Order[13 - (n + 1)]
             d1 == after[n]
             d2 == after[n + 1]
  <2>1. /\ Good(n) /\ n + 1 \in 1..Len(Back) /\ n \in 0..12 /\ n + 1 \in 0..12
        /\ Back[n + 1] = r
    BY <1>0, <1>4
  <2>2. d2 = IF r \in U THEN Run(d1, Script[r]["down"], rows, z) ELSE d1
    BY <1>1, <2>1
  <2>3. \A i \in (13 - (n + 1))..12 : i \in (13 - n)..12 \/ i = 13 - (n + 1)
    OBVIOUS
  <2>4. /\ \A i \in (13 - n)..12 : i \in (13 - (n + 1))..12
        /\ 13 - (n + 1) \in (13 - (n + 1))..12
    OBVIOUS
  <2>5. CASE r \notin U
    <3>1. Left(n + 1) = Left(n)
      BY <2>3, <2>4, <2>5
    <3> QED BY <2>1, <2>2, <2>5, <3>1
  <2>6. CASE r \in U
    <3>1. Left(n + 1) = Left(n) \ {r}
      BY <2>3, <2>4, <2>6
    <3>2. r \in Left(n)
      <4>1. \A i \in (13 - n)..12 : Order[i] # Order[13 - (n + 1)]
        <5>1. 13 - (n + 1) \in 1..12
          OBVIOUS
        <5>2. \A i \in (13 - n)..12 : i \in 1..12 /\ i # 13 - (n + 1)
          OBVIOUS
        <5> QED BY <5>1, <5>2, OrderIsSound
      <4> QED BY <2>6, <4>1
    <3>3. r \in Revision
      BY <2>6 DEF Closed
    <3>4. Left(n) \in Closed /\ Left(n) \ {r} \in Closed
      BY <1>2, <2>1, <3>1
    <3>5. Script[r]["down"] = Script[r].down /\ Len(Script[r].down) \in Nat
      BY <3>3, ScriptsHarmless DEF HarmlessScript
    <3>6. CASE OneWay \cap S \subseteq Left(n) /\ HasSchema(d1, Left(n))
      <4>1. \/ r \notin OneWay /\ HasSchema(d2, Left(n) \ {r})
            \/ r \in OneWay /\ Failed(d2)
        <5> HIDE DEF Left, d1, d2, r
        <5> QED BY <2>2, <2>6, <3>2, <3>4, <3>6, DownDoes
      <4>2. CASE r \notin OneWay /\ HasSchema(d2, Left(n) \ {r})
        <5>1. HasSchema(d2, Left(n + 1))
          BY <3>1, <4>2
        <5>2. OneWay \cap S \subseteq Left(n + 1)
          <6> HIDE DEF Left, r
          <6> QED BY <3>1, <3>6, <4>2
        <5> QED BY <5>1, <5>2
      <4>3. CASE r \in OneWay /\ Failed(d2)
        <5>1. OneWay \cap U # {}
          <6> HIDE DEF r
          <6> QED BY <2>6, <4>3
        <5> QED BY <4>3, <5>1
      <4> QED BY <4>1, <4>2, <4>3
    <3>7. CASE OneWay \cap U # {} /\ Failed(d1)
      <4>1. Failed(d2)
        <5> HIDE DEF d1, d2, r
        <5> QED BY <2>2, <2>6, <3>5, <3>7, RunStaysFailed
      <4> QED BY <3>7, <4>1
    <3> QED BY <2>1, <3>6, <3>7
  <2> QED BY <2>5, <2>6
<1>5. 12 \in N
  <2> HIDE DEF N
  <2> QED BY <1>3, <1>4, SetInduction
<1>6. Left(12) = S \ U
  <2>1. \A q \in U : \E i \in 1..12 : q = Order[i]
    BY OrderIsSound DEF Closed, Revision
  <2> QED BY <2>1
<1>7. Good(12)
  BY <1>5
<1>8. DownAll(d, U, rows, z) = after[12]
  BY <1>0, <1>1
<1> HIDE DEF Left
<1> QED BY <1>6, <1>7, <1>8

-----------------------------------------------------------------------------
(* The models against the scripts.                                          *)

\* No two groups of models have a table in common.
LEMMA ModelsApart ==
  /\ DOMAIN UserModels \cap DOMAIN VerificationModel = {}
  /\ (DOMAIN UserModels \cup DOMAIN VerificationModel) \cap DOMAIN WorkspaceModels = {}
  /\ (DOMAIN UserModels \cup DOMAIN VerificationModel \cup DOMAIN WorkspaceModels)
       \cap DOMAIN MeetingModels = {}
  /\ (DOMAIN UserModels \cup DOMAIN VerificationModel \cup DOMAIN WorkspaceModels
        \cup DOMAIN MeetingModels) \cap DOMAIN TranscriptModels = {}
  /\ (DOMAIN UserModels \cup DOMAIN VerificationModel \cup DOMAIN WorkspaceModels
        \cup DOMAIN MeetingModels \cup DOMAIN TranscriptModels)
       \cap DOMAIN ScorecardModels = {}
  /\ (DOMAIN UserModels \cup DOMAIN VerificationModel \cup DOMAIN WorkspaceModels
        \cup DOMAIN MeetingModels \cup DOMAIN TranscriptModels
        \cup DOMAIN ScorecardModels) \cap DOMAIN IntegrationModels = {}
  /\ (DOMAIN UserModels \cup DOMAIN VerificationModel \cup DOMAIN WorkspaceModels
        \cup DOMAIN MeetingModels \cup DOMAIN TranscriptModels
        \cup DOMAIN ScorecardModels \cup DOMAIN IntegrationModels)
       \cap DOMAIN AskMindModels = {}
  /\ (DOMAIN UserModels \cup DOMAIN VerificationModel \cup DOMAIN WorkspaceModels
        \cup DOMAIN MeetingModels \cup DOMAIN TranscriptModels
        \cup DOMAIN ScorecardModels \cup DOMAIN IntegrationModels
        \cup DOMAIN AskMindModels) \cap DOMAIN InterviewModels = {}
<1>1. DOMAIN UserModels \cap DOMAIN VerificationModel = {}
  BY DEF UserModels, VerificationModel
<1>2. (DOMAIN UserModels \cup DOMAIN VerificationModel) \cap DOMAIN WorkspaceModels = {}
  BY DEF UserModels, VerificationModel, WorkspaceModels
<1>3. (DOMAIN UserModels \cup DOMAIN VerificationModel \cup DOMAIN WorkspaceModels)
        \cap DOMAIN MeetingModels = {}
  BY DEF UserModels, VerificationModel, WorkspaceModels, MeetingModels
<1>4. (DOMAIN UserModels \cup DOMAIN VerificationModel \cup DOMAIN WorkspaceModels
         \cup DOMAIN MeetingModels) \cap DOMAIN TranscriptModels = {}
  BY DEF UserModels, VerificationModel, WorkspaceModels, MeetingModels, TranscriptModels
<1>5. (DOMAIN UserModels \cup DOMAIN VerificationModel \cup DOMAIN WorkspaceModels
         \cup DOMAIN MeetingModels \cup DOMAIN TranscriptModels)
        \cap DOMAIN ScorecardModels = {}
  BY DEF UserModels, VerificationModel, WorkspaceModels, MeetingModels, TranscriptModels,
     ScorecardModels
<1>6. (DOMAIN UserModels \cup DOMAIN VerificationModel \cup DOMAIN WorkspaceModels
         \cup DOMAIN MeetingModels \cup DOMAIN TranscriptModels
         \cup DOMAIN ScorecardModels) \cap DOMAIN IntegrationModels = {}
  BY DEF UserModels, VerificationModel, WorkspaceModels, MeetingModels, TranscriptModels,
     ScorecardModels, IntegrationModels
<1>7. (DOMAIN UserModels \cup DOMAIN VerificationModel \cup DOMAIN WorkspaceModels
         \cup DOMAIN MeetingModels \cup DOMAIN TranscriptModels
         \cup DOMAIN ScorecardModels \cup DOMAIN IntegrationModels)
        \cap DOMAIN AskMindModels = {}
  BY DEF UserModels, VerificationModel, WorkspaceModels, MeetingModels, TranscriptModels,
     ScorecardModels, IntegrationModels, AskMindModels
<1>8. (DOMAIN UserModels \cup DOMAIN VerificationModel \cup DOMAIN WorkspaceModels
         \cup DOMAIN MeetingModels \cup DOMAIN TranscriptModels
         \cup DOMAIN ScorecardModels \cup DOMAIN IntegrationModels
         \cup DOMAIN AskMindModels) \cap DOMAIN InterviewModels = {}
  BY DEF UserModels, VerificationModel, WorkspaceModels, MeetingModels, TranscriptModels,
     ScorecardModels, IntegrationModels, AskMindModels, InterviewModels
<1> QED BY <1>1, <1>2, <1>3, <1>4, <1>5, <1>6, <1>7, <1>8

\* The models, group by group.
LEMMA ModelsIs ==
  /\ DOMAIN Models = DOMAIN UserModels \cup DOMAIN VerificationModel
       \cup DOMAIN WorkspaceModels \cup DOMAIN MeetingModels \cup DOMAIN TranscriptModels
       \cup DOMAIN ScorecardModels \cup DOMAIN IntegrationModels
       \cup DOMAIN AskMindModels \cup DOMAIN InterviewModels
  /\ \A t \in DOMAIN UserModels : Models[t] = UserModels[t]
  /\ \A t \in DOMAIN VerificationModel : Models[t] = VerificationModel[t]
  /\ \A t \in DOMAIN WorkspaceModels : Models[t] = WorkspaceModels[t]
  /\ \A t \in DOMAIN MeetingModels : Models[t] = MeetingModels[t]
  /\ \A t \in DOMAIN TranscriptModels : Models[t] = TranscriptModels[t]
  /\ \A t \in DOMAIN ScorecardModels : Models[t] = ScorecardModels[t]
  /\ \A t \in DOMAIN IntegrationModels : Models[t] = IntegrationModels[t]
  /\ \A t \in DOMAIN AskMindModels : Models[t] = AskMindModels[t]
  /\ \A t \in DOMAIN InterviewModels : Models[t] = InterviewModels[t]
BY ModelsApart DEF Models, Over

\* The stamps of a table, and the dates with time zone some tables have besides.
BothStamps == {"created_at", "updated_at"}
MoreAware(t) ==
  IF t = "active_sessions" THEN {"last_seen_at"}
  ELSE IF t = "password_reset_tokens" THEN {"expires_at", "used_at"} ELSE {}

\* A model m and what cacd5554ba5a creates for it.
Agrees(t, m, f) ==
  /\ m.refs = f.refs
  /\ f.times \subseteq m.aware \cup m.naive
  /\ m.naive \subseteq f.times
  /\ m.aware = BothStamps \cup MoreAware(t)

\* The fields of a model and of a table.
LEMMA FieldsAre ==
  /\ \A refs, aware, naive :
       /\ Model(refs, aware, naive).refs = refs
       /\ Model(refs, aware, naive).aware = aware \cup BothStamps
       /\ Model(refs, aware, naive).naive = naive
  /\ \A refs, times : Table(refs, times).refs = refs /\ Table(refs, times).times = times
BY DEF Model, Table, BothStamps

\* The models and cacd5554ba5a agree on every table that has no later script.
LEMMA ModelsAgree ==
  \A t \in DOMAIN Models \ {"refresh_tokens", "email_verification_tokens"} :
    t \in DOMAIN Founded /\ Agrees(t, Models[t], Founded[t])
<1>1. \A t \in DOMAIN UserModels \ {"refresh_tokens"} :
        t \in DOMAIN Founded /\ Agrees(t, UserModels[t], Founded[t])
  <2>1. \A t \in DOMAIN UserModels \ {"refresh_tokens"} : t \in DOMAIN Founded
    BY FoundedIs DEF UserModels, Roots, UserTables
  <2>2. \A t \in DOMAIN UserModels \ {"refresh_tokens"} :
          UserModels[t].refs = Founded[t].refs
    BY FoundedIs, FieldsAre DEF UserModels, Roots, UserTables
  <2>3. \A t \in DOMAIN UserModels \ {"refresh_tokens"} :
          UserModels[t].naive \subseteq Founded[t].times
    BY FoundedIs, FieldsAre DEF UserModels, Roots, UserTables
  <2>4. \A t \in DOMAIN UserModels \ {"refresh_tokens"} :
          UserModels[t].aware = BothStamps \cup MoreAware(t)
    BY FieldsAre DEF UserModels, MoreAware
  <2>5. \A t \in DOMAIN UserModels \ {"refresh_tokens"} :
          Founded[t].times \subseteq UserModels[t].aware \cup UserModels[t].naive
    BY FoundedIs, FieldsAre DEF UserModels, Roots, UserTables, BothStamps
  <2> QED BY <2>1, <2>2, <2>3, <2>4, <2>5 DEF Agrees
<1>2. \A t \in DOMAIN WorkspaceModels :
        t \in DOMAIN Founded /\ Agrees(t, WorkspaceModels[t], Founded[t])
  <2>1. \A t \in DOMAIN WorkspaceModels : t \in DOMAIN Founded
    BY FoundedIs DEF WorkspaceModels, UserTables, WorkspaceTables
  <2>2. \A t \in DOMAIN WorkspaceModels : WorkspaceModels[t].refs = Founded[t].refs
    BY FoundedIs, FieldsAre DEF WorkspaceModels, UserTables, WorkspaceTables
  <2>3. \A t \in DOMAIN WorkspaceModels :
          WorkspaceModels[t].naive \subseteq Founded[t].times
    BY FoundedIs, FieldsAre DEF WorkspaceModels, UserTables, WorkspaceTables
  <2>4. \A t \in DOMAIN WorkspaceModels :
          WorkspaceModels[t].aware = BothStamps \cup MoreAware(t)
    BY FieldsAre DEF WorkspaceModels, MoreAware
  <2>5. \A t \in DOMAIN WorkspaceModels :
          Founded[t].times \subseteq WorkspaceModels[t].aware
            \cup WorkspaceModels[t].naive
    BY FoundedIs, FieldsAre DEF WorkspaceModels, UserTables, WorkspaceTables, BothStamps
  <2> QED BY <2>1, <2>2, <2>3, <2>4, <2>5 DEF Agrees
<1>3. \A t \in DOMAIN MeetingModels :
        t \in DOMAIN Founded /\ Agrees(t, MeetingModels[t], Founded[t])
  <2>1. \A t \in DOMAIN MeetingModels : t \in DOMAIN Founded
    BY FoundedIs DEF MeetingModels, WorkspaceTables, MeetingTables
  <2>2. \A t \in DOMAIN MeetingModels : MeetingModels[t].refs = Founded[t].refs
    BY FoundedIs, FieldsAre DEF MeetingModels, WorkspaceTables, MeetingTables
  <2>3. \A t \in DOMAIN MeetingModels : MeetingModels[t].naive \subseteq Founded[t].times
    BY FoundedIs, FieldsAre DEF MeetingModels, WorkspaceTables, MeetingTables
  <2>4. \A t \in DOMAIN MeetingModels :
          MeetingModels[t].aware = BothStamps \cup MoreAware(t)
    BY FieldsAre DEF MeetingModels, MoreAware
  <2>5. \A t \in DOMAIN MeetingModels :
          Founded[t].times \subseteq MeetingModels[t].aware \cup MeetingModels[t].naive
    BY FoundedIs, FieldsAre DEF MeetingModels, WorkspaceTables, MeetingTables, BothStamps
  <2> QED BY <2>1, <2>2, <2>3, <2>4, <2>5 DEF Agrees
<1>4. \A t \in DOMAIN TranscriptModels :
        t \in DOMAIN Founded /\ Agrees(t, TranscriptModels[t], Founded[t])
  <2>1. \A t \in DOMAIN TranscriptModels : t \in DOMAIN Founded
    BY FoundedIs DEF TranscriptModels, MeetingTables, SummaryTables
  <2>2. \A t \in DOMAIN TranscriptModels : TranscriptModels[t].refs = Founded[t].refs
    BY FoundedIs, FieldsAre DEF TranscriptModels, MeetingTables, SummaryTables
  <2>3. \A t \in DOMAIN TranscriptModels :
          TranscriptModels[t].naive \subseteq Founded[t].times
    BY FoundedIs, FieldsAre DEF TranscriptModels, MeetingTables, SummaryTables
  <2>4. \A t \in DOMAIN TranscriptModels :
          TranscriptModels[t].aware = BothStamps \cup MoreAware(t)
    BY FieldsAre DEF TranscriptModels, MoreAware
  <2>5. \A t \in DOMAIN TranscriptModels :
          Founded[t].times \subseteq TranscriptModels[t].aware
            \cup TranscriptModels[t].naive
    BY FoundedIs, FieldsAre DEF TranscriptModels, MeetingTables, SummaryTables, BothStamps
  <2> QED BY <2>1, <2>2, <2>3, <2>4, <2>5 DEF Agrees
<1>5. \A t \in DOMAIN ScorecardModels :
        t \in DOMAIN Founded /\ Agrees(t, ScorecardModels[t], Founded[t])
  <2>1. \A t \in DOMAIN ScorecardModels : t \in DOMAIN Founded
    BY FoundedIs DEF ScorecardModels, WorkspaceTables, SummaryTables, InterviewTables,
       ScoreTables
  <2>2. \A t \in DOMAIN ScorecardModels : ScorecardModels[t].refs = Founded[t].refs
    BY FoundedIs, FieldsAre DEF ScorecardModels, WorkspaceTables, SummaryTables,
       InterviewTables, ScoreTables
  <2>3. \A t \in DOMAIN ScorecardModels :
          ScorecardModels[t].naive \subseteq Founded[t].times
    BY FoundedIs, FieldsAre DEF ScorecardModels, WorkspaceTables, SummaryTables,
       InterviewTables, ScoreTables
  <2>4. \A t \in DOMAIN ScorecardModels :
          ScorecardModels[t].aware = BothStamps \cup MoreAware(t)
    BY FieldsAre DEF ScorecardModels, MoreAware
  <2>5. \A t \in DOMAIN ScorecardModels :
          Founded[t].times \subseteq ScorecardModels[t].aware
            \cup ScorecardModels[t].naive
    BY FoundedIs, FieldsAre DEF ScorecardModels, WorkspaceTables, SummaryTables,
       InterviewTables, ScoreTables, BothStamps
  <2> QED BY <2>1, <2>2, <2>3, <2>4, <2>5 DEF Agrees
<1>6. \A t \in DOMAIN IntegrationModels :
        t \in DOMAIN Founded /\ Agrees(t, IntegrationModels[t], Founded[t])
  <2>1. \A t \in DOMAIN IntegrationModels : t \in DOMAIN Founded
    BY FoundedIs DEF IntegrationModels, UserTables, WorkspaceTables, MeetingTables,
       SummaryTables
  <2>2. \A t \in DOMAIN IntegrationModels : IntegrationModels[t].refs = Founded[t].refs
    BY FoundedIs, FieldsAre DEF IntegrationModels, UserTables, WorkspaceTables,
       MeetingTables, SummaryTables
  <2>3. \A t \in DOMAIN IntegrationModels :
          IntegrationModels[t].naive \subseteq Founded[t].times
    BY FoundedIs, FieldsAre DEF IntegrationModels, UserTables, WorkspaceTables,
       MeetingTables, SummaryTables
  <2>4. \A t \in DOMAIN IntegrationModels :
          IntegrationModels[t].aware = BothStamps \cup MoreAware(t)
    BY FieldsAre DEF IntegrationModels, MoreAware
  <2>5. \A t \in DOMAIN IntegrationModels :
          Founded[t].times \subseteq IntegrationModels[t].aware
            \cup IntegrationModels[t].naive
    BY FoundedIs, FieldsAre DEF IntegrationModels, UserTables, WorkspaceTables,
       MeetingTables, SummaryTables, BothStamps
  <2> QED BY <2>1, <2>2, <2>3, <2>4, <2>5 DEF Agrees
<1>7. \A t \in DOMAIN AskMindModels :
        t \in DOMAIN Founded /\ Agrees(t, AskMindModels[t], Founded[t])
  <2>1. \A t \in DOMAIN AskMindModels : t \in DOMAIN Founded
    BY FoundedIs DEF AskMindModels, MeetingTables, SummaryTables
  <2>2. \A t \in DOMAIN AskMindModels : AskMindModels[t].refs = Founded[t].refs
    BY FoundedIs, FieldsAre DEF AskMindModels, MeetingTables, SummaryTables
  <2>3. \A t \in DOMAIN AskMindModels : AskMindModels[t].naive \subseteq Founded[t].times
    BY FoundedIs, FieldsAre DEF AskMindModels, MeetingTables, SummaryTables
  <2>4. \A t \in DOMAIN AskMindModels :
          AskMindModels[t].aware = BothStamps \cup MoreAware(t)
    BY FieldsAre DEF AskMindModels, MoreAware
  <2>5. \A t \in DOMAIN AskMindModels :
          Founded[t].times \subseteq AskMindModels[t].aware \cup AskMindModels[t].naive
    BY FoundedIs, FieldsAre DEF AskMindModels, MeetingTables, SummaryTables, BothStamps
  <2> QED BY <2>1, <2>2, <2>3, <2>4, <2>5 DEF Agrees
<1>8. \A t \in DOMAIN InterviewModels :
        t \in DOMAIN Founded /\ Agrees(t, InterviewModels[t], Founded[t])
  <2>1. \A t \in DOMAIN InterviewModels : t \in DOMAIN Founded
    BY FoundedIs DEF InterviewModels, WorkspaceTables, MeetingTables, SummaryTables,
       InterviewTables
  <2>2. \A t \in DOMAIN InterviewModels : InterviewModels[t].refs = Founded[t].refs
    BY FoundedIs, FieldsAre DEF InterviewModels, WorkspaceTables, MeetingTables,
       SummaryTables, InterviewTables
  <2>3. \A t \in DOMAIN InterviewModels :
          InterviewModels[t].naive \subseteq Founded[t].times
    BY FoundedIs, FieldsAre DEF InterviewModels, WorkspaceTables, MeetingTables,
       SummaryTables, InterviewTables
  <2>4. \A t \in DOMAIN InterviewModels :
          InterviewModels[t].aware = BothStamps \cup MoreAware(t)
    BY FieldsAre DEF InterviewModels, MoreAware
  <2>5. \A t \in DOMAIN InterviewModels :
          Founded[t].times \subseteq InterviewModels[t].aware
            \cup InterviewModels[t].naive
    BY FoundedIs, FieldsAre DEF InterviewModels, WorkspaceTables, MeetingTables,
       SummaryTables, InterviewTables, BothStamps
  <2> QED BY <2>1, <2>2, <2>3, <2>4, <2>5 DEF Agrees
<1>9. DOMAIN VerificationModel = {"email_verification_tokens"}
  BY DEF VerificationModel
<1> QED BY <1>1, <1>2, <1>3, <1>4, <1>5, <1>6, <1>7, <1>8, <1>9, ModelsIs

\* Every table has a model.
LEMMA FoundedHasModels ==
  /\ DOMAIN Founded \subseteq DOMAIN Models
  /\ {"refresh_tokens", "email_verification_tokens"} \subseteq DOMAIN Models
<1>1. DOMAIN Roots \cup DOMAIN UserTables \subseteq DOMAIN Models
  BY ModelsIs DEF Roots, UserTables, UserModels, IntegrationModels, WorkspaceModels
<1>2. DOMAIN WorkspaceTables \subseteq DOMAIN Models
  BY ModelsIs DEF WorkspaceTables, WorkspaceModels, MeetingModels, ScorecardModels,
     IntegrationModels, InterviewModels
<1>3. DOMAIN MeetingTables \subseteq DOMAIN Models
  BY ModelsIs DEF MeetingTables, MeetingModels, TranscriptModels, IntegrationModels,
     AskMindModels, InterviewModels
<1>4. DOMAIN SummaryTables \subseteq DOMAIN Models
  BY ModelsIs DEF SummaryTables, TranscriptModels, ScorecardModels, IntegrationModels,
     AskMindModels, InterviewModels
<1>5. DOMAIN InterviewTables \cup DOMAIN ScoreTables \subseteq DOMAIN Models
  BY ModelsIs DEF InterviewTables, ScoreTables, ScorecardModels, InterviewModels
<1>6. {"refresh_tokens", "email_verification_tokens"} \subseteq DOMAIN Models
  BY ModelsIs DEF UserModels, VerificationModel
<1> QED BY <1>1, <1>2, <1>3, <1>4, <1>5, <1>6, FoundedIs

\* The two tables that come later.
LEMMA LaterModels ==
  /\ Models["refresh_tokens"].refs = RefreshTokenTable["refresh_tokens"].refs
  /\ Models["refresh_tokens"].aware = {"expires_at", "created_at", "updated_at"}
  /\ Models["refresh_tokens"].naive = {}
  /\ Models["email_verification_tokens"].refs
       = VerificationTable["email_verification_tokens"].refs
  /\ Models["email_verification_tokens"].aware = {"expires_at", "used_at", "created_at"}
  /\ Models["email_verification_tokens"].naive = {}
  /\ RefreshTokenTimes = {"refresh_tokens"} \X {"expires_at", "created_at"}
  /\ VerificationTimes
       = {"email_verification_tokens"} \X {"expires_at", "used_at", "created_at"}
<1>1. /\ Models["refresh_tokens"] = Model({"users"}, {"expires_at"}, {})
      /\ Models["email_verification_tokens"]
           = [refs |-> {"users"}, aware |-> {"expires_at", "used_at", "created_at"},
              naive |-> {}]
  BY ModelsIs DEF UserModels, VerificationModel
<1>2. /\ RefreshTokenTimes = {"refresh_tokens"} \X {"expires_at", "created_at"}
      /\ VerificationTimes
           = {"email_verification_tokens"} \X {"expires_at", "used_at", "created_at"}
  BY DEF RefreshTokenTimes, VerificationTimes, RefreshTokenTable, VerificationTable,
     Table, TimesOf
<1>3. /\ RefreshTokenTable["refresh_tokens"].refs = {"users"}
      /\ VerificationTable["email_verification_tokens"].refs = {"users"}
  BY DEF RefreshTokenTable, VerificationTable, Table
<1> QED BY <1>1, <1>2, <1>3 DEF Model

\* 8ba95b973a4a converts the stamps of every table of cacd5554ba5a.
LEMMA AllStandardized ==
  \A t \in DOMAIN Founded : {t} \X BothStamps \subseteq Standardized
<1>1. \A t \in DOMAIN Roots \cup DOMAIN UserTables :
        <<t, "created_at">> \in Standardized /\ <<t, "updated_at">> \in Standardized
  BY DEF Roots, UserTables, Standardized, ToScorecards, ToPasswordResets, ToTranscripts,
     ToWorkspaces, Stamps, Columns
<1>2. \A t \in DOMAIN WorkspaceTables :
        <<t, "created_at">> \in Standardized /\ <<t, "updated_at">> \in Standardized
  BY DEF WorkspaceTables, Standardized, ToScorecards, ToPasswordResets, ToTranscripts,
     ToWorkspaces, Stamps, Columns
<1>3. \A t \in DOMAIN MeetingTables :
        <<t, "created_at">> \in Standardized /\ <<t, "updated_at">> \in Standardized
  BY DEF MeetingTables, Standardized, ToScorecards, ToPasswordResets, ToTranscripts,
     ToWorkspaces, Stamps, Columns
<1>4. \A t \in DOMAIN SummaryTables :
        <<t, "created_at">> \in Standardized /\ <<t, "updated_at">> \in Standardized
  BY DEF SummaryTables, Standardized, ToScorecards, ToPasswordResets, ToTranscripts,
     ToWorkspaces, Stamps, Columns
<1>5. \A t \in DOMAIN InterviewTables \cup DOMAIN ScoreTables :
        <<t, "created_at">> \in Standardized /\ <<t, "updated_at">> \in Standardized
  BY DEF InterviewTables, ScoreTables, Standardized, ToScorecards, ToPasswordResets,
     ToTranscripts, ToWorkspaces, Stamps, Columns
<1>6. \A t \in DOMAIN Founded :
        <<t, "created_at">> \in Standardized /\ <<t, "updated_at">> \in Standardized
  BY <1>1, <1>2, <1>3, <1>4, <1>5, FoundedIs
<1> SUFFICES ASSUME NEW t \in DOMAIN Founded, NEW x \in BothStamps
             PROVE  <<t, x>> \in Standardized
  OBVIOUS
<1> QED BY <1>6 DEF BothStamps

\* 8ba95b973a4a converts the three dates that are no stamps and aware in the models.
LEMMA MoreStandardized ==
  \A t \in DOMAIN Founded : {t} \X MoreAware(t) \subseteq Standardized
BY DEF Standardized, ToScorecards, ToPasswordResets, MoreAware

\* And nothing else.
LEMMA OnlyStandardized ==
  \A c \in Standardized :
    \E t \in DOMAIN Founded : c \in {t} \X (BothStamps \cup MoreAware(t))
<1> DEFINE Fits(c) ==
            \E t \in DOMAIN Founded : c \in {t} \X (BothStamps \cup MoreAware(t))
<1>1. \A t \in DOMAIN Founded : Fits(<<t, "created_at">>) /\ Fits(<<t, "updated_at">>)
  BY DEF BothStamps
<1>2. /\ Fits(<<"active_sessions", "last_seen_at">>)
      /\ \A c \in {"password_reset_tokens"} \X {"expires_at", "used_at"} : Fits(c)
  <2>1. {"active_sessions", "password_reset_tokens"} \subseteq DOMAIN Founded
    BY FoundedIs DEF UserTables
  <2> QED BY <2>1 DEF MoreAware
<1> HIDE DEF Fits
<1>3. \A c \in ToScorecards : Fits(c)
  <2>1. \A c \in ToScorecards : c[1] \in DOMAIN Founded
    BY FoundedIs DEF ToScorecards, Stamps, Columns, UserTables, WorkspaceTables,
       MeetingTables, SummaryTables, InterviewTables
  <2>2. \A c \in ToScorecards :
          \/ c = <<c[1], "created_at">> \/ c = <<c[1], "updated_at">>
          \/ c = <<"active_sessions", "last_seen_at">>
    BY DEF ToScorecards, Stamps, Columns
  <2> QED BY <1>1, <1>2, <2>1, <2>2
<1>4. \A c \in ToPasswordResets : Fits(c)
  <2>1. \A c \in ToPasswordResets : c[1] \in DOMAIN Founded
    BY FoundedIs DEF ToPasswordResets, Stamps, Columns, UserTables, WorkspaceTables,
       MeetingTables, SummaryTables, InterviewTables
  <2>2. \A c \in ToPasswordResets :
          \/ c = <<c[1], "created_at">> \/ c = <<c[1], "updated_at">>
          \/ c \in {"password_reset_tokens"} \X {"expires_at", "used_at"}
    BY DEF ToPasswordResets, Stamps, Columns
  <2> QED BY <1>1, <1>2, <2>1, <2>2
<1>5. \A c \in ToTranscripts : Fits(c)
  BY <1>1, FoundedIs DEF ToTranscripts, Stamps, Columns, UserTables, WorkspaceTables,
     MeetingTables, SummaryTables, InterviewTables, ScoreTables
<1>6. \A c \in ToWorkspaces : Fits(c)
  BY <1>1, FoundedIs DEF ToWorkspaces, Stamps, Columns, Roots, UserTables, WorkspaceTables
<1> QED BY <1>3, <1>4, <1>5, <1>6 DEF Standardized, Fits

\* Where the head is applied, everything is.
LEMMA HeadIsAll ==
  ASSUME NEW S \in Closed, HeadRevision \in S
  PROVE  S = Revision
BY ClosedIs, RevisionIs DEF HeadRevision, MergedHeads

\* With every revision applied, the schema is the one of the models.
LEMMA HeadServesModels ==
  /\ RefsAt(Revision) = [t \in DOMAIN Models |-> Models[t].refs]
  /\ TypeAt(Revision) = ModelType
  /\ IndexAt(Revision) = ModelIndexes
<1> DEFINE S == Revision
<1>1. {"cacd5554ba5a", "d44e91e81013", "8d114ef61fcc", "a8cbb47717b3", "864df66fbeb7",
       "64a8c4b4d071", "7ba4c8acd02e", "2cdac93874a4", "8ba95b973a4a", "480a265e5923"}
        \subseteq Revision
  BY DEF Revision, Order
<1>2. /\ TablesAt(S) = DOMAIN Founded \cup {"refresh_tokens", "email_verification_tokens"}
      /\ DatesAt(S) = TimesOf(Founded) \cup RefreshTokenTimes \cup PreferenceCreated
                        \cup VerificationTimes \cup SyncTimes \cup RefreshUpdated
      /\ AwareAt(S) = RefreshTokenTimes \cup VerificationTimes \cup RefreshUpdated
                        \cup Standardized
      /\ OthersAt(S) = TokenHash \cup IsVerified \cup ContextColumns
  BY <1>1, NewTablesApart DEF TablesAt, DatesAt, AwareAt, OthersAt, With
<1>3. DOMAIN Models = TablesAt(S)
  BY <1>2, FoundedHasModels, ModelsAgree
<1>4. RefsAt(S) = [t \in DOMAIN Models |-> Models[t].refs]
  <2>1. \A t \in TablesAt(S) : Tables[t].refs = Models[t].refs
    BY <1>2, <1>3, TablesAre, NewTablesApart, ModelsAgree, LaterModels DEF Agrees
  <2> QED BY <1>3, <2>1 DEF RefsAt
<1>5. \A c, field : c \in ModelDates(field)
                      <=> \E t \in DOMAIN Models : c \in {t} \X Models[t][field]
  BY DEF ModelDates
<1>6. ModelDates("aware") = AwareAt(S)
  <2>1. \A c \in ModelDates("aware") : c \in AwareAt(S)
    <3> SUFFICES ASSUME NEW c, NEW t \in DOMAIN Models, c \in {t} \X Models[t].aware
                 PROVE  c \in AwareAt(S)
      BY <1>5
    <3>1. CASE t = "refresh_tokens"
      BY <1>2, <3>1, LaterModels DEF RefreshUpdated
    <3>2. CASE t = "email_verification_tokens"
      BY <1>2, <3>2, LaterModels
    <3>3. CASE t \in DOMAIN Founded
      <4>1. Models[t].aware = BothStamps \cup MoreAware(t)
        BY <3>3, ModelsAgree, NewTablesApart DEF Agrees
      <4> QED BY <1>2, <3>3, <4>1, AllStandardized, MoreStandardized
    <3> QED BY <1>2, <1>3, <3>1, <3>2, <3>3
  <2>2. \A c \in Standardized : c \in ModelDates("aware")
    <3> SUFFICES ASSUME NEW c, NEW t \in DOMAIN Founded,
                        c \in {t} \X (BothStamps \cup MoreAware(t))
                 PROVE  c \in ModelDates("aware")
      BY OnlyStandardized
    <3>1. t \in DOMAIN Models /\ Models[t].aware = BothStamps \cup MoreAware(t)
      BY FoundedHasModels, ModelsAgree, NewTablesApart DEF Agrees
    <3> QED BY <1>5, <3>1
  <2>3. \A c \in RefreshTokenTimes \cup RefreshUpdated : c \in ModelDates("aware")
    BY <1>5, LaterModels, FoundedHasModels DEF RefreshUpdated
  <2>4. \A c \in VerificationTimes : c \in ModelDates("aware")
    BY <1>5, LaterModels, FoundedHasModels
  <2> QED BY <1>2, <2>1, <2>2, <2>3, <2>4
<1>7. ModelDates("aware") \cup ModelDates("naive") = DatesAt(S)
  <2>1. AwareAt(S) \subseteq DatesAt(S)
    BY <1>2, StandardizedFound
  <2>2. \A c \in ModelDates("naive") : c \in DatesAt(S)
    <3> SUFFICES ASSUME NEW c, NEW t \in DOMAIN Models, c \in {t} \X Models[t].naive
                 PROVE  c \in DatesAt(S)
      BY <1>5
    <3>1. t \in DOMAIN Founded /\ Models[t].naive \subseteq Founded[t].times
      BY <1>2, <1>3, LaterModels, ModelsAgree DEF Agrees
    <3> QED BY <1>2, <3>1, TimesOfIs
  <2>3. \A c \in TimesOf(Founded) : c \in ModelDates("aware") \cup ModelDates("naive")
    <3> SUFFICES ASSUME NEW c, NEW t \in DOMAIN Founded, NEW x \in Founded[t].times,
                        c = <<t, x>>
                 PROVE  c \in ModelDates("aware") \cup ModelDates("naive")
      BY TimesOfIs
    <3>1. /\ t \in DOMAIN Models
          /\ Founded[t].times \subseteq Models[t].aware \cup Models[t].naive
      BY FoundedHasModels, ModelsAgree, NewTablesApart DEF Agrees
    <3> QED BY <1>5, <3>1
  <2>4. \A c \in PreferenceCreated \cup SyncTimes : c \in Standardized
    BY AddedToFounded, AllStandardized
       DEF PreferenceCreated, SyncTimes, Stamps, Columns, BothStamps
  <2> QED BY <1>2, <1>6, <2>1, <2>2, <2>3, <2>4
<1>8. ModelColumns = OthersAt(S)
  BY <1>2 DEF ModelColumns, TokenHash, IsVerified, ContextColumns
<1>9. IndexAt(S) = ModelIndexes
  <2>1. IndexAt(S) = InterviewIndexes \cup SegmentIndex \cup TurnIndex
                       \cup TokenHashUnique \cup VerificationIndex
    BY <1>1 DEF IndexAt, With
  <2> QED BY <2>1 DEF ModelIndexes, InterviewIndexes, SegmentIndex, TurnIndex,
          TokenHashUnique, VerificationIndex
<1> QED BY <1>4, <1>6, <1>7, <1>8, <1>9 DEF TypeAt, ModelType

\* The invariant's way to say which schema a database has.
LEMMA HasSchemaIs ==
  ASSUME NEW d, NEW S
  PROVE  HasSchema(d, S) <=> /\ DOMAIN d = {"refs", "type", "drift", "index", "ok"}
                             /\ d.ok /\ SchemaIs(d, S)
BY DEF HasSchema, Schema, Holds, Referring, SchemaIs, RefsAt, TypeAt

\* A database without tables has the schema of no revision.
LEMMA EmptySchema == HasSchema(NoDatabase, {})
<1>1. /\ TablesAt({}) = {} /\ DatesAt({}) = {} /\ OthersAt({}) = {} /\ IndexAt({}) = {}
  BY DEF TablesAt, DatesAt, OthersAt, IndexAt, With
<1>2. /\ DOMAIN NoDatabase = {"refs", "type", "drift", "index", "ok"}
      /\ NoDatabase.ok /\ NoDatabase.index = {}
      /\ NoDatabase.refs = <<>> /\ NoDatabase.type = <<>>
  BY DEF NoDatabase
<1>3. RefsAt({}) = <<>>
  BY <1>1 DEF RefsAt
<1>4. TypeAt({}) = <<>>
  BY <1>1 DEF TypeAt, Typed
<1> QED BY <1>1, <1>2, <1>3, <1>4, HasSchemaIs DEF SchemaIs

\* A fresh database has the schema of the revisions it is upgraded to.
LEMMA FreshIs ==
  ASSUME NEW S \in Closed
  PROVE  HasSchema(FreshSchema[S], S)
<1> DEFINE none == {}
           both == none \cup S
           result == UpAll(NoDatabase, S, FALSE, 0)
<1>1. none \in Closed /\ both = S /\ none \cap S = {}
  BY DEF Closed
<1>2. HasSchema(NoDatabase, none)
  BY EmptySchema
<1>3. HasSchema(result, both)
  <2> HIDE DEF none
  <2>1. both \in Closed /\ none \cap S = {}
    BY <1>1
  <2> HIDE DEF both
  <2> QED BY <1>1, <1>2, <2>1, UpAllDoes DEF both
<1>4. FreshSchema[S] = result
  BY DEF FreshSchema
<1> HIDE DEF both, result
<1> QED BY <1>1, <1>3, <1>4

-----------------------------------------------------------------------------
(* The commands.                                                            *)

\* The invariant in the terms of the lemmas.
LEMMA IInvIs ==
  ASSUME zone \in Zones
  PROVE  IInv <=> /\ applied \in Closed
                  /\ WellFormed(db) /\ Steady(db, zone) /\ HasSchema(db, applied)
                  /\ used \in BOOLEAN
                  /\ used => "active_sessions" \in DOMAIN db.refs
                  /\ FailuresExplained
BY HasSchemaIs DEF IInv, TypeOK, NoDatabase, TokenDates, InstantsKept, WellFormed, Steady,
   TokenTimes

\* A new database satisfies the invariant.
LEMMA Initiation == Init => IInv
<1> SUFFICES ASSUME Init PROVE IInv
  OBVIOUS
<1>1. /\ DOMAIN <<>> = {} /\ NoDatabase.refs = <<>> /\ NoDatabase.type = <<>>
      /\ NoDatabase.drift = <<>> /\ NoDatabase.index = {} /\ NoDatabase.ok
      /\ DOMAIN NoDatabase = {"refs", "type", "drift", "index", "ok"}
  BY DEF NoDatabase
<1>2. WellFormed(NoDatabase) /\ Steady(NoDatabase, zone)
  BY <1>1 DEF WellFormed, Steady
<1>3. {} \in Closed
  BY DEF Closed
<1>4. FailuresExplained
  BY DEF Init, FailuresExplained
<1> QED BY <1>2, <1>3, <1>4, EmptySchema, IInvIs DEF Init

\* A command takes effect when all of its statements succeeded: then the schema
\* is the one of the revisions it leads to.  When one failed there is a reason.
LEMMA CommandPreserves ==
  ASSUME IInv, NEW kind, NEW target, NEW result, NEW after,
         Command(kind, target, result, after),
         WellFormed(result), Steady(result, zone), after \in Closed,
         \/ HasSchema(result, after)
         \/ /\ ~result.ok
            /\ \/ kind = "upgrade" /\ "a8cbb47717b3" \in Pending(target) /\ used
               \/ kind = "downgrade" /\ OneWay \cap Undone(target) # {}
  PROVE  IInv'
<1>1. zone \in Zones /\ zone' = zone
  BY DEF IInv, TypeOK, Command
<1>2. CASE /\ result.ok /\ db' = result /\ applied' = after
           /\ used' = (used /\ "active_sessions" \in DOMAIN result.refs)
  <2>1. used' \in BOOLEAN /\ (used' => "active_sessions" \in DOMAIN db'.refs)
    BY <1>2
  <2>2. db'.ok /\ SchemaIs(db', applied')
    BY <1>2, HasSchemaIs
  <2>3. last'.ok
    BY <1>2 DEF Command
  <2> QED BY <1>1, <1>2, <2>1, <2>2, <2>3 DEF IInv, TypeOK, NoDatabase, TokenDates,
          InstantsKept, FailuresExplained, SchemaIs, WellFormed, Steady, TokenTimes
<1>3. CASE ~result.ok /\ UNCHANGED <<db, applied, used>>
  <2>1. \/ kind = "upgrade" /\ "a8cbb47717b3" \in Pending(target) /\ used
        \/ kind = "downgrade" /\ OneWay \cap Undone(target) # {}
    BY <1>3, HasSchemaIs
  <2>2. last'.kind = kind /\ last'.target = target
    BY DEF Command
  <2>3. FailuresExplained'
    BY <1>3, <2>1, <2>2 DEF FailuresExplained, Pending, Undone
  <2> QED BY <1>1, <1>3, <2>3 DEF IInv, TypeOK, TokenDates, InstantsKept, SchemaIs
<1> QED BY <1>2, <1>3 DEF Command

\* An upgrade applies a closed set on top of a closed set.
LEMMA UpgradePreserves ==
  ASSUME IInv, NEW r \in Revision, Upgrade(r)
  PROVE  IInv'
<1>1. /\ zone \in Int /\ WellFormed(db) /\ Steady(db, zone) /\ applied \in Closed
      /\ HasSchema(db, applied) /\ used \in BOOLEAN
  BY IInvIs, ZonesAssumption DEF IInv, TypeOK
<1> DEFINE result == UpAll(db, Pending(r), used, zone)
<1>2. WellFormed(result) /\ Steady(result, zone)
  <2>1. \A n \in 1..Len(Order) : Order[n] \in Revision
    BY DEF Revision
  <2>2. Len(Order) \in Nat
    BY OrderIsSound
  <2> QED BY <1>1, <2>1, <2>2, RunAllKeeps DEF UpAll
<1>3. applied \cup Pending(r) \in Closed
  <2>1. applied \cup Pending(r) = applied \cup Ancestors[r]
    BY DEF Pending
  <2> QED BY <1>1, <2>1, AncestorsClosed DEF Closed
<1>4. Command("upgrade", r, result, applied \cup Pending(r))
  BY DEF Upgrade
<1>5. \/ HasSchema(result, applied \cup Pending(r))
      \/ "a8cbb47717b3" \in Pending(r) /\ used /\ Failed(result)
  <2>1. applied \cap Pending(r) = {}
    BY DEF Pending
  <2> QED BY <1>1, <1>3, <2>1, UpAllDoes
<1> HIDE DEF result
<1> QED BY <1>2, <1>3, <1>4, <1>5, CommandPreserves DEF Failed

\* A downgrade undoes everything that comes after its target, so what it leaves
\* is closed.
LEMMA LeftClosed ==
  ASSUME applied \in Closed, NEW r \in Revision \cup {Base}
  PROVE  applied \ Undone(r) \in Closed
<1>1. CASE r = Base
  <2>1. applied \ Undone(r) = {}
    BY <1>1 DEF Undone
  <2> QED BY <2>1 DEF Closed
<1>2. CASE r # Base
  <2> SUFFICES ASSUME NEW q \in applied \ Undone(r), NEW p \in Script[q].parents,
                      p \in Undone(r)
               PROVE  FALSE
    BY DEF Closed
  <2>1. q \in Revision /\ p \in applied /\ r \in Revision
    BY <1>2 DEF Closed
  <2>2. p # r /\ r \in Ancestors[p]
    BY <1>2 DEF Undone
  <2>3. r \in Ancestors[q] /\ q # r
    BY <2>1, <2>2, NoCycle, AncestorsClosed
  <2> QED BY <1>2, <2>1, <2>3 DEF Undone
<1> QED BY <1>1, <1>2

\* A downgrade runs its scripts in the reverse order on the applied revisions.
LEMMA DowngradePreserves ==
  ASSUME IInv, NEW r \in Revision \cup {Base}, Downgrade(r)
  PROVE  IInv'
<1>1. /\ zone \in Int /\ WellFormed(db) /\ Steady(db, zone) /\ applied \in Closed
      /\ HasSchema(db, applied) /\ used \in BOOLEAN
  BY IInvIs, ZonesAssumption DEF IInv, TypeOK
<1> DEFINE result == DownAll(db, Undone(r), used, zone)
<1>2. WellFormed(result) /\ Steady(result, zone)
  <2>1. /\ Len(Reverse(Order)) = 12
        /\ \A n \in 1..12 : Reverse(Order)[n] = Order[13 - n]
    BY OrderIsSound DEF Reverse
  <2>2. \A n \in 1..Len(Reverse(Order)) : Reverse(Order)[n] \in Revision
    BY <2>1, OrderIsSound DEF Revision
  <2>3. Len(Reverse(Order)) \in Nat
    BY <2>1
  <2> QED BY <1>1, <2>2, <2>3, RunAllKeeps DEF DownAll
<1>3. applied \ Undone(r) \in Closed
  BY <1>1, LeftClosed
<1>4. Command("downgrade", r, result, applied \ Undone(r))
  BY DEF Downgrade
<1>5. \/ HasSchema(result, applied \ Undone(r))
      \/ OneWay \cap Undone(r) # {} /\ Failed(result)
  <2>1. Undone(r) \subseteq applied
    BY DEF Undone
  <2> QED BY <1>1, <1>3, <2>1, DownAllDoes
<1> HIDE DEF result
<1> QED BY <1>2, <1>3, <1>4, <1>5, CommandPreserves DEF Failed

\* No step breaks the invariant.
LEMMA Consecution == IInv /\ [Next]_vars => IInv'
<1> SUFFICES ASSUME IInv, [Next]_vars PROVE IInv'
  OBVIOUS
<1>1. ASSUME NEW r \in Revision, Upgrade(r) PROVE IInv'
  BY <1>1, UpgradePreserves
<1>2. ASSUME NEW r \in Revision \cup {Base}, Downgrade(r) PROVE IInv'
  BY <1>2, DowngradePreserves
<1>3. CASE Use
  <2>1. last'.ok
    BY <1>3 DEF Use
  <2> QED BY <1>3, <2>1 DEF Use, IInv, TypeOK, TokenDates, InstantsKept, SchemaIs,
          FailuresExplained
<1>4. CASE UNCHANGED vars
  BY <1>4 DEF vars, IInv, TypeOK, TokenDates, InstantsKept, SchemaIs, FailuresExplained,
     Pending, Undone
<1> QED BY <1>1, <1>2, <1>3, <1>4 DEF Next

-----------------------------------------------------------------------------
(* The theorems.                                                            *)

\* IInv holds in every state the commands lead to.
THEOREM InductiveInvariant == Spec => []IInv
<1>1. Init => IInv
  BY Initiation
<1>2. IInv /\ [Next]_vars => IInv'
  BY Consecution
<1> QED BY <1>1, <1>2, PTL DEF Spec

\* Whatever commands succeed and fail: with a revision everything it revises is
\* applied, no table refers to one that is gone, no column or index is left of
\* one (do_run_migrations, the scripts of alembic/versions).
THEOREM TypeCorrect == Spec => []TypeOK
<1>1. IInv => TypeOK
  BY DEF IInv
<1> QED BY <1>1, InductiveInvariant, PTL

\* In every time zone and however often columns are converted back and forth, no
\* instant moves but those of the conversions without USING, which move by the
\* offset of the server and move back.
THEOREM InstantsStay == Spec => []InstantsKept
<1>1. IInv => InstantsKept
  BY DEF IInv
<1> QED BY <1>1, InductiveInvariant, PTL

\* Whatever was upgraded, rolled back and merged, and whatever failed on the way,
\* the tables, foreign keys, columns and indexes are those of a fresh database
\* at the same revisions (the twelve scripts of alembic/versions).
THEOREM SchemaIsFixed == Spec => []SchemaDependsOnRevisions
<1>1. IInv => SchemaDependsOnRevisions
  <2> SUFFICES ASSUME IInv PROVE SchemaDependsOnRevisions
    OBVIOUS
  <2>1. applied \in Closed /\ SchemaIs(db, applied)
    BY DEF IInv, TypeOK
  <2>2. SchemaIs(FreshSchema[applied], applied)
    BY <2>1, FreshIs, HasSchemaIs
  <2> QED BY <2>1, <2>2 DEF SchemaDependsOnRevisions, SchemaIs
<1> QED BY <1>1, InductiveInvariant, PTL

\* At the head the schema is the one the models of app/models map to, on
\* whatever way the commands came there.
THEOREM ModelsAreServed == Spec => []ModelsServed
<1>1. IInv => ModelsServed
  <2> SUFFICES ASSUME IInv, HeadRevision \in applied
               PROVE  SchemaIs(db, Revision)
    BY HeadServesModels DEF ModelsServed, SchemaIs
  <2> QED BY HeadIsAll DEF IInv, TypeOK
<1> QED BY <1>1, InductiveInvariant, PTL

\* An upgrade fails only when a8cbb47717b3 meets sessions, a downgrade only when
\* it undoes 7ba4c8acd02e or 864df66fbeb7, from wherever it starts.
THEOREM FailuresAreExplained == Spec => []FailuresExplained
<1>1. IInv => FailuresExplained
  BY DEF IInv
<1> QED BY <1>1, InductiveInvariant, PTL

\* The two downgrades that cannot run never do: with 864df66fbeb7 or 7ba4c8acd02e
\* applied, every command that would undo it fails and undoes nothing.
THEOREM OneWayStays == Spec => NoWayBack
<1>1. ASSUME IInv, [Next]_vars PROVE [OneWay \cap applied \subseteq applied']_applied
  <2>1. ASSUME NEW r \in Revision, Upgrade(r) PROVE applied \subseteq applied'
    BY <2>1 DEF Upgrade, Command
  <2>2. ASSUME NEW r \in Revision \cup {Base}, Downgrade(r)
        PROVE  OneWay \cap applied \subseteq applied'
    <3> DEFINE result == DownAll(db, Undone(r), used, zone)
    <3>1. applied \ Undone(r) \in Closed /\ applied \in Closed /\ HasSchema(db, applied)
      BY <1>1, LeftClosed, IInvIs DEF IInv, TypeOK
    <3>2. Undone(r) \subseteq applied
      BY DEF Undone
    <3>3. result.ok => OneWay \cap Undone(r) = {}
      BY <3>1, <3>2, DownAllDoes DEF Failed
    <3>4. Command("downgrade", r, result, applied \ Undone(r))
      BY <2>2 DEF Downgrade
    <3> HIDE DEF result
    <3> QED BY <3>3, <3>4 DEF Command
  <2>3. Use \/ UNCHANGED vars => applied' = applied
    BY DEF Use, vars
  <2> QED BY <1>1, <2>1, <2>2, <2>3 DEF Next
<1> QED BY <1>1, InductiveInvariant, PTL DEF Spec, NoWayBack

=============================================================================
