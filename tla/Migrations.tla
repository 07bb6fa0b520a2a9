----------------------------- MODULE Migrations -----------------------------
(***************************************************************************)
(* The Alembic migrations of the MeetMind backend: alembic/env.py, the     *)
(* twelve scripts of alembic/versions, and the schema the ORM models of    *)
(* app/models expect.                                                      *)
(*                                                                         *)
(* A schema is reduced to what the scripts can get wrong: which tables     *)
(* exist and which they refer to, the date columns and the columns added   *)
(* by a later script, and the indexes and constraints with a statement of  *)
(* their own.  A script is the sequence of its op calls; calls that do not *)
(* depend on each other's order are one statement over a set.              *)
(*                                                                         *)
(* "drift" follows the values of a date column through its conversions: by *)
(* how much the instant a value stands for has moved, a naive value        *)
(* standing for UTC as every USING clause of 8ba95b973a4a has it.          *)
(***************************************************************************)
EXTENDS Integers, SequencesExt

CONSTANTS
  Zones,         \* possible offsets of the server's TimeZone from UTC
  MaxDrift       \* bound: how far repeated conversions may move a value

ASSUME ZonesAssumption == Zones \subseteq Int
ASSUME MaxDriftAssumption == MaxDrift \in Nat

VARIABLES
  applied,       \* the revisions below the rows of alembic_version
  db,            \* the schema, and what it did to the values
  zone,          \* the server's TimeZone
  used,          \* active_sessions holds rows
  last           \* the last command, [kind, target, ok]

vars == <<applied, db, zone, used, last>>

-----------------------------------------------------------------------------
(* Statements and what they do to a database.  A statement that fails       *)
(* leaves ok false, and nothing after it runs.                              *)

NoDatabase == [refs |-> <<>>, type |-> <<>>, drift |-> <<>>, index |-> {},
               ok |-> TRUE]

\* A table of a script: the tables it refers to, its date columns.
Table(refs, times) == [refs |-> refs, times |-> times]

CreateTables(tables) == [op |-> "create_table", tables |-> tables]
DropTables(names)    == [op |-> "drop_table", names |-> names]
AddColumns(type, columns) ==
  [op |-> "add_column", type |-> type, columns |-> columns, required |-> FALSE]
\* NOT NULL without a server default.
AddRequired(type, columns) ==
  [op |-> "add_column", type |-> type, columns |-> columns, required |-> TRUE]
DropColumns(columns) == [op |-> "drop_column", columns |-> columns]
\* using: the zone a naive value is read in, "UTC" or the server's.
AlterType(columns, type, using) ==
  [op |-> "alter_column", columns |-> columns, type |-> type, using |-> using]
CreateIndex(indexes) == [op |-> "create_index", indexes |-> indexes]
DropIndex(indexes)   == [op |-> "drop_index", indexes |-> indexes]
\* op.drop_constraint(None, ...): a constraint without a name cannot be dropped.
DropUnnamed          == [op |-> "drop_unnamed"]

Columns(names, column) == {<<t, column>> : t \in names}
Stamps(names) == Columns(names, "created_at") \cup Columns(names, "updated_at")
TimesOf(tables) == UNION {{t} \X tables[t].times : t \in DOMAIN tables}

\* The types of columns: dates, some of them aware, and others.
Typed(dates, aware, others) ==
  [c \in dates \cup others |->
     IF c \in others THEN "other" ELSE IF c \in aware THEN "aware" ELSE "naive"]

\* The function g with the values of f where f has one.
Over(f, g) ==
  [x \in DOMAIN f \cup DOMAIN g |-> IF x \in DOMAIN f THEN f[x] ELSE g[x]]

\* The shift of the instant by a conversion between naive and aware.
Shift(from, to, using, z) ==
  IF from = to \/ using = "UTC" THEN 0 ELSE IF to = "aware" THEN -z ELSE z

\* The statement can run on d, whose active_sessions hold rows if "rows".
Possible(d, s, rows) ==
  CASE s.op = "create_table" ->
         /\ DOMAIN s.tables \cap DOMAIN d.refs = {}
         /\ \A t \in DOMAIN s.tables : s.tables[t].refs \subseteq DOMAIN d.refs
    [] s.op = "drop_table" ->
         /\ s.names \subseteq DOMAIN d.refs
         /\ \A t \in DOMAIN d.refs : d.refs[t] \cap s.names = {}
    [] s.op = "add_column" ->
         /\ \A c \in s.columns : c[1] \in DOMAIN d.refs /\ c \notin DOMAIN d.type
         /\ s.required => \A c \in s.columns : ~(c[1] = "active_sessions" /\ rows)
    [] s.op \in {"drop_column", "alter_column"} -> s.columns \subseteq DOMAIN d.type
    [] s.op = "create_index" ->
         \A i \in s.indexes : i[1] \in DOMAIN d.refs /\ i \notin d.index
    [] s.op = "drop_index" -> s.indexes \subseteq d.index
    [] s.op = "drop_unnamed" -> FALSE

WithColumns(d, type, columns) ==
  [d EXCEPT !.type = Over([c \in columns |-> type], @),
            !.drift = Over([c \in columns |-> 0], @)]

WithoutColumns(d, columns) ==
  LET kept == DOMAIN d.type \ columns
  IN  [d EXCEPT !.type = Restrict(@, kept), !.drift = Restrict(@, kept)]

\* What it does when it can run, on a server in zone z.
Effect(d, s, z) ==
  CASE s.op = "create_table" ->
         WithColumns([d EXCEPT !.refs =
                        Over([t \in DOMAIN s.tables |-> s.tables[t].refs], @)],
                     "naive", TimesOf(s.tables))
    [] s.op = "drop_table" ->
         WithoutColumns([d EXCEPT !.refs = Restrict(@, DOMAIN @ \ s.names),
                                  !.index = {i \in @ : i[1] \notin s.names}],
                        {c \in DOMAIN d.type : c[1] \in s.names})
    [] s.op = "add_column"  -> WithColumns(d, s.type, s.columns)
    [] s.op = "drop_column" -> WithoutColumns(d, s.columns)
    [] s.op = "alter_column" ->
         [d EXCEPT !.type = Over([c \in s.columns |-> s.type], @),
                   !.drift = Over([c \in s.columns |->
                                     @[c] + Shift(d.type[c], s.type, s.using, z)], @)]
    [] s.op = "create_index" -> [d EXCEPT !.index = @ \cup s.indexes]
    [] s.op = "drop_index"   -> [d EXCEPT !.index = @ \ s.indexes]

Execute(d, s, rows, z) ==
  IF d.ok /\ Possible(d, s, rows) THEN Effect(d, s, z) ELSE [d EXCEPT !.ok = FALSE]

\* The statements of one script, one after the other.
Run(d, statements, rows, z) ==
  LET after[n \in 0..Len(statements)] ==
        IF n = 0 THEN d ELSE Execute(after[n-1], statements[n], rows, z)
  IN  after[Len(statements)]

-----------------------------------------------------------------------------
(* cacd5554ba5a: create all tables, in the order of their references.       *)

Roots == [users |-> Table({}, {"created_at", "updated_at"})]

UserTables ==
  [ active_sessions               |-> Table({"users"}, {"last_seen_at", "created_at"}),
    password_reset_tokens         |-> Table({"users"}, {"expires_at", "used_at", "created_at"}),
    sso_providers                 |-> Table({"users"}, {"created_at"}),
    user_interview_preferences    |-> Table({"users"}, {"updated_at"}),
    user_meeting_preferences      |-> Table({"users"}, {"updated_at"}),
    user_notification_preferences |-> Table({"users"}, {"updated_at"}),
    user_platform_integrations    |-> Table({"users"}, {"connected_at", "updated_at"}),
    user_privacy_settings         |-> Table({"users"}, {"updated_at"}),
    user_security_settings        |-> Table({"users"}, {"updated_at"}),
    waitlist_signups              |-> Table({"users"}, {"notified_at", "created_at"}),
    workspaces                    |-> Table({"users"}, {"created_at"}) ]

WorkspaceTables ==
  [ candidates           |-> Table({"workspaces"}, {"created_at", "updated_at"}),
    integrations         |-> Table({"workspaces"}, {"connected_at", "created_at"}),
    meetings             |-> Table({"users", "workspaces"},
                                   {"started_at", "ended_at", "created_at"}),
    scorecard_categories |-> Table({"workspaces"}, {}),
    workspace_invites    |-> Table({"users", "workspaces"}, {"expires_at", "created_at"}),
    workspace_members    |-> Table({"users", "workspaces"}, {"joined_at"}) ]

MeetingTables ==
  [ ask_mind_sessions          |-> Table({"meetings", "users"}, {"created_at"}),
    ask_mind_suggested_prompts |-> Table({"meetings"}, {}),
    integration_channels       |-> Table({"integrations"}, {"created_at"}),
    interviews                 |-> Table({"candidates", "meetings", "users", "workspaces"},
                                         {"scheduled_start", "scheduled_end",
                                          "created_at", "updated_at"}),
    meeting_comments           |-> Table({"meetings", "users"}, {"created_at", "updated_at"}),
    meeting_participants       |-> Table({"meetings", "users"}, {"joined_at"}),
    meeting_summaries          |-> Table({"meetings"}, {"generated_at", "created_at"}),
    transcripts                |-> Table({"meetings"}, {"created_at", "updated_at"}) ]

SummaryTables ==
  [ action_items          |-> Table({"meeting_summaries", "users"}, {}),
    ask_mind_messages     |-> Table({"ask_mind_sessions"}, {"created_at"}),
    integration_settings  |-> Table({"integrations", "integration_channels"}, {"updated_at"}),
    interview_scorecards  |-> Table({"interviews"}, {"created_at", "updated_at"}),
    interview_summaries   |-> Table({"interviews"}, {"generated_at", "created_at"}),
    interview_transcripts |-> Table({"interviews"}, {"created_at", "updated_at"}),
    summary_decisions     |-> Table({"meeting_summaries"}, {}),
    summary_keypoints     |-> Table({"meeting_summaries"}, {}),
    transcript_segments   |-> Table({"meeting_participants", "transcripts"}, {}) ]

InterviewTables ==
  [ interview_highlights       |-> Table({"interview_summaries"}, {}),
    interview_red_flags        |-> Table({"interview_summaries"}, {}),
    interview_skills_to_assess |-> Table({"interview_summaries"}, {}),
    interview_transcript_turns |-> Table({"interview_transcripts"}, {}),
    scorecard_scores           |-> Table({"interview_scorecards", "scorecard_categories"}, {}) ]

ScoreTables == [t \in {"scorecard_questions", "scorecard_signals"} |->
                  Table({"scorecard_scores"}, {})]

InterviewIndexes == {<<"interviews", "ix_interviews_interviewer_start">>,
                     <<"interviews", "ix_interviews_workspace_candidate">>}
SegmentIndex == {<<"transcript_segments", "ix_transcript_segments_transcript_seq">>}
TurnIndex    == {<<"interview_transcript_turns", "ix_interview_turns_transcript_seq">>}

Up_cacd ==
  << CreateTables(Roots), CreateTables(UserTables), CreateTables(WorkspaceTables),
     CreateTables(MeetingTables), CreateIndex(InterviewIndexes),
     CreateTables(SummaryTables), CreateIndex(SegmentIndex),
     CreateTables(InterviewTables), CreateIndex(TurnIndex),
     CreateTables(ScoreTables) >>

Down_cacd ==
  << DropTables(DOMAIN ScoreTables), DropTables({"scorecard_scores"}),
     DropIndex(TurnIndex), DropTables(DOMAIN InterviewTables \ {"scorecard_scores"}),
     DropIndex(SegmentIndex), DropTables(DOMAIN SummaryTables),
     DropTables({"transcripts", "meeting_summaries", "meeting_participants",
                 "meeting_comments"}),
     DropIndex(InterviewIndexes),
     DropTables({"interviews", "integration_channels", "ask_mind_suggested_prompts",
                 "ask_mind_sessions"}),
     DropTables(DOMAIN WorkspaceTables), DropTables(DOMAIN UserTables),
     DropTables(DOMAIN Roots) >>

-----------------------------------------------------------------------------
(* The three branches on cacd5554ba5a, and their merge 5b25f8695307 (no     *)
(* statements).                                                             *)

RefreshTokenTable == [refresh_tokens |-> Table({"users"}, {"expires_at", "created_at"})]
RefreshTokenTimes == TimesOf(RefreshTokenTable)
Preferences == {"user_interview_preferences", "user_platform_integrations"}
PreferenceCreated == Columns(Preferences, "created_at")

\* Mutant of Down_d44e: the columns of the preferences stay.
Down_d44eTableOnly == <<DropTables({"refresh_tokens"})>>

Up_d44e   == <<CreateTables(RefreshTokenTable), AddColumns("naive", PreferenceCreated)>>
Down_d44e == <<DropColumns(PreferenceCreated), DropTables({"refresh_tokens"})>>

Up_8d11   == <<AlterType(RefreshTokenTimes, "aware", "server")>>
Down_8d11 == <<AlterType(RefreshTokenTimes, "naive", "server")>>

TokenHash       == {<<"active_sessions", "refresh_token_hash">>}
TokenHashIndex  == {<<"active_sessions", "ix_active_sessions_refresh_token_hash">>}
TokenHashUnique == {<<"active_sessions", "unique refresh_token_hash">>}

Up_a8cb   == <<AddRequired("other", TokenHash), CreateIndex(TokenHashIndex)>>
Down_a8cb == <<DropIndex(TokenHashIndex), DropColumns(TokenHash)>>

Up_864d   == <<DropIndex(TokenHashIndex), CreateIndex(TokenHashUnique)>>
Down_864d == <<DropUnnamed, CreateIndex(TokenHashIndex)>>

VerificationTable ==
  [email_verification_tokens |-> Table({"users"}, {"expires_at", "used_at", "created_at"})]
VerificationTimes == TimesOf(VerificationTable)
VerificationIndex == {<<"email_verification_tokens", "ix_email_verification_token_hash">>}

Up_64a8   == <<CreateTables(VerificationTable), CreateIndex(VerificationIndex)>>
Down_64a8 == <<DropIndex(VerificationIndex), DropTables({"email_verification_tokens"})>>

-----------------------------------------------------------------------------
(* 7ba4c8acd02e: sync the schema with the models.                           *)

\* Tables that get both columns, and those that have created_at already.
NewlyStamped ==
  {"action_items", "ask_mind_suggested_prompts", "interview_highlights",
   "interview_red_flags", "interview_skills_to_assess", "interview_transcript_turns",
   "meeting_participants", "scorecard_categories", "scorecard_questions",
   "scorecard_scores", "scorecard_signals", "summary_decisions", "summary_keypoints",
   "transcript_segments", "workspace_members"}
NewlyUpdated ==
  {"active_sessions", "ask_mind_messages", "ask_mind_sessions", "integration_channels",
   "integrations", "interview_summaries", "meeting_summaries", "meetings",
   "password_reset_tokens", "sso_providers", "waitlist_signups", "workspace_invites",
   "workspaces"}
NewlyCreated ==
  {"integration_settings", "user_meeting_preferences", "user_notification_preferences",
   "user_privacy_settings", "user_security_settings"}

SyncTimes == Stamps(NewlyStamped) \cup Columns(NewlyUpdated, "updated_at")
               \cup Columns(NewlyCreated, "created_at")
IsVerified == {<<"users", "is_verified">>}

Up_7ba4   == <<AddColumns("naive", SyncTimes), AddColumns("other", IsVerified)>>
Down_7ba4 == <<DropColumns(SyncTimes \cup IsVerified), CreateIndex(VerificationIndex)>>

-----------------------------------------------------------------------------
(* 2cdac93874a4, 6a2d8a454e64 (no statements), 8ba95b973a4a, 480a265e5923.  *)

Up_2cda   == <<AlterType(VerificationTimes, "aware", "server")>>
Down_2cda == <<AlterType(VerificationTimes, "naive", "server")>>

\* 8ba95b973a4a goes through the tables in alphabetical order: what it
\* converts on the way up, to scorecards, to password resets, to transcripts,
\* to workspaces.
ToScorecards ==
  Stamps({"action_items", "active_sessions", "ask_mind_messages", "ask_mind_sessions",
          "ask_mind_suggested_prompts", "candidates", "integration_channels",
          "integration_settings", "integrations", "interview_highlights",
          "interview_red_flags", "interview_scorecards"})
    \cup {<<"active_sessions", "last_seen_at">>}
ToPasswordResets ==
  Stamps({"interview_skills_to_assess", "interview_summaries",
          "interview_transcript_turns", "interview_transcripts", "interviews",
          "meeting_comments", "meeting_participants", "meeting_summaries", "meetings",
          "password_reset_tokens"})
    \cup ({"password_reset_tokens"} \X {"expires_at", "used_at"})
ToTranscripts ==
  Stamps({"scorecard_categories", "scorecard_questions", "scorecard_scores",
          "scorecard_signals", "sso_providers", "summary_decisions",
          "summary_keypoints", "transcript_segments", "transcripts"})
ToWorkspaces ==
  Stamps({"user_interview_preferences", "user_meeting_preferences",
          "user_notification_preferences", "user_platform_integrations",
          "user_privacy_settings", "user_security_settings", "users",
          "waitlist_signups", "workspace_invites", "workspace_members", "workspaces"})

RefreshUpdated == {<<"refresh_tokens", "updated_at">>}
\* The two conversions of the way down without postgresql_using.
SummaryTimes == Stamps({"interview_summaries"})

\* Mutant of Up_8ba9: refresh_tokens is forgotten.
Up_8ba9TypesOnly ==
  <<AlterType(ToScorecards \cup ToPasswordResets \cup ToTranscripts \cup ToWorkspaces,
              "aware", "UTC")>>

Up_8ba9 ==
  << AlterType(ToScorecards, "aware", "UTC"), AlterType(ToPasswordResets, "aware", "UTC"),
     AddColumns("aware", RefreshUpdated),
     AlterType(ToTranscripts, "aware", "UTC"), AlterType(ToWorkspaces, "aware", "UTC") >>

\* Mutant of FromWorkspaces: postgresql_using is left out.
FromWorkspacesByServer == AlterType(ToWorkspaces, "naive", "server")

FromWorkspaces == AlterType(ToWorkspaces, "naive", "UTC")

FromTranscripts == AlterType(ToTranscripts, "naive", "UTC")
FromPasswordResets == AlterType(ToPasswordResets \ SummaryTimes, "naive", "UTC")
FromSummaries == AlterType(SummaryTimes, "naive", "server")
FromScorecards == AlterType(ToScorecards, "naive", "UTC")

\* The way down, in the reverse order.
Down_8ba9 == <<FromWorkspaces, FromTranscripts, DropColumns(RefreshUpdated),
               FromPasswordResets, FromSummaries, FromScorecards>>

ContextColumns == {"interview_summaries"} \X {"job_description", "scoring_rubric"}

Up_480a   == <<AddColumns("other", ContextColumns)>>
Down_480a == <<DropColumns(ContextColumns)>>

-----------------------------------------------------------------------------
(* The schema the ORM models of app/models map to.                          *)

\* A model with TimestampMixin: the tables its foreign keys name, its
\* DateTime(timezone=True) and its DateTime columns.
Model(refs, aware, naive) ==
  [refs |-> refs, aware |-> aware \cup {"created_at", "updated_at"}, naive |-> naive]

UserModels ==
  [ users                         |-> Model({}, {}, {}),
    refresh_tokens                |-> Model({"users"}, {"expires_at"}, {}),
    password_reset_tokens         |-> Model({"users"}, {"expires_at", "used_at"}, {}),
    active_sessions               |-> Model({"users"}, {"last_seen_at"}, {}),
    sso_providers                 |-> Model({"users"}, {}, {}),
    user_meeting_preferences      |-> Model({"users"}, {}, {}),
    user_interview_preferences    |-> Model({"users"}, {}, {}),
    user_notification_preferences |-> Model({"users"}, {}, {}),
    user_privacy_settings         |-> Model({"users"}, {}, {}),
    user_security_settings        |-> Model({"users"}, {}, {}) ]

\* Without TimestampMixin.
VerificationModel ==
  [ email_verification_tokens |->
      [refs |-> {"users"}, aware |-> {"expires_at", "used_at", "created_at"}, naive |-> {}] ]

WorkspaceModels ==
  [ workspaces        |-> Model({"users"}, {}, {}),
    workspace_members |-> Model({"users", "workspaces"}, {}, {"joined_at"}),
    workspace_invites |-> Model({"users", "workspaces"}, {}, {"expires_at"}) ]

MeetingModels ==
  [ meetings             |-> Model({"users", "workspaces"}, {}, {"started_at", "ended_at"}),
    meeting_participants |-> Model({"meetings", "users"}, {}, {"joined_at"}),
    meeting_comments     |-> Model({"meetings", "users"}, {}, {}) ]

TranscriptModels ==
  [ transcripts         |-> Model({"meetings"}, {}, {}),
    transcript_segments |-> Model({"transcripts", "meeting_participants"}, {}, {}),
    meeting_summaries   |-> Model({"meetings"}, {}, {"generated_at"}),
    summary_keypoints   |-> Model({"meeting_summaries"}, {}, {}),
    summary_decisions   |-> Model({"meeting_summaries"}, {}, {}),
    action_items        |-> Model({"meeting_summaries", "users"}, {}, {}) ]

ScorecardModels ==
  [ scorecard_categories |-> Model({"workspaces"}, {}, {}),
    interview_scorecards |-> Model({"interviews"}, {}, {}),
    scorecard_scores     |-> Model({"interview_scorecards", "scorecard_categories"}, {}, {}),
    scorecard_questions  |-> Model({"scorecard_scores"}, {}, {}),
    scorecard_signals    |-> Model({"scorecard_scores"}, {}, {}) ]

IntegrationModels ==
  [ user_platform_integrations |-> Model({"users"}, {}, {"connected_at"}),
    integrations               |-> Model({"workspaces"}, {}, {"connected_at"}),
    integration_channels       |-> Model({"integrations"}, {}, {}),
    integration_settings       |-> Model({"integrations", "integration_channels"}, {}, {}),
    waitlist_signups           |-> Model({"users"}, {}, {"notified_at"}) ]

AskMindModels ==
  [ ask_mind_sessions          |-> Model({"meetings", "users"}, {}, {}),
    ask_mind_messages          |-> Model({"ask_mind_sessions"}, {}, {}),
    ask_mind_suggested_prompts |-> Model({"meetings"}, {}, {}) ]

InterviewModels ==
  [ interview_skills_to_assess |-> Model({"interview_summaries"}, {}, {}),
    interview_highlights       |-> Model({"interview_summaries"}, {}, {}),
    interview_red_flags        |-> Model({"interview_summaries"}, {}, {}),
    candidates                 |-> Model({"workspaces"}, {}, {}),
    interviews                 |-> Model({"workspaces", "candidates", "users", "meetings"},
                                         {}, {"scheduled_start", "scheduled_end"}),
    interview_transcripts      |-> Model({"interviews"}, {}, {}),
    interview_transcript_turns |-> Model({"interview_transcripts"}, {}, {}),
    interview_summaries        |-> Model({"interviews"}, {}, {"generated_at"}) ]

Models ==
  Over(Over(UserModels, Over(VerificationModel, WorkspaceModels)),
       Over(Over(MeetingModels, Over(TranscriptModels, ScorecardModels)),
            Over(IntegrationModels, Over(AskMindModels, InterviewModels))))

\* Of the columns without a date, those that a later script has to add.
ModelColumns ==
  {<<"users", "is_verified">>, <<"active_sessions", "refresh_token_hash">>}
    \cup ({"interview_summaries"} \X {"job_description", "scoring_rubric"})

ModelIndexes ==
  {<<"interviews", "ix_interviews_workspace_candidate">>,
   <<"interviews", "ix_interviews_interviewer_start">>,
   <<"interview_transcript_turns", "ix_interview_turns_transcript_seq">>,
   <<"transcript_segments", "ix_transcript_segments_transcript_seq">>,
   <<"email_verification_tokens", "ix_email_verification_token_hash">>,
   <<"active_sessions", "unique refresh_token_hash">>}

ModelDates(field) == UNION {{t} \X Models[t][field] : t \in DOMAIN Models}
ModelType ==
  Typed(ModelDates("aware") \cup ModelDates("naive"), ModelDates("aware"), ModelColumns)

-----------------------------------------------------------------------------
(* The revision graph and the alembic command.                              *)

Revises(parents, up, down) == [parents |-> parents, up |-> up, down |-> down]

\* Mutant of MergedHeads: one of the three is overlooked.
MergedTwo == {"64a8c4b4d071", "864df66fbeb7"}
MergedHeads == {"64a8c4b4d071", "864df66fbeb7", "8d114ef61fcc"}

\* A revision comes after the ones it revises.
Order ==
  <<"cacd5554ba5a", "d44e91e81013", "8d114ef61fcc", "a8cbb47717b3", "864df66fbeb7",
    "64a8c4b4d071", "5b25f8695307", "7ba4c8acd02e", "2cdac93874a4", "6a2d8a454e64",
    "8ba95b973a4a", "480a265e5923">>

Revision == {Order[i] : i \in 1..Len(Order)}
HeadRevision == "480a265e5923"
Base == "base"

Script ==
  [r \in Revision |->
     CASE r = "cacd5554ba5a" -> Revises({}, Up_cacd, Down_cacd)
       [] r = "d44e91e81013" -> Revises({"cacd5554ba5a"}, Up_d44e, Down_d44e)
       [] r = "8d114ef61fcc" -> Revises({"d44e91e81013"}, Up_8d11, Down_8d11)
       [] r = "a8cbb47717b3" -> Revises({"cacd5554ba5a"}, Up_a8cb, Down_a8cb)
       [] r = "864df66fbeb7" -> Revises({"a8cbb47717b3"}, Up_864d, Down_864d)
       [] r = "64a8c4b4d071" -> Revises({"cacd5554ba5a"}, Up_64a8, Down_64a8)
       [] r = "5b25f8695307" -> Revises(MergedHeads, <<>>, <<>>)
       [] r = "7ba4c8acd02e" -> Revises({"5b25f8695307"}, Up_7ba4, Down_7ba4)
       [] r = "2cdac93874a4" -> Revises({"7ba4c8acd02e"}, Up_2cda, Down_2cda)
       [] r = "6a2d8a454e64" -> Revises({"2cdac93874a4"}, <<>>, <<>>)
       [] r = "8ba95b973a4a" -> Revises({"6a2d8a454e64"}, Up_8ba9, Down_8ba9)
       [] r = "480a265e5923" -> Revises({"8ba95b973a4a"}, Up_480a, Down_480a)]

\* Sets of revisions that hold what their members revise.
Closed == {S \in SUBSET Revision : \A r \in S : Script[r].parents \subseteq S}

\* A revision and everything below it: what every closed set with it holds.
Ancestors ==
  [r \in Revision |-> {q \in Revision : \A S \in Closed : r \in S => q \in S}]

\* The scripts of the revisions S one after the other, in the given order.
RunAll(d, S, order, way, rows, z) ==
  LET after[n \in 0..Len(order)] ==
        IF n = 0 THEN d
        ELSE IF order[n] \in S THEN Run(after[n-1], Script[order[n]][way], rows, z)
        ELSE after[n-1]
  IN  after[Len(order)]

UpAll(d, S, rows, z)   == RunAll(d, S, Order, "up", rows, z)
DownAll(d, S, rows, z) == RunAll(d, S, Reverse(Order), "down", rows, z)

\* alembic upgrade target: the target and what it revises, if not applied.
Pending(target) == Ancestors[target] \ applied

\* alembic downgrade target: everything applied that revises the target.
Undone(target) ==
  {r \in applied : target = Base \/ (r # target /\ target \in Ancestors[r])}

-----------------------------------------------------------------------------
(* Commands.  do_run_migrations runs all the scripts of a command in one    *)
(* transaction: they take effect together or not at all.                    *)

Init ==
  /\ applied = {}
  /\ db = NoDatabase
  /\ zone \in Zones
  /\ used = FALSE
  /\ last = [kind |-> "none", target |-> Base, ok |-> TRUE]

InBounds(d) == \A c \in DOMAIN d.drift : d.drift[c] \in -MaxDrift..MaxDrift

\* Mutant of Command: every statement is committed on its own.
CommandAutocommit(kind, target, result, after) ==
  /\ InBounds(result)
  /\ last' = [kind |-> kind, target |-> target, ok |-> result.ok]
  /\ db' = result
  /\ applied' = (IF result.ok THEN after ELSE applied)
  /\ used' = (used /\ "active_sessions" \in DOMAIN result.refs)
  /\ UNCHANGED zone

\* Mutant of Command: the revisions are recorded outside the transaction.
CommandStamped(kind, target, result, after) ==
  /\ InBounds(result)
  /\ last' = [kind |-> kind, target |-> target, ok |-> result.ok]
  /\ applied' = after
  /\ IF result.ok
     THEN db' = result /\ used' = (used /\ "active_sessions" \in DOMAIN result.refs)
     ELSE UNCHANGED <<db, used>>
  /\ UNCHANGED zone

Command(kind, target, result, after) ==
  /\ InBounds(result)
  /\ last' = [kind |-> kind, target |-> target, ok |-> result.ok]
  /\ \/ /\ result.ok
        /\ db' = result
        /\ applied' = after
        /\ used' = (used /\ "active_sessions" \in DOMAIN result.refs)
     \/ ~result.ok /\ UNCHANGED <<db, applied, used>>
  /\ UNCHANGED zone

Upgrade(target) ==
  /\ Pending(target) # {}
  /\ Command("upgrade", target, UpAll(db, Pending(target), used, zone),
             applied \cup Pending(target))

Downgrade(target) ==
  /\ Undone(target) # {}
  /\ target \in applied \cup {Base}
  /\ Command("downgrade", target, DownAll(db, Undone(target), used, zone),
             applied \ Undone(target))

\* The application inserts or deletes sessions between two commands.
Use ==
  /\ "active_sessions" \in DOMAIN db.refs
  /\ used' = ~used
  /\ last' = [kind |-> "none", target |-> Base, ok |-> TRUE]
  /\ UNCHANGED <<applied, db, zone>>

Next ==
  \/ \E r \in Revision : Upgrade(r)
  \/ \E r \in Revision \cup {Base} : Downgrade(r)
  \/ Use

Spec == Init /\ [][Next]_vars

-----------------------------------------------------------------------------
(* Properties.                                                              *)

\* applied is closed under "revises"; columns and indexes are those of tables
\* that exist, every table one refers to exists, every value has a drift.
TypeOK ==
  /\ applied \in Closed
  /\ \A t \in DOMAIN db.refs : db.refs[t] \subseteq DOMAIN db.refs
  /\ \A c \in DOMAIN db.type : c[1] \in DOMAIN db.refs
                               /\ db.type[c] \in {"naive", "aware", "other"}
  /\ DOMAIN db.drift = DOMAIN db.type
  /\ \A i \in db.index : i[1] \in DOMAIN db.refs
  /\ db.ok /\ zone \in Zones /\ used \in BOOLEAN
  /\ used => "active_sessions" \in DOMAIN db.refs

\* The schema of a fresh database upgraded to the revisions S.
FreshSchema == [S \in Closed |-> UpAll(NoDatabase, S, FALSE, 0)]

\* Whatever commands led there, in whatever order the branches were upgraded,
\* rolled back and merged, with failed commands in between: the schema is the
\* one a fresh database has at the same revisions.
SchemaDependsOnRevisions ==
  LET fresh == FreshSchema[applied]
  IN  db.refs = fresh.refs /\ db.type = fresh.type /\ db.index = fresh.index

\* At the head the tables, foreign keys, date types and indexes are those of
\* the models, so the code can run on it.
ModelsServed ==
  HeadRevision \in applied =>
    /\ db.refs = [t \in DOMAIN Models |-> Models[t].refs]
    /\ db.type = ModelType
    /\ db.index = ModelIndexes

\* The revisions whose scripts have no way back.
OneWay == {"7ba4c8acd02e", "864df66fbeb7"}

\* From wherever the commands led, an upgrade fails only if it has to add
\* refresh_token_hash to sessions that exist, a downgrade only if it has to
\* undo 7ba4c8acd02e or 864df66fbeb7.
FailuresExplained ==
  ~last.ok =>
    \/ last.kind = "upgrade" /\ "a8cbb47717b3" \in Pending(last.target) /\ used
    \/ last.kind = "downgrade" /\ OneWay \cap Undone(last.target) # {}

\* No command, failing or not, takes a database back behind 864df66fbeb7 or
\* 7ba4c8acd02e: sessions keep the unique hash the refresh relies on.
NoWayBack == [][OneWay \cap applied \subseteq applied']_applied

\* No conversion moves an instant, however often columns are converted back
\* and forth, but for those without USING: the two tables of tokens are off
\* by the server's offset exactly while their columns are aware, and
\* interview_summaries may be off by more with each way down.
InstantsKept ==
  \A c \in DOMAIN db.drift \ SummaryTimes :
    db.drift[c] = IF /\ c \in RefreshTokenTimes \cup VerificationTimes
                     /\ db.type[c] = "aware"
                  THEN -zone ELSE 0

\* What README.md says of "alembic downgrade base": "Wipe everything".
DowngradeBaseWipes ==
  last.kind = "downgrade" /\ last.target = Base => db = NoDatabase

-----------------------------------------------------------------------------
(* The inductive invariant behind the properties.  The schema at a closed   *)
(* set of revisions has a closed form: what its members create, convert and *)
(* replace.                                                                 *)

\* The tables of cacd5554ba5a, and all that are ever created.
Founded ==
  Over(Over(Roots, Over(UserTables, WorkspaceTables)),
       Over(Over(MeetingTables, SummaryTables), Over(InterviewTables, ScoreTables)))
Tables == Over(Founded, Over(RefreshTokenTable, VerificationTable))

\* The columns 8ba95b973a4a converts.
Standardized == ToScorecards \cup ToPasswordResets \cup ToTranscripts \cup ToWorkspaces

\* X if r is one of the revisions S.
With(r, S, X) == IF r \in S THEN X ELSE {}

TablesAt(S) ==
  With("cacd5554ba5a", S, DOMAIN Founded)
    \cup With("d44e91e81013", S, DOMAIN RefreshTokenTable)
    \cup With("64a8c4b4d071", S, DOMAIN VerificationTable)
DatesAt(S) ==
  With("cacd5554ba5a", S, TimesOf(Founded))
    \cup With("d44e91e81013", S, RefreshTokenTimes \cup PreferenceCreated)
    \cup With("64a8c4b4d071", S, VerificationTimes)
    \cup With("7ba4c8acd02e", S, SyncTimes)
    \cup With("8ba95b973a4a", S, RefreshUpdated)
AwareAt(S) ==
  With("8d114ef61fcc", S, RefreshTokenTimes)
    \cup With("2cdac93874a4", S, VerificationTimes)
    \cup With("8ba95b973a4a", S, RefreshUpdated \cup Standardized)
OthersAt(S) ==
  With("a8cbb47717b3", S, TokenHash) \cup With("7ba4c8acd02e", S, IsVerified)
    \cup With("480a265e5923", S, ContextColumns)

RefsAt(S) == [t \in TablesAt(S) |-> Tables[t].refs]
TypeAt(S) == Typed(DatesAt(S), AwareAt(S), OthersAt(S))
IndexAt(S) ==
  With("cacd5554ba5a", S, InterviewIndexes \cup SegmentIndex \cup TurnIndex)
    \cup (With("a8cbb47717b3", S, TokenHashIndex) \ With("864df66fbeb7", S, TokenHashIndex))
    \cup With("864df66fbeb7", S, TokenHashUnique)
    \cup With("64a8c4b4d071", S, VerificationIndex)

\* d has the schema of the revisions S.
SchemaIs(d, S) == d.refs = RefsAt(S) /\ d.type = TypeAt(S) /\ d.index = IndexAt(S)

\* The columns converted by the server's zone are dates with or without one.
TokenDates ==
  \A c \in DOMAIN db.type \cap (RefreshTokenTimes \cup VerificationTimes) :
    db.type[c] \in {"naive", "aware"}

\* Whatever was upgraded, undone and failed before, the schema is the closed form
\* of the applied revisions, and values moved and commands failed only as the
\* scripts explain.
IInv ==
  /\ TypeOK /\ DOMAIN db = DOMAIN NoDatabase
  /\ TokenDates /\ InstantsKept
  /\ SchemaIs(db, applied) /\ FailuresExplained

=============================================================================
