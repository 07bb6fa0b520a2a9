---------------------------- MODULE MCMigrations ----------------------------
(* Instances of Migrations: a server in UTC, one hour east or west of it.   *)
EXTENDS Migrations

MCZones == {-1, 0, 1}

=============================================================================
