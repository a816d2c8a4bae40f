------------------------------ MODULE Migrations ------------------------------
(***************************************************************************)
(* The schema of the database and the Alembic scripts that take it from    *)
(* one revision to the next, or back.  A run of Alembic is one PostgreSQL  *)
(* transaction over all its scripts, statement by statement.  "docker      *)
(* compose up" makes one, in the container "migrate", and starts the       *)
(* container "auth" when it has succeeded; "make migrate" and alembic by   *)
(* hand make others, whether the service is up or not.  Two runs at a time *)
(* are left out.  A table is its columns, its indexes and whether deleting *)
(* a user deletes its rows; of its rows only whether there are any.        *)
(***************************************************************************)
EXTENDS Naturals, Sequences

VARIABLES schema,     \* schema[t]: the table t
          rows,       \* the tables that hold rows
          revision,   \* alembic_version: number of scripts applied
          migrate,    \* the last run of Alembic
          target,     \* the revision it goes to
          work,       \* what its transaction has done, see Untouched
          todo,       \* statements left of its present script
          container,  \* the container "migrate" of the last "compose up"
          auth,       \* the container "auth"
          downgraded  \* history: by hand, and not upgraded since

committed == <<schema, rows, revision>>
run == <<migrate, target, work, todo>>
vars == <<committed, run, container, auth, downgraded>>

serving == auth = "up"

-----------------------------------------------------------------------------
(* Statements and scripts                                                  *)

TokenTable(columns, cascade) ==
  [columns |-> columns \union {"id", "token_hash", "user_id", "expires_at"},
   indexes |-> {"token_hash", "user_id"}, cascade |-> cascade]
LogTable(columns) ==
  [columns |-> columns \union {"id", "user_id"},
   indexes |-> {"id", "user_id"}, cascade |-> FALSE]
UsersTable(columns) ==
  [columns |-> columns \union {"id", "email", "is_email_verified",
                               "password_hash", "active", "created_at"},
   indexes |-> {"id", "email"}, cascade |-> FALSE]

SessionColumns == {"revoked_at", "replaced_by_id", "created_at"}
EventColumns == {"event_type", "ip_address", "user_agent", "created_at"}
MailColumns == {"email_type", "email", "payload", "sent_at"}

(* create_table and its create_index; drop_table and its drop_index.       *)
Create(t, def) == [op |-> "create", table |-> t, def |-> def]
Drop(t) == [op |-> "drop", table |-> t]
(* The columns that are added are all NOT NULL, without a default.         *)
AddColumn(t, c) == [op |-> "add_column", table |-> t, column |-> c]
DropColumn(t, c) == [op |-> "drop_column", table |-> t, column |-> c]
(* drop_constraint and create_foreign_key.                                 *)
ForeignKey(t, cascade) ==
  [op |-> "foreign_key", table |-> t, cascade |-> cascade]

InitialTables ==
  [up |-> <<Create("users", UsersTable({"username"})),
            Create("email_tokens", TokenTable({"used"}, FALSE)),
            Create("password_reset_tokens", TokenTable({"used"}, FALSE)),
            Create("refresh_tokens", TokenTable(SessionColumns, FALSE)),
            Create("security_events", LogTable(EventColumns)),
            Create("sent_emails", LogTable(MailColumns))>>,
   down |-> <<Drop("sent_emails"), Drop("security_events"),
              Drop("refresh_tokens"), Drop("password_reset_tokens"),
              Drop("email_tokens"), Drop("users")>>]

RenameResetTokens ==
  [up |-> <<Create("password_recover_tokens", TokenTable({"used"}, FALSE)),
            Drop("password_reset_tokens")>>,
   down |-> <<Create("password_reset_tokens", TokenTable({"used"}, FALSE)),
              Drop("password_recover_tokens")>>]

RemoveUsername ==
  [up |-> <<DropColumn("users", "username")>>,
   down |-> <<AddColumn("users", "username")>>]

RestructureTables ==
  [up |-> <<Create("one_time_tokens", TokenTable({"used", "purpose"}, FALSE)),
            Drop("password_recover_tokens"), Drop("security_events"),
            Drop("sent_emails"), Drop("email_tokens")>>,
   down |-> <<Create("email_tokens", TokenTable({"used"}, FALSE)),
              Create("sent_emails", LogTable(MailColumns)),
              Create("security_events", LogTable(EventColumns)),
              Create("password_recover_tokens", TokenTable({"used"}, FALSE)),
              Drop("one_time_tokens")>>]

Versioned == <<"one_time_tokens", "refresh_tokens", "users">>
AddVersions ==
  [up |-> [i \in 1 .. 3 |-> AddColumn(Versioned[i], "version")],
   down |-> [i \in 1 .. 3 |-> DropColumn(Versioned[4 - i], "version")]]

(* Two mutated forms: a downgrade that is no inverse, and an upgrade that  *)
(* recreates a table.                                                      *)
OnDeleteCascadeOneWay ==
  [up |-> <<ForeignKey("one_time_tokens", TRUE),
            ForeignKey("refresh_tokens", TRUE)>>,
   down |-> <<ForeignKey("refresh_tokens", FALSE)>>]
OnDeleteCascadeRecreating ==
  [up |-> <<ForeignKey("one_time_tokens", TRUE), Drop("refresh_tokens"),
            Create("refresh_tokens",
                   TokenTable({"version"} \union SessionColumns, TRUE))>>,
   down |-> <<>>]
OnDeleteCascade ==
  [up |-> <<ForeignKey("one_time_tokens", TRUE),
            ForeignKey("refresh_tokens", TRUE)>>,
   down |-> <<ForeignKey("refresh_tokens", FALSE),
              ForeignKey("one_time_tokens", FALSE)>>]

Scripts == <<InitialTables, RenameResetTokens, RemoveUsername,
             RestructureTables, AddVersions, OnDeleteCascade>>
Latest == Len(Scripts)

Without(f, t) == [x \in DOMAIN f \ {t} |-> f[x]]
With(f, t, v) == [x \in DOMAIN f \union {t} |-> IF x = t THEN v ELSE f[x]]

Apply(s, o) ==
  CASE o.op = "create" -> With(s, o.table, o.def)
    [] o.op = "drop" -> Without(s, o.table)
    [] o.op = "add_column" ->
         [s EXCEPT ![o.table].columns = @ \union {o.column}]
    [] o.op = "drop_column" ->
         [s EXCEPT ![o.table].columns = @ \ {o.column}]
    [] o.op = "foreign_key" -> [s EXCEPT ![o.table].cascade = o.cascade]

(* PostgreSQL refuses to drop a table that others refer to (all of them    *)
(* refer to users), and to give NOT NULL columns to existing rows.         *)
Refused(s, r, o) ==
  \/ o.op = "create" /\ o.table \in DOMAIN s
  \/ o.op # "create" /\ o.table \notin DOMAIN s
  \/ o.op = "drop" /\ o.table = "users" /\ DOMAIN s # {"users"}
  \/ o.op = "add_column" /\ o.table \in r

(* The schema that the scripts up to revision n make of an empty database. *)
NoTables == [t \in {} |-> {}]
SchemaAfter(s, ops) ==
  LET f[i \in 0 .. Len(ops)] == IF i = 0 THEN s ELSE Apply(f[i - 1], ops[i])
  IN f[Len(ops)]
SchemaAt[n \in 0 .. Latest] ==
  IF n = 0 THEN NoTables ELSE SchemaAfter(SchemaAt[n - 1], Scripts[n].up)

(* Base.metadata: the tables as the repositories use them.                 *)
Models ==
  [t \in {"users", "one_time_tokens", "refresh_tokens"} |->
     CASE t = "users" -> UsersTable({"version"})
       [] t = "one_time_tokens" ->
            TokenTable({"version", "used", "purpose"}, TRUE)
       [] t = "refresh_tokens" ->
            TokenTable({"version"} \union SessionColumns, TRUE)]

-----------------------------------------------------------------------------

(* A transaction that has done nothing: the schema and the revision it     *)
(* sees, the tables it has dropped (and perhaps made again), those it has  *)
(* locked against inserts.                                                 *)
Untouched ==
  [schema |-> schema, revision |-> revision, dropped |-> {}, locked |-> {}]

(* An empty database, or one that an earlier program has used: rows of any *)
(* table belong to a user.                                                 *)
Init ==
  /\ revision \in 0 .. Latest
  /\ schema = SchemaAt[revision]
  /\ rows \in SUBSET DOMAIN schema
  /\ rows = {} \/ "users" \in rows
  /\ migrate = "never"
  /\ target = revision
  /\ work = Untouched
  /\ todo = <<>>
  /\ container = "none"
  /\ auth = "down"
  /\ downgraded = FALSE

Begin(to) ==
  /\ migrate # "running"
  /\ migrate' = "running"
  /\ target' = to
  /\ work' = Untouched
  /\ todo' = <<>>
  /\ UNCHANGED <<committed, auth, downgraded>>

(* docker compose up: alembic upgrade head.                                *)
ComposeUp ==
  /\ Begin(Latest)
  /\ container' = "running"

(* make migrate, or by hand alembic downgrade.                             *)
Run(to) ==
  /\ to = Latest \/ to < revision
  /\ Begin(to)
  /\ UNCHANGED container

(* The run ends; when it is the container's, that exits with it.           *)
End(result, exit) ==
  /\ migrate' = result
  /\ container' = IF container = "running" THEN exit ELSE container

Script ==
  IF target > work.revision THEN Scripts[work.revision + 1].up
  ELSE Scripts[work.revision].down

(* The first, or next, script; its last statement moves alembic_version.   *)
Open ==
  /\ migrate = "running" /\ todo = <<>> /\ work.revision # target
  /\ todo' = Script
  /\ UNCHANGED <<committed, migrate, target, work, container, auth,
                 downgraded>>

(* Making, dropping or changing the reference to users locks users too.    *)
Locks(o) ==
  {o.table} \union
    (IF o.op \in {"create", "drop", "foreign_key"} THEN {"users"} ELSE {})

Execute ==
  /\ migrate = "running" /\ todo # <<>>
  /\ LET o == Head(todo) IN
     /\ ~Refused(work.schema, rows \ work.dropped, o)
     /\ work' =
          [schema |-> Apply(work.schema, o),
           revision |-> IF Len(todo) > 1 THEN work.revision
                        ELSE IF target > work.revision THEN work.revision + 1
                        ELSE work.revision - 1,
           dropped |-> work.dropped \union
                         (IF o.op = "drop" THEN {o.table} ELSE {}),
           locked |-> work.locked \union Locks(o)]
  /\ todo' = Tail(todo)
  /\ UNCHANGED <<committed, migrate, target, container, auth, downgraded>>

RollBack ==
  /\ work' = Untouched
  /\ todo' = <<>>
  /\ UNCHANGED <<committed, target, auth, downgraded>>

(* A statement fails: the transaction and all its scripts are rolled back. *)
Fail ==
  /\ migrate = "running" /\ todo # <<>>
  /\ Refused(work.schema, rows \ work.dropped, Head(todo))
  /\ End("failed", "failed")
  /\ RollBack

Commit ==
  /\ migrate = "running" /\ todo = <<>> /\ work.revision = target
  /\ schema' = work.schema
  /\ rows' = rows \ work.dropped
  /\ revision' = work.revision
  /\ downgraded' = (target # Latest)
  /\ End(IF target = Latest THEN "completed" ELSE "downgraded", "completed")
  /\ UNCHANGED <<target, work, todo, auth>>

(* The process, or PostgreSQL, goes down at any point of the run.          *)
Crash ==
  /\ migrate = "running"
  /\ End("crashed", "failed")
  /\ RollBack

(* depends_on migrate: service_completed_successfully.                     *)
StartAuthEagerly ==
  /\ auth = "down" /\ container \in {"completed", "failed"}
  /\ auth' = "up"
  /\ UNCHANGED <<committed, run, container, downgraded>>
StartAuth ==
  /\ auth = "down" /\ container = "completed"
  /\ auth' = "up"
  /\ UNCHANGED <<committed, run, container, downgraded>>

(* The service dies, and is restarted without a look at "migrate"          *)
(* (restart: unless-stopped); or it is stopped by hand.                    *)
AuthDies ==
  /\ auth = "up" /\ auth' = "restarting"
  /\ UNCHANGED <<committed, run, container, downgraded>>
Restart ==
  /\ auth = "restarting" /\ auth' = "up"
  /\ UNCHANGED <<committed, run, container, downgraded>>
StopAuth ==
  /\ auth # "down" /\ auth' = "down"
  /\ UNCHANGED <<committed, run, container, downgraded>>

(* The service inserts a user, or a token of a user.  It can where the     *)
(* table is the one it knows, and not locked by a run of Alembic.          *)
Insert(t) ==
  /\ serving
  /\ t \in DOMAIN schema /\ schema[t].columns = Models[t].columns
  /\ migrate = "running" => t \notin work.locked
  /\ t = "users" \/ "users" \in rows
  /\ rows' = rows \union {t}
  /\ UNCHANGED <<schema, revision, run, container, auth, downgraded>>

Next ==
  \/ ComposeUp
  \/ \E to \in 0 .. Latest : Run(to)
  \/ Open \/ Execute \/ Fail \/ Commit \/ Crash
  \/ StartAuth \/ AuthDies \/ Restart \/ StopAuth
  \/ \E t \in DOMAIN Models : Insert(t)

Spec == Init /\ [][Next]_vars

-----------------------------------------------------------------------------

Runs == {"never", "running", "failed", "crashed", "completed", "downgraded"}

TypeOK ==
  /\ rows \subseteq DOMAIN schema
  /\ \A t \in DOMAIN schema :
       schema[t].indexes \subseteq schema[t].columns
  /\ revision \in 0 .. Latest
  /\ target \in 0 .. Latest
  /\ migrate \in Runs
  /\ container \in {"none", "running", "failed", "completed"}
  /\ auth \in {"down", "up", "restarting"}
  /\ downgraded \in BOOLEAN

(* Whatever fails or crashes on the way, the schema is the one that the    *)
(* recorded revision stands for, so the next run can go on from it: a run  *)
(* is atomic, and every downgrade undoes its upgrade.                      *)
(* (env.py:72-75, the downgrade() of each script)                          *)
SchemaMatchesRevision == schema = SchemaAt[revision]

(* The service runs on the tables its repositories use, which are those    *)
(* that the scripts together make, over failed and concurrent runs and     *)
(* unchecked restarts; unless somebody has taken the schema back by hand,  *)
(* which nothing keeps from a service that is up.                          *)
(* (models/*.py, docker-compose.yaml:50-52, Makefile:11-12)                *)
ServesOnModels == serving => schema = Models \/ downgraded

(* Upgrading keeps the accounts, and their sessions, those included that   *)
(* the service adds while the run is under way.                            *)
UpgradesKeepAccounts ==
  [][revision' > revision =>
       rows \intersect {"users", "refresh_tokens"} \subseteq rows']_vars

(* README.md:161 (in Russian): "At the start the Alembic migrations are    *)
(* applied automatically."                                                 *)
MigrationsApply == migrate = "failed" => target # Latest

=============================================================================
