--------------------------- MODULE DomainScaffold ---------------------------
(***************************************************************************)
(* The Core's domain generator (bootstrap/home.py, domain_generator.py,    *)
(* relational_domain.py): a form of the home page writes the files of a    *)
(* new domain, its Alembic migration, and its lines in routes.py and       *)
(* loader.py.  Several web workers share the source tree and take no lock. *)
(*                                                                         *)
(* A file is the pair of its domain and its kind; what it holds is the     *)
(* request it was generated from, which is what its imports, its tables    *)
(* and its foreign keys are computed from.  One write_text call is one     *)
(* step; a worker may die between two of them.  write_text truncates the   *)
(* file before it writes, so a reader of the real tree could also meet a   *)
(* torn file.  RELATIONSHIPS.md, which nothing imports, is written with    *)
(* README.md; without tables the code writes it behind the router.         *)
(***************************************************************************)
EXTENDS Naturals, Sequences, FiniteSets

CONSTANTS
    WebWorkers,            \* web workers that may serve the form
    Domains,            \* domain names, in snake_case
    EntityName,         \* _singular: the entity name of each domain
    AssociationName,    \* _association_table: the table of a pair of domains
    DomainForms,           \* the forms that are submitted
    MaxForms,           \* bound on the submitted forms
    NoFile                \* no file, no request, no revision

ASSUME ScaffoldAssumption ==
    /\ MaxForms \in Nat
    /\ NoFile \notin Domains /\ NoFile \notin DomainForms
    /\ NoFile \notin (1..MaxForms + 1) \X (Domains \cup {NoFile})
    /\ \A r \in DomainForms : /\ r.domain \in Domains
                           /\ r.parent \in Domains \cup {NoFile}
                           /\ r.related \subseteq Domains

VARIABLES
    files,          \* <<domain, kind>> -> the request the file was made from
    migrations,     \* the migration files under alembic/versions
    routes,         \* bootstrap/routes.py: import lines, included routers
    loader,         \* infrastructure/database/loader.py: domains imported
    applied,        \* revisions the database has been upgraded to
    job,            \* what each worker is doing
    forms,          \* forms submitted so far
    generated,      \* domains whose form was answered "generated"
    overlap,        \* two forms have been in progress at the same time
    replaced        \* two forms have written one migration file, differently

scaffoldVars == <<files, migrations, routes, loader, applied, job, forms, generated,
          overlap, replaced>>

Kinds == {"notes", "init", "entity", "schema", "service", "router"}
NoJob == [pc |-> "idle"]

-----------------------------------------------------------------------------
(* What a request turns into                                               *)

\* The domains a relational domain refers to: its parent, its many-to-many.
Required(r) == r.related \cup ({r.parent} \ {NoFile})

Creates(r) == {r.domain} \cup {AssociationName[{r.domain, d}] : d \in r.related}

\* The modules of the package that a generated file imports: an entity names
\* the entities it has foreign keys to and relations with ...
EntityImports(r) == IF r.relational THEN {<<d, "entity">> : d \in Required(r)} ELSE {}

\* ... a service its own schema and, with tables, its own entity and the
\* related ones ...
ServiceImports(r) ==
    {<<r.domain, "entity">>, <<r.domain, "schema">>}
      \cup {<<d, "entity">> : d \in r.related}
MemoryServiceImports(r) == {<<r.domain, "schema">>}

\* ... and a router its schema and its service.
RouterImports(r) == {<<r.domain, "schema">>, <<r.domain, "service">>}

Imports(kind, r) ==
    CASE kind = "entity"  -> EntityImports(r)
      [] kind = "service" -> IF r.relational THEN ServiceImports(r)
                                             ELSE MemoryServiceImports(r)
      [] kind = "router"  -> RouterImports(r)
      [] OTHER            -> {}

\* Mutant: the router is written first.
WriteRouterFirst(r) == <<"router", "init", "notes", "entity", "schema", "service">>

\* The order in which the dictionary of files is written; README.md is "notes",
\* and with tables RELATIONSHIPS.md too.
MemoryOrder == <<"notes", "init", "entity", "schema", "service", "router">>
WriteOrder(r) ==
    IF r.relational
    THEN <<"init", "notes", "entity", "schema", "service", "router">>
    ELSE MemoryOrder

Exists(f) == files[f] # NoFile
Revisions == {m.revision : m \in migrations}
Heads == Revisions \ {m.down : m \in migrations}
Tables == UNION {m.creates : m \in migrations}

\* Mutant: the number counts the new file twice.
MigrationSkipsNumber(r) ==
    [revision |-> <<Cardinality(migrations) + 2, r.domain>>,
     down     |-> CHOOSE h \in Heads : TRUE,
     creates  |-> Creates(r), refs |-> Required(r)]

\* Mutant: the migration of a domain that refers to none builds on the first.
MigrationFromBase(r) ==
    [revision |-> <<Cardinality(migrations) + 1, r.domain>>,
     down     |-> IF Required(r) = {} THEN <<1, NoFile>>
                  ELSE CHOOSE h \in Heads : TRUE,
     creates  |-> Creates(r), refs |-> Required(r)]

\* _migration_source: a migration creates the domain's table and one table per
\* association, with foreign keys to the domains it refers to.
MigrationOf(r) ==
    [revision |-> <<Cardinality(migrations) + 1, r.domain>>,
     down     |-> CHOOSE h \in Heads : TRUE,
     creates  |-> Creates(r),
     refs     |-> Required(r)]

\* The checks of build_relational_core_domain_files.
RelatesToItself(r) == r.domain \in Required(r)
EntitiesExist(r) == \A d \in Required(r) : Exists(<<d, "entity">>)

\* Mutant: the tables referred to are not looked up.
MigrationFitsAnyTables(r) == Creates(r) \cap Tables = {} /\ Cardinality(Heads) <= 1

\* The checks of _next_migration.
MigrationFits(r) ==
    /\ Required(r) \subseteq Tables
    /\ Creates(r) \cap Tables = {}
    /\ Cardinality(Heads) <= 1

\* generate_relational_core_domain looks at every path before it writes one.
PathsAreFree(r) == \A k \in Kinds : ~Exists(<<r.domain, k>>)

Accepted(r) ==
    r.relational => /\ ~RelatesToItself(r)
                    /\ EntitiesExist(r)
                    /\ MigrationFits(r)
                    /\ PathsAreFree(r)

-----------------------------------------------------------------------------
(* A form, from its submission to the redirect that answers it             *)

\* add_domain reads the tree and plans the files.  A refused form is answered
\* with the error and leaves the tree alone.
AddDomain(w, r) ==
    /\ job[w] = NoJob
    /\ forms < MaxForms
    /\ forms' = forms + 1
    /\ overlap' = (overlap \/ \E v \in WebWorkers : job[v] # NoJob)
    /\ job' = IF Accepted(r)
              THEN [job EXCEPT ![w] =
                      [pc |-> "write", req |-> r, todo |-> WriteOrder(r),
                       migration |-> IF r.relational THEN {MigrationOf(r)}
                                                     ELSE {}]]
              ELSE job
    /\ UNCHANGED <<files, migrations, routes, loader, applied, generated, replaced>>

\* The next file.  In memory mode _write refuses a path that exists, which
\* ends the form with the files written so far in place.
WriteFile(w) ==
    /\ job[w].pc = "write"
    /\ job[w].todo # << >>
    /\ LET r == job[w].req
           f == <<r.domain, Head(job[w].todo)>>
       IN  IF ~r.relational /\ Exists(f)
           THEN /\ job' = [job EXCEPT ![w] = NoJob]
                /\ UNCHANGED files
           ELSE /\ files' = [files EXCEPT ![f] = r]
                /\ job' = [job EXCEPT ![w].todo = Tail(@)]
    /\ UNCHANGED <<migrations, routes, loader, applied, forms, generated,
                   overlap, replaced>>

\* The migration is the last of the files; its path is its revision.
WriteMigration(w) ==
    /\ job[w].pc = "write"
    /\ job[w].todo = << >>
    /\ migrations' = {m \in migrations :
                        \A n \in job[w].migration : m.revision # n.revision}
                     \cup job[w].migration
    /\ replaced' = (replaced \/ \E m \in migrations, n \in job[w].migration :
                                  m.revision = n.revision /\ m # n)
    /\ job' = [job EXCEPT ![w].pc = "readRoutes"]
    /\ UNCHANGED <<files, routes, loader, applied, forms, generated, overlap>>

\* _register_routes reads routes.py ...
ReadRoutes(w) ==
    /\ job[w].pc = "readRoutes"
    /\ job' = [job EXCEPT ![w] = [pc |-> "writeRoutes", req |-> @.req,
                                  routes |-> routes]]
    /\ UNCHANGED <<files, migrations, routes, loader, applied, forms,
                   generated, overlap, replaced>>

\* Mutant: the include line is not added.
WithImportOnly(text, d) ==
    [imports |-> IF \E i \in DOMAIN text.imports : text.imports[i] = d
                 THEN text.imports ELSE Append(text.imports, d),
     included |-> text.included]

\* ... adds the import line and the include line it does not find there ...
WithRouter(text, d) ==
    [imports |-> IF \E i \in DOMAIN text.imports : text.imports[i] = d
                 THEN text.imports ELSE Append(text.imports, d),
     included |-> text.included \cup {EntityName[d]}]

\* ... and writes the whole text back.
WriteRoutes(w) ==
    /\ job[w].pc = "writeRoutes"
    /\ routes' = WithRouter(job[w].routes, job[w].req.domain)
    /\ job' = [job EXCEPT ![w] = [pc |-> "readLoader", req |-> @.req]]
    /\ UNCHANGED <<files, migrations, loader, applied, forms, generated,
                   overlap, replaced>>

ReadLoader(w) ==
    /\ job[w].pc = "readLoader"
    /\ job' = [job EXCEPT ![w] = [pc |-> "writeLoader", req |-> @.req,
                                  loader |-> loader]]
    /\ UNCHANGED <<files, migrations, routes, loader, applied, forms,
                   generated, overlap, replaced>>

WriteLoader(w) ==
    /\ job[w].pc = "writeLoader"
    /\ loader' = job[w].loader \cup {job[w].req.domain}
    /\ job' = [job EXCEPT ![w] = [pc |-> "answer", req |-> @.req]]
    /\ UNCHANGED <<files, migrations, routes, applied, forms, generated,
                   overlap, replaced>>

-----------------------------------------------------------------------------
(* The database                                                            *)

\* The revisions a migration builds on: the smallest set that holds the one
\* below it and, with a migration, the one below that.
BuildsOn(m, set) == m.down = NoFile \/ m.down \in set
Ancestors(m) ==
    LET closed == {set \in SUBSET Revisions :
                     /\ BuildsOn(m, set)
                     /\ \A n \in migrations : n.revision \in set => BuildsOn(n, set)}
    IN  {r \in Revisions : \A set \in closed : r \in set}

Before(m) ==
    LET above == Ancestors(m)
    IN  UNION {n.creates : n \in {x \in migrations : x.revision \in above}}

\* A migration runs if the tables its foreign keys name are there and the
\* tables it creates are not.
Runs(m) ==
    LET tables == Before(m)
    IN  m.refs \subseteq tables /\ m.creates \cap tables = {}

\* alembic upgrade head, behind make migrate-core: it wants one head.
Upgrade ==
    IF Cardinality(Heads) = 1 /\ \A m \in migrations : Runs(m)
    THEN applied' = Revisions
    ELSE UNCHANGED applied

\* The end of add_domain: it upgrades the database if the form says so, and
\* redirects with a notice or with the upgrade's error.
Answer(w) ==
    /\ job[w].pc = "answer"
    /\ IF job[w].req.relational /\ job[w].req.migrate THEN Upgrade
       ELSE UNCHANGED applied
    /\ generated' = generated \cup {job[w].req.domain}
    /\ job' = [job EXCEPT ![w] = NoJob]
    /\ UNCHANGED <<files, migrations, routes, loader, forms, overlap, replaced>>

\* apply_migration: the button of the home page.
ApplyMigration(w) ==
    /\ job[w] = NoJob
    /\ applied # Revisions
    /\ Upgrade
    /\ UNCHANGED <<files, migrations, routes, loader, job, forms, generated,
                   overlap, replaced>>

\* The worker dies; what it has written stays.
WorkerDies(w) ==
    /\ job[w] # NoJob
    /\ job' = [job EXCEPT ![w] = NoJob]
    /\ UNCHANGED <<files, migrations, routes, loader, applied, forms,
                   generated, overlap, replaced>>

-----------------------------------------------------------------------------
ScaffoldInit ==
    /\ files = [f \in Domains \X Kinds |-> NoFile]
    /\ migrations = {[revision |-> <<1, NoFile>>, down |-> NoFile,
                      creates |-> {}, refs |-> {}]}
    /\ routes = [imports |-> << >>, included |-> {}]
    /\ loader = {}
    /\ applied = {}
    /\ job = [w \in WebWorkers |-> NoJob]
    /\ forms = 0
    /\ generated = {}
    /\ overlap = FALSE
    /\ replaced = FALSE

ScaffoldNext ==
    \E w \in WebWorkers :
        \/ \E r \in DomainForms : AddDomain(w, r)
        \/ WriteFile(w)
        \/ WriteMigration(w)
        \/ ReadRoutes(w)
        \/ WriteRoutes(w)
        \/ ReadLoader(w)
        \/ WriteLoader(w)
        \/ Answer(w)
        \/ ApplyMigration(w)
        \/ WorkerDies(w)

ScaffoldSpec == ScaffoldInit /\ [][ScaffoldNext]_scaffoldVars

-----------------------------------------------------------------------------
\* Type correctness, and that what a worker has still to write is the end of
\* the list it planned.
ScaffoldTypeOK ==
    /\ files \in [Domains \X Kinds -> DomainForms \cup {NoFile}]
    /\ \A m \in migrations : /\ m.revision \in (1..MaxForms + 1) \X (Domains \cup {NoFile})
                             /\ m.refs \subseteq Domains
    /\ \A i \in DOMAIN routes.imports : routes.imports[i] \in Domains
    /\ loader \subseteq Domains
    /\ applied \subseteq Revisions
    /\ forms \in 0..MaxForms
    /\ generated \subseteq Domains
    /\ overlap \in BOOLEAN /\ replaced \in BOOLEAN
    /\ \A w \in WebWorkers :
         job[w].pc = "write" =>
           \E n \in 0..6 : job[w].todo = SubSeq(WriteOrder(job[w].req), n + 1, 6)

\* The API can always be restarted: a file that is on disk, and a line of
\* routes.py or loader.py, imports only files that are on disk, whatever
\* worker died and whatever forms ran at the same time
\* (relational_domain.py:735, the order of the files at :776 and
\* domain_generator.py:508).
ImportsResolve ==
    /\ \A d \in Domains, k \in Kinds :
         Exists(<<d, k>>) =>
           \A f \in Imports(k, files[<<d, k>>]) : Exists(f)
    /\ \A i \in DOMAIN routes.imports : Exists(<<routes.imports[i], "router">>)
    /\ \A d \in loader : Exists(<<d, "entity">>)

\* Every migration the generator has written can be run on the ones it builds
\* on: no foreign key to a table that is not there yet, no table twice, also
\* when forms overlapped (_next_migration's checks, relational_domain.py:123).
\* One thing undoes it: two forms for one domain that were in progress at once
\* plan the same file, and the second one replaces a migration that another
\* may have been built on (write_text, relational_domain.py:869).
MigrationsRun == replaced \/ \A m \in migrations : Runs(m)

\* The migrations have one head unless two forms were in progress at once: no
\* sequence of forms, refusals and crashes of one worker forks them
\* (relational_domain.py:144).
OneHead == overlap \/ Cardinality(Heads) = 1

\* After "Domain ... generated. Restart the API to load the new router."
\* (home.py:269) the restarted API serves the domain: routes.py includes its
\* entity's router, and the last import of that name is the domain's.  Two
\* things undo it: forms that overlapped, and a domain with the same entity
\* name, whose import replaces this one.
Serves(d) ==
    /\ EntityName[d] \in routes.included
    /\ \E i \in DOMAIN routes.imports :
         /\ routes.imports[i] = d
         /\ \A j \in DOMAIN routes.imports :
              j > i => EntityName[routes.imports[j]] # EntityName[d]

GeneratedIsServed ==
    \A d \in generated :
        \/ overlap
        \/ \E i \in DOMAIN routes.imports :
             /\ routes.imports[i] # d
             /\ EntityName[routes.imports[i]] = EntityName[d]
        \/ Serves(d) /\ d \in loader

\* A generated domain can be used: the tree imports, its migration runs, there is
\* one migration to upgrade to, and the restarted API serves the domain
\* (generate_relational_domain).
GeneratedDomainWorks ==
    /\ ScaffoldTypeOK
    /\ ImportsResolve
    /\ MigrationsRun /\ OneHead
    /\ GeneratedIsServed
=============================================================================
