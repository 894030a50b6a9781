---------------------------- MODULE CrudService ------------------------------
(***************************************************************************)
(* The service behind every generated domain.  A relational domain is      *)
(* served by SqlAlchemyCrudService (shared_kernel/persistence): a request  *)
(* loads the row and its relation, and its commit sends what it changed    *)
(* there, columns and links, at READ COMMITTED.  A domain generated        *)
(* without tables keeps its items in a dictionary of each worker.          *)
(*                                                                         *)
(* One request is a load step and a commit step; an answer is the HTTP     *)
(* status the error handlers make of the outcome.                          *)
(***************************************************************************)
EXTENDS Naturals, FiniteSets

CONSTANTS
    CrudWorkers,        \* web workers
    Items,              \* row ids, in the order they are generated
    ItemCodes,          \* values of the unique column
    Parents,            \* rows of the parent domain
    Tags,               \* rows of the related domain
    Ghost,              \* an id that names no row
    CrudRequests,       \* the requests that are sent
    MaxCrudCalls,       \* bound on the requests
    Nil                 \* no row, nothing sent, no request

\* The columns of a generated entity; deleted_at is set or not.
ItemRow == [code : ItemCodes, parent : Parents \cup {Ghost, Nil}, deleted : BOOLEAN]

\* What the schemas accept: a field of an update is Nil where it is left out, and
\* an id may name no row.
RequestRows ==
    [op : {"create"}, item : {Nil}, code : ItemCodes, parent : Parents \cup {Ghost, Nil},
     tags : SUBSET (Tags \cup {Ghost})]
    \cup [op : {"update"}, item : Items, code : ItemCodes \cup {Nil},
          parent : Parents \cup {Ghost, Nil}, tags : {Nil} \cup SUBSET (Tags \cup {Ghost})]
    \cup [op : {"delete", "restore"}, item : Items]
    \cup [op : {"link", "unlink"}, item : Items, tag : Tags \cup {Ghost}]

ASSUME CrudAssumption ==
    /\ Items \subseteq Nat
    /\ CrudRequests \subseteq RequestRows
    /\ Nil \notin {"create", "update", "delete", "restore", "link", "unlink"}
    /\ Nil \notin ItemRow

VARIABLES
    relational,     \* the domain was generated with tables
    table,          \* item -> its row or Nil
    links,          \* the association table: pairs of item and tag
    memory,         \* worker -> the dictionary of the in-memory service
    crudJob,        \* the request each worker is serving, loaded
    crudAnswer,     \* the answer of the request that just ended
    crudCalls       \* requests served so far

crudVars == <<relational, table, links, memory, crudJob, crudAnswer, crudCalls>>

CrudIdle == [op |-> Nil]
Sent(field, row, payload) == IF payload = Nil THEN row[field] ELSE payload

\* uuid4: an id no row has and no other request is about to insert.
Unused(t) ==
    {i \in Items : t[i] = Nil /\ \A w \in CrudWorkers :
                     crudJob[w] # CrudIdle => crudJob[w].item # i}
NextItem(t) == CHOOSE i \in Unused(t) : \A j \in Unused(t) : i <= j

\* The handlers of shared_kernel/errors: an HTTPException keeps its status,
\* an exception nobody caught (ValueError, IntegrityError, StaleDataError)
\* is a 500.
HttpStatus(outcome) ==
    CASE outcome = "created" -> 201
      [] outcome = "ok"      -> 200
      [] outcome = "missing" -> 404
      [] OTHER               -> 500

Answered(req, outcome) ==
    crudAnswer' = [op |-> req.op, item |-> req.item, status |-> HttpStatus(outcome)]

-----------------------------------------------------------------------------
(* Requests: op, item (Nil for a create), and the payload, in which code, *)
(* parent and tags are Nil where the client left them out.                *)

LinkedTo(i) == {t \in Tags : <<i, t>> \in links}

\* Mutant: the whole loaded row is written back.
ChangedColumnsAll(req, loaded, wanted) == DOMAIN wanted

\* SQLAlchemy sends the columns whose value differs from the loaded one; the
\* timestamp of a delete always does.
ChangedColumns(req, loaded, wanted) ==
    {c \in DOMAIN wanted : \/ loaded = Nil
                           \/ loaded[c] # wanted[c]
                           \/ req.op = "delete" /\ c = "deleted"}

\* The row a request wants, from the row it loaded.
Wanted(req, loaded) ==
    CASE req.op = "create"  -> [code |-> req.code, parent |-> req.parent, deleted |-> FALSE]
      [] req.op = "update"  -> [loaded EXCEPT !.code = Sent("code", loaded, req.code),
                                              !.parent = Sent("parent", loaded, req.parent)]
      [] req.op = "delete"  -> [loaded EXCEPT !.deleted = TRUE]
      [] req.op = "restore" -> [loaded EXCEPT !.deleted = FALSE]
      [] OTHER              -> loaded

\* The tags a request wants, from the relation it loaded.
WantedTags(req, loaded) ==
    CASE req.op \in {"create", "update"} -> IF req.tags = Nil THEN loaded ELSE req.tags
      [] req.op = "link"   -> loaded \cup {req.tag}
      [] req.op = "unlink" -> loaded \ {req.tag}
      [] OTHER             -> loaded

\* _apply_relations refuses ids that name no row; link_related answers 404.
ReadOutcome(req) ==
    CASE req.op # "create" /\ table[req.item] = Nil -> "missing"
      [] req.op = "link" /\ req.tag = Ghost          -> "missing"
      [] req.op \in {"create", "update"} /\ req.tags # Nil /\ Ghost \in req.tags -> "error"
      [] OTHER -> "ok"

\* session.get and the checks: a refused request ends here.
Load(w, req) ==
    /\ relational /\ crudJob[w] = CrudIdle
    /\ crudCalls < MaxCrudCalls
    /\ req.op = "create" => Unused(table) # {}
    /\ crudCalls' = crudCalls + 1
    /\ IF ReadOutcome(req) = "ok"
       THEN LET item   == IF req.op = "create" THEN NextItem(table) ELSE req.item
                row    == table[item]
                tags   == LinkedTo(item)
                wanted == Wanted(req, row)
            IN  /\ crudJob' = [crudJob EXCEPT ![w] =
                      [op |-> req.op, req |-> req, item |-> item, row |-> wanted,
                       columns |-> ChangedColumns(req, row, wanted),
                       loaded |-> tags, tags |-> WantedTags(req, tags)]]
                /\ crudAnswer' = Nil
       ELSE /\ Answered(req, ReadOutcome(req))
            /\ UNCHANGED crudJob
    /\ UNCHANGED <<relational, table, links, memory>>

\* The row after a flush of the changed columns.
Flushed(job) ==
    IF job.op = "create" THEN job.row
    ELSE [c \in DOMAIN job.row |->
            IF c \in job.columns THEN job.row[c] ELSE table[job.item][c]]

\* Mutant: the relation is written back as it was wanted.
RelationReplaced(job) ==
    [add |-> {}, remove |-> {<<job.item, t>> : t \in LinkedTo(job.item) \ job.tags},
     keep |-> {<<job.item, t>> : t \in job.tags}]

\* The flush inserts the links that were added to the loaded relation and
\* deletes the ones that were taken out of it.
RelationDelta(job) ==
    [add    |-> {<<job.item, t>> : t \in job.tags \ job.loaded},
     remove |-> {<<job.item, t>> : t \in job.loaded \ job.tags},
     keep   |-> {}]

\* The database refuses a code that another row holds (a deleted one too), a
\* parent that does not exist and a link that is already there.
FlushRefused(job, row) ==
    \/ \E i \in Items \ {job.item} : table[i] # Nil /\ table[i].code = row.code
    \/ row.parent = Ghost
    \/ RelationDelta(job).add \cap links # {}

Commit(w) ==
    LET job   == crudJob[w]
        row   == Flushed(job)
        delta == RelationDelta(job)
    IN  /\ job # CrudIdle
        /\ ~FlushRefused(job, row)
        /\ table' = [table EXCEPT ![job.item] = row]
        /\ links' = (links \ delta.remove) \cup delta.add \cup delta.keep
        /\ Answered(job.req, IF job.op = "create" THEN "created" ELSE "ok")
        /\ crudJob' = [crudJob EXCEPT ![w] = CrudIdle]
        /\ UNCHANGED <<relational, memory, crudCalls>>

\* A refused flush, or one that finds a link it deletes already gone
\* (whether the driver's row count reports that decides between this step and
\* Commit).
CommitFails(w) ==
    LET job == crudJob[w]
    IN  /\ job # CrudIdle
        /\ FlushRefused(job, Flushed(job)) \/ ~(RelationDelta(job).remove \subseteq links)
        /\ Answered(job.req, "error")
        /\ crudJob' = [crudJob EXCEPT ![w] = CrudIdle]
        /\ UNCHANGED <<relational, table, links, memory, crudCalls>>

-----------------------------------------------------------------------------
(* The in-memory service: one step per request, in the dictionary of the   *)
(* worker that serves it                                                   *)

\* A create stores under a new id; nothing is unique there.  The id of a parent
\* is a UUID and the field of the answer is text: its validation fails before
\* the item is stored.
MemoryCreate(w, req) ==
    LET items == memory[w]
    IN  /\ ~relational /\ crudCalls < MaxCrudCalls
        /\ req.op = "create" /\ Unused(items) # {}
        /\ IF req.parent # Nil
           THEN Answered(req, "error") /\ UNCHANGED memory
           ELSE /\ Answered(req, "created")
                /\ memory' = [memory EXCEPT ![w][NextItem(items)] =
                                [code |-> req.code, parent |-> Nil,
                                 deleted |-> FALSE, tags |-> req.tags]]
        /\ crudCalls' = crudCalls + 1
        /\ UNCHANGED <<relational, table, links, crudJob>>

\* The item a request of the in-memory router finds.  The CRUD routes hand
\* the id over as text and the dictionary is keyed by UUID; the routes under a
\* parent compare its UUID with a field that no create has set: neither finds
\* one, and update, delete and restore are never reached with an item.
Found(w, req) ==
    IF req.op \in {"link", "unlink"} THEN memory[w][req.item] ELSE Nil

MemoryRequest(w, req) ==
    LET item == Found(w, req)
    IN  /\ ~relational /\ crudCalls < MaxCrudCalls
        /\ req.op # "create"
        /\ crudCalls' = crudCalls + 1
        /\ IF item = Nil
           THEN Answered(req, "missing") /\ UNCHANGED memory
           ELSE /\ Answered(req, "ok")
                /\ memory' = [memory EXCEPT ![w][req.item] =
                                [item EXCEPT !.tags = WantedTags(req, item.tags)]]
        /\ UNCHANGED <<relational, table, links, crudJob>>

-----------------------------------------------------------------------------
CrudInit ==
    /\ relational \in BOOLEAN
    /\ table = [i \in Items |-> Nil]
    /\ links = {}
    /\ memory = [w \in CrudWorkers |-> [i \in Items |-> Nil]]
    /\ crudJob = [w \in CrudWorkers |-> CrudIdle]
    /\ crudAnswer = Nil
    /\ crudCalls = 0

CrudNext ==
    \E w \in CrudWorkers :
        \/ \E req \in CrudRequests :
             \/ Load(w, req)
             \/ MemoryCreate(w, req)
             \/ MemoryRequest(w, req)
        \/ Commit(w)
        \/ CommitFails(w)

CrudSpec == CrudInit /\ [][CrudNext]_crudVars

-----------------------------------------------------------------------------
\* A deleted item stays deleted until a restore of that item, whatever update,
\* link or replacement had loaded it before the delete: a commit does not
\* bring back the deleted_at it read (crud_service.py:57, :206).
DeletedUntilRestored ==
    \A i \in Items :
        table[i] # Nil /\ table'[i] # Nil /\ table[i].deleted /\ ~table'[i].deleted
            => crudAnswer'.op = "restore" /\ crudAnswer'.item = i

\* A commit touches only the links its request named or had read: a link or
\* unlink its own pair, a replacement no link that it neither asked for nor
\* saw, so that one committed in between survives, any other request none
\* (crud_service.py:167, :187, :223).
LinksChangeAsNamed ==
    \A w \in CrudWorkers :
        LET job == crudJob[w]
            mine(tags) == {<<job.item, t>> : t \in tags}
        IN  links' # links /\ job # CrudIdle /\ crudJob'[w] = CrudIdle =>
              IF job.op \in {"link", "unlink"}
              THEN (links' \ links) \cup (links \ links') = mine({job.req.tag})
              ELSE /\ job.op \in {"create", "update"} /\ job.req.tags # Nil
                   /\ links' \ links \subseteq mine(job.req.tags)
                   /\ links \ links' \subseteq mine(job.loaded \ job.req.tags)

\* A request undoes nothing that another one committed after it had read the row:
\* no deletion and no link (SqlAlchemyCrudService).
CommitsKeepOthersWork == [][DeletedUntilRestored /\ LinksChangeAsNamed]_crudVars
=============================================================================
