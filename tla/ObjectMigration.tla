-------------------------- MODULE ObjectMigration ----------------------------
(***************************************************************************)
(* The operator's tools that move and save document objects while the API  *)
(* runs: migrate_documents_to_r2 copies the local objects to the bucket,   *)
(* reorganize_r2_documents moves them to a key under the tenant and the    *)
(* account, and may delete the old object in a later run, backup_export    *)
(* archives what the rows name.                                            *)
(*                                                                         *)
(* An object of a version or of a signed artifact has a legacy key, its    *)
(* bare name, and a scoped key.  What a key holds is "good" (its digest is *)
(* the one of the row), "bad", or nothing: a damaged object is what the    *)
(* tools' digests are for.  A tool may be killed between any two steps.    *)
(* Their dry runs write nothing and are left out.                          *)
(***************************************************************************)
EXTENDS Naturals, FiniteSets

CONSTANTS
    Versions,           \* versions of one document, numbered from 1
    Artifacts,          \* signed artifacts of its requests
    OldObjects,         \* the objects stored before the bucket was used
    MaxToolRuns,        \* bound on the operator's runs
    Absent              \* nothing stored, no row

ASSUME ObjectsAssumption ==
    /\ OldObjects \subseteq Versions \cup Artifacts
    /\ Versions \cap Artifacts = {}
    /\ \E v \in OldObjects \cap Versions : \A w \in OldObjects \cap Versions : w <= v

VARIABLES
    local,          \* object -> what the local storage holds
    bucket,         \* key -> what the bucket holds
    rowKey,         \* object -> the key in its row, or Absent
    documentKey,    \* storage_key of the document's row
    intact,         \* objects that were stored undamaged
    tool,           \* the operator's process
    toolRuns,       \* runs started so far
    backup,         \* backup_export, which may run beside another tool
    reported        \* objects that were rows when migrate printed "[ok]"

objectVars == <<local, bucket, rowKey, documentKey, intact, tool, toolRuns,
                backup, reported>>

Objects == Versions \cup Artifacts
Legacy(o) == <<"legacy", o>>
Scoped(o) == <<"scoped", o>>
Rows == {o \in Objects : rowKey[o] # Absent}
NoTool == [pc |-> "idle"]

ASSUME AbsentAssumption ==
    /\ Absent \notin {"good", "bad"}
    /\ \A o \in Objects : Absent # Legacy(o) /\ Absent # Scoped(o)

\* A PUT with IfNoneMatch: the object is stored, damaged or not, or the key
\* is taken and nothing changes.
PutExisting(key, content) ==
    IF bucket[key] = Absent THEN [bucket EXCEPT ![key] = content] ELSE bucket

-----------------------------------------------------------------------------
(* The API: a new version, a new signed artifact                           *)

\* put with a scope, then the row; a version becomes the document's.
Store(o, content) ==
    /\ rowKey[o] = Absent /\ o \notin OldObjects
    /\ o \in Versions => \A v \in Versions : v < o => rowKey[v] # Absent
    /\ bucket' = PutExisting(Scoped(o), content)
    /\ rowKey' = [rowKey EXCEPT ![o] = Scoped(o)]
    /\ documentKey' = IF o \in Versions THEN Scoped(o) ELSE documentKey
    /\ intact' = IF content = "good" THEN intact \cup {o} ELSE intact
    /\ UNCHANGED <<local, tool, toolRuns, backup, reported>>

-----------------------------------------------------------------------------
(* migrate_documents_to_r2 --apply                                         *)

StartMigrate ==
    /\ tool = NoTool /\ toolRuns < MaxToolRuns
    /\ toolRuns' = toolRuns + 1
    /\ tool' = [pc |-> "migrate", todo |-> Rows, keys |-> rowKey, rows |-> Rows]
    /\ UNCHANGED <<local, bucket, rowKey, documentKey, intact, backup, reported>>

\* The local file of a key: only bare names have one.
LocalFile(key) == IF key[1] = "legacy" THEN local[key[2]] ELSE Absent

Exit == tool' = NoTool

\* Mutant: the copy is not read back.
CopyIsVerifiedNever(key) == TRUE

\* After the PUT the object is read again and its digest compared.
CopyIsVerified(key) == bucket'[key] = "good"

\* One object: without a local file it must be in the bucket; with one, the
\* file's digest is checked, the file is stored and read back.  A key that is
\* taken is not caught and ends the run.
MigrateObject(o, content) ==
    /\ tool.pc = "migrate" /\ o \in tool.todo
    /\ LET key  == tool.keys[o]
           file == LocalFile(key)
           next == tool' = [tool EXCEPT !.todo = @ \ {o}]
       IN  IF file = Absent
           THEN /\ IF bucket[key] = "good" THEN next ELSE Exit
                /\ UNCHANGED bucket
           ELSE IF file = "bad" \/ bucket[key] # Absent
           THEN Exit /\ UNCHANGED bucket
           ELSE /\ bucket' = PutExisting(key, content)
                /\ IF CopyIsVerified(key) THEN next ELSE Exit
    /\ UNCHANGED <<local, rowKey, documentKey, intact, toolRuns, backup, reported>>

\* "[ok] ... objects checked; ... copied and verified".
ReportMigrate ==
    /\ tool.pc = "migrate" /\ tool.todo = {}
    /\ reported' = reported \cup tool.rows
    /\ Exit
    /\ UNCHANGED <<local, bucket, rowKey, documentKey, intact, toolRuns, backup>>

-----------------------------------------------------------------------------
(* reorganize_r2_documents --apply [--delete-source]                       *)

\* The document's row is read ...
StartReorganize(deleteSource) ==
    /\ tool = NoTool /\ toolRuns < MaxToolRuns
    /\ toolRuns' = toolRuns + 1
    /\ tool' = [pc |-> "plan", deleteSource |-> deleteSource, document |-> documentKey]
    /\ UNCHANGED <<local, bucket, rowKey, documentKey, intact, backup, reported>>

\* Mutant: the sources of this run's moves are deleted too.
CleanupAll == Rows

\* A legacy object can be deleted if no row that was read names it.
Cleanup == {o \in Rows : \A p \in Rows : rowKey[p] # Legacy(o)}

\* ... and, in a later statement, the versions and the artifacts.
Plan ==
    /\ tool.pc = "plan"
    /\ tool' = [pc |-> "copy", deleteSource |-> tool.deleteSource,
                document |-> tool.document,
                moves |-> {o \in Rows : rowKey[o] = Legacy(o)},
                todo |-> {o \in Rows : rowKey[o] = Legacy(o)},
                cleanup |-> Cleanup]
    /\ UNCHANGED <<local, bucket, rowKey, documentKey, intact, toolRuns, backup, reported>>

\* Mutant: a destination that exists is taken for the copy.
DestinationIsTaken(o) == bucket'[Scoped(o)] # Absent

DestinationIsGood(o) == bucket'[Scoped(o)] = "good"

\* One move: the source must be there and have the row's digest, and so must
\* the destination, whoever wrote it.
CopyObject(o, content) ==
    /\ tool.pc = "copy" /\ o \in tool.todo
    /\ IF bucket[Legacy(o)] = "good"
       THEN /\ bucket' = PutExisting(Scoped(o), content)
            /\ IF DestinationIsGood(o)
               THEN tool' = [tool EXCEPT !.todo = @ \ {o}]
               ELSE Exit
       ELSE Exit /\ UNCHANGED bucket
    /\ UNCHANGED <<local, rowKey, documentKey, intact, toolRuns, backup, reported>>

\* The document follows the version whose key it held when it was read.
DocumentFollows(read, moves) ==
    IF \E v \in moves \cap Versions : read = Legacy(v)
    THEN Scoped(read[2]) ELSE documentKey

\* The transaction commits when every copy is verified.
CommitKeys ==
    /\ tool.pc = "copy" /\ tool.todo = {}
    /\ rowKey' = [o \in Objects |-> IF o \in tool.moves THEN Scoped(o) ELSE rowKey[o]]
    /\ documentKey' = DocumentFollows(tool.document, tool.moves)
    /\ tool' = IF tool.deleteSource
               THEN [pc |-> "cleanup", todo |-> tool.cleanup, moved |-> tool.moves] ELSE NoTool
    /\ UNCHANGED <<local, bucket, intact, toolRuns, backup, reported>>

\* discard_uncommitted: a locked bucket keeps the object, and says nothing.
Discarded(key, locked) ==
    IF locked THEN bucket ELSE [bucket EXCEPT ![key] = Absent]

\* Deletes a legacy object whose scoped copy has the digest.
DeleteSource(o, locked) ==
    /\ tool.pc = "cleanup" /\ o \in tool.todo
    /\ IF bucket[Scoped(o)] = "good"
       THEN /\ bucket' = Discarded(Legacy(o), locked)
            /\ tool' = [tool EXCEPT !.todo = @ \ {o}]
       ELSE Exit /\ UNCHANGED bucket
    /\ UNCHANGED <<local, rowKey, documentKey, intact, toolRuns, backup, reported>>

ReportReorganize ==
    /\ tool.pc = "cleanup" /\ tool.todo = {}
    /\ Exit
    /\ UNCHANGED <<local, bucket, rowKey, documentKey, intact, toolRuns, backup, reported>>

\* The operator's process is killed; its transaction is rolled back.
KillTool ==
    /\ tool # NoTool
    /\ Exit
    /\ UNCHANGED <<local, bucket, rowKey, documentKey, intact, toolRuns, backup, reported>>

-----------------------------------------------------------------------------
(* backup_export                                                           *)

\* referenced_objects: one statement for the versions, one for the artifacts.
StartBackup(provider) ==
    /\ backup.pc = "idle"
    /\ backup' = [pc |-> "artifacts", provider |-> provider, saved |-> {},
                  keys |-> [o \in Rows \cap Versions |-> rowKey[o]]]
    /\ UNCHANGED <<local, bucket, rowKey, documentKey, intact, tool, toolRuns, reported>>

ReadArtifactRows ==
    /\ backup.pc = "artifacts"
    /\ backup' = [backup EXCEPT !.pc = "save", !.keys =
                    [o \in DOMAIN backup.keys \cup (Rows \cap Artifacts) |->
                        IF o \in Versions THEN backup.keys[o] ELSE rowKey[o]]]
    /\ UNCHANGED <<local, bucket, rowKey, documentKey, intact, tool, toolRuns, reported>>

\* What the configured storage holds under a key.
Held(provider, key) == IF provider = "r2" THEN bucket[key] ELSE LocalFile(key)

\* Mutant: whatever is there is archived, and a missing object is passed over.
IsSavedAlways(content) == TRUE

\* A missing object and a wrong digest end the backup.
IsSaved(content) == content = "good"

SaveObject(o) ==
    /\ backup.pc = "save" /\ o \in DOMAIN backup.keys
    /\ \A s \in backup.saved : s[1] < o
    /\ \A p \in DOMAIN backup.keys : p < o => \E s \in backup.saved : s[1] = p
    /\ LET content == Held(backup.provider, backup.keys[o]) IN
       backup' = IF IsSaved(content) THEN [backup EXCEPT !.saved = @ \cup {<<o, content>>}]
                                     ELSE [pc |-> "failed"]
    /\ UNCHANGED <<local, bucket, rowKey, documentKey, intact, tool, toolRuns, reported>>

\* The manifest is the last entry of the archive.
WriteManifest ==
    /\ backup.pc = "save"
    /\ \A o \in DOMAIN backup.keys : \E s \in backup.saved : s[1] = o
    /\ backup' = [backup EXCEPT !.pc = "done"]
    /\ UNCHANGED <<local, bucket, rowKey, documentKey, intact, tool, toolRuns, reported>>

-----------------------------------------------------------------------------
ObjectsInit ==
    /\ local \in [Objects -> {"good", "bad", Absent}]
    /\ \A o \in Objects : (local[o] = Absent) = (o \notin OldObjects)
    /\ bucket = [k \in {"legacy", "scoped"} \X Objects |-> Absent]
    /\ rowKey = [o \in Objects |-> IF o \in OldObjects THEN Legacy(o) ELSE Absent]
    /\ documentKey = Legacy(CHOOSE v \in OldObjects \cap Versions :
                              \A w \in OldObjects \cap Versions : w <= v)
    /\ intact = {o \in Objects : local[o] = "good"}
    /\ tool = NoTool
    /\ toolRuns = 0
    /\ backup = [pc |-> "idle"]
    /\ reported = {}

ObjectsNext ==
    \/ StartMigrate \/ ReportMigrate
    \/ \E d \in BOOLEAN : StartReorganize(d)
    \/ Plan \/ CommitKeys \/ ReportReorganize \/ KillTool
    \/ \E o \in Objects, content \in {"good", "bad"} :
         Store(o, content) \/ MigrateObject(o, content) \/ CopyObject(o, content)
    \/ \E p \in {"local", "r2"} : StartBackup(p)
    \/ ReadArtifactRows \/ WriteManifest \/ \E o \in Objects : SaveObject(o)
    \/ \E o \in Objects, locked \in BOOLEAN : DeleteSource(o, locked)

ObjectsSpec == ObjectsInit /\ [][ObjectsNext]_objectVars

-----------------------------------------------------------------------------
\* No run of the tools, killed anywhere and repeated, and no upload beside
\* them loses a document: an object that was stored undamaged can be read with
\* its digest under the key that its row holds, in the bucket or, for a legacy
\* key, still in the local storage; the key of the document's row is one of
\* its versions' keys ("without data loss", reorganize_r2_documents.py:1).
NoObjectIsLost ==
    /\ \A o \in Rows \cap intact :
         \/ bucket[rowKey[o]] = "good"
         \/ LocalFile(rowKey[o]) = "good"
    /\ documentKey \in {rowKey[v] : v \in Rows \cap Versions}

\* After migrate's "[ok]" the local storage can be switched off: every object
\* that had a row then is good in the bucket under the key its row holds, and
\* stays so through later moves and clean-ups
\* (migrate_documents_to_r2.py:82).
ReportIsTrue == \A o \in reported : bucket[rowKey[o]] = "good"

\* An archive with a manifest restores every object whose row it read, with its
\* digest, although tools move and delete objects while it is written.
BackupIsComplete ==
    backup.pc = "done" => \A o \in DOMAIN backup.keys : <<o, "good">> \in backup.saved

\* A source is only deleted in a run after the one that moved it ("in a later
\* verified run", reorganize_r2_documents.py:5): a run that is killed at any point,
\* or asks for --delete-source at once, leaves every source it has just copied.
SourceOutlivesItsRun ==
    tool.pc = "cleanup" => \A o \in tool.moved : bucket[Legacy(o)] = "good"

\* The tools lose nothing, and a move can be taken back until its next run
\* (reorganize_r2_documents.py, migrate_documents_to_r2.py).
ObjectsAreSafe == NoObjectIsLost /\ SourceOutlivesItsRun

\* What a tool reports as done is done (migrate_documents_to_r2.py:82,
\* backup_export.py:51).
ToolsReportTheTruth == ReportIsTrue /\ BackupIsComplete
=============================================================================
