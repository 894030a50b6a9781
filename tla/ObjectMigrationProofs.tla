------------------------ MODULE ObjectMigrationProofs ------------------------
(***************************************************************************)
(* Proofs about ObjectMigration, for every set of versions and artifacts   *)
(* and any number of runs of the operator's tools.                         *)
(***************************************************************************)
EXTENDS ObjectMigration, TLAPS

-----------------------------------------------------------------------------
(***************************************************************************)
(* The inductive invariant                                                 *)
(***************************************************************************)

Keys == {"legacy", "scoped"} \X Objects
Content == {"good", "bad", Absent}

\* The shapes of the operator's process and of the backup.
MigrateTool == [pc : {"migrate"}, todo : SUBSET Objects,
                keys : [Objects -> Keys \cup {Absent}], rows : SUBSET Objects]
PlanTool == [pc : {"plan"}, deleteSource : BOOLEAN, document : Keys]
CopyTool == [pc : {"copy"}, deleteSource : BOOLEAN, document : Keys,
             moves : SUBSET Objects, todo : SUBSET Objects, cleanup : SUBSET Objects]
CleanupTool == [pc : {"cleanup"}, todo : SUBSET Objects, moved : SUBSET Objects]
Tools == {NoTool} \cup MigrateTool \cup PlanTool \cup CopyTool \cup CleanupTool

KeyMaps(S) == UNION {[T -> Keys] : T \in SUBSET S}
BackupReading == [pc : {"artifacts"}, provider : {"local", "r2"},
                  saved : SUBSET (Objects \X {"good"}), keys : KeyMaps(Versions)]
BackupSaving == [pc : {"save", "done"}, provider : {"local", "r2"},
                 saved : SUBSET (Objects \X {"good"}), keys : KeyMaps(Objects)]
Backups == [pc : {"idle", "failed"}] \cup BackupReading \cup BackupSaving

ObjectTypes ==
  /\ local \in [Objects -> Content]
  /\ bucket \in [Keys -> Content]
  /\ rowKey \in [Objects -> Keys \cup {Absent}]
  /\ documentKey \in Keys
  /\ intact \subseteq Objects
  /\ tool \in Tools
  /\ backup \in Backups
  /\ reported \subseteq Objects

\* A row names its own object, one of the two ways; nothing is stored under
\* the scoped key of an object without a row; the old objects have rows.
RowsNameTheirObject ==
  /\ \A o \in Objects : rowKey[o] \in {Absent, Legacy(o), Scoped(o)}
  /\ \A o \in Objects : rowKey[o] = Absent => bucket[Scoped(o)] = Absent
  /\ OldObjects \subseteq Rows /\ intact \subseteq Rows /\ reported \subseteq Rows

\* migrate knows the rows' keys, and what it has done is good in the bucket.
MigrateHolds ==
  tool.pc = "migrate" =>
    /\ tool.rows \subseteq Rows /\ tool.todo \subseteq tool.rows
    /\ \A o \in tool.rows : tool.keys[o] = rowKey[o]
    /\ \A o \in tool.rows \ tool.todo : bucket[rowKey[o]] = "good"

\* reorganize works on rows that nobody else moves; the document's key is the
\* one it read, or a newer upload's.
CopyHolds ==
  /\ tool.pc \in {"plan", "copy"} =>
       documentKey = tool.document \/ documentKey[1] = "scoped"
  /\ tool.pc = "copy" =>
       /\ \A o \in tool.moves : rowKey[o] = Legacy(o)
       /\ tool.todo \subseteq tool.moves
       /\ \A o \in tool.moves \ tool.todo :
            bucket[Legacy(o)] = "good" /\ bucket[Scoped(o)] = "good"
       /\ tool.cleanup \cap tool.moves = {}
       /\ \A o \in tool.cleanup : rowKey[o] = Scoped(o)

\* The clean-up deletes what no row names, and not what its own run moved.
CleanupHolds ==
  tool.pc = "cleanup" =>
    /\ tool.todo \cap tool.moved = {}
    /\ \A o \in tool.todo : rowKey[o] = Scoped(o)

IndInv ==
  /\ ObjectTypes
  /\ RowsNameTheirObject
  /\ MigrateHolds
  /\ CopyHolds
  /\ CleanupHolds
  /\ NoObjectIsLost
  /\ SourceOutlivesItsRun
  /\ ReportIsTrue
  /\ BackupIsComplete

-----------------------------------------------------------------------------
(***************************************************************************)
(* Keys and the bucket                                                     *)
(***************************************************************************)

\* Keys are keys, no two objects share one, and Absent is none.
LEMMA KeyFacts ==
  ASSUME NEW o \in Objects, NEW p \in Objects
  PROVE  /\ Legacy(o) \in Keys /\ Scoped(o) \in Keys
         /\ Legacy(o) = Legacy(p) <=> o = p
         /\ Scoped(o) = Scoped(p) <=> o = p
         /\ Legacy(o) # Scoped(p)
         /\ Legacy(o) # Absent /\ Scoped(o) # Absent
         /\ Legacy(o)[1] = "legacy" /\ Legacy(o)[2] = o /\ Scoped(o)[1] = "scoped"
         /\ "good" # Absent /\ "bad" # Absent
  BY AbsentAssumption DEF Keys, Legacy, Scoped

\* The key of a row is a key.
LEMMA RowFacts ==
  ASSUME IndInv, NEW o \in Rows
  PROVE  o \in Objects /\ rowKey[o] \in Keys /\ rowKey[o] \in {Legacy(o), Scoped(o)}
  BY KeyFacts DEF IndInv, RowsNameTheirObject, Rows

\* A put fills an empty key and changes nothing else.
LEMMA PutFacts ==
  ASSUME IndInv, NEW key \in Keys, NEW content \in {"good", "bad"}
  PROVE  /\ PutExisting(key, content) \in [Keys -> Content]
         /\ \A k \in Keys : bucket[k] # Absent => PutExisting(key, content)[k] = bucket[k]
         /\ \A k \in Keys : k # key => PutExisting(key, content)[k] = bucket[k]
         /\ bucket[key] = Absent => PutExisting(key, content)[key] = content
  BY DEF IndInv, ObjectTypes, PutExisting, Content

\* No process, no duties.
LEMMA IdleTool ==
  ASSUME Exit
  PROVE  tool' \in Tools /\ MigrateHolds' /\ CopyHolds' /\ CleanupHolds' /\ SourceOutlivesItsRun'
<1>1. tool'.pc = "idle" /\ tool' \in Tools
  BY DEF Exit, NoTool, Tools
<1> QED
  BY <1>1 DEF MigrateHolds, CopyHolds, CleanupHolds, SourceOutlivesItsRun

\* A step of the tools that at most fills keys of the bucket.
LEMMA ToolStep ==
  ASSUME IndInv,
         bucket' \in [Keys -> Content],
         \A k \in Keys : bucket[k] # Absent => bucket'[k] = bucket[k],
         \A o \in Objects : rowKey[o] = Absent => bucket'[Scoped(o)] = Absent,
         UNCHANGED <<local, rowKey, documentKey, intact, backup, reported>>,
         tool' \in Tools, MigrateHolds', CopyHolds', CleanupHolds', SourceOutlivesItsRun'
  PROVE  IndInv'
<1>1. ObjectTypes'
  BY DEF IndInv, ObjectTypes
<1>2. Rows' = Rows
  BY DEF Rows
<1>3. RowsNameTheirObject'
  BY <1>2 DEF IndInv, RowsNameTheirObject
<1>4. \A o \in Rows : bucket[rowKey[o]] = "good" => bucket'[rowKey[o]] = "good"
  BY RowFacts, KeyFacts
<1>5. NoObjectIsLost'
  BY <1>2, <1>4 DEF IndInv, NoObjectIsLost, LocalFile
<1>6. ReportIsTrue'
  BY <1>4 DEF IndInv, ReportIsTrue, RowsNameTheirObject
<1>7. BackupIsComplete'
  BY DEF IndInv, BackupIsComplete
<1> QED
  BY <1>1, <1>3, <1>5, <1>6, <1>7 DEF IndInv

\* A step of the tools that changes only their process.
LEMMA ProcessStep ==
  ASSUME IndInv,
         UNCHANGED <<local, bucket, rowKey, documentKey, intact, backup, reported>>,
         tool' \in Tools, MigrateHolds', CopyHolds', CleanupHolds', SourceOutlivesItsRun'
  PROVE  IndInv'
  BY ToolStep DEF IndInv, ObjectTypes, RowsNameTheirObject

-----------------------------------------------------------------------------
(***************************************************************************)
(* migrate_documents_to_r2                                                 *)
(***************************************************************************)

LEMMA StartMigrateStep ==
  ASSUME IndInv, StartMigrate
  PROVE  IndInv'
<1>1. /\ tool' = [pc |-> "migrate", todo |-> Rows, keys |-> rowKey, rows |-> Rows]
      /\ UNCHANGED <<local, bucket, rowKey, documentKey, intact, backup, reported>>
  BY DEF StartMigrate
<1>2. tool' \in MigrateTool
  BY <1>1 DEF IndInv, ObjectTypes, MigrateTool, Rows
<1>3. Rows' = Rows /\ tool'.pc = "migrate"
  BY <1>1 DEF Rows
<1>4. MigrateHolds'
  BY <1>1, <1>3 DEF MigrateHolds
<1>5. CopyHolds' /\ CleanupHolds' /\ SourceOutlivesItsRun'
  BY <1>3 DEF CopyHolds, CleanupHolds, SourceOutlivesItsRun
<1> QED
  BY <1>1, <1>2, <1>4, <1>5, ProcessStep DEF Tools

LEMMA MigrateObjectStep ==
  ASSUME IndInv, NEW o \in Objects, NEW content \in {"good", "bad"}, MigrateObject(o, content)
  PROVE  IndInv'
<1>1. /\ tool \in MigrateTool /\ tool.pc = "migrate" /\ o \in tool.todo /\ o \in tool.rows
      /\ o \in Rows /\ tool.keys[o] = rowKey[o]
  BY DEF MigrateObject, IndInv, ObjectTypes, Tools, NoTool, PlanTool, CopyTool, CleanupTool,
     MigrateHolds
<1>2. PICK key \in Keys : key = rowKey[o] /\ key = tool.keys[o] /\ key \in {Legacy(o), Scoped(o)}
  BY <1>1, RowFacts
<1>3. UNCHANGED <<local, rowKey, documentKey, intact, backup, reported>>
  BY DEF MigrateObject
<1>4. bucket' = bucket \/ bucket' = PutExisting(key, content)
  BY <1>2 DEF MigrateObject
<1>5. /\ bucket' \in [Keys -> Content]
      /\ \A k \in Keys : bucket[k] # Absent => bucket'[k] = bucket[k]
      /\ \A k \in Keys : k # key => bucket'[k] = bucket[k]
  BY <1>4, PutFacts DEF IndInv, ObjectTypes
<1>6. \A p \in Objects : rowKey[p] = Absent => bucket'[Scoped(p)] = Absent
  <2> SUFFICES ASSUME NEW p \in Objects, rowKey[p] = Absent
               PROVE  bucket'[Scoped(p)] = Absent
    OBVIOUS
  <2>1. p # o /\ Scoped(p) # key /\ Scoped(p) \in Keys
    BY <1>1, <1>2, KeyFacts DEF Rows
  <2> QED
    BY <1>5, <2>1 DEF IndInv, RowsNameTheirObject
<1>7. CASE tool' = NoTool
  BY <1>3, <1>5, <1>6, <1>7, IdleTool, ToolStep DEF Exit
<1>8. CASE tool' # NoTool
  <2>1. tool' = [tool EXCEPT !.todo = tool.todo \ {o}] /\ bucket'[key] = "good"
    BY <1>2, <1>8 DEF MigrateObject, Exit, CopyIsVerified
  <2>2. /\ tool' \in MigrateTool /\ tool'.pc = "migrate" /\ tool'.todo = tool.todo \ {o}
        /\ tool'.rows = tool.rows /\ tool'.keys = tool.keys
    BY <1>1, <2>1 DEF MigrateTool
  <2>3. Rows' = Rows
    BY <1>3 DEF Rows
  <2>4. ASSUME NEW p \in tool.rows \ (tool.todo \ {o})
        PROVE  bucket'[rowKey[p]] = "good"
    <3>1. CASE p = o
      BY <1>2, <2>1, <3>1
    <3>2. CASE p # o
      <4>1. p \in Rows /\ bucket[rowKey[p]] = "good"
        BY <1>1, <3>2 DEF IndInv, MigrateHolds
      <4> QED
        BY <1>5, <4>1, RowFacts, KeyFacts
    <3> QED
      BY <3>1, <3>2
  <2>5. MigrateHolds'
    BY <1>1, <1>3, <2>2, <2>3, <2>4 DEF IndInv, MigrateHolds
  <2>6. CopyHolds' /\ CleanupHolds' /\ SourceOutlivesItsRun'
    BY <2>2 DEF CopyHolds, CleanupHolds, SourceOutlivesItsRun
  <2> QED
    BY <1>3, <1>5, <1>6, <2>2, <2>5, <2>6, ToolStep DEF Tools
<1> QED
  BY <1>7, <1>8

LEMMA ReportMigrateStep ==
  ASSUME IndInv, ReportMigrate
  PROVE  IndInv'
<1>1. /\ tool.pc = "migrate" /\ tool.todo = {} /\ reported' = reported \cup tool.rows /\ Exit
      /\ UNCHANGED <<local, bucket, rowKey, documentKey, intact, backup>>
  BY DEF ReportMigrate
<1>2. /\ tool.rows \subseteq Rows /\ Rows' = Rows /\ Rows \subseteq Objects
      /\ \A o \in tool.rows : bucket[rowKey[o]] = "good"
  BY <1>1 DEF IndInv, MigrateHolds, Rows
<1>3. ObjectTypes'
  BY <1>1, <1>2, IdleTool DEF IndInv, ObjectTypes
<1>4. RowsNameTheirObject'
  BY <1>1, <1>2 DEF IndInv, RowsNameTheirObject
<1>5. NoObjectIsLost' /\ ReportIsTrue' /\ BackupIsComplete'
  BY <1>1, <1>2 DEF IndInv, NoObjectIsLost, ReportIsTrue, BackupIsComplete, LocalFile
<1> QED
  BY <1>1, <1>3, <1>4, <1>5, IdleTool DEF IndInv

-----------------------------------------------------------------------------
(***************************************************************************)
(* reorganize_r2_documents                                                 *)
(***************************************************************************)

LEMMA StartReorganizeStep ==
  ASSUME IndInv, NEW deleteSource \in BOOLEAN, StartReorganize(deleteSource)
  PROVE  IndInv'
<1>1. /\ tool' = [pc |-> "plan", deleteSource |-> deleteSource, document |-> documentKey]
      /\ UNCHANGED <<local, bucket, rowKey, documentKey, intact, backup, reported>>
  BY DEF StartReorganize
<1>2. tool' \in PlanTool /\ tool'.pc = "plan" /\ tool'.document = documentKey
  BY <1>1 DEF IndInv, ObjectTypes, PlanTool
<1>3. MigrateHolds' /\ CopyHolds' /\ CleanupHolds' /\ SourceOutlivesItsRun'
  BY <1>1, <1>2 DEF MigrateHolds, CopyHolds, CleanupHolds, SourceOutlivesItsRun
<1> QED
  BY <1>1, <1>2, <1>3, ProcessStep DEF Tools

LEMMA PlanStep ==
  ASSUME IndInv, Plan
  PROVE  IndInv'
<1>1. PICK moves \in SUBSET Objects, cleanup \in SUBSET Objects :
        moves = {o \in Rows : rowKey[o] = Legacy(o)} /\ cleanup = Cleanup
  BY DEF Rows, Cleanup
<1>2. /\ tool' = [pc |-> "copy", deleteSource |-> tool.deleteSource, document |-> tool.document,
                  moves |-> moves, todo |-> moves, cleanup |-> cleanup]
      /\ tool.pc = "plan"
      /\ UNCHANGED <<local, bucket, rowKey, documentKey, intact, backup, reported>>
  BY <1>1 DEF Plan
<1>3. tool \in PlanTool
  BY <1>2 DEF IndInv, ObjectTypes, Tools, NoTool, MigrateTool, CopyTool, CleanupTool
<1>4. /\ tool' \in CopyTool /\ tool'.pc = "copy" /\ tool'.document = tool.document
      /\ tool'.moves = moves /\ tool'.todo = moves /\ tool'.cleanup = cleanup
  BY <1>2, <1>3 DEF PlanTool, CopyTool
<1>5. \A o \in cleanup : rowKey[o] = Scoped(o)
  BY <1>1, RowFacts DEF Cleanup
<1>6. cleanup \cap moves = {}
  BY <1>1, <1>5, KeyFacts
<1>7. CopyHolds'
  BY <1>1, <1>2, <1>4, <1>5, <1>6 DEF IndInv, CopyHolds
<1>8. MigrateHolds' /\ CleanupHolds' /\ SourceOutlivesItsRun'
  BY <1>4 DEF MigrateHolds, CleanupHolds, SourceOutlivesItsRun
<1> QED
  BY <1>2, <1>4, <1>7, <1>8, ProcessStep DEF Tools

LEMMA CopyObjectStep ==
  ASSUME IndInv, NEW o \in Objects, NEW content \in {"good", "bad"}, CopyObject(o, content)
  PROVE  IndInv'
<1>1. tool \in CopyTool /\ tool.pc = "copy" /\ o \in tool.todo /\ rowKey[o] = Legacy(o)
  BY DEF CopyObject, IndInv, ObjectTypes, Tools, NoTool, PlanTool, MigrateTool, CleanupTool, CopyHolds
<1>2. UNCHANGED <<local, rowKey, documentKey, intact, backup, reported>>
  BY DEF CopyObject
<1>3. bucket' = bucket \/ bucket' = PutExisting(Scoped(o), content)
  BY DEF CopyObject
<1>4. /\ bucket' \in [Keys -> Content]
      /\ \A k \in Keys : bucket[k] # Absent => bucket'[k] = bucket[k]
      /\ \A k \in Keys : k # Scoped(o) => bucket'[k] = bucket[k]
  BY <1>3, PutFacts, KeyFacts DEF IndInv, ObjectTypes
<1>5. \A p \in Objects : rowKey[p] = Absent => bucket'[Scoped(p)] = Absent
  <2> SUFFICES ASSUME NEW p \in Objects, rowKey[p] = Absent
               PROVE  bucket'[Scoped(p)] = Absent
    OBVIOUS
  <2>1. p # o /\ Scoped(p) # Scoped(o) /\ Scoped(p) \in Keys
    BY <1>1, KeyFacts
  <2> QED
    BY <1>4, <2>1 DEF IndInv, RowsNameTheirObject
<1>6. CASE tool' = NoTool
  BY <1>2, <1>4, <1>5, <1>6, IdleTool, ToolStep DEF Exit
<1>7. CASE tool' # NoTool
  <2>1. /\ tool' = [tool EXCEPT !.todo = tool.todo \ {o}]
        /\ bucket[Legacy(o)] = "good" /\ bucket'[Scoped(o)] = "good"
    BY <1>7 DEF CopyObject, Exit, DestinationIsGood
  <2>2. /\ tool' \in CopyTool /\ tool'.pc = "copy" /\ tool'.todo = tool.todo \ {o}
        /\ tool'.moves = tool.moves /\ tool'.cleanup = tool.cleanup
        /\ tool'.document = tool.document
    BY <1>1, <2>1 DEF CopyTool
  <2>3. ASSUME NEW p \in tool.moves \ (tool.todo \ {o})
        PROVE  bucket'[Legacy(p)] = "good" /\ bucket'[Scoped(p)] = "good"
    <3>1. p \in Objects /\ tool.moves \subseteq Objects
      BY <1>1 DEF CopyTool
    <3>2. CASE p = o
      BY <1>4, <2>1, <3>2, KeyFacts
    <3>3. CASE p # o
      <4>1. bucket[Legacy(p)] = "good" /\ bucket[Scoped(p)] = "good"
        BY <1>1, <3>3 DEF IndInv, CopyHolds
      <4> QED
        BY <1>4, <3>1, <4>1, KeyFacts
    <3> QED
      BY <3>2, <3>3
  <2>4. CopyHolds'
    BY <1>1, <1>2, <2>2, <2>3 DEF IndInv, CopyHolds
  <2>5. MigrateHolds' /\ CleanupHolds' /\ SourceOutlivesItsRun'
    BY <2>2 DEF MigrateHolds, CleanupHolds, SourceOutlivesItsRun
  <2> QED
    BY <1>2, <1>4, <1>5, <2>2, <2>4, <2>5, ToolStep DEF Tools
<1> QED
  BY <1>6, <1>7

\* The commit moves exactly the rows whose copies were verified, and the
\* document with its version.
LEMMA CommitKeysStep ==
  ASSUME IndInv, CommitKeys
  PROVE  IndInv'
<1>1. /\ tool \in CopyTool /\ tool.pc = "copy" /\ tool.todo = {}
      /\ rowKey' = [o \in Objects |-> IF o \in tool.moves THEN Scoped(o) ELSE rowKey[o]]
      /\ documentKey' = DocumentFollows(tool.document, tool.moves)
      /\ tool' = IF tool.deleteSource
                 THEN [pc |-> "cleanup", todo |-> tool.cleanup, moved |-> tool.moves] ELSE NoTool
      /\ UNCHANGED <<local, bucket, intact, backup, reported>>
  BY DEF CommitKeys, IndInv, ObjectTypes, Tools, NoTool, PlanTool, MigrateTool, CleanupTool
<1>2. PICK moves \in SUBSET Objects, cleanup \in SUBSET Objects :
        moves = tool.moves /\ cleanup = tool.cleanup
  BY <1>1 DEF CopyTool
<1>3. /\ \A o \in moves : rowKey[o] = Legacy(o) /\ bucket[Legacy(o)] = "good" /\ bucket[Scoped(o)] = "good"
      /\ cleanup \cap moves = {} /\ \A o \in cleanup : rowKey[o] = Scoped(o)
      /\ documentKey = tool.document \/ documentKey[1] = "scoped"
  BY <1>1, <1>2 DEF IndInv, CopyHolds
<1>4. /\ rowKey' \in [Objects -> Keys \cup {Absent}]
      /\ \A o \in Objects : rowKey'[o] = IF o \in moves THEN Scoped(o) ELSE rowKey[o]
  BY <1>1, <1>2, KeyFacts DEF IndInv, ObjectTypes
<1>5. Rows' = Rows /\ moves \subseteq Rows
  BY <1>3, <1>4, KeyFacts DEF Rows
<1>6. documentKey' \in Keys /\ documentKey' \in {rowKey'[v] : v \in Rows \cap Versions}
  <2>1. PICK u \in Rows \cap Versions : documentKey = rowKey[u]
    BY DEF IndInv, NoObjectIsLost
  <2>2. CASE \E v \in moves \cap Versions : tool.document = Legacy(v)
    <3>1. PICK v \in moves \cap Versions : tool.document = Legacy(v)
      BY <2>2
    <3>2. documentKey' = Scoped(v) /\ rowKey'[v] = Scoped(v) /\ v \in Rows
      BY <1>1, <1>2, <1>4, <1>5, <2>2, <3>1, KeyFacts DEF DocumentFollows
    <3> QED
      BY <3>1, <3>2, KeyFacts
  <2>3. CASE ~\E v \in moves \cap Versions : tool.document = Legacy(v)
    <3>1. documentKey' = documentKey
      BY <1>1, <1>2, <2>3 DEF DocumentFollows
    <3>2. u \notin moves
      <4>1. ASSUME u \in moves PROVE FALSE
        <5>1. documentKey = Legacy(u) /\ documentKey[1] = "legacy"
          BY <1>3, <2>1, <4>1, KeyFacts
        <5> QED
          BY <1>3, <2>1, <2>3, <4>1, <5>1
      <4> QED
        BY <4>1
    <3>3. rowKey'[u] = rowKey[u] /\ u \in Objects
      BY <1>4, <2>1, <3>2 DEF Rows
    <3> QED
      BY <2>1, <3>1, <3>3 DEF IndInv, ObjectTypes
  <2> QED
    BY <2>2, <2>3
<1>7. \A o \in Rows : bucket[rowKey[o]] = "good" => bucket[rowKey'[o]] = "good"
  BY <1>3, <1>4 DEF Rows
<1>8. NoObjectIsLost'
  <2>1. ASSUME NEW o \in Rows \cap intact
        PROVE  bucket[rowKey'[o]] = "good" \/ LocalFile(rowKey'[o]) = "good"
    <3>1. CASE o \in moves
      BY <1>3, <1>4, <3>1
    <3>2. CASE o \notin moves
      BY <1>4, <3>2 DEF IndInv, NoObjectIsLost, Rows
    <3> QED
      BY <3>1, <3>2
  <2> QED
    BY <1>1, <1>5, <1>6, <2>1 DEF NoObjectIsLost, LocalFile
<1>9. ReportIsTrue' /\ BackupIsComplete'
  BY <1>1, <1>7 DEF IndInv, ReportIsTrue, BackupIsComplete, RowsNameTheirObject
<1>10. RowsNameTheirObject'
  BY <1>1, <1>4, <1>5 DEF IndInv, RowsNameTheirObject, Rows
<1>11. CASE tool' = NoTool
  BY <1>1, <1>4, <1>6, <1>8, <1>9, <1>10, <1>11, IdleTool DEF IndInv, ObjectTypes, Exit
<1>12. CASE tool' = [pc |-> "cleanup", todo |-> cleanup, moved |-> moves]
  <2>1. tool' \in CleanupTool /\ tool'.pc = "cleanup" /\ tool'.todo = cleanup /\ tool'.moved = moves
    BY <1>12 DEF CleanupTool
  <2>2. MigrateHolds' /\ CopyHolds'
    BY <2>1 DEF MigrateHolds, CopyHolds
  <2>3. CleanupHolds'
    BY <1>3, <1>4, <2>1 DEF CleanupHolds
  <2>4. SourceOutlivesItsRun'
    BY <1>1, <1>3, <2>1 DEF SourceOutlivesItsRun
  <2> QED
    BY <1>1, <1>4, <1>6, <1>8, <1>9, <1>10, <2>1, <2>2, <2>3, <2>4 DEF IndInv, ObjectTypes, Tools
<1> QED
  BY <1>1, <1>2, <1>11, <1>12

\* A source is deleted that no row names any more and that an earlier run moved.
LEMMA DeleteSourceStep ==
  ASSUME IndInv, NEW o \in Objects, NEW locked \in BOOLEAN, DeleteSource(o, locked)
  PROVE  IndInv'
<1>1. /\ tool \in CleanupTool /\ tool.pc = "cleanup" /\ o \in tool.todo
      /\ rowKey[o] = Scoped(o) /\ o \notin tool.moved
  BY DEF DeleteSource, IndInv, ObjectTypes, Tools, NoTool, PlanTool, MigrateTool, CopyTool, CleanupHolds
<1>2. UNCHANGED <<local, rowKey, documentKey, intact, backup, reported>>
  BY DEF DeleteSource
<1>3. CASE tool' = NoTool
  <2>1. UNCHANGED bucket
    <3>1. tool' # [tool EXCEPT !.todo = tool.todo \ {o}]
      BY <1>1, <1>3 DEF CleanupTool, NoTool
    <3> QED
      BY <3>1 DEF DeleteSource
  <2> QED
    BY <1>2, <1>3, <2>1, IdleTool, ProcessStep DEF Exit
<1>4. CASE tool' # NoTool
  <2>1. tool' = [tool EXCEPT !.todo = tool.todo \ {o}] /\ bucket' = Discarded(Legacy(o), locked)
    BY <1>4 DEF DeleteSource, Exit
  <2>2. /\ tool' \in CleanupTool /\ tool'.pc = "cleanup" /\ tool'.todo = tool.todo \ {o}
        /\ tool'.moved = tool.moved /\ tool.moved \subseteq Objects
    BY <1>1, <2>1 DEF CleanupTool
  <2>3. /\ bucket' \in [Keys -> Content]
        /\ \A k \in Keys : k # Legacy(o) => bucket'[k] = bucket[k]
    BY <2>1, KeyFacts DEF Discarded, IndInv, ObjectTypes, Content
  <2>4. Rows' = Rows
    BY <1>2 DEF Rows
  <2>5. \A p \in Rows : rowKey[p] # Legacy(o) /\ bucket'[rowKey[p]] = bucket[rowKey[p]]
    <3> SUFFICES ASSUME NEW p \in Rows PROVE rowKey[p] # Legacy(o)
      BY <2>3, RowFacts
    <3>1. CASE p = o
      BY <1>1, <3>1, KeyFacts
    <3>2. CASE p # o
      BY <3>2, RowFacts, KeyFacts
    <3> QED
      BY <3>1, <3>2
  <2>6. ObjectTypes'
    BY <1>2, <2>2, <2>3 DEF IndInv, ObjectTypes, Tools
  <2>7. RowsNameTheirObject'
    BY <1>2, <2>3, <2>4, KeyFacts DEF IndInv, RowsNameTheirObject
  <2>8. NoObjectIsLost' /\ ReportIsTrue' /\ BackupIsComplete'
    BY <1>2, <2>4, <2>5 DEF IndInv, NoObjectIsLost, LocalFile, ReportIsTrue, BackupIsComplete,
       RowsNameTheirObject
  <2>9. MigrateHolds' /\ CopyHolds' /\ CleanupHolds'
    BY <1>1, <1>2, <2>2 DEF IndInv, MigrateHolds, CopyHolds, CleanupHolds
  <2>10. SourceOutlivesItsRun'
    BY <1>1, <2>2, <2>3, KeyFacts DEF IndInv, SourceOutlivesItsRun
  <2> QED
    BY <2>6, <2>7, <2>8, <2>9, <2>10 DEF IndInv
<1> QED
  BY <1>3, <1>4

-----------------------------------------------------------------------------
(***************************************************************************)
(* Uploads and backup_export                                               *)
(***************************************************************************)

\* An upload stores under a key nobody has used and then writes its row.
LEMMA StoreStep ==
  ASSUME IndInv, NEW o \in Objects, NEW content \in {"good", "bad"}, Store(o, content)
  PROVE  IndInv'
<1>1. /\ rowKey[o] = Absent
      /\ bucket' = PutExisting(Scoped(o), content)
      /\ rowKey' = [rowKey EXCEPT ![o] = Scoped(o)]
      /\ documentKey' = IF o \in Versions THEN Scoped(o) ELSE documentKey
      /\ intact' = IF content = "good" THEN intact \cup {o} ELSE intact
      /\ UNCHANGED <<local, tool, backup, reported>>
  BY DEF Store
<1>2. /\ bucket' \in [Keys -> Content]
      /\ \A k \in Keys : bucket[k] # Absent => bucket'[k] = bucket[k]
      /\ \A k \in Keys : k # Scoped(o) => bucket'[k] = bucket[k]
      /\ bucket'[Scoped(o)] = content
  BY <1>1, PutFacts, KeyFacts DEF IndInv, RowsNameTheirObject
<1>3. /\ rowKey' \in [Objects -> Keys \cup {Absent}] /\ rowKey'[o] = Scoped(o)
      /\ \A p \in Objects : p # o => rowKey'[p] = rowKey[p]
  BY <1>1, KeyFacts DEF IndInv, ObjectTypes
<1>4. Rows' = Rows \cup {o} /\ o \notin Rows
  BY <1>1, <1>3, KeyFacts DEF Rows
<1>5. \A p \in Rows : rowKey'[p] = rowKey[p] /\ bucket[rowKey[p]] = bucket'[rowKey[p]]
  <2> SUFFICES ASSUME NEW p \in Rows
               PROVE  rowKey'[p] = rowKey[p] /\ bucket[rowKey[p]] = bucket'[rowKey[p]]
    OBVIOUS
  <2>1. p # o /\ p \in Objects
    BY <1>4 DEF Rows
  <2>2. rowKey[p] # Scoped(o) /\ rowKey[p] \in Keys
    BY <2>1, RowFacts, KeyFacts
  <2> QED
    BY <1>2, <1>3, <2>1, <2>2
<1>6. ObjectTypes'
  BY <1>1, <1>2, <1>3, KeyFacts DEF IndInv, ObjectTypes
<1>7. RowsNameTheirObject'
  <2>1. \A p \in Objects : rowKey'[p] \in {Absent, Legacy(p), Scoped(p)}
    BY <1>3 DEF IndInv, RowsNameTheirObject
  <2>2. \A p \in Objects : rowKey'[p] = Absent => bucket'[Scoped(p)] = Absent
    BY <1>2, <1>3, KeyFacts DEF IndInv, RowsNameTheirObject
  <2> QED
    BY <1>1, <1>4, <2>1, <2>2 DEF IndInv, RowsNameTheirObject
<1>8. NoObjectIsLost'
  <2>1. ASSUME NEW p \in Rows' \cap intact'
        PROVE  (bucket[rowKey[p]] = "good" \/ LocalFile(rowKey[p]) = "good")'
    <3>1. CASE p = o
      <4>1. content = "good"
        BY <1>1, <1>4, <2>1, <3>1 DEF IndInv, RowsNameTheirObject
      <4> QED
        BY <1>2, <1>3, <3>1, <4>1
    <3>2. CASE p # o
      BY <1>1, <1>4, <1>5, <2>1, <3>2 DEF IndInv, NoObjectIsLost, LocalFile
    <3> QED
      BY <3>1, <3>2
  <2>2. documentKey' \in {rowKey'[v] : v \in Rows' \cap Versions}
    <3>1. CASE o \in Versions
      BY <1>1, <1>3, <1>4, <3>1
    <3>2. CASE o \notin Versions
      BY <1>1, <1>4, <1>5, <3>2 DEF IndInv, NoObjectIsLost
    <3> QED
      BY <3>1, <3>2
  <2> QED
    BY <2>1, <2>2 DEF NoObjectIsLost, LocalFile
<1>9. ReportIsTrue' /\ BackupIsComplete'
  BY <1>1, <1>5 DEF IndInv, ReportIsTrue, BackupIsComplete, RowsNameTheirObject
<1>10. MigrateHolds'
  BY <1>1, <1>4, <1>5 DEF IndInv, MigrateHolds
<1>11. CopyHolds' /\ CleanupHolds' /\ SourceOutlivesItsRun'
  <2>1. tool.pc = "copy" => tool \in CopyTool
    BY DEF IndInv, ObjectTypes, Tools, NoTool, PlanTool, MigrateTool, CleanupTool
  <2>2. tool.pc = "cleanup" => tool \in CleanupTool
    BY DEF IndInv, ObjectTypes, Tools, NoTool, PlanTool, MigrateTool, CopyTool
  <2>3. \A p \in Objects : rowKey[p] # Absent => rowKey'[p] = rowKey[p]
    BY <1>1, <1>3
  <2>4. \A k \in Keys : bucket[k] = "good" => bucket'[k] = "good"
    BY <1>2, KeyFacts
  <2>5. documentKey' = documentKey \/ documentKey'[1] = "scoped"
    BY <1>1, KeyFacts
  <2>6. CopyHolds'
    <3>1. tool.pc \in {"plan", "copy"} => documentKey' = tool.document \/ documentKey'[1] = "scoped"
      BY <2>5 DEF IndInv, CopyHolds
    <3>2. ASSUME tool.pc = "copy"
          PROVE  /\ \A p \in tool.moves : rowKey'[p] = Legacy(p)
                 /\ \A p \in tool.moves \ tool.todo :
                      bucket'[Legacy(p)] = "good" /\ bucket'[Scoped(p)] = "good"
                 /\ \A p \in tool.cleanup : rowKey'[p] = Scoped(p)
      <4>1. tool.moves \subseteq Objects /\ tool.cleanup \subseteq Objects
        BY <2>1, <3>2 DEF CopyTool
      <4> QED
        BY <2>3, <2>4, <3>2, <4>1, KeyFacts DEF IndInv, CopyHolds
    <3> QED
      BY <1>1, <3>1, <3>2 DEF IndInv, CopyHolds
  <2>7. CleanupHolds' /\ SourceOutlivesItsRun'
    <3>1. tool.pc = "cleanup" => tool.todo \subseteq Objects /\ tool.moved \subseteq Objects
      BY <2>2 DEF CleanupTool
    <3> QED
      BY <1>1, <2>3, <2>4, <3>1, KeyFacts DEF IndInv, CleanupHolds, SourceOutlivesItsRun
  <2> QED
    BY <2>6, <2>7
<1> QED
  BY <1>6, <1>7, <1>8, <1>9, <1>10, <1>11 DEF IndInv

\* The backup reads; what it archives is complete when it says so.
LEMMA BackupStep ==
  ASSUME IndInv,
         \/ \E p \in {"local", "r2"} : StartBackup(p)
         \/ ReadArtifactRows \/ WriteManifest
         \/ \E o \in Objects : SaveObject(o)
  PROVE  IndInv'
<1>1. UNCHANGED <<local, bucket, rowKey, documentKey, intact, tool, reported>>
  BY DEF StartBackup, ReadArtifactRows, WriteManifest, SaveObject
<1>2. ASSUME backup' \in Backups, BackupIsComplete' PROVE IndInv'
  <2>1. Rows' = Rows
    BY <1>1 DEF Rows
  <2>2. ObjectTypes' /\ RowsNameTheirObject'
    BY <1>1, <1>2, <2>1 DEF IndInv, ObjectTypes, RowsNameTheirObject
  <2>3. MigrateHolds' /\ CopyHolds' /\ CleanupHolds'
    BY <1>1, <2>1 DEF IndInv, MigrateHolds, CopyHolds, CleanupHolds
  <2>4. NoObjectIsLost' /\ SourceOutlivesItsRun' /\ ReportIsTrue'
    BY <1>1, <2>1 DEF IndInv, NoObjectIsLost, LocalFile, SourceOutlivesItsRun, ReportIsTrue
  <2> QED
    BY <1>2, <2>2, <2>3, <2>4 DEF IndInv
<1>3. /\ backup.pc = "artifacts" => backup \in BackupReading
      /\ backup.pc = "save" => backup \in BackupSaving
  BY DEF IndInv, ObjectTypes, Backups, BackupReading, BackupSaving
<1>4. ASSUME NEW p \in {"local", "r2"}, StartBackup(p) PROVE IndInv'
  <2>1. PICK m : m = [o \in Rows \cap Versions |-> rowKey[o]]
    OBVIOUS
  <2>2. m \in KeyMaps(Versions)
    <3>1. Rows \cap Versions \in SUBSET Versions
      OBVIOUS
    <3>2. m \in [Rows \cap Versions -> Keys]
      BY <2>1, RowFacts
    <3> QED
      BY <3>1, <3>2 DEF KeyMaps
  <2>3. backup' = [pc |-> "artifacts", provider |-> p, saved |-> {}, keys |-> m]
    BY <1>4, <2>1 DEF StartBackup
  <2>4. backup' \in Backups /\ backup'.pc = "artifacts"
    BY <2>2, <2>3 DEF Backups, BackupReading
  <2> QED
    BY <1>2, <2>4 DEF BackupIsComplete
<1>5. CASE ReadArtifactRows
  <2>1. PICK m : m = [o \in DOMAIN backup.keys \cup (Rows \cap Artifacts) |->
                        IF o \in Versions THEN backup.keys[o] ELSE rowKey[o]]
    OBVIOUS
  <2>2. backup.pc = "artifacts" /\ backup' = [backup EXCEPT !.pc = "save", !.keys = m]
    BY <1>5, <2>1 DEF ReadArtifactRows
  <2>3. m \in KeyMaps(Objects)
    <3>1. PICK T \in SUBSET Versions : backup.keys \in [T -> Keys]
      BY <1>3, <2>2 DEF BackupReading, KeyMaps
    <3>2. T \cup (Rows \cap Artifacts) \in SUBSET Objects
      BY DEF Objects
    <3>3. ASSUME NEW o \in T \cup (Rows \cap Artifacts)
          PROVE  (IF o \in Versions THEN backup.keys[o] ELSE rowKey[o]) \in Keys
      <4>1. CASE o \in Versions
        BY <3>1, <3>3, <4>1, ObjectsAssumption
      <4>2. CASE o \notin Versions
        BY <3>3, <4>2, RowFacts
      <4> QED
        BY <4>1, <4>2
    <3>4. m \in [T \cup (Rows \cap Artifacts) -> Keys]
      BY <2>1, <3>1, <3>3
    <3> QED
      BY <3>2, <3>4 DEF KeyMaps
  <2>4. backup' \in Backups /\ backup'.pc = "save"
    BY <1>3, <2>2, <2>3 DEF Backups, BackupReading, BackupSaving
  <2> QED
    BY <1>2, <2>4 DEF BackupIsComplete
<1>6. CASE WriteManifest
  <2>1. /\ backup.pc = "save" /\ backup' = [backup EXCEPT !.pc = "done"]
        /\ \A o \in DOMAIN backup.keys : \E s \in backup.saved : s[1] = o
    BY <1>6 DEF WriteManifest
  <2>2. /\ backup' \in Backups /\ backup'.saved = backup.saved /\ backup'.keys = backup.keys
        /\ backup.saved \subseteq Objects \X {"good"}
    BY <1>3, <2>1 DEF Backups, BackupSaving
  <2>3. \A o \in DOMAIN backup.keys : <<o, "good">> \in backup.saved
    BY <2>1, <2>2
  <2>4. BackupIsComplete'
    BY <2>2, <2>3 DEF BackupIsComplete
  <2> QED
    BY <1>2, <2>2, <2>4
<1>7. ASSUME NEW o \in Objects, SaveObject(o) PROVE IndInv'
  <2>1. PICK content : content = Held(backup.provider, backup.keys[o])
    OBVIOUS
  <2>2. /\ backup.pc = "save"
        /\ backup' = IF content = "good"
                     THEN [backup EXCEPT !.saved = backup.saved \cup {<<o, content>>}]
                     ELSE [pc |-> "failed"]
    BY <1>7, <2>1 DEF SaveObject, IsSaved
  <2>3. backup' \in Backups /\ backup'.pc \in {"save", "failed"}
    BY <1>3, <2>2 DEF Backups, BackupSaving
  <2> QED
    BY <1>2, <2>3 DEF BackupIsComplete
<1> QED
  BY <1>4, <1>5, <1>6, <1>7

-----------------------------------------------------------------------------
(***************************************************************************)
(* The theorems                                                            *)
(***************************************************************************)

LEMMA InitInvariant == ObjectsInit => IndInv
<1> SUFFICES ASSUME ObjectsInit PROVE IndInv
  OBVIOUS
<1>1. /\ local \in [Objects -> Content]
      /\ \A o \in Objects : (local[o] = Absent) = (o \notin OldObjects)
      /\ bucket = [k \in Keys |-> Absent]
      /\ rowKey = [o \in Objects |-> IF o \in OldObjects THEN Legacy(o) ELSE Absent]
      /\ intact = {o \in Objects : local[o] = "good"}
      /\ tool = NoTool /\ reported = {} /\ backup = [pc |-> "idle"]
  BY DEF ObjectsInit, Content, Keys
<1>2. PICK v \in OldObjects \cap Versions : documentKey = Legacy(v)
  BY ObjectsAssumption DEF ObjectsInit
<1>3. OldObjects \subseteq Objects /\ Rows = OldObjects
  BY <1>1, ObjectsAssumption, KeyFacts DEF Rows, Objects
<1>4. ObjectTypes
  <2>1. bucket \in [Keys -> Content] /\ rowKey \in [Objects -> Keys \cup {Absent}]
    BY <1>1, KeyFacts DEF Content
  <2>2. documentKey \in Keys
    BY <1>2, <1>3, KeyFacts
  <2>3. tool \in Tools /\ backup \in Backups
    BY <1>1 DEF Tools, Backups
  <2> QED
    BY <1>1, <2>1, <2>2, <2>3 DEF ObjectTypes
<1>5. intact \subseteq OldObjects
  BY <1>1, KeyFacts
<1>6. RowsNameTheirObject
  BY <1>1, <1>3, <1>5, KeyFacts DEF RowsNameTheirObject
<1>7. NoObjectIsLost
  <2>1. \A o \in intact : LocalFile(rowKey[o]) = "good"
    BY <1>1, <1>3, <1>5, KeyFacts DEF LocalFile
  <2>2. documentKey \in {rowKey[u] : u \in Rows \cap Versions}
    BY <1>1, <1>2, <1>3
  <2> QED
    BY <2>1, <2>2 DEF NoObjectIsLost
<1>8. tool.pc = "idle" /\ backup.pc = "idle"
  BY <1>1 DEF NoTool
<1> QED
  BY <1>1, <1>4, <1>6, <1>7, <1>8 DEF IndInv, MigrateHolds, CopyHolds, CleanupHolds,
     SourceOutlivesItsRun, ReportIsTrue, BackupIsComplete

LEMMA StepInvariant == IndInv /\ [ObjectsNext]_objectVars => IndInv'
<1> SUFFICES ASSUME IndInv, [ObjectsNext]_objectVars PROVE IndInv'
  OBVIOUS
<1>1. CASE ReportReorganize \/ KillTool
  BY <1>1, IdleTool, ProcessStep DEF ReportReorganize, KillTool
<1>2. CASE UNCHANGED objectVars
  <2>1. UNCHANGED <<local, bucket, rowKey, documentKey, intact, tool, backup, reported>>
    BY <1>2 DEF objectVars
  <2>2. Rows' = Rows
    BY <2>1 DEF Rows
  <2>3. tool' \in Tools /\ MigrateHolds' /\ CopyHolds' /\ CleanupHolds' /\ SourceOutlivesItsRun'
    BY <2>1, <2>2 DEF IndInv, ObjectTypes, MigrateHolds, CopyHolds, CleanupHolds, SourceOutlivesItsRun
  <2> QED
    BY <2>1, <2>3, ProcessStep
<1>3. ASSUME NEW o \in Objects, NEW content \in {"good", "bad"},
             Store(o, content) \/ MigrateObject(o, content) \/ CopyObject(o, content)
      PROVE  IndInv'
  BY <1>3, StoreStep, MigrateObjectStep, CopyObjectStep
<1>4. ASSUME NEW o \in Objects, NEW locked \in BOOLEAN, DeleteSource(o, locked) PROVE IndInv'
  BY <1>4, DeleteSourceStep
<1>5. ASSUME NEW d \in BOOLEAN, StartReorganize(d) PROVE IndInv'
  BY <1>5, StartReorganizeStep
<1> QED
  BY <1>1, <1>2, <1>3, <1>4, <1>5, StartMigrateStep, ReportMigrateStep, PlanStep,
     CommitKeysStep, BackupStep DEF ObjectsNext

\* The inductive invariant holds in every reachable state of the tools.
THEOREM Invariant == ObjectsSpec => []IndInv
  BY InitInvariant, StepInvariant, PTL DEF ObjectsSpec

\* No run of the tools, killed anywhere and repeated, and no upload beside them
\* loses an object or the document, and a source outlives the run that moved it.
THEOREM NothingIsLost == ObjectsSpec => []ObjectsAreSafe
<1>1. IndInv => ObjectsAreSafe
  BY DEF IndInv, ObjectsAreSafe
<1> QED
  BY <1>1, Invariant, PTL

\* What migrate reported as copied stays good under the key of its row, and an
\* archive with a manifest holds every object whose row it read.
THEOREM ReportsAreTrue == ObjectsSpec => []ToolsReportTheTruth
<1>1. IndInv => ToolsReportTheTruth
  BY DEF IndInv, ToolsReportTheTruth
<1> QED
  BY <1>1, Invariant, PTL

=============================================================================
