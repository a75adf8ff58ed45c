--------------------------- MODULE ServicesProofs ---------------------------
(***************************************************************************)
(* Proofs about what stands beside the execution of a query: the catalog,  *)
(* for every set of names, schemas and mappings, any of which the program  *)
(* may be unable to read back; what the thread pool promises, for every    *)
(* number of threads, callers and tasks; and which handlers the signal     *)
(* handler calls, for all handlers and signals.                            *)
(***************************************************************************)
EXTENDS Catalog, ThreadPool, SignalHandler, SequenceTheorems, FiniteSetTheorems, TLAPS

(***************************************************************************)
(* The catalog.                                                            *)
(*                                                                         *)
(* TablesAgree speaks of the points between statements.  Within a CREATE   *)
(* TABLE the file of its table is there already and the entry in memory is *)
(* not; Settled(n) is what holds of all other tables at every point, and   *)
(* InFlight what holds of that one.  A file that a CREATE TABLE without a  *)
(* text left behind stays broken while the program is down (Leftover),     *)
(* which is why it never starts again with such a file.                    *)
(***************************************************************************)
Running == pc \notin {"down", "failed"}

Settled(n) ==
  /\ n \in DOMAIN tables <=> tableFile[n] # Absent /\ n \notin refused
  /\ n \in DOMAIN tables /\ tableFile[n] # tables[n] =>
       tableFile[n] = Broken /\ "write" \in damage

Leftover == \A n \in refused : tableFile[n] = Broken

InFlight ==
  pc = "tableOpen" =>
    /\ statement.name \in FileNames /\ statement.value \in Schemas
    /\ statement.name \notin DOMAIN tables
    /\ tableFile[statement.name] = Broken

MappingInFlight ==
  /\ pc \in {"mappingOpen", "mappingWritten"} =>
       /\ statement.name \in Names /\ statement.value \in Mappings
       /\ mappingFile[statement.name] # Absent
  /\ pc = "tableDropped" => statement.name \in Names

MemoryMatches ==
  Running =>
    /\ SystemTables \subseteq DOMAIN tables
    /\ \A n \in FileNames : (pc = "tableOpen" /\ n = statement.name) \/ Settled(n)

IInv == TypeOK /\ InFlight /\ Leftover /\ MappingInFlight /\ MemoryMatches
-----------------------------------------------------------------------------
(* A function on some of the names is one of the partial functions.        *)
LEMMA PartialFunction ==
  ASSUME NEW S, NEW T, NEW d \in SUBSET S, NEW f \in [d -> T]
  PROVE  f \in PartialFunctions(S, T)
BY DEF PartialFunctions

(* and has a domain and values.                                            *)
LEMMA PartialFunctionType ==
  ASSUME NEW S, NEW T, NEW f \in PartialFunctions(S, T)
  PROVE  DOMAIN f \subseteq S /\ f \in [DOMAIN f -> T]
BY DEF PartialFunctions

(* An entry added or overwritten, and an entry taken out.                  *)
LEMMA WithType ==
  ASSUME NEW S, NEW T, NEW f \in PartialFunctions(S, T), NEW n \in S, NEW v \in T
  PROVE  With(f, n, v) \in PartialFunctions(S, T)
<1>1. With(f, n, v) \in [DOMAIN f \cup {n} -> T]
  BY PartialFunctionType DEF With
<1>2. DOMAIN f \cup {n} \in SUBSET S
  BY PartialFunctionType
<1> QED
  BY <1>1, <1>2, PartialFunction

LEMMA WithoutType ==
  ASSUME NEW S, NEW T, NEW f \in PartialFunctions(S, T), NEW n
  PROVE  Without(f, n) \in PartialFunctions(S, T)
<1>1. Without(f, n) \in [DOMAIN f \ {n} -> T]
  BY PartialFunctionType DEF Without
<1>2. DOMAIN f \ {n} \in SUBSET S
  BY PartialFunctionType
<1> QED
  BY <1>1, <1>2, PartialFunction

LEMMA NothingType ==
  ASSUME NEW S, NEW T
  PROVE  Nothing \in PartialFunctions(S, T)
<1>1. Nothing \in [{} -> T]
  BY DEF Nothing
<1> QED
  BY <1>1, PartialFunction
-----------------------------------------------------------------------------
(* The invariant holds at first, and every action keeps it.                *)
LEMMA InitIInv == Init => IInv
<1> SUFFICES ASSUME Init PROVE IInv
  OBVIOUS
<1>1. TypeOK
  <2>1. tables \in PartialFunctions(Names, Schemas \cup {SystemSchema})
    BY NothingType DEF Init
  <2>2. mappings \in PartialFunctions(Names, Mappings) /\ given \in CommandLines
    BY NothingType DEF Init, CommandLines
  <2> QED
    BY <2>1, <2>2 DEF Init, TypeOK, NoStatement
<1> QED
  BY <1>1 DEF Init, IInv, InFlight, Leftover, MappingInFlight, MemoryMatches, Running

LEMMA StartIInv ==
  ASSUME IInv, NEW c \in CommandLines, Start(c)
  PROVE  IInv'
<1>1. tables' \in PartialFunctions(Names, Schemas \cup {SystemSchema})
  <2>1. Present(tableFile) \cup SystemTables \in SUBSET Names
    BY CatalogAssumption DEF Present
  <2>2. tables' \in [Present(tableFile) \cup SystemTables -> Schemas \cup {SystemSchema}]
    BY DEF Start, Readable, Present, IInv, TypeOK
  <2> QED
    BY <2>1, <2>2, PartialFunction
<1>2. mappings' \in PartialFunctions(Names, Mappings)
  <2>1. c \in [DOMAIN c -> Mappings] /\ DOMAIN c \subseteq Names
    BY PartialFunctionType DEF CommandLines
  <2>2. mappings' \in [DOMAIN c \cup Present(mappingFile) -> Mappings]
    BY <2>1 DEF Start, Merged, Readable, Present, IInv, TypeOK
  <2>3. DOMAIN c \cup Present(mappingFile) \in SUBSET Names
    BY <2>1 DEF Present
  <2> QED
    BY <2>2, <2>3, PartialFunction
<1>3. TypeOK'
  BY <1>1, <1>2 DEF Start, disk, IInv, TypeOK
<1>4. refused = {}
  BY CatalogAssumption DEF Start, Readable, Present, FileNames, IInv, TypeOK, Leftover
<1>5. MemoryMatches'
  <2>1. DOMAIN tables' = Present(tableFile) \cup SystemTables
    BY DEF Start
  <2>2. ASSUME NEW n \in FileNames PROVE Settled(n)'
    BY <2>1, <1>4 DEF Start, Settled, Present, FileNames, disk
  <2> QED
    BY <2>1, <2>2 DEF MemoryMatches
<1> QED
  BY <1>3, <1>4, <1>5 DEF Start, IInv, InFlight, Leftover, MappingInFlight

LEMMA StartFailsIInv ==
  ASSUME IInv, StartFails
  PROVE  IInv'
BY DEF StartFails, disk, memory, IInv, TypeOK, InFlight, Leftover, MappingInFlight, MemoryMatches,
       Running

LEMMA StopIInv ==
  ASSUME IInv, Stop
  PROVE  IInv'
<1>1. tables' \in PartialFunctions(Names, Schemas \cup {SystemSchema})
  BY NothingType DEF Stop
<1>2. mappings' \in PartialFunctions(Names, Mappings) /\ given' \in CommandLines
  BY NothingType DEF Stop, CommandLines
<1> QED
  BY <1>1, <1>2
  DEF Stop, disk, NoStatement, IInv, TypeOK, InFlight, Leftover, MappingInFlight, MemoryMatches,
      Running
-----------------------------------------------------------------------------
(* A table is settled as long as its file, its entry and the damage stay.  *)
LEMMA StillSettled ==
  ASSUME NEW n, Settled(n), tableFile'[n] = tableFile[n], damage \subseteq damage',
         n \in refused' <=> n \in refused,
         n \in DOMAIN tables' <=> n \in DOMAIN tables,
         n \in DOMAIN tables => tables'[n] = tables[n]
  PROVE  Settled(n)'
BY DEF Settled

LEMMA OpenTableFileIInv ==
  ASSUME IInv, NEW n \in Names, NEW s \in Schemas, OpenTableFile(n, s)
  PROVE  IInv'
<1> USE DEF OpenTableFile, Begin, memory
<1>1. TypeOK'
  BY DEF IInv, TypeOK
<1>2. n \in FileNames /\ n \notin DOMAIN tables' /\ tableFile'[n] = Broken
  BY DEF IInv, TypeOK, MemoryMatches, Running, FileNames
<1>3. MemoryMatches'
  <2>1. ASSUME NEW k \in FileNames, k # n PROVE Settled(k)'
    <3>1. tableFile'[k] = tableFile[k] /\ Settled(k)
      BY <2>1 DEF IInv, TypeOK, MemoryMatches, Running, FileNames
    <3> QED
      BY <3>1, StillSettled
  <2> QED
    BY <2>1 DEF IInv, MemoryMatches, Running
<1>4. Leftover'
  BY DEF IInv, TypeOK, Leftover
<1> QED
  BY <1>1, <1>2, <1>3, <1>4 DEF IInv, InFlight, MappingInFlight

(* What failed is over, its name is among the refused ones, and there is   *)
(* no table of that name.                                                  *)
LEMMA RefuseTableIInv ==
  ASSUME IInv, RefuseTable, NEW n, n = statement.name
  PROVE  IInv'
<1> USE DEF RefuseTable, Finish, disk, memory
<1>1. n \in FileNames /\ n \notin DOMAIN tables /\ tableFile[n] = Broken
  BY DEF IInv, InFlight
<1>2. TypeOK'
  BY <1>1 DEF IInv, TypeOK, NoStatement
<1>3. MemoryMatches'
  <2>1. ASSUME NEW k \in FileNames, k # n PROVE Settled(k)'
    <3>1. Settled(k)
      BY <2>1 DEF IInv, MemoryMatches, Running
    <3> QED
      BY <3>1, <2>1, StillSettled
  <2>2. Settled(n)'
    BY <1>1 DEF Settled
  <2> QED
    BY <2>1, <2>2 DEF IInv, MemoryMatches, Running
<1>4. Leftover'
  BY <1>1 DEF IInv, Leftover
<1> QED
  BY <1>2, <1>3, <1>4 DEF IInv, InFlight, MappingInFlight

LEMMA WriteTableIInv ==
  ASSUME IInv, WriteTable, NEW n, n = statement.name, NEW s, s = statement.value
  PROVE  IInv'
<1>1. n \in FileNames /\ n \in Names /\ s \in Schemas /\ tableFile[n] = Broken
  BY DEF WriteTable, IInv, InFlight, FileNames
<1>2. /\ tables' = With(tables, n, s) /\ pc' = "idle" /\ damage \subseteq damage'
      /\ refused' = refused \ {n}
  BY DEF WriteTable, Finish
<1>3. TypeOK'
  <2>1. tables' \in PartialFunctions(Names, Schemas \cup {SystemSchema})
    BY <1>1, <1>2, WithType DEF IInv, TypeOK
  <2>2. tableFile' \in [Names -> Schemas \cup {Absent, Broken}]
    BY <1>1 DEF WriteTable, IInv, TypeOK
  <2> QED
    BY <2>1, <2>2 DEF WriteTable, Finish, NoStatement, IInv, TypeOK
<1>4. DOMAIN tables' = DOMAIN tables \cup {n} /\ tables'[n] = s
  BY <1>2 DEF With
<1>5. MemoryMatches'
  <2>1. ASSUME NEW k \in FileNames, k # n PROVE Settled(k)'
    <3>1. Settled(k)
      BY <2>1 DEF WriteTable, IInv, MemoryMatches, Running
    <3>2. tableFile'[k] = tableFile[k]
      BY <2>1, <1>1 DEF WriteTable, IInv, TypeOK, FileNames
    <3>3. k \in DOMAIN tables => tables'[k] = tables[k]
      BY <2>1, <1>2 DEF With
    <3> QED
      BY <3>1, <3>2, <3>3, <2>1, <1>2, <1>4, StillSettled
  <2>2. s # Absent /\ Broken # Absent
    BY <1>1, CatalogAssumption
  <2>3. \/ tableFile'[n] = s
        \/ tableFile'[n] = Broken /\ "write" \in damage'
    BY <1>1 DEF WriteTable, IInv, TypeOK
  <2>4. Settled(n)'
    BY <2>2, <2>3, <1>2, <1>4 DEF Settled
  <2>5. \A k \in FileNames : Settled(k)'
    BY <2>1, <2>4
  <2>6. SystemTables \subseteq DOMAIN tables'
    BY <1>4 DEF WriteTable, IInv, MemoryMatches, Running
  <2> QED
    BY <2>5, <2>6 DEF MemoryMatches
<1>6. Leftover'
  <2>1. ASSUME NEW k \in refused' PROVE tableFile'[k] = Broken
    <3>1. k \in refused /\ k # n
      BY <1>2
    <3>2. tableFile'[k] = tableFile[k]
      BY <3>1, <1>1 DEF WriteTable, IInv, TypeOK, FileNames
    <3> QED
      BY <3>1, <3>2 DEF IInv, Leftover
  <2> QED
    BY <2>1 DEF Leftover
<1> QED
  BY <1>2, <1>3, <1>5, <1>6 DEF IInv, InFlight, MappingInFlight

LEMMA DropTableIInv ==
  ASSUME IInv, NEW n \in Names, DropTable(n)
  PROVE  IInv'
<1> USE DEF DropTable, Begin
<1>1. TypeOK'
  <2>1. tables' \in PartialFunctions(Names, Schemas \cup {SystemSchema})
    BY WithoutType DEF IInv, TypeOK
  <2> QED
    BY <2>1 DEF IInv, TypeOK
<1>2. n \in FileNames /\ DOMAIN tables' = DOMAIN tables \ {n}
  BY CatalogAssumption DEF Without, UserNames, FileNames
<1>3. MemoryMatches'
  <2>1. ASSUME NEW k \in FileNames, k # n PROVE Settled(k)'
    <3>1. Settled(k) /\ tableFile'[k] = tableFile[k]
      BY <2>1 DEF IInv, TypeOK, MemoryMatches, Running, FileNames
    <3>2. k \in DOMAIN tables => tables'[k] = tables[k]
      BY <2>1 DEF Without
    <3> QED
      BY <3>1, <3>2, <2>1, <1>2, StillSettled
  <2>2. Settled(n)'
    BY <1>2 DEF Settled, IInv, TypeOK
  <2> QED
    BY <2>1, <2>2, <1>2 DEF IInv, MemoryMatches, Running, FileNames
<1>4. Leftover'
  <2>1. n \notin refused
    BY <1>2 DEF IInv, MemoryMatches, Running, Settled
  <2> QED
    BY <2>1 DEF IInv, TypeOK, Leftover
<1> QED
  BY <1>1, <1>3, <1>4 DEF IInv, InFlight, MappingInFlight
-----------------------------------------------------------------------------
(* The other actions touch no table.                                       *)
LEMMA TablesUntouched ==
  ASSUME IInv, Running, pc # "tableOpen", Running', pc' # "tableOpen",
         UNCHANGED <<tableFile, tables, refused>>, damage \subseteq damage'
  PROVE  InFlight' /\ Leftover' /\ MemoryMatches'
<1>1. ASSUME NEW n \in FileNames PROVE Settled(n)'
  BY StillSettled DEF IInv, MemoryMatches
<1> QED
  BY <1>1 DEF IInv, InFlight, Leftover, MemoryMatches

LEMMA OpenMappingFileIInv ==
  ASSUME IInv, NEW n \in Names, NEW m \in Mappings, OpenMappingFile(n, m)
  PROVE  IInv'
<1> USE DEF OpenMappingFile, Begin, memory
<1>1. TypeOK'
  BY DEF IInv, TypeOK
<1>2. InFlight' /\ Leftover' /\ MemoryMatches'
  BY TablesUntouched DEF Running
<1> QED
  BY <1>1, <1>2, CatalogAssumption DEF IInv, TypeOK, MappingInFlight

LEMMA DropMappingIInv ==
  ASSUME IInv, NEW n \in Names, DropMapping(n)
  PROVE  IInv'
<1> USE DEF DropMapping
<1>1. TypeOK'
  BY WithoutType DEF IInv, TypeOK
<1>2. InFlight' /\ Leftover' /\ MemoryMatches'
  BY TablesUntouched DEF Running
<1> QED
  BY <1>1, <1>2 DEF IInv, MappingInFlight

LEMMA DropItsMappingIInv ==
  ASSUME IInv, DropItsMapping
  PROVE  IInv'
<1> USE DEF DropItsMapping, Finish
<1>1. TypeOK'
  BY WithoutType DEF IInv, TypeOK, NoStatement
<1>2. InFlight' /\ Leftover' /\ MemoryMatches'
  BY TablesUntouched DEF Running
<1> QED
  BY <1>1, <1>2 DEF IInv, MappingInFlight

LEMMA KeepItsMappingIInv ==
  ASSUME IInv, KeepItsMapping
  PROVE  IInv'
<1> USE DEF KeepItsMapping, Finish, disk, memory
<1>1. TypeOK'
  BY DEF IInv, TypeOK, NoStatement
<1>2. InFlight' /\ Leftover' /\ MemoryMatches'
  BY TablesUntouched DEF Running
<1> QED
  BY <1>1, <1>2 DEF IInv, MappingInFlight

LEMMA RefuseNameIInv ==
  ASSUME IInv, RefuseName
  PROVE  IInv'
<1> USE DEF RefuseName, Finish, disk, memory
<1>1. TypeOK'
  BY DEF IInv, TypeOK, NoStatement
<1>2. InFlight' /\ Leftover' /\ MemoryMatches'
  BY TablesUntouched DEF Running
<1> QED
  BY <1>1, <1>2 DEF IInv, MappingInFlight

LEMMA WriteMappingIInv ==
  ASSUME IInv, WriteMapping
  PROVE  IInv'
<1> USE DEF WriteMapping, memory
<1>1. TypeOK'
  BY DEF IInv, TypeOK, MappingInFlight
<1>2. InFlight' /\ Leftover' /\ MemoryMatches'
  BY TablesUntouched DEF Running
<1> QED
  BY <1>1, <1>2, CatalogAssumption DEF IInv, TypeOK, MappingInFlight

LEMMA AddMappingIInv ==
  ASSUME IInv, AddMapping
  PROVE  IInv'
<1> USE DEF AddMapping, Finish, disk
<1>1. mappings' \in PartialFunctions(Names, Mappings)
  <2>1. statement.name \in Names
    BY DEF IInv, MappingInFlight
  <2>2. CASE mappings' = mappings
    BY <2>2 DEF IInv, TypeOK
  <2>3. CASE mappings' = With(mappings, statement.name, mappingFile[statement.name])
    <3>1. mappingFile[statement.name] \in Mappings
      BY <2>1 DEF IInv, TypeOK, MappingInFlight
    <3> QED
      BY <2>1, <2>3, <3>1, WithType DEF IInv, TypeOK
  <2> QED
    BY <2>2, <2>3
<1>2. TypeOK'
  BY <1>1 DEF IInv, TypeOK, NoStatement
<1>3. InFlight' /\ Leftover' /\ MemoryMatches'
  BY TablesUntouched DEF Running
<1> QED
  BY <1>2, <1>3 DEF IInv, MappingInFlight

LEMMA ReadBackFailsIInv ==
  ASSUME IInv, ReadBackFails
  PROVE  IInv'
<1> USE DEF ReadBackFails, Finish, disk, memory
<1>1. TypeOK'
  BY DEF IInv, TypeOK, NoStatement
<1>2. InFlight' /\ Leftover' /\ MemoryMatches'
  BY TablesUntouched DEF Running
<1> QED
  BY <1>1, <1>2 DEF IInv, MappingInFlight
-----------------------------------------------------------------------------
LEMMA NextIInv == IInv /\ [Next]_vars => IInv'
<1> SUFFICES ASSUME IInv, [Next]_vars PROVE IInv'
  OBVIOUS
<1>1. CASE UNCHANGED vars
  BY <1>1
  DEF vars, IInv, TypeOK, InFlight, Leftover, MappingInFlight, MemoryMatches, Running, Settled
<1>2. CASE \E c \in CommandLines : Start(c)
  BY <1>2, StartIInv
<1>3. CASE \E n \in Names : \E s \in Schemas : OpenTableFile(n, s)
  BY <1>3, OpenTableFileIInv
<1>4. CASE \E n \in Names : \E m \in Mappings : OpenMappingFile(n, m)
  BY <1>4, OpenMappingFileIInv
<1>5. CASE \E n \in Names : DropTable(n) \/ DropMapping(n)
  BY <1>5, DropTableIInv, DropMappingIInv
<1>6. CASE StartFails \/ Stop
  BY <1>6, StartFailsIInv, StopIInv
<1>7. CASE RefuseTable \/ WriteTable
  BY <1>7, RefuseTableIInv, WriteTableIInv
<1>8. CASE DropItsMapping \/ KeepItsMapping
  BY <1>8, DropItsMappingIInv, KeepItsMappingIInv
<1>9. CASE RefuseName \/ WriteMapping \/ AddMapping \/ ReadBackFails
  BY <1>9, RefuseNameIInv, WriteMappingIInv, AddMappingIInv, ReadBackFailsIInv
<1> QED
  BY <1>1, <1>2, <1>3, <1>4, <1>5, <1>6, <1>7, <1>8, <1>9 DEF Next

(* What StoredSchemasKept says of a step.                                  *)
SchemasKept ==
  \A n \in Names : tableFile'[n] # tableFile[n] =>
    /\ tableFile[n] \in Schemas =>
         tableFile'[n] = Absent /\ pc' = "tableDropped" /\ statement'.name = n
    /\ tableFile'[n] \in Schemas =>
         /\ pc = "tableOpen" /\ statement = [name |-> n, value |-> tableFile'[n]]
         /\ n \notin DOMAIN tables

LEMMA StepKeepsSchemas == IInv /\ [Next]_vars => SchemasKept
<1> SUFFICES ASSUME IInv, [Next]_vars,
                    NEW n \in Names, tableFile'[n] # tableFile[n]
             PROVE  /\ tableFile[n] \in Schemas =>
                         tableFile'[n] = Absent /\ pc' = "tableDropped" /\ statement'.name = n
                    /\ tableFile'[n] \in Schemas =>
                         /\ pc = "tableOpen"
                         /\ statement = [name |-> n, value |-> tableFile'[n]]
                         /\ n \notin DOMAIN tables
  BY DEF SchemasKept
<1>1. CASE \E k \in Names, s \in Schemas : OpenTableFile(k, s)
  <2>1. PICK k \in Names, s \in Schemas : OpenTableFile(k, s)
    BY <1>1
  <2>2. n = k /\ tableFile'[n] = Broken
    BY <2>1 DEF OpenTableFile, IInv, TypeOK
  <2>3. n \in FileNames /\ tableFile[n] \in {Absent, Broken}
    BY <2>1, <2>2
    DEF OpenTableFile, Begin, IInv, Leftover, MemoryMatches, Running, Settled, FileNames
  <2> QED
    BY <2>2, <2>3, CatalogAssumption
<1>2. CASE \E k \in Names : DropTable(k)
  <2>1. PICK k \in Names : DropTable(k)
    BY <1>2
  <2>2. n = k /\ tableFile'[n] = Absent
    BY <2>1 DEF DropTable, IInv, TypeOK
  <2> QED
    BY <2>1, <2>2, CatalogAssumption DEF DropTable, Begin
<1>3. CASE WriteTable
  <2>1. /\ n = statement.name /\ tableFile'[n] = statement.value
        /\ tableFile[n] = Broken /\ n \notin DOMAIN tables
    BY <1>3 DEF WriteTable, IInv, TypeOK, InFlight
  <2>2. statement = [name |-> n, value |-> tableFile'[n]]
    BY <2>1 DEF IInv, TypeOK
  <2> QED
    BY <1>3, <2>1, <2>2, CatalogAssumption DEF WriteTable
<1> QED
  BY <1>1, <1>2, <1>3
  DEF Next, vars, disk, Start, StartFails, Stop, RefuseTable, OpenMappingFile, DropMapping, DropItsMapping,
      KeepItsMapping, RefuseName, WriteMapping, AddMapping, ReadBackFails

(* The invariant holds at every point of every run of the program.         *)
THEOREM CatalogInvariant == Spec => []IInv
  BY InitIInv, NextIInv, PTL DEF Spec

(* The files and the entries in memory have the kinds of content that the  *)
(* classes Database and FileMapping give them.                             *)
THEOREM TypeInvariant == Spec => []TypeOK
<1>1. IInv => TypeOK
  BY DEF IInv
<1> QED
  BY <1>1, CatalogInvariant, PTL

(* Between statements the tables in memory are those in the directory, but *)
(* for the files that a CREATE TABLE without a text left there.            *)
THEOREM TablesInvariant == Spec => []TablesAgree
<1>1. IInv => TablesAgree
  BY DEF IInv, Leftover, MemoryMatches, Running, Settled, TablesAgree
<1> QED
  BY <1>1, CatalogInvariant, PTL

(* A schema that was stored leaves the directory by a DROP only, and comes *)
(* there by a CREATE only.                                                 *)
THEOREM StoredSchemasTheorem == Spec => StoredSchemasKept
<1>1. IInv /\ [Next]_vars => [SchemasKept]_vars
  BY StepKeepsSchemas
<1>2. [][SchemasKept]_vars => StoredSchemasKept
  BY DEF SchemasKept, StoredSchemasKept
<1> QED
  BY <1>1, <1>2, CatalogInvariant, PTL DEF Spec
-----------------------------------------------------------------------------
(* The mappings, which may be created a second time, be given on the       *)
(* command line, and fail to be read back.  Within a CREATE MAPPING its    *)
(* file is written over and no other mapping is concerned.                 *)
MappingSettled(n) ==
  /\ n \in DOMAIN mappings => mappingFile[n] = mappings[n]
  /\ mappingFile[n] \in Mappings \ Unreadable => n \in DOMAIN mappings

CreatesMapping == pc \in {"mappingOpen", "mappingWritten"}

MappingsMatch ==
  Running => \A n \in UserNames \ (DOMAIN given \cup stale) :
    (CreatesMapping /\ n = statement.name) \/ MappingSettled(n)

(* Its name had no mapping, or is marked as stale; its file is empty until *)
(* the text is written.                                                    *)
NewMapping ==
  /\ CreatesMapping /\ statement.name \in DOMAIN mappings => statement.name \in stale
  /\ pc = "mappingOpen" => mappingFile[statement.name] = Broken

(* Why a file may be broken; behind the writing of a mapping it is for a   *)
(* reason already.                                                         *)
BrokenTable(n) ==
  \/ pc = "tableOpen" /\ statement.name = n
  \/ damage \cap {"killed", "write"} # {}
  \/ n \in refused
BrokenMapping(n) ==
  \/ pc = "mappingOpen" /\ statement.name = n
  \/ damage \cap {"killed", "write"} # {}
  \/ "name" \in damage /\ n \in OddNames
BrokenInv ==
  \A n \in Names : /\ tableFile[n] = Broken => BrokenTable(n)
                   /\ mappingFile[n] = Broken => BrokenMapping(n)

MInv == IInv /\ MappingsMatch /\ NewMapping /\ BrokenInv

LEMMA InitMInv == Init => MInv
<1> SUFFICES ASSUME Init PROVE MInv
  OBVIOUS
<1>1. IInv /\ MappingsMatch /\ NewMapping
  BY InitIInv DEF Init, MappingsMatch, Running, NewMapping, CreatesMapping
<1>2. BrokenInv
  BY CatalogAssumption DEF Init, BrokenInv
<1> QED
  BY <1>1, <1>2 DEF MInv

(* A start reads every file, and the names of the command line keep what   *)
(* they were given.                                                        *)
LEMMA StartMappings ==
  ASSUME MInv, NEW c \in CommandLines, Start(c)
  PROVE  MappingsMatch' /\ NewMapping' /\ BrokenInv'
<1>1. ASSUME NEW n \in UserNames \ (DOMAIN given' \cup stale') PROVE MappingSettled(n)'
  <2>1. n \in Names /\ n \notin DOMAIN c
    BY <1>1 DEF Start, UserNames
  <2>2. n \in DOMAIN mappings' <=> mappingFile[n] # Absent
    BY <2>1 DEF Start, Merged, Present
  <2>3. n \in DOMAIN mappings' => mappings'[n] = mappingFile[n]
    BY <2>1 DEF Start, Merged
  <2> QED
    BY <2>2, <2>3, CatalogAssumption DEF MappingSettled, Start, disk
<1>2. MappingsMatch' /\ NewMapping'
  BY <1>1 DEF MappingsMatch, NewMapping, CreatesMapping, Start
<1>3. BrokenInv'
  BY DEF MInv, BrokenInv, BrokenTable, BrokenMapping, Start, disk
<1> QED
  BY <1>2, <1>3

(* Steps that change no mapping and no file of one, but may let the        *)
(* statement begin or end.                                                 *)
LEMMA MappingsUntouched ==
  ASSUME MInv, Running => Running', UNCHANGED <<mappingFile, mappings, given, stale>>,
         ~ CreatesMapping, ~ CreatesMapping', Running' => Running
  PROVE  MappingsMatch' /\ NewMapping'
BY DEF MInv, MappingsMatch, MappingSettled, NewMapping, CreatesMapping

LEMMA StopMappings ==
  ASSUME MInv, Stop
  PROVE  MappingsMatch' /\ NewMapping' /\ BrokenInv'
<1>1. MappingsMatch' /\ NewMapping'
  BY DEF Stop, MappingsMatch, Running, NewMapping, CreatesMapping
<1>2. BrokenInv'
  BY DEF MInv, BrokenInv, BrokenTable, BrokenMapping, Stop, disk
<1> QED
  BY <1>1, <1>2

LEMMA TableMappings ==
  ASSUME MInv,
         \/ \E n \in Names : DropTable(n) \/ (\E s \in Schemas : OpenTableFile(n, s))
         \/ RefuseTable \/ WriteTable \/ StartFails \/ KeepItsMapping
  PROVE  MappingsMatch' /\ NewMapping' /\ BrokenInv'
<1> USE DEF DropTable, OpenTableFile, RefuseTable, WriteTable, StartFails, KeepItsMapping, Begin,
            Finish, disk, memory
<1>1. MappingsMatch' /\ NewMapping'
  BY MappingsUntouched DEF Running, CreatesMapping
<1>2. CASE \E n \in Names, s \in Schemas : OpenTableFile(n, s)
  <2>1. PICK n \in Names, s \in Schemas : OpenTableFile(n, s)
    BY <1>2
  <2> QED
    BY <1>1, <2>1 DEF MInv, IInv, TypeOK, BrokenInv, BrokenTable, BrokenMapping
<1>3. CASE WriteTable
  <2>1. statement.value # Broken
    BY <1>3, CatalogAssumption DEF MInv, IInv, InFlight
  <2> QED
    BY <1>1, <1>3, <2>1 DEF MInv, IInv, TypeOK, BrokenInv, BrokenTable, BrokenMapping
<1>4. CASE \E n \in Names : DropTable(n)
  <2>1. PICK n \in Names : DropTable(n)
    BY <1>4
  <2> QED
    BY <1>1, <2>1, CatalogAssumption
    DEF MInv, IInv, TypeOK, BrokenInv, BrokenTable, BrokenMapping
<1>5. CASE RefuseTable \/ StartFails \/ KeepItsMapping
  BY <1>1, <1>5 DEF MInv, BrokenInv, BrokenTable, BrokenMapping
<1> QED
  BY <1>2, <1>3, <1>4, <1>5, <1>1

LEMMA OpenMappingFileMappings ==
  ASSUME MInv, NEW n \in Names, NEW m \in Mappings, OpenMappingFile(n, m)
  PROVE  MappingsMatch' /\ NewMapping' /\ BrokenInv'
<1> USE DEF OpenMappingFile, Begin, memory
<1>1. statement'.name = n /\ mappingFile'[n] = Broken
  BY DEF MInv, IInv, TypeOK
<1>2. ASSUME NEW k \in Names, k # n PROVE mappingFile'[k] = mappingFile[k]
  BY <1>2 DEF MInv, IInv, TypeOK
<1>3. MappingsMatch'
  <2>1. ASSUME NEW k \in UserNames \ (DOMAIN given' \cup stale'), k # n
        PROVE  MappingSettled(k)'
    BY <2>1, <1>2 DEF MInv, MappingsMatch, Running, CreatesMapping, MappingSettled, UserNames
  <2> QED
    BY <2>1, <1>1 DEF MappingsMatch, CreatesMapping
<1>4. NewMapping'
  BY <1>1 DEF NewMapping, CreatesMapping
<1>5. BrokenInv'
  BY <1>1, <1>2 DEF MInv, BrokenInv, BrokenTable, BrokenMapping
<1> QED
  BY <1>3, <1>4, <1>5

LEMMA RefuseNameMappings ==
  ASSUME MInv, RefuseName
  PROVE  MappingsMatch' /\ NewMapping' /\ BrokenInv'
<1> USE DEF RefuseName, Finish, disk, memory
<1>1. mappingFile[statement.name] = Broken
  BY DEF MInv, NewMapping
<1>2. MappingsMatch'
  <2>1. ASSUME NEW n \in UserNames \ (DOMAIN given' \cup stale') PROVE MappingSettled(n)'
    <3>1. CASE n = statement.name
      BY <3>1, <1>1, CatalogAssumption DEF MInv, NewMapping, CreatesMapping, MappingSettled
    <3>2. CASE n # statement.name
      BY <3>2 DEF MInv, MappingsMatch, Running, CreatesMapping, MappingSettled
    <3> QED
      BY <3>1, <3>2
  <2> QED
    BY <2>1 DEF MappingsMatch
<1>3. NewMapping'
  BY DEF NewMapping, CreatesMapping
<1>4. BrokenInv'
  BY DEF MInv, BrokenInv, BrokenTable, BrokenMapping
<1> QED
  BY <1>2, <1>3, <1>4

LEMMA WriteMappingMappings ==
  ASSUME MInv, WriteMapping
  PROVE  MappingsMatch' /\ NewMapping' /\ BrokenInv'
<1> USE DEF WriteMapping, memory
<1>1. statement.name \in Names /\ statement.value \in Mappings
  BY DEF MInv, IInv, MappingInFlight
<1>2. ASSUME NEW k \in Names, k # statement.name PROVE mappingFile'[k] = mappingFile[k]
  BY <1>2 DEF MInv, IInv, TypeOK
<1>3. MappingsMatch'
  BY <1>2 DEF MInv, MappingsMatch, Running, CreatesMapping, MappingSettled, UserNames
<1>4. NewMapping'
  BY DEF MInv, NewMapping, CreatesMapping
<1>5. mappingFile'[statement.name] # Broken \/ "write" \in damage'
  BY <1>1, CatalogAssumption DEF MInv, IInv, TypeOK
<1>6. BrokenInv'
  BY <1>1, <1>2, <1>5 DEF MInv, BrokenInv, BrokenTable, BrokenMapping
<1> QED
  BY <1>3, <1>4, <1>6

LEMMA AddMappingMappings ==
  ASSUME MInv, AddMapping
  PROVE  MappingsMatch' /\ NewMapping' /\ BrokenInv'
<1> USE DEF AddMapping, Finish, disk
<1>1. ASSUME NEW n \in UserNames \ (DOMAIN given' \cup stale') PROVE MappingSettled(n)'
  <2>1. CASE n = statement.name
    BY <2>1 DEF MInv, NewMapping, CreatesMapping, With, MappingSettled
  <2>2. CASE n # statement.name
    <3>1. MappingSettled(n)
      BY <2>2 DEF MInv, MappingsMatch, Running
    <3>2. (n \in DOMAIN mappings' <=> n \in DOMAIN mappings)
          /\ (n \in DOMAIN mappings => mappings'[n] = mappings[n])
      BY <2>2 DEF With
    <3> QED
      BY <3>1, <3>2 DEF MappingSettled
  <2> QED
    BY <2>1, <2>2
<1>2. MappingsMatch' /\ NewMapping'
  BY <1>1 DEF MappingsMatch, NewMapping, CreatesMapping
<1>3. BrokenInv'
  BY DEF MInv, BrokenInv, BrokenTable, BrokenMapping
<1> QED
  BY <1>2, <1>3

LEMMA ReadBackFailsMappings ==
  ASSUME MInv, ReadBackFails
  PROVE  MappingsMatch' /\ NewMapping' /\ BrokenInv'
<1> USE DEF ReadBackFails, Finish, disk, memory
<1>1. ASSUME NEW n \in UserNames \ (DOMAIN given' \cup stale') PROVE MappingSettled(n)'
  <2>1. CASE n = statement.name
    BY <2>1, CatalogAssumption DEF MInv, NewMapping, CreatesMapping, MappingSettled
  <2>2. CASE n # statement.name
    BY <2>2 DEF MInv, MappingsMatch, Running, MappingSettled
  <2> QED
    BY <2>1, <2>2
<1>2. MappingsMatch' /\ NewMapping'
  BY <1>1 DEF MappingsMatch, NewMapping, CreatesMapping
<1>3. BrokenInv'
  BY DEF MInv, BrokenInv, BrokenTable, BrokenMapping
<1> QED
  BY <1>2, <1>3

(* A mapping that is dropped leaves memory and the directory.              *)
LEMMA DropMappings ==
  ASSUME MInv, NEW n \in Names, mappingFile' = [mappingFile EXCEPT ![n] = Absent],
         mappings' = Without(mappings, n), UNCHANGED <<tableFile, given, damage, stale, refused>>,
         pc \in {"idle", "tableDropped"}, pc' = "idle"
  PROVE  MappingsMatch' /\ NewMapping' /\ BrokenInv'
<1>1. mappingFile'[n] = Absent /\ n \notin DOMAIN mappings'
  BY DEF MInv, IInv, TypeOK, Without
<1>2. ASSUME NEW k \in Names, k # n
      PROVE  /\ mappingFile'[k] = mappingFile[k]
             /\ k \in DOMAIN mappings' <=> k \in DOMAIN mappings
             /\ k \in DOMAIN mappings => mappings'[k] = mappings[k]
  BY <1>2 DEF MInv, IInv, TypeOK, Without
<1>3. ASSUME NEW k \in UserNames \ (DOMAIN given' \cup stale') PROVE MappingSettled(k)'
  <2>1. CASE k = n
    BY <2>1, <1>1, CatalogAssumption DEF MappingSettled
  <2>2. CASE k # n
    <3>1. MappingSettled(k) /\ k \in Names
      BY DEF MInv, MappingsMatch, Running, CreatesMapping, UserNames
    <3> QED
      BY <3>1, <2>2, <1>2 DEF MappingSettled
  <2> QED
    BY <2>1, <2>2
<1>4. MappingsMatch' /\ NewMapping'
  BY <1>3 DEF MappingsMatch, NewMapping, CreatesMapping
<1>5. BrokenInv'
  BY <1>1, <1>2, CatalogAssumption DEF MInv, BrokenInv, BrokenTable, BrokenMapping
<1> QED
  BY <1>4, <1>5

LEMMA NextMInv == MInv /\ [Next]_vars => MInv'
<1> SUFFICES ASSUME MInv, [Next]_vars PROVE MappingsMatch' /\ NewMapping' /\ BrokenInv'
  BY NextIInv DEF MInv
<1>1. CASE UNCHANGED vars
  BY <1>1
  DEF vars, MInv, MappingsMatch, MappingSettled, NewMapping, CreatesMapping, Running, BrokenInv,
      BrokenTable, BrokenMapping
<1>2. CASE \E c \in CommandLines : Start(c)
  BY <1>2, StartMappings
<1>3. CASE \/ \E n \in Names : DropTable(n) \/ (\E s \in Schemas : OpenTableFile(n, s))
           \/ RefuseTable \/ WriteTable \/ StartFails \/ KeepItsMapping
  BY <1>3, TableMappings
<1>4. CASE \E n \in Names : \E m \in Mappings : OpenMappingFile(n, m)
  BY <1>4, OpenMappingFileMappings
<1>5. CASE \E n \in Names : DropMapping(n)
  BY <1>5, DropMappings DEF DropMapping
<1>6. CASE Stop
  BY <1>6, StopMappings
<1>7. CASE DropItsMapping
  BY <1>7, DropMappings DEF DropItsMapping, Finish, MInv, IInv, MappingInFlight
<1>8. CASE RefuseName \/ WriteMapping \/ AddMapping \/ ReadBackFails
  BY <1>8, RefuseNameMappings, WriteMappingMappings, AddMappingMappings, ReadBackFailsMappings
<1> QED
  BY <1>1, <1>2, <1>3, <1>4, <1>5, <1>6, <1>7, <1>8 DEF Next

THEOREM MappingInvariant == Spec => []MInv
  BY InitMInv, NextMInv, PTL DEF Spec

(* Between statements the mappings in memory are those in the directory,   *)
(* but for those given on the command line and those created twice.        *)
THEOREM MappingsTheorem == Spec => []MappingsAgree
<1>1. MInv => MappingsAgree
  BY DEF MInv, MappingsMatch, MappingSettled, Running, CreatesMapping, MappingsAgree
<1> QED
  BY <1>1, MappingInvariant, PTL

(* A broken file is that of the statement under way, or was left by one    *)
(* that was killed or could not write, by a CREATE TABLE of its name for   *)
(* which there is no text, or by a name that no mapping may have.          *)
THEOREM BrokenFilesTheorem == Spec => []BrokenFilesExplained
<1>1. MInv => BrokenFilesExplained
  BY DEF MInv, BrokenInv, BrokenTable, BrokenMapping, BrokenFilesExplained
<1> QED
  BY <1>1, MappingInvariant, PTL
-----------------------------------------------------------------------------
(***************************************************************************)
(* The thread pool.                                                        *)
(***************************************************************************)
Tasks == [id : Nat, kind : Kinds]

(* Callers and threads are where their functions have places, and there is *)
(* a thread exactly for each place of the vector.                          *)
Places ==
  /\ \A c \in Callers : at[c] \in {"idle", "spawn", "notify", "join", "push", "free", "gone"}
  /\ \A t \in Workers :
       at[t] \in {"none", "check", "doze", "asleep", "run", "notify", "join", "push", "ended"}
  /\ \A t \in Workers : at[t] = "none" <=> t > spawned

(* Who joins has joined all threads before the one that comes next.        *)
Joining ==
  /\ \A t \in joined : at[t] = "ended"
  /\ \A p \in Procs : at[p] = "notify" => next[p] = 1
  /\ \A p \in Procs : at[p] = "join" =>
       next[p] > 0 /\ \A k \in 1 .. spawned : k < next[p] => k \in joined

(* Where no start() met a stop(), one of them at most is under way, and    *)
(* _quit says which.                                                       *)
OneAtATime ==
  ~ overlapped =>
    /\ \A p, q \in Busy : p = q
    /\ \A p \in Procs : at[p] = "spawn" => ~ quit
    /\ \A p \in Procs : at[p] \in {"notify", "join"} => quit

(* A thread in a call runs a task that makes this call.                    *)
Began(kind) == \E k \in DOMAIN started : started[k].kind = kind
TasksRun ==
  \A t \in Workers :
    /\ at[t] = "run" => Began(task[t].kind)
    /\ at[t] \in {"notify", "join"} => Began("stop")
    /\ at[t] = "push" => Began("enqueue")

(* The destructor is alone among the callers, and the pool stays stopped.  *)
Destroying ==
  /\ closing => quit /\ \A c, d \in Callers : at[c] # "idle" /\ at[d] # "idle" => c = d
  /\ \A c \in Callers : at[c] \in {"free", "gone"} => closing

PoolIInv ==
  /\ PoolTypeOK /\ Places /\ Joining /\ OneAtATime /\ TasksRun /\ Destroying
  /\ PoolExplained
-----------------------------------------------------------------------------
LEMMA WorkersFacts ==
  /\ PoolSize * MaxStarts \in Nat
  /\ Workers \subseteq Nat /\ \A t \in Workers : t > 0 /\ t <= PoolSize * MaxStarts
  /\ Callers \cap Workers = {} /\ Procs = Callers \cup Workers
<1>1. PoolSize * MaxStarts \in Nat
  BY PoolAssumption
<1> QED
  BY <1>1, PoolAssumption DEF Workers, Procs

(* The threads of the vector are threads of the pool.                      *)
LEMMA SpawnedAreWorkers ==
  ASSUME PoolTypeOK
  PROVE  /\ 1 .. spawned \subseteq Workers /\ joined \subseteq Workers /\ spawned \in Nat
         /\ \A t \in Workers : t <= spawned => t \in 1 .. spawned
<1>1. PoolSize * MaxStarts \in Nat /\ spawned \in 0 .. PoolSize * MaxStarts
  BY WorkersFacts DEF PoolTypeOK
<1> QED
  BY <1>1 DEF PoolTypeOK, Workers

(* The task that is begun leaves the tasks and their order as they are.    *)
LEMMA BeginWaiting ==
  ASSUME NEW S, NEW s \in Seq(S), NEW q \in Seq(S), q # <<>>
  PROVE  /\ Head(q) \in S /\ Tail(q) \in Seq(S) /\ Append(s, Head(q)) \in Seq(S)
         /\ Append(s, Head(q)) \o Tail(q) = s \o q
<1>1. /\ Head(q) \in S /\ Tail(q) \in Seq(S) /\ Len(Tail(q)) = Len(q) - 1
      /\ \A i \in 1 .. Len(Tail(q)) : Tail(q)[i] = q[i + 1]
  BY HeadTailProperties
<1>2. Head(q) = q[1] /\ Len(q) \in Nat \ {0} /\ Len(s) \in Nat
  BY EmptySeq, LenProperties
<1>3. /\ Append(s, Head(q)) \in Seq(S) /\ Len(Append(s, Head(q))) = Len(s) + 1
      /\ \A i \in 1 .. Len(s) : Append(s, Head(q))[i] = s[i]
      /\ Append(s, Head(q))[Len(s) + 1] = Head(q)
  BY <1>1, AppendProperties
<1> DEFINE a == Append(s, Head(q))
           r == Tail(q)
<1>4. /\ a \o r \in Seq(S) /\ Len(a \o r) = Len(a) + Len(r)
      /\ \A i \in 1 .. Len(a) + Len(r) :
           (a \o r)[i] = IF i <= Len(a) THEN a[i] ELSE r[i - Len(a)]
  BY <1>1, <1>3, ConcatProperties
<1>5. /\ s \o q \in Seq(S) /\ Len(s \o q) = Len(s) + Len(q)
      /\ \A i \in 1 .. Len(s) + Len(q) :
           (s \o q)[i] = IF i <= Len(s) THEN s[i] ELSE q[i - Len(s)]
  BY ConcatProperties
<1>6. Len(a \o r) = Len(s \o q)
  BY <1>1, <1>2, <1>3, <1>4, <1>5
<1>7. ASSUME NEW i \in 1 .. Len(s \o q)
      PROVE  (a \o r)[i] = (s \o q)[i]
  <2>1. CASE i <= Len(s)
    BY <2>1, <1>2, <1>3, <1>4, <1>5, <1>6
  <2>2. CASE i = Len(s) + 1
    BY <2>2, <1>2, <1>3, <1>4, <1>5, <1>6
  <2>3. CASE i > Len(s) + 1
    <3>1. i - Len(a) \in 1 .. Len(r) /\ i - Len(a) + 1 = i - Len(s) /\ ~ i <= Len(a)
      BY <2>3, <1>1, <1>2, <1>3, <1>5
    <3> QED
      BY <3>1, <1>1, <1>2, <1>4, <1>5, <1>6, <2>3
  <2> QED
    BY <2>1, <2>2, <2>3, <1>2, <1>5
<1> QED
  BY <1>1, <1>3, <1>4, <1>5, <1>6, <1>7, SeqEqual

(* A task that is accepted comes after all others.                         *)
LEMMA AcceptWaiting ==
  ASSUME NEW S, NEW s \in Seq(S), NEW q \in Seq(S), NEW e \in S
  PROVE  /\ Append(q, e) \in Seq(S) /\ s \o q \in Seq(S)
         /\ s \o Append(q, e) = Append(s \o q, e)
<1>1. Append(q, e) = q \o <<e>> /\ <<e>> \in Seq(S) /\ s \o q \in Seq(S)
  BY AppendIsConcat, ConcatProperties
<1>2. Append(s \o q, e) = (s \o q) \o <<e>>
  BY <1>1, AppendIsConcat
<1>3. (s \o q) \o <<e>> = s \o (q \o <<e>>)
  BY <1>1, ConcatAssociative
<1> QED
  BY <1>1, <1>2, <1>3, AppendProperties
PlaceNames == {"idle", "spawn", "notify", "join", "push", "free", "gone", "none",
               "check", "doze", "asleep", "run", "ended"}

LEMMA AtType ==
  ASSUME PoolTypeOK
  PROVE  at \in [Procs -> PlaceNames] /\ Procs = Callers \cup Workers /\ Callers \cap Workers = {}
BY WorkersFacts DEF PoolTypeOK, PlaceNames
-----------------------------------------------------------------------------
LEMMA InitPoolIInv == PoolInit => PoolIInv
<1> SUFFICES ASSUME PoolInit PROVE PoolIInv
  OBVIOUS
<1> USE WorkersFacts DEF PoolInit
<1>1. <<>> \in Seq(Tasks) /\ <<>> \o <<>> = <<>> /\ Len(<<>>) = 0
  BY ConcatEmptySeq, EmptySeq
<1>a. taskQueue \in Seq(Tasks) /\ started \in Seq(Tasks)
  BY <1>1
<1>b. NoTask \in Tasks
  BY DEF NoTask, Tasks, Kinds
<1>c. task \in [Workers -> Tasks] /\ next \in [Procs -> Nat]
  BY <1>b
<1>d. at \in [Procs -> {"idle", "spawn", "notify", "join", "push", "free", "gone", "none",
                       "check", "doze", "asleep", "run", "ended"}]
  OBVIOUS
<1>e. /\ spawned \in 0 .. PoolSize * MaxStarts /\ starts \in 0 .. MaxStarts
      /\ joined \subseteq 1 .. spawned
  BY PoolAssumption
<1>2. PoolTypeOK
  BY <1>a, <1>c, <1>d, <1>e DEF PoolTypeOK, Tasks
<1>3. Places /\ Joining /\ TasksRun /\ Destroying
  BY DEF Places, Joining, TasksRun, Destroying
<1>4. OneAtATime
  BY DEF OneAtATime, Busy
<1>5. TasksKept
  BY <1>1 DEF TasksKept, Waiting
<1>6. StopWaits /\ PoolFaultsExplained
  BY DEF StopWaits, PoolFaultsExplained
<1> QED
  BY <1>2, <1>3, <1>4, <1>5, <1>6 DEF PoolIInv, PoolExplained

(* A fault with one of the known reasons changes nothing else.             *)
LEMMA FailsKeeps ==
  ASSUME PoolIInv, NEW how \in {"terminate", "race"}, Fails(how),
         how = "race" => overlapped,
         how = "terminate" => overlapped \/ \E k \in DOMAIN started : started[k].kind # "plain"
  PROVE  PoolIInv'
<1> USE DEF Fails, PoolIInv, PoolExplained
<1>1. PoolTypeOK'
  BY DEF PoolTypeOK
<1>2. (Places /\ Joining /\ TasksRun /\ Destroying)'
  BY DEF Places, Joining, TasksRun, Destroying, Began
<1>3. OneAtATime'
  BY DEF OneAtATime, Busy
<1>4. TasksKept' /\ StopWaits'
  BY DEF TasksKept, Waiting, StopWaits, Busy
<1>5. PoolFaultsExplained'
  BY DEF PoolFaultsExplained
<1> QED
  BY <1>1, <1>2, <1>3, <1>4, <1>5

(* A call of a task of some kind has a reason.                             *)
LEMMA BeganFails ==
  ASSUME NEW kind, kind # "plain", Began(kind)
  PROVE  \E k \in DOMAIN started : started[k].kind # "plain"
BY DEF Began

(* Whoever goes on within its function, and neither begins nor ends a call *)
(* that goes through the vector, disturbs nobody.                          *)
Quiet(p, there) ==
  /\ at[p] \notin {"none", "ended", "spawn", "notify", "join"}
  /\ p \in Callers => there \in {"idle", "push", "free", "gone"}
  /\ closing => at[p] # "idle"
  /\ p \in Workers => there \in {"check", "doze", "asleep", "run", "push", "ended"}
  /\ p \in Workers /\ there = "push" => Began("enqueue")
  /\ there \in {"free", "gone"} => closing
  /\ there # "run"

LEMMA MoveKeeps ==
  ASSUME PoolIInv, NEW p \in Procs, NEW there, Quiet(p, there), Move(p, there),
         UNCHANGED <<quit, taskQueue, spawned, joined, next, task, accepted, started, starts,
                     overlapped, closing, poolFault>>
  PROVE  PoolIInv'
<1> USE DEF PoolIInv, PoolExplained, Move, Quiet
<1>0. /\ at \in [Procs -> {"idle", "spawn", "notify", "join", "push", "free", "gone", "none",
                       "check", "doze", "asleep", "run", "ended"}]
      /\ Procs = Callers \cup Workers /\ Callers \cap Workers = {}
  BY WorkersFacts DEF PoolTypeOK
<1>1. PoolTypeOK'
  BY <1>0 DEF PoolTypeOK
<1>2. Places'
  BY <1>0 DEF Places
<1>3. Busy' = Busy
  BY <1>0 DEF Busy
<1>4. Joining'
  BY <1>0, SpawnedAreWorkers DEF Joining
<1>5. OneAtATime'
  BY <1>0, <1>3 DEF OneAtATime
<1>6. TasksRun'
  BY <1>0 DEF TasksRun, Began
<1>7. Destroying'
  BY <1>0 DEF Destroying
<1>8. TasksKept' /\ PoolFaultsExplained'
  BY DEF TasksKept, Waiting, PoolFaultsExplained
<1>9. StopWaits'
  BY <1>0, <1>3, SpawnedAreWorkers DEF StopWaits
<1> QED
  BY <1>1, <1>2, <1>4, <1>5, <1>6, <1>7, <1>8, <1>9
-----------------------------------------------------------------------------
(* start() meets nobody, or the history says so.                           *)
LEMMA BeginStartKeeps ==
  ASSUME PoolIInv, NEW c \in Callers, BeginStart(c)
  PROVE  PoolIInv'
<1> USE AtType DEF PoolIInv, PoolExplained, BeginStart, Move
<1>0. c \in Procs /\ at[c] = "idle" /\ ~ closing
  BY DEF MayCall
<1>a. starts' \in 0 .. MaxStarts /\ next' \in [Procs -> Nat] /\ overlapped' \in BOOLEAN
  BY <1>0, PoolAssumption DEF PoolTypeOK
<1>b. at' \in [Procs -> PlaceNames]
  BY <1>0 DEF PlaceNames
<1>1. PoolTypeOK'
  BY <1>a, <1>b DEF PoolTypeOK, PlaceNames
<1>2. Places' /\ Joining'
  BY <1>0, SpawnedAreWorkers DEF Places, Joining
<1>3. Busy' = Busy \cup {c}
  BY <1>0 DEF Busy
<1>4. OneAtATime'
  BY <1>0, <1>3 DEF OneAtATime, Busy
<1>5. TasksRun' /\ Destroying'
  BY <1>0 DEF TasksRun, Began, Destroying
<1>6. TasksKept' /\ StopWaits' /\ PoolFaultsExplained'
  BY DEF TasksKept, Waiting, StopWaits, PoolFaultsExplained
<1> QED
  BY <1>1, <1>2, <1>4, <1>5, <1>6

(* A thread is added while nobody else goes through the vector.            *)
LEMMA SpawnKeeps ==
  ASSUME PoolIInv, NEW c \in Procs, Spawn(c)
  PROVE  PoolIInv'
<1> USE AtType DEF PoolIInv, PoolExplained, Spawn
<1> DEFINE t == spawned + 1
<1>0. /\ c \in Callers /\ at[c] = "spawn" /\ t \in Workers /\ t \in Procs /\ t # c
      /\ at[t] = "none" /\ spawned \in Nat /\ t \in 0 .. PoolSize * MaxStarts
  <2>1. c \in Callers /\ t \in Workers
    BY DEF Places
  <2>2. spawned \in Nat
    BY SpawnedAreWorkers
  <2> QED
    BY <2>1, <2>2, WorkersFacts DEF Places
<1>1. \A p \in Procs : at'[p] = IF p = c THEN IF next[c] + 1 = PoolSize THEN "idle" ELSE "spawn"
                                ELSE IF p = t THEN "check" ELSE at[p]
  BY <1>0
<1>2. at' \in [Procs -> PlaceNames]
  BY <1>0 DEF PlaceNames
<1>3. PoolTypeOK'
  BY <1>0, <1>2 DEF PoolTypeOK, PlaceNames
<1>4. Places'
  <2>1. \A u \in Workers : u > t <=> u > spawned /\ u # t
    BY <1>0, WorkersFacts
  <2> QED
    BY <1>0, <1>1, <2>1 DEF Places
<1>5. Joining'
  <2>1. \A p \in Procs : at[p] # "join"
    BY <1>0 DEF Alone, Crowd
  <2> QED
    BY <1>0, <1>1, <2>1, SpawnedAreWorkers DEF Joining
<1>6. Busy' = Busy \/ Busy' = Busy \ {c}
  BY <1>0, <1>1 DEF Busy
<1>7. OneAtATime'
  BY <1>0, <1>1, <1>6 DEF OneAtATime
<1>8. TasksRun' /\ Destroying'
  BY <1>0, <1>1 DEF TasksRun, Began, Destroying
<1>9. TasksKept' /\ PoolFaultsExplained'
  BY DEF TasksKept, Waiting, PoolFaultsExplained
<1>10. StopWaits'
  BY <1>0 DEF StopWaits, OneAtATime
<1> QED
  BY <1>3, <1>4, <1>5, <1>7, <1>8, <1>9, <1>10

(* What a call of stop() that is not the second one does first.            *)
LEMMA StopRunningKeeps ==
  ASSUME PoolIInv, NEW p \in Procs, StopRunning(p),
         (at[p] = "idle" /\ p \in Callers) \/ (at[p] = "run" /\ p \in Workers /\ Began("stop")),
         closing' => \A c, d \in Callers : at'[c] # "idle" /\ at'[d] # "idle" => c = d,
         closing' \in BOOLEAN, closing => closing',
         UNCHANGED <<taskQueue, spawned, joined, task, accepted, started, starts, poolFault>>
  PROVE  PoolIInv'
<1> USE AtType DEF PoolIInv, PoolExplained, StopRunning, Move
<1>1. at' \in [Procs -> PlaceNames]
  BY DEF PlaceNames
<1>2. next' \in [Procs -> Nat] /\ overlapped' \in BOOLEAN /\ quit' \in BOOLEAN
  BY DEF PoolTypeOK
<1>3. PoolTypeOK'
  BY <1>1, <1>2 DEF PoolTypeOK, PlaceNames
<1>4. Places'
  BY DEF Places
<1>5. Joining'
  BY SpawnedAreWorkers DEF Joining, PoolTypeOK
<1>6. Busy' = Busy \cup {p}
  BY DEF Busy
<1>7. OneAtATime'
  BY <1>6 DEF OneAtATime, Busy
<1>8. TasksRun' /\ Destroying'
  BY DEF TasksRun, Began, Destroying
<1>9. TasksKept' /\ StopWaits' /\ PoolFaultsExplained'
  BY <1>6 DEF TasksKept, Waiting, StopWaits, PoolFaultsExplained
<1> QED
  BY <1>3, <1>4, <1>5, <1>7, <1>8, <1>9

LEMMA BeginStopKeeps ==
  ASSUME PoolIInv, NEW p \in Procs, BeginStop(p)
  PROVE  PoolIInv'
<1>1. \/ p \in Callers /\ at[p] = "idle" /\ ~ closing
      \/ p \in Workers /\ at[p] = "run" /\ task[p].kind = "stop"
  BY DEF BeginStop, MayCall
<1>2. (at[p] = "idle" /\ p \in Callers) \/ (at[p] = "run" /\ p \in Workers /\ Began("stop"))
  BY <1>1 DEF PoolIInv, TasksRun, Began
<1>3. ~ closing /\ closing' = closing
  BY DEF BeginStop, StopRunning, PoolIInv, Destroying
<1>4. closing' => \A c, d \in Callers : at'[c] # "idle" /\ at'[d] # "idle" => c = d
  BY <1>3
<1>5. closing' \in BOOLEAN /\ (closing => closing')
  BY <1>3 DEF PoolIInv, PoolTypeOK
<1>6. /\ UNCHANGED <<taskQueue, spawned, joined, task, accepted, started, starts, poolFault>>
      /\ StopRunning(p)
  BY DEF BeginStop
<1> QED
  BY <1>2, <1>4, <1>5, <1>6, StopRunningKeeps

LEMMA BeginDestroyKeeps ==
  ASSUME PoolIInv, NEW c \in Callers, BeginDestroy(c)
  PROVE  PoolIInv'
<1>0. c \in Procs /\ at[c] = "idle" /\ ~ closing /\ closing' /\ \A d \in Callers : at[d] = "idle"
  BY AtType DEF BeginDestroy, MayCall, PoolIInv
<1>1. closing' \in BOOLEAN /\ closing' = TRUE
  BY DEF BeginDestroy
<1>2. CASE StopRunning(c)
  <2>1. closing' => \A a, b \in Callers : at'[a] # "idle" /\ at'[b] # "idle" => a = b
    BY <1>0, <1>2, AtType DEF StopRunning, Move, PoolIInv
  <2>2. UNCHANGED <<taskQueue, spawned, joined, task, accepted, started, starts, poolFault>>
    BY DEF BeginDestroy
  <2>3. (at[c] = "idle" /\ c \in Callers) \/ (at[c] = "run" /\ c \in Workers /\ Began("stop"))
    BY <1>0
  <2>4. closing => closing'
    BY <1>0
  <2> QED
    BY <1>0, <1>1, <1>2, <2>1, <2>2, <2>3, <2>4, StopRunningKeeps
<1>3. CASE quit /\ Move(c, "free") /\ UNCHANGED <<quit, overlapped, next>>
  <2> USE <1>0, <1>1, <1>3, AtType DEF BeginDestroy, Move, PoolIInv, PoolExplained
  <2>1. at' \in [Procs -> PlaceNames]
    BY DEF PlaceNames
  <2>2. PoolTypeOK'
    BY <2>1 DEF PoolTypeOK, PlaceNames
  <2>3. Places' /\ Joining'
    BY SpawnedAreWorkers DEF Places, Joining
  <2>4. Busy' = Busy
    BY DEF Busy
  <2>5. OneAtATime'
    BY <2>4 DEF OneAtATime
  <2>6. TasksRun' /\ Destroying'
    BY DEF TasksRun, Began, Destroying
  <2>7. TasksKept' /\ PoolFaultsExplained'
    BY DEF TasksKept, Waiting, PoolFaultsExplained
  <2>8. StopWaits'
    BY <2>4, SpawnedAreWorkers DEF StopWaits
  <2> QED
    BY <2>2, <2>3, <2>5, <2>6, <2>7, <2>8
<1> QED
  BY <1>2, <1>3 DEF BeginDestroy

(* The threads that sleep wake up.                                         *)
LEMMA NotifyKeeps ==
  ASSUME PoolIInv, NEW p \in Procs, Notify(p)
  PROVE  PoolIInv'
<1> USE AtType DEF PoolIInv, PoolExplained, Notify, Asleep
<1>1. at' \in [Procs -> PlaceNames]
  BY DEF PlaceNames
<1>2. PoolTypeOK'
  BY <1>1 DEF PoolTypeOK, PlaceNames
<1>3. Places'
  BY DEF Places
<1>4. Joining'
  BY SpawnedAreWorkers DEF Joining
<1>5. Busy' = Busy
  BY DEF Busy
<1>6. OneAtATime'
  BY <1>5 DEF OneAtATime
<1>7. TasksRun' /\ Destroying'
  BY DEF TasksRun, Began, Destroying
<1>8. TasksKept' /\ PoolFaultsExplained'
  BY DEF TasksKept, Waiting, PoolFaultsExplained
<1>9. StopWaits'
  BY <1>5 DEF StopWaits, Busy
<1> QED
  BY <1>2, <1>3, <1>4, <1>6, <1>7, <1>8, <1>9

LEMMA JoinKeeps ==
  ASSUME PoolIInv, NEW p \in Procs, Join(p)
  PROVE  PoolIInv'
<1> USE AtType DEF PoolIInv, PoolExplained, Join
<1>0. /\ next[p] \in 1 .. spawned /\ at[next[p]] = "ended" /\ at[p] = "join"
      /\ next \in [Procs -> Nat] /\ spawned \in Nat
  BY SpawnedAreWorkers DEF Joining, PoolTypeOK
<1>a. next' = [next EXCEPT ![p] = next[p] + 1] /\ next' \in [Procs -> Nat]
  BY <1>0
<1>b. joined' \subseteq 1 .. spawned'
  BY <1>0 DEF PoolTypeOK
<1>1. PoolTypeOK'
  BY <1>a, <1>b DEF PoolTypeOK
<1>2. Places'
  BY DEF Places
<1>3. Joining'
  BY <1>0 DEF Joining
<1>4. OneAtATime' /\ TasksRun' /\ Destroying'
  BY DEF OneAtATime, Busy, TasksRun, Began, Destroying
<1>5. TasksKept' /\ PoolFaultsExplained'
  BY DEF TasksKept, Waiting, PoolFaultsExplained
<1>6. StopWaits'
  BY <1>0 DEF StopWaits, Busy
<1> QED
  BY <1>1, <1>2, <1>3, <1>4, <1>5, <1>6

(* All threads were joined, and it is a caller that waited for them.       *)
LEMMA EndStopKeeps ==
  ASSUME PoolIInv, NEW p \in Procs, EndStop(p)
  PROVE  PoolIInv'
<1> USE AtType DEF PoolIInv, PoolExplained, EndStop
<1>1. joined = 1 .. spawned /\ \A t \in joined : at[t] = "ended"
  <2>1. next[p] \in Nat /\ spawned \in Nat /\ joined \subseteq 1 .. spawned
    BY SpawnedAreWorkers DEF PoolTypeOK
  <2>2. \A k \in 1 .. spawned : k < next[p] => k \in joined
    BY DEF Joining
  <2>3. \A k \in 1 .. spawned : k < next[p]
    BY <2>1
  <2>4. \A t \in joined : at[t] = "ended"
    BY DEF Joining
  <2> QED
    BY <2>1, <2>2, <2>3, <2>4
<1>2. p \in Callers
  <2>1. ASSUME p \in Workers PROVE p \in joined
    BY <2>1, <1>1, SpawnedAreWorkers, WorkersFacts DEF Places
  <2> QED
    BY <2>1, <1>1
<1>3. at' = [at EXCEPT ![p] = IF closing THEN "free" ELSE "idle"]
  BY <1>2 DEF Return, Move, PoolTypeOK
<1>4. at' \in [Procs -> PlaceNames]
  BY <1>3 DEF PlaceNames
<1>5. PoolTypeOK'
  BY <1>4 DEF PoolTypeOK, PlaceNames
<1>6. Places' /\ Joining'
  BY <1>1, <1>2, <1>3, SpawnedAreWorkers DEF Places, Joining
<1>7. Busy' = Busy \ {p}
  BY <1>3 DEF Busy
<1>8. OneAtATime'
  BY <1>3, <1>7 DEF OneAtATime
<1>9. TasksRun' /\ Destroying'
  BY <1>2, <1>3 DEF TasksRun, Began, Destroying
<1>10. TasksKept' /\ PoolFaultsExplained'
  BY DEF TasksKept, Waiting, PoolFaultsExplained
<1>11. StopWaits'
  BY <1>1, <1>2, <1>3, SpawnedAreWorkers DEF StopWaits
<1> QED
  BY <1>5, <1>6, <1>8, <1>9, <1>10, <1>11

(* A task is accepted after all others, and may wake a thread.             *)
LEMMA PushTaskKeeps ==
  ASSUME PoolIInv, NEW p \in Procs, NEW kind \in Kinds, PushTask(p, kind)
  PROVE  PoolIInv'
<1> DEFINE task1 == [id |-> accepted + 1, kind |-> kind]
           back == IF p \in Workers THEN "check" ELSE "idle"
<1>0. /\ at \in [Procs -> PlaceNames] /\ Procs = Callers \cup Workers
      /\ Callers \cap Workers = {} /\ at[p] = "push"
  BY AtType DEF PoolIInv, PushTask
<1>1. /\ started \in Seq(Tasks) /\ taskQueue \in Seq(Tasks) /\ task1 \in Tasks
      /\ accepted \in Nat
  BY DEF PoolIInv, PoolTypeOK, Tasks
<1>2. taskQueue' = Append(taskQueue, task1) /\ accepted' = accepted + 1 /\ started' = started
  BY DEF PushTask
<1>3. taskQueue' \in Seq(Tasks) /\ Waiting \in Seq(Tasks) /\ Waiting' = Append(Waiting, task1)
  BY <1>1, <1>2, AcceptWaiting DEF Waiting
<1>4. PICK t \in Procs : /\ t = p \/ (t \in Workers /\ at[t] = "asleep")
                        /\ at' = [q \in Procs |-> IF q = p THEN back
                                                ELSE IF q = t THEN "check" ELSE at[q]]
  <2>1. CASE Asleep = {}
    <3>1. at' = [at EXCEPT ![p] = back]
      BY <2>1 DEF PushTask, Move
    <3> QED
      BY <1>0, <3>1
  <2>2. CASE Asleep # {}
    <3>1. PICK t \in Asleep : at' = [at EXCEPT ![p] = back, ![t] = "check"]
      BY <2>2 DEF PushTask
    <3>2. t \in Workers /\ t \in Procs /\ at[t] = "asleep" /\ t # p
      BY <1>0 DEF Asleep
    <3> QED
      BY <1>0, <3>1, <3>2
  <2> QED
    BY <2>1, <2>2
<1> HIDE DEF back, task1
<1>5. back \in {"check", "idle"} /\ (p \in Workers <=> back = "check")
  BY DEF back
<1>6. /\ UNCHANGED <<quit, spawned, joined, task, next, starts, overlapped, closing, poolFault>>
  BY DEF PushTask
<1>7. at' \in [Procs -> PlaceNames]
  BY <1>0, <1>4, <1>5 DEF PlaceNames
<1>8. PoolTypeOK'
  BY <1>1, <1>2, <1>3, <1>6, <1>7 DEF PoolIInv, PoolTypeOK, PlaceNames, Tasks
<1>9. Places'
  BY <1>0, <1>4, <1>5, <1>6 DEF PoolIInv, Places
<1>10. Joining'
  BY <1>0, <1>4, <1>5, <1>6, SpawnedAreWorkers DEF PoolIInv, Joining
<1>11. Busy' = Busy
  BY <1>0, <1>4, <1>5 DEF Busy
<1>12. OneAtATime'
  BY <1>0, <1>4, <1>5, <1>6, <1>11 DEF PoolIInv, OneAtATime
<1>13. TasksRun'
  BY <1>0, <1>2, <1>4, <1>5, <1>6 DEF PoolIInv, TasksRun, Began
<1>14. Destroying'
  BY <1>0, <1>4, <1>5, <1>6 DEF PoolIInv, Destroying
<1>15. TasksKept'
  <2>1. /\ Len(Waiting) = accepted /\ Len(Waiting') = accepted + 1
        /\ \A k \in 1 .. accepted : Waiting'[k] = Waiting[k] /\ Waiting[k].id = k
        /\ Waiting'[accepted + 1] = task1
    BY <1>1, <1>3, AppendProperties DEF PoolIInv, PoolExplained, TasksKept
  <2>2. task1.id = accepted + 1
    BY DEF task1
  <2> QED
    BY <1>1, <1>2, <2>1, <2>2 DEF TasksKept
<1>16. PoolFaultsExplained'
  BY <1>2, <1>6 DEF PoolIInv, PoolExplained, PoolFaultsExplained
<1>17. StopWaits'
  BY <1>0, <1>4, <1>6, <1>11, SpawnedAreWorkers DEF PoolIInv, PoolExplained, StopWaits
<1> QED
  BY <1>8, <1>9, <1>10, <1>12, <1>13, <1>14, <1>15, <1>16, <1>17 DEF PoolIInv, PoolExplained

(* The first of the tasks that wait is begun.                              *)
LEMMA TakeKeeps ==
  ASSUME PoolIInv, NEW t \in Workers, Take(t)
  PROVE  PoolIInv'
<1> DEFINE task1 == Head(taskQueue)
<1>0. /\ at \in [Procs -> PlaceNames] /\ Procs = Callers \cup Workers
      /\ Callers \cap Workers = {} /\ at[t] = "check" /\ at' = [at EXCEPT ![t] = "run"]
      /\ task' = [task EXCEPT ![t] = task1] /\ ~ quit
  BY AtType DEF PoolIInv, Take, Move
<1>1. /\ started \in Seq(Tasks) /\ taskQueue \in Seq(Tasks) /\ taskQueue # <<>>
      /\ task \in [Workers -> Tasks]
  BY DEF PoolIInv, PoolTypeOK, Tasks, Take
<1>2. taskQueue' = Tail(taskQueue) /\ started' = Append(started, task1)
  BY DEF Take
<1>3. /\ task1 \in Tasks /\ taskQueue' \in Seq(Tasks) /\ started' \in Seq(Tasks)
      /\ Waiting' = Waiting
  BY <1>1, <1>2, BeginWaiting DEF Waiting
<1>4. /\ UNCHANGED <<quit, spawned, joined, next, accepted, starts, overlapped, closing, poolFault>>
  BY DEF Take
<1>5. /\ Len(started) \in Nat /\ DOMAIN started = 1 .. Len(started)
      /\ DOMAIN started' = 1 .. Len(started) + 1 /\ started'[Len(started) + 1] = task1
      /\ \A k \in 1 .. Len(started) : started'[k] = started[k]
  <2>1. Len(started') = Len(started) + 1
    BY <1>1, <1>2, <1>3, AppendProperties
  <2> QED
    BY <1>1, <1>2, <1>3, <2>1, AppendProperties, LenProperties
<1> DEFINE BeganThen(kind) == \E k \in DOMAIN started' : started'[k].kind = kind
<1> HIDE DEF task1
<1>6. DOMAIN started \subseteq DOMAIN started' /\ Len(started) + 1 \in DOMAIN started'
  BY <1>5
<1>7. ASSUME NEW kind, Began(kind) PROVE BeganThen(kind)
  BY <1>5, <1>6, <1>7 DEF Began
<1>8. BeganThen(task1.kind)
  BY <1>5, <1>6
<1> HIDE DEF BeganThen
<1>9. PoolTypeOK'
  <2>1. at' \in [Procs -> PlaceNames] /\ task' \in [Workers -> Tasks]
    BY <1>0, <1>1, <1>3 DEF PlaceNames
  <2> QED
    BY <1>3, <1>4, <2>1 DEF PoolIInv, PoolTypeOK, PlaceNames, Tasks
<1>10. Places' /\ Joining'
  BY <1>0, <1>4, SpawnedAreWorkers DEF PoolIInv, Places, Joining
<1>11. Busy' = Busy
  BY <1>0 DEF Busy
<1>12. OneAtATime'
  BY <1>0, <1>4, <1>11 DEF PoolIInv, OneAtATime
<1>13. TasksRun'
  <2>1. ASSUME NEW u \in Workers
        PROVE  /\ at'[u] = "run" => BeganThen(task'[u].kind)
               /\ at'[u] \in {"notify", "join"} => BeganThen("stop")
               /\ at'[u] = "push" => BeganThen("enqueue")
    <3>1. CASE u = t
      BY <3>1, <1>0, <1>1, <1>8
    <3>2. CASE u # t
      <4>1. at'[u] = at[u] /\ task'[u] = task[u]
        BY <3>2, <1>0, <1>1
      <4>2. /\ at[u] = "run" => Began(task[u].kind)
            /\ at[u] \in {"notify", "join"} => Began("stop")
            /\ at[u] = "push" => Began("enqueue")
        BY DEF PoolIInv, TasksRun
      <4> QED
        BY <4>1, <4>2, <1>7
    <3> QED
      BY <3>1, <3>2
  <2> QED
    BY <2>1 DEF TasksRun, Began, BeganThen
<1>14. Destroying'
  BY <1>0, <1>4 DEF PoolIInv, Destroying
<1>15. TasksKept'
  BY <1>3, <1>4 DEF PoolIInv, PoolExplained, TasksKept
<1>16. PoolFaultsExplained'
  BY <1>4, <1>5, <1>6 DEF PoolIInv, PoolExplained, PoolFaultsExplained
<1>17. StopWaits'
  BY <1>0, <1>4 DEF StopWaits
<1> QED
  BY <1>9, <1>10, <1>12, <1>13, <1>14, <1>15, <1>16, <1>17 DEF PoolIInv, PoolExplained
-----------------------------------------------------------------------------
(* What a thread of the pool does on its own, or as its task.              *)
LEMMA WorkerKeeps ==
  ASSUME PoolIInv, NEW t \in Workers, Worker(t)
  PROVE  PoolIInv'
<1>0. /\ t \in Procs /\ t \notin Callers
      /\ at[t] = "run" => Began(task[t].kind)
      /\ at[t] \in {"notify", "join"} => Began("stop")
      /\ closing => quit
  BY AtType DEF PoolIInv, TasksRun, Destroying
<1>1. CASE Leave(t) \/ Doze(t) \/ Sleep(t) \/ TimeOut(t) \/ FinishTask(t)
  <2>1. PICK there \in {"check", "doze", "asleep", "ended"} :
          /\ at[t] \in {"check", "doze", "asleep", "run"} /\ Move(t, there)
          /\ UNCHANGED <<quit, taskQueue, spawned, joined, next, task, accepted, started, starts,
                         overlapped, closing, poolFault>>
    BY <1>1 DEF Leave, Doze, Sleep, TimeOut, FinishTask, Step
  <2>2. Quiet(t, there)
    BY <1>0, <2>1 DEF Quiet
  <2> QED
    BY <1>0, <2>1, <2>2, MoveKeeps
<1>2. CASE StopAtOnce(t)
  <2>1. /\ at[t] = "run" /\ Move(t, "check")
        /\ UNCHANGED <<quit, taskQueue, spawned, joined, next, task, accepted, started, starts,
                       overlapped, closing, poolFault>>
    BY <1>0, <1>2 DEF StopAtOnce, MayCall, Return
  <2>2. Quiet(t, "check")
    BY <1>0, <2>1 DEF Quiet
  <2> QED
    BY <1>0, <2>1, <2>2, MoveKeeps
<1>3. CASE BeginEnqueue(t)
  <2>1. /\ at[t] = "run" /\ task[t].kind = "enqueue" /\ Move(t, "push")
        /\ UNCHANGED <<quit, taskQueue, spawned, joined, next, task, accepted, started, starts,
                       overlapped, closing, poolFault>>
    BY <1>0, <1>3 DEF BeginEnqueue, MayCall
  <2>2. Quiet(t, "push")
    BY <1>0, <2>1 DEF Quiet, Began
  <2> QED
    BY <1>0, <2>1, <2>2, MoveKeeps
<1>4. CASE TaskThrows(t)
  <2>1. at[t] = "run" /\ task[t].kind = "throw" /\ Fails("terminate")
    BY <1>4 DEF TaskThrows
  <2>2. \E k \in DOMAIN started : started[k].kind # "plain"
    BY <1>0, <2>1 DEF Began
  <2> QED
    BY <2>1, <2>2, FailsKeeps
<1>5. CASE EnqueueThrows(t)
  <2>1. at[t] = "run" /\ task[t].kind = "enqueue" /\ Fails("terminate")
    BY <1>0, <1>5 DEF EnqueueThrows, MayCall
  <2>2. \E k \in DOMAIN started : started[k].kind # "plain"
    BY <1>0, <2>1 DEF Began
  <2> QED
    BY <2>1, <2>2, FailsKeeps
<1>6. CASE JoinItself(t)
  <2>1. Fails("terminate") /\ Began("stop")
    BY <1>0, <1>6 DEF JoinItself
  <2>2. \E k \in DOMAIN started : started[k].kind # "plain"
    BY <2>1, BeganFails
  <2> QED
    BY <2>1, <2>2, FailsKeeps
<1> QED
  BY <1>0, <1>1, <1>2, <1>3, <1>4, <1>5, <1>6, TakeKeeps, BeginStopKeeps DEF Worker

(* The rest of a call that has begun; who destroys the pool and did not    *)
(* wait for its threads met somebody who stops it.                         *)
LEMMA CallKeeps ==
  ASSUME PoolIInv, NEW p \in Procs, Call(p)
  PROVE  PoolIInv'
<1>1. CASE Free(p)
  <2>1. /\ at[p] = "free" /\ Move(p, "gone") /\ p \in Callers /\ closing
        /\ UNCHANGED <<quit, taskQueue, spawned, joined, next, task, accepted, started, starts,
                       overlapped, closing, poolFault>>
    BY <1>1, AtType DEF Free, PoolIInv, Places, Destroying
  <2>2. Quiet(p, "gone")
    BY <2>1, AtType DEF Quiet, PoolIInv
  <2> QED
    BY <2>1, <2>2, MoveKeeps
<1>2. CASE FreeRunning(p)
  <2>1. /\ at[p] = "free" /\ joined # 1 .. spawned /\ Fails("terminate")
        /\ p \in Callers /\ closing /\ quit
    BY <1>2, AtType DEF FreeRunning, PoolIInv, Places, Destroying
  <2>2. ASSUME ~ overlapped PROVE Began("stop")
    <3>1. PICK q \in Busy : TRUE
      BY <2>1, <2>2 DEF PoolIInv, PoolExplained, StopWaits
    <3>2. q \in Procs /\ at[q] \in {"spawn", "notify", "join"}
      BY DEF Busy
    <3>3. q \notin Callers
      BY <2>1, <3>2 DEF PoolIInv, Destroying
    <3>4. q \in Workers /\ at[q] \in {"notify", "join"}
      BY <3>2, <3>3, AtType DEF PoolIInv, Places
    <3> QED
      BY <3>4 DEF PoolIInv, TasksRun
  <2>3. overlapped \/ \E k \in DOMAIN started : started[k].kind # "plain"
    BY <2>2, BeganFails
  <2> QED
    BY <2>1, <2>3, FailsKeeps
<1> QED
  BY <1>1, <1>2, SpawnKeeps, NotifyKeeps, JoinKeeps, EndStopKeeps, PushTaskKeeps DEF Call

LEMMA CallerKeeps ==
  ASSUME PoolIInv, NEW c \in Callers, Caller(c)
  PROVE  PoolIInv'
<1>0. c \in Procs /\ c \notin Workers
  BY AtType DEF PoolIInv
<1>1. CASE BeginEnqueue(c)
  <2>1. /\ at[c] = "idle" /\ ~ closing /\ Move(c, "push")
        /\ UNCHANGED <<quit, taskQueue, spawned, joined, next, task, accepted, started, starts,
                       overlapped, closing, poolFault>>
    BY <1>0, <1>1 DEF BeginEnqueue, MayCall
  <2>2. Quiet(c, "push")
    BY <1>0, <2>1 DEF Quiet
  <2> QED
    BY <1>0, <2>1, <2>2, MoveKeeps
<1> QED
  BY <1>0, <1>1, BeginStartKeeps, BeginStopKeeps, BeginDestroyKeeps DEF Caller

(* Two who go through the vector at once are two who are busy.             *)
LEMMA RaceKeeps ==
  ASSUME PoolIInv, Race
  PROVE  PoolIInv'
<1>1. PICK p \in Crowd : ~ Alone(p)
  BY DEF Race
<1>2. PICK q \in Crowd : q # p
  BY <1>1 DEF Alone
<1>3. p \in Busy /\ q \in Busy
  BY DEF Crowd, Busy
<1>4. overlapped
  BY <1>2, <1>3 DEF PoolIInv, OneAtATime
<1> QED
  BY <1>4, FailsKeeps DEF Race

LEMMA NextKeeps == PoolIInv /\ [PoolNext]_poolVars => PoolIInv'
<1> SUFFICES ASSUME PoolIInv, [PoolNext]_poolVars PROVE PoolIInv'
  OBVIOUS
<1>1. CASE PoolNext
  BY <1>1, WorkerKeeps, CallKeeps, CallerKeeps, RaceKeeps DEF PoolNext
<1>2. CASE UNCHANGED poolVars
  BY <1>2 DEF poolVars, PoolIInv, PoolTypeOK, Places, Joining, OneAtATime, Busy, TasksRun, Began,
              Destroying, PoolExplained, TasksKept, Waiting, StopWaits, PoolFaultsExplained
<1> QED
  BY <1>1, <1>2
-----------------------------------------------------------------------------
(* Whatever callers and tasks do with the pool, every accepted task is     *)
(* begun at most once and in the order of acceptance, a stopped pool has   *)
(* no thread that runs unless a start() met a stop(), and the program ends *)
(* or races for no other reason than that or a task's own doing.           *)
THEOREM PoolExplainedHolds == PoolSpec => []PoolExplained
<1>1. PoolIInv => PoolExplained
  BY DEF PoolIInv
<1> QED
  BY InitPoolIInv, NextKeeps, <1>1, PTL DEF PoolSpec

(* The variables keep their types.                                         *)
THEOREM PoolTypes == PoolSpec => []PoolTypeOK
<1>1. PoolIInv => PoolTypeOK
  BY DEF PoolIInv
<1> QED
  BY InitPoolIInv, NextKeeps, <1>1, PTL DEF PoolSpec

-----------------------------------------------------------------------------
(* The signal handler.                                                     *)

(* removeHandler(): whoever else is in the list stays in it, and nobody    *)
(* comes in.                                                               *)
LEMMA RemovedSet ==
  ASSUME NEW list \in Seq(Handlers), NEW h
  PROVE  /\ Removed(list, h) \in Seq(Handlers)
         /\ ToSet(Removed(list, h)) \subseteq ToSet(list)
         /\ ToSet(list) \ {h} \subseteq ToSet(Removed(list, h))
<1> DEFINE stays == {k \in DOMAIN list : list[k] # h}
           UpTo(k) == {j \in stays : j <= k}
           Place(k) == Cardinality(UpTo(k))
           From(i) == IF \E k \in stays : Place(k) = i THEN CHOOSE k \in stays : Place(k) = i ELSE i
<1>1. DOMAIN list = 1 .. Len(list) /\ Len(list) \in Nat /\ \A k \in 1 .. Len(list) : list[k] \in Handlers
  OBVIOUS
<1>2. \A i \in 1 .. Len(list) : From(i) \in 1 .. Len(list)
  BY <1>1
<1>3. Removed(list, h) = [i \in 1 .. Len(list) |-> list[From(i)]]
  BY <1>1, Zenon DEF Removed
<1> HIDE DEF From
<1>4. Removed(list, h) \in Seq(Handlers)
  BY <1>1, <1>2, <1>3, SeqDef
<1>5. ToSet(Removed(list, h)) \subseteq ToSet(list)
  BY <1>1, <1>2, <1>3 DEF ToSet
<1>6. \A k \in stays : IsFiniteSet(UpTo(k)) /\ Place(k) \in 1 .. Len(list)
  <2> SUFFICES ASSUME NEW k \in stays PROVE IsFiniteSet(UpTo(k)) /\ Place(k) \in 1 .. Len(list)
    OBVIOUS
  <2>1. UpTo(k) \subseteq 1 .. Len(list) /\ k \in UpTo(k)
    BY <1>1
  <2>2. IsFiniteSet(1 .. Len(list)) /\ Cardinality(1 .. Len(list)) = Len(list)
    <3> DEFINE n == Len(list)
    <3>1. n \in Nat
      BY <1>1
    <3> HIDE DEF n
    <3>2. IsFiniteSet(1 .. n) /\ Cardinality(1 .. n) = n
      BY <3>1, FS_Interval
    <3> QED
      BY <3>2 DEF n
  <2>3. IsFiniteSet(UpTo(k)) /\ Cardinality(UpTo(k)) <= Len(list)
    BY <2>1, <2>2, FS_Subset
  <2>4. Cardinality(UpTo(k)) \in Nat /\ Cardinality(UpTo(k)) # 0
    BY <2>1, <2>3, FS_CardinalityType, FS_EmptySet
  <2> QED
    BY <1>1, <2>3, <2>4
<1>7. \A j, k \in stays : Place(j) = Place(k) => j = k
  <2>1. ASSUME NEW j \in stays, NEW k \in stays, j < k
        PROVE  Place(j) < Place(k)
    <3>1. UpTo(j) \subseteq UpTo(k) /\ k \in UpTo(k) /\ k \notin UpTo(j)
      BY <1>1, <2>1
    <3>2. UpTo(j) # UpTo(k)
      BY <3>1
    <3> HIDE DEF UpTo
    <3> QED
      BY <1>6, <3>1, <3>2, FS_Subset
  <2>2. \A j, k \in stays : j < k \/ k < j \/ j = k
    BY <1>1
  <2>3. \A k \in stays : Place(k) \in Nat
    <3>1. 1 .. Len(list) \subseteq Nat
      BY <1>1
    <3> HIDE DEF Place, stays, UpTo
    <3> QED
      BY <1>6, <3>1
  <2> HIDE DEF Place, stays
  <2> QED
    BY <2>1, <2>2, <2>3
<1>8. ASSUME NEW g \in ToSet(list) \ {h}
      PROVE  g \in ToSet(Removed(list, h))
  <2>1. PICK k \in stays : list[k] = g
    BY <1>8 DEF ToSet
  <2> HIDE DEF Place, stays
  <2>2. From(Place(k)) = k
    BY <1>7, <2>1 DEF From
  <2>3. Place(k) \in 1 .. Len(list)
    BY <1>6, <2>1
  <2>4. Removed(list, h)[Place(k)] = g /\ DOMAIN Removed(list, h) = 1 .. Len(list)
    BY <1>3, <2>1, <2>2, <2>3
  <2> QED
    BY <2>3, <2>4 DEF ToSet
<1> QED
  BY <1>4, <1>5, <1>8

(* Every handler in a list has a guard or was left there, and every        *)
(* handler that is still to be called had its guard removed during the     *)
(* calls, has it, or was left in the list.                                 *)
ListsExplained ==
  \A s \in Signals : \A h \in ToSet(handlerMap[s]) : <<s, h>> \in registered \cup left
CallsExplained ==
  listener = "call" =>
    \A h \in ToSet(toCall) : h \in missed \/ <<caught, h>> \in registered \cup left
FaultInCall ==
  handlerFault => listener = "call" /\ toCall # <<>> /\ Head(toCall) \notin alive

SignalIInv ==
  SignalTypeOK /\ GuardsHold /\ ListsExplained /\ CallsExplained /\ FaultInCall

LEMMA SetOfAppended ==
  ASSUME NEW list \in Seq(Handlers), NEW h \in Handlers
  PROVE  ToSet(Append(list, h)) = ToSet(list) \cup {h}
<1>1. /\ DOMAIN list = 1 .. Len(list) /\ Len(list) \in Nat
      /\ DOMAIN Append(list, h) = 1 .. Len(list) + 1
      /\ \A i \in 1 .. Len(list) : Append(list, h)[i] = list[i]
      /\ Append(list, h)[Len(list) + 1] = h
  OBVIOUS
<1> QED
  BY <1>1 DEF ToSet

LEMMA SetOfTail ==
  ASSUME NEW list \in Seq(Handlers), list # <<>>
  PROVE  ToSet(Tail(list)) \subseteq ToSet(list) /\ Head(list) \in ToSet(list)
<1>1. /\ DOMAIN list = 1 .. Len(list) /\ Len(list) \in Nat \ {0}
      /\ DOMAIN Tail(list) = 1 .. Len(list) - 1
      /\ \A i \in 1 .. Len(list) - 1 : Tail(list)[i] = list[i + 1]
      /\ Head(list) = list[1]
  OBVIOUS
<1> QED
  BY <1>1 DEF ToSet

LEMMA SetOfNone == ToSet(<<>>) = {}
  BY DEF ToSet

LEMMA InitSignals == SignalInit => SignalIInv
<1> SUFFICES ASSUME SignalInit PROVE SignalIInv
  OBVIOUS
<1>1. SignalTypeOK
  <2>1. stopping \in BOOLEAN /\ handlerFault \in BOOLEAN
    BY DEF SignalInit
  <2> QED
    BY <2>1, SignalAssumption DEF SignalInit, SignalTypeOK
<1>2. ListsExplained
  BY SetOfNone DEF SignalInit, ListsExplained
<1> QED
  BY <1>1, <1>2 DEF SignalInit, SignalIInv, GuardsHold, CallsExplained, FaultInCall

LEMMA AddHandlerSignals ==
  ASSUME SignalIInv, ~ handlerFault, NEW s \in Signals, NEW h \in Handlers, AddHandler(s, h)
  PROVE  SignalIInv'
<1> USE DEF SignalIInv, SignalTypeOK
<1>1. handlerMap[s] \in Seq(Handlers)
  OBVIOUS
<1>2. /\ handlerMap' \in [Signals -> Seq(Handlers)]
      /\ \A t \in Signals : t # s => handlerMap'[t] = handlerMap[t]
      /\ ToSet(handlerMap'[s]) = ToSet(handlerMap[s]) \cup {h}
  BY <1>1, SetOfAppended DEF AddHandler
<1>3. UNCHANGED <<stopping, pending, listener, caught, toCall, alive, left, missed, lifetime, handlerFault>>
      /\ registered' = registered \cup {<<s, h>>} /\ h \in alive
  BY DEF AddHandler
<1>4. SignalTypeOK'
  BY <1>2, <1>3
<1>5. GuardsHold'
  BY <1>2, <1>3 DEF GuardsHold
<1>6. ListsExplained'
  BY <1>2, <1>3 DEF ListsExplained
<1>7. CallsExplained'
  BY <1>3 DEF CallsExplained
<1> QED
  BY <1>3, <1>4, <1>5, <1>6, <1>7 DEF FaultInCall

LEMMA RemoveHandlerSignals ==
  ASSUME SignalIInv, ~ handlerFault, NEW s \in Signals, NEW h \in Handlers, RemoveHandler(s, h)
  PROVE  SignalIInv'
<1> USE DEF SignalIInv, SignalTypeOK
<1>1. handlerMap[s] \in Seq(Handlers)
  OBVIOUS
<1>2. /\ handlerMap' \in [Signals -> Seq(Handlers)]
      /\ \A t \in Signals : t # s => handlerMap'[t] = handlerMap[t]
      /\ ToSet(handlerMap'[s]) \subseteq ToSet(handlerMap[s])
      /\ ToSet(handlerMap[s]) \ {h} \subseteq ToSet(handlerMap'[s])
  BY <1>1, RemovedSet DEF RemoveHandler
<1>3. /\ UNCHANGED <<stopping, pending, listener, caught, toCall, alive, lifetime, handlerFault>>
      /\ registered' = registered \ {<<s, h>>}
      /\ left' = IF h \in ToSet(handlerMap'[s]) THEN left \cup {<<s, h>>} ELSE left
      /\ missed' = IF caught = s /\ h \in ToSet(toCall) THEN missed \cup {h} ELSE missed
  BY DEF RemoveHandler
<1>4. SignalTypeOK'
  BY <1>2, <1>3
<1>5. GuardsHold'
  <2> SUFFICES ASSUME NEW r \in registered' PROVE r[2] \in ToSet(handlerMap'[r[1]]) /\ r[2] \in alive'
    BY DEF GuardsHold
  <2>1. r \in registered /\ r # <<s, h>> /\ r = <<r[1], r[2]>> /\ r[1] \in Signals
    BY <1>3
  <2>2. r[2] \in ToSet(handlerMap[r[1]]) /\ r[2] \in alive
    BY <2>1 DEF GuardsHold
  <2>3. CASE r[1] = s
    BY <1>2, <1>3, <2>1, <2>2, <2>3
  <2>4. CASE r[1] # s
    BY <1>2, <1>3, <2>1, <2>2, <2>4
  <2> QED
    BY <2>3, <2>4
<1>6. ListsExplained'
  <2> SUFFICES ASSUME NEW t \in Signals, NEW g \in ToSet(handlerMap'[t])
               PROVE  <<t, g>> \in registered' \cup left'
    BY DEF ListsExplained
  <2>1. g \in ToSet(handlerMap[t])
    BY <1>2
  <2>2. <<t, g>> \in registered \cup left
    BY <2>1 DEF ListsExplained
  <2>3. <<t, g>> = <<s, h>> => <<s, h>> \in left'
    BY <1>3
  <2> QED
    BY <1>3, <2>2, <2>3
<1>7. CallsExplained'
  <2> SUFFICES ASSUME listener' = "call", NEW g \in ToSet(toCall')
               PROVE  g \in missed' \/ <<caught', g>> \in registered' \cup left'
    BY DEF CallsExplained
  <2>1. g \in missed \/ <<caught, g>> \in registered \cup left
    BY <1>3 DEF CallsExplained
  <2>2. caught = s /\ g = h => g \in missed'
    BY <1>3
  <2> QED
    BY <1>3, <2>1, <2>2
<1> QED
  BY <1>3, <1>4, <1>5, <1>6, <1>7 DEF FaultInCall

(* What the other threads do, and the thread that waits for the signals.   *)
LEMMA OtherSignals ==
  ASSUME SignalIInv, ~ handlerFault,
         \/ \E s \in Signals : Send(s) \/ Catch(s)
         \/ \E h \in Handlers : DestroyHandler(h)
         \/ Quit \/ Shutdown \/ LookAtQuit \/ EndCalls
  PROVE  SignalIInv'
<1> USE DEF SignalIInv
<1>1. UNCHANGED <<handlerMap, registered, left, missed, toCall, handlerFault>>
  BY DEF Send, Catch, DestroyHandler, Quit, Shutdown, Kill, JoinListener, LookAtQuit, EndCalls
<1>2. SignalTypeOK'
  BY SignalAssumption
  DEF SignalTypeOK, Send, Catch, DestroyHandler, Quit, Shutdown, Kill, JoinListener, LookAtQuit, EndCalls
<1>3. GuardsHold'
  <2>1. \A r \in registered : r = <<r[1], r[2]>> /\ r[1] \in Signals
    BY DEF SignalTypeOK
  <2>2. \A r \in registered : r[2] \in alive => r[2] \in alive'
    BY <2>1 DEF Send, Catch, DestroyHandler, Quit, Shutdown, Kill, JoinListener, LookAtQuit, EndCalls
  <2> QED
    BY <1>1, <2>2 DEF GuardsHold
<1>4. listener' = "call" => listener = "call" /\ caught' = caught
  BY DEF Send, Catch, DestroyHandler, Quit, Shutdown, Kill, JoinListener, LookAtQuit, EndCalls
<1> QED
  BY <1>1, <1>2, <1>3, <1>4 DEF ListsExplained, CallsExplained, FaultInCall

LEMMA CallingSignals ==
  ASSUME SignalIInv, ~ handlerFault, Intercept \/ OnSignal \/ OnSignalOfNone
  PROVE  SignalIInv'
<1> USE DEF SignalIInv
<1>1. UNCHANGED <<handlerMap, registered, left, stopping, pending, caught, alive, lifetime>>
  BY DEF Intercept, OnSignal, OnSignalOfNone
<1>2. GuardsHold' /\ ListsExplained'
  BY <1>1 DEF GuardsHold, ListsExplained
<1>3. CASE Intercept
  <2>1. handlerMap[caught] \in Seq(Handlers)
    BY DEF SignalTypeOK
  <2>2. SignalTypeOK'
    BY <1>1, <1>3, <2>1 DEF SignalTypeOK, Intercept
  <2>3. listener' = "call" => toCall' = handlerMap[caught]
    BY <1>3 DEF Intercept
  <2>4. CallsExplained'
    BY <1>1, <2>3 DEF CallsExplained, ListsExplained, SignalTypeOK
  <2> QED
    BY <1>2, <1>3, <2>2, <2>4 DEF FaultInCall, Intercept
<1>4. CASE OnSignal
  <2>1. toCall' \in Seq(Handlers) /\ ToSet(toCall') \subseteq ToSet(toCall)
    <3>1. toCall \in Seq(Handlers) /\ toCall # <<>>
      BY <1>4 DEF OnSignal, SignalTypeOK
    <3>2. CASE toCall' = Tail(toCall)
      BY <3>1, <3>2, SetOfTail
    <3>3. CASE toCall' = <<>>
      BY <3>3, SetOfNone
    <3> QED
      BY <1>4, <3>2, <3>3 DEF OnSignal
  <2>2. UNCHANGED <<listener, missed, handlerFault>>
    BY <1>4 DEF OnSignal
  <2>3. SignalTypeOK'
    BY <1>1, <2>1, <2>2 DEF SignalTypeOK
  <2>4. CallsExplained'
    BY <1>1, <2>1, <2>2 DEF CallsExplained
  <2> QED
    BY <1>2, <2>2, <2>3, <2>4 DEF FaultInCall
<1>5. CASE OnSignalOfNone
  BY <1>1, <1>2, <1>5 DEF OnSignalOfNone, FaultInCall, CallsExplained, SignalTypeOK
<1> QED
  BY <1>3, <1>4, <1>5

LEMMA SignalStep == SignalIInv /\ [SignalNext]_signalVars => SignalIInv'
<1> SUFFICES ASSUME SignalIInv, [SignalNext]_signalVars PROVE SignalIInv'
  OBVIOUS
<1>1. CASE UNCHANGED signalVars
  BY <1>1 DEF signalVars, SignalIInv, SignalTypeOK, GuardsHold, ListsExplained, CallsExplained, FaultInCall
<1>2. CASE SignalNext
  BY <1>2, AddHandlerSignals, RemoveHandlerSignals, OtherSignals, CallingSignals
  DEF SignalNext, Listener, Program
<1> QED
  BY <1>1, <1>2

(* What explains a call of a handler that is gone.                         *)
LEMMA SignalExplained == SignalIInv => HandlersExplained
<1> SUFFICES ASSUME SignalIInv PROVE HandlersExplained
  OBVIOUS
<1>1. ASSUME handlerFault
      PROVE  Head(toCall) \in missed \/ <<caught, Head(toCall)>> \in left
  <2>1. /\ listener = "call" /\ Head(toCall) \in ToSet(toCall) /\ Head(toCall) \notin alive
        /\ caught \in Signals
    BY <1>1, SetOfTail DEF SignalIInv, FaultInCall, SignalTypeOK
  <2>2. <<caught, Head(toCall)>> \notin registered
    BY <2>1 DEF SignalIInv, GuardsHold
  <2> QED
    BY <2>1, <2>2 DEF SignalIInv, CallsExplained
<1> QED
  BY <1>1 DEF SignalIInv, HandlersExplained, ListsExplained

(* A handler with a guard is in the list of its signal and exists, and a   *)
(* handler that does not exist is called only if its guard went away       *)
(* during the calls, or if removeHandler() left it in the list: for all    *)
(* handlers, signals and numbers of guards.                                *)
THEOREM HandlersTheorem == SignalSpec => []HandlersExplained
  BY InitSignals, SignalStep, SignalExplained, PTL DEF SignalSpec
=============================================================================
