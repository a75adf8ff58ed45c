------------------------------ MODULE Catalog ------------------------------
(***************************************************************************)
(* The catalog: class Database in memory, and its directory with one file  *)
(* for each table and one for the mapping of each table to csv files.      *)
(* Statements change both in several steps; the program can be stopped     *)
(* between any two, and reads the directory when it is started again.      *)
(*                                                                         *)
(* Not modelled: changes of the directory by others; a statement that is   *)
(* refused before its first step, which changes nothing.                   *)
(***************************************************************************)
EXTENDS FiniteSets

CONSTANTS
  Names,             (* of tables, in upper case as the parser makes them   *)
  SystemNames,       (* those that begin with SYSTEM_                       *)
  SystemTables,      (* those among them that the program itself defines    *)
  OddNames,          (* those not of letters and _ only                     *)
  Schemas, Mappings, (* what a table and a mapping may be                   *)
  Unreadable,        (* those whose text fromJson() does not accept         *)
  Unprintable,       (* tables for which asJson() throws: a DEFAULT that is *)
                     (* no string, a CHECK with UNKNOWN or IS NULL          *)
  SystemSchema,
  Absent, Broken     (* no file; a file that is empty or cut off            *)

ASSUME CatalogAssumption ==
  /\ SystemTables \subseteq SystemNames
  /\ SystemNames \cup OddNames \subseteq Names
  /\ SystemSchema \notin Schemas
  /\ {Absent, Broken} \cap (Schemas \cup Mappings) = {}
  /\ Absent # Broken

VARIABLES
  tableFile, mappingFile,  (* the directory: content of the file of a name  *)
  tables, mappings,        (* memory: functions from the names that have one*)
  given,                   (* the mappings on the command line              *)
  pc,                      (* "down", "failed" (to start), "idle" or the    *)
                           (* point that a statement has reached            *)
  statement,               (* the name and the value of CREATE, DROP        *)
  damage,                  (* what went wrong so far, for the properties    *)
  stale,                   (* names of mappings written over, likewise      *)
  refused                  (* names of tables that had no text, likewise    *)

disk == <<tableFile, mappingFile>>
memory == <<tables, mappings>>
vars == <<tableFile, mappingFile, tables, mappings, given, pc, statement, damage, stale,
          refused>>

Nothing == [n \in {} |-> n]
With(f, n, v) == [k \in DOMAIN f \cup {n} |-> IF k = n THEN v ELSE f[k]]
Without(f, n) == [k \in DOMAIN f \ {n} |-> f[k]]

UserNames == Names \ SystemNames
FileNames == Names \ SystemTables
NoStatement == [name |-> Absent, value |-> Absent]
Present(file) == {n \in Names : file[n] # Absent}
Readable(file) == \A n \in Present(file) : file[n] \notin Unreadable \cup {Broken}

(* --mapping takes a pattern and a table, whose name is checked.           *)
PartialFunctions(S, T) == UNION {[d -> T] : d \in SUBSET S}
CommandLines == PartialFunctions(Names \ OddNames, Mappings)
-----------------------------------------------------------------------------
Init ==
  /\ tableFile = [n \in Names |-> Absent] /\ mappingFile = [n \in Names |-> Absent]
  /\ tables = Nothing /\ mappings = Nothing /\ given = Nothing
  /\ pc = "down" /\ statement = NoStatement
  /\ damage = {} /\ stale = {} /\ refused = {}

(* mergeMapping(): a name that has a mapping keeps it.                     *)
Merged(m, file) ==
  [n \in DOMAIN m \cup Present(file) |-> IF n \in DOMAIN m THEN m[n] ELSE file[n]]

Start(commandLine) ==
  /\ pc = "down"
  /\ Readable(tableFile) /\ Readable(mappingFile)
  /\ tables' = [n \in Present(tableFile) \cup SystemTables |->
                  IF n \in SystemTables THEN SystemSchema ELSE tableFile[n]]
  /\ mappings' = Merged(commandLine, mappingFile)
  /\ given' = commandLine
  /\ stale' = {}
  /\ pc' = "idle"
  /\ UNCHANGED <<disk, statement, damage, refused>>

(* fromJson() throws and nothing catches it.                               *)
StartFails ==
  /\ pc \in {"down", "failed"}
  /\ ~ (Readable(tableFile) /\ Readable(mappingFile))
  /\ pc' = "failed"
  /\ UNCHANGED <<disk, memory, given, statement, damage, stale, refused>>

(* The program ends, in the midst of a statement if it is killed.          *)
Stop ==
  /\ pc \notin {"down", "failed"}
  /\ tables' = Nothing /\ mappings' = Nothing /\ given' = Nothing
  /\ statement' = NoStatement
  /\ damage' = IF pc = "idle" THEN damage ELSE damage \cup {"killed"}
  /\ pc' = "down"
  /\ UNCHANGED <<disk, stale, refused>>
-----------------------------------------------------------------------------
(* A statement begins at "idle" and ends there, with success or not.       *)
Begin(point, n, v) ==
  /\ pc = "idle"
  /\ statement' = [name |-> n, value |-> v]
  /\ pc' = point

Finish == pc' = "idle" /\ statement' = NoStatement

(* What could go wrong, for the runs that test the properties: hasTable()  *)
(* is not asked.                                                           *)
OpenAnyTableFile(n, s) ==
  /\ n \in FileNames
  /\ Begin("tableOpen", n, s)
  /\ tableFile' = [tableFile EXCEPT ![n] = Broken]
  /\ UNCHANGED <<mappingFile, memory, given, damage, stale, refused>>

(* CREATE TABLE, which no name is too good for: opening the stream makes   *)
(* an empty file, before there is a text to put there.                     *)
OpenTableFile(n, s) ==
  /\ n \notin DOMAIN tables
  /\ Begin("tableOpen", n, s)
  /\ tableFile' = [tableFile EXCEPT ![n] = Broken]
  /\ UNCHANGED <<mappingFile, memory, given, damage, stale, refused>>

(* What could go wrong, for the runs that test the properties: the         *)
(* statement is over before the text reaches the file.                     *)
WriteTableLater ==
  /\ pc = "tableOpen" /\ statement.value \notin Unprintable
  /\ tables' = With(tables, statement.name, statement.value)
  /\ Finish
  /\ UNCHANGED <<disk, mappings, given, damage, stale, refused>>

(* asJson(): "cannot cast to given type".  The statement fails, the file   *)
(* stays.                                                                  *)
RefuseTable ==
  /\ pc = "tableOpen" /\ statement.value \in Unprintable
  /\ refused' = refused \cup {statement.name}
  /\ Finish
  /\ UNCHANGED <<disk, memory, given, damage, stale>>

(* Whether the text was written is not asked, here and below.              *)
WriteTable ==
  /\ pc = "tableOpen" /\ statement.value \notin Unprintable
  /\ refused' = refused \ {statement.name}
  /\ tables' = With(tables, statement.name, statement.value)
  /\ Finish
  /\ \/ /\ tableFile' = [tableFile EXCEPT ![statement.name] = statement.value]
        /\ damage' = damage
     \/ /\ damage' = damage \cup {"write"}
        /\ UNCHANGED tableFile
  /\ UNCHANGED <<mappingFile, mappings, given, stale>>

(* What could go wrong, for the runs that test the properties: the table   *)
(* stays in memory.                                                        *)
ForgetToEraseTable(n) ==
  /\ n \in UserNames \cap DOMAIN tables
  /\ Begin("tableDropped", n, Absent)
  /\ tableFile' = [tableFile EXCEPT ![n] = Absent]
  /\ UNCHANGED <<mappingFile, memory, given, damage, stale, refused>>

(* DROP TABLE: the file, the entry in memory, and then the mapping.        *)
DropTable(n) ==
  /\ n \in UserNames \cap DOMAIN tables
  /\ Begin("tableDropped", n, Absent)
  /\ tableFile' = [tableFile EXCEPT ![n] = Absent]
  /\ tables' = Without(tables, n)
  /\ UNCHANGED <<mappingFile, mappings, given, damage, stale, refused>>

(* What could go wrong, for the runs that test the properties: the mapping *)
(* stays in memory.                                                        *)
DropItsFileOnly ==
  /\ pc = "tableDropped"
  /\ mappingFile' = [mappingFile EXCEPT ![statement.name] = Absent]
  /\ Finish
  /\ UNCHANGED <<tableFile, memory, given, damage, stale, refused>>

DropItsMapping ==
  /\ pc = "tableDropped"
  /\ mappingFile' = [mappingFile EXCEPT ![statement.name] = Absent]
  /\ mappings' = Without(mappings, statement.name)
  /\ Finish
  /\ UNCHANGED <<tableFile, tables, given, damage, stale, refused>>

(* "could not remove mapping file": the table stays dropped.               *)
KeepItsMapping ==
  /\ pc = "tableDropped"
  /\ mappingFile[statement.name] # Absent
  /\ Finish
  /\ UNCHANGED <<disk, memory, given, damage, stale, refused>>
-----------------------------------------------------------------------------
(* CREATE MAPPING, for a table that need not exist: the file is emptied    *)
(* before the text to put there is made.                                   *)
OpenMappingFile(n, m) ==
  /\ n \in UserNames
  /\ Begin("mappingOpen", n, m)
  /\ mappingFile' = [mappingFile EXCEPT ![n] = Broken]
  /\ stale' = IF n \in DOMAIN mappings THEN stale \cup {n} ELSE stale
  /\ UNCHANGED <<tableFile, memory, given, damage, refused>>

(* asJson(): "not a mapping expression".                                   *)
RefuseName ==
  /\ pc = "mappingOpen" /\ statement.name \in OddNames
  /\ damage' = damage \cup {"name"}
  /\ Finish
  /\ UNCHANGED <<disk, memory, given, stale, refused>>

WriteMapping ==
  /\ pc = "mappingOpen" /\ statement.name \notin OddNames
  /\ pc' = "mappingWritten"
  /\ \/ /\ mappingFile' = [mappingFile EXCEPT ![statement.name] = statement.value]
        /\ damage' = damage
     \/ /\ damage' = damage \cup {"write"}
        /\ UNCHANGED mappingFile
  /\ UNCHANGED <<tableFile, memory, given, statement, stale, refused>>

(* The file is read back.                                                  *)
AddMapping ==
  /\ pc = "mappingWritten" /\ mappingFile[statement.name] \notin Unreadable \cup {Broken}
  /\ mappings' = IF statement.name \in DOMAIN mappings THEN mappings
                 ELSE With(mappings, statement.name, mappingFile[statement.name])
  /\ Finish
  /\ UNCHANGED <<disk, tables, given, damage, stale, refused>>

ReadBackFails ==
  /\ pc = "mappingWritten" /\ mappingFile[statement.name] \in Unreadable \cup {Broken}
  /\ Finish
  /\ UNCHANGED <<disk, memory, given, damage, stale, refused>>

(* DROP MAPPING.                                                           *)
DropMapping(n) ==
  /\ pc = "idle" /\ n \in UserNames /\ mappingFile[n] # Absent
  /\ mappingFile' = [mappingFile EXCEPT ![n] = Absent]
  /\ mappings' = Without(mappings, n)
  /\ UNCHANGED <<tableFile, tables, given, pc, statement, damage, stale, refused>>

Next ==
  \/ \E c \in CommandLines : Start(c)
  \/ StartFails \/ Stop
  \/ \E n \in Names :
       \/ \E s \in Schemas : OpenTableFile(n, s)
       \/ \E m \in Mappings : OpenMappingFile(n, m)
       \/ DropTable(n) \/ DropMapping(n)
  \/ RefuseTable \/ WriteTable \/ DropItsMapping \/ KeepItsMapping
  \/ RefuseName \/ WriteMapping \/ AddMapping \/ ReadBackFails

Spec == Init /\ [][Next]_vars
-----------------------------------------------------------------------------
TypeOK ==
  /\ tableFile \in [Names -> Schemas \cup {Absent, Broken}]
  /\ mappingFile \in [Names -> Mappings \cup {Absent, Broken}]
  /\ tables \in PartialFunctions(Names, Schemas \cup {SystemSchema})
  /\ mappings \in PartialFunctions(Names, Mappings)
  /\ given \in CommandLines
  /\ pc \in {"down", "failed", "idle", "tableOpen", "tableDropped", "mappingOpen",
             "mappingWritten"}
  /\ statement \in [name : Names \cup {Absent}, value : Schemas \cup Mappings \cup {Absent}]
  /\ damage \subseteq {"killed", "write", "name"}
  /\ stale \subseteq Names /\ refused \subseteq FileNames

(* Between statements the tables in memory are those in the directory,     *)
(* with the same schemas, however statements ended and the program was     *)
(* stopped and started before.  Two kinds of broken files are left there:  *)
(* of a table whose text could not be written, and, without a table, of a  *)
(* CREATE TABLE whose text could not be made (table_executions.cpp:96-101),*)
(* until one of this name succeeds.                                        *)
TablesAgree ==
  pc = "idle" => \A n \in FileNames :
    /\ n \in DOMAIN tables <=> tableFile[n] # Absent /\ n \notin refused
    /\ n \in refused => tableFile[n] = Broken
    /\ n \in DOMAIN tables /\ tableFile[n] # tables[n] =>
         tableFile[n] = Broken /\ "write" \in damage

(* So are the mappings, except those of the command line, those created a  *)
(* second time and those whose statement failed.                           *)
MappingsAgree ==
  pc = "idle" => \A n \in UserNames \ (DOMAIN given \cup stale) :
    /\ n \in DOMAIN mappings => mappingFile[n] = mappings[n]
    /\ mappingFile[n] \in Mappings \ Unreadable => n \in DOMAIN mappings

(* A file that is not whole belongs to a statement that is under way, or   *)
(* was left by one that was cut off, could not write or had no text: a     *)
(* CREATE TABLE of this very name, or a CREATE MAPPING whose name is odd.  *)
BrokenFilesExplained ==
  \A n \in Names :
    /\ tableFile[n] = Broken =>
         \/ pc = "tableOpen" /\ statement.name = n
         \/ damage \cap {"killed", "write"} # {}
         \/ n \in refused
    /\ mappingFile[n] = Broken =>
         \/ pc \in {"mappingOpen", "mappingWritten"} /\ statement.name = n
         \/ damage \cap {"killed", "write"} # {}
         \/ "name" \in damage /\ n \in OddNames

(* Through failures, stops and restarts a schema that was stored leaves    *)
(* the directory only by a DROP of its table, is never written over, and   *)
(* comes there only as a whole and by a CREATE of a table that had none.   *)
StoredSchemasKept ==
  [][\A n \in Names : tableFile'[n] # tableFile[n] =>
       /\ tableFile[n] \in Schemas =>
            tableFile'[n] = Absent /\ pc' = "tableDropped" /\ statement'.name = n
       /\ tableFile'[n] \in Schemas =>
            /\ pc = "tableOpen" /\ statement = [name |-> n, value |-> tableFile'[n]]
            /\ n \notin DOMAIN tables]_vars
=============================================================================
