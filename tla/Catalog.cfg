\* A system table, another name with the prefix SYSTEM_, a common name, and
\* one that no mapping may have.
SPECIFICATION Spec
CONSTANTS
  Names = {dual, system, people, t1}
  SystemNames = {dual, system}
  SystemTables = {dual}
  OddNames = {t1}
  Schemas = {plain, withCheck, withNumber}
  Mappings = {first, quoted}
  Unreadable = {withCheck, quoted}
  Unprintable = {withNumber}
  SystemSchema = oneColumn
  Absent = Absent
  Broken = Broken
INVARIANTS TablesAgree MappingsAgree BrokenFilesExplained
PROPERTY StoredSchemasKept
