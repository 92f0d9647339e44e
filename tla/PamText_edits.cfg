\* Every text of up to four lines, any commands, one line inserted later.
SPECIFICATION Spec
CONSTANTS
  Typed <- SpacedLines
  MaxLines = 4
  MaxInserts = 1
INVARIANTS WellFormed EditsImplementStack
PROPERTIES OwnLinesKept MigrationOnlyLoosens
