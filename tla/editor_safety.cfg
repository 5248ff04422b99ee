\* Three lists of up to two engines, up to three rows, one more name, two editors asked for at once.
CONSTANTS
  Lists <- SomeLists
  Names = {4}
  NewEngine = 3
  MaxPending = 2
  MaxRows = 3
SPECIFICATION EditorSpec
\* The editor is closed.
CHECK_DEADLOCK FALSE
CONSTRAINT NotHurried
INVARIANTS
  EditsLand
PROPERTIES
  SavesWhatIsMeant
  OneRowPerEngine
