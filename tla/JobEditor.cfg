\* Three edits and up to two saves in one tab.
CONSTANTS
  MaxEdits = 3
  MaxSaves = 2
SPECIFICATION Spec
PROPERTIES
  SavesLandInOrder
  EditsAreSaved
CHECK_DEADLOCK FALSE
