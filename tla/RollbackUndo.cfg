\* A rollback from the comparison, over text that is not saved yet
SPECIFICATION Spec
CONSTANT MaxEvents = 4
PROPERTY RollbackKeepsTheDraft
CHECK_DEADLOCK FALSE
