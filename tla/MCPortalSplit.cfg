SPECIFICATION Spec
CONSTANTS
    HeaderUnits = 2
    BufferUnits = 20
    Forms <- MCForms
PROPERTY PostedFormAccepted
CHECK_DEADLOCK FALSE
