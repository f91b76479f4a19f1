SPECIFICATION LiveSpec
CONSTANTS
    MAX_ENV = 10
    UserNames = {"A", "B"}
    Values = {u, v}
    Login = Login
    NULL = NULL
    Used = {"PWD", "SHELL", "?", "A", "B"}
    MaxShells = 3
    MaxLines = 5
INVARIANTS
    TypeOK
    LoginVariablesStay
    LastGivenIsFound
    OneReader
PROPERTIES
    SomebodyPrompts
CHECK_DEADLOCK FALSE
