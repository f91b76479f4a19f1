\* rm -r where it was started, of a directory with namesakes there.
CONSTANTS
    Dirs <- DirsDef
    Plain <- PlainDef
    Links <- LinksDef
    Leads <- LeadsDef
    Up <- UpDef
    Name <- NameDef
    Start = "/t"
    Calls <- AnyCalls
    Wanted = "f"
    OpenMax = 5
    Tools = {"rm"}
    Trouble = {}
SPECIFICATION Spec
INVARIANT RmStaysBelow
CHECK_DEADLOCK FALSE
