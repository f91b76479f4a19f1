\* chgrp -r of a directory with a link to the next operand.
CONSTANTS
    Dirs <- DirsDef
    Plain <- PlainDef
    Links <- LinksDef
    Leads <- LeadsDef
    Up <- UpDef
    Name <- NameDef
    Start = "/t"
    Calls <- AnyCalls
    Wanted = "f"
    OpenMax = 5
    Tools = {"chgrp"}
    Trouble = {}
SPECIFICATION Spec
INVARIANT ChgrpIsRecursive
CHECK_DEADLOCK FALSE
