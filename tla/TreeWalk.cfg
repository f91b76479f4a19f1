\* Every tool on the tree with three sets of operands, whatever fails.
CONSTANTS
    Dirs <- DirsDef
    Plain <- PlainDef
    Links <- LinksDef
    Leads <- LeadsDef
    Up <- UpDef
    Name <- NameDef
    Start = "/t"
    Calls <- AnyCalls
    Wanted = "f"
    OpenMax = 5
    Tools = {"chgrp", "chmod", "chown", "rm", "du", "find"}
    Trouble = {"/t/a", "/t/a/b", "/t/a/f", "/t/c"}
SPECIFICATION LiveSpec
INVARIANTS TypeOK NamesAreLocal ChgrpIsComplete WalkStaysBelow
PROPERTY WalkEnds
CHECK_DEADLOCK FALSE
