\* What cp says it did, when a read, a write or a close fails.
CONSTANTS
    Root = "/"
    Start = "/t"
    Dirs <- DirsDef
    Files <- FilesDef
    Links = {"link"}
    Names <- NamesDef
    Nothing = "nothing"
    Empty = ""
    Part = "part"
    Tree <- TreeDef
    Scripts <- ScriptsDef
    OpenMax = 3
    Faulty = {"/t/b", "file2"}
    Steps = 8
    Trouble = {"/t/b", "/t/e/e"}
SPECIFICATION Spec
INVARIANT SuccessIsCopied
CHECK_DEADLOCK FALSE
