\* Two commands one after the other on a small tree, whatever fails.
CONSTANTS
    Root = "/"
    Start = "/t"
    Dirs <- DirsDef
    Files <- FilesDef
    Links = {"link"}
    Names <- NamesDef
    Nothing = "nothing"
    Empty = ""
    Part = "part"
    Tree <- TreeDef
    Scripts <- ScriptsDef
    OpenMax = 3
    Faulty = {"/t/b", "file2"}
    Steps = 8
    Trouble = {"/t/b", "/t/e/e"}
SPECIFICATION LiveSpec
INVARIANTS TypeOK CopiesArrive OnlyTargetsChange MvLosesNothing
PROPERTY CommandsEnd
CHECK_DEADLOCK FALSE
