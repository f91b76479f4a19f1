----------------------------- MODULE LineReader -----------------------------
(***************************************************************************)
(* read_line and split_line of the shell (include/shell.h) in its loop     *)
(* (busybox/shell/sh.c): a line is read into a buffer and the addresses of *)
(* its words into another, and both grow while they are filled.            *)
(*                                                                         *)
(* A character is a blank or a part of a word.  Writing behind a buffer is *)
(* recorded in wild and changes nothing else.  most is not in the code:    *)
(* the most words a line has had.                                          *)
(***************************************************************************)
EXTENDS Integers

CONSTANTS
    BUFF_SZ,    \* characters the line's buffer grows by (shell.h:14)
    TOKENS,     \* entries the words' buffer grows by, 64
    POINTER,    \* bytes in an address
    MaxLine     \* bound: characters in a line

ASSUME SizesAssumption ==
    /\ BUFF_SZ \in Nat \ {0} /\ TOKENS \in Nat \ {0}
    /\ POINTER \in Nat \ {0} /\ MaxLine \in Nat

VARIABLES
    lpc,        \* what comes next
    i,          \* characters stored
    bufsiz,     \* characters allocated
    words,      \* words in what was read
    inword,     \* the last character was part of a word
    ntok,       \* words stored
    buffsize,   \* what the code takes for their number of entries
    room,       \* entries allocated
    wild,       \* the buffers written behind
    most

lineVars == <<i, bufsiz, words, inword>>
tokenVars == <<ntok, buffsize, room>>
lvars == <<lpc, lineVars, tokenVars, wild, most>>

LTypeOK ==
    /\ lpc \in {"prompt", "read", "split", "run"}
    /\ i \in Nat /\ bufsiz \in Nat /\ words \in Nat /\ inword \in BOOLEAN
    /\ ntok \in Nat /\ buffsize \in Nat /\ room \in Nat
    /\ wild \subseteq {"line", "tokens"}
    /\ most \in Nat

LInit ==
    /\ lpc = "prompt"
    /\ i = 0 /\ bufsiz = 0 /\ words = 0 /\ inword = FALSE
    /\ ntok = 0 /\ buffsize = 0 /\ room = 0
    /\ wild = {} /\ most = 0

LAt(label) == lpc = label

\* A store into entry n of a buffer of size entries.
Stores(buffer, n, size) ==
    wild' = IF n < size THEN wild ELSE wild \cup {buffer}

\* An allocation failed: the loop prompts again, what was read is lost, and the
\* rest of the line, if there is one, is read as the next.
NoMemory ==
    /\ lpc' = "prompt"
    /\ UNCHANGED <<lineVars, tokenVars, most>>

-----------------------------------------------------------------------------
(* read_line *)

Allocate ==
    /\ LAt("prompt")
    /\ lpc' = "read"
    /\ i' = 0 /\ bufsiz' = BUFF_SZ /\ words' = 0 /\ inword' = FALSE
    /\ ntok' = 0 /\ buffsize' = 0 /\ room' = 0
    /\ UNCHANGED <<wild, most>>

\* Mistake: the buffer grows when something was stored behind it.
GrownLate(n) == IF n > BUFF_SZ THEN bufsiz + BUFF_SZ ELSE bufsiz

\* From BUFF_SZ characters on the buffer grows with every character.
Grown(n) == IF n >= BUFF_SZ THEN bufsiz + BUFF_SZ ELSE bufsiz

Store(letter) ==
    /\ LAt("read") /\ i < MaxLine
    /\ Stores("line", i, bufsiz)
    /\ i' = i + 1
    /\ words' = IF letter /\ ~inword THEN words + 1 ELSE words
    /\ inword' = letter
    /\ bufsiz' = Grown(i + 1)
    /\ UNCHANGED <<lpc, tokenVars, most>>

StoreNoMemory ==
    /\ LAt("read") /\ i + 1 >= BUFF_SZ /\ i < MaxLine
    /\ Stores("line", i, bufsiz)
    /\ NoMemory

\* At the end of the line, or of the input, a 0 is stored, and split_line
\* allocates its first entries.
EndLine ==
    /\ LAt("read")
    /\ Stores("line", i, bufsiz)
    /\ lpc' = "split"
    /\ ntok' = 0 /\ buffsize' = TOKENS /\ room' = TOKENS
    /\ most' = IF words > most THEN words ELSE most
    /\ UNCHANGED lineVars

\* There are no first entries for split_line (shell.h:54-56).
EndLineNoMemory ==
    /\ LAt("read")
    /\ Stores("line", i, bufsiz)
    /\ NoMemory

-----------------------------------------------------------------------------
(* split_line *)

\* Mistake: room is made for the NULL as well, and the buffer smaller earlier.
FullEarly(n) == n >= buffsize - 1

Full(n) == n >= buffsize

\* strtok finds a word.  When the entries are used up, realloc is given their
\* new number for a number of bytes.
Token ==
    /\ LAt("split") /\ ntok < words
    /\ Stores("tokens", ntok, room)
    /\ ntok' = ntok + 1
    /\ IF Full(ntok + 1)
       THEN buffsize' = buffsize + TOKENS /\ room' = (buffsize + TOKENS) \div POINTER
       ELSE UNCHANGED <<buffsize, room>>
    /\ UNCHANGED <<lpc, lineVars, most>>

TokenNoMemory ==
    /\ LAt("split") /\ ntok < words /\ Full(ntok + 1)
    /\ Stores("tokens", ntok, room)
    /\ NoMemory

\* The NULL at the end.
EndTokens ==
    /\ LAt("split") /\ ntok = words
    /\ Stores("tokens", ntok, room)
    /\ lpc' = "run"
    /\ UNCHANGED <<lineVars, tokenVars, most>>

\* The command is run and both buffers are freed.
Command ==
    /\ LAt("run")
    /\ lpc' = "prompt"
    /\ UNCHANGED <<lineVars, tokenVars, wild, most>>

-----------------------------------------------------------------------------
LNext ==
    \/ Allocate \/ (\E letter \in BOOLEAN : Store(letter)) \/ StoreNoMemory
    \/ EndLine \/ EndLineNoMemory \/ Token \/ TokenNoMemory \/ EndTokens \/ Command

LSpec == LInit /\ [][LNext]_lvars

-----------------------------------------------------------------------------
\* However long the line, read_line stores no character and no final 0 behind
\* its buffer, whose size it compares with a constant and not with what it has
\* (shell.h:27-43).
LineFits == "line" \notin wild

\* split_line stores nothing behind its buffer as long as no line has had 64
\* words; with the 64th the buffer shrinks to 16 (shell.h:63-65).
TokensFit == "tokens" \in wild => most >= TOKENS
=============================================================================
