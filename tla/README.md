# A verification model of xv8

xv8 is a reimagined Unix v8: a small kernel (`kernel/`), a set of command line
tools (`busybox/`) with a shell (`busybox/shell/`, "yash"), and the headers of
a C library (`include/`). The kernel is unfinished. Its file system is written;
the scheduler, the network and the mount code are empty files; locks, the disk
driver, `panic` and `current_task` are used and declared but defined nowhere.
There are no tests and no build files. These modules model the parts that have
behaviour of their own, check them with TLC and prove the most important
invariants with TLAPS.

## The system

### Kernel file system

Calls go down the list; every level has a static table and a lock of its own,
and every entry of a table has a use count and a lock.

| component | state | operations | calls |
|---|---|---|---|
| open files (`fs/open_close.c`) | `open_files`: count, inode, offset, flags per entry; `p_filp[]` of each process | `sys_open`, `sys_close`, `fget`, `fdget` | namei, iput |
| read and write (`fs/read_write.c`) | the offset of an entry | `sys_read`, `sys_write`, `sys_seek`, `baddr` | bread, brelease, balloc |
| stat (`fs/stat.c`) | none | `sys_stat`, `sys_fstat` | namei, iput, irelease |
| path lookup (`fs/namei.c`) | none | `namei`, `dir_lookup` | bread, brelease, iget |
| inode cache (`fs/inode.c`) | `icache`: number, record, count per slot | `iget`, `iput`, `irelease`, `ialloc`, `ifree` | bread, bwrite, brelease |
| buffer cache (`fs/block.c`) | `buffer`: block, dirty bit, count, contents per slot | `bread`, `bwrite`, `brelease`, `bget`, `balloc`, `bfree` | the disk driver |
| bitmaps (`fs/bitmap.c`) | none | `get_free_pos`, `set_pos`, `unset_pos` | |
| superblock (`fs/superblock.c`) | `mtable` | `sbread` | bread, brelease |
| memory (`mem/string.c`) | none | `memset` | |

Several processes run this code at once (`NR_CPU` is 4) and nothing but the
spinlocks keeps them apart. What is hard:

- the table locks cover the search of a table and the naming of an entry, not
  the use of the entry afterwards: `bread` tests and raises the count of a
  buffer after `bget` released the table (`block.c:24-28`);
- counts are read and written without a lock by processes that share an entry;
- a lock taken in one call is freed in another (`iput` and `irelease`) or not
  at all (`bwrite`, `iput` without `irelease`), so whether a process ever comes
  back depends on what the table code does to the lock in between;
- tables have a fixed size, and every one of them has a path on which an entry
  is never given back;
- a panic leaves whatever locks are held.

What makes each correct: a block has one buffer, an inode one slot, a file one
entry (`UniqueBlocks`, `UniqueInodes`, `UniqueFiles`); who was handed an entry
finds in it what he asked for until he gives it back (`HeldIsBlock`,
`StatIsTheFile`, `OpenKeepsInode`, `OpenKeepsFile`); counts are the number of users
(`CountIsUsers`); a read or a write works at the cursor and inside the block
(`CursorInHand`, `IndexInBlock`); and every call returns (`BreadReturns`,
`BwriteReturns`, `StatReturns`, `CloseReturns`, `TransferEnds`). Not all of
this is true: `HeldIsBlock`, `StatIsTheFile`, `OpenKeepsFile`, `CloseReturns`,
and, with two processes, `BwriteReturns` are violated by the code (see Runs).

### Shell and tools

| component | state | hard parts |
|---|---|---|
| environment (`shell/env.c`, `echo.c`) | two parallel arrays of 15 names and values | holes left by unset, the protected indices, the end of a listing |
| main loop (`shell/sh.c`, `time.c`, `include/shell.h`) | the line, its tokens, the status | a negative command index kept in an unsigned, the child that falls through a failed exec |
| line reader (`include/shell.h`) | two growing buffers | the size at the moment of growing, an allocation that fails |
| tree walkers (`chgrp.c`, `chmod.c`, `chown.c`, `du.c`, `find.c`, `rm.c`) | the working directory | an early return, or a failed chdir, and the way back up |
| copying (`cp.c`, `mv.c`, `ln.c`, `mkdir.c`) | the tree, the working directory | source and target the same or linked, one operand of several failing, a directory that is read while it is filled |
| stream tools (`cat.c`, `cksum.c`, `cmp.c`, `grep.c`, `head.c`, `nl.c`, `od.c`, `sum.c`, `tail.c`, `tr.c`, `wc.c`) | position in the input | boundaries: empty input, no final newline, the first line, chained translation |

What makes them right: the shell's own variables keep their places and what was
last set is found (`LoginVariablesStay`, `LastGivenIsFound`); one process reads
the input and one prompts again (`OneReader`, `SomebodyPrompts`); nothing is
stored behind a buffer (`LineFits`, `TokensFit`); a walk uses a name where it
was read and touches nothing it was not given (`NamesAreLocal`,
`WalkStaysBelow`, `OnlyTargetsChange`); success means that all was done
(`ChgrpIsComplete`, `CopiesArrive`), failure that nothing is lost
(`MvLosesNothing`); tools end (`WalkEnds`, `CommandsEnd`); and what is printed
is what the input says (`FiltersAreComplete`, `CmpFindsDifference`,
`SumTellsApart`, `HeadStopsAtLine`, `GrepFinds`). What the tools' own help texts
promise goes beyond that in seven places, and is false there (`ChgrpIsRecursive`,
`RmStaysBelow`, `SuccessIsCopied`, `NlPrintsLinesOnce`, `WcCountsBytes`,
`TrReplacesOnce`, `HeadPrintsLines`).

The rest (login and accounts, `ps`, `free`, stubs) prints tables or makes
single calls, and is listed in PROJECT.json with the reason it is left out.

## Modules

| module | models | extends |
|---|---|---|
| `BufferCache` | `block.c`, every step of bread, bget, bwrite, brelease | |
| `BufferUsers` | the callers of the buffer cache, as the closed system TLC runs | BufferCache |
| `BlockStore` | what a block cache promises | |
| `BufferIsStore` | the refinement mapping from BufferUsers to BlockStore | BufferUsers |
| `InodeCache` | `inode.c` iget, iput, irelease; `namei.c`; `sys_stat`; over the buffer cache | BufferCache |
| `MCInodeCache` | the layout of a small device | InodeCache |
| `CacheProofs` | inductive invariants and theorems of both caches, and that the buffer cache implements the store | BufferIsStore, InodeCache |
| `FileTable` | `open_close.c`, `stat.c`, and what they and namei do to the slots of the inode cache | |
| `MCFileTable` | the symmetry of its constants | FileTable |
| `FileProofs` | inductive invariants and theorems of the open files | FileTable |
| `ReadWrite` | `read_write.c`; `balloc`, `get_free_pos` as it calls it, `sbread` | |
| `MCReadWrite` | a file of two blocks | ReadWrite |
| `ReadWriteProofs` | inductive invariant and theorems of reading and writing | ReadWrite |
| `ShellEnv` | `env.c`, `init_env`, the search of `echo.c`, as operators on one environment | |
| `Shell` | main loop, built-in commands, fork, exec and wait: processes with an environment each | ShellEnv |
| `ShellProofs` | inductive invariant and theorems of the shell | Shell |
| `TreeWalk` | the recursive walks of `chgrp.c`, `chmod.c`, `chown.c`, `rm.c` (with -r), `du.c` and `find.c`, on trees with symbolic links | |
| `TreeProofs` | inductive invariants and theorems of the tree walkers | TreeWalk |
| `MCTreeWalk` | a small tree, and what the tools are called with | TreeWalk |
| `CopyMove` | `cp.c`, `mv.c`, `ln.c`, `mkdir.c`, one command after the other on one tree | |
| `MCCopyMove` | a small tree, and pairs of commands | CopyMove |
| `CopyProofs` | lemmas on path lookup, inductive invariants and theorems of the copying tools | CopyMove, Recursion |
| `LineReader` | `read_line` and `split_line` of `include/shell.h` in the loop of `sh.c` | |
| `TextTools` | eleven tools that read files to their end | |
| `MCTextTools` | short texts and operands for them, and the line reader beside them | TextTools, LineReader |
| `TextProofs` | the loops as folds, inductive invariants and theorems of the text tools and of the line reader | TextTools, LineReader, Recursion |
| `Recursion` | lemmas: induction on numbers, recursive functions, and the library's FoldLeft | |

### From code to model

*Processes and steps.* Each process has a program counter (`bpc`, `ipc`,
`fpc`), one label per place where another process can run in between with an
effect. Code that touches shared state once, or only under the lock that
guards it, is one action. `c++` and `c--` on a count that is not under a lock
are a load and a store with the value in a register (`reg`, `ireg`), so
updates can be lost, and wrap at 256 as a `u8_t` does. Under `open_files.sl`
they are one step. Registers are 0 when they are dead, which only keeps the
number of states down.

*Locks.* `acquire`, `release`, `initlock` and `holdingsleep` have no body. A
lock is its holder or `NoProc`: acquire waits for `NoProc`, release and
initlock make it `NoProc`, holdingsleep asks whether the caller is the holder.
This is what `locks.h:6` says of a spinlock. (The prototypes take the lock by
value, which no implementation could work with; the model takes the calls as
meant.) Waiting is an action that is not enabled.

*Tables.* A loop that stops at the first hit is a choice of the slot for which
`IsFirst` holds. A table is zeroed at start, as static data is; block 0 and
inode 0 are therefore the names of every unused entry, and the uniqueness
invariants leave them out.

*Data.* A block is a model value. The `f_inode` of an open file is a pointer to a
slot of the inode cache: in `FileTable` the slots have a number, a count and a
lock, and namei, step by step in `InodeCache`, is there one step that finds the
slot of a file or takes the first whose count is 0. The path "/" gives slot 0 as
it is: `InodeCache` has it, `FileTable` leaves it out. In `InodeCache` an inode in
memory is the pair of the block contents it was copied from and its number.
`iput` and `ifree` copy into a block what they like, so `Write` chooses any
contents. `disk_read` fills a buffer from the block it is named after at that
moment, `disk_write` stores it there: the pointer is all they are given.
`memset` in `bwrite` has two outcomes: the compiler's own, which zeroes the
block, and the kernel's (`mem/string.c:3-9`), whose loop on an unsigned never
ends, and which wipes ints from four blocks above the data downwards, the
buffers that follow among them, until it runs into memory that is not there:
the model stops at the call (`BwriteFault`) and says nothing of that time. Reading
`f_inode->i_num` through a null pointer (`open_close.c:101`) has two outcomes
too: a fault, or a number no inode has.

*Stopping.* `panic` sets `halted` and nothing moves any more, with the locks
as they are. Deadlock is therefore not checked in any run (the kernel may
stop, and a process that waits for a lock nobody frees is a behaviour of this
code); that a process in the kernel comes back is checked as a liveness
property instead.

*One device.* `b_dev` and `i_dev` are left out. What that hides: `bwrite`
unnames a buffer by two stores (`block.c:50-51`), between which a search on a
second device could see one without the other.

*Read and write.* One entry of the table with its cursor `f_off`, loaded and
stored without a lock; the bytes are left out, and `left` is `buffsize - count`.
What the code takes from variables nobody set has every outcome: the size
sys_read trims to, the permission both ask for (yes, a panic, a fault), the
buffer balloc returns when there is no list of free blocks (`listed`). Behind the addresses of an inode
are its times, so `Baddr` may be any block there. `f_flag & FREAD == 0` is
`f_flag & 0`, so the way a file was opened is never looked at.

*Shell.* One action is one command line, with the store of its status into the
value of `?` at the end of the loop's body (`StoreStatus`), which faults after
`env -u ?`. Names are strings, so that the shell's own are recognisable; values
are model values. What a command prints, the working directory and the search
in PATH are left open: a forked child may exec (`Exec`), fail to (`ExecFails`,
after which it is a shell reading the same input) or fault in `execvpe` on the
NULL of `find_cmd` (`ExecFault`). Null and wild pointers end the process, which
is what user memory without a page at 0 does. `select_cmd`'s -2 ends up in an
unsigned and indexes the table of functions 2^32 - 2 entries on.
`given` records what the user last gave a name; nothing in the code reads it.

*Tree walkers.* One action is one call of the system with the tests around it,
one process. The calls of the recursive function are frames on `stack`, with
the path it was called with, the directory it opened and the entries it has
yet to read. What a path leads to (`Resolve`) depends on the working
directory, which is all these tools go by. The calls of the system follow a
symbolic link (`Follow`), except remove and readdir, which take the link itself
(`Look`); so chown of an entry that is a link changes what it leads to. `unread`, `barred` and `stuck` are
the directories and files that refuse opendir, chdir, and chown or remove for
good; opendir refuses everything once `OpenMax` directories are open, which
nobody closes. A stat that fails leaves what `st` held, so the test behind it
may go either way. The six functions differ in a few lines, and the actions
say where: `ActChange` changes the entry in chgrp and the directory's path in
chmod and chown, `Walked` does not pass to the next operand in chown, `Found`
returns without changing back, and rm does not change directories.

*Copying.* Like the walkers, one call of the system to an action, but here the
tree itself changes: `fs.at` is what a name in a directory stands for, `fs.text`
what a file holds, named after the file that had it first, `fs.sym` where a
link leads. Paths are sequences of names and are looked up (`Place`) through
links and from the working directory, as each call does it, over `Steps` names
and links at most (`Leads` counts them, so that a link to itself leads nowhere).
Making a file, a
directory or a link takes a node that has no name yet. A script is two commands;
the second finds what the first left, half done or not. `unread`, `locked` and
`barred` are the nodes that refuse to be read, written (for a directory: to have
names made or taken in it) or entered. `Faulty` are the files on which fgetc,
fputc and fclose may fail: cp does not look, so its `Copy` goes on, and what has
arrived is the text, nothing, or a part of it (`Part`). What the code does is kept as it is:
`cp -r` makes no directory and puts all files it finds into the target by their
bare names, its value -1 ends the operand and not the command, `mkdir` makes a
directory with `-p` only and reads `/proc/<pid>/status` for a colon without a
look at the end of the file (`GetMask`), `ln` of two operands links the second
to the NULL behind them and fails.
`before` is the tree as the command found it; nothing in the code reads it.

*Line reader.* A character is a blank or a part of a word. `bufsiz` and `room`
are what was allocated, and a store at an index that is not below them is
recorded in `wild`. Behind the buffer is the heap; what such a store destroys
is left out. `buffsize` is split_line's own idea of the number of entries: realloc
is given it for bytes, so `room` is that divided by the size of a pointer.

*Text tools.* The loop of a tool is an operator on the text it reads, and the
module's actions are what its main program does with one operand: stat, open,
loop, print. `out` is what was printed, in bytes for the tools that print bytes
and in rows for those that print numbers. A loop is a `FoldLeft`
over the bytes, one round a step of the fold. The loops are translated and not
idealised: cmp counts bytes from 1 and lines from 0, head does not see an end
of line in front of everything, wc takes blanks for words, grep starts again
behind the byte that did not match, nl prints the last line twice, od counts 16
for eight bytes. What depends on memory nobody set (`Garbage`, a `getline` on a
pointer as it was allocated, an atoi of a variable that is not there) has every
outcome. `fscanf` and `getline` are external and modelled by what they read
(`Scanned`, `Lines`).

`block.c:151` reads `$(buffer.blocks[0])`, which does not compile; it is read
as `&`.

## Runs

| run | instance | checks | result |
|---|---|---|---|
| `buffer_concurrent` | 2 processes, 2 buffers, blocks 0-2, 2 calls each; callers may forget buffers | `TypeOK`, `UniqueBlocks`, `BreadReturns` | pass |
| `buffer_sequential` | 1 process, 2 buffers, 3 blocks, 4 calls, two contents | `IsBlockStore`, `BwriteReturns`, `PanicOnlyWhenFull` | pass |
| `buffer_race` | 2 processes, 2 buffers, 1 call each | `HeldIsBlock` | violated |
| `inode_concurrent` | 2 processes, 2 inode slots, 3 files, 2 buffers, 2 lookups each | `ITypeOK`, `UniqueInodes`, `StatReturns` | pass |
| `inode_stat` | 2 processes, 2 slots, 2 files | `StatIsTheFile` | violated |
| `file_table` | 2 processes, 2 entries, 2 descriptors each, 3 inodes in memory, 3 regular files and a directory, 4 paths | `TypeOK`, `UniqueFiles`, `CountIsUsers`, `OpenKeepsInode` | pass |
| `read_write` | 2 processes, 3 calls of up to 2 bytes, blocks of 2 bytes, 2 addresses | `TypeOK`, `IndexInBlock`, `CursorInHand`, `TransferEnds` | pass |
| `shell` | 10 slots (2 free), names PWD, SHELL, ?, A, B, two values, up to 3 processes, 5 lines | `TypeOK`, `LoginVariablesStay`, `LastGivenIsFound`, `OneReader`, `SomebodyPrompts` | pass |
| `file_close` | 1 process, 1 entry, 2 opens | `CloseReturns` | violated |
| `tree_walk` | 7 directories, 4 files, 2 links, 5 open at most, three calls, four nodes that may refuse | `TypeOK`, `NamesAreLocal`, `ChgrpIsComplete`, `WalkStaysBelow`, `WalkEnds` | pass |
| `copy_move` | 8 first and 22 second commands, 6 directories, 7 files, 3 open at most, a file and a directory that may refuse, a file to be read and one to be written that may fail half way | `TypeOK`, `CopiesArrive`, `OnlyTargetsChange`, `MvLosesNothing`, `CommandsEnd` | pass |
| `text_tools` | every tool on texts of up to 4 bytes (head 5, cmp 3 and 3, sum 3 and 9) of the bytes that matter to it, 8 lists of operands; lines of 9 characters, buffers of 3, 4 words | `TypeOK`, `FiltersAreComplete`, `CmpFindsDifference`, `SumTellsApart`, `HeadStopsAtLine`, `GrepFinds`, `LineFits`, `TokensFit` | pass |

Nine more configurations are kept as counterexamples, each of one property that
a comment or a help text promises and the code does not keep. TLC ends each with
the behaviour; `PROJECT.json` lists the three violations above only.

| configuration | module | violates | promised in |
|---|---|---|---|
| `BufferWriteBack.cfg` | BufferUsers | `BwriteReturns`, with two processes | `block.c:34` |
| `FileStat.cfg` | MCFileTable | `OpenKeepsFile` | `fs.h:120` |
| `TreeLink.cfg` | MCTreeWalk | `ChgrpIsRecursive` | `chgrp.c:103` |
| `TreeRm.cfg` | MCTreeWalk | `RmStaysBelow` | `rm.c:85`, `busybox/README:60` |
| `CopyErrors.cfg` | MCCopyMove | `SuccessIsCopied` | `cp.c:158` |
| `TextNl.cfg` | MCTextTools | `NlPrintsLinesOnce` | `nl.c:76` |
| `TextWc.cfg` | MCTextTools | `WcCountsBytes` | `wc.c:74`, `busybox/README:36` |
| `TextTr.cfg` | MCTextTools | `TrReplacesOnce` | `tr.c:68` |
| `TextHead.cfg` | MCTextTools | `HeadPrintsLines` | `head.c:68` |

What they show:

- *buffer_concurrent.* Two buffers and three blocks make the cache overflow,
  two processes with two calls each make a hit, a miss, a write-back, a wiped
  buffer and a lost update of a count meet in every order. One block never
  gets two buffers, and bread always returns unless the kernel stopped.
- *buffer_sequential.* One process sees the cache as a store of blocks
  (`BlockStore`): `Content` is a block's counted buffer, or the device. It
  holds although a dirty buffer keeps its lock and its dirty bit after bwrite,
  because the renaming in bget resets both. With two processes the mapping
  cannot hold, by the next run. brelease gives nothing back, because nobody
  holds the lock it asks for (`block.c:73`), and the panic of a full cache is
  the code's own answer; `PanicOnlyWhenFull` says that it comes with the first
  block too many and not before, because no buffer is ever counted twice, and
  that brelease's own panic does not come.
  `BwriteReturns` is a statement about one process too, by what follows.
- *buffer_race.* bread returns a buffer of another block: two processes miss
  at once and get the same unused buffer, because its count is raised only
  after the disk read (finding 1). The properties of two processes allow for
  the panic of a full cache.
- *BufferWriteBack.cfg.* A dirty buffer keeps its lock after bwrite, and two
  processes that got it, the second by a hit, write it back both: the second
  waits for a lock nobody frees. With one process bget makes the lock
  anew before that process can come to it again.
- *inode_concurrent.* icache.sl is held over a bread, the lock of an inode is
  taken by iput and freed by irelease: still every sys_stat returns, and an
  inode has one slot.
- *inode_stat.* A hit in iget does not raise the count, so a slot in use is
  given away (finding 2).
- *file_table.* As long as no process closes a descriptor twice, an entry's
  count is the number of descriptors open on it and being made (modulo 256, as
  a `u8_t` counts), one file has one entry, and an open descriptor keeps its
  entry and the entry its inode in memory, through the opens, closes and stats
  of others; and the inode stays that of the file until its count is 0.
  `Careless` names processes that do close twice; it is empty here, because then
  the count is wrong by the code (`sys_close` never clears `p_filp`).
- *FileStat.cfg.* The count of the inode does become 0 with the file open: sys_stat,
  and sys_fstat after a close of the same inode, lower it, and a hit in iget has
  not raised it. Then the next file that is looked up gets the slot, and the
  descriptor is one of that file. So `OpenKeepsInode` is what the code
  keeps, and `OpenKeepsFile` what it should.
- *file_close.* iput of a clean inode keeps the lock of the inode. sys_close
  calls it with open_files.sl held and nothing frees the lock, so the second
  last-close of one inode never returns (finding 3). sys_fstat's irelease is
  the only thing that frees it; the process need not call it.
- *read_write.* All who open a file share its cursor. Whatever they do to it,
  no byte is copied behind a block; a call that overlaps no other copies at the
  cursor, also where it passes from one block to the next; and calls return,
  except a write that fills a block once a superblock with a list of free blocks
  was read, because balloc never comes back then. Without a list balloc returns a
  pointer nobody set.
- *shell.* Set and unset leave holes and second slots in the table, yet the
  six login variables keep the index the shell reads them by, and the first
  slot of a name has the value it was last given, in the first shell and in the
  copies that failed execs leave. (A second slot of a name stays in the table
  when env -u empties the first, so a variable may still be there after it.) One
  process reads at a time, and whatever a command does somebody prompts again unless the first shell is gone.
- *tree_walk.* As long as chdir works, every walker but rm and find is where its
  names come from, whatever else fails; so chgrp -r that succeeds missed
  nothing below the operands it took in hand, and nothing is touched but what is
  below the operands and what the links there lead to: chown and chmod of an
  entry follow a link out of the tree (`chgrp.c:88`). Every walk ends, also
  one that, after a chdir that failed, opens the same directory again and again
  under its own name, and that of chown, whose main never moves on after a walk
  that succeeded (`chown.c:40-55`): directories are opened and never closed, in
  the end opendir fails, and the walk with it. chgrp -r never changes the operand
  itself, though its help says so. The properties leave out what is false:
  walks with a directory that cannot be entered, operands elsewhere than in the
  starting directory (the way back leads to *their* parent), and find after a
  hit.
- *tree_walk, rm.* rm -r opens and removes the entries of a directory by their
  bare names without ever changing into it (`rm.c:69-73`), so it removes their
  namesakes in the directory it was started in. That is what the second part of
  `WalkStaysBelow` says, and that it removes nothing else.
- *TreeLink.cfg.* An operand that has the group is passed over with its contents.
  With a link to it in an earlier operand it has been given the group by the time
  its turn comes, and what is below it keeps its group. `ChgrpIsComplete`
  leaves out operands that a link leads to.
- *TreeRm.cfg.* rm -r of a directory removes what it was not given, by the namesakes
  above.
- *copy_move.* When cp reports success, each file it was given, or that was below
  a directory it was given, has its name in the target and is still where it
  was, and its contents are there if no read, write or close failed: through
  every opendir, chdir and way back, with links and second names for the files. That is so if no two copies go to one file, and none to a file
  that is copied or into a directory that is walked (`Apart`): such copies end
  with an empty or mixed file, and success. It touches nothing but the
  targets of what it could open, also when it stops half way: the source is
  opened before the target is emptied. (`Due` counts a copy of a file that an
  earlier copy of the same command made.) mv stops at the first operand that
  fails and loses no file but by a name it was told to replace. The commands end,
  also cp -r of a directory into itself, which reads what it is writing: the
  directories it may have open run out. The properties leave out what is false:
  a target that is not absolute, or an operand elsewhere than in the starting
  directory, when a directory is copied, because cp changes its working directory
  (`Anchored`); directories that refuse to be opened or entered, after which cp
  goes on in the wrong one and still reports success; several operands of mv of
  which one is a link, so that the place of another changes when it is moved, or
  that go to one place, where the second replaces the first (`Orderly`); and
  mkdir on a status file that is shorter than it thinks. The cases of a chain of
  copies and of two operands with one last name came to light in the proofs, and
  the run has both now.
- *CopyErrors.cfg.* cp takes a read that fails for the end of the file and does not
  look at what fputc and fclose say, so it reports the copy of a part, or of
  nothing, as a success. What it does with names is as with a copy that
  arrived: the target of `cp -r` is flat, where `cp.c:136` and the list of things
  to correct in `busybox/README:46` mean a directory in it to be made.
- *text_tools.* Each tool's loop agrees with a definition that knows nothing of
  loops, on all short texts: at the ends of files, with and without a last end
  of line, with equal files and files that begin alike. nl's last line comes
  twice exactly if the text ends with the end of a line, and `FiltersAreComplete`
  says so. The properties leave out what is false: a translation whose result is
  in its own first set further on, texts for head that begin with an empty line,
  patterns that begin again inside a match (ab in aab is not found), an
  empty file in grep and nl, whose buffers nobody filled. Nothing is said of wc
  here, as its help text says more than is true. Beside the tools the
  shell reads lines: no character goes behind the line's buffer, and no word
  behind the other, up to the line that has as many words as there are entries:
  that one shrinks the buffer, to an eighth of twice its size.
- *TextNl.cfg, TextWc.cfg, TextTr.cfg, TextHead.cfg.* What the four help texts
  say and the loops do not: nl repeats the last line, wc counts as bytes those
  with a mark only, tr replaces what it has just put in, and head prints a line
  too many after an empty first one.

Bounds: `MaxCalls`, `MaxLookups` and `MaxPaths` (paths given to sys_open and
sys_stat, by all processes together) bound the calls a process
makes; nothing in the code depends on how many were made before except through
the tables, which two calls already fill. The tables have two entries, enough
for a hit, a miss with a free entry, a miss that takes an entry another one
had, and a full table. `MCFileTable` takes processes and regular files as
interchangeable; no liveness is checked in that run. `MaxLines` (command lines)
and `MaxShells` (nested processes) bound the shell: five lines fill the two
free slots and SHELL's, empty one, fill it with a name that has another slot,
and meet a full table; `Used` takes PWD, the last protected slot, for all six.
`MaxBytes` and `MaxCalls` bound the calls on a cursor: three calls, of two bytes
each or a seek to 3, bring it past both blocks, past the addresses and past
`NDIRECT`; with two addresses and `NDIRECT` 2, as with 8 and 9 in the code,
baddr lets an index through that has no address.
`Trouble` bounds the nodes of the tree that may refuse a call: a directory with
a directory in it, both, a file, and one with an entry of its own name. The
names in the tree repeat, so that a wrong directory has something to be
confused with, and the operands are given by name and by path; one link leads to
a later operand, one to a directory beside. `Faulty` is a file that is copied from
and one that is made. In `copy_move`
two commands are enough for the second to find links, second names, a file that
was moved away or a directory with the name; longer scripts repeat that.
`MaxLine` bounds the characters of a line: with buffers of 3, nine characters
grow it past the first growth several times, and five words pass the four
entries. The texts of `text_tools` have the bytes a loop tells apart (a letter of
the pattern, another one, a blank, an end of line); four of them make two lines
and what is before, between and behind; sum has a text that fills its 16 bits.
`MCTextTools` runs the line reader beside one tool only, as they share nothing.

Fairness: weak fairness of each process's steps inside the kernel (`Run`,
`IFairness`): a process on a CPU keeps executing, and a spinning one looks at
the lock again and again. It is never assumed that a process makes a call. In the shell, forked processes
run and programs end; nobody need type a line. A tool that walks a tree is one
process and runs until it exits (`WF_vars(Step)` in `CopyMove`, where the shell
need not start the next command). With
boundedly many calls a lock cannot be taken for ever by others, so weak
fairness is enough for acquire.

## Proofs

TLAPS proves, for every number of processes, buffers, slots, blocks and calls:

| theorem | module | says |
|---|---|---|
| `TypeCorrect` | CacheProofs | `Spec => []TypeOK` |
| `BlocksUnique` | CacheProofs | `Spec => []UniqueBlocks` |
| `PanicsOnlyWhenFull` | CacheProofs | one process, block 0 not asked for: `Spec => []PanicOnlyWhenFull` |
| `ImplementsBlockStore` | CacheProofs | one process, block 0 not asked for: `Spec => IsBlockStore` |
| `InodeTypes` | CacheProofs | `ISpec => []ITypeOK` |
| `InodesUnique` | CacheProofs | `ISpec => []UniqueInodes` |
| `BlocksUniqueBelow` | CacheProofs | `ISpec => []UniqueBlocks` |
| `FileTypes` | FileProofs | `Spec => []TypeOK` |
| `FilesUnique` | FileProofs | `Spec => []UniqueFiles` |
| `CountsUsers` | FileProofs | `Careless = {} => (Spec => []CountIsUsers)` |
| `InodeKept` | FileProofs | `Careless = {} /\ FewUsers => (Spec => OpenKeepsInode)` |
| `ReadWriteTypes` | ReadWriteProofs | `Spec => []TypeOK` |
| `IndexStaysInBlock` | ReadWriteProofs | `Spec => []IndexInBlock` |
| `CursorIsInHand` | ReadWriteProofs | `Spec => []CursorInHand` |
| `ShellTypes` | ShellProofs | `Spec => []TypeOK` |
| `LoginVariablesKept` | ShellProofs | `Spec => []LoginVariablesStay` |
| `LastGivenFound` | ShellProofs | `Spec => []LastGivenIsFound` |
| `ReadersAlternate` | ShellProofs | `Spec => []OneReader` |
| `TreeTypes` | TreeProofs | `Spec => []TypeOK` |
| `NamesStayLocal` | TreeProofs | `Spec => []NamesAreLocal` |
| `WalksStayBelow` | TreeProofs | `Spec => []WalkStaysBelow` |
| `ChgrpCompletes` | TreeProofs | `Spec => []ChgrpIsComplete` |
| `CopyTypes` | CopyProofs | `Spec => []TypeOK` |
| `MvLoses` | CopyProofs | `Spec => []MvLosesNothing` |
| `CpWrites` | CopyProofs | `Spec => []OnlyTargetsChange` |
| `CpArrives` | CopyProofs | `Spec => []CopiesArrive` |
| `TextTypes` | TextProofs | `Spec => []TypeOK` |
| `FiltersPass` | TextProofs | `Spec => []FiltersAreComplete` |
| `CmpFinds` | TextProofs | `Spec => []CmpFindsDifference` |
| `SumTells` | TextProofs | `Spec => []SumTellsApart` |
| `HeadStops` | TextProofs | `Spec => []HeadStopsAtLine` |
| `GrepFound` | TextProofs | `Spec => []GrepFinds` |
| `LinesFit` | TextProofs | `LSpec => []LineFits` |
| `FewTokensFit` | TextProofs | `LSpec => []TokensFit` |

`UniqueBlocks` is not inductive: a step of `BgetTake` names a buffer, and
nothing in the state before says the name is free. `BufInv` adds the two facts
the code relies on: a process between the search and the renaming owns
`buffer.sl` (`SearchesLocked`), and the name it is about to give is on no
buffer (`NameStillFree`). Others cannot disturb that: only the owner of the
lock renames, and `bwrite`, which unnames a buffer without the lock, makes
names vanish and never appear, except 0. `CacheProofs` proves that every step
of the cache keeps `BufInv` with nothing assumed of the callers, so
it serves the inode cache as well. That has the same
argument one level up, over the whole time of the bread inside iget.
The assumptions are those of the constants (`NR_BUF > 0`, `NoProc` is no
process, block 0 exists, ...), which TLC evaluates in every run.

That the cache implements a store needs to know what the only process has in
hand at each label (`InHand`): the buffer has the name that was asked for, is
counted once or not at all, and holds what the device does from the read to the
first change and from the write to the wiping. With it goes that no buffer is
counted twice or under the name 0 (`CountedOnce`), and that the lock of a buffer
with a name is free outside bwrite (`LocksFree`): bwrite keeps the lock of a
dirty buffer, but has taken its name away by then. So bwrite never waits and
brelease never finds the lock it asks for. From `SeqInv`, all of these together,
`ContentFacts` reads off what the contents of a block are, and each step is one
of the store (bread's last one `Get`, Write `Change`, the ways to let go `LetGo`)
or none: renaming takes an uncounted buffer, the first count comes with what the
device holds, and the last count goes when the device has it again. The theorems
leave block 0 out, which as the name of every unused buffer can get two.

The open files are proved in three layers. `UniqueFiles` is about the numbers of
the inodes that entries point to, and splits in two: no two entries point to one
slot (`IInv`, with the facts it rests on: whoever searches or changes the table
owns its lock, and the slot about to get an entry has none), and no two slots are
for one file (`NInv`, which namei keeps, as it takes a slot only for a file that
has none). `CInv` adds `CountIsUsers` and
what each process holds (`HandInv`): the entry in hand of an open is one it
counted or is about to count, the descriptor in hand of a close is still open,
an entry is cleared only at count 0. That needs `Careless = {}`; without it
`CountIsUsers` is false. `KInv` adds that an entry somebody uses points to a slot
(`EntryInv`), from which `OpenKeepsInode` follows step by step: only namei gives
slots another number, and only those whose count is 0. That needs
`FewUsers`, fewer than 256 processes and descriptors together: with 256 users
of one file the count wraps to 0, and fget and sys_close take an entry in use
for an empty one. The kernel's own limits (`NR_PROC`, `NR_OFILES`) do not
exclude that.

`IndexInBlock` and the types of `ReadWrite` are inductive together, with the
fact that a cursor on its way back to memory is not negative (`Counted`): the
index is at most the size of a block when the end is tested, and a block that
is full is left for one whose index is a remainder. `CursorInHand` rests on two
more facts: any two processes in a call have met (`Alone`), so that nobody else
moves the cursor of one that met nobody; and between the load and the store of
the cursor index and register are one ahead of it (`CursorOf`). The step is
division by a size that is not a number one knows: the next byte has the next
index and the same block unless this one was the last (`NextByte`, from the
uniqueness of quotient and remainder).

The shell's environment needs a fact about the search: it ends at the first
slot with the name or without one (`StopLemma`), which rests on every set of
naturals having a least element (`LeastMember`, from the library's
well-foundedness of strict inclusion). With it `Inv` is inductive command by
command: slots 0 to 6 always have their names, so a search for one of these
names stops there (`StopAtLogin`) and any other search stops behind them
(`StopFixed`), whence env -s cannot reuse them; env -u of `?` empties slot 6,
but the process does not survive the store that follows. `OneReader` follows
from `Chain`: a process that has a child, or a child's child, waits.

The line reader's `LInv` says that while a line is read there is room for one
character more (`RoomForOne`). read_line compares with `BUFF_SZ` where it means
`bufsiz`, and is safe because that makes it grow too often and never too late:
below `BUFF_SZ` characters the first buffer is large enough, from there on each
character brings `BUFF_SZ` entries. For the words `RoomForNull` says that as long
as no line has had `TOKENS` of them the first buffer is never left.

The tree walkers are proved about for every tree: nodes with a directory they
are in and a name there (`TreeAssumption`), no entry's name being a path to
another node (`NamesAssumption`), and symbolic links that lead to one node or
none (`LinksAssumption`). A tree needs no recursion: `Below` is the least
set that is closed under having one's directory in it. `NInv` says where the
walk is: the directory of each frame is the one below its frame's (`Chain`),
that of the last is in the starting directory if the operands are (`LocalOperands`),
and the working directory is the
innermost, or the next one out when a call came back well. That is why ".."
leads back and `NamesAreLocal` holds. It rests on `EInv`, what is in hand: an entry
of the frame's directory and its bare name, so that below the operand only
directories are entered and no link is. So nothing but the operands and nodes
below them is ever a frame's directory (`BInv`), which with `ReachClosed` is
`WalkStaysBelow` for the tools that change directories, what is changed being
what the entries lead to; for rm `RInv` says that
each frame's directory is an operand or one that a name where rm was started
leads to.
For `ChgrpIsComplete` the invariant says that there is a set `D` of nodes that
were changed after all that is below them was (`CInv`): the entries of a frame's
directory are in it, or in hand, or have yet to be read. When a frame has been
read to the end its directory's entries are all in `D`, and once main is through
`D` has what is below each operand.

The copying tools are proved about for every tree, script and depth, in four
steps. The first is the lookup of paths. `Leads` is a recursive function on the
number of steps, and tlapm has no induction over numbers with an operator; but
the set of the numbers for which a formula holds is a set, and `Induction` says
that a set that has 0 and with k has k + 1 is all of Nat (from the library's
least elements). `Iteration` makes of it that a function defined by what it was
one step before exists and unfolds. So one lookup step (`OnwardCases`) gives the
facts on whole lookups: they lead to one place at most (`OnePlace`), to the same
one when files are made (`SamePlaces`), to the same or to none when files are
moved away (`FewerPlaces`), and following the last link changes nothing if there
is none (`FinalPlace`).

`TInv` are the types, what is known where a command stands (`Labelled`: cp's
labels are cp's, an operand in hand is before the last, the stack is empty
between operands) and that a directory has one name (`OneName`, which mv and
mkdir keep and the way back needs). `MvInv` says of mv that the tree has the
files it had, each where it was or in a target of an operand before `arg`, and
no directory or link in a new place; with that `FewerPlaces` says that the operands still
lead where they led.

`CpInv` says of cp what the tree is (`Grown`: what was there and new files, each
with one name, in targets only), where the walk is (`Walk`: the directory of
each frame has a name in that of the next, the last in the starting directory,
all are below an operand, and the working directory is the innermost) and what
is in hand (`Hand`: an operand and its target, or a name in the working
directory and its own). With `SamePlaces` paths lead where they led before, a
last operand that begins with "/" from every directory, and ".." is the frame
below (`ParentIs`). So what is in hand is one of `Copies` (`HandCopies`), its
target one of the targets if the source could be opened, and only that is
written.

`ArriveInv` adds what is done: the operands before `arg` (`Served`), and of each
directory on the stack every name that was seen, unless it is in hand or the
directory of the frame above (`Walked`); a name that was there when cp began is
to be read. When a directory has been read to its end, all below it is done,
because `Reach` of a directory is itself and `Reach` of its directories
(`ReachParts`). A copy once done stays done: `Apart` keeps its source, and no
other copy has its target (`SourceKept`, `TargetsApart`). It is undone for a
moment when an operand is given twice, so `Done` leaves out the pair in hand.

The text tools are proved about for every text, every list of operands and
every parameter of `JobsAssumption`: texts are bytes, those of grep and nl
without the byte 0, because their lines are C strings, and the sets of tr are
ASCII, because it takes their characters as signed. A loop is a `FoldLeft`
with a rule of its own. The library defines that by a recursive function on the
sets of places, and its theorems take the rule as an operator, which no prover
here can instantiate; so `Recursion` says it of rules that are functions. The
recursive function exists (`FoldRuns`, from `FoldExists`, by `Induction` on the
places), whatever goes through the places by the same rule comes to the same
(`FoldIs`), and a fold goes on with what is appended (`FoldGoesOn`). For each
loop `TextProofs` has the rule (`SumStep`, `CmpStep`, `HeadStep`, ...), that the
operator of `TextTools` is its fold, and how that begins and goes on: from there
on a proof about a loop is an induction on the text, byte by byte (`OneMore`).

`Base` are the types, that every operand before `arg` could be opened, and that a
tool that ended well has handled them all. On it rest four invariants. `SumsSeen`: sum's rows are the sums of the operands before
`arg`. Different values of the checksum stay different under the same byte,
because the rotation and the addition lose nothing (`Rotation`, `SameRest`), and
different bytes make them different (`SumDiffers`). For cmp and head the
invariant of the loop is one of its fold: cmp's counters are at the first
difference or behind all that was compared, with the ends of lines in between
(`Compared`); head has counted the ends of lines of the text without its first
byte (which are those of the text, if that byte is none: `RestCount`), and the
byte it stops at was counted but not printed (`Headed`).
`Passed`: at every operand the output is the tool's image of all bytes read
before it (`Agrees`), where the images of two texts together are the image of
the one text they make (`ShownBoth`, `TrBoth`, `FlatLaws`). tr's loop over its
sets is the byte at the first mention as long as nothing is replaced twice
(`Replaced`).

grep compares two readings of one file, fscanf's lines with those of getline,
and these are not the same lines: fscanf takes away all white space behind a
line, so empty lines go, and those that begin with blanks lose them. `Aside` is
their lockstep, byte by byte: the line in hand has the same marks on both sides,
and is the same line if it does not begin with white space; and what matches of
the lines done on one side is `Enough` for those of the other. A line that
begins with the pattern matches (`MatchesPrefix`); the comparison may miss
others, but a pattern of one byte is found wherever it is (`MatchesByte`).

Only model-checked are the liveness properties (`BreadReturns`, `BwriteReturns`,
`StatReturns`, `TransferEnds`, `SomebodyPrompts`, `WalkEnds`, `CommandsEnd`):
fairness and ENABLED are out of the provers' reach. Every other property of a
passing run has a theorem. `BwriteReturns` is checked for one process, where it
holds, and violated for two. The properties of the counterexamples are false of
the code; nothing rests on them.

## Not modelled, and the plan

Out of reach or without behaviour: the empty files (scheduler, network, mount,
links, directories), headers, commands that print system tables, stubs.
`block()` and `ilock()` ask whether the caller holds the *table* lock, which no
caller does, so they take no lock. The write-back in iput never runs: nothing
sets `IDIRT`. sys_open returns EINPROGRESS rather than the descriptor, and
sys_close lets `fd == NR_OFILES` through; both are outside the state modelled.

ls reads one directory and prints from a pointer it never set; basename prints
nothing; tee and time are among the shell's commands. nl's help says that it
reads the input when it has no operands, which it does not (`nl.c:77`). Login
and the account files are left out: authentication is not a subject of these
models.

namei compares the '/' behind a component with the name in a directory
(`namei.c:21-23`, `46`), and skips a character after it: only entries stored
with their '/' are found. Nothing in the repository writes directories, so
`InodeCache` leaves open what they hold and what is found.

What comes next:

1. What the bytes of a write become: `ReadWrite` as a client of a store of
   blocks; set_pos and unset_pos, ialloc, ifree.
2. The search in PATH (`find_cmd`), with the blanks env_set puts into values,
   and the directories it leaves open.
3. cksum's code itself, bit by bit, beyond what it is computed from.
