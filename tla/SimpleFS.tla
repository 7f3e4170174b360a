-------------------------------- MODULE SimpleFS -------------------------------
(***************************************************************************)
(* SimpleFS of fs.rs below the open, mkdir and unlink calls: the inode     *)
(* table, directories as maps from names to inode numbers, files as lists  *)
(* of disk blocks.  The mutex of the inode table covers one step; a call   *)
(* that looks a path up and then adds or removes an entry takes it two or  *)
(* three times.  The block cache is what BlockCache shows it to be while   *)
(* the disk takes its write-backs: a block holds what was last put, or     *)
(* what a fresh disk holds.  write_data ends at a fetch that fails, and    *)
(* the model lets any fetch fail: read_block has an error in its type, but *)
(* as it stands retries instead of returning one.                          *)
(***************************************************************************)
EXTENDS Integers, Sequences, FiniteSets, FiniteSetsExt

CONSTANTS
    Threads,      \* the callers
    Paths,        \* the paths of the calls, sequences of names
    Bufs,         \* the buffers given to write_data
    BLOCK_SZ,     \* bytes in a block
    MaxIno,       \* bound on inode numbers
    MaxBlk,       \* bound on block numbers
    MaxPos        \* bound on file positions

ASSUME SimpleFSAssumption ==
    /\ BLOCK_SZ \in Nat \ {0}
    /\ MaxIno \in Nat /\ MaxBlk \in Nat /\ MaxPos \in Nat
    /\ Bufs \subseteq Seq(Nat) \ {<<>>}

VARIABLES
    inodes,     \* the table: inode number -> inode
    next_ino,   \* the next inode number
    next_blk,   \* the next block number
    store,      \* what the cache returns for each block
    pc,         \* where each thread is
    call,       \* the call of each thread and what its lookup returned
    written     \* history: the last byte written to each position of each file

vars == <<inodes, next_ino, next_blk, store, pc, call, written>>
dataVars == <<next_blk, store, written>>

Root == 0
MAX == MaxIno + 1                     \* usize::MAX: not found
Fresh == 0                            \* a byte of a block that was never put
Nothing == -1                         \* no byte was written there
Inos == Root .. MaxIno
Blks == 0 .. MaxBlk - 1
Positions == 0 .. MaxPos - 1
NoEntries == [n \in {} |-> 0]
Unwritten == [p \in Positions |-> Nothing]

NewInode(type) == [type |-> type, blocks |-> <<>>, size |-> 0, children |-> NoEntries]
NewFile == NewInode("file")
NewDir == NewInode("dir")
NoCall == [op |-> "none", dir |-> Root, name |-> {}, ino |-> MAX]

Init ==
    /\ inodes = [i \in {Root} |-> NewDir]
    /\ next_ino = 1
    /\ next_blk = 0
    /\ store = [b \in Blks |-> [o \in 1 .. BLOCK_SZ |-> Fresh]]
    /\ pc = [t \in Threads |-> "idle"]
    /\ call = [t \in Threads |-> NoCall]
    /\ written = [i \in Inos |-> Unwritten]

IsDir(i) == i \in DOMAIN inodes /\ inodes[i].type = "dir"
IsFile(i) == i \in DOMAIN inodes /\ inodes[i].type = "file"

--------------------------------------------------------------------------------
(* Paths and names *)

\* The inode that name stands for in directory i, MAX if there is none.
Child(i, name) ==
    IF name \in DOMAIN inodes[i].children THEN inodes[i].children[name] ELSE MAX

\* The directory that holds the last component; MAX when a component before it
\* is missing (enoent) or is no directory (enotdir).
ParentOf(path) ==
    LET reach[k \in 0 .. Len(path) - 1] ==
            IF k = 0 THEN Root
            ELSE IF IsDir(reach[k - 1]) THEN Child(reach[k - 1], path[k]) ELSE MAX
        last == reach[Len(path) - 1]
    IN  IF IsDir(last) THEN last ELSE MAX

\* A call ends, with success or with an error.
Done(t) ==
    /\ pc' = [pc EXCEPT ![t] = "idle"]
    /\ call' = [call EXCEPT ![t] = NoCall]

GoOn(t, to, c) ==
    /\ pc' = [pc EXCEPT ![t] = to]
    /\ call' = [call EXCEPT ![t] = c]

\* lookup, and what open, mkdir and unlink make of its answer: an entry is made
\* where the last component is missing, removed where it is there.  open with
\* O_CREAT goes on to truncate a file that exists only if O_TRUNC asks for it.
Lookup(t, op, path) ==
    LET dir == ParentOf(path)
        name == path[Len(path)]
        found == Child(dir, name)
        c == [op |-> op, dir |-> dir, name |-> name, ino |-> found]
    IN
    /\ pc[t] = "idle"
    /\ \/ dir = MAX /\ Done(t)
       \/ dir # MAX /\ found = MAX /\ op \in {"create", "mkdir"} /\ GoOn(t, "alloc", c)
       \/ dir # MAX /\ found = MAX /\ op = "unlink" /\ Done(t)
       \/ dir # MAX /\ found # MAX /\ op = "create" /\ GoOn(t, "truncate", c)
       \/ dir # MAX /\ found # MAX /\ op \in {"create", "mkdir"} /\ Done(t)
       \/ dir # MAX /\ found # MAX /\ op = "unlink" /\ GoOn(t, "remove", c)
    /\ UNCHANGED <<inodes, next_ino, dataVars>>

AllocIno(t) ==
    /\ pc[t] = "alloc" /\ next_ino <= MaxIno
    /\ next_ino' = next_ino + 1
    /\ GoOn(t, "add", [call[t] EXCEPT !.ino = next_ino])
    /\ UNCHANGED <<inodes, dataVars>>

SetChildren(dir, children) == inodes' = [inodes EXCEPT ![dir].children = children]

\* create_file and create_dir put the name in the directory first, in place of
\* whatever it stood for; only create_dir looks at that.
AddEntry(t) ==
    LET c == call[t]
        old == inodes[c.dir].children
    IN
    /\ pc[t] = "add"
    /\ IF ~IsDir(c.dir) \/ (c.op = "mkdir" /\ c.name \in DOMAIN old)
       THEN Done(t) /\ UNCHANGED inodes
       ELSE /\ GoOn(t, "insert", c)
            /\ SetChildren(c.dir, [n \in DOMAIN old \cup {c.name} |->
                                     IF n = c.name THEN c.ino ELSE old[n]])
    /\ UNCHANGED <<next_ino, dataVars>>

\* The inode goes into the table in a second critical section; open may then
\* truncate the file it has just created.
InsertInode(t) ==
    LET c == call[t] IN
    /\ pc[t] = "insert"
    /\ inodes' = [i \in DOMAIN inodes \cup {c.ino} |->
                     IF i = c.ino THEN (IF c.op = "mkdir" THEN NewDir ELSE NewFile)
                                  ELSE inodes[i]]
    /\ Done(t) \/ (c.op = "create" /\ GoOn(t, "truncate", c))
    /\ UNCHANGED <<next_ino, dataVars>>

\* Mutant: unlink takes the inode away before the name.
RemoveEntry_InodeFirst(t) ==
    LET c == call[t] IN
    /\ pc[t] = "remove"
    /\ IF IsDir(c.dir) /\ c.name \in DOMAIN inodes[c.dir].children
       THEN /\ GoOn(t, "drop", [c EXCEPT !.ino = Child(c.dir, c.name)])
            /\ inodes' = [i \in DOMAIN inodes \ {Child(c.dir, c.name)} |-> inodes[i]]
       ELSE Done(t) /\ UNCHANGED inodes
    /\ UNCHANGED <<next_ino, dataVars>>

\* unlink removes the name, whatever it stands for by now, and in a second
\* critical section the inode it stood for, be it a file or a directory.
RemoveEntry(t) ==
    LET c == call[t] IN
    /\ pc[t] = "remove"
    /\ IF IsDir(c.dir) /\ c.name \in DOMAIN inodes[c.dir].children
       THEN /\ GoOn(t, "drop", [c EXCEPT !.ino = Child(c.dir, c.name)])
            /\ SetChildren(c.dir, [n \in DOMAIN inodes[c.dir].children \ {c.name} |->
                                     inodes[c.dir].children[n]])
       ELSE Done(t) /\ UNCHANGED inodes
    /\ UNCHANGED <<next_ino, dataVars>>

RemoveInode(t) ==
    /\ pc[t] = "drop"
    /\ inodes' = [i \in DOMAIN inodes \ {call[t].ino} |-> inodes[i]]
    /\ Done(t)
    /\ written' = [written EXCEPT ![call[t].ino] = Unwritten]
    /\ UNCHANGED <<next_ino, next_blk, store>>

--------------------------------------------------------------------------------
(* File data *)

CeilDiv(n, d) == (n + d - 1) \div d
Forget(i, size) ==
    written' = [written EXCEPT ![i] = [p \in Positions |-> IF p < size THEN @[p] ELSE Nothing]]

\* Mutant: truncate gives the numbers of the dropped blocks back.
Truncated_Returned(i, size) ==
    LET f == inodes[i]
        keep == CeilDiv(size, BLOCK_SZ)
    IN
    /\ inodes' = [inodes EXCEPT ![i].blocks = SubSeq(@, 1, Min({keep, Len(@)})),
                                ![i].size = size]
    /\ next_blk' = IF keep < Len(f.blocks) THEN f.blocks[keep + 1] ELSE next_blk
    /\ Forget(i, size)

\* truncate drops the blocks past the new size and sets the size, which may be
\* larger than the blocks cover.
Truncated(i, size) ==
    LET keep == CeilDiv(size, BLOCK_SZ) IN
    /\ inodes' = [inodes EXCEPT ![i].blocks = SubSeq(@, 1, Min({keep, Len(@)})),
                                ![i].size = size]
    /\ Forget(i, size)
    /\ UNCHANGED next_blk

\* The truncation at the end of open.
TruncateOpened(t) ==
    /\ pc[t] = "truncate"
    /\ Done(t)
    /\ IF call[t].ino \in DOMAIN inodes
       THEN Truncated(call[t].ino, 0)
       ELSE UNCHANGED <<inodes, next_blk, written>>
    /\ UNCHANGED <<next_ino, store>>

\* truncate to any size, of a directory too: the code does not look at the type.
Truncate(i, size) ==
    /\ i \in DOMAIN inodes
    /\ Truncated(i, size)
    /\ UNCHANGED <<next_ino, store, pc, call>>

\* The first and the last block that an access to n bytes from offset touches,
\* and the part of block bi that belongs to it.
StartBlk(offset) == offset \div BLOCK_SZ
EndBlk(offset, n) == (offset + n - 1) \div BLOCK_SZ
BlkOff(bi, offset) == IF bi = StartBlk(offset) THEN offset % BLOCK_SZ ELSE 0
BlkEnd(bi, offset, n) ==
    IF bi = EndBlk(offset, n) THEN ((offset + n - 1) % BLOCK_SZ) + 1 ELSE BLOCK_SZ

\* Mutant: the size becomes the end of the write even inside the file.
Grown_Always(size, needed) == needed

Grown(size, needed) == Max({size, needed})

\* write_data makes the missing blocks up to the last one, then fetches, changes
\* and puts them one by one.  A fetch that fails ends it after done blocks: the
\* new blocks and what was put stay, the size does not follow.
WriteData(i, offset, buf, done) ==
    LET f == inodes[i]
        n == Len(buf)
        start_blk == StartBlk(offset)
        end_blk == EndBlk(offset, n)
        missing == Max({end_blk + 1 - Len(f.blocks), 0})
        blocks == f.blocks \o [k \in 1 .. missing |-> next_blk + k - 1]
        total[bi \in start_blk .. end_blk] ==
            IF bi = start_blk THEN 0
            ELSE total[bi - 1] + BlkEnd(bi - 1, offset, n) - BlkOff(bi - 1, offset)
        changed(bi) == [o \in 1 .. BLOCK_SZ |->
            IF BlkOff(bi, offset) < o /\ o <= BlkEnd(bi, offset, n)
            THEN buf[total[bi] + o - BlkOff(bi, offset)]
            ELSE store[blocks[bi + 1]][o]]
        put == start_blk .. start_blk + done - 1
        size == IF start_blk + done > end_blk THEN Grown(f.size, offset + n) ELSE f.size
        byte(p) == IF p \in offset .. offset + n - 1 /\ p \div BLOCK_SZ \in put
                      /\ (p < f.size \/ start_blk + done > end_blk)
                   THEN buf[p - offset + 1] ELSE written[i][p]
    IN
    /\ next_blk + missing <= MaxBlk
    /\ next_blk' = next_blk + missing
    /\ inodes' = [inodes EXCEPT ![i].blocks = blocks, ![i].size = size]
    /\ store' = [b \in Blks |-> IF \E bi \in put : blocks[bi + 1] = b
                               THEN changed(CHOOSE bi \in put : blocks[bi + 1] = b)
                               ELSE store[b]]
    /\ written' = [written EXCEPT ![i] = [p \in Positions |-> byte(p)]]
    /\ UNCHANGED <<next_ino, pc, call>>

\* What read_data returns: the parts of the blocks the range touches, up to the
\* first block the file does not have.
ReadData(i, offset, max_len) ==
    LET f == inodes[i]
        n == Min({max_len, f.size - offset})
        part(bi) == IF bi >= Len(f.blocks) THEN <<>>
                    ELSE SubSeq(store[f.blocks[bi + 1]],
                                BlkOff(bi, offset) + 1, BlkEnd(bi, offset, n))
        from[bi \in StartBlk(offset) .. EndBlk(offset, n) + 1] ==
            IF bi > EndBlk(offset, n) THEN <<>> ELSE part(bi) \o from[bi + 1]
    IN  IF offset >= f.size THEN <<>> ELSE from[StartBlk(offset)]

CallStep(t) ==
    \/ AllocIno(t) \/ AddEntry(t) \/ InsertInode(t)
    \/ RemoveEntry(t) \/ RemoveInode(t) \/ TruncateOpened(t)

Next ==
    \/ \E t \in Threads, op \in {"create", "mkdir", "unlink"}, path \in Paths :
          Lookup(t, op, path)
    \/ \E t \in Threads : CallStep(t)
    \/ \E i \in Inos, size \in 0 .. MaxPos : Truncate(i, size)
    \/ \E i \in Inos, offset \in Positions, buf \in Bufs, done \in 0 .. MaxPos :
          /\ IsFile(i)
          /\ offset + Len(buf) <= MaxPos
          /\ done <= EndBlk(offset, Len(buf)) - StartBlk(offset) + 1
          /\ WriteData(i, offset, buf, done)

Spec == Init /\ [][Next]_vars

--------------------------------------------------------------------------------
(* Properties *)

\* read_data returns, at each position that a write reached and no truncation
\* has cut since, the byte that write put there, and never more than was asked:
\* whatever the alignment, other files and holes, and should a fetch fail midway.
ReadBack ==
    \A i \in DOMAIN inodes : IsFile(i) =>
        \A offset \in Positions : \A max_len \in 1 .. MaxPos - offset :
            LET data == ReadData(i, offset, max_len) IN
            /\ Len(data) <= max_len
            /\ \A k \in 1 .. max_len :
                  written[i][offset + k - 1] # Nothing =>
                      k <= Len(data) /\ data[k] = written[i][offset + k - 1]

\* A block alloc_block gave out is in one place of one file: no two files, nor
\* two parts of one, lie over each other, whatever was truncated or unlinked.
BlocksOwned ==
    \A i, j \in DOMAIN inodes :
        \A x \in DOMAIN inodes[i].blocks, y \in DOMAIN inodes[j].blocks :
            inodes[i].blocks[x] = inodes[j].blocks[y] => i = j /\ x = y

\* A name in a directory leads to an inode of its own, or to one whose creator
\* is about to insert it: create_file and create_dir add the name before the
\* inode and unlink takes them away in the other order, with calls of other
\* threads in between.
NamesLead ==
    \A d, e \in DOMAIN inodes :
        \A m \in DOMAIN inodes[d].children, n \in DOMAIN inodes[e].children :
            /\ \/ Child(d, m) \in DOMAIN inodes
               \/ \E t \in Threads : pc[t] = "insert" /\ call[t].ino = Child(d, m)
            /\ Child(d, m) = Child(e, n) => d = e /\ m = n

================================================================================
