-------------------------------- MODULE Rfs --------------------------------
(***************************************************************************)
(* The RFS file system (src/fs/rfs.c): inodes, data blocks, directories    *)
(* and the open-file table.  Sizes are small units: a directory's size is  *)
(* its number of entries besides "." and "..", a file's the units written. *)
(* A directory has one block, a file any number (direct_blocks and the     *)
(* indirect ones).  create_file, remove_from_parent_dir, the inode and     *)
(* block allocators, check_permissions and write_inode_data have no body   *)
(* in the repository.  A link count is always 1: nothing makes a second    *)
(* link.  A behaviour ends when mkdir has written over the superblock:     *)
(* what is in block 0 then depends on who writes it back first.            *)
(***************************************************************************)
EXTENDS Integers, Sequences, SequencesExt, FiniteSets, FiniteSetsExt

CONSTANTS
    NumInodes,  \* inode_count; inode 1 is the root
    NumBlocks,  \* data blocks; block 0 is the superblock
    NumFiles,   \* MAX_OPEN_FILES
    Names,      \* the names of files and directories
    Paths,      \* the paths callers use, sequences of names; <<>> is "/"
    Flags,      \* the sets of open flags callers pass
    MaxSize     \* bound on the size of a file and on an offset

ASSUME RfsAssumption ==
    /\ NumInodes \in Nat \ {0} /\ NumBlocks \in Nat \ {0}
    /\ NumFiles \in Nat /\ MaxSize \in Nat
    /\ Paths \subseteq Seq(Names)
    /\ Flags \subseteq SUBSET {"WRONLY", "RDWR", "CREAT", "APPEND"}

\* Who uses a path uses the path of its directory.
PathsClosed == \A path \in Paths \ {<<>>} : Front(path) \in Paths \cup {<<>>}

Inodes == 1 .. NumInodes
Root   == 1
FileSlots == 0 .. (NumFiles - 1)
Types  == {"DIR", "FILE"}

VARIABLES
    inodeBitmap,    \* the inodes in use
    blockBitmap,    \* the data blocks in use
    inode,          \* inode_table: type, size and the first block (0: none)
    moreBlocks,     \* the other blocks of every inode
    entries,        \* the directory entries in every block, visible or left over
    file,           \* open_files: inode_num, flags and offset of every slot in use
    superblock      \* FALSE once block 0 has been written as a directory

treeVars == <<inodeBitmap, blockBitmap, inode, moreBlocks, entries, superblock>>
rfsVars  == <<treeVars, file>>

OpenSlots == DOMAIN file

-----------------------------------------------------------------------------
(* path_to_inode and find_in_directory.                                    *)

\* The entries of directory d that its size makes visible.
VisibleEntries(d) == SubSeq(entries[inode[d].block], 1, inode[d].size)

\* (Mutant of FindInDirectory: the whole block is searched.)
FindBeyondSize(d, name) ==
    IF d = 0 THEN 0
    ELSE LET es == entries[inode[d].block]
             hits == {k \in DOMAIN es : es[k].name = name}
         IN  IF inode[d].type = "DIR" /\ hits # {} THEN es[Min(hits)].inode ELSE 0

FindInDirectory(d, name) ==
    IF d = 0 THEN 0
    ELSE LET es == entries[inode[d].block]
             found(k) == es[k].name = name /\ \A j \in 1 .. (k - 1) : es[j].name # name
         IN  IF inode[d].type = "DIR" /\ \E k \in 1 .. inode[d].size : es[k].name = name
             THEN es[CHOOSE k \in 1 .. inode[d].size : found(k)].inode
             ELSE 0

PathToInode(path) ==
    LET reached[k \in 0 .. Len(path)] ==
            IF k = 0 THEN Root ELSE FindInDirectory(reached[k - 1], path[k])
    IN  reached[Len(path)]

-----------------------------------------------------------------------------
(* The external allocators and directory functions.                        *)

FirstFreeInode(i) == i \in Inodes \ inodeBitmap /\ \A j \in Inodes \ inodeBitmap : i <= j

FreeDataBlocks == (1 .. NumBlocks) \ blockBitmap

\* alloc_block: the lowest free data block, or 0.
FreeBlock == IF FreeDataBlocks = {} THEN 0 ELSE Min(FreeDataBlocks)

\* The blocks of an inode, which free_inode_blocks gives back.
BlocksOf(i) == ({inode[i].block} \ {0}) \cup moreBlocks[i]

\* create_file can put a new entry into the directory that is to hold path.
CanCreate(path) ==
    LET d == PathToInode(Front(path)) IN
    /\ path # <<>> /\ PathToInode(path) = 0
    /\ d # 0 /\ inode[d].type = "DIR"

\* The entry for inode i behind the last visible one of the parent of path.
WithEntry(path, i) ==
    LET d == PathToInode(Front(path)) IN
    [entries EXCEPT ![inode[d].block] =
        Append(VisibleEntries(d), [name |-> Last(path), inode |-> i])]

\* remove_from_parent_dir closes the gap; the old last entry is not wiped.
WithoutEntry(path, i) ==
    LET d   == PathToInode(Front(path))
        es  == VisibleEntries(d)
        gap == CHOOSE k \in 1 .. inode[d].size : es[k].inode = i
    IN  [entries EXCEPT ![inode[d].block] =
            [k \in 1 .. inode[d].size |->
                IF k < gap \/ k = inode[d].size THEN es[k] ELSE es[k + 1]]]

Resized(table, i, n) == [table EXCEPT ![i].size = n]

\* create_file: a new inode of size 0 without a block, and its entry.
Created(path, i, type) ==
    LET d == PathToInode(Front(path)) IN
    [Resized(inode, d, inode[d].size + 1)
        EXCEPT ![i] = [type |-> type, size |-> 0, block |-> 0]]

-----------------------------------------------------------------------------
\* mount_root_fs on an unformatted disk: format_rfs and create_root_directory.
RfsInit ==
    /\ inodeBitmap = {Root}
    /\ blockBitmap = {1}
    /\ inode = [i \in Inodes |-> IF i = Root THEN [type |-> "DIR", size |-> 0, block |-> 1]
                                 ELSE [type |-> "FILE", size |-> 0, block |-> 0]]
    /\ moreBlocks = [i \in Inodes |-> {}]
    /\ entries = [b \in 0 .. NumBlocks |-> <<>>]
    /\ file = [s \in {} |-> 0]
    /\ superblock = TRUE

CreateFile(path, i, type) ==
    /\ CanCreate(path) /\ FirstFreeInode(i)
    /\ inodeBitmap' = inodeBitmap \cup {i}
    /\ inode' = Created(path, i, type)
    /\ moreBlocks' = [moreBlocks EXCEPT ![i] = {}]
    /\ entries' = WithEntry(path, i)
    /\ UNCHANGED <<blockBitmap, superblock>>

\* The first free slot of the open-file table becomes a descriptor of inode i.
OpenAs(i, flags, size) ==
    \E s \in FileSlots \ OpenSlots :
        /\ \A r \in FileSlots \ OpenSlots : s <= r
        /\ file' = [r \in OpenSlots \cup {s} |->
               IF r # s THEN file[r]
               ELSE [inode |-> i, flags |-> flags,
                     offset |-> IF "APPEND" \in flags THEN size ELSE 0]]

\* fs_open.  check_permissions grants regular files only, and may refuse any; a
\* file that was created for a refused call stays, the slot is given back.
FsOpen(path, flags) ==
    /\ OpenSlots # FileSlots
    /\ \/ LET i == PathToInode(path) IN
          /\ i # 0 /\ inode[i].type = "FILE"
          /\ OpenAs(i, flags, inode[i].size)
          /\ UNCHANGED treeVars
       \/ /\ "CREAT" \in flags
          /\ \E i \in Inodes :
                /\ CreateFile(path, i, "FILE")
                /\ OpenAs(i, flags, 0) \/ UNCHANGED file

\* fs_close; ref_count is 1 in every open file.
FsClose(s) ==
    /\ file' = [r \in OpenSlots \ {s} |-> file[r]]
    /\ UNCHANGED treeVars

-----------------------------------------------------------------------------
\* The test at line 232: O_RDONLY is 0, so only O_RDWR passes it.
Readable(s) == "RDWR" \in file[s].flags

Writable(s) == file[s].flags \cap {"WRONLY", "RDWR"} # {}

\* fs_read of count units; nothing happens at or behind the end of the file.
FsRead(s, count) ==
    /\ Readable(s)
    /\ LET size == inode[file[s].inode].size IN
       /\ file[s].offset < size
       /\ file' = [file EXCEPT ![s].offset = Min({@ + count, size})]
    /\ UNCHANGED treeVars

\* write_inode_data (external) takes free blocks as it needs them, a unit being any number
\* of blocks, and one at least for a file that has none; it fails, and nothing changes,
\* when there is none.
FsWrite(s, count) ==
    LET i   == file[s].inode
        end == file[s].offset + count
        b   == IF inode[i].block = 0 THEN FreeBlock ELSE inode[i].block
    IN  /\ Writable(s)
        /\ b # 0 /\ end <= MaxSize
        /\ file' = [file EXCEPT ![s].offset = end]
        /\ inode' = [inode EXCEPT ![i].block = b, ![i].size = Max({@, end})]
        /\ \E more \in SUBSET (FreeDataBlocks \ {b}) :
              /\ moreBlocks' = [moreBlocks EXCEPT ![i] = @ \cup more]
              /\ blockBitmap' = blockBitmap \cup {b} \cup more
        /\ UNCHANGED <<inodeBitmap, entries, superblock>>

\* fs_lseek; a result below 0 is refused.
FsLseek(s, offset, whence) ==
    LET new == CASE whence = "SET" -> offset
                 [] whence = "CUR" -> file[s].offset + offset
                 [] whence = "END" -> inode[file[s].inode].size + offset
    IN  /\ new \in 0 .. MaxSize
        /\ file' = [file EXCEPT ![s].offset = new]
        /\ UNCHANGED treeVars

-----------------------------------------------------------------------------
\* fs_mkdir.  The block is written without a look at alloc_block's result, also when that
\* is 0; what lies in it behind "." and ".." stays and is hidden by the size.
FsMkdir(path) ==
    \E i \in Inodes :
        /\ CanCreate(path) /\ FirstFreeInode(i)
        /\ inodeBitmap' = inodeBitmap \cup {i}
        /\ inode' = [Created(path, i, "DIR") EXCEPT ![i].block = FreeBlock, ![i].size = 0]
        /\ moreBlocks' = [moreBlocks EXCEPT ![i] = {}]
        /\ entries' = WithEntry(path, i)
        /\ blockBitmap' = blockBitmap \cup ({FreeBlock} \ {0})
        /\ superblock' = (superblock /\ FreeBlock # 0)
        /\ UNCHANGED file

\* (Mutant of Removed: only the first block is given back.)
RemovedKeepingBlocks(path, i) ==
    /\ entries' = WithoutEntry(path, i)
    /\ LET d == PathToInode(Front(path))
       IN  inode' = [Resized(inode, d, inode[d].size - 1) EXCEPT ![i].block = 0]
    /\ moreBlocks' = [moreBlocks EXCEPT ![i] = {}]
    /\ blockBitmap' = blockBitmap \ {inode[i].block}
    /\ inodeBitmap' = inodeBitmap \ {i}
    /\ UNCHANGED <<superblock, file>>

\* Taking path out of the tree: its entry, its inode and all its blocks.
Removed(path, i) ==
    /\ entries' = WithoutEntry(path, i)
    /\ LET d == PathToInode(Front(path))
       IN  inode' = [Resized(inode, d, inode[d].size - 1) EXCEPT ![i].block = 0]
    /\ moreBlocks' = [moreBlocks EXCEPT ![i] = {}]
    /\ blockBitmap' = blockBitmap \ BlocksOf(i)
    /\ inodeBitmap' = inodeBitmap \ {i}
    /\ UNCHANGED <<superblock, file>>

\* (Mutant of FsRmdir: the directory may have one entry.)
RmdirWithEntry(path) ==
    LET i == PathToInode(path) IN
    /\ path # <<>> /\ i # 0
    /\ inode[i].type = "DIR"
    /\ inode[i].size <= 1
    /\ Removed(path, i)

\* fs_rmdir, of any directory but "/"; only an empty one is removed.
FsRmdir(path) ==
    LET i == PathToInode(path) IN
    /\ path # <<>> /\ i # 0
    /\ inode[i].type = "DIR"
    /\ inode[i].size = 0
    /\ Removed(path, i)

\* fs_unlink.  The code looks neither at the type of the inode nor at the
\* open-file table: callers unlink regular files that nobody has open.
FsUnlink(path) ==
    LET i == PathToInode(path) IN
    /\ path # <<>> /\ i # 0
    /\ inode[i].type = "FILE"
    /\ \A s \in OpenSlots : file[s].inode # i
    /\ Removed(path, i)

-----------------------------------------------------------------------------
RfsNext ==
    /\ superblock
    /\ \/ \E path \in Paths, flags \in Flags : FsOpen(path, flags)
       \/ \E path \in Paths : FsMkdir(path) \/ FsRmdir(path) \/ FsUnlink(path)
       \/ \E s \in OpenSlots : FsClose(s)
       \/ \E s \in OpenSlots, count \in 1 .. MaxSize : FsRead(s, count) \/ FsWrite(s, count)
       \/ \E s \in OpenSlots, offset \in -1 .. MaxSize, whence \in {"SET", "CUR", "END"} :
             FsLseek(s, offset, whence)

RfsSpec == RfsInit /\ [][RfsNext]_rfsVars

-----------------------------------------------------------------------------
RfsTypeOK ==
    /\ inodeBitmap \subseteq Inodes
    /\ blockBitmap \subseteq 1 .. NumBlocks
    /\ inode \in [Inodes -> [type : Types, size : Nat, block : 0 .. NumBlocks]]
    /\ moreBlocks \in [Inodes -> SUBSET (1 .. NumBlocks)]
    /\ DOMAIN entries = 0 .. NumBlocks
    /\ OpenSlots \subseteq FileSlots
    /\ file \in [OpenSlots -> [inode : Inodes, flags : Flags, offset : 0 .. MaxSize]]
    /\ superblock \in BOOLEAN

Directories == {i \in inodeBitmap : inode[i].type = "DIR"}

\* Every inode in use except the root has exactly one visible entry, in a
\* directory in use, and every visible entry names an inode in use: after any
\* mix of creations, removals and reuse no name dangles and no inode is lost.
OneEntryPerInode ==
    LET Named(d, k) == VisibleEntries(d)[k].inode IN
    /\ \A d \in Directories : \A k \in 1 .. inode[d].size :
          Named(d, k) \in inodeBitmap \ {Root}
    /\ \A i \in inodeBitmap \ {Root} :
          \E d \in Directories : \E k \in 1 .. inode[d].size :
             /\ Named(d, k) = i
             /\ \A e \in Directories : \A j \in 1 .. inode[e].size :
                   Named(e, j) = i => e = d /\ j = k

\* A block is marked in use exactly when one inode in use owns it, and no two do: a block
\* that a file took is neither shared nor lost, also when the disk is full.
BlocksOwned ==
    /\ blockBitmap = UNION {BlocksOf(i) : i \in inodeBitmap}
    /\ \A i, j \in inodeBitmap : i # j => BlocksOf(i) \cap BlocksOf(j) = {}

\* mkdir writes its directory over block 0 when alloc_block has no block for it (line 340).
\* That happens only when every data block belongs to an inode in use, which can still
\* give it back: no sequence of calls that writes, removes and fails brings it earlier.
SuperblockOutlastsSpace ==
    ~superblock => UNION {BlocksOf(i) : i \in inodeBitmap} = 1 .. NumBlocks

-----------------------------------------------------------------------------
(* The tree of names as its users see it.                                  *)

TreeOfPaths ==
    [p \in {q \in Paths \cup {<<>>} : PathToInode(q) # 0} |->
        LET i == PathToInode(p) IN
        [type |-> inode[i].type, size |-> IF inode[i].type = "DIR" THEN 0 ELSE inode[i].size]]

Tree == INSTANCE FileTree WITH tree <- TreeOfPaths

\* Inodes, entries and blocks together implement a tree of paths: an operation on
\* one path changes no other, also when inodes and blocks are used again.
ImplementsTree == Tree!Spec
=============================================================================
