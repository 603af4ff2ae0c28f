------------------------------ MODULE TecnicoFS ------------------------------
(***************************************************************************)
(* The in-memory file system under the broker: the tables of fs/state.c    *)
(* and the public operations of fs/operations.c.                           *)
(*                                                                         *)
(* Every public operation takes g_library_mutex first and releases it on   *)
(* each of its return paths, so an operation is ONE action, whichever      *)
(* thread calls it.  An action's last parameter is what the C function     *)
(* returns (-1 for an error).                                              *)
(*                                                                         *)
(* Callers are unconstrained here: any handle may be used at any time, a   *)
(* file may be unlinked or truncated while it is open.  BoxFiles restricts *)
(* the callers to what the broker does.                                    *)
(*                                                                         *)
(* The directory has its block's entries in a variable of its own, dir;    *)
(* DirectoryBlockPrivate is what makes that sound.                         *)
(*                                                                         *)
(* An operator named X_Something, next to X, is X with a plausible defect. *)
(* No specification uses it: with it in X's place a property must fail.    *)
(***************************************************************************)
EXTENDS Integers, FiniteSets

CONSTANTS
    Path,                  (* the path names callers pass                  *)
    ValidPath,             (* those that pass valid_pathname()             *)
    StorablePath,          (* those whose name fits a directory entry      *)
    Byte,                  (* contents of a file, one value per byte       *)
    INODE_TABLE_SIZE,
    DATA_BLOCKS,
    MAX_OPEN_FILES,
    MAX_DIR_ENTRIES,
    BLOCK_SIZE,
    MaxIO,                 (* bound: the longest read or write requested   *)
    MaxOffset,             (* bound: no read moves an offset beyond this   *)
    SIZE_MOD               (* 2^w for the w bits of a size_t               *)

NoName == "no name"        (* d_name after memset(.., 0, MAX_FILE_NAME)     *)

ASSUME PathAssumption ==
    /\ StorablePath \subseteq ValidPath
    /\ ValidPath \subseteq Path
    /\ NoName \notin Path

ASSUME SizeAssumption ==
    /\ INODE_TABLE_SIZE \in Nat \ {0}
    /\ DATA_BLOCKS \in Nat \ {0}
    /\ MAX_OPEN_FILES \in Nat
    /\ MAX_DIR_ENTRIES \in Nat
    /\ BLOCK_SIZE \in Nat \ {0}
    /\ MaxIO \in Nat
    /\ MaxOffset \in Nat
    /\ SIZE_MOD \in Nat
    /\ SIZE_MOD > BLOCK_SIZE + MaxIO + MaxOffset

ASSUME ByteAssumption == 0 \in Byte

VARIABLES
    status,                    (* "down": no tables; "up": between tfs_init *)
                               (* and tfs_destroy; "panic": PANIC exited;   *)
                               (* "segv": a wild memcpy killed the process  *)
    inode_table,
    freeinode_ts,
    dir,                       (* the entries in the root's data block      *)
    fs_data,
    free_blocks,
    open_file_table,
    free_open_file_entries

inodeVars == <<inode_table, freeinode_ts>>
blockVars == <<fs_data, free_blocks>>
fileVars  == <<open_file_table, free_open_file_entries>>
vars == <<status, inodeVars, dir, blockVars, fileVars>>

ROOT_DIR_INUM == 0
FREE  == "FREE"
TAKEN == "TAKEN"

Inode   == 0 .. INODE_TABLE_SIZE - 1
Block   == 0 .. DATA_BLOCKS - 1
Handle  == 0 .. MAX_OPEN_FILES - 1
DirSlot == 0 .. MAX_DIR_ENTRIES - 1
Offset  == 0 .. BLOCK_SIZE - 1
Mode    == SUBSET {"TFS_O_CREAT", "TFS_O_TRUNC", "TFS_O_APPEND"}

Max2(a, b) == IF a >= b THEN a ELSE b

(* a - b on size_t, for a and b smaller than SIZE_MOD.                      *)
SizeSub(a, b) == IF b <= a THEN a - b ELSE a - b + SIZE_MOD

-----------------------------------------------------------------------------
(* Scans of a table from index 0 up.                                        *)

(* The index at which a scan that looks for a member of S stops, or -1.     *)
Lowest(S) ==
    IF \E i \in S : \A j \in S : i <= j
    THEN CHOOSE i \in S : \A j \in S : i <= j
    ELSE -1

FreeSlots(table) == {i \in DOMAIN table : table[i] = FREE}

inode_alloc == Lowest(FreeSlots(freeinode_ts))
data_block_alloc == Lowest(FreeSlots(free_blocks))

(* find_in_dir() skips unused entries ...                                   *)
EntriesOf(name) == {i \in DirSlot : dir[i].d_inumber # -1 /\ dir[i].d_name = name}
(* ... and clear_dir_entry() does not.                                      *)
SlotsNamed(name) == {i \in DirSlot : dir[i].d_name = name}
EmptyDirSlots == {i \in DirSlot : dir[i].d_inumber = -1}

find_in_dir(name) ==
    IF EntriesOf(name) = {} THEN -1 ELSE dir[Lowest(EntriesOf(name))].d_inumber

valid_pathname(path) == path \in ValidPath

tfs_lookup(path) == IF valid_pathname(path) THEN find_in_dir(path) ELSE -1

(* get_open_file_entry() returns a pointer and not NULL.                    *)
HandleIsOpen(fh) == fh \in Handle /\ free_open_file_entries[fh] = TAKEN

HandleInode(fh) == open_file_table[fh].of_inumber
HandleOffset(fh) == open_file_table[fh].of_offset

-----------------------------------------------------------------------------
EmptyFile == [i_node_type |-> "T_FILE", i_size |-> 0, i_data_block |-> -1]
RootInode == [i_node_type |-> "T_DIRECTORY", i_size |-> BLOCK_SIZE, i_data_block |-> 0]

(* No table holds a meaning while the file system is down: malloc gives     *)
(* indeterminate contents, and each entry is written before it is read.     *)
(* fs_data starts as zeros: its megabyte is a fresh mapping.                *)
Init ==
    /\ status = "down"
    /\ inode_table = [i \in Inode |-> EmptyFile]
    /\ freeinode_ts = [i \in Inode |-> FREE]
    /\ dir = [i \in DirSlot |-> [d_inumber |-> -1, d_name |-> NoName]]
    /\ fs_data = [b \in Block |-> [k \in Offset |-> 0]]
    /\ free_blocks = [b \in Block |-> FREE]
    /\ open_file_table = [h \in Handle |-> [of_inumber |-> ROOT_DIR_INUM, of_offset |-> 0]]
    /\ free_open_file_entries = [h \in Handle |-> FREE]

tfs_init_LeavesBlockFree ==
    /\ status = "down"
    /\ status' = "up"
    /\ inode_table' = [inode_table EXCEPT ![ROOT_DIR_INUM] = RootInode]
    /\ freeinode_ts' = [freeinode_ts EXCEPT ![ROOT_DIR_INUM] = TAKEN]
    /\ UNCHANGED <<dir, blockVars, fileVars>>

(* state_init() and then inode_create(T_DIRECTORY), which takes inode 0 and *)
(* block 0 of the empty tables and marks each directory entry unused.       *)
tfs_init ==
    /\ status = "down"
    /\ status' = "up"
    /\ inode_table' = [inode_table EXCEPT ![ROOT_DIR_INUM] = RootInode]
    /\ freeinode_ts' = [freeinode_ts EXCEPT ![ROOT_DIR_INUM] = TAKEN]
    /\ free_blocks' = [free_blocks EXCEPT ![0] = TAKEN]
    /\ UNCHANGED <<dir, fs_data, fileVars>>

tfs_destroy ==
    /\ status = "up"
    /\ status' = "down"
    /\ inode_table' = [i \in Inode |-> EmptyFile]
    /\ freeinode_ts' = [i \in Inode |-> FREE]
    /\ dir' = [i \in DirSlot |-> [d_inumber |-> -1, d_name |-> NoName]]
    /\ fs_data' = [b \in Block |-> [k \in Offset |-> 0]]
    /\ free_blocks' = [b \in Block |-> FREE]
    /\ open_file_table' = [h \in Handle |-> [of_inumber |-> ROOT_DIR_INUM, of_offset |-> 0]]
    /\ free_open_file_entries' = [h \in Handle |-> FREE]

-----------------------------------------------------------------------------
add_to_open_file_table(inum, offset, fh) ==
    /\ fh = Lowest(FreeSlots(free_open_file_entries))
    /\ IF fh = -1
       THEN UNCHANGED fileVars
       ELSE /\ free_open_file_entries' = [free_open_file_entries EXCEPT ![fh] = TAKEN]
            /\ open_file_table' =
                   [open_file_table EXCEPT ![fh] = [of_inumber |-> inum, of_offset |-> offset]]

(* The file exists: truncate it if asked to, and open it at its start or    *)
(* its end.  Truncation leaves i_data_block as it is.                       *)
OpenExisting(inum, mode, fh) ==
    LET truncate == "TFS_O_TRUNC" \in mode /\ inode_table[inum].i_size > 0
        size == IF truncate THEN 0 ELSE inode_table[inum].i_size
    IN  /\ IF truncate
           THEN /\ free_blocks' = [free_blocks EXCEPT ![inode_table[inum].i_data_block] = FREE]
                /\ inode_table' = [inode_table EXCEPT ![inum].i_size = 0]
           ELSE UNCHANGED <<free_blocks, inode_table>>
        /\ add_to_open_file_table(inum, IF "TFS_O_APPEND" \in mode THEN size ELSE 0, fh)
        /\ UNCHANGED <<status, freeinode_ts, dir, fs_data>>

(* inode_create(T_FILE) and add_dir_entry(); when the entry cannot be added *)
(* inode_delete() gives the inode back, already reset to an empty file.  An *)
(* open file table without room leaves the created file behind.             *)
OpenNew(path, fh) ==
    LET inum == inode_alloc
        slot == Lowest(EmptyDirSlots)
    IN  /\ inum # -1
        /\ inode_table' = [inode_table EXCEPT ![inum] = EmptyFile]
        /\ \/ /\ path \in StorablePath /\ slot # -1
              /\ freeinode_ts' = [freeinode_ts EXCEPT ![inum] = TAKEN]
              /\ dir' = [dir EXCEPT ![slot] = [d_inumber |-> inum, d_name |-> path]]
              /\ add_to_open_file_table(inum, 0, fh)
           \/ /\ path \notin StorablePath \/ slot = -1
              /\ fh = -1
              /\ UNCHANGED <<freeinode_ts, dir, fileVars>>
        /\ UNCHANGED <<status, blockVars>>

tfs_open(path, mode, fh) ==
    /\ status = "up"
    /\ \/ /\ tfs_lookup(path) # -1
          /\ OpenExisting(tfs_lookup(path), mode, fh)
       \/ /\ valid_pathname(path) /\ tfs_lookup(path) = -1
          /\ "TFS_O_CREAT" \in mode
          /\ OpenNew(path, fh)
       \/ /\ tfs_lookup(path) = -1
          /\ ~valid_pathname(path) \/ "TFS_O_CREAT" \notin mode \/ inode_alloc = -1
          /\ fh = -1
          /\ UNCHANGED vars

tfs_close(fh, ret) ==
    /\ status = "up"
    /\ \/ /\ HandleIsOpen(fh)
          /\ ret = 0
          /\ free_open_file_entries' = [free_open_file_entries EXCEPT ![fh] = FREE]
          /\ UNCHANGED <<status, inodeVars, dir, blockVars, open_file_table>>
       \/ /\ ~HandleIsOpen(fh)
          /\ ret = -1
          /\ UNCHANGED vars

-----------------------------------------------------------------------------
WriteCount_Uncut(fh, len) == len

(* How many bytes tfs_write() copies: the sum wraps for no offset a handle  *)
(* can reach, the difference wraps for an offset beyond the block.          *)
WriteCount(fh, len) ==
    IF len + HandleOffset(fh) > BLOCK_SIZE
    THEN SizeSub(BLOCK_SIZE, HandleOffset(fh))
    ELSE len

WriteBlock_ByNumber(inum) ==
    IF inode_table[inum].i_data_block = -1 THEN data_block_alloc ELSE inode_table[inum].i_data_block

WriteBlock_AlwaysNew(inum) == data_block_alloc

(* The block a write through inode inum goes to: an empty file gets a new   *)
(* one, -1 when there is none.                                              *)
WriteBlock(inum) ==
    IF inode_table[inum].i_size = 0 THEN data_block_alloc ELSE inode_table[inum].i_data_block

StoreBytes_LosesBlock(fh, inum, b, n, byte) ==
    LET from == HandleOffset(fh)
    IN  /\ IF inode_table[inum].i_size = 0
           THEN free_blocks' = [free_blocks EXCEPT ![b] = TAKEN]
           ELSE UNCHANGED free_blocks
        /\ UNCHANGED fs_data
        /\ inode_table' =
               [inode_table EXCEPT ![inum].i_size = Max2(inode_table[inum].i_size, from + n)]
        /\ open_file_table' = [open_file_table EXCEPT ![fh].of_offset = from + n]

(* data_block_alloc() if the file is empty, memcpy of n bytes of value byte  *)
(* to the handle's offset in block b, and the bookkeeping after it.         *)
StoreBytes(fh, inum, b, n, byte) ==
    LET from == HandleOffset(fh)
    IN  /\ IF inode_table[inum].i_size = 0
           THEN free_blocks' = [free_blocks EXCEPT ![b] = TAKEN]
           ELSE UNCHANGED free_blocks
        /\ fs_data' = [fs_data EXCEPT ![b] =
               [k \in Offset |-> IF from <= k /\ k < from + n THEN byte ELSE fs_data[b][k]]]
        /\ inode_table' = [inode_table EXCEPT
               ![inum].i_data_block = b,
               ![inum].i_size = Max2(inode_table[inum].i_size, from + n)]
        /\ open_file_table' = [open_file_table EXCEPT ![fh].of_offset = from + n]

(* A count that wrapped is far larger than the process' memory, so that     *)
(* memcpy kills it.  The assertions on the way cannot fail: inode_get() and *)
(* data_block_get() return no NULL, and SizedInodesHaveBlocks says that a   *)
(* file with a size has a block number in range.                            *)
tfs_write(fh, len, byte, ret) ==
    LET inum == HandleInode(fh)
        n == WriteCount(fh, len)
        b == WriteBlock(inum)
    IN  /\ status = "up"
        /\ \/ /\ ~HandleIsOpen(fh)
              /\ ret = -1
              /\ UNCHANGED vars
           \/ /\ HandleIsOpen(fh) /\ n = 0
              /\ ret = 0
              /\ UNCHANGED vars
           \/ /\ HandleIsOpen(fh) /\ n > 0 /\ b = -1
              /\ ret = -1
              /\ UNCHANGED vars
           \/ /\ HandleIsOpen(fh) /\ n \in 1 .. BLOCK_SIZE /\ b # -1
              /\ ret = n
              /\ StoreBytes(fh, inum, b, n, byte)
              /\ UNCHANGED <<status, freeinode_ts, dir, free_open_file_entries>>
           \/ /\ HandleIsOpen(fh) /\ n > BLOCK_SIZE /\ b # -1
              /\ ret = -1
              /\ status' = "segv"
              /\ UNCHANGED <<inodeVars, dir, blockVars, fileVars>>

(* How many bytes tfs_read() copies: the difference is on size_t.           *)
ReadCount(fh, len) ==
    LET left == SizeSub(inode_table[HandleInode(fh)].i_size, HandleOffset(fh))
    IN  IF left > len THEN len ELSE left

(* The copy would run past the end of fs_data.                              *)
ReadsPastData(b, end) == b * BLOCK_SIZE + end > DATA_BLOCKS * BLOCK_SIZE

(* What lands in the caller's buffer is not part of the state.  A copy past *)
(* the end of fs_data is undefined: it returns other memory or it faults.   *)
tfs_read(fh, len, ret) ==
    LET n == ReadCount(fh, len)
        b == inode_table[HandleInode(fh)].i_data_block
        end == HandleOffset(fh) + n
    IN  /\ status = "up"
        /\ \/ /\ ~HandleIsOpen(fh)
              /\ ret = -1
              /\ UNCHANGED vars
           \/ /\ HandleIsOpen(fh) /\ n = 0
              /\ ret = 0
              /\ UNCHANGED vars
           \/ /\ HandleIsOpen(fh) /\ n > 0 /\ b # -1 /\ end <= MaxOffset
              /\ ret = n
              /\ open_file_table' = [open_file_table EXCEPT ![fh].of_offset = end]
              /\ UNCHANGED <<status, inodeVars, dir, blockVars, free_open_file_entries>>
           \/ /\ HandleIsOpen(fh) /\ n > 0 /\ b # -1 /\ ReadsPastData(b, end)
              /\ ret = -1
              /\ status' = "segv"
              /\ UNCHANGED <<inodeVars, dir, blockVars, fileVars>>
           \/ /\ HandleIsOpen(fh) /\ n > 0 /\ b = -1
              /\ ret = -1
              /\ status' = "panic"
              /\ UNCHANGED <<inodeVars, dir, blockVars, fileVars>>

inode_delete_KeepsBlock(inum) ==
    /\ freeinode_ts' = [freeinode_ts EXCEPT ![inum] = FREE]
    /\ UNCHANGED <<inode_table, blockVars>>

(* A freed inode keeps its size and its block number.                       *)
inode_delete(inum) ==
    /\ freeinode_ts' = [freeinode_ts EXCEPT ![inum] = FREE]
    /\ IF inode_table[inum].i_size > 0
       THEN free_blocks' = [free_blocks EXCEPT ![inode_table[inum].i_data_block] = FREE]
       ELSE UNCHANGED free_blocks
    /\ UNCHANGED <<inode_table, fs_data>>

clear_dir_entry_KeepsNumber(name, ret) ==
    /\ ret = 0
    /\ dir' = [dir EXCEPT ![Lowest(SlotsNamed(name))].d_name = NoName]

clear_dir_entry(name, ret) ==
    IF SlotsNamed(name) = {}
    THEN /\ ret = -1
         /\ UNCHANGED dir
    ELSE /\ ret = 0
         /\ dir' = [dir EXCEPT ![Lowest(SlotsNamed(name))] =
                        [d_inumber |-> -1, d_name |-> NoName]]

tfs_unlink(path, ret) ==
    /\ status = "up"
    /\ \/ /\ tfs_lookup(path) # -1
          /\ inode_delete(tfs_lookup(path))
          /\ clear_dir_entry(path, ret)
          /\ UNCHANGED <<status, fileVars>>
       \/ /\ tfs_lookup(path) = -1
          /\ ret = -1
          /\ UNCHANGED vars

-----------------------------------------------------------------------------
(* Handles callers pass: those tfs_open returned, its -1 among them.        *)
AnyHandle == {-1} \cup Handle

Next ==
    \/ tfs_init
    \/ tfs_destroy
    \/ \E path \in Path, mode \in Mode, fh \in AnyHandle : tfs_open(path, mode, fh)
    \/ \E fh \in AnyHandle, ret \in {-1, 0} : tfs_close(fh, ret)
    \/ \E fh \in AnyHandle, len \in 1 .. MaxIO, byte \in Byte, ret \in -1 .. BLOCK_SIZE :
           tfs_write(fh, len, byte, ret)
    \/ \E fh \in AnyHandle, len \in 1 .. MaxIO, ret \in -1 .. MaxIO : tfs_read(fh, len, ret)
    \/ \E path \in Path, ret \in {-1, 0} : tfs_unlink(path, ret)

Spec == Init /\ [][Next]_vars

-----------------------------------------------------------------------------
InodeRecord == [i_node_type : {"T_FILE", "T_DIRECTORY"},
                i_size : 0 .. BLOCK_SIZE,
                i_data_block : {-1} \cup Block]
DirEntry == [d_inumber : {-1} \cup Inode, d_name : {NoName} \cup StorablePath]
OpenFileEntry == [of_inumber : Inode, of_offset : 0 .. SIZE_MOD - 1]

(* Every table keeps its shape: sizes fit a block, numbers index a table.   *)
TypeOK ==
    /\ status \in {"down", "up", "panic", "segv"}
    /\ inode_table \in [Inode -> InodeRecord]
    /\ freeinode_ts \in [Inode -> {FREE, TAKEN}]
    /\ dir \in [DirSlot -> DirEntry]
    /\ fs_data \in [Block -> [Offset -> Byte]]
    /\ free_blocks \in [Block -> {FREE, TAKEN}]
    /\ open_file_table \in [Handle -> OpenFileEntry]
    /\ free_open_file_entries \in [Handle -> {FREE, TAKEN}]

Live(inum) == freeinode_ts[inum] = TAKEN
OwnsBlock(inum) == Live(inum) /\ inode_table[inum].i_size > 0

(* Two files that exist never share a data block, and the block of a file   *)
(* that exists is never up for allocation (data_block_alloc, operations.c's *)
(* truncation and inode_delete) - whatever stale handles callers use.       *)
BlocksExclusive ==
    /\ \A i \in Inode : OwnsBlock(i) =>
           /\ inode_table[i].i_data_block \in Block
           /\ free_blocks[inode_table[i].i_data_block] = TAKEN
    /\ \A i, j \in Inode : OwnsBlock(i) /\ OwnsBlock(j) /\ i # j =>
           inode_table[i].i_data_block # inode_table[j].i_data_block

(* A directory entry in use names an allocated regular file ...             *)
EntriesNameFiles ==
    \A s \in DirSlot :
        IF dir[s].d_inumber = -1
        THEN dir[s].d_name = NoName
        ELSE /\ dir[s].d_name # NoName
             /\ dir[s].d_inumber # ROOT_DIR_INUM
             /\ Live(dir[s].d_inumber)
             /\ inode_table[dir[s].d_inumber].i_node_type = "T_FILE"

(* ... no two entries name the same file or bear the same name ...          *)
EntriesDistinct ==
    \A s, t \in DirSlot : s # t /\ dir[s].d_inumber # -1 =>
        dir[s].d_inumber # dir[t].d_inumber /\ dir[s].d_name # dir[t].d_name

(* ... and every allocated file has its entry.                              *)
FilesHaveEntries ==
    \A i \in Inode \ {ROOT_DIR_INUM} : Live(i) => \E s \in DirSlot : dir[s].d_inumber = i

(* The root directory and the inode table agree, after every call that      *)
(* succeeds, fails or gives up half-way (tfs_open's and tfs_unlink's).      *)
DirectoryMatchesInodes == EntriesNameFiles /\ EntriesDistinct /\ FilesHaveEntries

(* No inode but the root's ever refers to the directory's block, not even a *)
(* freed inode that a stale handle can still write through: file data never *)
(* overwrites directory entries.                                            *)
DirectoryBlockPrivate ==
    status # "down" =>
        /\ Live(ROOT_DIR_INUM)
        /\ inode_table[ROOT_DIR_INUM] = RootInode
        /\ \A i \in Inode \ {ROOT_DIR_INUM} : inode_table[i].i_data_block # 0

(* data_block_get()'s assertion in tfs_write() holds: an inode with a size, *)
(* allocated or not, has a block number in range.                           *)
SizedInodesHaveBlocks ==
    \A i \in Inode : inode_table[i].i_size > 0 => inode_table[i].i_data_block \in Block

-----------------------------------------------------------------------------
(* What the repository says of tfs_read and tfs_write, and the code does    *)
(* not do once files are truncated or unlinked while they are open.         *)

SameOpenHandle(h) == HandleIsOpen(h) /\ HandleIsOpen(h)'

(* operations.h:111: tfs_read returns how much it copied "from the file"    *)
(* and stops when "the file size was reached": no read or write leaves a    *)
(* handle beyond the end of its file.                                       *)
ReadStopsAtEndOfFile ==
    [][\A h \in Handle : SameOpenHandle(h) /\ HandleOffset(h)' > HandleOffset(h) =>
           HandleOffset(h)' <= inode_table'[HandleInode(h)].i_size]_vars

=============================================================================
