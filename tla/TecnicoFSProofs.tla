-------------------------- MODULE TecnicoFSProofs --------------------------
(***************************************************************************)
(* The invariants of TecnicoFS hold for every size of the tables, every    *)
(* set of paths and every sequence of calls.                               *)
(***************************************************************************)
EXTENDS TecnicoFS, TLAPS

(* While the file system is down its tables are as malloc and the loops of  *)
(* state_init() leave them: what tfs_init builds on.                        *)
DownIsEmpty ==
    status = "down" =>
        /\ inode_table = [i \in Inode |-> EmptyFile]
        /\ freeinode_ts = [i \in Inode |-> FREE]
        /\ dir = [i \in DirSlot |-> [d_inumber |-> -1, d_name |-> NoName]]
        /\ free_blocks = [b \in Block |-> FREE]
        /\ free_open_file_entries = [h \in Handle |-> FREE]

(* Handles come from the directory, which never names the root: no write    *)
(* through a handle, stale or not, changes the root inode.                  *)
NoHandleOnRoot ==
    \A h \in Handle : HandleIsOpen(h) => HandleInode(h) # ROOT_DIR_INUM

(* The inductive invariant.                                                 *)
IInv ==
    /\ TypeOK
    /\ BlocksExclusive
    /\ DirectoryMatchesInodes
    /\ DirectoryBlockPrivate
    /\ SizedInodesHaveBlocks
    /\ DownIsEmpty
    /\ NoHandleOnRoot

-----------------------------------------------------------------------------
(* A scan returns a member of the set it looks for or -1.                   *)
LEMMA LowestIsMember ==
    ASSUME NEW S, Lowest(S) # -1
    PROVE  Lowest(S) \in S
BY DEF Lowest

(* A scan for the only match finds it.                                      *)
LEMMA LowestOfSingleton ==
    ASSUME NEW x \in Int
    PROVE  Lowest({x}) = x
BY DEF Lowest

(* A path that is found has one entry, which is also the only slot of that  *)
(* name: clear_dir_entry() clears the entry that find_in_dir() found.       *)
LEMMA LookupFound ==
    ASSUME TypeOK, DirectoryMatchesInodes, NEW path, tfs_lookup(path) # -1
    PROVE  \E s \in DirSlot :
               /\ dir[s].d_inumber = tfs_lookup(path)
               /\ dir[s].d_inumber # -1
               /\ dir[s].d_name = path
               /\ SlotsNamed(path) = {s}
               /\ Lowest(SlotsNamed(path)) = s
<1>1. EntriesOf(path) # {} /\ tfs_lookup(path) = dir[Lowest(EntriesOf(path))].d_inumber
  BY DEF tfs_lookup, find_in_dir
<1>2. PICK s \in DirSlot : dir[s].d_inumber # -1 /\ dir[s].d_name = path
  BY <1>1 DEF EntriesOf
<1>3. \A t \in DirSlot : t # s => dir[t].d_name # path
  BY <1>2 DEF DirectoryMatchesInodes, EntriesDistinct
<1>4. EntriesOf(path) = {s} /\ SlotsNamed(path) = {s}
  BY <1>2, <1>3 DEF EntriesOf, SlotsNamed
<1>5. s \in Int
  BY SizeAssumption DEF DirSlot
<1>6. QED
  BY <1>1, <1>2, <1>4, <1>5, LowestOfSingleton

(* A path that is valid and not found has no entry.                         *)
LEMMA LookupNotFound ==
    ASSUME TypeOK, DirectoryMatchesInodes,
           NEW path \in ValidPath, tfs_lookup(path) = -1
    PROVE  \A s \in DirSlot : dir[s].d_name # path
<1>1. SUFFICES ASSUME NEW s \in DirSlot, dir[s].d_name = path
               PROVE  FALSE
  OBVIOUS
<1>2. dir[s].d_inumber # -1
  BY <1>1, PathAssumption DEF DirectoryMatchesInodes, EntriesNameFiles
<1>3. \A t \in DirSlot : t # s => dir[t].d_name # path
  BY <1>1, <1>2 DEF DirectoryMatchesInodes, EntriesDistinct
<1>4. EntriesOf(path) = {s}
  BY <1>1, <1>2, <1>3 DEF EntriesOf
<1>5. Lowest({s}) = s
  BY LowestOfSingleton, SizeAssumption DEF DirSlot
<1>6. QED
  BY <1>2, <1>4, <1>5 DEF tfs_lookup, find_in_dir, valid_pathname

(* An allocation returns a free entry of its table or -1.                   *)
LEMMA AllocatedWasFree ==
    /\ inode_alloc # -1 => inode_alloc \in DOMAIN freeinode_ts /\ freeinode_ts[inode_alloc] = FREE
    /\ data_block_alloc # -1 =>
           data_block_alloc \in DOMAIN free_blocks /\ free_blocks[data_block_alloc] = FREE
BY LowestIsMember DEF inode_alloc, data_block_alloc, FreeSlots

(* What tfs_lookup() finds is an allocated regular file.                    *)
LEMMA LookupIsFile ==
    ASSUME TypeOK, DirectoryMatchesInodes, NEW path, tfs_lookup(path) # -1
    PROVE  /\ tfs_lookup(path) \in Inode \ {ROOT_DIR_INUM}
           /\ Live(tfs_lookup(path))
           /\ inode_table[tfs_lookup(path)].i_node_type = "T_FILE"
<1>1. PICK s \in DirSlot : dir[s].d_inumber = tfs_lookup(path) /\ dir[s].d_inumber # -1
  BY LookupFound
<1>2. dir[s].d_inumber \in {-1} \cup Inode
  BY DEF TypeOK, DirEntry
<1>3. QED
  BY <1>1, <1>2 DEF DirectoryMatchesInodes, EntriesNameFiles

-----------------------------------------------------------------------------
(* The initial state satisfies the invariant.                               *)
LEMMA InitOK == Init => IInv
<1> SUFFICES ASSUME Init PROVE IInv
  OBVIOUS
<1>1. TypeOK
  BY SizeAssumption, ByteAssumption
     DEF Init, TypeOK, InodeRecord, DirEntry, OpenFileEntry, EmptyFile, Inode, Block, FREE, TAKEN,
         ROOT_DIR_INUM
<1>2. BlocksExclusive /\ SizedInodesHaveBlocks
  BY DEF Init, BlocksExclusive, SizedInodesHaveBlocks, OwnsBlock, EmptyFile
<1>3. DirectoryMatchesInodes
  BY DEF Init, DirectoryMatchesInodes, EntriesNameFiles, EntriesDistinct, FilesHaveEntries, Live, FREE, TAKEN
<1>4. DirectoryBlockPrivate /\ DownIsEmpty
  BY DEF Init, DirectoryBlockPrivate, DownIsEmpty
<1>5. NoHandleOnRoot
  BY DEF Init, NoHandleOnRoot, HandleIsOpen, FREE, TAKEN
<1>6. QED
  BY <1>1, <1>2, <1>3, <1>4, <1>5 DEF IInv

(* tfs_init() takes inode 0 and block 0 of empty tables for the root.       *)
LEMMA tfs_initOK ==
    ASSUME IInv, tfs_init
    PROVE  IInv'
<1> USE DEF IInv
<1>0. /\ inode_table = [i \in Inode |-> EmptyFile]
      /\ freeinode_ts = [i \in Inode |-> FREE]
      /\ dir = [i \in DirSlot |-> [d_inumber |-> -1, d_name |-> NoName]]
      /\ free_blocks = [b \in Block |-> FREE]
      /\ free_open_file_entries = [h \in Handle |-> FREE]
  BY DEF tfs_init, DownIsEmpty
<1>1. 0 \in Inode /\ 0 \in Block
  BY SizeAssumption DEF Inode, Block
<1>2. /\ RootInode \in InodeRecord
      /\ RootInode.i_size = BLOCK_SIZE
      /\ RootInode.i_data_block = 0
  BY <1>1, SizeAssumption DEF RootInode, InodeRecord
<1>3. TypeOK'
  BY <1>1, <1>2 DEF TypeOK, tfs_init, blockVars, fileVars, FREE, TAKEN, ROOT_DIR_INUM
<1>4. BlocksExclusive' /\ SizedInodesHaveBlocks'
  BY <1>0, <1>1, <1>2
     DEF BlocksExclusive, SizedInodesHaveBlocks, OwnsBlock, Live, tfs_init, EmptyFile,
         FREE, TAKEN, ROOT_DIR_INUM
<1>5. DirectoryMatchesInodes'
  BY <1>0, <1>1
     DEF DirectoryMatchesInodes, EntriesNameFiles, EntriesDistinct, FilesHaveEntries, Live,
         tfs_init, FREE, TAKEN, ROOT_DIR_INUM
<1>6. DirectoryBlockPrivate'
  BY <1>0, <1>1 DEF DirectoryBlockPrivate, Live, tfs_init, EmptyFile, FREE, TAKEN, ROOT_DIR_INUM
<1>7. DownIsEmpty' /\ NoHandleOnRoot'
  BY <1>0 DEF DownIsEmpty, NoHandleOnRoot, HandleIsOpen, tfs_init, fileVars, FREE, TAKEN
<1>8. QED
  BY <1>3, <1>4, <1>5, <1>6, <1>7

(* tfs_destroy() gives every table back.                                    *)
LEMMA tfs_destroyOK ==
    ASSUME tfs_destroy
    PROVE  IInv'
<1>1. TypeOK'
  BY SizeAssumption, ByteAssumption
     DEF tfs_destroy, TypeOK, InodeRecord, DirEntry, OpenFileEntry, EmptyFile, Inode, Block,
         FREE, TAKEN, ROOT_DIR_INUM
<1>2. BlocksExclusive' /\ SizedInodesHaveBlocks'
  BY DEF tfs_destroy, BlocksExclusive, SizedInodesHaveBlocks, OwnsBlock, EmptyFile
<1>3. DirectoryMatchesInodes'
  BY DEF tfs_destroy, DirectoryMatchesInodes, EntriesNameFiles, EntriesDistinct,
         FilesHaveEntries, Live, FREE, TAKEN
<1>4. DirectoryBlockPrivate' /\ DownIsEmpty'
  BY DEF tfs_destroy, DirectoryBlockPrivate, DownIsEmpty
<1>5. NoHandleOnRoot'
  BY DEF tfs_destroy, NoHandleOnRoot, HandleIsOpen, FREE, TAKEN
<1>6. QED
  BY <1>1, <1>2, <1>3, <1>4, <1>5 DEF IInv

-----------------------------------------------------------------------------
(* A new handle is on the file it was opened for.                           *)
LEMMA HandleAdded ==
    ASSUME TypeOK, NoHandleOnRoot,
           NEW inum \in Inode \ {ROOT_DIR_INUM}, NEW offset \in 0 .. SIZE_MOD - 1, NEW fh,
           add_to_open_file_table(inum, offset, fh)
    PROVE  /\ open_file_table' \in [Handle -> OpenFileEntry]
           /\ free_open_file_entries' \in [Handle -> {FREE, TAKEN}]
           /\ NoHandleOnRoot'
<1>1. fh # -1 => fh \in Handle
  BY LowestIsMember DEF TypeOK, add_to_open_file_table, FreeSlots
<1>2. CASE fh = -1
  <2>1. UNCHANGED <<open_file_table, free_open_file_entries>>
    BY <1>2 DEF add_to_open_file_table, fileVars
  <2>2. QED
    BY <2>1 DEF TypeOK, NoHandleOnRoot, HandleIsOpen, HandleInode
<1>3. CASE fh # -1
  <2> DEFINE entry == [of_inumber |-> inum, of_offset |-> offset]
  <2>1. /\ free_open_file_entries' = [free_open_file_entries EXCEPT ![fh] = TAKEN]
        /\ open_file_table' = [open_file_table EXCEPT ![fh] = entry]
    BY <1>3 DEF add_to_open_file_table
  <2>2. entry \in OpenFileEntry /\ entry.of_inumber = inum
    BY DEF OpenFileEntry
  <2> HIDE DEF entry
  <2>3. /\ open_file_table' \in [Handle -> OpenFileEntry]
        /\ free_open_file_entries' \in [Handle -> {FREE, TAKEN}]
    BY <1>1, <1>3, <2>1, <2>2 DEF TypeOK
  <2>4. open_file_table'[fh] = entry
    BY <1>1, <1>3, <2>1 DEF TypeOK
  <2>5. \A h \in Handle : h # fh =>
            /\ open_file_table'[h] = open_file_table[h]
            /\ free_open_file_entries'[h] = free_open_file_entries[h]
    BY <2>1 DEF TypeOK
  <2>6. NoHandleOnRoot'
    BY <2>2, <2>4, <2>5 DEF NoHandleOnRoot, HandleIsOpen, HandleInode
  <2>7. QED
    BY <2>3, <2>6
<1>4. QED
  BY <1>2, <1>3

(* Opening an existing file: truncation frees the block of that file alone. *)
LEMMA OpenExistingOK ==
    ASSUME IInv, status = "up", NEW path, tfs_lookup(path) # -1, NEW mode, NEW fh,
           OpenExisting(tfs_lookup(path), mode, fh)
    PROVE  IInv'
<1> DEFINE inum == tfs_lookup(path)
<1> USE DEF IInv
<1>1. inum \in Inode \ {ROOT_DIR_INUM} /\ Live(inum)
  BY LookupIsFile
<1>2. inode_table[inum] \in InodeRecord
  BY <1>1 DEF TypeOK
<1> HIDE DEF inum
<1>3. /\ OpenExisting(inum, mode, fh)
      /\ inode_table[inum].i_size \in 0 .. SIZE_MOD - 1
      /\ inode_table[inum].i_size > 0 => inode_table[inum].i_data_block \in Block
  BY <1>1, <1>2, SizeAssumption DEF inum, InodeRecord, SizedInodesHaveBlocks
<1>4. PICK offset \in 0 .. SIZE_MOD - 1 : add_to_open_file_table(inum, offset, fh)
  BY <1>3, SizeAssumption DEF OpenExisting
<1>5. /\ open_file_table' \in [Handle -> OpenFileEntry]
      /\ free_open_file_entries' \in [Handle -> {FREE, TAKEN}]
      /\ NoHandleOnRoot'
  BY <1>1, <1>4, HandleAdded
<1>6. CASE UNCHANGED <<free_blocks, inode_table>>
  <2>1. UNCHANGED <<status, inodeVars, dir, blockVars>>
    BY <1>3, <1>6 DEF OpenExisting, inodeVars, blockVars
  <2>2. TypeOK'
    BY <1>5, <2>1 DEF TypeOK, inodeVars, blockVars
  <2>3. BlocksExclusive' /\ DirectoryMatchesInodes' /\ DirectoryBlockPrivate'
        /\ SizedInodesHaveBlocks'
    BY <2>1 DEF BlocksExclusive, DirectoryMatchesInodes, EntriesNameFiles, EntriesDistinct,
                FilesHaveEntries, DirectoryBlockPrivate, SizedInodesHaveBlocks, OwnsBlock, Live, inodeVars, blockVars
  <2>4. DownIsEmpty'
    BY <2>1 DEF DownIsEmpty
  <2>5. QED
    BY <1>5, <2>2, <2>3, <2>4
<1>7. CASE /\ inode_table[inum].i_size > 0
           /\ free_blocks' = [free_blocks EXCEPT ![inode_table[inum].i_data_block] = FREE]
           /\ inode_table' = [inode_table EXCEPT ![inum].i_size = 0]
  <2>1. UNCHANGED <<status, freeinode_ts, dir, fs_data>>
    BY <1>3 DEF OpenExisting
  <2>2. /\ inode_table' \in [Inode -> InodeRecord]
        /\ \A i \in Inode : i # inum => inode_table'[i] = inode_table[i]
    <3>1. 0 \in 0 .. BLOCK_SIZE
      BY SizeAssumption
    <3>2. QED
      BY <1>1, <1>7, <3>1 DEF TypeOK, InodeRecord
  <2>3. /\ inode_table'[inum].i_size = 0
        /\ inode_table'[inum].i_data_block = inode_table[inum].i_data_block
        /\ inode_table'[inum].i_node_type = inode_table[inum].i_node_type
    BY <1>1, <1>2, <1>7 DEF TypeOK, InodeRecord
  <2>4. TypeOK'
    BY <1>5, <1>7, <2>1, <2>2 DEF TypeOK
  <2>5. BlocksExclusive'
    BY <1>1, <1>3, <1>7, <2>1, <2>2, <2>3 DEF BlocksExclusive, OwnsBlock, Live, TypeOK
  <2>6. DirectoryMatchesInodes'
    <3>1. \A i \in Inode : inode_table'[i].i_node_type = inode_table[i].i_node_type
      BY <2>2, <2>3
    <3>2. \A s \in DirSlot : dir[s].d_inumber \in {-1} \cup Inode
      BY DEF TypeOK, DirEntry
    <3>3. QED
      BY <2>1, <3>1, <3>2
         DEF DirectoryMatchesInodes, EntriesNameFiles, EntriesDistinct, FilesHaveEntries, Live
  <2>7. DirectoryBlockPrivate'
    <3>1. ROOT_DIR_INUM \in Inode
      BY SizeAssumption DEF ROOT_DIR_INUM, Inode
    <3>2. QED
      BY <1>1, <2>1, <2>2, <2>3, <3>1 DEF DirectoryBlockPrivate, Live
  <2>8. SizedInodesHaveBlocks'
    BY <2>2, <2>3 DEF SizedInodesHaveBlocks
  <2>9. DownIsEmpty'
    BY <2>1 DEF DownIsEmpty
  <2>10. QED
    BY <1>5, <2>4, <2>5, <2>6, <2>7, <2>8, <2>9
<1>8. QED
  BY <1>3, <1>6, <1>7 DEF OpenExisting

-----------------------------------------------------------------------------
(* The root is allocated and owns block 0, so no allocation returns either. *)
LEMMA AllocationsAvoidRoot ==
    ASSUME IInv, status = "up"
    PROVE  /\ inode_alloc # -1 =>
                  /\ inode_alloc \in Inode \ {ROOT_DIR_INUM}
                  /\ ~Live(inode_alloc)
           /\ data_block_alloc # -1 =>
                  /\ data_block_alloc \in Block \ {0}
                  /\ free_blocks[data_block_alloc] = FREE
<1>1. Live(ROOT_DIR_INUM) /\ inode_table[ROOT_DIR_INUM] = RootInode
  BY DEF IInv, DirectoryBlockPrivate
<1>2. ROOT_DIR_INUM \in Inode
  BY SizeAssumption DEF ROOT_DIR_INUM, Inode
<1>3. RootInode.i_size > 0 /\ RootInode.i_data_block = 0
  BY SizeAssumption DEF RootInode
<1>4. free_blocks[0] = TAKEN
  BY <1>1, <1>2, <1>3 DEF IInv, BlocksExclusive, OwnsBlock
<1>5. QED
  BY <1>1, <1>4, AllocatedWasFree DEF IInv, TypeOK, Live, FREE, TAKEN

(* Creating a file: the inode and the directory entry come together or not  *)
(* at all.                                                                  *)
LEMMA OpenNewOK ==
    ASSUME IInv, status = "up",
           NEW path \in ValidPath, tfs_lookup(path) = -1, NEW fh, OpenNew(path, fh)
    PROVE  IInv'
<1> DEFINE inum == inode_alloc
           slot == Lowest(EmptyDirSlots)
<1> USE DEF IInv
<1>1. /\ inum \in Inode \ {ROOT_DIR_INUM}
      /\ ~Live(inum)
      /\ inode_table' = [inode_table EXCEPT ![inum] = EmptyFile]
      /\ UNCHANGED <<status, fs_data, free_blocks>>
  BY AllocationsAvoidRoot DEF OpenNew, blockVars
<1>2. slot # -1 => slot \in DirSlot /\ dir[slot].d_inumber = -1
  BY LowestIsMember DEF EmptyDirSlots
<1>3. \A s \in DirSlot : dir[s].d_inumber # inum /\ dir[s].d_name # path
  BY <1>1, LookupNotFound, SizeAssumption DEF DirectoryMatchesInodes, EntriesNameFiles, Inode
<1>4. \/ /\ path \in StorablePath /\ slot # -1
         /\ freeinode_ts' = [freeinode_ts EXCEPT ![inum] = TAKEN]
         /\ dir' = [dir EXCEPT ![slot] = [d_inumber |-> inum, d_name |-> path]]
         /\ add_to_open_file_table(inum, 0, fh)
      \/ UNCHANGED <<freeinode_ts, dir, fileVars>>
  BY DEF OpenNew
<1> HIDE DEF inum, slot
<1>5. /\ EmptyFile \in InodeRecord
      /\ EmptyFile.i_size = 0
      /\ EmptyFile.i_data_block = -1
      /\ EmptyFile.i_node_type = "T_FILE"
  BY SizeAssumption DEF EmptyFile, InodeRecord
<1>6. /\ inode_table' \in [Inode -> InodeRecord]
      /\ inode_table'[inum] = EmptyFile
      /\ \A i \in Inode : i # inum => inode_table'[i] = inode_table[i]
  BY <1>1, <1>5 DEF TypeOK
<1>7. SizedInodesHaveBlocks'
  BY <1>5, <1>6 DEF SizedInodesHaveBlocks
<1>8. DownIsEmpty'
  BY <1>1 DEF DownIsEmpty
<1>9. CASE UNCHANGED <<freeinode_ts, dir, fileVars>>
  <2>1. TypeOK' /\ NoHandleOnRoot'
    BY <1>1, <1>6, <1>9 DEF TypeOK, NoHandleOnRoot, HandleIsOpen, HandleInode, fileVars
  <2>2. BlocksExclusive'
    BY <1>1, <1>5, <1>6, <1>9 DEF BlocksExclusive, OwnsBlock, Live
  <2>3. DirectoryMatchesInodes'
    <3>1. \A s \in DirSlot : dir[s].d_inumber # -1 => dir[s].d_inumber \in Inode
      BY DEF TypeOK, DirEntry
    <3>2. QED
      BY <1>3, <1>6, <1>9, <3>1
         DEF DirectoryMatchesInodes, EntriesNameFiles, EntriesDistinct, FilesHaveEntries, Live
  <2>4. DirectoryBlockPrivate'
    <3>1. ROOT_DIR_INUM \in Inode
      BY SizeAssumption DEF ROOT_DIR_INUM, Inode
    <3>2. QED
      BY <1>1, <1>5, <1>6, <1>9, <3>1 DEF DirectoryBlockPrivate, Live
  <2>5. QED
    BY <1>7, <1>8, <2>1, <2>2, <2>3, <2>4
<1>10. CASE /\ path \in StorablePath /\ slot # -1
            /\ freeinode_ts' = [freeinode_ts EXCEPT ![inum] = TAKEN]
            /\ dir' = [dir EXCEPT ![slot] = [d_inumber |-> inum, d_name |-> path]]
            /\ add_to_open_file_table(inum, 0, fh)
  <2> DEFINE entry == [d_inumber |-> inum, d_name |-> path]
  <2>1. /\ open_file_table' \in [Handle -> OpenFileEntry]
        /\ free_open_file_entries' \in [Handle -> {FREE, TAKEN}]
        /\ NoHandleOnRoot'
    <3>1. 0 \in 0 .. SIZE_MOD - 1
      BY SizeAssumption
    <3>2. QED
      BY <1>1, <1>10, <3>1, HandleAdded
  <2>2. entry \in DirEntry /\ entry.d_inumber = inum /\ entry.d_name = path
    BY <1>1, <1>10 DEF DirEntry
  <2>3. dir' = [dir EXCEPT ![slot] = entry]
    BY <1>10
  <2> HIDE DEF entry
  <2>4. /\ dir' \in [DirSlot -> DirEntry]
        /\ dir'[slot] = entry
        /\ \A s \in DirSlot : s # slot => dir'[s] = dir[s]
    BY <1>2, <1>10, <2>2, <2>3 DEF TypeOK
  <2>5. /\ freeinode_ts' \in [Inode -> {FREE, TAKEN}]
        /\ freeinode_ts'[inum] = TAKEN
        /\ \A i \in Inode : i # inum => freeinode_ts'[i] = freeinode_ts[i]
    BY <1>1, <1>10 DEF TypeOK
  <2>6. TypeOK'
    BY <1>1, <1>6, <2>1, <2>4, <2>5 DEF TypeOK
  <2>7. BlocksExclusive'
    BY <1>1, <1>5, <1>6, <2>5 DEF BlocksExclusive, OwnsBlock, Live
  <2>8. DirectoryMatchesInodes'
    <3>1. \A s \in DirSlot : dir[s].d_inumber # -1 => dir[s].d_inumber \in Inode
      BY DEF TypeOK, DirEntry
    <3>2. inum # -1 /\ inum # ROOT_DIR_INUM /\ path # NoName
      BY <1>1, SizeAssumption, PathAssumption DEF Inode
    <3>3. EntriesNameFiles'
      <4> SUFFICES ASSUME NEW s \in DirSlot
                   PROVE  IF dir'[s].d_inumber = -1
                          THEN dir'[s].d_name = NoName
                          ELSE /\ dir'[s].d_name # NoName
                               /\ dir'[s].d_inumber # ROOT_DIR_INUM
                               /\ freeinode_ts'[dir'[s].d_inumber] = TAKEN
                               /\ inode_table'[dir'[s].d_inumber].i_node_type = "T_FILE"
        BY DEF EntriesNameFiles, Live
      <4>1. CASE s = slot
        BY <4>1, <1>5, <1>6, <2>2, <2>4, <2>5, <3>2
      <4>2. CASE s # slot
        BY <4>2, <1>3, <1>6, <2>4, <2>5, <3>1 DEF DirectoryMatchesInodes, EntriesNameFiles, Live
      <4>3. QED
        BY <4>1, <4>2
    <3>4. EntriesDistinct'
      BY <1>3, <2>2, <2>4 DEF DirectoryMatchesInodes, EntriesDistinct
    <3>5. FilesHaveEntries'
      <4> SUFFICES ASSUME NEW i \in Inode \ {ROOT_DIR_INUM}, Live(i)'
                   PROVE  \E s \in DirSlot : dir'[s].d_inumber = i
        BY DEF FilesHaveEntries
      <4>1. CASE i = inum
        BY <4>1, <1>2, <1>10, <2>2, <2>4
      <4>2. CASE i # inum
        <5>1. PICK s \in DirSlot : dir[s].d_inumber = i
          BY <4>2, <2>5 DEF DirectoryMatchesInodes, FilesHaveEntries, Live
        <5>2. i # -1
          BY SizeAssumption DEF Inode
        <5>3. s # slot
          BY <1>2, <1>10, <5>1, <5>2
        <5>4. QED
          BY <2>4, <5>1, <5>3
      <4>3. QED
        BY <4>1, <4>2
    <3>6. QED
      BY <3>3, <3>4, <3>5 DEF DirectoryMatchesInodes
  <2>9. DirectoryBlockPrivate'
    <3>1. ROOT_DIR_INUM \in Inode
      BY SizeAssumption DEF ROOT_DIR_INUM, Inode
    <3>2. QED
      BY <1>1, <1>5, <1>6, <2>5, <3>1 DEF DirectoryBlockPrivate, Live
  <2>10. QED
    BY <1>7, <1>8, <2>1, <2>6, <2>7, <2>8, <2>9
<1>11. QED
  BY <1>4, <1>9, <1>10

-----------------------------------------------------------------------------
(* A call that fails changes nothing.                                       *)
LEMMA StutterOK ==
    ASSUME IInv, UNCHANGED vars
    PROVE  IInv'
<1>1. UNCHANGED <<status, inode_table, freeinode_ts, dir, fs_data, free_blocks, open_file_table,
                  free_open_file_entries>>
  BY DEF vars, inodeVars, blockVars, fileVars
<1>2. TypeOK'
  BY <1>1 DEF IInv, TypeOK
<1>3. BlocksExclusive' /\ DirectoryBlockPrivate' /\ SizedInodesHaveBlocks' /\ DownIsEmpty'
  BY <1>1 DEF IInv, BlocksExclusive, DirectoryBlockPrivate, SizedInodesHaveBlocks, DownIsEmpty,
              OwnsBlock, Live
<1>4. DirectoryMatchesInodes'
  BY <1>1 DEF IInv, DirectoryMatchesInodes, EntriesNameFiles, EntriesDistinct, FilesHaveEntries,
              Live
<1>5. NoHandleOnRoot'
  BY <1>1 DEF IInv, NoHandleOnRoot, HandleIsOpen, HandleInode
<1>6. QED
  BY <1>2, <1>3, <1>4, <1>5 DEF IInv

(* A failed assertion or a wild copy stops the process as it stands.        *)
LEMMA CrashOK ==
    ASSUME IInv, status = "up", status' \in {"panic", "segv"},
           UNCHANGED <<inodeVars, dir, blockVars, fileVars>>
    PROVE  IInv'
<1>1. UNCHANGED <<inode_table, freeinode_ts, dir, fs_data, free_blocks, open_file_table,
                  free_open_file_entries>>
  BY DEF inodeVars, blockVars, fileVars
<1>2. TypeOK'
  BY <1>1 DEF IInv, TypeOK
<1>3. BlocksExclusive' /\ DirectoryBlockPrivate' /\ SizedInodesHaveBlocks' /\ DownIsEmpty'
  BY <1>1 DEF IInv, BlocksExclusive, DirectoryBlockPrivate, SizedInodesHaveBlocks, DownIsEmpty,
              OwnsBlock, Live
<1>4. DirectoryMatchesInodes'
  BY <1>1 DEF IInv, DirectoryMatchesInodes, EntriesNameFiles, EntriesDistinct, FilesHaveEntries,
              Live
<1>5. NoHandleOnRoot'
  BY <1>1 DEF IInv, NoHandleOnRoot, HandleIsOpen, HandleInode
<1>6. QED
  BY <1>2, <1>3, <1>4, <1>5 DEF IInv

(* Only the open file table changes, and no handle moves to another file.   *)
LEMMA HandlesOnlyOK ==
    ASSUME IInv, status = "up", UNCHANGED <<status, inodeVars, dir, blockVars>>,
           open_file_table' \in [Handle -> OpenFileEntry],
           free_open_file_entries' \in [Handle -> {FREE, TAKEN}],
           NoHandleOnRoot'
    PROVE  IInv'
<1>1. UNCHANGED <<status, inode_table, freeinode_ts, dir, fs_data, free_blocks>>
  BY DEF inodeVars, blockVars
<1>2. TypeOK'
  BY <1>1 DEF IInv, TypeOK
<1>3. BlocksExclusive' /\ DirectoryBlockPrivate' /\ SizedInodesHaveBlocks' /\ DownIsEmpty'
  BY <1>1 DEF IInv, BlocksExclusive, DirectoryBlockPrivate, SizedInodesHaveBlocks, DownIsEmpty,
              OwnsBlock, Live
<1>4. DirectoryMatchesInodes'
  BY <1>1 DEF IInv, DirectoryMatchesInodes, EntriesNameFiles, EntriesDistinct, FilesHaveEntries,
              Live
<1>5. QED
  BY <1>2, <1>3, <1>4 DEF IInv

(* tfs_open(), whichever way it goes.                                       *)
LEMMA tfs_openOK ==
    ASSUME IInv, NEW path, NEW mode, NEW fh, tfs_open(path, mode, fh)
    PROVE  IInv'
<1>1. CASE tfs_lookup(path) # -1 /\ OpenExisting(tfs_lookup(path), mode, fh)
  BY <1>1, OpenExistingOK DEF tfs_open
<1>2. CASE valid_pathname(path) /\ tfs_lookup(path) = -1 /\ OpenNew(path, fh)
  BY <1>2, OpenNewOK DEF tfs_open, valid_pathname
<1>3. CASE UNCHANGED vars
  BY <1>3, StutterOK
<1>4. QED
  BY <1>1, <1>2, <1>3 DEF tfs_open

(* tfs_close() frees an entry of the open file table.                       *)
LEMMA tfs_closeOK ==
    ASSUME IInv, NEW fh, NEW ret, tfs_close(fh, ret)
    PROVE  IInv'
<1>1. CASE UNCHANGED vars
  BY <1>1, StutterOK
<1>2. CASE /\ HandleIsOpen(fh)
           /\ free_open_file_entries' = [free_open_file_entries EXCEPT ![fh] = FREE]
           /\ UNCHANGED <<status, inodeVars, dir, blockVars, open_file_table>>
  <2>1. free_open_file_entries' \in [Handle -> {FREE, TAKEN}]
    BY <1>2 DEF IInv, TypeOK
  <2>2. \A h \in Handle : free_open_file_entries'[h] = TAKEN => free_open_file_entries[h] = TAKEN
    BY <1>2 DEF IInv, TypeOK, HandleIsOpen, FREE, TAKEN
  <2>3. NoHandleOnRoot'
    BY <1>2, <2>2 DEF IInv, NoHandleOnRoot, HandleIsOpen, HandleInode
  <2>4. open_file_table' \in [Handle -> OpenFileEntry]
    BY <1>2 DEF IInv, TypeOK
  <2>5. QED
    BY <1>2, <2>1, <2>3, <2>4, HandlesOnlyOK DEF tfs_close
<1>3. QED
  BY <1>1, <1>2 DEF tfs_close

(* Moving a handle's offset leaves it on its file.                          *)
LEMMA OffsetMoved ==
    ASSUME IInv, NEW fh, HandleIsOpen(fh), NEW offset \in 0 .. SIZE_MOD - 1,
           open_file_table' = [open_file_table EXCEPT ![fh].of_offset = offset],
           UNCHANGED free_open_file_entries
    PROVE  /\ open_file_table' \in [Handle -> OpenFileEntry]
           /\ free_open_file_entries' \in [Handle -> {FREE, TAKEN}]
           /\ NoHandleOnRoot'
<1>1. /\ open_file_table' \in [Handle -> OpenFileEntry]
      /\ free_open_file_entries' \in [Handle -> {FREE, TAKEN}]
  BY DEF IInv, TypeOK, OpenFileEntry, HandleIsOpen
<1>2. \A h \in Handle : open_file_table'[h].of_inumber = open_file_table[h].of_inumber
  BY DEF IInv, TypeOK, OpenFileEntry, HandleIsOpen
<1>3. NoHandleOnRoot'
  BY <1>2 DEF IInv, NoHandleOnRoot, HandleIsOpen, HandleInode
<1>4. QED
  BY <1>1, <1>3

(* tfs_read() moves an offset, or stops the process.                        *)
LEMMA tfs_readOK ==
    ASSUME IInv, NEW fh, NEW len \in 1 .. MaxIO, NEW ret, tfs_read(fh, len, ret)
    PROVE  IInv'
<1>1. CASE UNCHANGED vars
  BY <1>1, StutterOK
<1>2. CASE status' \in {"panic", "segv"} /\ UNCHANGED <<inodeVars, dir, blockVars, fileVars>>
  BY <1>2, CrashOK DEF tfs_read
<1>3. ASSUME HandleIsOpen(fh), ReadCount(fh, len) > 0,
             HandleOffset(fh) + ReadCount(fh, len) <= MaxOffset,
             open_file_table' = [open_file_table EXCEPT
                 ![fh].of_offset = HandleOffset(fh) + ReadCount(fh, len)],
             UNCHANGED <<status, inodeVars, dir, blockVars, free_open_file_entries>>
      PROVE  IInv'
  <2>1. HandleOffset(fh) \in 0 .. SIZE_MOD - 1 /\ HandleInode(fh) \in Inode
    BY <1>3 DEF IInv, TypeOK, OpenFileEntry, HandleIsOpen, HandleOffset, HandleInode
  <2>2. inode_table[HandleInode(fh)].i_size \in 0 .. BLOCK_SIZE
    BY <2>1 DEF IInv, TypeOK, InodeRecord
  <2>3. ReadCount(fh, len) \in Int
    BY <2>1, <2>2, SizeAssumption DEF ReadCount, SizeSub
  <2>4. HandleOffset(fh) + ReadCount(fh, len) \in 0 .. SIZE_MOD - 1
    BY <1>3, <2>1, <2>3, SizeAssumption
  <2>5. QED
    BY <1>3, <2>4, OffsetMoved, HandlesOnlyOK DEF tfs_read
<1>4. QED
  BY <1>1, <1>2, <1>3 DEF tfs_read

-----------------------------------------------------------------------------
(* A count that did not wrap ends within the block.                         *)
LEMMA WriteFits ==
    ASSUME TypeOK, NEW fh, HandleIsOpen(fh), NEW len \in 1 .. MaxIO,
           WriteCount(fh, len) \in 1 .. BLOCK_SIZE
    PROVE  HandleOffset(fh) \in Nat /\ HandleOffset(fh) + WriteCount(fh, len) <= BLOCK_SIZE
<1>1. HandleOffset(fh) \in 0 .. SIZE_MOD - 1
  BY DEF TypeOK, OpenFileEntry, HandleIsOpen, HandleOffset
<1>2. QED
  BY <1>1, SizeAssumption DEF WriteCount, SizeSub

(* The block a write goes to: not the directory's, and if it was free, then *)
(* nobody's.                                                                *)
LEMMA WriteBlockIsOwn ==
    ASSUME IInv, status = "up", NEW inum \in Inode \ {ROOT_DIR_INUM}, WriteBlock(inum) # -1
    PROVE  /\ WriteBlock(inum) \in Block \ {0}
           /\ inode_table[inum].i_size = 0 => free_blocks[WriteBlock(inum)] = FREE
           /\ inode_table[inum].i_size # 0 => WriteBlock(inum) = inode_table[inum].i_data_block
<1>1. inode_table[inum].i_size \in Nat
  BY SizeAssumption DEF IInv, TypeOK, InodeRecord
<1>2. CASE inode_table[inum].i_size = 0
  BY <1>2, AllocationsAvoidRoot DEF WriteBlock
<1>3. CASE inode_table[inum].i_size # 0
  BY <1>1, <1>3 DEF IInv, WriteBlock, SizedInodesHaveBlocks, DirectoryBlockPrivate
<1>4. QED
  BY <1>2, <1>3

(* Storing bytes: the file has the block to itself, and it is taken.        *)
LEMMA StoreBytesOK ==
    ASSUME IInv, status = "up", NEW fh, HandleIsOpen(fh),
           NEW inum, inum = HandleInode(fh), NEW b, b = WriteBlock(inum), b # -1,
           NEW n \in 1 .. BLOCK_SIZE, HandleOffset(fh) \in Nat,
           HandleOffset(fh) + n <= BLOCK_SIZE,
           NEW byte \in Byte, StoreBytes(fh, inum, b, n, byte),
           UNCHANGED <<status, freeinode_ts, dir, free_open_file_entries>>
    PROVE  IInv'
<1> DEFINE end == HandleOffset(fh) + n
           size == Max2(inode_table[inum].i_size, end)
<1>1. inum \in Inode \ {ROOT_DIR_INUM}
  BY DEF IInv, TypeOK, OpenFileEntry, NoHandleOnRoot, HandleIsOpen, HandleInode
<1>2. /\ b \in Block \ {0}
      /\ inode_table[inum].i_size = 0 => free_blocks[b] = FREE
      /\ inode_table[inum].i_size # 0 => b = inode_table[inum].i_data_block
  BY <1>1, WriteBlockIsOwn
<1>3. inode_table[inum].i_size \in 0 .. BLOCK_SIZE
  BY <1>1 DEF IInv, TypeOK, InodeRecord
<1>4. size \in 1 .. BLOCK_SIZE /\ end \in 0 .. SIZE_MOD - 1
  BY <1>3, SizeAssumption DEF Max2
<1>5. /\ inode_table' = [inode_table EXCEPT ![inum].i_data_block = b, ![inum].i_size = size]
      /\ open_file_table' = [open_file_table EXCEPT ![fh].of_offset = end]
      /\ inode_table[inum].i_size = 0 => free_blocks' = [free_blocks EXCEPT ![b] = TAKEN]
      /\ inode_table[inum].i_size # 0 => UNCHANGED free_blocks
  BY DEF StoreBytes
<1>6. fs_data' \in [Block -> [Offset -> Byte]]
  <2> DEFINE contents ==
        [k \in Offset |-> IF HandleOffset(fh) <= k /\ k < end THEN byte ELSE fs_data[b][k]]
  <2>1. fs_data' = [fs_data EXCEPT ![b] = contents]
    BY DEF StoreBytes
  <2>2. contents \in [Offset -> Byte]
    BY <1>2 DEF IInv, TypeOK
  <2> HIDE DEF contents
  <2>3. QED
    BY <2>1, <2>2 DEF IInv, TypeOK
<1> HIDE DEF size, end
<1>7. /\ inode_table' \in [Inode -> InodeRecord]
      /\ \A i \in Inode : i # inum => inode_table'[i] = inode_table[i]
  <2>1. size \in 0 .. BLOCK_SIZE /\ b \in {-1} \cup Block
    BY <1>2, <1>4, SizeAssumption
  <2> DEFINE table == [inode_table EXCEPT ![inum].i_data_block = b]
  <2>2. inode_table' \in [Inode -> InodeRecord]
    <3>1. inode_table' = [table EXCEPT ![inum].i_size = size]
      BY <1>5
    <3>2. table \in [Inode -> InodeRecord]
      BY <1>1, <2>1 DEF IInv, TypeOK, InodeRecord
    <3> HIDE DEF table
    <3>3. QED
      BY <1>1, <2>1, <3>1, <3>2 DEF InodeRecord
  <2>3. \A i \in Inode : i # inum => inode_table'[i] = inode_table[i]
    BY <1>5 DEF IInv, TypeOK
  <2>4. QED
    BY <2>2, <2>3
<1>8. /\ inode_table'[inum].i_size = size
      /\ inode_table'[inum].i_data_block = b
      /\ inode_table'[inum].i_node_type = inode_table[inum].i_node_type
  BY <1>1, <1>5 DEF IInv, TypeOK, InodeRecord
<1>9. /\ open_file_table' \in [Handle -> OpenFileEntry]
      /\ NoHandleOnRoot'
  BY <1>4, <1>5, OffsetMoved
<1>10. /\ free_blocks' \in [Block -> {FREE, TAKEN}]
       /\ inode_table[inum].i_size = 0 => free_blocks'[b] = TAKEN
       /\ \A c \in Block : free_blocks[c] = TAKEN => free_blocks'[c] = TAKEN
  BY <1>2, <1>5 DEF IInv, TypeOK
<1>11. TypeOK'
  BY <1>6, <1>7, <1>9, <1>10 DEF IInv, TypeOK
<1>12. BlocksExclusive'
  <2>1. \A i \in Inode : i # inum /\ OwnsBlock(i) => inode_table[i].i_data_block # b \/ ~Live(inum)
    BY <1>1, <1>2, <1>3 DEF IInv, BlocksExclusive, OwnsBlock, FREE, TAKEN
  <2>2. \A i \in Inode : i # inum => (OwnsBlock(i)' <=> OwnsBlock(i))
    BY <1>7 DEF OwnsBlock, Live
  <2>3. OwnsBlock(inum)' => free_blocks'[b] = TAKEN
    BY <1>1, <1>2, <1>3, <1>10 DEF IInv, BlocksExclusive, OwnsBlock, Live
  <2>4. \A i \in Inode : OwnsBlock(i)' =>
            /\ inode_table'[i].i_data_block \in Block
            /\ free_blocks'[inode_table'[i].i_data_block] = TAKEN
    BY <1>2, <1>7, <1>8, <1>10, <2>2, <2>3 DEF IInv, BlocksExclusive
  <2>5. \A i, j \in Inode : OwnsBlock(i)' /\ OwnsBlock(j)' /\ i # j =>
            inode_table'[i].i_data_block # inode_table'[j].i_data_block
    <3>1. OwnsBlock(inum)' => Live(inum)
      BY DEF OwnsBlock, Live
    <3>2. QED
      BY <1>7, <1>8, <2>1, <2>2, <3>1 DEF IInv, BlocksExclusive
  <2>6. QED
    BY <2>4, <2>5 DEF BlocksExclusive
<1>13. DirectoryMatchesInodes'
  <2>1. \A i \in Inode : inode_table'[i].i_node_type = inode_table[i].i_node_type
    BY <1>7, <1>8
  <2>2. \A s \in DirSlot : dir[s].d_inumber \in {-1} \cup Inode
    BY DEF IInv, TypeOK, DirEntry
  <2>3. QED
    BY <2>1, <2>2
       DEF IInv, DirectoryMatchesInodes, EntriesNameFiles, EntriesDistinct, FilesHaveEntries, Live
<1>14. DirectoryBlockPrivate'
  <2>1. ROOT_DIR_INUM \in Inode
    BY SizeAssumption DEF ROOT_DIR_INUM, Inode
  <2>2. QED
    BY <1>1, <1>2, <1>7, <1>8, <2>1 DEF IInv, DirectoryBlockPrivate, Live
<1>15. SizedInodesHaveBlocks'
  BY <1>2, <1>7, <1>8 DEF IInv, SizedInodesHaveBlocks
<1>16. DownIsEmpty'
  BY DEF DownIsEmpty
<1>17. QED
  BY <1>9, <1>11, <1>12, <1>13, <1>14, <1>15, <1>16 DEF IInv

(* tfs_write(), whichever way it goes.                                      *)
LEMMA tfs_writeOK ==
    ASSUME IInv, NEW fh, NEW len \in 1 .. MaxIO, NEW byte \in Byte, NEW ret,
           tfs_write(fh, len, byte, ret)
    PROVE  IInv'
<1> DEFINE inum == HandleInode(fh)
           n == WriteCount(fh, len)
           b == WriteBlock(inum)
<1>1. CASE UNCHANGED vars
  BY <1>1, StutterOK
<1>2. CASE status' = "segv" /\ UNCHANGED <<inodeVars, dir, blockVars, fileVars>>
  BY <1>2, CrashOK DEF tfs_write
<1>3. ASSUME HandleIsOpen(fh), n \in 1 .. BLOCK_SIZE, b # -1, StoreBytes(fh, inum, b, n, byte),
             UNCHANGED <<status, freeinode_ts, dir, free_open_file_entries>>
      PROVE  IInv'
  <2>1. HandleOffset(fh) \in Nat /\ HandleOffset(fh) + n <= BLOCK_SIZE
    BY <1>3, WriteFits DEF IInv
  <2>2. status = "up"
    BY DEF tfs_write
  <2> HIDE DEF inum, n, b
  <2>3. inum = HandleInode(fh) /\ b = WriteBlock(inum)
    BY DEF inum, b
  <2>4. QED
    BY <1>3, <2>1, <2>2, <2>3, StoreBytesOK
<1>4. QED
  BY <1>1, <1>2, <1>3 DEF tfs_write

-----------------------------------------------------------------------------
(* Removing a file: its inode, its block and its entry go together.         *)
LEMMA FileRemoved ==
    ASSUME IInv, status = "up", NEW path, NEW ret,
           NEW inum, inum = tfs_lookup(path), inum # -1,
           inode_delete(inum), clear_dir_entry(path, ret), UNCHANGED <<status, fileVars>>
    PROVE  IInv'
<1>1. inum \in Inode \ {ROOT_DIR_INUM} /\ Live(inum)
  BY LookupIsFile DEF IInv
<1>2. PICK s \in DirSlot : /\ dir[s].d_inumber = inum
                           /\ SlotsNamed(path) = {s}
                           /\ Lowest(SlotsNamed(path)) = s
  BY LookupFound DEF IInv
<1> DEFINE unused == [d_inumber |-> -1, d_name |-> NoName]
<1>3. dir' = [dir EXCEPT ![s] = unused]
  BY <1>2 DEF clear_dir_entry
<1>4. unused \in DirEntry /\ unused.d_inumber = -1 /\ unused.d_name = NoName
  BY DEF DirEntry
<1> HIDE DEF unused
<1>5. /\ dir' \in [DirSlot -> DirEntry]
      /\ dir'[s] = unused
      /\ \A t \in DirSlot : t # s => dir'[t] = dir[t]
  BY <1>3, <1>4 DEF IInv, TypeOK
<1>6. /\ freeinode_ts' \in [Inode -> {FREE, TAKEN}]
      /\ ~Live(inum)'
      /\ \A i \in Inode : i # inum => freeinode_ts'[i] = freeinode_ts[i]
  BY <1>1 DEF IInv, TypeOK, inode_delete, Live, FREE, TAKEN
<1>7. UNCHANGED <<status, inode_table, fs_data, open_file_table, free_open_file_entries>>
  BY DEF inode_delete, fileVars
<1>8. free_blocks' \in [Block -> {FREE, TAKEN}]
  BY DEF IInv, TypeOK, inode_delete
<1>9. \A c \in Block : free_blocks[c] = TAKEN /\ free_blocks'[c] # TAKEN =>
          c = inode_table[inum].i_data_block /\ OwnsBlock(inum)
  BY <1>1 DEF IInv, TypeOK, inode_delete, OwnsBlock
<1>10. TypeOK'
  BY <1>5, <1>6, <1>7, <1>8 DEF IInv, TypeOK
<1>11. BlocksExclusive'
  BY <1>1, <1>6, <1>7, <1>9 DEF IInv, BlocksExclusive, OwnsBlock, Live
<1>12. DirectoryMatchesInodes'
  <2>1. \A t \in DirSlot : dir[t].d_inumber # -1 => dir[t].d_inumber \in Inode
    BY DEF IInv, TypeOK, DirEntry
  <2>2. inum # -1
    BY <1>1, SizeAssumption DEF Inode
  <2>3. \A t \in DirSlot : t # s => dir[t].d_inumber # inum
    BY <1>2, <2>2 DEF IInv, DirectoryMatchesInodes, EntriesDistinct
  <2>4. EntriesNameFiles'
    <3> SUFFICES ASSUME NEW t \in DirSlot
                 PROVE  IF dir'[t].d_inumber = -1
                        THEN dir'[t].d_name = NoName
                        ELSE /\ dir'[t].d_name # NoName
                             /\ dir'[t].d_inumber # ROOT_DIR_INUM
                             /\ freeinode_ts'[dir'[t].d_inumber] = TAKEN
                             /\ inode_table'[dir'[t].d_inumber].i_node_type = "T_FILE"
      BY DEF EntriesNameFiles, Live
    <3>1. CASE t = s
      BY <3>1, <1>4, <1>5
    <3>2. CASE t # s
      BY <3>2, <1>5, <1>6, <1>7, <2>1, <2>3
         DEF IInv, DirectoryMatchesInodes, EntriesNameFiles, Live
    <3>3. QED
      BY <3>1, <3>2
  <2>5. EntriesDistinct'
    BY <1>4, <1>5 DEF IInv, DirectoryMatchesInodes, EntriesNameFiles, EntriesDistinct
  <2>6. FilesHaveEntries'
    <3> SUFFICES ASSUME NEW i \in Inode \ {ROOT_DIR_INUM}, Live(i)'
                 PROVE  \E t \in DirSlot : dir'[t].d_inumber = i
      BY DEF FilesHaveEntries
    <3>1. i # inum
      BY <1>6
    <3>2. PICK t \in DirSlot : dir[t].d_inumber = i
      BY <1>6, <3>1 DEF IInv, DirectoryMatchesInodes, FilesHaveEntries, Live
    <3>3. t # s
      BY <1>2, <3>1, <3>2
    <3>4. QED
      BY <1>5, <3>2, <3>3
  <2>7. QED
    BY <2>4, <2>5, <2>6 DEF DirectoryMatchesInodes
<1>13. DirectoryBlockPrivate'
  <2>1. ROOT_DIR_INUM \in Inode
    BY SizeAssumption DEF ROOT_DIR_INUM, Inode
  <2>2. QED
    BY <1>1, <1>6, <1>7, <2>1 DEF IInv, DirectoryBlockPrivate, Live
<1>14. SizedInodesHaveBlocks' /\ NoHandleOnRoot'
  BY <1>7 DEF IInv, SizedInodesHaveBlocks, NoHandleOnRoot, HandleIsOpen, HandleInode
<1>15. DownIsEmpty'
  BY <1>7 DEF DownIsEmpty
<1>16. QED
  BY <1>10, <1>11, <1>12, <1>13, <1>14, <1>15 DEF IInv

(* tfs_unlink(), whichever way it goes.                                     *)
LEMMA tfs_unlinkOK ==
    ASSUME IInv, NEW path, NEW ret, tfs_unlink(path, ret)
    PROVE  IInv'
<1>1. CASE UNCHANGED vars
  BY <1>1, StutterOK
<1>2. CASE /\ tfs_lookup(path) # -1
           /\ inode_delete(tfs_lookup(path))
           /\ clear_dir_entry(path, ret)
           /\ UNCHANGED <<status, fileVars>>
  BY <1>2, FileRemoved DEF tfs_unlink
<1>3. QED
  BY <1>1, <1>2 DEF tfs_unlink

-----------------------------------------------------------------------------
(* Every operation preserves the invariant.                                 *)
LEMMA NextOK == IInv /\ [Next]_vars => IInv'
<1> SUFFICES ASSUME IInv, [Next]_vars PROVE IInv'
  OBVIOUS
<1>1. CASE tfs_init
  BY <1>1, tfs_initOK
<1>2. CASE tfs_destroy
  BY <1>2, tfs_destroyOK
<1>3. ASSUME NEW path \in Path, NEW mode \in Mode, NEW fh \in AnyHandle, tfs_open(path, mode, fh)
      PROVE  IInv'
  BY <1>3, tfs_openOK
<1>4. ASSUME NEW fh \in AnyHandle, NEW ret \in {-1, 0}, tfs_close(fh, ret)
      PROVE  IInv'
  BY <1>4, tfs_closeOK
<1>5. ASSUME NEW fh \in AnyHandle, NEW len \in 1 .. MaxIO, NEW byte \in Byte,
             NEW ret \in -1 .. BLOCK_SIZE, tfs_write(fh, len, byte, ret)
      PROVE  IInv'
  BY <1>5, tfs_writeOK
<1>6. ASSUME NEW fh \in AnyHandle, NEW len \in 1 .. MaxIO, NEW ret \in -1 .. MaxIO,
             tfs_read(fh, len, ret)
      PROVE  IInv'
  BY <1>6, tfs_readOK
<1>7. ASSUME NEW path \in Path, NEW ret \in {-1, 0}, tfs_unlink(path, ret)
      PROVE  IInv'
  BY <1>7, tfs_unlinkOK
<1>8. CASE UNCHANGED vars
  BY <1>8, StutterOK
<1>9. QED
  BY <1>1, <1>2, <1>3, <1>4, <1>5, <1>6, <1>7, <1>8 DEF Next

(* The inductive invariant is an invariant.                                 *)
THEOREM Invariance == Spec => []IInv
BY InitOK, NextOK, PTL DEF Spec

(* The tables of fs/state.c keep their shape under any sequence of calls.   *)
THEOREM TypeCorrect == Spec => []TypeOK
<1>1. IInv => TypeOK
  BY DEF IInv
<1>2. QED
  BY <1>1, Invariance, PTL

(* Whatever handles callers keep, no two files ever share a data block and  *)
(* no file's block is up for allocation.                                    *)
THEOREM NoSharedBlocks == Spec => []BlocksExclusive
<1>1. IInv => BlocksExclusive
  BY DEF IInv
<1>2. QED
  BY <1>1, Invariance, PTL

(* Directory entries and allocated inodes stay in one-to-one                *)
(* correspondence through every path of tfs_open() and tfs_unlink().        *)
THEOREM DirectoryConsistent == Spec => []DirectoryMatchesInodes
<1>1. IInv => DirectoryMatchesInodes
  BY DEF IInv
<1>2. QED
  BY <1>1, Invariance, PTL

(* No write through any handle reaches the directory's block.               *)
THEOREM DirectoryNeverOverwritten == Spec => []DirectoryBlockPrivate
<1>1. IInv => DirectoryBlockPrivate
  BY DEF IInv
<1>2. QED
  BY <1>1, Invariance, PTL

(* data_block_get()'s assertion never fails in tfs_write().                 *)
THEOREM WriteHasBlock == Spec => []SizedInodesHaveBlocks
<1>1. IInv => SizedInodesHaveBlocks
  BY DEF IInv
<1>2. QED
  BY <1>1, Invariance, PTL

=============================================================================
