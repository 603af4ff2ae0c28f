--------------------------- MODULE BoxFilesProofs ---------------------------
(***************************************************************************)
(* The invariants of BoxFiles hold for every size of the tables and every  *)
(* sequence of the broker's calls, and the tables implement AbstractFiles. *)
(***************************************************************************)
EXTENDS BoxFiles, TecnicoFSProofs, WellFoundedInduction

(* The inductive invariant: a read or a write stays within its file because *)
(* sizes fit a block and have one (IInv), and a block has an owner for as   *)
(* long as the handles that grow files are on files that exist.             *)
BoxInv ==
    /\ IInv
    /\ HandlesWithinFiles
    /\ NoBlockLost
    /\ NeverCrashes

-----------------------------------------------------------------------------
(* The initial state satisfies the invariant.                               *)
LEMMA BoxInitOK == Init => BoxInv
<1> SUFFICES ASSUME Init PROVE BoxInv
  OBVIOUS
<1>1. HandlesWithinFiles
  BY DEF Init, HandlesWithinFiles, OpenHandles, HandleIsOpen, FREE, TAKEN
<1>2. NoBlockLost
  BY DEF Init, NoBlockLost, FREE, TAKEN
<1>3. QED
  BY <1>1, <1>2, InitOK DEF Init, BoxInv, NeverCrashes

(* Every step of the broker's file system is a step of the file system.     *)
LEMMA BoxStepIsStep == [BoxNext]_vars => [Next]_vars
BY DEF BoxNext, Next, BoxMode, Mode, UnlinkClosed

(* The root takes inode 0 and block 0 of empty tables.                      *)
LEMMA tfs_initBoxOK ==
    ASSUME BoxInv, tfs_init
    PROVE  HandlesWithinFiles' /\ NoBlockLost' /\ NeverCrashes'
<1>1. /\ freeinode_ts = [i \in Inode |-> FREE]
      /\ free_blocks = [b \in Block |-> FREE]
      /\ free_open_file_entries = [h \in Handle |-> FREE]
  BY DEF tfs_init, BoxInv, IInv, DownIsEmpty
<1>2. ROOT_DIR_INUM \in Inode
  BY SizeAssumption DEF ROOT_DIR_INUM, Inode
<1>3. /\ inode_table'[ROOT_DIR_INUM] = RootInode
      /\ freeinode_ts'[ROOT_DIR_INUM] = TAKEN
      /\ \A b \in Block : free_blocks'[b] = TAKEN => b = 0
  BY <1>1, <1>2 DEF tfs_init, BoxInv, IInv, TypeOK, FREE, TAKEN
<1>4. HandlesWithinFiles'
  BY <1>1 DEF tfs_init, fileVars, HandlesWithinFiles, OpenHandles, HandleIsOpen, FREE, TAKEN
<1>5. OwnsBlock(ROOT_DIR_INUM)' /\ inode_table'[ROOT_DIR_INUM].i_data_block = 0
  BY <1>3, SizeAssumption DEF OwnsBlock, Live, RootInode, ROOT_DIR_INUM
<1>6. NoBlockLost'
  BY <1>2, <1>3, <1>5 DEF NoBlockLost
<1>7. QED
  BY <1>4, <1>6 DEF tfs_init, NeverCrashes

(* Nothing is left.                                                         *)
LEMMA tfs_destroyBoxOK ==
    ASSUME BoxInv, tfs_destroy
    PROVE  HandlesWithinFiles' /\ NoBlockLost' /\ NeverCrashes'
BY DEF tfs_destroy, HandlesWithinFiles, OpenHandles, HandleIsOpen, NoBlockLost, NeverCrashes, FREE, TAKEN

(* A step that changes neither inodes nor blocks loses no block.            *)
LEMMA BlocksStay ==
    ASSUME NoBlockLost, UNCHANGED <<inode_table, freeinode_ts, free_blocks>>
    PROVE  NoBlockLost'
BY DEF NoBlockLost, OwnsBlock, Live

(* A step that changes nothing.                                             *)
LEMMA BoxStutterOK ==
    ASSUME BoxInv, UNCHANGED vars
    PROVE  HandlesWithinFiles' /\ NoBlockLost' /\ NeverCrashes'
BY DEF BoxInv, vars, inodeVars, blockVars, fileVars, HandlesWithinFiles, OpenHandles, HandleIsOpen,
       HandleInode, HandleOffset, Live, NoBlockLost, OwnsBlock, NeverCrashes

-----------------------------------------------------------------------------
(* A new handle on a file that exists, within the file, next to handles     *)
(* whose files stay as they are.                                            *)
LEMMA HandleOpenedWithin ==
    ASSUME TypeOK, HandlesWithinFiles,
           NEW inum \in Inode \ {ROOT_DIR_INUM}, NEW offset, NEW fh,
           add_to_open_file_table(inum, offset, fh),
           freeinode_ts'[inum] = TAKEN, offset <= inode_table'[inum].i_size,
           \A h \in OpenHandles : freeinode_ts'[HandleInode(h)] = TAKEN /\
                                  inode_table'[HandleInode(h)] = inode_table[HandleInode(h)]
    PROVE  HandlesWithinFiles'
<1>1. CASE fh = -1
  <2>1. UNCHANGED fileVars
    BY <1>1 DEF add_to_open_file_table
  <2>2. QED
    BY <2>1 DEF fileVars, HandlesWithinFiles, OpenHandles, HandleIsOpen, HandleInode, HandleOffset, Live
<1>2. CASE fh # -1
  <2>1. fh \in Handle
    BY <1>2, LowestIsMember DEF add_to_open_file_table, FreeSlots, TypeOK
  <2>2. /\ open_file_table'[fh] = [of_inumber |-> inum, of_offset |-> offset]
        /\ \A h \in Handle : h # fh =>
               /\ open_file_table'[h] = open_file_table[h]
               /\ free_open_file_entries'[h] = free_open_file_entries[h]
    BY <1>2, <2>1 DEF add_to_open_file_table, TypeOK
  <2>3. SUFFICES ASSUME NEW h \in Handle, HandleIsOpen(h)'
                 PROVE  /\ HandleInode(h)' # ROOT_DIR_INUM
                        /\ Live(HandleInode(h))'
                        /\ HandleOffset(h)' <= inode_table'[HandleInode(h)'].i_size
    BY DEF HandlesWithinFiles, OpenHandles
  <2>4. CASE h = fh
    BY <2>2, <2>4 DEF HandleInode, HandleOffset, Live
  <2>5. CASE h # fh
    BY <2>2, <2>3, <2>5 DEF HandlesWithinFiles, OpenHandles, HandleIsOpen, HandleInode, HandleOffset, Live
  <2>6. QED
    BY <2>4, <2>5
<1>3. QED
  BY <1>1, <1>2

(* Opening a file that exists, without truncation.                          *)
LEMMA OpenExistingBoxOK ==
    ASSUME BoxInv, status = "up", NEW path, tfs_lookup(path) # -1,
           NEW mode \in BoxMode, NEW fh, OpenExisting(tfs_lookup(path), mode, fh)
    PROVE  HandlesWithinFiles' /\ NoBlockLost' /\ NeverCrashes'
<1> DEFINE inum == tfs_lookup(path)
           offset == IF "TFS_O_APPEND" \in mode THEN inode_table[inum].i_size ELSE 0
<1>1. inum \in Inode \ {ROOT_DIR_INUM} /\ Live(inum)
  BY LookupIsFile DEF BoxInv, IInv
<1>2. inode_table[inum].i_size \in 0 .. BLOCK_SIZE
  BY <1>1 DEF BoxInv, IInv, TypeOK, InodeRecord
<1>3. "TFS_O_TRUNC" \notin mode
  BY DEF BoxMode
<1>4. /\ UNCHANGED <<status, freeinode_ts, inode_table, free_blocks>>
      /\ add_to_open_file_table(inum, offset, fh)
  BY <1>3 DEF OpenExisting
<1>5. offset <= inode_table[inum].i_size
  BY <1>2, SizeAssumption
<1> HIDE DEF inum, offset
<1>6. freeinode_ts'[inum] = TAKEN /\ offset <= inode_table'[inum].i_size
  BY <1>1, <1>4, <1>5 DEF Live
<1>7. \A h \in OpenHandles : freeinode_ts'[HandleInode(h)] = TAKEN /\
                             inode_table'[HandleInode(h)] = inode_table[HandleInode(h)]
  BY <1>4 DEF BoxInv, HandlesWithinFiles, Live
<1>8. HandlesWithinFiles'
  BY <1>1, <1>4, <1>6, <1>7, HandleOpenedWithin DEF BoxInv, IInv
<1>9. QED
  BY <1>4, <1>8, BlocksStay DEF BoxInv, NeverCrashes

(* Creating a file: its inode was free, so no handle was on it and it owned *)
(* no block.                                                                *)
LEMMA OpenNewBoxOK ==
    ASSUME BoxInv, status = "up", NEW path, NEW fh, OpenNew(path, fh)
    PROVE  HandlesWithinFiles' /\ NoBlockLost' /\ NeverCrashes'
<1> DEFINE inum == inode_alloc
<1>1. inum \in Inode /\ freeinode_ts[inum] = FREE
  BY AllocatedWasFree DEF OpenNew, BoxInv, IInv, TypeOK
<1>2. ~Live(inum)
  BY <1>1 DEF Live, FREE, TAKEN
<1>3. inum # ROOT_DIR_INUM
  BY <1>2 DEF BoxInv, IInv, DirectoryBlockPrivate
<1>4. /\ inode_table'[inum] = EmptyFile
      /\ \A i \in Inode : i # inum => inode_table'[i] = inode_table[i]
      /\ UNCHANGED <<status, free_blocks>>
  BY <1>1 DEF OpenNew, BoxInv, IInv, TypeOK, blockVars
<1>5. /\ \A i \in Inode : i # inum => freeinode_ts'[i] = freeinode_ts[i]
      /\ \/ freeinode_ts'[inum] = TAKEN /\ add_to_open_file_table(inum, 0, fh)
         \/ UNCHANGED fileVars
  BY <1>1, FREE # TAKEN DEF OpenNew, BoxInv, IInv, TypeOK, FREE, TAKEN
<1> HIDE DEF inum
<1>6. \A h \in OpenHandles : /\ HandleInode(h) \in Inode
                             /\ HandleInode(h) # inum
  BY <1>2 DEF BoxInv, IInv, TypeOK, OpenFileEntry, HandlesWithinFiles, OpenHandles, HandleInode
<1>7. \A h \in OpenHandles : freeinode_ts'[HandleInode(h)] = TAKEN /\
                             inode_table'[HandleInode(h)] = inode_table[HandleInode(h)]
  BY <1>4, <1>5, <1>6 DEF BoxInv, HandlesWithinFiles, Live
<1>8. HandlesWithinFiles'
  <2>1. CASE freeinode_ts'[inum] = TAKEN /\ add_to_open_file_table(inum, 0, fh)
    <3>1. 0 <= inode_table'[inum].i_size
      BY <1>4 DEF EmptyFile
    <3>2. QED
      BY <1>1, <1>3, <1>7, <2>1, <3>1, HandleOpenedWithin DEF BoxInv, IInv
  <2>2. CASE UNCHANGED fileVars
    BY <1>7, <2>2 DEF BoxInv, fileVars, HandlesWithinFiles, OpenHandles, HandleIsOpen, HandleInode,
                      HandleOffset, Live
  <2>3. QED
    BY <1>5, <2>1, <2>2
<1>9. NoBlockLost'
  BY <1>2, <1>4, <1>5 DEF BoxInv, NoBlockLost, OwnsBlock, Live
<1>10. QED
  BY <1>4, <1>8, <1>9 DEF BoxInv, NeverCrashes

(* tfs_open() in the broker's modes, whichever way it goes.                 *)
LEMMA tfs_openBoxOK ==
    ASSUME BoxInv, NEW path, NEW mode \in BoxMode, NEW fh, tfs_open(path, mode, fh)
    PROVE  HandlesWithinFiles' /\ NoBlockLost' /\ NeverCrashes'
<1>1. CASE tfs_lookup(path) # -1 /\ OpenExisting(tfs_lookup(path), mode, fh)
  BY <1>1, OpenExistingBoxOK DEF tfs_open
<1>2. CASE OpenNew(path, fh)
  BY <1>2, OpenNewBoxOK DEF tfs_open
<1>3. CASE UNCHANGED vars
  BY <1>3, BoxStutterOK
<1>4. QED
  BY <1>1, <1>2, <1>3 DEF tfs_open

(* tfs_close() leaves fewer handles.                                        *)
LEMMA tfs_closeBoxOK ==
    ASSUME BoxInv, NEW fh, NEW ret, tfs_close(fh, ret)
    PROVE  HandlesWithinFiles' /\ NoBlockLost' /\ NeverCrashes'
<1>1. CASE UNCHANGED vars
  BY <1>1, BoxStutterOK
<1>2. ASSUME free_open_file_entries' = [free_open_file_entries EXCEPT ![fh] = FREE],
             UNCHANGED <<status, inodeVars, dir, blockVars, open_file_table>>
      PROVE  HandlesWithinFiles' /\ NoBlockLost' /\ NeverCrashes'
  <2>1. \A h \in Handle : HandleIsOpen(h)' => HandleIsOpen(h)
    BY <1>2 DEF BoxInv, IInv, TypeOK, HandleIsOpen, FREE, TAKEN
  <2>2. HandlesWithinFiles'
    BY <1>2, <2>1 DEF BoxInv, inodeVars, HandlesWithinFiles, OpenHandles, HandleInode, HandleOffset, Live
  <2>3. QED
    BY <1>2, <2>2, BlocksStay DEF BoxInv, inodeVars, blockVars, NeverCrashes
<1>3. QED
  BY <1>1, <1>2 DEF tfs_close

-----------------------------------------------------------------------------
(* What a handle of the broker says of its file.                            *)
LEMMA HandleFacts ==
    ASSUME BoxInv, NEW fh, HandleIsOpen(fh)
    PROVE  /\ HandleInode(fh) \in Inode \ {ROOT_DIR_INUM}
           /\ Live(HandleInode(fh))
           /\ inode_table[HandleInode(fh)].i_size \in 0 .. BLOCK_SIZE
           /\ HandleOffset(fh) \in Nat
           /\ HandleOffset(fh) <= inode_table[HandleInode(fh)].i_size
<1>1. fh \in OpenHandles
  BY DEF OpenHandles, HandleIsOpen
<1>2. HandleInode(fh) \in Inode /\ HandleOffset(fh) \in 0 .. SIZE_MOD - 1
  BY DEF BoxInv, IInv, TypeOK, OpenFileEntry, HandleIsOpen, HandleInode, HandleOffset
<1>3. inode_table[HandleInode(fh)].i_size \in 0 .. BLOCK_SIZE
  BY <1>2 DEF BoxInv, IInv, TypeOK, InodeRecord
<1>4. QED
  BY <1>1, <1>2, <1>3, SizeAssumption DEF BoxInv, HandlesWithinFiles

(* One handle moves, to a place within its file, and no file shrinks.       *)
LEMMA HandleMovedWithin ==
    ASSUME BoxInv, NEW fh, HandleIsOpen(fh), NEW end,
           open_file_table' = [open_file_table EXCEPT ![fh].of_offset = end],
           UNCHANGED <<freeinode_ts, free_open_file_entries>>,
           end <= inode_table'[HandleInode(fh)].i_size,
           \A i \in Inode : inode_table'[i].i_size \in Int /\
                            inode_table[i].i_size <= inode_table'[i].i_size
    PROVE  HandlesWithinFiles'
<1>1. /\ \A h \in Handle : open_file_table'[h].of_inumber = open_file_table[h].of_inumber
      /\ open_file_table'[fh].of_offset = end
      /\ \A h \in Handle : h # fh => open_file_table'[h].of_offset = open_file_table[h].of_offset
  BY DEF BoxInv, IInv, TypeOK, OpenFileEntry, HandleIsOpen
<1>2. SUFFICES ASSUME NEW h \in Handle, HandleIsOpen(h)'
               PROVE  /\ HandleInode(h)' # ROOT_DIR_INUM
                      /\ Live(HandleInode(h))'
                      /\ HandleOffset(h)' <= inode_table'[HandleInode(h)'].i_size
  BY DEF HandlesWithinFiles, OpenHandles
<1>3. HandleIsOpen(h) /\ HandleInode(h)' = HandleInode(h)
  BY <1>1, <1>2 DEF HandleIsOpen, HandleInode
<1>4. /\ HandleInode(h) \in Inode \ {ROOT_DIR_INUM}
      /\ Live(HandleInode(h))
      /\ inode_table[HandleInode(h)].i_size \in 0 .. BLOCK_SIZE
      /\ HandleOffset(h) \in Nat
      /\ HandleOffset(h) <= inode_table[HandleInode(h)].i_size
  BY <1>3, HandleFacts
<1>5. HandleOffset(h)' <= inode_table'[HandleInode(h)].i_size
  <2>1. CASE h = fh
    BY <1>1, <2>1 DEF HandleOffset
  <2>2. CASE h # fh
    <3>1. HandleOffset(h)' = HandleOffset(h)
      BY <1>1, <2>2 DEF HandleOffset
    <3>2. QED
      BY <1>4, <3>1, SizeAssumption
  <2>3. QED
    BY <2>1, <2>2
<1>6. QED
  BY <1>3, <1>4, <1>5 DEF Live

(* A copy that ends within a block of the data ends within the data.        *)
LEMMA BlockWithinData ==
    ASSUME NEW b \in Block, NEW end \in 0 .. BLOCK_SIZE
    PROVE  ~ReadsPastData(b, end)
<1>1. b \in Nat /\ end \in Nat /\ end <= BLOCK_SIZE /\ BLOCK_SIZE \in Nat /\ DATA_BLOCKS \in Nat
  BY SizeAssumption DEF Block
<1>2. DATA_BLOCKS - 1 - b \in Nat
  BY <1>1 DEF Block
<1>3. PICK d \in Nat : DATA_BLOCKS = b + 1 + d
  BY <1>1, <1>2
<1>4. d * BLOCK_SIZE \in Nat /\ b * BLOCK_SIZE \in Nat
  BY <1>1
<1>5. DATA_BLOCKS * BLOCK_SIZE = b * BLOCK_SIZE + BLOCK_SIZE + d * BLOCK_SIZE
  BY <1>1, <1>3
<1>6. QED
  BY <1>1, <1>4, <1>5 DEF ReadsPastData

(* tfs_read() through a handle within its file: the difference does not     *)
(* wrap, the file has a block, and the copy stays in it.                    *)
LEMMA tfs_readBoxOK ==
    ASSUME BoxInv, NEW fh, NEW len \in 1 .. MaxIO, NEW ret, tfs_read(fh, len, ret)
    PROVE  HandlesWithinFiles' /\ NoBlockLost' /\ NeverCrashes'
<1> DEFINE n == ReadCount(fh, len)
           b == inode_table[HandleInode(fh)].i_data_block
           end == HandleOffset(fh) + n
<1>1. CASE UNCHANGED vars
  BY <1>1, BoxStutterOK
<1>2. ASSUME HandleIsOpen(fh), n > 0
      PROVE  HandlesWithinFiles' /\ NoBlockLost' /\ NeverCrashes'
  <2>1. /\ HandleInode(fh) \in Inode \ {ROOT_DIR_INUM}
        /\ inode_table[HandleInode(fh)].i_size \in 0 .. BLOCK_SIZE
        /\ HandleOffset(fh) \in Nat
        /\ HandleOffset(fh) <= inode_table[HandleInode(fh)].i_size
    BY <1>2, HandleFacts
  <2>2. n \in Nat /\ end <= inode_table[HandleInode(fh)].i_size
    BY <1>2, <2>1, SizeAssumption DEF ReadCount, SizeSub
  <2>3. inode_table[HandleInode(fh)].i_size > 0
    BY <1>2, <2>1, <2>2, SizeAssumption
  <2>4. b \in Block
    BY <2>1, <2>3 DEF BoxInv, IInv, SizedInodesHaveBlocks
  <2>5. b # -1
    BY <2>4, SizeAssumption DEF Block
  <2>6. end \in 0 .. BLOCK_SIZE
    BY <2>1, <2>2, SizeAssumption
  <2> HIDE DEF n, b, end
  <2>7. ~ReadsPastData(b, end)
    BY <2>4, <2>6, BlockWithinData
  <2>8. ~(n = 0)
    BY <1>2
  <2>9. /\ open_file_table' = [open_file_table EXCEPT ![fh].of_offset = end]
        /\ UNCHANGED <<status, inodeVars, dir, blockVars, free_open_file_entries>>
    BY <1>2, <2>5, <2>7, <2>8 DEF tfs_read, n, b, end
  <2>10. /\ UNCHANGED <<inode_table, freeinode_ts, free_open_file_entries>>
         /\ end <= inode_table'[HandleInode(fh)].i_size
         /\ \A i \in Inode : inode_table'[i].i_size \in Int /\
                              inode_table[i].i_size <= inode_table'[i].i_size
    BY <2>2, <2>9, SizeAssumption DEF inodeVars, end, BoxInv, IInv, TypeOK, InodeRecord
  <2>11. HandlesWithinFiles'
    BY <1>2, <2>9, <2>10, HandleMovedWithin
  <2>12. QED
    BY <2>9, <2>11, BlocksStay DEF BoxInv, inodeVars, blockVars, NeverCrashes
<1>3. QED
  BY <1>1, <1>2 DEF tfs_read

-----------------------------------------------------------------------------
(* Storing bytes: the file has the block from now on, and no file shrinks.  *)
LEMMA StoreBytesBoxOK ==
    ASSUME BoxInv, status = "up", NEW fh, HandleIsOpen(fh),
           NEW inum, inum = HandleInode(fh), NEW b, b = WriteBlock(inum), b # -1,
           NEW n \in 1 .. BLOCK_SIZE, NEW byte, StoreBytes(fh, inum, b, n, byte),
           UNCHANGED <<status, freeinode_ts, dir, free_open_file_entries>>
    PROVE  HandlesWithinFiles' /\ NoBlockLost' /\ NeverCrashes'
<1> DEFINE end == HandleOffset(fh) + n
           size == Max2(inode_table[inum].i_size, end)
<1>1. /\ inum \in Inode \ {ROOT_DIR_INUM}
      /\ Live(inum)
      /\ inode_table[inum].i_size \in 0 .. BLOCK_SIZE
      /\ HandleOffset(fh) \in Nat
  BY HandleFacts
<1>2. /\ b \in Block
      /\ inode_table[inum].i_size # 0 => b = inode_table[inum].i_data_block
  BY <1>1, WriteBlockIsOwn DEF BoxInv
<1>3. end \in Nat /\ size \in Nat /\ size > 0 /\ end <= size /\ inode_table[inum].i_size <= size
  BY <1>1, SizeAssumption DEF Max2
<1>4. /\ inode_table' = [inode_table EXCEPT ![inum].i_data_block = b, ![inum].i_size = size]
      /\ open_file_table' = [open_file_table EXCEPT ![fh].of_offset = end]
      /\ inode_table[inum].i_size = 0 => free_blocks' = [free_blocks EXCEPT ![b] = TAKEN]
      /\ inode_table[inum].i_size # 0 => UNCHANGED free_blocks
  BY DEF StoreBytes
<1> HIDE DEF size, end
<1>5. \A i \in Inode : i # inum => inode_table'[i] = inode_table[i]
  BY <1>4 DEF BoxInv, IInv, TypeOK
<1>6. inode_table'[inum].i_size = size /\ inode_table'[inum].i_data_block = b
  BY <1>1, <1>4 DEF BoxInv, IInv, TypeOK, InodeRecord
<1>7. \A i \in Inode : inode_table[i].i_size \in Nat
  BY SizeAssumption DEF BoxInv, IInv, TypeOK, InodeRecord
<1>8. HandlesWithinFiles'
  <2>1. \A i \in Inode : inode_table'[i].i_size \in Int /\
                         inode_table[i].i_size <= inode_table'[i].i_size
    BY <1>3, <1>5, <1>6, <1>7
  <2>2. end <= inode_table'[HandleInode(fh)].i_size
    BY <1>3, <1>6
  <2>3. QED
    BY <1>4, <2>1, <2>2, HandleMovedWithin
<1>9. NoBlockLost'
  <2>1. OwnsBlock(inum)'
    BY <1>1, <1>3, <1>6 DEF OwnsBlock, Live
  <2>2. SUFFICES ASSUME NEW c \in Block, free_blocks'[c] = TAKEN, c # b
                 PROVE  \E i \in Inode : OwnsBlock(i)' /\ inode_table'[i].i_data_block = c
    BY <1>1, <1>6, <2>1 DEF NoBlockLost
  <2>3. free_blocks[c] = TAKEN
    BY <1>4, <2>2 DEF BoxInv, IInv, TypeOK
  <2>4. PICK i \in Inode : OwnsBlock(i) /\ inode_table[i].i_data_block = c
    BY <2>3 DEF BoxInv, NoBlockLost
  <2>5. i # inum
    BY <1>1, <1>2, <2>2, <2>4 DEF OwnsBlock
  <2>6. QED
    BY <1>5, <2>4, <2>5 DEF OwnsBlock, Live
<1>10. QED
  BY <1>8, <1>9 DEF BoxInv, NeverCrashes

(* tfs_write() through a handle within its file: the count does not wrap.   *)
LEMMA tfs_writeBoxOK ==
    ASSUME BoxInv, NEW fh, NEW len \in 1 .. MaxIO, NEW byte \in Byte, NEW ret,
           tfs_write(fh, len, byte, ret)
    PROVE  HandlesWithinFiles' /\ NoBlockLost' /\ NeverCrashes'
<1> DEFINE inum == HandleInode(fh)
           n == WriteCount(fh, len)
           b == WriteBlock(inum)
<1>1. CASE UNCHANGED vars
  BY <1>1, BoxStutterOK
<1>2. ASSUME HandleIsOpen(fh), n \in 1 .. BLOCK_SIZE \/ n > BLOCK_SIZE, b # -1
      PROVE  HandlesWithinFiles' /\ NoBlockLost' /\ NeverCrashes'
  <2>1. /\ HandleOffset(fh) \in Nat
        /\ HandleOffset(fh) <= BLOCK_SIZE
    BY <1>2, HandleFacts, SizeAssumption
  <2>2. n \in 1 .. BLOCK_SIZE
    BY <1>2, <2>1, SizeAssumption DEF WriteCount, SizeSub
  <2>3. ~(n > BLOCK_SIZE) /\ ~(n = 0)
    BY <2>2, SizeAssumption
  <2>4. status = "up"
    BY DEF tfs_write
  <2> HIDE DEF n, b, inum
  <2>5. /\ StoreBytes(fh, inum, b, n, byte)
        /\ UNCHANGED <<status, freeinode_ts, dir, free_open_file_entries>>
    BY <1>2, <2>3 DEF tfs_write, n, b, inum
  <2>6. inum = HandleInode(fh) /\ b = WriteBlock(inum)
    BY DEF b, inum
  <2>7. QED
    BY <1>2, <2>2, <2>4, <2>5, <2>6, StoreBytesBoxOK
<1>3. QED
  BY <1>1, <1>2 DEF tfs_write

-----------------------------------------------------------------------------
(* Unlinking a file that is not open: no handle is left on it, and its      *)
(* block, if it has one, is free.                                           *)
LEMMA UnlinkClosedOK ==
    ASSUME BoxInv, NEW path, NEW ret, UnlinkClosed(path, ret)
    PROVE  HandlesWithinFiles' /\ NoBlockLost' /\ NeverCrashes'
<1>1. CASE UNCHANGED vars
  BY <1>1, BoxStutterOK
<1>2. ASSUME NEW inum, inum = tfs_lookup(path), inum # -1, inode_delete(inum),
             UNCHANGED <<status, fileVars>>
      PROVE  HandlesWithinFiles' /\ NoBlockLost' /\ NeverCrashes'
  <2>1. inum \in Inode \ {ROOT_DIR_INUM} /\ Live(inum)
    BY <1>2, LookupIsFile DEF BoxInv, IInv
  <2>2. /\ \A i \in Inode : i # inum => freeinode_ts'[i] = freeinode_ts[i]
        /\ UNCHANGED <<inode_table, open_file_table, free_open_file_entries>>
    BY <1>2, <2>1 DEF inode_delete, BoxInv, IInv, TypeOK, fileVars
  <2>3. \A h \in OpenHandles : HandleInode(h) \in Inode /\ HandleInode(h) # inum
    BY <1>2 DEF UnlinkClosed, BoxInv, IInv, TypeOK, OpenFileEntry, OpenHandles, HandleInode
  <2>4. HandlesWithinFiles'
    BY <2>2, <2>3 DEF BoxInv, HandlesWithinFiles, OpenHandles, HandleIsOpen, HandleInode, HandleOffset, Live
  <2>5. NoBlockLost'
    <3>1. SUFFICES ASSUME NEW c \in Block, free_blocks'[c] = TAKEN
                   PROVE  \E i \in Inode : OwnsBlock(i)' /\ inode_table'[i].i_data_block = c
      BY DEF NoBlockLost
    <3>2. /\ free_blocks[c] = TAKEN
          /\ OwnsBlock(inum) => c # inode_table[inum].i_data_block
      BY <1>2, <3>1 DEF inode_delete, OwnsBlock, BoxInv, IInv, TypeOK, FREE, TAKEN
    <3>3. PICK i \in Inode : OwnsBlock(i) /\ inode_table[i].i_data_block = c
      BY <3>2 DEF BoxInv, NoBlockLost
    <3>4. QED
      BY <2>2, <3>2, <3>3 DEF OwnsBlock, Live
  <2>6. QED
    BY <1>2, <2>4, <2>5 DEF BoxInv, NeverCrashes
<1>3. QED
  BY <1>1, <1>2 DEF UnlinkClosed, tfs_unlink

-----------------------------------------------------------------------------
(* Every call of the broker preserves the invariant.                        *)
LEMMA BoxNextOK == BoxInv /\ [BoxNext]_vars => BoxInv'
<1> SUFFICES ASSUME BoxInv, [BoxNext]_vars PROVE BoxInv'
  OBVIOUS
<1>0. IInv'
  BY BoxStepIsStep, NextOK DEF BoxInv
<1>1. CASE tfs_init
  BY <1>0, <1>1, tfs_initBoxOK DEF BoxInv
<1>2. CASE tfs_destroy
  BY <1>0, <1>2, tfs_destroyBoxOK DEF BoxInv
<1>3. ASSUME NEW path \in Path, NEW mode \in BoxMode, NEW fh \in AnyHandle, tfs_open(path, mode, fh)
      PROVE  BoxInv'
  BY <1>0, <1>3, tfs_openBoxOK DEF BoxInv
<1>4. ASSUME NEW fh \in AnyHandle, NEW ret \in {-1, 0}, tfs_close(fh, ret)
      PROVE  BoxInv'
  BY <1>0, <1>4, tfs_closeBoxOK DEF BoxInv
<1>5. ASSUME NEW fh \in AnyHandle, NEW len \in 1 .. MaxIO, NEW byte \in Byte,
             NEW ret \in -1 .. BLOCK_SIZE, tfs_write(fh, len, byte, ret)
      PROVE  BoxInv'
  BY <1>0, <1>5, tfs_writeBoxOK DEF BoxInv
<1>6. ASSUME NEW fh \in AnyHandle, NEW len \in 1 .. MaxIO, NEW ret \in -1 .. MaxIO,
             tfs_read(fh, len, ret)
      PROVE  BoxInv'
  BY <1>0, <1>6, tfs_readBoxOK DEF BoxInv
<1>7. ASSUME NEW path \in Path, NEW ret \in {-1, 0}, UnlinkClosed(path, ret)
      PROVE  BoxInv'
  BY <1>0, <1>7, UnlinkClosedOK DEF BoxInv
<1>8. CASE UNCHANGED vars
  BY <1>0, <1>8, BoxStutterOK DEF BoxInv
<1>9. QED
  BY <1>1, <1>2, <1>3, <1>4, <1>5, <1>6, <1>7, <1>8 DEF BoxNext

(* The inductive invariant is an invariant.                                 *)
THEOREM BoxInvariance == BoxSpec => []BoxInv
BY BoxInitOK, BoxNextOK, PTL DEF BoxSpec

(* A handle of the broker never leaves its file: neither difference on      *)
(* size_t in tfs_read() and tfs_write() ever wraps around.                  *)
THEOREM HandlesStayWithin == BoxSpec => []HandlesWithinFiles
<1>1. BoxInv => HandlesWithinFiles
  BY DEF BoxInv
<1>2. QED
  BY <1>1, BoxInvariance, PTL

(* No sequence of the broker's calls loses a data block: each block that is *)
(* taken belongs to a file, although inode_delete() and tfs_write() decide  *)
(* by a size what to free and what to allocate.                             *)
THEOREM BlocksHaveOwners == BoxSpec => []NoBlockLost
<1>1. BoxInv => NoBlockLost
  BY DEF BoxInv
<1>2. QED
  BY <1>1, BoxInvariance, PTL

(* No assertion of the file system fails under the broker, and no copy goes *)
(* beyond the data.                                                         *)
THEOREM BrokerNeverCrashesIt == BoxSpec => []NeverCrashes
<1>1. BoxInv => NeverCrashes
  BY DEF BoxInv
<1>2. QED
  BY <1>1, BoxInvariance, PTL

-----------------------------------------------------------------------------
(* The refinement.  The directory gives each file one name, by which        *)
(* find_in_dir() finds it.                                                  *)
DirectoryFacts ==
    /\ \A s \in DirSlot : \A p : dir[s].d_inumber # -1 /\ dir[s].d_name = p =>
           p \in Names /\ find_in_dir(p) = dir[s].d_inumber
    /\ \A p \in Names : /\ p \in StorablePath
                        /\ find_in_dir(p) \in Inode \ {ROOT_DIR_INUM}
                        /\ Live(find_in_dir(p))
    /\ \A p, q \in Names : find_in_dir(p) = find_in_dir(q) => p = q
    /\ \A i \in Inode \ {ROOT_DIR_INUM} : Live(i) =>
           NameOf(i) \in Names /\ find_in_dir(NameOf(i)) = i

(* The invariant says so.                                                   *)
LEMMA DirectoryNames == IInv => DirectoryFacts
<1> SUFFICES ASSUME IInv PROVE DirectoryFacts
  OBVIOUS
<1>1. ASSUME NEW s \in DirSlot, dir[s].d_inumber # -1
      PROVE  /\ dir[s].d_name \in Names /\ find_in_dir(dir[s].d_name) = dir[s].d_inumber
             /\ dir[s].d_name \in StorablePath
             /\ dir[s].d_inumber \in Inode \ {ROOT_DIR_INUM} /\ Live(dir[s].d_inumber)
  <2>1. EntriesOf(dir[s].d_name) = {s}
    BY <1>1 DEF EntriesOf, IInv, DirectoryMatchesInodes, EntriesDistinct
  <2>2. Lowest({s}) = s
    BY LowestOfSingleton, SizeAssumption DEF DirSlot
  <2>3. find_in_dir(dir[s].d_name) = dir[s].d_inumber
    BY <2>1, <2>2 DEF find_in_dir
  <2>4. dir[s] \in DirEntry
    BY DEF IInv, TypeOK
  <2>5. dir[s].d_inumber \in Inode /\ dir[s].d_name \in {NoName} \cup StorablePath
    BY <1>1, <2>4 DEF DirEntry
  <2> QED
    BY <1>1, <2>3, <2>5 DEF Names, IInv, DirectoryMatchesInodes, EntriesNameFiles
<1>2. \A p \in Names : \E s \in DirSlot : dir[s].d_inumber # -1 /\ p = dir[s].d_name
  BY DEF Names
<1>3. \A p, q \in Names : find_in_dir(p) = find_in_dir(q) => p = q
  <2> SUFFICES ASSUME NEW p \in Names, NEW q \in Names, find_in_dir(p) = find_in_dir(q)
               PROVE  p = q
    OBVIOUS
  <2>1. PICK s \in DirSlot : dir[s].d_inumber # -1 /\ p = dir[s].d_name
    BY <1>2
  <2>2. PICK t \in DirSlot : dir[t].d_inumber # -1 /\ q = dir[t].d_name
    BY <1>2
  <2>3. dir[s].d_inumber = dir[t].d_inumber
    BY <1>1, <2>1, <2>2
  <2> QED
    BY <2>1, <2>2, <2>3 DEF IInv, DirectoryMatchesInodes, EntriesDistinct
<1>4. ASSUME NEW i \in Inode \ {ROOT_DIR_INUM}, Live(i)
      PROVE  NameOf(i) \in Names /\ find_in_dir(NameOf(i)) = i
  <2>1. PICK s \in DirSlot : dir[s].d_inumber = i
    BY <1>4 DEF IInv, DirectoryMatchesInodes, FilesHaveEntries
  <2>2. i # -1
    BY SizeAssumption DEF Inode
  <2>3. \E p \in Names : find_in_dir(p) = i
    BY <1>1, <2>1, <2>2
  <2> QED
    BY <2>3 DEF NameOf
<1> QED
  BY <1>1, <1>2, <1>3, <1>4 DEF DirectoryFacts

(* ... after a step as well.                                                *)
LEMMA DirectoryNamesNext == IInv' => DirectoryFacts'
BY DirectoryNames, PTL

(* A file whose inode and block stay as they are keeps its contents.        *)
LEMMA ContentsStay ==
    ASSUME NEW i, inode_table'[i] = inode_table[i], inode_table[i].i_size \in Nat,
           inode_table[i].i_size > 0 =>
               fs_data'[inode_table[i].i_data_block] = fs_data[inode_table[i].i_data_block]
    PROVE  Contents(i)' = Contents(i)
<1>1. CASE inode_table[i].i_size > 0
  BY <1>1 DEF Contents
<1>2. CASE inode_table[i].i_size = 0
  <2>1. 0 .. inode_table[i].i_size - 1 = {}
    BY <1>2
  <2> QED
    BY <2>1 DEF Contents
<1> QED
  BY <1>1, <1>2

(* An inode just reset is an empty file.                                    *)
LEMMA ContentsOfEmpty ==
    ASSUME NEW i, inode_table'[i] = EmptyFile
    PROVE  Contents(i)' = Files!Empty
<1>1. inode_table'[i].i_size = 0
  BY DEF EmptyFile
<1>2. 0 .. 0 - 1 = {} /\ 0 .. -1 = {}
  OBVIOUS
<1> QED
  BY <1>1, <1>2 DEF Contents, Files!Empty

(* The directory stays, and each file in it.                                *)
LEMMA SameFiles ==
    ASSUME IInv, UNCHANGED dir,
           \A i \in Inode \ {ROOT_DIR_INUM} : Live(i) => Contents(i)' = Contents(i)
    PROVE  fileMap' = fileMap
<1>1. Names' = Names /\ \A p : find_in_dir(p)' = find_in_dir(p)
  BY DEF Names, find_in_dir, EntriesOf
<1>2. \A p \in Names : Contents(find_in_dir(p))' = Contents(find_in_dir(p))
  <2> SUFFICES ASSUME NEW p \in Names
               PROVE  Contents(find_in_dir(p))' = Contents(find_in_dir(p))
    OBVIOUS
  <2>1. PICK i \in Inode \ {ROOT_DIR_INUM} : i = find_in_dir(p) /\ Live(i)
    BY DirectoryNames DEF DirectoryFacts
  <2>2. find_in_dir(p)' = i
    BY <1>1, <2>1
  <2>3. Contents(find_in_dir(p))' = Contents(i)'
    BY <2>2 DEF Contents
  <2> QED
    BY <2>1, <2>3
<1> QED
  BY <1>1, <1>2 DEF fileMap

(* The directory and the handles stay.                                      *)
LEMMA SameHandles ==
    ASSUME UNCHANGED <<dir, fileVars>>
    PROVE  openMap' = openMap
<1>1. Names' = Names /\ \A p : find_in_dir(p)' = find_in_dir(p)
  BY DEF Names, find_in_dir, EntriesOf
<1>2. OpenHandles' = OpenHandles /\ open_file_table' = open_file_table
  BY DEF fileVars, OpenHandles, HandleIsOpen
<1>3. \A h : NameOf(HandleInode(h))' = NameOf(HandleInode(h)) /\ HandleOffset(h)' = HandleOffset(h)
  BY <1>1, <1>2 DEF NameOf, HandleInode, HandleOffset
<1> QED
  BY <1>2, <1>3 DEF openMap

(* Files keep their names as long as their entries are found.               *)
LEMMA NamesKept ==
    ASSUME IInv, IInv', NEW i \in Inode \ {ROOT_DIR_INUM}, Live(i), Live(i)',
           \A p \in Names : find_in_dir(p) = i => p \in Names' /\ find_in_dir(p)' = i
    PROVE  NameOf(i)' = NameOf(i)
<1>1. NameOf(i) \in Names /\ find_in_dir(NameOf(i)) = i
  BY DirectoryNames DEF DirectoryFacts
<1>2. PICK p : p = NameOf(i)
  OBVIOUS
<1>3. p \in Names' /\ find_in_dir(p)' = i
  BY <1>1, <1>2
<1>4. PICK q : q = NameOf(i)'
  OBVIOUS
<1>5. \A x, y \in Names' : find_in_dir(x)' = find_in_dir(y)' => x = y
  BY DirectoryNamesNext DEF DirectoryFacts
<1>6. q \in Names' /\ find_in_dir(q)' = i
  <2>1. q = CHOOSE x \in Names' : find_in_dir(x)' = i
    BY <1>4 DEF NameOf
  <2> QED
    BY <1>3, <2>1
<1> QED
  BY <1>2, <1>3, <1>4, <1>5, <1>6

(* Handles name files: their own.                                           *)
LEMMA HandleNames ==
    ASSUME BoxInv, NEW h \in OpenHandles
    PROVE  /\ HandleInode(h) \in Inode \ {ROOT_DIR_INUM}
           /\ Live(HandleInode(h))
           /\ NameOf(HandleInode(h)) \in Names
           /\ find_in_dir(NameOf(HandleInode(h))) = HandleInode(h)
           /\ h \in DOMAIN openMap
           /\ openMap[h] = [path |-> NameOf(HandleInode(h)), offset |-> HandleOffset(h)]
           /\ openMap[h].path \in DOMAIN fileMap
           /\ fileMap[openMap[h].path] = Contents(HandleInode(h))
<1>1. HandleIsOpen(h)
  BY DEF OpenHandles
<1>2. HandleInode(h) \in Inode \ {ROOT_DIR_INUM} /\ Live(HandleInode(h))
  BY <1>1, HandleFacts
<1>3. NameOf(HandleInode(h)) \in Names /\ find_in_dir(NameOf(HandleInode(h))) = HandleInode(h)
  BY <1>2, DirectoryNames DEF DirectoryFacts, BoxInv
<1>4. openMap[h] = [path |-> NameOf(HandleInode(h)), offset |-> HandleOffset(h)]
  BY DEF openMap
<1> QED
  BY <1>2, <1>3, <1>4 DEF openMap, fileMap

(* A scan of a table finds what there is.                                   *)
LEMMA LowestExists ==
    ASSUME NEW S, S \subseteq Nat, S # {}
    PROVE  Lowest(S) \in S
<1> DEFINE Less == {ss \in Nat \X Nat : ss[1] < ss[2]}
<1>1. IsWellFoundedOn(Less, Nat)
  BY NatLessThanWellFounded DEF OpToRel
<1>2. PICK x \in S : \A y \in S : ~(<<y, x>> \in Less)
  BY <1>1, WFMin
<1>3. ASSUME NEW y \in S
      PROVE  x <= y
  <2>1. x \in Nat /\ y \in Nat
    OBVIOUS
  <2>2. <<y, x>> \in Nat \X Nat /\ <<y, x>>[1] = y /\ <<y, x>>[2] = x
    BY <2>1
  <2>3. ~(y < x)
    BY <1>2, <2>2
  <2> QED
    BY <2>1, <2>3
<1>4. \E i \in S : \A j \in S : i <= j
  BY <1>3
<1> QED
  BY <1>4 DEF Lowest

(* A scan of the handles finds none only if all are taken.                  *)
LEMMA NoHandleLeft ==
    ASSUME BoxInv, Lowest(FreeSlots(free_open_file_entries)) = -1
    PROVE  OpenHandles = Handle
<1>1. FreeSlots(free_open_file_entries) \subseteq Handle
  BY DEF FreeSlots, BoxInv, IInv, TypeOK
<1>2. Handle \subseteq Nat /\ -1 \notin Nat
  BY SizeAssumption DEF Handle
<1>3. FreeSlots(free_open_file_entries) = {}
  <2> DEFINE S == FreeSlots(free_open_file_entries)
  <2>1. S \subseteq Nat
    BY <1>1, <1>2
  <2>2. -1 \notin S
    BY <1>2, <2>1
  <2> HIDE DEF S
  <2>3. S # {} => Lowest(S) \in S
    BY <2>1, LowestExists
  <2>4. Lowest(S) = -1
    BY DEF S
  <2>5. S = {}
    BY <2>2, <2>3, <2>4
  <2> QED
    BY <2>5 DEF S
<1> QED
  BY <1>3 DEF FreeSlots, BoxInv, IInv, TypeOK, OpenHandles, HandleIsOpen, FREE, TAKEN

(* A new handle shows as a handle of the abstract file system.              *)
LEMMA HandleAppears ==
    ASSUME BoxInv, NEW inum, NEW offset, NEW fh, fh # -1,
           add_to_open_file_table(inum, offset, fh),
           NEW path, NameOf(inum)' = path,
           \A i \in Inode \ {ROOT_DIR_INUM} : Live(i) => NameOf(i)' = NameOf(i)
    PROVE  /\ fh \in Handle /\ fh \notin OpenHandles
           /\ openMap' = Files!Extend(openMap, fh, [path |-> path, offset |-> offset])
<1>1. fh \in Handle /\ free_open_file_entries[fh] = FREE
  BY LowestIsMember DEF add_to_open_file_table, FreeSlots, BoxInv, IInv, TypeOK
<1>2. fh \notin OpenHandles
  BY <1>1 DEF OpenHandles, HandleIsOpen, FREE, TAKEN
<1>3. /\ free_open_file_entries' = [free_open_file_entries EXCEPT ![fh] = TAKEN]
      /\ open_file_table' = [open_file_table EXCEPT ![fh] = [of_inumber |-> inum, of_offset |-> offset]]
  BY DEF add_to_open_file_table
<1>4. OpenHandles' = OpenHandles \cup {fh}
  BY <1>1, <1>3 DEF OpenHandles, HandleIsOpen, BoxInv, IInv, TypeOK
<1>5. open_file_table'[fh] = [of_inumber |-> inum, of_offset |-> offset]
  BY <1>1, <1>3 DEF BoxInv, IInv, TypeOK
<1>6. /\ HandleInode(fh)' = inum /\ HandleOffset(fh)' = offset
  BY <1>5 DEF HandleInode, HandleOffset
<1>7. \A h \in OpenHandles : HandleInode(h)' = HandleInode(h) /\ HandleOffset(h)' = HandleOffset(h)
  BY <1>2, <1>3 DEF HandleInode, HandleOffset, OpenHandles, BoxInv, IInv, TypeOK
<1>8. NameOf(HandleInode(fh))' = path
  BY <1>6 DEF NameOf
<1>9. ASSUME NEW h \in OpenHandles
      PROVE  NameOf(HandleInode(h))' = NameOf(HandleInode(h))
  <2>1. PICK i \in Inode \ {ROOT_DIR_INUM} : i = HandleInode(h) /\ Live(i)
    BY HandleNames
  <2>2. HandleInode(h)' = i
    BY <1>7, <2>1
  <2>3. NameOf(HandleInode(h))' = NameOf(i)'
    BY <2>2 DEF NameOf
  <2> QED
    BY <2>1, <2>3
<1>10. DOMAIN openMap = OpenHandles
  BY DEF openMap
<1>11. openMap' = [h \in OpenHandles \cup {fh} |->
                      [path |-> NameOf(HandleInode(h))', offset |-> HandleOffset(h)']]
  BY <1>4 DEF openMap
<1>12. \A h \in OpenHandles : openMap[h] = [path |-> NameOf(HandleInode(h)), offset |-> HandleOffset(h)]
  BY DEF openMap
<1>13. \A h \in OpenHandles \cup {fh} :
           [path |-> NameOf(HandleInode(h))', offset |-> HandleOffset(h)'] =
               IF h = fh THEN [path |-> path, offset |-> offset] ELSE openMap[h]
  BY ONLY <1>2, <1>6, <1>7, <1>8, <1>9, <1>12
<1> QED
  BY <1>1, <1>2, <1>10, <1>11, <1>13 DEF Files!Extend

-----------------------------------------------------------------------------
(* Each call of the broker is an operation on abstract files, or shows      *)
(* nothing.                                                                 *)
FilesStep == Files!Next \/ (fileMap' = fileMap /\ openMap' = openMap)

(* A step that leaves the tables alone shows nothing.                       *)
LEMMA NothingShown ==
    ASSUME BoxInv, UNCHANGED vars
    PROVE  FilesStep
<1>1. UNCHANGED <<dir, fileVars, inode_table, fs_data>>
  BY DEF vars, inodeVars, blockVars
<1>2. \A i : Contents(i)' = Contents(i)
  BY <1>1 DEF Contents
<1> QED
  BY <1>1, <1>2, SameFiles, SameHandles DEF FilesStep, BoxInv

(* Empty tables show no files and no handles.                               *)
LEMMA NoFiles ==
    ASSUME \A s \in DirSlot : dir[s].d_inumber = -1,
           \A h \in Handle : free_open_file_entries[h] = FREE
    PROVE  fileMap = [p \in {} |-> Files!Empty] /\ openMap = [h \in {} |-> 0]
<1>1. Names = {} /\ OpenHandles = {}
  BY DEF Names, OpenHandles, HandleIsOpen, FREE, TAKEN
<1> QED
  BY <1>1 DEF fileMap, openMap

(* ... after a step as well.                                                *)
LEMMA NoFilesNext ==
    (/\ \A s \in DirSlot : dir[s].d_inumber = -1
     /\ \A h \in Handle : free_open_file_entries[h] = FREE)'
    => (fileMap = [p \in {} |-> Files!Empty] /\ openMap = [h \in {} |-> 0])'
BY NoFiles, PTL

(* A file system that starts shows nothing yet.                             *)
LEMMA tfs_initShows ==
    ASSUME BoxInv, tfs_init
    PROVE  FilesStep
<1>1. /\ dir = [i \in DirSlot |-> [d_inumber |-> -1, d_name |-> NoName]]
      /\ free_open_file_entries = [h \in Handle |-> FREE]
  BY DEF tfs_init, BoxInv, IInv, DownIsEmpty
<1>2. UNCHANGED <<dir, fileVars>> /\ free_open_file_entries' = free_open_file_entries
  BY DEF tfs_init, fileVars
<1>3. /\ \A s \in DirSlot : dir[s].d_inumber = -1 /\ dir'[s].d_inumber = -1
      /\ \A h \in Handle : free_open_file_entries[h] = FREE /\ free_open_file_entries'[h] = FREE
  BY <1>1, <1>2
<1> QED
  BY <1>3, NoFiles, NoFilesNext DEF FilesStep

(* A file system that ends has no files left.                               *)
LEMMA tfs_destroyShows ==
    ASSUME tfs_destroy
    PROVE  FilesStep
<1>1. /\ \A s \in DirSlot : dir'[s].d_inumber = -1
      /\ \A h \in Handle : free_open_file_entries'[h] = FREE
  BY DEF tfs_destroy
<1>2. Files!Destroy
  BY <1>1, NoFilesNext DEF Files!Destroy
<1> QED
  BY <1>2 DEF FilesStep, Files!Next

(* Opening a file that exists shows as a new handle at its start or end.    *)
LEMMA OpenExistingShows ==
    ASSUME BoxInv, BoxInv', NEW path, tfs_lookup(path) # -1,
           NEW mode \in BoxMode, NEW fh, OpenExisting(tfs_lookup(path), mode, fh)
    PROVE  FilesStep
<1>1. PICK inum \in Inode \ {ROOT_DIR_INUM} : inum = tfs_lookup(path) /\ Live(inum)
  BY LookupIsFile DEF BoxInv, IInv
<1>2. PICK s \in DirSlot : dir[s].d_inumber = inum /\ dir[s].d_inumber # -1 /\ dir[s].d_name = path
  BY <1>1, LookupFound DEF BoxInv, IInv
<1>3. path \in Names /\ find_in_dir(path) = inum /\ path \in StorablePath
  BY <1>2, DirectoryNames DEF DirectoryFacts, BoxInv
<1>4. PICK size : size = inode_table[inum].i_size
  OBVIOUS
<1>5. PICK offset \in {0, size} : add_to_open_file_table(inum, offset, fh)
  BY <1>1, <1>4 DEF OpenExisting, BoxMode
<1>6. UNCHANGED <<status, freeinode_ts, dir, fs_data, inode_table>>
  BY DEF OpenExisting, BoxMode
<1>7. fileMap' = fileMap
  BY <1>6, SameFiles DEF BoxInv, Contents
<1>8. CASE fh = -1
  <2>1. UNCHANGED fileVars
    BY <1>5, <1>8 DEF add_to_open_file_table
  <2> QED
    BY <1>6, <1>7, <2>1, SameHandles DEF FilesStep
<1>9. CASE fh # -1
  <2>1. \A i \in Inode \ {ROOT_DIR_INUM} : Live(i) => NameOf(i)' = NameOf(i)
    BY <1>6 DEF NameOf, Names, find_in_dir, EntriesOf
  <2>2. NameOf(inum) = path
    BY <1>1, <1>3, DirectoryNames DEF DirectoryFacts, BoxInv
  <2>3. NameOf(inum)' = path
    BY <1>1, <2>1, <2>2
  <2>4. /\ fh \in Handle /\ fh \notin OpenHandles
        /\ openMap' = Files!Extend(openMap, fh, [path |-> path, offset |-> offset])
    BY <1>5, <1>9, <2>1, <2>3, HandleAppears
  <2>5. path \in DOMAIN fileMap /\ fileMap[path].size = size /\ DOMAIN openMap = OpenHandles
    BY <1>3, <1>4 DEF fileMap, openMap, Contents
  <2>6. Files!Open(path, fh)
    BY <1>7, <2>4, <2>5 DEF Files!Open
  <2> QED
    BY <1>3, <2>4, <2>6 DEF FilesStep, Files!Next
<1> QED
  BY <1>8, <1>9

(* The directory after an entry has been put in a slot that was empty.      *)
LEMMA EntryAdded ==
    ASSUME BoxInv, BoxInv', NEW slot \in DirSlot, dir[slot].d_inumber = -1,
           NEW inum \in Inode, NEW path,
           dir' = [dir EXCEPT ![slot] = [d_inumber |-> inum, d_name |-> path]]
    PROVE  /\ Names' = Names \cup {path}
           /\ find_in_dir(path)' = inum
           /\ \A p \in Names : find_in_dir(p)' = find_in_dir(p)
<1>1. /\ dir'[slot].d_inumber = inum /\ dir'[slot].d_name = path
      /\ \A s \in DirSlot : s # slot => dir'[s] = dir[s]
  BY DEF BoxInv, IInv, TypeOK
<1>2. inum # -1
  BY SizeAssumption DEF Inode
<1>3. \A s \in DirSlot : \A p : dir'[s].d_inumber # -1 /\ dir'[s].d_name = p =>
          p \in Names' /\ find_in_dir(p)' = dir'[s].d_inumber
  BY DirectoryNamesNext DEF DirectoryFacts, BoxInv
<1>4. path \in Names' /\ find_in_dir(path)' = inum
  BY <1>1, <1>2, <1>3
<1>5. ASSUME NEW p \in Names
      PROVE  p \in Names' /\ find_in_dir(p)' = find_in_dir(p)
  <2>1. PICK s \in DirSlot : dir[s].d_inumber # -1 /\ p = dir[s].d_name
    BY DEF Names
  <2>2. find_in_dir(p) = dir[s].d_inumber
    BY <2>1, DirectoryNames DEF DirectoryFacts, BoxInv
  <2>3. dir'[s] = dir[s]
    BY <1>1, <2>1
  <2> QED
    BY <1>3, <2>1, <2>2, <2>3
<1>6. Names' \subseteq Names \cup {path}
  BY <1>1 DEF Names
<1> QED
  BY <1>4, <1>5, <1>6

(* Creating a file shows as a new empty file, with a handle if there is one.*)
LEMMA OpenNewShows ==
    ASSUME BoxInv, BoxInv', status = "up",
           NEW path \in ValidPath, tfs_lookup(path) = -1, NEW fh \in AnyHandle, OpenNew(path, fh)
    PROVE  FilesStep
<1>1. PICK inum \in Inode \ {ROOT_DIR_INUM} : inum = inode_alloc /\ ~Live(inum)
  BY AllocationsAvoidRoot DEF OpenNew, BoxInv
<1>2. PICK slot : slot = Lowest(EmptyDirSlots)
  OBVIOUS
<1>3. /\ inode_table'[inum] = EmptyFile
      /\ \A i \in Inode : i # inum => inode_table'[i] = inode_table[i]
      /\ fs_data' = fs_data
  BY <1>1 DEF OpenNew, BoxInv, IInv, TypeOK, blockVars
<1>4. \A i \in Inode \ {ROOT_DIR_INUM} : Live(i) => i # inum /\ Contents(i)' = Contents(i)
  BY <1>1, <1>3 DEF Contents
<1>5. CASE UNCHANGED <<dir, fileVars>>
  BY <1>4, <1>5, SameFiles, SameHandles DEF FilesStep, BoxInv
<1>6. CASE /\ path \in StorablePath /\ slot # -1
           /\ freeinode_ts' = [freeinode_ts EXCEPT ![inum] = TAKEN]
           /\ dir' = [dir EXCEPT ![slot] = [d_inumber |-> inum, d_name |-> path]]
           /\ add_to_open_file_table(inum, 0, fh)
  <2>1. slot \in DirSlot /\ dir[slot].d_inumber = -1
    BY <1>2, <1>6, LowestIsMember DEF EmptyDirSlots
  <2>2. /\ Names' = Names \cup {path}
        /\ find_in_dir(path)' = inum
        /\ \A p \in Names : find_in_dir(p)' = find_in_dir(p)
    BY <1>6, <2>1, EntryAdded
  <2>3. path \notin Names
    <3>1. \A s \in DirSlot : dir[s].d_name # path
      BY LookupNotFound DEF BoxInv, IInv
    <3> QED
      BY <3>1 DEF Names
  <2>4. \A p \in Names : Contents(find_in_dir(p))' = Contents(find_in_dir(p))
    <3> SUFFICES ASSUME NEW p \in Names
                 PROVE  Contents(find_in_dir(p))' = Contents(find_in_dir(p))
      OBVIOUS
    <3>1. PICK i \in Inode \ {ROOT_DIR_INUM} : i = find_in_dir(p) /\ Live(i)
      BY DirectoryNames DEF DirectoryFacts, BoxInv
    <3>2. Contents(find_in_dir(p))' = Contents(i)'
      BY <2>2, <3>1 DEF Contents
    <3> QED
      BY <1>4, <3>1, <3>2
  <2>5. Contents(find_in_dir(path))' = Files!Empty
    <3>1. Contents(find_in_dir(path))' = Contents(inum)'
      BY <2>2 DEF Contents
    <3> QED
      BY <1>3, <3>1, ContentsOfEmpty
  <2>6. fileMap' = Files!Extend(fileMap, path, Files!Empty)
    <3>1. fileMap' = [p \in Names \cup {path} |-> Contents(find_in_dir(p))']
      BY <2>2 DEF fileMap
    <3>2. DOMAIN fileMap = Names /\ \A p \in Names : fileMap[p] = Contents(find_in_dir(p))
      BY DEF fileMap
    <3>3. \A p \in Names \cup {path} :
              Contents(find_in_dir(p))' = IF p = path THEN Files!Empty ELSE fileMap[p]
      BY ONLY <2>3, <2>4, <2>5, <3>2
    <3> QED
      BY <3>1, <3>2, <3>3 DEF Files!Extend
  <2>7. \A i \in Inode \ {ROOT_DIR_INUM} : Live(i) => NameOf(i)' = NameOf(i)
    <3> SUFFICES ASSUME NEW i \in Inode \ {ROOT_DIR_INUM}, Live(i)
                 PROVE  NameOf(i)' = NameOf(i)
      OBVIOUS
    <3>1. Live(i)'
      BY <1>1, <1>6 DEF Live, BoxInv, IInv, TypeOK
    <3> QED
      BY <2>2, <3>1, NamesKept DEF BoxInv
  <2>8. NameOf(inum)' = path
    <3>1. Live(inum)'
      BY <1>1, <1>6 DEF Live, BoxInv, IInv, TypeOK
    <3>2. PICK q : q = NameOf(inum)'
      OBVIOUS
    <3>3. q \in Names' /\ find_in_dir(q)' = inum
      BY <3>1, <3>2, DirectoryNamesNext DEF DirectoryFacts, BoxInv
    <3>4. \A x, y \in Names' : find_in_dir(x)' = find_in_dir(y)' => x = y
      BY DirectoryNamesNext DEF DirectoryFacts, BoxInv
    <3>5. q = path
      BY <2>2, <3>3, <3>4
    <3> QED
      BY <3>2, <3>5
  <2>9. DOMAIN fileMap = Names /\ DOMAIN openMap = OpenHandles
    BY DEF fileMap, openMap
  <2>10. Files!Create(path)
    <3>1. CASE fh = -1
      <4>1. UNCHANGED <<fileVars>> /\ OpenHandles = Handle
        BY <1>6, <3>1, NoHandleLeft DEF add_to_open_file_table
      <4>2. \A h \in OpenHandles : NameOf(HandleInode(h))' = NameOf(HandleInode(h))
        <5> SUFFICES ASSUME NEW h \in OpenHandles
                     PROVE  NameOf(HandleInode(h))' = NameOf(HandleInode(h))
          OBVIOUS
        <5>1. PICK i \in Inode \ {ROOT_DIR_INUM} : i = HandleInode(h) /\ Live(i)
          BY HandleNames
        <5>2. NameOf(HandleInode(h))' = NameOf(i)'
          BY <4>1, <5>1 DEF NameOf, HandleInode, fileVars
        <5> QED
          BY <2>7, <5>1, <5>2
      <4>3. OpenHandles' = OpenHandles /\ open_file_table' = open_file_table
        BY <4>1 DEF fileVars, OpenHandles, HandleIsOpen
      <4>4. openMap' = openMap
        BY <4>2, <4>3 DEF openMap, HandleOffset
      <4> QED
        BY <2>3, <2>6, <2>9, <4>1, <4>4 DEF Files!Create
    <3>2. CASE fh # -1
      <4>1. /\ fh \in Handle /\ fh \notin OpenHandles
            /\ openMap' = Files!Extend(openMap, fh, [path |-> path, offset |-> 0])
        BY <1>6, <2>7, <2>8, <3>2, HandleAppears
      <4> QED
        BY <2>3, <2>6, <2>9, <4>1 DEF Files!Create
    <3> QED
      BY <3>1, <3>2
  <2> QED
    BY <1>6, <2>10 DEF FilesStep, Files!Next
<1> QED
  BY <1>1, <1>2, <1>5, <1>6 DEF OpenNew

(* tfs_open() shows as an opening of the abstract file system, or nothing.  *)
LEMMA tfs_openShows ==
    ASSUME BoxInv, BoxInv', NEW path, NEW mode \in BoxMode, NEW fh \in AnyHandle,
           tfs_open(path, mode, fh)
    PROVE  FilesStep
<1>1. CASE tfs_lookup(path) # -1 /\ OpenExisting(tfs_lookup(path), mode, fh)
  BY <1>1, OpenExistingShows
<1>2. CASE valid_pathname(path) /\ tfs_lookup(path) = -1 /\ OpenNew(path, fh)
  BY <1>2, OpenNewShows DEF tfs_open, valid_pathname
<1>3. CASE UNCHANGED vars
  BY <1>3, NothingShown
<1> QED
  BY <1>1, <1>2, <1>3 DEF tfs_open

(* tfs_close() shows as a closing, or nothing.                              *)
LEMMA tfs_closeShows ==
    ASSUME BoxInv, NEW fh \in AnyHandle, NEW ret, tfs_close(fh, ret)
    PROVE  FilesStep
<1>1. CASE UNCHANGED vars
  BY <1>1, NothingShown
<1>2. ASSUME HandleIsOpen(fh),
             free_open_file_entries' = [free_open_file_entries EXCEPT ![fh] = FREE],
             UNCHANGED <<status, inodeVars, dir, blockVars, open_file_table>>
      PROVE  FilesStep
  <2>1. UNCHANGED <<inode_table, fs_data, dir>>
    BY <1>2 DEF inodeVars, blockVars
  <2>2. fileMap' = fileMap
    BY <2>1, SameFiles DEF BoxInv, Contents
  <2>3. fh \in OpenHandles /\ OpenHandles' = OpenHandles \ {fh}
    BY <1>2 DEF OpenHandles, HandleIsOpen, BoxInv, IInv, TypeOK, FREE, TAKEN
  <2>4. \A h : NameOf(HandleInode(h))' = NameOf(HandleInode(h)) /\ HandleOffset(h)' = HandleOffset(h)
    BY <1>2, <2>1 DEF NameOf, Names, find_in_dir, EntriesOf, HandleInode, HandleOffset
  <2>5. Files!Close(fh)
    BY <2>2, <2>3, <2>4 DEF Files!Close, Files!Without, openMap
  <2> QED
    BY <1>2, <2>5 DEF FilesStep, Files!Next, HandleIsOpen
<1> QED
  BY <1>1, <1>2 DEF tfs_close

(* A handle that moves shows as one that moves.                             *)
LEMMA HandleMoves ==
    ASSUME BoxInv, NEW fh \in OpenHandles, NEW end,
           open_file_table' = [open_file_table EXCEPT ![fh].of_offset = end],
           UNCHANGED <<dir, free_open_file_entries>>
    PROVE  openMap' = [openMap EXCEPT ![fh].offset = end]
<1>1. OpenHandles' = OpenHandles /\ fh \in Handle
  BY DEF OpenHandles, HandleIsOpen
<1>2. /\ \A h \in Handle : open_file_table'[h].of_inumber = open_file_table[h].of_inumber
      /\ open_file_table'[fh].of_offset = end
      /\ \A h \in Handle : h # fh => open_file_table'[h].of_offset = open_file_table[h].of_offset
  BY <1>1 DEF BoxInv, IInv, TypeOK, OpenFileEntry
<1>3. /\ \A h \in OpenHandles : HandleInode(h)' = HandleInode(h)
      /\ HandleOffset(fh)' = end
      /\ \A h \in OpenHandles : h # fh => HandleOffset(h)' = HandleOffset(h)
  BY <1>2 DEF HandleInode, HandleOffset, OpenHandles
<1>4. \A h \in OpenHandles : NameOf(HandleInode(h))' = NameOf(HandleInode(h))
  BY <1>3 DEF NameOf, Names, find_in_dir, EntriesOf
<1>5. openMap' = [h \in OpenHandles |->
                     [path |-> NameOf(HandleInode(h)), offset |-> HandleOffset(h)']]
  BY <1>1, <1>4 DEF openMap
<1>6. openMap = [h \in OpenHandles |->
                    [path |-> NameOf(HandleInode(h)), offset |-> HandleOffset(h)]]
  BY DEF openMap
<1>7. openMap[fh] = [path |-> NameOf(HandleInode(fh)), offset |-> HandleOffset(fh)]
  BY <1>6
<1>8. [openMap[fh] EXCEPT !.offset = end] = [path |-> NameOf(HandleInode(fh)), offset |-> end]
  BY <1>7
<1>9. [openMap EXCEPT ![fh].offset = end] =
          [h \in OpenHandles |-> IF h = fh THEN [openMap[fh] EXCEPT !.offset = end] ELSE openMap[h]]
  BY <1>6
<1>10. \A h \in OpenHandles : openMap[h] = [path |-> NameOf(HandleInode(h)), offset |-> HandleOffset(h)]
  BY <1>6
<1>11. \A h \in OpenHandles :
           [path |-> NameOf(HandleInode(h)), offset |-> HandleOffset(h)'] =
               IF h = fh THEN [openMap[fh] EXCEPT !.offset = end] ELSE openMap[h]
  BY ONLY <1>3, <1>8, <1>10
<1> QED
  BY <1>5, <1>9, <1>11

(* tfs_read() shows as a handle that moves within its file, or nothing.     *)
LEMMA tfs_readShows ==
    ASSUME BoxInv, NeverCrashes', NEW fh \in AnyHandle, NEW len \in 1 .. MaxIO, NEW ret,
           tfs_read(fh, len, ret)
    PROVE  FilesStep
<1> DEFINE n == ReadCount(fh, len)
           end == HandleOffset(fh) + n
           inum == HandleInode(fh)
<1>1. CASE UNCHANGED vars
  BY <1>1, NothingShown
<1>2. ASSUME HandleIsOpen(fh),
             open_file_table' = [open_file_table EXCEPT ![fh].of_offset = end],
             UNCHANGED <<status, inodeVars, dir, blockVars, free_open_file_entries>>
      PROVE  FilesStep
  <2>1. fh \in OpenHandles /\ fh \in Handle
    BY <1>2 DEF OpenHandles, HandleIsOpen
  <2>2. /\ inode_table[inum].i_size \in 0 .. BLOCK_SIZE
        /\ HandleOffset(fh) \in Nat
        /\ HandleOffset(fh) <= inode_table[inum].i_size
    BY <1>2, HandleFacts
  <2>3. end = Files!Smaller(HandleOffset(fh) + len, inode_table[inum].i_size)
    BY <2>2, SizeAssumption DEF ReadCount, SizeSub, Files!Smaller
  <2> HIDE DEF n, end
  <2>4. UNCHANGED <<dir, inode_table, fs_data, free_open_file_entries>>
    BY <1>2 DEF inodeVars, blockVars
  <2>5. fileMap' = fileMap
    BY <2>4, SameFiles DEF BoxInv, Contents
  <2>6. openMap' = [openMap EXCEPT ![fh].offset = end]
    <3>1. PICK e : e = end
      OBVIOUS
    <3> QED
      BY <1>2, <2>1, <2>4, <3>1, HandleMoves
  <2>7. /\ openMap[fh] = [path |-> NameOf(inum), offset |-> HandleOffset(fh)]
        /\ fh \in DOMAIN openMap
        /\ fileMap[openMap[fh].path] = Contents(inum)
    BY <2>1, HandleNames
  <2>8. openMap[fh].offset = HandleOffset(fh) /\ fileMap[openMap[fh].path].size = inode_table[inum].i_size
    BY <2>7 DEF Contents
  <2>9. openMap' = [openMap EXCEPT ![fh].offset = Files!Smaller(openMap[fh].offset + len, fileMap[openMap[fh].path].size)]
    BY <2>3, <2>6, <2>8
  <2>10. Files!Read(fh, len)
    BY <2>5, <2>7, <2>9 DEF Files!Read
  <2> QED
    BY <2>1, <2>10 DEF FilesStep, Files!Next
<1>3. status' \notin {"segv", "panic"}
  BY DEF NeverCrashes
<1> HIDE DEF end, n
<1> QED
  BY <1>1, <1>2, <1>3 DEF tfs_read, end, n

(* Unlinking takes the name away and leaves the other files as they are.    *)
LEMMA UnlinkShows ==
    ASSUME BoxInv, BoxInv', NEW path \in Path, NEW ret, UnlinkClosed(path, ret)
    PROVE  FilesStep
<1>1. CASE UNCHANGED vars
  BY <1>1, NothingShown
<1>2. CASE /\ tfs_lookup(path) # -1 /\ inode_delete(tfs_lookup(path))
           /\ clear_dir_entry(path, ret) /\ UNCHANGED <<status, fileVars>>
  <2>1. PICK inum \in Inode \ {ROOT_DIR_INUM} : inum = tfs_lookup(path) /\ Live(inum)
    BY <1>2, LookupIsFile DEF BoxInv, IInv
  <2>2. PICK slot \in DirSlot : /\ dir[slot].d_inumber = inum /\ dir[slot].d_inumber # -1
                                /\ dir[slot].d_name = path
                                /\ SlotsNamed(path) = {slot}
                                /\ Lowest(SlotsNamed(path)) = slot
    BY <1>2, <2>1, LookupFound DEF BoxInv, IInv
  <2>3. path \in Names /\ find_in_dir(path) = inum /\ path \in StorablePath
    BY <2>2, DirectoryNames DEF DirectoryFacts, BoxInv
  <2>4. dir' = [dir EXCEPT ![slot] = [d_inumber |-> -1, d_name |-> NoName]]
    BY <1>2, <2>2 DEF clear_dir_entry
  <2>5. /\ dir'[slot].d_inumber = -1
        /\ \A s \in DirSlot : s # slot => dir'[s] = dir[s]
    BY <2>4 DEF BoxInv, IInv, TypeOK
  <2>6. UNCHANGED <<inode_table, fs_data, fileVars>>
    BY <1>2 DEF inode_delete
  <2>7. \A s \in DirSlot : dir[s].d_inumber # -1 /\ s # slot => dir[s].d_name # path
    BY <2>2 DEF BoxInv, IInv, DirectoryMatchesInodes, EntriesDistinct
  <2>8. \A p \in Names' : p \in Names /\ p # path /\ find_in_dir(p)' = find_in_dir(p)
    <3> SUFFICES ASSUME NEW p \in Names'
                 PROVE  p \in Names /\ p # path /\ find_in_dir(p)' = find_in_dir(p)
      OBVIOUS
    <3>1. PICK s \in DirSlot : dir'[s].d_inumber # -1 /\ dir'[s].d_name = p
      BY DEF Names
    <3>2. s # slot /\ dir'[s] = dir[s]
      BY <2>5, <3>1
    <3>3. find_in_dir(p)' = dir'[s].d_inumber
      BY <3>1, DirectoryNamesNext DEF DirectoryFacts, BoxInv
    <3>4. p \in Names /\ find_in_dir(p) = dir[s].d_inumber
      BY <3>1, <3>2, DirectoryNames DEF DirectoryFacts, BoxInv
    <3> QED
      BY <2>7, <3>1, <3>2, <3>3, <3>4
  <2>9. \A p \in Names \ {path} : p \in Names'
    <3> SUFFICES ASSUME NEW p \in Names, p # path
                 PROVE  p \in Names'
      OBVIOUS
    <3>1. PICK s \in DirSlot : dir[s].d_inumber # -1 /\ dir[s].d_name = p
      BY DEF Names
    <3> QED
      BY <2>2, <2>5, <3>1 DEF Names
  <2>10. Names' = Names \ {path}
    BY <2>8, <2>9
  <2>11. \A i : Contents(i)' = Contents(i)
    BY <2>6 DEF Contents
  <2>12. \A p \in Names \ {path} : Contents(find_in_dir(p))' = Contents(find_in_dir(p))
    <3> SUFFICES ASSUME NEW p \in Names \ {path}
                 PROVE  Contents(find_in_dir(p))' = Contents(find_in_dir(p))
      OBVIOUS
    <3>1. PICK i : i = find_in_dir(p)
      OBVIOUS
    <3>2. find_in_dir(p)' = i
      BY <2>8, <2>10, <3>1
    <3>3. Contents(find_in_dir(p))' = Contents(i)'
      BY <3>2 DEF Contents
    <3> QED
      BY <2>11, <3>1, <3>3
  <2>13. fileMap' = Files!Without(fileMap, path)
    BY <2>10, <2>12 DEF fileMap, Files!Without
  <2>14. \A h \in OpenHandles : HandleInode(h) # inum
    BY <2>1 DEF UnlinkClosed
  <2>15. \A i \in Inode \ {ROOT_DIR_INUM} : Live(i) /\ i # inum => NameOf(i)' = NameOf(i)
    <3> SUFFICES ASSUME NEW i \in Inode \ {ROOT_DIR_INUM}, Live(i), i # inum
                 PROVE  NameOf(i)' = NameOf(i)
      OBVIOUS
    <3>1. Live(i)'
      BY <1>2, <2>1 DEF inode_delete, Live, BoxInv, IInv, TypeOK
    <3>2. \A p \in Names : find_in_dir(p) = i => p \in Names' /\ find_in_dir(p)' = i
      BY <2>3, <2>8, <2>9
    <3> QED
      BY <3>1, <3>2, NamesKept DEF BoxInv
  <2>16. \A h \in OpenHandles : NameOf(HandleInode(h))' = NameOf(HandleInode(h))
    <3> SUFFICES ASSUME NEW h \in OpenHandles
                 PROVE  NameOf(HandleInode(h))' = NameOf(HandleInode(h))
      OBVIOUS
    <3>1. PICK i \in Inode \ {ROOT_DIR_INUM} : i = HandleInode(h) /\ Live(i) /\ i # inum
      BY <2>14, HandleNames
    <3>2. NameOf(HandleInode(h))' = NameOf(i)'
      BY <2>6, <3>1 DEF NameOf, HandleInode, fileVars
    <3> QED
      BY <2>15, <3>1, <3>2
  <2>17. OpenHandles' = OpenHandles /\ open_file_table' = open_file_table
    BY <2>6 DEF fileVars, OpenHandles, HandleIsOpen
  <2>18. openMap' = openMap
    BY <2>16, <2>17 DEF openMap, HandleOffset
  <2>19. \A h \in DOMAIN openMap : openMap[h].path # path
    <3> SUFFICES ASSUME NEW h \in OpenHandles
                 PROVE  openMap[h].path # path
      BY DEF openMap
    <3>1. /\ openMap[h] = [path |-> NameOf(HandleInode(h)), offset |-> HandleOffset(h)]
          /\ find_in_dir(NameOf(HandleInode(h))) = HandleInode(h)
      BY HandleNames
    <3>2. openMap[h].path = NameOf(HandleInode(h))
      BY <3>1
    <3> QED
      BY <2>3, <2>14, <3>1, <3>2
  <2>20. Files!Unlink(path)
    BY <2>3, <2>13, <2>18, <2>19 DEF Files!Unlink, fileMap
  <2> QED
    BY <2>3, <2>20 DEF FilesStep, Files!Next
<1> QED
  BY <1>1, <1>2 DEF UnlinkClosed, tfs_unlink

-----------------------------------------------------------------------------
(* A write: the bytes land in the handle's file, whose block is its own.    *)
LEMMA StoreBytesShows ==
    ASSUME BoxInv, status = "up", NEW fh \in OpenHandles, NEW len \in 1 .. MaxIO,
           NEW byte \in Byte, NEW n \in 1 .. BLOCK_SIZE, n = WriteCount(fh, len),
           NEW inum, inum = HandleInode(fh), NEW b, b = WriteBlock(inum), b # -1,
           StoreBytes(fh, inum, b, n, byte),
           UNCHANGED <<status, freeinode_ts, dir, free_open_file_entries>>
    PROVE  Files!Write(fh, len, byte)
<1>0. fh \in Handle /\ HandleIsOpen(fh)
  BY DEF OpenHandles
<1>1. /\ inum \in Inode \ {ROOT_DIR_INUM} /\ Live(inum)
      /\ inode_table[inum].i_size \in 0 .. BLOCK_SIZE
      /\ HandleOffset(fh) \in Nat
      /\ HandleOffset(fh) <= inode_table[inum].i_size
  BY <1>0, HandleFacts
<1>2. PICK from \in Nat : from = HandleOffset(fh)
  BY <1>1
<1>3. PICK old \in 0 .. BLOCK_SIZE : old = inode_table[inum].i_size
  BY <1>1
<1>4. from <= old /\ BLOCK_SIZE \in Nat
  BY <1>1, <1>2, <1>3, SizeAssumption
<1>5. n = Files!Smaller(len, BLOCK_SIZE - from)
  BY <1>2, <1>4, SizeAssumption DEF WriteCount, SizeSub, Files!Smaller
<1>6. from + n <= BLOCK_SIZE
  BY <1>4, <1>5, SizeAssumption DEF Files!Smaller
<1>7. PICK size : size = Max2(old, from + n)
  OBVIOUS
<1>8. /\ size \in 1 .. BLOCK_SIZE /\ size = Files!Larger(old, from + n)
      /\ \A k \in 0 .. size - 1 : k \in Offset /\ (~(from <= k /\ k < from + n) => k < old)
  BY <1>4, <1>6, <1>7 DEF Max2, Files!Larger, Offset
<1>9. /\ b \in Block
      /\ old = 0 => free_blocks[b] = FREE
      /\ old # 0 => b = inode_table[inum].i_data_block
  BY <1>1, <1>3, WriteBlockIsOwn DEF BoxInv
<1>10. /\ inode_table' = [inode_table EXCEPT ![inum].i_data_block = b, ![inum].i_size = size]
       /\ fs_data' = [fs_data EXCEPT ![b] =
              [k \in Offset |-> IF from <= k /\ k < from + n THEN byte ELSE fs_data[b][k]]]
       /\ open_file_table' = [open_file_table EXCEPT ![fh].of_offset = from + n]
  BY <1>2, <1>3, <1>7 DEF StoreBytes
<1>11. \A i \in Inode : i # inum => inode_table'[i] = inode_table[i]
  BY <1>10 DEF BoxInv, IInv, TypeOK
<1>12. inode_table'[inum].i_size = size /\ inode_table'[inum].i_data_block = b
  BY <1>1, <1>10 DEF BoxInv, IInv, TypeOK, InodeRecord
<1>13. /\ fs_data'[b] = [k \in Offset |-> IF from <= k /\ k < from + n THEN byte ELSE fs_data[b][k]]
       /\ \A c \in Block : c # b => fs_data'[c] = fs_data[c]
  BY <1>9, <1>10 DEF BoxInv, IInv, TypeOK
<1>14. ASSUME NEW i \in Inode \ {ROOT_DIR_INUM}, Live(i), i # inum
       PROVE  Contents(i)' = Contents(i)
  <2>1. inode_table[i].i_size \in Nat
    BY SizeAssumption DEF BoxInv, IInv, TypeOK, InodeRecord
  <2>2. inode_table[i].i_size > 0 =>
            fs_data'[inode_table[i].i_data_block] = fs_data[inode_table[i].i_data_block]
    <3> SUFFICES ASSUME inode_table[i].i_size > 0
                 PROVE  fs_data'[inode_table[i].i_data_block] = fs_data[inode_table[i].i_data_block]
      OBVIOUS
    <3>1. OwnsBlock(i)
      BY <1>14 DEF OwnsBlock
    <3>2. /\ inode_table[i].i_data_block \in Block
          /\ free_blocks[inode_table[i].i_data_block] = TAKEN
      BY <3>1 DEF BoxInv, IInv, BlocksExclusive
    <3>3. inode_table[i].i_data_block # b
      <4>1. CASE old = 0
        BY <1>9, <3>2, <4>1 DEF FREE, TAKEN
      <4>2. CASE old # 0
        <5>1. OwnsBlock(inum)
          BY <1>1, <1>3, <4>2 DEF OwnsBlock
        <5> QED
          BY <1>1, <1>9, <1>14, <3>1, <4>2, <5>1 DEF BoxInv, IInv, BlocksExclusive
      <4> QED
        BY <4>1, <4>2
    <3> QED
      BY <1>13, <3>2, <3>3
  <2> QED
    BY <1>11, <1>14, <2>1, <2>2, ContentsStay
<1>15. Contents(inum)' = Files!Overwritten(Contents(inum), from, n, byte)
  <2>1. Contents(inum)' = [size |-> size, bytes |-> [k \in 0 .. size - 1 |-> fs_data'[b][k]]]
    BY <1>12 DEF Contents
  <2>2. Contents(inum).size = old
    BY <1>3 DEF Contents
  <2>3. \A k \in 0 .. size - 1 :
            fs_data'[b][k] = IF from <= k /\ k < from + n THEN byte ELSE Contents(inum).bytes[k]
    <3> SUFFICES ASSUME NEW k \in 0 .. size - 1
                 PROVE  fs_data'[b][k] = IF from <= k /\ k < from + n THEN byte
                                         ELSE Contents(inum).bytes[k]
      OBVIOUS
    <3>1. k \in Offset /\ fs_data'[b][k] = IF from <= k /\ k < from + n THEN byte ELSE fs_data[b][k]
      BY <1>8, <1>13
    <3>2. CASE from <= k /\ k < from + n
      BY <3>1, <3>2
    <3>3. CASE ~(from <= k /\ k < from + n)
      <4>1. k < old /\ k \in 0 .. old - 1 /\ old # 0
        BY <1>8, <3>3
      <4>2. Contents(inum).bytes[k] = fs_data[inode_table[inum].i_data_block][k]
        BY <1>3, <4>1 DEF Contents
      <4> QED
        BY <1>9, <3>1, <3>3, <4>1, <4>2
    <3> QED
      BY <3>2, <3>3
  <2> QED
    BY <1>8, <2>1, <2>2, <2>3 DEF Files!Overwritten
<1>16. /\ fh \in DOMAIN openMap
       /\ openMap[fh] = [path |-> NameOf(inum), offset |-> from]
       /\ NameOf(inum) \in Names /\ find_in_dir(NameOf(inum)) = inum
       /\ openMap[fh].path \in DOMAIN fileMap
       /\ fileMap[openMap[fh].path] = Contents(inum)
  BY <1>2, HandleNames
<1>17. PICK p \in Names : p = NameOf(inum)
  BY <1>16
<1>18. openMap[fh].path = p /\ openMap[fh].offset = from /\ find_in_dir(p) = inum
       /\ fileMap[p] = Contents(inum)
  BY <1>16, <1>17
<1>19. fileMap' = [fileMap EXCEPT ![p] = Files!Overwritten(fileMap[p], from, n, byte)]
  <2>1. Names' = Names /\ \A q : find_in_dir(q)' = find_in_dir(q)
    BY DEF Names, find_in_dir, EntriesOf
  <2>2. ASSUME NEW q \in Names, q # p
        PROVE  Contents(find_in_dir(q))' = Contents(find_in_dir(q))
    <3>1. PICK i \in Inode \ {ROOT_DIR_INUM} : i = find_in_dir(q) /\ Live(i)
      BY DirectoryNames DEF DirectoryFacts, BoxInv
    <3>2. i # inum
      BY <1>18, <2>2, <3>1, DirectoryNames DEF DirectoryFacts, BoxInv
    <3>3. Contents(find_in_dir(q))' = Contents(i)'
      BY <2>1, <3>1 DEF Contents
    <3> QED
      BY <1>14, <3>1, <3>2, <3>3
  <2>3. Contents(find_in_dir(p))' = Files!Overwritten(fileMap[p], from, n, byte)
    <3>1. Contents(find_in_dir(p))' = Contents(inum)'
      BY <1>18, <2>1 DEF Contents
    <3> QED
      BY <1>15, <1>18, <3>1
  <2>4. fileMap' = [q \in Names |-> Contents(find_in_dir(q))']
    BY <2>1 DEF fileMap
  <2>5. fileMap = [q \in Names |-> Contents(find_in_dir(q))]
    BY DEF fileMap
  <2> QED
    BY <2>2, <2>3, <2>4, <2>5
<1>20. openMap' = [openMap EXCEPT ![fh].offset = from + n]
  BY <1>10, HandleMoves
<1> QED
  BY <1>5, <1>16, <1>18, <1>19, <1>20 DEF Files!Write

(* tfs_write() shows as bytes written where the handle is, or nothing.      *)
LEMMA tfs_writeShows ==
    ASSUME BoxInv, NeverCrashes', NEW fh \in AnyHandle, NEW len \in 1 .. MaxIO, NEW byte \in Byte,
           NEW ret, tfs_write(fh, len, byte, ret)
    PROVE  FilesStep
<1> DEFINE n == WriteCount(fh, len)
           b == WriteBlock(HandleInode(fh))
<1>1. CASE UNCHANGED vars
  BY <1>1, NothingShown
<1>2. ASSUME HandleIsOpen(fh), n \in 1 .. BLOCK_SIZE, b # -1,
             StoreBytes(fh, HandleInode(fh), b, n, byte),
             UNCHANGED <<status, freeinode_ts, dir, free_open_file_entries>>
      PROVE  FilesStep
  <2>1. fh \in OpenHandles /\ fh \in Handle
    BY <1>2 DEF OpenHandles, HandleIsOpen
  <2>2. PICK m, i, c : m \in 1 .. BLOCK_SIZE /\ m = n /\ i = HandleInode(fh) /\ c = b
    BY <1>2
  <2>3. status = "up" /\ StoreBytes(fh, i, c, m, byte) /\ c = WriteBlock(i) /\ c # -1
    BY <1>2, <2>2 DEF tfs_write
  <2>4. Files!Write(fh, len, byte)
    BY <1>2, <2>1, <2>2, <2>3, StoreBytesShows
  <2> QED
    BY <2>1, <2>4 DEF FilesStep, Files!Next
<1>3. status' # "segv"
  BY DEF NeverCrashes
<1> HIDE DEF n, b
<1> QED
  BY <1>1, <1>2, <1>3 DEF tfs_write, n, b

(* Every step of the tables shows as a step of the abstract files.          *)
LEMMA BoxNextShows == BoxInv /\ BoxInv' /\ [BoxNext]_vars => [Files!Next]_<<fileMap, openMap>>
<1> SUFFICES ASSUME BoxInv, BoxInv', [BoxNext]_vars
             PROVE  FilesStep
  BY DEF FilesStep
<1>0. NeverCrashes'
  BY DEF BoxInv
<1>1. ASSUME NEW path \in Path, NEW mode \in BoxMode, NEW fh \in AnyHandle, tfs_open(path, mode, fh)
      PROVE  FilesStep
  BY <1>1, tfs_openShows
<1>2. ASSUME NEW fh \in AnyHandle, NEW ret \in {-1, 0}, tfs_close(fh, ret)
      PROVE  FilesStep
  BY <1>2, tfs_closeShows
<1>3. ASSUME NEW fh \in AnyHandle, NEW len \in 1 .. MaxIO, NEW byte \in Byte,
             NEW ret \in -1 .. BLOCK_SIZE, tfs_write(fh, len, byte, ret)
      PROVE  FilesStep
  BY <1>0, <1>3, tfs_writeShows
<1>4. ASSUME NEW fh \in AnyHandle, NEW len \in 1 .. MaxIO, NEW ret \in -1 .. MaxIO,
             tfs_read(fh, len, ret)
      PROVE  FilesStep
  BY <1>0, <1>4, tfs_readShows
<1>5. ASSUME NEW path \in Path, NEW ret \in {-1, 0}, UnlinkClosed(path, ret)
      PROVE  FilesStep
  BY <1>5, UnlinkShows
<1> QED
  BY <1>1, <1>2, <1>3, <1>4, <1>5, tfs_initShows, tfs_destroyShows, NothingShown DEF BoxNext

(* What the file system promises the broker: the tables, under the broker's *)
(* calls, are files with contents of their own.  A write changes one file,  *)
(* a read stops at the end of its file, and a handle stays with its file,   *)
(* whatever else is opened, written, closed or unlinked.                    *)
THEOREM TablesImplementFiles == BoxSpec => ImplementsFiles
<1>1. Init => Files!Init
  <2> SUFFICES ASSUME Init
               PROVE  Files!Init
    OBVIOUS
  <2>1. /\ \A s \in DirSlot : dir[s].d_inumber = -1
        /\ \A h \in Handle : free_open_file_entries[h] = FREE
    BY DEF Init
  <2> QED
    BY <2>1, NoFiles DEF Files!Init
<1>2. BoxSpec => Files!Spec
  BY <1>1, BoxInvariance, BoxNextShows, PTL DEF BoxSpec, Files!Spec, Files!vars
<1> QED
  BY <1>2 DEF ImplementsFiles

=============================================================================
