-------------------------- MODULE TFSThreadsProofs --------------------------
(***************************************************************************)
(* Threads that share the file system, for every set of threads and all    *)
(* table sizes: one at a time is inside an operation (MutualExclusion);    *)
(* what others can see of the tables changes as single calls would change  *)
(* it (ThreadsImplementSingleCalls), each call at its return and with its  *)
(* own result (CallsAreAtomic).                                            *)
(***************************************************************************)
EXTENDS TFSThreads, TLAPS

(* OneInside is inductive, once every thread has its record.                *)
ThreadInv ==
    /\ thread = [t \in Thread |-> thread[t]]
    /\ OneInside

(* Any step that touches one thread's record and leaves that thread with    *)
(* the mutex keeps the others out.                                          *)
LEMMA KeepsOthersOut ==
    ASSUME ThreadInv, NEW t \in Thread, NEW record,
           mutex = t \/ mutex = NoThread, mutex' = t,
           thread' = [thread EXCEPT ![t] = record]
    PROVE  ThreadInv'
BY ThreadAssumption DEF ThreadInv, OneInside

(* Where a thread is within an operation, it has the mutex.                 *)
LEMMA InsideHolds ==
    ASSUME ThreadInv, NEW t \in Thread, NEW place, place # "idle", At(t, place)
    PROVE  mutex = t
BY DEF ThreadInv, OneInside, At

(* The steps of tfs_open() are taken with the mutex and keep it ...         *)
LEMMA OpenStepExcludes ==
    ASSUME ThreadInv, NEW t \in Thread, OpenStep(t)
    PROVE  ThreadInv'
<1>1. mutex = t
  BY InsideHolds DEF OpenStep, OpenLookup, FreeBlock, Truncate, AllocInode, SetInode,
     add_dir_entry, GiveInodeBack, AddHandle
<1>2. mutex' = mutex /\ \E record : thread' = [thread EXCEPT ![t] = record]
  BY DEF OpenStep, OpenLookup, FreeBlock, Truncate, AllocInode, SetInode, add_dir_entry,
     GiveInodeBack, AddHandle, Go, Leave
<1> QED
  BY <1>1, <1>2, KeepsOthersOut

(* ... so are those of tfs_close(), tfs_write() and tfs_read() ...          *)
LEMMA HandleStepExcludes ==
    ASSUME ThreadInv, NEW t \in Thread, HandleStep(t)
    PROVE  ThreadInv'
<1>1. mutex = t
  BY InsideHolds DEF HandleStep, NoEntry, tfs_close_step, CountWrite, AllocBlock, CopyIn,
     Advance, CountRead, CopyOut
<1>2. /\ mutex' = mutex
      /\ thread' = thread \/ \E record : thread' = [thread EXCEPT ![t] = record]
  BY DEF HandleStep, NoEntry, tfs_close_step, CountWrite, AllocBlock, CopyIn, Advance,
     CountRead, CopyOut, Go, Leave, Crash
<1> QED
  BY <1>1, <1>2, KeepsOthersOut DEF ThreadInv, OneInside

(* ... and those of tfs_unlink().                                           *)
LEMMA UnlinkStepExcludes ==
    ASSUME ThreadInv, NEW t \in Thread, UnlinkStep(t)
    PROVE  ThreadInv'
<1>1. mutex = t
  BY InsideHolds DEF UnlinkStep, UnlinkLookup, DeleteInode, ClearEntry
<1>2. mutex' = mutex /\ \E record : thread' = [thread EXCEPT ![t] = record]
  BY DEF UnlinkStep, UnlinkLookup, DeleteInode, ClearEntry, Go, Leave
<1> QED
  BY <1>1, <1>2, KeepsOthersOut

(* One thread at a time is between lock and unlock, however many there are  *)
(* and whichever way each operation goes (g_library_mutex).                 *)
THEOREM MutualExclusion == TSpec => []OneInside
<1>1. TInit => ThreadInv
  BY DEF TInit, ThreadInv, OneInside, Idle
<1>2. ThreadInv /\ [TNext]_threadVars => ThreadInv'
  <2> SUFFICES ASSUME ThreadInv, [TNext]_threadVars
               PROVE  ThreadInv'
    OBVIOUS
  <2>1. ASSUME NEW t \in Thread, NEW call \in Calls, Lock(t, call)
        PROVE  ThreadInv'
    BY <2>1, KeepsOthersOut DEF Lock, Go
  <2>2. ASSUME NEW t \in Thread, Unlock(t)
        PROVE  ThreadInv'
    <3>1. mutex = t
      BY <2>2, InsideHolds DEF Unlock
    <3>2. thread' = [thread EXCEPT ![t] = Idle] /\ Idle.at = "idle"
      BY <2>2 DEF Unlock, Idle
    <3> QED
      BY <3>1, <3>2 DEF ThreadInv, OneInside
  <2>3. CASE MainStep
    BY <2>3 DEF MainStep, ThreadInv, OneInside
  <2>4. CASE UNCHANGED threadVars
    BY <2>4 DEF threadVars, ThreadInv, OneInside
  <2> QED
    BY <2>1, <2>2, <2>3, <2>4, OpenStepExcludes, HandleStepExcludes, UnlinkStepExcludes
       DEF TNext, Step
<1>3. ThreadInv => OneInside
  BY DEF ThreadInv
<1> QED
  BY <1>1, <1>2, <1>3, PTL DEF TSpec

-----------------------------------------------------------------------------
(* The refinement.  Proofs about single operations are proofs about what    *)
(* can be seen of the tables.                                               *)
Atomic == INSTANCE TecnicoFSProofs WITH
    inode_table <- Seen.inode_table, freeinode_ts <- Seen.freeinode_ts, dir <- Seen.dir,
    fs_data <- Seen.fs_data, free_blocks <- Seen.free_blocks,
    open_file_table <- Seen.open_file_table,
    free_open_file_entries <- Seen.free_open_file_entries

(* What the tables are to a thread inside an operation, in terms of what    *)
(* they were when it took the mutex (Seen).                                 *)
InodesSame == inode_table = Seen.inode_table /\ freeinode_ts = Seen.freeinode_ts
DirSame == dir = Seen.dir
BlocksSame == fs_data = Seen.fs_data /\ free_blocks = Seen.free_blocks
HandlesSame ==
    /\ open_file_table = Seen.open_file_table
    /\ free_open_file_entries = Seen.free_open_file_entries
Untouched == InodesSame /\ DirSame /\ BlocksSame /\ HandlesSame

(* tfs_open() and tfs_unlink() of a file that exists.                       *)
Found(c) == c.inum = FS!tfs_lookup(c.path) /\ c.inum # -1

(* tfs_open()'s truncation ...                                              *)
Truncates(c) == "TFS_O_TRUNC" \in c.mode /\ Seen.inode_table[c.inum].i_size > 0
BlockFreed(c) ==
    free_blocks = [Seen.free_blocks EXCEPT ![Seen.inode_table[c.inum].i_data_block] = FREE]

OpenedExisting(c) ==
    /\ Found(c)
    /\ freeinode_ts = Seen.freeinode_ts /\ DirSame /\ fs_data = Seen.fs_data
    /\ IF Truncates(c)
       THEN /\ BlockFreed(c)
            /\ inode_table = [Seen.inode_table EXCEPT ![c.inum].i_size = 0]
       ELSE free_blocks = Seen.free_blocks /\ inode_table = Seen.inode_table
    /\ c.offset = StartOffset(c.mode, IF Truncates(c) THEN 0 ELSE Seen.inode_table[c.inum].i_size)

(* ... and creation.                                                        *)
Creates(c) ==
    /\ FS!tfs_lookup(c.path) = -1 /\ valid_pathname(c.path) /\ "TFS_O_CREAT" \in c.mode
    /\ c.offset = 0
Allocated(c) == Creates(c) /\ c.inum = FS!inode_alloc /\ c.inum # -1
InodeTaken(c) == freeinode_ts = [Seen.freeinode_ts EXCEPT ![c.inum] = TAKEN]
InodeReset(c) == inode_table = [Seen.inode_table EXCEPT ![c.inum] = EmptyFile]
EntrySlot == Lowest(FS!EmptyDirSlots)
Storable(c) == c.path \in StorablePath /\ EntrySlot # -1

OpenedNew(c) ==
    /\ Allocated(c) /\ InodeTaken(c) /\ InodeReset(c) /\ BlocksSame
    /\ Storable(c)
    /\ dir = [Seen.dir EXCEPT ![EntrySlot] = [d_inumber |-> c.inum, d_name |-> c.path]]

HandleAdded(inum, offset, fh) ==
    /\ fh = Lowest(FreeSlots(Seen.free_open_file_entries))
    /\ IF fh = -1
       THEN HandlesSame
       ELSE /\ free_open_file_entries = [Seen.free_open_file_entries EXCEPT ![fh] = TAKEN]
            /\ open_file_table =
                   [Seen.open_file_table EXCEPT ![fh] = [of_inumber |-> inum, of_offset |-> offset]]

OpenDone(c) ==
    \/ /\ Untouched /\ c.ret = -1
       /\ FS!tfs_lookup(c.path) = -1
       /\ ~valid_pathname(c.path) \/ "TFS_O_CREAT" \notin c.mode \/ FS!inode_alloc = -1
    \/ /\ Allocated(c) /\ ~Storable(c) /\ c.ret = -1
       /\ InodeReset(c) /\ freeinode_ts = Seen.freeinode_ts /\ DirSame /\ BlocksSame /\ HandlesSame
    \/ /\ OpenedExisting(c) \/ OpenedNew(c)
       /\ HandleAdded(c.inum, c.offset, c.ret)

OpenPlaces(c) ==
    /\ c.at = "free block" => Untouched /\ Found(c) /\ Truncates(c)
    /\ c.at = "truncate" =>
           /\ Found(c) /\ Truncates(c)
           /\ BlockFreed(c) /\ InodesSame /\ DirSame /\ fs_data = Seen.fs_data /\ HandlesSame
    /\ c.at = "alloc inode" => Untouched /\ Creates(c)
    /\ c.at = "set inode" =>
           /\ Allocated(c) /\ InodeTaken(c)
           /\ inode_table = Seen.inode_table /\ DirSame /\ BlocksSame /\ HandlesSame
    /\ c.at \in {"add entry", "give inode back"} =>
           /\ Allocated(c) /\ InodeTaken(c) /\ InodeReset(c)
           /\ DirSame /\ BlocksSame /\ HandlesSame
    /\ c.at = "give inode back" => ~Storable(c)
    /\ c.at = "add handle" => HandlesSame /\ (OpenedExisting(c) \/ OpenedNew(c))

(* tfs_close(), tfs_write() and tfs_read().                                 *)
NoSuchHandle(c) == Untouched /\ ~FS!HandleIsOpen(c.fh) /\ c.ret = -1

CloseDone(c) ==
    \/ NoSuchHandle(c)
    \/ /\ FS!HandleIsOpen(c.fh) /\ c.ret = 0
       /\ free_open_file_entries = [Seen.free_open_file_entries EXCEPT ![c.fh] = FREE]
       /\ open_file_table = Seen.open_file_table /\ InodesSame /\ DirSame /\ BlocksSame

Counted(c) ==
    /\ FS!HandleIsOpen(c.fh) /\ c.inum = FS!HandleInode(c.fh)
    /\ c.n = FS!WriteCount(c.fh, c.len) /\ c.n > 0

HasBlock(c) ==
    /\ c.block = FS!WriteBlock(c.inum) /\ c.block # -1
    /\ IF Seen.inode_table[c.inum].i_size = 0
       THEN free_blocks = [Seen.free_blocks EXCEPT ![c.block] = TAKEN]
       ELSE free_blocks = Seen.free_blocks
    /\ freeinode_ts = Seen.freeinode_ts /\ DirSame
    /\ free_open_file_entries = Seen.free_open_file_entries

InodeHasBlock(c) == inode_table = [Seen.inode_table EXCEPT ![c.inum].i_data_block = c.block]

Copied(c) ==
    LET from == FS!HandleOffset(c.fh)
    IN  /\ c.n <= BLOCK_SIZE
        /\ fs_data = [Seen.fs_data EXCEPT ![c.block] =
               [k \in Offset |-> IF from <= k /\ k < from + c.n THEN c.byte ELSE Seen.fs_data[c.block][k]]]

WriteDone(c) ==
    \/ NoSuchHandle(c)
    \/ Untouched /\ FS!HandleIsOpen(c.fh) /\ FS!WriteCount(c.fh, c.len) = 0 /\ c.ret = 0
    \/ /\ Untouched /\ FS!HandleIsOpen(c.fh) /\ FS!WriteCount(c.fh, c.len) > 0
       /\ FS!WriteBlock(FS!HandleInode(c.fh)) = -1 /\ c.ret = -1
    \/ /\ Counted(c) /\ HasBlock(c) /\ Copied(c) /\ c.ret = c.n
       /\ inode_table = [Seen.inode_table EXCEPT
              ![c.inum].i_data_block = c.block,
              ![c.inum].i_size = Max2(Seen.inode_table[c.inum].i_size, FS!HandleOffset(c.fh) + c.n)]
       /\ open_file_table =
              [Seen.open_file_table EXCEPT ![c.fh].of_offset = FS!HandleOffset(c.fh) + c.n]

CountedRead(c) ==
    /\ FS!HandleIsOpen(c.fh) /\ c.inum = FS!HandleInode(c.fh)
    /\ c.n = FS!ReadCount(c.fh, c.len) /\ c.n > 0
    /\ Seen.inode_table[c.inum].i_data_block # -1

ReadDone(c) ==
    LET end == FS!HandleOffset(c.fh) + c.n
    IN  \/ NoSuchHandle(c)
        \/ Untouched /\ FS!HandleIsOpen(c.fh) /\ FS!ReadCount(c.fh, c.len) = 0 /\ c.ret = 0
        \/ /\ CountedRead(c) /\ c.ret = c.n /\ end <= MaxOffset
           /\ open_file_table = [Seen.open_file_table EXCEPT ![c.fh].of_offset = end]
           /\ free_open_file_entries = Seen.free_open_file_entries
           /\ InodesSame /\ DirSame /\ BlocksSame

HandlePlaces(c) ==
    /\ c.at = "alloc block" => Untouched /\ Counted(c) /\ Seen.inode_table[c.inum].i_size = 0
    /\ c.at \in {"copy in", "advance"} =>
           /\ Counted(c) /\ HasBlock(c) /\ InodeHasBlock(c)
           /\ open_file_table = Seen.open_file_table
    /\ c.at = "copy in" => fs_data = Seen.fs_data
    /\ c.at = "advance" => Copied(c)
    /\ c.at = "copy out" => Untouched /\ CountedRead(c)

(* tfs_unlink().                                                            *)
Deleted(c) ==
    /\ freeinode_ts = [Seen.freeinode_ts EXCEPT ![c.inum] = FREE]
    /\ IF Seen.inode_table[c.inum].i_size > 0
       THEN BlockFreed(c)
       ELSE free_blocks = Seen.free_blocks
    /\ inode_table = Seen.inode_table /\ fs_data = Seen.fs_data

UnlinkDone(c) ==
    \/ Untouched /\ FS!tfs_lookup(c.path) = -1 /\ c.ret = -1
    \/ /\ Found(c) /\ Deleted(c) /\ HandlesSame
       /\ IF FS!SlotsNamed(c.path) = {}
          THEN c.ret = -1 /\ DirSame
          ELSE /\ c.ret = 0
               /\ dir = [Seen.dir EXCEPT ![Lowest(FS!SlotsNamed(c.path))] =
                             [d_inumber |-> -1, d_name |-> NoName]]

UnlinkPlaces(c) ==
    /\ c.at = "delete inode" => Untouched /\ Found(c)
    /\ c.at = "clear entry" => Found(c) /\ Deleted(c) /\ DirSame /\ HandlesSame

(* Where a thread is in which operation.                                    *)
OpPlaces(op) ==
    CASE op = "tfs_open" -> {"tfs_open", "free block", "truncate", "alloc inode", "set inode",
                             "add entry", "give inode back", "add handle"}
      [] op = "tfs_close" -> {"tfs_close"}
      [] op = "tfs_write" -> {"tfs_write", "alloc block", "copy in", "advance"}
      [] op = "tfs_read" -> {"tfs_read", "copy out"}
      [] op = "tfs_unlink" -> {"tfs_unlink", "delete inode", "clear entry"}

Operation == {"tfs_open", "tfs_close", "tfs_write", "tfs_read", "tfs_unlink"}

Done(c) ==
    \/ c.op = "tfs_open" /\ OpenDone(c)
    \/ c.op = "tfs_close" /\ CloseDone(c)
    \/ c.op = "tfs_write" /\ WriteDone(c)
    \/ c.op = "tfs_read" /\ ReadDone(c)
    \/ c.op = "tfs_unlink" /\ UnlinkDone(c)

CallOK(c) ==
    /\ c.op \in Operation
    /\ c.op \in {"tfs_open", "tfs_unlink"} => c.path \in Path
    /\ c.op \in {"tfs_write", "tfs_read"} => c.len \in 1 .. MaxIO

Inside(c) ==
    /\ CallOK(c)
    /\ c.at \in OpPlaces(c.op) \cup {"unlock"}
    /\ c.at = c.op => Untouched /\ c.offset = 0
    /\ OpenPlaces(c) /\ HandlePlaces(c) /\ UnlinkPlaces(c)
    /\ c.at = "unlock" => Done(c)

Place == Operation \cup
    {"idle", "free block", "truncate", "alloc inode", "set inode", "add entry", "give inode back",
     "add handle", "alloc block", "copy in", "advance", "copy out", "delete inode", "clear entry",
     "unlock"}
Locals == [at : Place, op : Operation \cup {"none"}, path : Path \cup {NoName}, mode : Mode,
           fh : AnyHandle, len : Nat, byte : Byte, inum : Int, offset : Int, block : Int, n : Int, ret : Int]

(* Every thread's locals have their types; whoever has the mutex is at a    *)
(* place where the tables are as they should be there; what others see is   *)
(* what single operations leave.                                            *)
LocalsOK == thread \in [Thread -> Locals]
PlaceInv ==
    /\ mutex \in Thread \cup {NoThread}
    /\ \A t \in Thread, c \in Locals : mutex = t /\ thread[t] = c => Inside(c)
TInv == ThreadInv /\ LocalsOK /\ PlaceInv /\ Atomic!IInv

-----------------------------------------------------------------------------
(* TecnicoFS instantiated twice is one specification.                       *)
LEMMA SameOperations ==
    /\ Atomic!tfs_init <=> FS!tfs_init
    /\ Atomic!tfs_destroy <=> FS!tfs_destroy
    /\ \A path, mode, fh : Atomic!tfs_open(path, mode, fh) <=> FS!tfs_open(path, mode, fh)
    /\ \A fh, ret : Atomic!tfs_close(fh, ret) <=> FS!tfs_close(fh, ret)
    /\ \A fh, len, byte, ret : Atomic!tfs_write(fh, len, byte, ret) <=> FS!tfs_write(fh, len, byte, ret)
    /\ \A fh, len, ret : Atomic!tfs_read(fh, len, ret) <=> FS!tfs_read(fh, len, ret)
    /\ \A path, ret : Atomic!tfs_unlink(path, ret) <=> FS!tfs_unlink(path, ret)
    /\ Atomic!vars = FS!vars
BY DEF FS!tfs_init, Atomic!tfs_init, FS!tfs_destroy, Atomic!tfs_destroy, FS!tfs_open,
         Atomic!tfs_open, FS!OpenExisting, Atomic!OpenExisting, FS!OpenNew, Atomic!OpenNew,
         FS!add_to_open_file_table, Atomic!add_to_open_file_table, FS!tfs_close,
         Atomic!tfs_close, FS!tfs_write, Atomic!tfs_write, FS!WriteCount, Atomic!WriteCount,
         FS!WriteBlock, Atomic!WriteBlock, FS!StoreBytes, Atomic!StoreBytes, FS!tfs_read,
         Atomic!tfs_read, FS!ReadCount, Atomic!ReadCount, FS!ReadsPastData, Atomic!ReadsPastData,
         FS!tfs_unlink, Atomic!tfs_unlink, FS!inode_delete, Atomic!inode_delete,
         FS!clear_dir_entry, Atomic!clear_dir_entry, FS!Max2, Atomic!Max2, FS!SizeSub,
         Atomic!SizeSub, FS!Lowest, Atomic!Lowest, FS!FreeSlots, Atomic!FreeSlots,
         FS!inode_alloc, Atomic!inode_alloc, FS!data_block_alloc, Atomic!data_block_alloc,
         FS!EntriesOf, Atomic!EntriesOf, FS!SlotsNamed, Atomic!SlotsNamed, FS!EmptyDirSlots,
         Atomic!EmptyDirSlots, FS!find_in_dir, Atomic!find_in_dir, FS!valid_pathname,
         Atomic!valid_pathname, FS!tfs_lookup, Atomic!tfs_lookup, FS!HandleIsOpen,
         Atomic!HandleIsOpen, FS!HandleInode, Atomic!HandleInode, FS!HandleOffset,
         Atomic!HandleOffset, FS!inodeVars, Atomic!inodeVars, FS!blockVars, Atomic!blockVars,
         FS!fileVars, Atomic!fileVars, FS!vars, Atomic!vars, FS!NoName, Atomic!NoName,
         FS!ROOT_DIR_INUM, Atomic!ROOT_DIR_INUM, FS!FREE, Atomic!FREE, FS!TAKEN, Atomic!TAKEN,
         FS!Inode, Atomic!Inode, FS!Block, Atomic!Block, FS!Handle, Atomic!Handle, FS!DirSlot,
         Atomic!DirSlot, FS!Offset, Atomic!Offset, FS!Mode, Atomic!Mode, FS!EmptyFile,
         Atomic!EmptyFile, FS!RootInode, Atomic!RootInode, FS!AnyHandle, Atomic!AnyHandle

(* Tables that only single operations change keep TecnicoFS' invariant.     *)
LEMMA SeenKept ==
    ASSUME Atomic!IInv, [FS!Next]_(FS!vars)
    PROVE  Atomic!IInv'
<1>1. Atomic!PathAssumption /\ Atomic!SizeAssumption /\ Atomic!ByteAssumption
  BY PathAssumption, SizeAssumption, ByteAssumption
     DEF PathAssumption, SizeAssumption, ByteAssumption, Atomic!PathAssumption,
         Atomic!SizeAssumption, Atomic!ByteAssumption, NoName, Atomic!NoName
<1>2. Atomic!vars' = Atomic!vars <=> FS!vars' = FS!vars
  BY DEF Atomic!vars, FS!vars, Atomic!inodeVars, FS!inodeVars, Atomic!blockVars, FS!blockVars,
     Atomic!fileVars, FS!fileVars
<1>3. Atomic!Mode = FS!Mode /\ Atomic!AnyHandle = FS!AnyHandle
  BY DEF Atomic!Mode, FS!Mode, Atomic!AnyHandle, FS!AnyHandle, Atomic!Handle, FS!Handle
<1>4. ASSUME FS!Next
      PROVE  Atomic!Next
  BY <1>3, <1>4, SameOperations DEF Atomic!Next, FS!Next
<1>5. [Atomic!Next]_(Atomic!vars)
  BY <1>2, <1>4
<1> QED
  BY <1>1, <1>5, Atomic!NextOK

(* What single operations leave has the types of the tables.                *)
LEMMA SeenTypes ==
    ASSUME Atomic!IInv
    PROVE  /\ Seen.inode_table \in [Inode -> InodeRecord]
           /\ Seen.freeinode_ts \in [Inode -> {FREE, TAKEN}]
           /\ Seen.dir \in [DirSlot -> DirEntry]
           /\ Seen.fs_data \in [Block -> [Offset -> Byte]]
           /\ Seen.free_blocks \in [Block -> {FREE, TAKEN}]
           /\ Seen.open_file_table \in [Handle -> OpenFileEntry]
           /\ Seen.free_open_file_entries \in [Handle -> {FREE, TAKEN}]
           /\ \A i \in Inode : Seen.inode_table[i].i_size > 0 => Seen.inode_table[i].i_data_block \in Block
BY DEF Atomic!IInv, Atomic!TypeOK, Atomic!SizedInodesHaveBlocks, Inode, Block, Handle, DirSlot, Offset,
       FREE, TAKEN, InodeRecord, DirEntry, OpenFileEntry, NoName, Atomic!Inode, Atomic!Block,
       Atomic!Handle, Atomic!DirSlot, Atomic!Offset, Atomic!FREE, Atomic!TAKEN,
       Atomic!InodeRecord, Atomic!DirEntry, Atomic!OpenFileEntry, Atomic!NoName

(* What a thread finds in tables that are as they were.                     *)
LEMMA FoundAsSeen ==
    /\ DirSame => /\ \A p : tfs_lookup(p) = FS!tfs_lookup(p) /\ SlotsNamed(p) = FS!SlotsNamed(p)
                  /\ Lowest(EmptyDirSlots) = EntrySlot
    /\ freeinode_ts = Seen.freeinode_ts => inode_alloc = FS!inode_alloc
    /\ free_blocks = Seen.free_blocks => data_block_alloc = FS!data_block_alloc
    /\ free_open_file_entries = Seen.free_open_file_entries =>
           \A h : HandleIsOpen(h) = FS!HandleIsOpen(h)
    /\ open_file_table = Seen.open_file_table =>
           \A h : /\ HandleInode(h) = FS!HandleInode(h) /\ HandleOffset(h) = FS!HandleOffset(h)
                  /\ \A len : WriteCount(h, len) = FS!WriteCount(h, len)
    /\ open_file_table = Seen.open_file_table /\ inode_table = Seen.inode_table =>
           \A h, len : ReadCount(h, len) = FS!ReadCount(h, len)
BY DEF DirSame, EntrySlot, tfs_lookup, FS!tfs_lookup, find_in_dir, FS!find_in_dir, EntriesOf, FS!EntriesOf,
       SlotsNamed, FS!SlotsNamed, EmptyDirSlots, FS!EmptyDirSlots, inode_alloc, FS!inode_alloc,
       data_block_alloc, FS!data_block_alloc, HandleIsOpen, FS!HandleIsOpen, HandleInode,
       FS!HandleInode, HandleOffset, FS!HandleOffset, WriteCount, FS!WriteCount, ReadCount,
       FS!ReadCount, Lowest, FS!Lowest, FreeSlots, FS!FreeSlots, valid_pathname,
       FS!valid_pathname, SizeSub, FS!SizeSub, FREE, FS!FREE, TAKEN, FS!TAKEN, Handle,
       FS!Handle, DirSlot, FS!DirSlot

(* What is seen does not change while a thread keeps the mutex.             *)
LEMMA SeenStays ==
    ASSUME mutex # NoThread, mutex' = mutex, before' = before
    PROVE  /\ Seen' = Seen
           /\ \A p : FS!tfs_lookup(p)' = FS!tfs_lookup(p) /\ FS!SlotsNamed(p)' = FS!SlotsNamed(p)
           /\ EntrySlot' = EntrySlot /\ FS!inode_alloc' = FS!inode_alloc
           /\ \A h : /\ FS!HandleIsOpen(h)' = FS!HandleIsOpen(h)
                     /\ FS!HandleInode(h)' = FS!HandleInode(h)
                     /\ FS!HandleOffset(h)' = FS!HandleOffset(h)
                     /\ \A len : /\ FS!WriteCount(h, len)' = FS!WriteCount(h, len)
                                 /\ FS!ReadCount(h, len)' = FS!ReadCount(h, len)
           /\ \A i : FS!WriteBlock(i)' = FS!WriteBlock(i)
<1>1. Seen' = Seen
  BY DEF Seen
<1> QED
  BY <1>1 DEF EntrySlot, FS!tfs_lookup, FS!find_in_dir, FS!EntriesOf, FS!SlotsNamed, FS!EmptyDirSlots,
       FS!inode_alloc, FS!data_block_alloc, FS!HandleIsOpen, FS!HandleInode, FS!HandleOffset,
       FS!WriteCount, FS!ReadCount, FS!WriteBlock, FS!Lowest, FS!FreeSlots, FS!valid_pathname,
       FS!SizeSub, FS!FREE, FS!TAKEN, FS!Handle, FS!DirSlot

-----------------------------------------------------------------------------
(* A thread inside an operation has the mutex, its locals have their types, *)
(* and the tables are as they should be there.                              *)
LEMMA InsideFacts ==
    ASSUME TInv, NEW t \in Thread, thread[t].at # "idle"
    PROVE  /\ mutex = t /\ mutex # NoThread
           /\ thread[t] \in Locals
           /\ Inside(thread[t])
<1>1. mutex = t /\ mutex # NoThread
  BY ThreadAssumption DEF TInv, ThreadInv, OneInside
<1>2. thread[t] \in Locals
  BY DEF TInv, LocalsOK
<1> QED
  BY <1>1, <1>2 DEF TInv, PlaceInv

(* A step of the thread that has the mutex and keeps it changes nothing     *)
(* that is seen.                                                            *)
LEMMA StepInside ==
    ASSUME TInv, NEW t \in Thread, mutex = t, mutex' = mutex, before' = before, status' = status,
           NEW new \in Locals, thread' = [thread EXCEPT ![t] = new], Inside(new)'
    PROVE  TInv' /\ UNCHANGED FS!vars
<1>1. ThreadInv'
  BY KeepsOthersOut DEF TInv
<1>2. LocalsOK' /\ thread'[t] = new
  BY DEF TInv, LocalsOK
<1>3. PlaceInv'
  <2> SUFFICES ASSUME NEW u \in Thread, NEW c \in Locals', mutex' = u, thread'[u] = c
               PROVE  Inside(c)'
    BY DEF PlaceInv
  <2>1. c = new
    BY <1>2
  <2> QED
    BY <2>1
<1>4. mutex # NoThread
  BY ThreadAssumption
<1>5. UNCHANGED FS!vars
  <2>1. Seen' = Seen
    BY <1>4 DEF Seen
  <2> QED
    BY <2>1 DEF FS!vars, FS!inodeVars, FS!blockVars, FS!fileVars
<1>6. Atomic!IInv'
  BY <1>5, SeenKept DEF TInv
<1> QED
  BY <1>1, <1>2, <1>3, <1>5, <1>6 DEF TInv

-----------------------------------------------------------------------------
(* A thread's locals: what its call was, and what it has found since.       *)
SameCall(c, d) ==
    /\ c.op = d.op /\ c.path = d.path /\ c.mode = d.mode
    /\ c.fh = d.fh /\ c.len = d.len /\ c.byte = d.byte
SameFound(c, d) ==
    c.inum = d.inum /\ c.offset = d.offset /\ c.block = d.block /\ c.n = d.n

(* A thread goes on to a place with its locals ...                          *)
LEMMA GoesOn ==
    ASSUME NEW t \in Thread, NEW c \in Locals, NEW place \in Place, Go(t, c, place)
    PROVE  \E new \in Locals :
               /\ thread' = [thread EXCEPT ![t] = new]
               /\ new.at = place /\ SameCall(new, c) /\ SameFound(new, c) /\ new.ret = c.ret
<1>1. PICK new : new = [c EXCEPT !.at = place]
  OBVIOUS
<1>2. new \in Locals /\ new.at = place /\ new.ret = c.ret
  BY <1>1 DEF Locals
<1>3. SameCall(new, c) /\ SameFound(new, c)
  BY <1>1 DEF Locals, SameCall, SameFound
<1> QED
  BY <1>1, <1>2, <1>3 DEF Go

(* ... or to the end of its call with what it returns.                      *)
LEMMA Returns ==
    ASSUME NEW t \in Thread, NEW c \in Locals, c = thread[t], NEW ret \in Int, Leave(t, ret)
    PROVE  \E new \in Locals :
               /\ thread' = [thread EXCEPT ![t] = new]
               /\ new.at = "unlock" /\ SameCall(new, c) /\ SameFound(new, c) /\ new.ret = ret
<1>1. PICK d : d = [c EXCEPT !.ret = ret]
  OBVIOUS
<1>2. d \in Locals /\ SameCall(d, c) /\ SameFound(d, c) /\ d.ret = ret
  BY <1>1 DEF Locals, SameCall, SameFound
<1>3. Go(t, d, "unlock") /\ "unlock" \in Place
  BY <1>1 DEF Leave, Place
<1>4. PICK new \in Locals : /\ thread' = [thread EXCEPT ![t] = new] /\ new.at = "unlock"
                            /\ SameCall(new, d) /\ SameFound(new, d) /\ new.ret = d.ret
  BY <1>2, <1>3, GoesOn
<1> QED
  BY <1>2, <1>4 DEF SameCall, SameFound

-----------------------------------------------------------------------------
(* What lookups and allocations return are numbers, of files and of free    *)
(* inodes and blocks.                                                       *)
LEMMA SeenLookup ==
    ASSUME Atomic!IInv, NEW p, FS!tfs_lookup(p) # -1
    PROVE  FS!tfs_lookup(p) \in Inode
<1>1. Atomic!PathAssumption /\ Atomic!SizeAssumption /\ Atomic!ByteAssumption
  BY PathAssumption, SizeAssumption, ByteAssumption
     DEF PathAssumption, SizeAssumption, ByteAssumption, Atomic!PathAssumption,
         Atomic!SizeAssumption, Atomic!ByteAssumption, NoName, Atomic!NoName
<1>2. Atomic!tfs_lookup(p) = FS!tfs_lookup(p) /\ Atomic!Inode = Inode
  BY DEF Atomic!tfs_lookup, FS!tfs_lookup, Atomic!find_in_dir, FS!find_in_dir, Atomic!EntriesOf,
     FS!EntriesOf, Atomic!Lowest, FS!Lowest, Atomic!valid_pathname, FS!valid_pathname,
     Atomic!DirSlot, FS!DirSlot, Atomic!Inode, Inode
<1>3. Atomic!tfs_lookup(p) \in Atomic!Inode
  BY <1>1, <1>2, Atomic!LookupIsFile DEF Atomic!IInv
<1> QED
  BY <1>2, <1>3

(* An allocation in what is seen returns a free entry of its table or -1.   *)
LEMMA SeenAllocations ==
    ASSUME Atomic!IInv
    PROVE  /\ FS!inode_alloc # -1 =>
                  FS!inode_alloc \in Inode /\ Seen.freeinode_ts[FS!inode_alloc] = FREE
           /\ FS!data_block_alloc # -1 =>
                  FS!data_block_alloc \in Block /\ Seen.free_blocks[FS!data_block_alloc] = FREE
<1>1. \A S : FS!Lowest(S) # -1 => FS!Lowest(S) \in S
  BY DEF FS!Lowest
<1>2. /\ FS!inode_alloc # -1 => FS!inode_alloc \in FS!FreeSlots(Seen.freeinode_ts)
      /\ FS!data_block_alloc # -1 => FS!data_block_alloc \in FS!FreeSlots(Seen.free_blocks)
  BY <1>1 DEF FS!inode_alloc, FS!data_block_alloc
<1> QED
  BY <1>2, SeenTypes DEF FS!FreeSlots, FS!FREE, FREE

(* tfs_open(), place by place.                                              *)
LEMMA OpenLookupInside ==
    ASSUME TInv, NEW t \in Thread, OpenLookup(t)
    PROVE  \E new \in Locals : thread' = [thread EXCEPT ![t] = new] /\ Inside(new)'
<1>1. PICK me : me = thread[t]
  OBVIOUS
<1>2. /\ me.at = "tfs_open" /\ mutex # NoThread /\ mutex' = mutex /\ before' = before
      /\ me \in Locals /\ Inside(me) /\ UNCHANGED tables
  BY <1>1, InsideFacts DEF OpenLookup, At
<1>3. me.op = "tfs_open" /\ me.path \in Path /\ Untouched /\ me.offset = 0
  BY <1>2 DEF Inside, CallOK, OpPlaces, Operation
<1>4. Untouched' /\ Seen' = Seen /\ \A p : FS!tfs_lookup(p)' = FS!tfs_lookup(p)
  <2>1. Seen' = Seen /\ \A p : FS!tfs_lookup(p)' = FS!tfs_lookup(p)
    BY <1>2, SeenStays
  <2> QED
    BY <1>2, <1>3, <2>1 DEF Untouched, InodesSame, DirSame, BlocksSame, HandlesSame, tables, inodeVars,
       blockVars, fileVars
<1>5. PICK inum : inum = FS!tfs_lookup(me.path)
  OBVIOUS
<1>6. inum = tfs_lookup(me.path) /\ inum \in Int /\ (inum # -1 => inum \in Inode)
  BY <1>3, <1>5, FoundAsSeen, SeenLookup, SizeAssumption DEF Untouched, Inode, TInv
<1>7. inode_table[inum] = Seen.inode_table[inum]
  BY <1>3 DEF Untouched, InodesSame
<1>8. PICK size : size = Seen.inode_table[inum].i_size
  OBVIOUS
<1>9. inum # -1 => size \in Nat
  BY <1>6, <1>8, SeenTypes, SizeAssumption DEF InodeRecord, TInv
<1>10. \/ /\ inum # -1 /\ "TFS_O_TRUNC" \in me.mode /\ size > 0
          /\ Go(t, [me EXCEPT !.inum = inum], "free block")
       \/ /\ inum # -1 /\ ("TFS_O_TRUNC" \notin me.mode \/ size = 0)
          /\ Go(t, [[me EXCEPT !.inum = inum] EXCEPT !.offset = StartOffset(me.mode, size)], "add handle")
       \/ /\ inum = -1 /\ valid_pathname(me.path) /\ "TFS_O_CREAT" \in me.mode
          /\ Go(t, me, "alloc inode")
       \/ /\ inum = -1 /\ (~valid_pathname(me.path) \/ "TFS_O_CREAT" \notin me.mode)
          /\ Leave(t, -1)
  BY <1>1, <1>6, <1>7, <1>8 DEF OpenLookup
<1>11. CASE /\ inum # -1 /\ "TFS_O_TRUNC" \in me.mode /\ size > 0
            /\ Go(t, [me EXCEPT !.inum = inum], "free block")
  <2>1. PICK found : found = [me EXCEPT !.inum = inum]
    OBVIOUS
  <2>2. found \in Locals /\ SameCall(found, me) /\ found.inum = inum
    BY <1>2, <1>6, <2>1 DEF Locals, SameCall
  <2>3. Go(t, found, "free block") /\ "free block" \in Place
    BY <1>11, <2>1 DEF Place
  <2>4. PICK new \in Locals : /\ thread' = [thread EXCEPT ![t] = new] /\ new.at = "free block"
                              /\ SameCall(new, found) /\ SameFound(new, found)
    BY <2>2, <2>3, GoesOn
  <2>5. SameCall(new, me) /\ new.inum = inum
    BY <2>2, <2>4 DEF SameCall, SameFound
  <2>6. Found(new)' /\ Truncates(new)'
    BY <1>4, <1>5, <1>8, <1>11, <2>5 DEF Found, Truncates, SameCall
  <2>7. Inside(new)'
    BY <1>3, <1>4, <2>4, <2>5, <2>6 DEF Inside, CallOK, OpPlaces, Operation, OpenPlaces, HandlePlaces,
       UnlinkPlaces, SameCall
  <2> QED
    BY <2>4, <2>7
<1>12. CASE /\ inum # -1 /\ ("TFS_O_TRUNC" \notin me.mode \/ size = 0)
            /\ Go(t, [[me EXCEPT !.inum = inum] EXCEPT !.offset = StartOffset(me.mode, size)],
                  "add handle")
  <2>1. PICK offset : offset = StartOffset(me.mode, size)
    OBVIOUS
  <2> inum # -1 /\ ("TFS_O_TRUNC" \notin me.mode \/ size = 0)
    BY <1>12
  <2> size \in Nat
    BY <1>9
  <2> size = 0 => ~(size > 0)
    OBVIOUS
  <2>2. offset \in Int
    <3>1. offset = size \/ offset = 0
      BY <2>1 DEF StartOffset
    <3> QED
      BY <3>1
  <2>3. PICK found : found = [[me EXCEPT !.inum = inum] EXCEPT !.offset = offset]
    OBVIOUS
  <2>4. found \in Locals /\ SameCall(found, me) /\ found.inum = inum /\ found.offset = offset
    BY <1>2, <1>6, <2>2, <2>3 DEF Locals, SameCall
  <2>5. Go(t, found, "add handle") /\ "add handle" \in Place
    BY <1>12, <2>1, <2>3 DEF Place
  <2>6. PICK new \in Locals : /\ thread' = [thread EXCEPT ![t] = new] /\ new.at = "add handle"
                              /\ SameCall(new, found) /\ SameFound(new, found)
    BY <2>4, <2>5, GoesOn
  <2>7. SameCall(new, me) /\ new.inum = inum /\ new.offset = StartOffset(new.mode, size)
    BY <2>1, <2>4, <2>6 DEF SameCall, SameFound
  <2>8. Found(new)'
    BY <1>4, <1>5, <2>7 DEF Found, SameCall
  <2>9. Seen.inode_table[new.inum].i_size' = size
    BY <1>4, <1>8, <2>7
  <2>10. ~Truncates(new)'
    <3>1. ~("TFS_O_TRUNC" \in new.mode /\ size > 0)
      BY <2>7 DEF SameCall
    <3> QED
      BY <2>9, <3>1 DEF Truncates
  <2>11. OpenedExisting(new)'
    BY <1>4, <2>7, <2>8, <2>9, <2>10
       DEF OpenedExisting, Untouched, InodesSame, DirSame, BlocksSame
  <2>12. Inside(new)'
    BY <1>3, <1>4, <2>6, <2>7, <2>11 DEF Inside, CallOK, OpPlaces, Operation, OpenPlaces, HandlePlaces,
       UnlinkPlaces, Untouched, SameCall
  <2> QED
    BY <2>6, <2>12
<1>13. CASE /\ inum = -1 /\ valid_pathname(me.path) /\ "TFS_O_CREAT" \in me.mode
            /\ Go(t, me, "alloc inode")
  <2>1. PICK new \in Locals : /\ thread' = [thread EXCEPT ![t] = new] /\ new.at = "alloc inode"
                              /\ SameCall(new, me) /\ SameFound(new, me)
    BY <1>2, <1>13, GoesOn DEF Place
  <2>2. Creates(new)'
    BY <1>3, <1>4, <1>5, <1>13, <2>1 DEF Creates, valid_pathname, SameCall, SameFound
  <2>3. Inside(new)'
    BY <1>3, <1>4, <2>1, <2>2 DEF Inside, CallOK, OpPlaces, Operation, OpenPlaces, HandlePlaces,
       UnlinkPlaces, SameCall
  <2> QED
    BY <2>1, <2>3
<1>14. CASE /\ inum = -1 /\ (~valid_pathname(me.path) \/ "TFS_O_CREAT" \notin me.mode)
            /\ Leave(t, -1)
  <2>1. PICK new \in Locals : /\ thread' = [thread EXCEPT ![t] = new] /\ new.at = "unlock"
                              /\ SameCall(new, me) /\ new.ret = -1
    BY <1>1, <1>2, <1>14, Returns
  <2>2. OpenDone(new)'
    BY <1>4, <1>5, <1>14, <2>1 DEF OpenDone, valid_pathname, SameCall
  <2>3. Inside(new)'
    BY <1>3, <1>4, <2>1, <2>2 DEF Inside, CallOK, OpPlaces, Operation, OpenPlaces, HandlePlaces,
       UnlinkPlaces, Done, SameCall
  <2> QED
    BY <2>1, <2>3
<1> QED
  BY <1>10, <1>11, <1>12, <1>13, <1>14

(* A step between lock and unlock begins with the tables as the invariant   *)
(* says, and ends with the same seen.                                       *)
LEMMA StepBegins ==
    ASSUME TInv, NEW t \in Thread, NEW me, me = thread[t], me.at # "idle",
           mutex' = mutex, before' = before
    PROVE  /\ me \in Locals /\ Inside(me)
           /\ Seen' = Seen /\ EntrySlot' = EntrySlot /\ FS!inode_alloc' = FS!inode_alloc
           /\ \A p : FS!tfs_lookup(p)' = FS!tfs_lookup(p) /\ FS!SlotsNamed(p)' = FS!SlotsNamed(p)
           /\ \A h : /\ FS!HandleIsOpen(h)' = FS!HandleIsOpen(h)
                     /\ FS!HandleInode(h)' = FS!HandleInode(h)
                     /\ FS!HandleOffset(h)' = FS!HandleOffset(h)
                     /\ \A len : /\ FS!WriteCount(h, len)' = FS!WriteCount(h, len)
                                 /\ FS!ReadCount(h, len)' = FS!ReadCount(h, len)
           /\ \A i : FS!WriteBlock(i)' = FS!WriteBlock(i)
BY InsideFacts, SeenStays

(* tfs_open() truncates: data_block_free() first ...                        *)
LEMMA FreeBlockInside ==
    ASSUME TInv, NEW t \in Thread, FreeBlock(t)
    PROVE  \E new \in Locals : thread' = [thread EXCEPT ![t] = new] /\ Inside(new)'
<1>1. PICK me : me = thread[t]
  OBVIOUS
<1>2. me.at = "free block" /\ mutex' = mutex /\ before' = before
  BY <1>1 DEF FreeBlock, At
<1>3. me \in Locals /\ Inside(me) /\ Seen' = Seen /\ \A p : FS!tfs_lookup(p)' = FS!tfs_lookup(p)
  BY <1>1, <1>2, StepBegins
<1>4. me.op = "tfs_open" /\ me.path \in Path /\ Untouched /\ Found(me) /\ Truncates(me)
  BY <1>2, <1>3 DEF Inside, CallOK, OpPlaces, Operation, OpenPlaces
<1>5. PICK new \in Locals : /\ thread' = [thread EXCEPT ![t] = new] /\ new.at = "truncate"
                            /\ SameCall(new, me) /\ SameFound(new, me)
  BY <1>1, <1>3, GoesOn DEF FreeBlock, Place
<1>6. Found(new)' /\ Truncates(new)'
  BY <1>3, <1>4, <1>5 DEF Found, Truncates, SameCall, SameFound
<1>7. BlockFreed(new)'
  BY <1>1, <1>3, <1>4, <1>5 DEF BlockFreed, FreeBlock, Untouched, InodesSame, BlocksSame, SameFound
<1>8. InodesSame' /\ DirSame' /\ (fs_data = Seen.fs_data)' /\ HandlesSame'
  BY <1>3, <1>4 DEF Untouched, InodesSame, DirSame, BlocksSame, HandlesSame, FreeBlock, inodeVars, fileVars
<1>9. Inside(new)'
  BY <1>4, <1>5, <1>6, <1>7, <1>8 DEF Inside, CallOK, OpPlaces, Operation, OpenPlaces, HandlePlaces,
     UnlinkPlaces, SameCall
<1> QED
  BY <1>5, <1>9

(* ... and then the size, which makes the truncation complete.              *)
LEMMA TruncateInside ==
    ASSUME TInv, NEW t \in Thread, Truncate(t)
    PROVE  \E new \in Locals : thread' = [thread EXCEPT ![t] = new] /\ Inside(new)'
<1>1. PICK me : me = thread[t]
  OBVIOUS
<1>2. me.at = "truncate" /\ mutex' = mutex /\ before' = before
  BY <1>1 DEF Truncate, At
<1>3. me \in Locals /\ Inside(me) /\ Seen' = Seen /\ \A p : FS!tfs_lookup(p)' = FS!tfs_lookup(p)
  BY <1>1, <1>2, StepBegins
<1>4. /\ me.op = "tfs_open" /\ me.path \in Path /\ Found(me) /\ Truncates(me)
      /\ BlockFreed(me) /\ InodesSame /\ DirSame /\ fs_data = Seen.fs_data /\ HandlesSame
  BY <1>2, <1>3 DEF Inside, CallOK, OpPlaces, Operation, OpenPlaces
<1>5. PICK zero \in Int : zero = 0
  OBVIOUS
<1>6. PICK d : d = [me EXCEPT !.offset = zero]
  OBVIOUS
<1>7. d \in Locals /\ SameCall(d, me) /\ d.inum = me.inum /\ d.offset = 0
  BY <1>3, <1>5, <1>6 DEF Locals, SameCall
<1>8. Go(t, d, "add handle") /\ "add handle" \in Place
  BY <1>1, <1>5, <1>6 DEF Truncate, Place
<1>9. PICK new \in Locals : /\ thread' = [thread EXCEPT ![t] = new] /\ new.at = "add handle"
                            /\ SameCall(new, d) /\ SameFound(new, d)
  BY <1>7, <1>8, GoesOn
<1>10. SameCall(new, me) /\ new.inum = me.inum /\ new.offset = 0
  BY <1>7, <1>9 DEF SameCall, SameFound
<1>11. Found(new)' /\ Truncates(new)' /\ BlockFreed(new)'
  BY <1>3, <1>4, <1>10 DEF Found, Truncates, SameCall, BlockFreed, Truncate, blockVars
<1>12. inode_table' = [Seen.inode_table EXCEPT ![new.inum].i_size = 0]'
  BY <1>1, <1>3, <1>4, <1>10 DEF Truncate, InodesSame
<1>13. new.offset = StartOffset(new.mode, 0)
  BY <1>10 DEF StartOffset
<1>14. (freeinode_ts = Seen.freeinode_ts)' /\ DirSame' /\ (fs_data = Seen.fs_data)' /\ HandlesSame'
  BY <1>3, <1>4 DEF InodesSame, DirSame, HandlesSame, Truncate, blockVars, fileVars
<1>15. OpenedExisting(new)'
  BY <1>11, <1>12, <1>13, <1>14 DEF OpenedExisting
<1>16. Inside(new)'
  BY <1>4, <1>9, <1>10, <1>14, <1>15 DEF Inside, CallOK, OpPlaces, Operation, OpenPlaces, HandlePlaces,
     UnlinkPlaces, SameCall
<1> QED
  BY <1>9, <1>16

(* inode_create(): a free inode is taken, or the call fails untouched ...   *)
LEMMA AllocInodeInside ==
    ASSUME TInv, NEW t \in Thread, AllocInode(t)
    PROVE  \E new \in Locals : thread' = [thread EXCEPT ![t] = new] /\ Inside(new)'
<1>1. PICK me : me = thread[t]
  OBVIOUS
<1>2. me.at = "alloc inode" /\ mutex' = mutex /\ before' = before
  BY <1>1 DEF AllocInode, At
<1>3. /\ me \in Locals /\ Inside(me) /\ Seen' = Seen /\ \A p : FS!tfs_lookup(p)' = FS!tfs_lookup(p)
      /\ FS!inode_alloc' = FS!inode_alloc
  BY <1>1, <1>2, StepBegins
<1>4. me.op = "tfs_open" /\ me.path \in Path /\ Untouched /\ Creates(me)
  BY <1>2, <1>3 DEF Inside, CallOK, OpPlaces, Operation, OpenPlaces
<1>5. inode_alloc = FS!inode_alloc /\ (inode_alloc # -1 => inode_alloc \in Int)
  BY <1>4, FoundAsSeen, SeenAllocations, SizeAssumption DEF Untouched, InodesSame, Inode, TInv
<1>6. CASE inode_alloc = -1
  <2> Leave(t, -1)
    BY <1>6 DEF AllocInode
  <2>1. PICK new \in Locals : /\ thread' = [thread EXCEPT ![t] = new] /\ new.at = "unlock"
                              /\ SameCall(new, me) /\ new.ret = -1
    BY <1>1, <1>3, Returns
  <2>2. Untouched'
    BY <1>3, <1>4, <1>6 DEF Untouched, InodesSame, DirSame, BlocksSame, HandlesSame, AllocInode,
       blockVars, fileVars
  <2>3. OpenDone(new)'
    BY <1>3, <1>4, <1>5, <1>6, <2>1, <2>2 DEF OpenDone, Creates, SameCall
  <2>4. Inside(new)'
    BY <1>4, <2>1, <2>3 DEF Inside, CallOK, OpPlaces, Operation, OpenPlaces, HandlePlaces,
       UnlinkPlaces, Done, SameCall
  <2> QED
    BY <2>1, <2>4
<1>7. CASE inode_alloc # -1
  <2>1. PICK inum \in Int : inum = inode_alloc
    BY <1>5, <1>7
  <2>2. PICK d : d = [me EXCEPT !.inum = inum]
    OBVIOUS
  <2>3. d \in Locals /\ SameCall(d, me) /\ d.inum = inum /\ d.offset = me.offset
    BY <1>3, <2>1, <2>2 DEF Locals, SameCall
  <2>4. Go(t, d, "set inode") /\ "set inode" \in Place
    BY <1>1, <1>7, <2>1, <2>2 DEF AllocInode, Place
  <2>5. PICK new \in Locals : /\ thread' = [thread EXCEPT ![t] = new] /\ new.at = "set inode"
                              /\ SameCall(new, d) /\ SameFound(new, d)
    BY <2>3, <2>4, GoesOn
  <2>6. SameCall(new, me) /\ new.inum = inode_alloc /\ new.offset = me.offset
    BY <2>1, <2>3, <2>5 DEF SameCall, SameFound
  <2>7. Allocated(new)'
    BY <1>3, <1>4, <1>5, <1>7, <2>6 DEF Allocated, Creates, SameCall, valid_pathname
  <2>8. InodeTaken(new)'
    BY <1>3, <1>4, <1>7, <2>6 DEF InodeTaken, AllocInode, Untouched, InodesSame
  <2>9. (inode_table = Seen.inode_table)' /\ DirSame' /\ BlocksSame' /\ HandlesSame'
    BY <1>3, <1>4 DEF Untouched, InodesSame, DirSame, BlocksSame, HandlesSame, AllocInode,
       blockVars, fileVars
  <2>10. Inside(new)'
    BY <1>4, <2>5, <2>6, <2>7, <2>8, <2>9 DEF Inside, CallOK, OpPlaces, Operation, OpenPlaces,
       HandlePlaces, UnlinkPlaces, SameCall
  <2> QED
    BY <2>5, <2>10
<1> QED
  BY <1>6, <1>7

(* ... and reset to an empty file.                                          *)
LEMMA SetInodeInside ==
    ASSUME TInv, NEW t \in Thread, SetInode(t)
    PROVE  \E new \in Locals : thread' = [thread EXCEPT ![t] = new] /\ Inside(new)'
<1>1. PICK me : me = thread[t]
  OBVIOUS
<1>2. me.at = "set inode" /\ mutex' = mutex /\ before' = before
  BY <1>1 DEF SetInode, At
<1>3. /\ me \in Locals /\ Inside(me) /\ Seen' = Seen /\ \A p : FS!tfs_lookup(p)' = FS!tfs_lookup(p)
      /\ FS!inode_alloc' = FS!inode_alloc
  BY <1>1, <1>2, StepBegins
<1>4. /\ me.op = "tfs_open" /\ me.path \in Path /\ Allocated(me) /\ InodeTaken(me)
      /\ inode_table = Seen.inode_table /\ DirSame /\ BlocksSame /\ HandlesSame
  BY <1>2, <1>3 DEF Inside, CallOK, OpPlaces, Operation, OpenPlaces
<1>5. PICK new \in Locals : /\ thread' = [thread EXCEPT ![t] = new] /\ new.at = "add entry"
                            /\ SameCall(new, me) /\ SameFound(new, me)
  BY <1>1, <1>3, GoesOn DEF SetInode, Place
<1>6. Allocated(new)' /\ InodeTaken(new)'
  BY <1>3, <1>4, <1>5 DEF Allocated, Creates, InodeTaken, SameCall, SameFound, valid_pathname, SetInode
<1>7. InodeReset(new)'
  BY <1>1, <1>3, <1>4, <1>5 DEF InodeReset, SetInode, SameFound
<1>8. DirSame' /\ BlocksSame' /\ HandlesSame'
  BY <1>3, <1>4 DEF DirSame, BlocksSame, HandlesSame, SetInode, blockVars, fileVars
<1>9. Inside(new)'
  BY <1>4, <1>5, <1>6, <1>7, <1>8 DEF Inside, CallOK, OpPlaces, Operation, OpenPlaces, HandlePlaces,
     UnlinkPlaces, SameCall
<1> QED
  BY <1>5, <1>9

(* add_dir_entry(): the file is created, or its inode goes back.            *)
LEMMA AddEntryInside ==
    ASSUME TInv, NEW t \in Thread, add_dir_entry(t)
    PROVE  \E new \in Locals : thread' = [thread EXCEPT ![t] = new] /\ Inside(new)'
<1>1. PICK me : me = thread[t]
  OBVIOUS
<1>2. me.at = "add entry" /\ mutex' = mutex /\ before' = before
  BY <1>1 DEF add_dir_entry, At
<1>3. /\ me \in Locals /\ Inside(me) /\ Seen' = Seen /\ \A p : FS!tfs_lookup(p)' = FS!tfs_lookup(p)
      /\ FS!inode_alloc' = FS!inode_alloc /\ EntrySlot' = EntrySlot
  BY <1>1, <1>2, StepBegins
<1>4. /\ me.op = "tfs_open" /\ me.path \in Path /\ Allocated(me) /\ InodeTaken(me) /\ InodeReset(me)
      /\ DirSame /\ BlocksSame /\ HandlesSame
  BY <1>2, <1>3 DEF Inside, CallOK, OpPlaces, Operation, OpenPlaces
<1>5. Lowest(EmptyDirSlots) = EntrySlot
  BY <1>4, FoundAsSeen
<1>6. ASSUME NEW new \in Locals, SameCall(new, me), SameFound(new, me)
      PROVE  /\ Allocated(new)' /\ InodeTaken(new)' /\ InodeReset(new)' /\ BlocksSame' /\ HandlesSame'
             /\ Storable(new)' <=> Storable(me)
  <2>1. Allocated(new)'
    BY <1>3, <1>4, <1>6 DEF Allocated, Creates, SameCall, SameFound, valid_pathname
  <2>2. InodeTaken(new)' /\ InodeReset(new)'
    BY <1>3, <1>4, <1>6 DEF InodeTaken, InodeReset, SameFound, add_dir_entry, inodeVars
  <2>3. BlocksSame' /\ HandlesSame'
    BY <1>3, <1>4 DEF BlocksSame, HandlesSame, add_dir_entry, blockVars, fileVars
  <2>4. Storable(new)' <=> Storable(me)
    BY <1>3, <1>6 DEF Storable, SameCall
  <2> QED
    BY <2>1, <2>2, <2>3, <2>4
<1>7. CASE Storable(me)
  <2>1. Go(t, me, "add handle")
    BY <1>1, <1>5, <1>7 DEF add_dir_entry, Storable
  <2>2. PICK new \in Locals : /\ thread' = [thread EXCEPT ![t] = new] /\ new.at = "add handle"
                              /\ SameCall(new, me) /\ SameFound(new, me)
    BY <1>3, <2>1, GoesOn DEF Place
  <2>3. dir' = [Seen.dir EXCEPT ![EntrySlot] = [d_inumber |-> new.inum, d_name |-> new.path]]'
    BY <1>1, <1>3, <1>4, <1>5, <1>7, <2>2 DEF add_dir_entry, Storable, DirSame, SameCall, SameFound
  <2>4. OpenedNew(new)'
    BY <1>6, <1>7, <2>2, <2>3 DEF OpenedNew
  <2>5. Inside(new)'
    BY <1>4, <1>6, <2>2, <2>4 DEF Inside, CallOK, OpPlaces, Operation, OpenPlaces, HandlePlaces,
       UnlinkPlaces, SameCall
  <2> QED
    BY <2>2, <2>5
<1>8. CASE ~Storable(me)
  <2>1. Go(t, me, "give inode back")
    BY <1>1, <1>5, <1>8 DEF add_dir_entry, Storable
  <2>2. PICK new \in Locals : /\ thread' = [thread EXCEPT ![t] = new] /\ new.at = "give inode back"
                              /\ SameCall(new, me) /\ SameFound(new, me)
    BY <1>3, <2>1, GoesOn DEF Place
  <2>3. DirSame'
    BY <1>1, <1>3, <1>4, <1>5, <1>8 DEF add_dir_entry, Storable, DirSame
  <2>4. Inside(new)'
    BY <1>4, <1>6, <1>8, <2>2, <2>3 DEF Inside, CallOK, OpPlaces, Operation, OpenPlaces, HandlePlaces,
       UnlinkPlaces, SameCall
  <2> QED
    BY <2>2, <2>4
<1> QED
  BY <1>7, <1>8

(* inode_delete() undoes the creation: the inode stays reset.               *)
LEMMA GiveInodeBackInside ==
    ASSUME TInv, NEW t \in Thread, GiveInodeBack(t)
    PROVE  \E new \in Locals : thread' = [thread EXCEPT ![t] = new] /\ Inside(new)'
<1>1. PICK me : me = thread[t]
  OBVIOUS
<1>2. me.at = "give inode back" /\ mutex' = mutex /\ before' = before
  BY <1>1 DEF GiveInodeBack, At
<1>3. /\ me \in Locals /\ Inside(me) /\ Seen' = Seen /\ \A p : FS!tfs_lookup(p)' = FS!tfs_lookup(p)
      /\ FS!inode_alloc' = FS!inode_alloc /\ EntrySlot' = EntrySlot
  BY <1>1, <1>2, StepBegins
<1>4. /\ me.op = "tfs_open" /\ me.path \in Path /\ Allocated(me) /\ InodeTaken(me) /\ InodeReset(me)
      /\ DirSame /\ BlocksSame /\ HandlesSame /\ ~Storable(me)
  BY <1>2, <1>3 DEF Inside, CallOK, OpPlaces, Operation, OpenPlaces
<1>5. Leave(t, -1) /\ inode_delete(me.inum)
  BY <1>1 DEF GiveInodeBack
<1>6. PICK new \in Locals : /\ thread' = [thread EXCEPT ![t] = new] /\ new.at = "unlock"
                            /\ SameCall(new, me) /\ SameFound(new, me) /\ new.ret = -1
  BY <1>1, <1>3, <1>5, Returns
<1>7. /\ me.inum \in Inode /\ Seen.freeinode_ts[me.inum] = FREE
      /\ Seen.freeinode_ts \in [Inode -> {FREE, TAKEN}] /\ Seen.inode_table \in [Inode -> InodeRecord]
  BY <1>4, SeenAllocations, SeenTypes DEF Allocated, TInv
<1>8. (freeinode_ts = Seen.freeinode_ts)'
  <2>1. freeinode_ts' = [[Seen.freeinode_ts EXCEPT ![me.inum] = TAKEN] EXCEPT ![me.inum] = FREE]
    BY <1>4, <1>5 DEF InodeTaken, inode_delete
  <2>2. freeinode_ts' = Seen.freeinode_ts
    BY <1>7, <2>1
  <2> QED
    BY <1>3, <2>2
<1>9. inode_table[me.inum].i_size = 0
  BY <1>4, <1>7 DEF InodeReset, EmptyFile
<1>10. UNCHANGED <<inode_table, free_blocks, fs_data>>
  BY <1>5, <1>9 DEF inode_delete
<1>11. Allocated(new)' /\ ~Storable(new)' /\ InodeReset(new)'
  BY <1>3, <1>4, <1>6, <1>10 DEF Allocated, Creates, Storable, InodeReset, SameCall, SameFound, valid_pathname
<1>12. DirSame' /\ BlocksSame' /\ HandlesSame'
  BY <1>3, <1>4, <1>10 DEF DirSame, BlocksSame, HandlesSame, GiveInodeBack, fileVars
<1>13. OpenDone(new)'
  BY <1>6, <1>8, <1>11, <1>12 DEF OpenDone
<1>14. Inside(new)'
  BY <1>4, <1>6, <1>13 DEF Inside, CallOK, OpPlaces, Operation, OpenPlaces, HandlePlaces, UnlinkPlaces,
     Done, SameCall
<1> QED
  BY <1>6, <1>14

(* add_to_open_file_table(): the last access of tfs_open().                 *)
LEMMA AddHandleInside ==
    ASSUME TInv, NEW t \in Thread, AddHandle(t)
    PROVE  \E new \in Locals : thread' = [thread EXCEPT ![t] = new] /\ Inside(new)'
<1>1. PICK me : me = thread[t]
  OBVIOUS
<1>2. me.at = "add handle" /\ mutex' = mutex /\ before' = before
  BY <1>1 DEF AddHandle, At
<1>3. /\ me \in Locals /\ Inside(me) /\ Seen' = Seen /\ \A p : FS!tfs_lookup(p)' = FS!tfs_lookup(p)
      /\ FS!inode_alloc' = FS!inode_alloc /\ EntrySlot' = EntrySlot
  BY <1>1, <1>2, StepBegins
<1>4. /\ me.op = "tfs_open" /\ me.path \in Path
      /\ HandlesSame /\ (OpenedExisting(me) \/ OpenedNew(me))
  BY <1>2, <1>3 DEF Inside, CallOK, OpPlaces, Operation, OpenPlaces
<1>5. PICK fh \in AnyHandle : add_to_open_file_table(me.inum, me.offset, fh) /\ Leave(t, fh)
  BY <1>1 DEF AddHandle
<1>6. fh \in Int
  BY SizeAssumption DEF AnyHandle, Handle
<1>7. PICK new \in Locals : /\ thread' = [thread EXCEPT ![t] = new] /\ new.at = "unlock"
                            /\ SameCall(new, me) /\ SameFound(new, me) /\ new.ret = fh
  BY <1>1, <1>3, <1>5, <1>6, Returns
<1>8. OpenedExisting(me) => OpenedExisting(new)'
  BY <1>3, <1>7 DEF OpenedExisting, Found, Truncates, BlockFreed, DirSame, SameCall, SameFound,
     AddHandle, inodeVars, blockVars
<1>9. OpenedNew(me) => OpenedNew(new)'
  BY <1>3, <1>7 DEF OpenedNew, Allocated, Creates, Storable, InodeTaken, InodeReset, BlocksSame, SameCall,
     SameFound, valid_pathname, AddHandle, inodeVars, blockVars
<1>10. HandleAdded(new.inum, new.offset, new.ret)'
  BY <1>3, <1>4, <1>5, <1>7 DEF HandleAdded, HandlesSame, add_to_open_file_table, SameFound, fileVars
<1>11. OpenDone(new)'
  BY <1>4, <1>8, <1>9, <1>10 DEF OpenDone
<1>12. Inside(new)'
  BY <1>4, <1>7, <1>11 DEF Inside, CallOK, OpPlaces, Operation, OpenPlaces, HandlePlaces, UnlinkPlaces,
     Done, SameCall
<1> QED
  BY <1>7, <1>12

-----------------------------------------------------------------------------
(* The operations on handles, place by place.                               *)
LEMMA SeenHandle ==
    ASSUME Atomic!IInv, NEW h, FS!HandleIsOpen(h)
    PROVE  /\ h \in Handle /\ FS!HandleInode(h) \in Inode /\ FS!HandleOffset(h) \in Nat
           /\ Seen.inode_table[FS!HandleInode(h)] \in InodeRecord
           /\ \A len \in Nat : FS!WriteCount(h, len) \in Int /\ FS!ReadCount(h, len) \in Int
<1>1. h \in Handle
  BY DEF FS!HandleIsOpen, FS!Handle, Handle
<1>2. Seen.open_file_table[h] \in OpenFileEntry
  BY <1>1, SeenTypes
<1>3. FS!HandleInode(h) \in Inode /\ FS!HandleOffset(h) \in Nat
  BY <1>2, SizeAssumption DEF FS!HandleInode, FS!HandleOffset, OpenFileEntry
<1>4. Seen.inode_table[FS!HandleInode(h)] \in InodeRecord
  BY <1>3, SeenTypes
<1>5. Seen.inode_table[FS!HandleInode(h)].i_size \in Nat
  BY <1>4, SizeAssumption DEF InodeRecord
<1>6. ASSUME NEW len \in Nat
      PROVE  FS!WriteCount(h, len) \in Int /\ FS!ReadCount(h, len) \in Int
  BY <1>3, <1>5, SizeAssumption DEF FS!WriteCount, FS!ReadCount, FS!SizeSub
<1> QED
  BY <1>1, <1>3, <1>4, <1>6

(* A handle that is not open: the call fails untouched.                     *)
LEMMA NoEntryInside ==
    ASSUME TInv, NEW t \in Thread, NoEntry(t)
    PROVE  \E new \in Locals : thread' = [thread EXCEPT ![t] = new] /\ Inside(new)'
<1>1. PICK me : me = thread[t]
  OBVIOUS
<1>2. /\ me.at \in {"tfs_close", "tfs_write", "tfs_read"} /\ ~HandleIsOpen(me.fh) /\ Leave(t, -1)
      /\ mutex' = mutex /\ before' = before /\ UNCHANGED tables
  BY <1>1 DEF NoEntry, At
<1>3. me \in Locals /\ Inside(me) /\ Seen' = Seen /\ \A h : FS!HandleIsOpen(h)' = FS!HandleIsOpen(h)
  BY <1>1, <1>2, StepBegins
<1>4. CallOK(me) /\ me.op = me.at /\ Untouched
  BY <1>2, <1>3 DEF Inside, CallOK, OpPlaces, Operation
<1>5. ~FS!HandleIsOpen(me.fh)
  BY <1>2, <1>4, FoundAsSeen DEF Untouched, HandlesSame
<1>6. PICK new \in Locals : /\ thread' = [thread EXCEPT ![t] = new] /\ new.at = "unlock"
                            /\ SameCall(new, me) /\ new.ret = -1
  BY <1>1, <1>2, <1>3, Returns
<1>7. Untouched'
  BY <1>2, <1>3, <1>4 DEF Untouched, InodesSame, DirSame, BlocksSame, HandlesSame, tables, inodeVars,
     blockVars, fileVars
<1>8. NoSuchHandle(new)'
  BY <1>3, <1>5, <1>6, <1>7 DEF NoSuchHandle, SameCall
<1>9. Done(new)'
  BY <1>2, <1>4, <1>6, <1>8 DEF Done, CloseDone, WriteDone, ReadDone, SameCall
<1>10. Inside(new)'
  BY <1>4, <1>6, <1>9 DEF Inside, CallOK, Operation, OpenPlaces, HandlePlaces, UnlinkPlaces, SameCall
<1> QED
  BY <1>6, <1>10

(* tfs_close() frees the handle's entry.                                    *)
LEMMA CloseInside ==
    ASSUME TInv, NEW t \in Thread, tfs_close_step(t)
    PROVE  \E new \in Locals : thread' = [thread EXCEPT ![t] = new] /\ Inside(new)'
<1>1. PICK me : me = thread[t]
  OBVIOUS
<1>2. /\ me.at = "tfs_close" /\ HandleIsOpen(me.fh) /\ Leave(t, 0)
      /\ mutex' = mutex /\ before' = before
  BY <1>1 DEF tfs_close_step, At
<1>3. me \in Locals /\ Inside(me) /\ Seen' = Seen /\ \A h : FS!HandleIsOpen(h)' = FS!HandleIsOpen(h)
  BY <1>1, <1>2, StepBegins
<1>4. CallOK(me) /\ me.op = "tfs_close" /\ Untouched
  BY <1>2, <1>3 DEF Inside, CallOK, OpPlaces, Operation
<1>5. FS!HandleIsOpen(me.fh)
  BY <1>2, <1>4, FoundAsSeen DEF Untouched, HandlesSame
<1>6. PICK new \in Locals : /\ thread' = [thread EXCEPT ![t] = new] /\ new.at = "unlock"
                            /\ SameCall(new, me) /\ new.ret = 0
  BY <1>1, <1>2, <1>3, Returns
<1>7. (free_open_file_entries = [Seen.free_open_file_entries EXCEPT ![new.fh] = FREE])'
  BY <1>1, <1>3, <1>4, <1>6 DEF tfs_close_step, Untouched, HandlesSame, SameCall
<1>8. (open_file_table = Seen.open_file_table)' /\ InodesSame' /\ DirSame' /\ BlocksSame'
  BY <1>3, <1>4 DEF tfs_close_step, Untouched, InodesSame, DirSame, BlocksSame, HandlesSame, inodeVars, blockVars
<1>9. CloseDone(new)'
  BY <1>3, <1>5, <1>6, <1>7, <1>8 DEF CloseDone, SameCall
<1>10. Inside(new)'
  BY <1>4, <1>6, <1>9 DEF Inside, CallOK, Operation, OpenPlaces, HandlePlaces, UnlinkPlaces, SameCall, Done
<1> QED
  BY <1>6, <1>10

(* tfs_write() decides what to write where, and has touched nothing ...     *)
LEMMA CountWriteInside ==
    ASSUME TInv, NEW t \in Thread, CountWrite(t)
    PROVE  \E new \in Locals : thread' = [thread EXCEPT ![t] = new] /\ Inside(new)'
<1>1. PICK me : me = thread[t]
  OBVIOUS
<1>2. /\ me.at = "tfs_write" /\ HandleIsOpen(me.fh)
      /\ mutex' = mutex /\ before' = before /\ UNCHANGED tables
  BY <1>1 DEF CountWrite, At
<1>3. /\ me \in Locals /\ Inside(me) /\ Seen' = Seen
      /\ \A h : FS!HandleIsOpen(h)' = FS!HandleIsOpen(h) /\ FS!HandleInode(h)' = FS!HandleInode(h)
      /\ \A h, len : FS!WriteCount(h, len)' = FS!WriteCount(h, len)
      /\ \A i : FS!WriteBlock(i)' = FS!WriteBlock(i)
  BY <1>1, <1>2, StepBegins
<1>4. CallOK(me) /\ me.op = "tfs_write" /\ me.len \in Nat /\ Untouched
  <2>1. CallOK(me) /\ me.op = "tfs_write" /\ Untouched
    BY <1>2, <1>3 DEF Inside, CallOK, OpPlaces, Operation
  <2>2. me.len \in 1 .. MaxIO
    BY <2>1 DEF CallOK
  <2> QED
    BY <2>1, <2>2, SizeAssumption
<1>5. PICK inum, n : inum = FS!HandleInode(me.fh) /\ n = FS!WriteCount(me.fh, me.len)
  OBVIOUS
<1>6. FS!HandleIsOpen(me.fh) /\ HandleInode(me.fh) = inum /\ WriteCount(me.fh, me.len) = n
  BY <1>2, <1>4, <1>5, FoundAsSeen DEF Untouched, HandlesSame
<1>7. inum \in Inode /\ inum \in Int /\ n \in Int /\ Seen.inode_table[inum] \in InodeRecord
  BY <1>4, <1>5, <1>6, SeenHandle, SizeAssumption DEF Inode, TInv
<1>8. PICK size, block : size = Seen.inode_table[inum].i_size /\ block = Seen.inode_table[inum].i_data_block
  OBVIOUS
<1>9. /\ inode_table[inum].i_size = size /\ inode_table[inum].i_data_block = block
      /\ size \in Nat /\ block \in Int /\ (size > 0 => block \in Block)
  <2>1. size \in Nat /\ block \in Int
    BY <1>7, <1>8, SizeAssumption DEF InodeRecord, Block
  <2>2. size > 0 => block \in Block
    BY <1>7, <1>8, SeenTypes DEF TInv
  <2> QED
    BY <1>4, <1>8, <2>1, <2>2 DEF Untouched, InodesSame
<1>10. \/ n = 0 /\ Leave(t, 0)
       \/ n > 0 /\ size = 0 /\ Go(t, [me EXCEPT !.inum = inum, !.n = n], "alloc block")
       \/ /\ n > 0 /\ size > 0
          /\ Go(t, [[me EXCEPT !.inum = inum, !.n = n] EXCEPT !.block = block], "copy in")
  BY <1>1, <1>6, <1>9 DEF CountWrite
<1>11. Untouched'
  BY <1>2, <1>3, <1>4 DEF Untouched, InodesSame, DirSame, BlocksSame, HandlesSame, tables, inodeVars,
     blockVars, fileVars
<1>12. CASE n = 0 /\ Leave(t, 0)
  <2>1. PICK new \in Locals : /\ thread' = [thread EXCEPT ![t] = new] /\ new.at = "unlock"
                              /\ SameCall(new, me) /\ new.ret = 0
    BY <1>1, <1>3, <1>12, Returns
  <2>2. WriteDone(new)'
    BY <1>3, <1>5, <1>6, <1>11, <1>12, <2>1 DEF WriteDone, SameCall
  <2>3. Inside(new)'
    BY <1>4, <2>1, <2>2 DEF Inside, CallOK, Operation, OpenPlaces, HandlePlaces, UnlinkPlaces, SameCall, Done
  <2> QED
    BY <2>1, <2>3
<1>13. PICK d : d = [me EXCEPT !.inum = inum, !.n = n]
  OBVIOUS
<1>14. d \in Locals /\ SameCall(d, me) /\ d.inum = inum /\ d.n = n
  BY <1>3, <1>7, <1>13 DEF Locals, SameCall
<1>15. ASSUME NEW new \in Locals, SameCall(new, me), new.inum = inum, new.n = n, n > 0
       PROVE  Counted(new)'
  BY <1>3, <1>5, <1>6, <1>15 DEF Counted, SameCall
<1>16. CASE n > 0 /\ size = 0 /\ Go(t, d, "alloc block")
  <2>1. PICK new \in Locals : /\ thread' = [thread EXCEPT ![t] = new] /\ new.at = "alloc block"
                              /\ SameCall(new, d) /\ SameFound(new, d)
    BY <1>14, <1>16, GoesOn DEF Place
  <2>2. SameCall(new, me) /\ new.inum = inum /\ new.n = n
    BY <1>14, <2>1 DEF SameCall, SameFound
  <2>3. Counted(new)'
    BY <1>15, <1>16, <2>2
  <2>4. (Seen.inode_table[new.inum].i_size = 0)'
    BY <1>3, <1>8, <1>16, <2>2
  <2>5. Inside(new)'
    BY <1>4, <1>11, <2>1, <2>2, <2>3, <2>4 DEF Inside, CallOK, Operation, OpPlaces, OpenPlaces, HandlePlaces,
       UnlinkPlaces, SameCall
  <2> QED
    BY <2>1, <2>5
<1>17. CASE n > 0 /\ size > 0 /\ Go(t, [d EXCEPT !.block = block], "copy in")
  <2>1. PICK e : e = [d EXCEPT !.block = block]
    OBVIOUS
  <2>2. e \in Locals /\ SameCall(e, d) /\ e.inum = d.inum /\ e.n = d.n /\ e.block = block
    BY <1>9, <1>14, <2>1 DEF Locals, SameCall
  <2>3. PICK new \in Locals : /\ thread' = [thread EXCEPT ![t] = new] /\ new.at = "copy in"
                              /\ SameCall(new, e) /\ SameFound(new, e)
    BY <1>17, <2>1, <2>2, GoesOn DEF Place
  <2>4. SameCall(new, me) /\ new.inum = inum /\ new.n = n /\ new.block = block
    BY <1>14, <2>2, <2>3 DEF SameCall, SameFound
  <2>5. Counted(new)'
    BY <1>15, <1>17, <2>4
  <2> size > 0
    BY <1>17
  <2>6. block # -1 /\ size # 0
    <3>1. block \in Block /\ size # 0
      BY <1>9
    <3> QED
      BY <3>1, SizeAssumption DEF Block
  <2>7. FS!WriteBlock(inum) = block
    BY <1>8, <2>6 DEF FS!WriteBlock
  <2>8. HasBlock(new)'
    BY <1>3, <1>8, <1>11, <2>4, <2>6, <2>7 DEF HasBlock, Untouched, InodesSame, DirSame, BlocksSame, HandlesSame
  <2>9. Seen.inode_table = [Seen.inode_table EXCEPT ![inum].i_data_block = block]
    BY <1>7, <1>8, SeenTypes DEF TInv, InodeRecord
  <2>10. InodeHasBlock(new)'
    BY <1>3, <1>11, <2>4, <2>9 DEF InodeHasBlock, Untouched, InodesSame
  <2>11. (open_file_table = Seen.open_file_table)' /\ (fs_data = Seen.fs_data)'
    BY <1>11 DEF Untouched, HandlesSame, BlocksSame
  <2>12. Inside(new)'
    BY <1>4, <2>3, <2>4, <2>5, <2>8, <2>10, <2>11 DEF Inside, CallOK, Operation, OpPlaces, OpenPlaces,
       HandlePlaces, UnlinkPlaces, SameCall
  <2> QED
    BY <2>3, <2>12
<1> QED
  BY <1>10, <1>12, <1>13, <1>16, <1>17

(* ... takes a block for an empty file, or fails untouched ...              *)
LEMMA AllocBlockInside ==
    ASSUME TInv, NEW t \in Thread, AllocBlock(t)
    PROVE  \E new \in Locals : thread' = [thread EXCEPT ![t] = new] /\ Inside(new)'
<1>1. PICK me : me = thread[t]
  OBVIOUS
<1>2. me.at = "alloc block" /\ mutex' = mutex /\ before' = before
  BY <1>1 DEF AllocBlock, At
<1>3. /\ me \in Locals /\ Inside(me) /\ Seen' = Seen
      /\ \A h : FS!HandleIsOpen(h)' = FS!HandleIsOpen(h) /\ FS!HandleInode(h)' = FS!HandleInode(h)
      /\ \A h, len : FS!WriteCount(h, len)' = FS!WriteCount(h, len)
      /\ \A i : FS!WriteBlock(i)' = FS!WriteBlock(i)
  BY <1>1, <1>2, StepBegins
<1>4. /\ CallOK(me) /\ me.op = "tfs_write" /\ Untouched
      /\ Counted(me) /\ Seen.inode_table[me.inum].i_size = 0
  BY <1>2, <1>3 DEF Inside, CallOK, OpPlaces, Operation, HandlePlaces
<1>5. /\ data_block_alloc = FS!data_block_alloc /\ FS!WriteBlock(me.inum) = data_block_alloc
      /\ (data_block_alloc # -1 => data_block_alloc \in Int)
  <2>1. data_block_alloc = FS!data_block_alloc /\ FS!WriteBlock(me.inum) = data_block_alloc
    BY <1>4, FoundAsSeen DEF Untouched, BlocksSame, FS!WriteBlock
  <2> QED
    BY <2>1, SeenAllocations, SizeAssumption DEF TInv, Block
<1>6. CASE data_block_alloc = -1
  <2>1. Leave(t, -1) /\ UNCHANGED tables
    BY <1>6 DEF AllocBlock, tables, inodeVars, blockVars
  <2>2. PICK new \in Locals : /\ thread' = [thread EXCEPT ![t] = new] /\ new.at = "unlock"
                              /\ SameCall(new, me) /\ new.ret = -1
    BY <1>1, <1>3, <2>1, Returns
  <2>3. Untouched'
    BY <1>3, <1>4, <2>1 DEF Untouched, InodesSame, DirSame, BlocksSame, HandlesSame, tables, inodeVars,
       blockVars, fileVars
  <2>4. WriteDone(new)'
    BY <1>3, <1>4, <1>5, <1>6, <2>2, <2>3 DEF WriteDone, Counted, SameCall
  <2>5. Inside(new)'
    BY <1>4, <2>2, <2>4 DEF Inside, CallOK, Operation, OpenPlaces, HandlePlaces, UnlinkPlaces, SameCall, Done
  <2> QED
    BY <2>2, <2>5
<1>7. CASE data_block_alloc # -1
  <2>1. PICK block \in Int : block = data_block_alloc
    BY <1>5, <1>7
  <2>2. PICK d : d = [me EXCEPT !.block = block]
    OBVIOUS
  <2>3. d \in Locals /\ SameCall(d, me) /\ d.inum = me.inum /\ d.n = me.n /\ d.block = block
    BY <1>3, <2>1, <2>2 DEF Locals, SameCall
  <2>4. Go(t, d, "copy in") /\ "copy in" \in Place
    BY <1>1, <1>7, <2>1, <2>2 DEF AllocBlock, Place
  <2>5. PICK new \in Locals : /\ thread' = [thread EXCEPT ![t] = new] /\ new.at = "copy in"
                              /\ SameCall(new, d) /\ SameFound(new, d)
    BY <2>3, <2>4, GoesOn
  <2>6. SameCall(new, me) /\ new.inum = me.inum /\ new.n = me.n /\ new.block = block
    BY <2>3, <2>5 DEF SameCall, SameFound
  <2>7. Counted(new)'
    BY <1>3, <1>4, <2>6 DEF Counted, SameCall
  <2>8. HasBlock(new)'
    <3>1. free_blocks' = [Seen.free_blocks EXCEPT ![block] = TAKEN]
      BY <1>4, <1>7, <2>1 DEF AllocBlock, Untouched, BlocksSame
    <3>2. (freeinode_ts = Seen.freeinode_ts)' /\ DirSame' /\ (free_open_file_entries = Seen.free_open_file_entries)'
      BY <1>3, <1>4 DEF AllocBlock, Untouched, InodesSame, DirSame, HandlesSame, fileVars
    <3> QED
      BY <1>3, <1>4, <1>5, <1>7, <2>1, <2>6, <3>1, <3>2 DEF HasBlock
  <2>9. InodeHasBlock(new)'
    BY <1>1, <1>3, <1>4, <1>7, <2>1, <2>6 DEF InodeHasBlock, AllocBlock, Untouched, InodesSame
  <2>10. (open_file_table = Seen.open_file_table)' /\ (fs_data = Seen.fs_data)'
    BY <1>3, <1>4 DEF AllocBlock, Untouched, HandlesSame, BlocksSame, fileVars
  <2>11. Inside(new)'
    BY <1>4, <2>5, <2>6, <2>7, <2>8, <2>9, <2>10 DEF Inside, CallOK, Operation, OpPlaces, OpenPlaces,
       HandlePlaces, UnlinkPlaces, SameCall
  <2> QED
    BY <2>5, <2>11
<1> QED
  BY <1>6, <1>7

(* ... copies the bytes, at most a block ...                                *)
LEMMA CopyInInside ==
    ASSUME TInv, NEW t \in Thread, CopyIn(t), thread[t].n <= BLOCK_SIZE
    PROVE  \E new \in Locals : thread' = [thread EXCEPT ![t] = new] /\ Inside(new)'
<1>1. PICK me : me = thread[t]
  OBVIOUS
<1>2. me.at = "copy in" /\ me.at # "idle" /\ me \in Locals
  BY <1>1, InsideFacts DEF CopyIn, At
<1>3. PICK from : from = HandleOffset(me.fh)
  OBVIOUS
<1>4. ~(me.n > BLOCK_SIZE)
  <2>1. me.n \in Int
    BY <1>2 DEF Locals
  <2>2. me.n <= BLOCK_SIZE
    BY <1>1
  <2> QED
    BY <2>1, <2>2, SizeAssumption
<1>5. /\ fs_data' = [fs_data EXCEPT ![me.block] =
             [k \in Offset |-> IF from <= k /\ k < from + me.n THEN me.byte ELSE @[k]]]
      /\ Go(t, me, "advance")
      /\ UNCHANGED <<status, inodeVars, dir, free_blocks, fileVars, mutex, before>>
  BY <1>1, <1>3, <1>4 DEF CopyIn
<1>6. /\ Inside(me) /\ Seen' = Seen
      /\ \A h : /\ FS!HandleIsOpen(h)' = FS!HandleIsOpen(h) /\ FS!HandleInode(h)' = FS!HandleInode(h)
                /\ FS!HandleOffset(h)' = FS!HandleOffset(h)
      /\ \A h, len : FS!WriteCount(h, len)' = FS!WriteCount(h, len)
      /\ \A i : FS!WriteBlock(i)' = FS!WriteBlock(i)
  BY <1>1, <1>2, <1>5, StepBegins
<1>7. /\ CallOK(me) /\ me.op = "tfs_write" /\ Counted(me) /\ HasBlock(me) /\ InodeHasBlock(me)
      /\ open_file_table = Seen.open_file_table /\ fs_data = Seen.fs_data
  BY <1>2, <1>6 DEF Inside, CallOK, OpPlaces, Operation, HandlePlaces
<1>8. from = FS!HandleOffset(me.fh)
  BY <1>3, <1>7, FoundAsSeen
<1>9. PICK new \in Locals : /\ thread' = [thread EXCEPT ![t] = new] /\ new.at = "advance"
                            /\ SameCall(new, me) /\ SameFound(new, me)
  BY <1>2, <1>5, GoesOn DEF Place
<1>10. Counted(new)' /\ HasBlock(new)' /\ InodeHasBlock(new)'
  BY <1>5, <1>6, <1>7, <1>9 DEF Counted, HasBlock, InodeHasBlock, DirSame, SameCall, SameFound, inodeVars, fileVars
<1>11. Copied(new)'
  <2>1. fs_data' = [Seen.fs_data EXCEPT ![new.block] =
            [k \in Offset |-> IF from <= k /\ k < from + new.n THEN new.byte ELSE Seen.fs_data[new.block][k]]]
    BY <1>5, <1>7, <1>9 DEF SameCall, SameFound
  <2>2. new.n <= BLOCK_SIZE
    BY <1>1, <1>9 DEF SameFound
  <2>3. FS!HandleOffset(new.fh)' = from /\ Seen.fs_data' = Seen.fs_data
    BY <1>6, <1>8, <1>9 DEF SameCall
  <2> QED
    BY <2>1, <2>2, <2>3 DEF Copied
<1>12. (open_file_table = Seen.open_file_table)'
  BY <1>5, <1>6, <1>7 DEF fileVars
<1>13. Inside(new)'
  BY <1>7, <1>9, <1>10, <1>11, <1>12 DEF Inside, CallOK, Operation, OpPlaces, OpenPlaces, HandlePlaces,
     UnlinkPlaces, SameCall
<1> QED
  BY <1>9, <1>13

(* ... and sets the handle's offset and the file's size.                    *)
LEMMA AdvanceInside ==
    ASSUME TInv, NEW t \in Thread, Advance(t)
    PROVE  \E new \in Locals : thread' = [thread EXCEPT ![t] = new] /\ Inside(new)'
<1>1. PICK me : me = thread[t]
  OBVIOUS
<1>2. /\ me.at = "advance" /\ mutex' = mutex /\ before' = before /\ Leave(t, me.n)
      /\ UNCHANGED <<freeinode_ts, dir, blockVars, free_open_file_entries>>
  BY <1>1 DEF Advance, At
<1>3. /\ me \in Locals /\ Inside(me) /\ Seen' = Seen
      /\ \A h : /\ FS!HandleIsOpen(h)' = FS!HandleIsOpen(h) /\ FS!HandleInode(h)' = FS!HandleInode(h)
                /\ FS!HandleOffset(h)' = FS!HandleOffset(h)
      /\ \A h, len : FS!WriteCount(h, len)' = FS!WriteCount(h, len)
      /\ \A i : FS!WriteBlock(i)' = FS!WriteBlock(i)
  BY <1>1, <1>2, StepBegins
<1>4. /\ CallOK(me) /\ me.op = "tfs_write" /\ Counted(me) /\ HasBlock(me) /\ InodeHasBlock(me) /\ Copied(me)
      /\ open_file_table = Seen.open_file_table
  BY <1>2, <1>3 DEF Inside, CallOK, OpPlaces, Operation, HandlePlaces
<1>5. PICK end : end = FS!HandleOffset(me.fh) + me.n
  OBVIOUS
<1>6. end = HandleOffset(me.fh) + me.n
  BY <1>4, <1>5, FoundAsSeen
<1>7. me.n \in Int
  BY <1>3 DEF Locals
<1>8. PICK new \in Locals : /\ thread' = [thread EXCEPT ![t] = new] /\ new.at = "unlock"
                            /\ SameCall(new, me) /\ SameFound(new, me) /\ new.ret = me.n
  BY <1>1, <1>2, <1>3, <1>7, Returns
<1>9. Counted(new)' /\ HasBlock(new)' /\ Copied(new)' /\ new.ret = new.n
  BY <1>2, <1>3, <1>4, <1>8 DEF Counted, HasBlock, Copied, DirSame, SameCall, SameFound, blockVars
<1>10. (inode_table = [Seen.inode_table EXCEPT
             ![new.inum].i_data_block = new.block,
             ![new.inum].i_size = Max2(Seen.inode_table[new.inum].i_size, FS!HandleOffset(new.fh) + new.n)])'
  <2>1. me.inum \in Inode
    BY <1>4, SeenHandle DEF Counted, TInv
  <2>2. Seen.inode_table \in [Inode -> InodeRecord] /\ Seen.inode_table[me.inum] \in InodeRecord
    BY <2>1, SeenTypes DEF TInv
  <2>3. inode_table = [Seen.inode_table EXCEPT ![me.inum].i_data_block = me.block]
    BY <1>4 DEF InodeHasBlock
  <2>4. inode_table[me.inum].i_size = Seen.inode_table[me.inum].i_size
    BY <2>1, <2>2, <2>3 DEF InodeRecord
  <2>5. PICK size : size = Max2(Seen.inode_table[me.inum].i_size, end)
    OBVIOUS
  <2>6. inode_table' = [inode_table EXCEPT ![me.inum].i_size = size]
    BY <1>1, <1>6, <2>4, <2>5 DEF Advance
  <2>7. inode_table' = [Seen.inode_table EXCEPT ![me.inum].i_data_block = me.block, ![me.inum].i_size = size]
    BY <2>3, <2>6
  <2> QED
    BY <1>3, <1>5, <1>8, <2>5, <2>7 DEF SameCall, SameFound
<1>11. (open_file_table = [Seen.open_file_table EXCEPT ![new.fh].of_offset = FS!HandleOffset(new.fh) + new.n])'
  BY <1>1, <1>3, <1>4, <1>5, <1>6, <1>8 DEF Advance, SameCall, SameFound
<1>12. WriteDone(new)'
  BY <1>9, <1>10, <1>11 DEF WriteDone
<1>13. Inside(new)'
  BY <1>4, <1>8, <1>12 DEF Inside, CallOK, Operation, OpenPlaces, HandlePlaces, UnlinkPlaces, SameCall, Done
<1> QED
  BY <1>8, <1>13

(* tfs_read() decides what to read, and has touched nothing ...             *)
LEMMA CountReadInside ==
    ASSUME TInv, NEW t \in Thread, CountRead(t),
           ReadCount(thread[t].fh, thread[t].len) = 0
           \/ inode_table[HandleInode(thread[t].fh)].i_data_block # -1
    PROVE  \E new \in Locals : thread' = [thread EXCEPT ![t] = new] /\ Inside(new)'
<1>1. PICK me : me = thread[t]
  OBVIOUS
<1>2. PICK inum, n : inum = HandleInode(me.fh) /\ n = ReadCount(me.fh, me.len)
  OBVIOUS
<1>3. /\ me.at = "tfs_read" /\ HandleIsOpen(me.fh)
      /\ mutex' = mutex /\ before' = before /\ UNCHANGED tables
      /\ \/ n = 0 /\ Leave(t, 0)
         \/ /\ n > 0 /\ inode_table[inum].i_data_block # -1
            /\ Go(t, [me EXCEPT !.inum = inum, !.n = n], "copy out")
  <2>1. n = 0 \/ inode_table[inum].i_data_block # -1
    BY <1>1, <1>2
  <2>2. /\ me.at = "tfs_read" /\ HandleIsOpen(me.fh)
        /\ mutex' = mutex /\ before' = before /\ UNCHANGED tables
        /\ \/ n = 0 /\ Leave(t, 0)
           \/ /\ n > 0 /\ inode_table[inum].i_data_block # -1
              /\ Go(t, [me EXCEPT !.inum = inum, !.n = n], "copy out")
           \/ n > 0 /\ inode_table[inum].i_data_block = -1
    BY <1>1, <1>2 DEF CountRead, At, Crash
  <2>3. n = 0 => ~(n > 0)
    OBVIOUS
  <2> QED
    BY <2>1, <2>2, <2>3
<1>4. /\ me \in Locals /\ Inside(me) /\ Seen' = Seen
      /\ \A h : FS!HandleIsOpen(h)' = FS!HandleIsOpen(h) /\ FS!HandleInode(h)' = FS!HandleInode(h)
      /\ \A h, len : FS!ReadCount(h, len)' = FS!ReadCount(h, len)
  BY <1>1, <1>3, StepBegins
<1>5. CallOK(me) /\ me.op = "tfs_read" /\ me.len \in Nat /\ Untouched
  <2>1. CallOK(me) /\ me.op = "tfs_read" /\ Untouched
    BY <1>3, <1>4 DEF Inside, CallOK, OpPlaces, Operation
  <2>2. me.len \in 1 .. MaxIO
    BY <2>1 DEF CallOK
  <2> QED
    BY <2>1, <2>2, SizeAssumption
<1>6. FS!HandleIsOpen(me.fh) /\ FS!HandleInode(me.fh) = inum /\ FS!ReadCount(me.fh, me.len) = n
  BY <1>2, <1>3, <1>5, FoundAsSeen DEF Untouched, HandlesSame, InodesSame
<1>7. inum \in Int /\ n \in Int
  BY <1>5, <1>6, SeenHandle, SizeAssumption DEF Inode, TInv
<1>8. Untouched'
  BY <1>3, <1>4, <1>5 DEF Untouched, InodesSame, DirSame, BlocksSame, HandlesSame, tables, inodeVars,
     blockVars, fileVars
<1>9. CASE n = 0 /\ Leave(t, 0)
  <2>1. PICK new \in Locals : /\ thread' = [thread EXCEPT ![t] = new] /\ new.at = "unlock"
                              /\ SameCall(new, me) /\ new.ret = 0
    BY <1>1, <1>4, <1>9, Returns
  <2>2. ReadDone(new)'
    BY <1>4, <1>6, <1>8, <1>9, <2>1 DEF ReadDone, SameCall
  <2>3. Inside(new)'
    BY <1>5, <2>1, <2>2 DEF Inside, CallOK, Operation, OpenPlaces, HandlePlaces, UnlinkPlaces, SameCall, Done
  <2> QED
    BY <2>1, <2>3
<1>10. CASE /\ n > 0 /\ inode_table[inum].i_data_block # -1
            /\ Go(t, [me EXCEPT !.inum = inum, !.n = n], "copy out")
  <2>1. PICK d : d = [me EXCEPT !.inum = inum, !.n = n]
    OBVIOUS
  <2>2. d \in Locals /\ SameCall(d, me) /\ d.inum = inum /\ d.n = n
    BY <1>4, <1>7, <2>1 DEF Locals, SameCall
  <2>3. PICK new \in Locals : /\ thread' = [thread EXCEPT ![t] = new] /\ new.at = "copy out"
                              /\ SameCall(new, d) /\ SameFound(new, d)
    <3>1. Go(t, d, "copy out") /\ "copy out" \in Place
      BY <1>10, <2>1 DEF Place
    <3> QED
      BY <2>2, <3>1, GoesOn
  <2>4. SameCall(new, me) /\ new.inum = inum /\ new.n = n
    BY <2>2, <2>3 DEF SameCall, SameFound
  <2>5. CountedRead(new)'
    BY <1>4, <1>5, <1>6, <1>10, <2>4 DEF CountedRead, SameCall, Untouched, InodesSame
  <2>6. Inside(new)'
    BY <1>5, <1>8, <2>3, <2>4, <2>5 DEF Inside, CallOK, Operation, OpPlaces, OpenPlaces, HandlePlaces,
       UnlinkPlaces, SameCall
  <2> QED
    BY <2>3, <2>6
<1> QED
  BY <1>3, <1>9, <1>10

(* ... and moves the handle's offset once it has copied.                    *)
LEMMA CopyOutInside ==
    ASSUME TInv, NEW t \in Thread, CopyOut(t), status' = status
    PROVE  \E new \in Locals : thread' = [thread EXCEPT ![t] = new] /\ Inside(new)'
<1>1. PICK me : me = thread[t]
  OBVIOUS
<1>2. PICK end : end = HandleOffset(me.fh) + me.n
  OBVIOUS
<1>3. status = "up" /\ me.at = "copy out"
  BY <1>1 DEF CopyOut, At
<1>4. /\ end <= MaxOffset
      /\ open_file_table' = [open_file_table EXCEPT ![me.fh].of_offset = end]
      /\ Leave(t, me.n)
      /\ UNCHANGED <<status, inodeVars, dir, blockVars, free_open_file_entries, mutex, before>>
  BY <1>1, <1>2, <1>3 DEF CopyOut, Crash
<1>5. /\ me \in Locals /\ Inside(me) /\ Seen' = Seen
      /\ \A h : /\ FS!HandleIsOpen(h)' = FS!HandleIsOpen(h) /\ FS!HandleInode(h)' = FS!HandleInode(h)
                /\ FS!HandleOffset(h)' = FS!HandleOffset(h)
      /\ \A h, len : FS!ReadCount(h, len)' = FS!ReadCount(h, len)
  BY <1>1, <1>3, <1>4, StepBegins
<1>6. CallOK(me) /\ me.op = "tfs_read" /\ Untouched /\ CountedRead(me)
  BY <1>3, <1>5 DEF Inside, CallOK, OpPlaces, Operation, HandlePlaces
<1>7. end = FS!HandleOffset(me.fh) + me.n
  BY <1>2, <1>6, FoundAsSeen DEF Untouched, HandlesSame
<1>8. me.n \in Int
  BY <1>5 DEF Locals
<1>9. PICK new \in Locals : /\ thread' = [thread EXCEPT ![t] = new] /\ new.at = "unlock"
                            /\ SameCall(new, me) /\ SameFound(new, me) /\ new.ret = me.n
  BY <1>1, <1>4, <1>5, <1>8, Returns
<1>10. CountedRead(new)' /\ new.ret = new.n
  BY <1>5, <1>6, <1>9 DEF CountedRead, SameCall, SameFound
<1>11. (open_file_table = [Seen.open_file_table EXCEPT ![new.fh].of_offset = FS!HandleOffset(new.fh) + new.n])'
  BY <1>4, <1>5, <1>6, <1>7, <1>9 DEF Untouched, HandlesSame, SameCall, SameFound
<1>12. FS!HandleOffset(new.fh)' + new.n <= MaxOffset
  <2>1. FS!HandleOffset(new.fh)' + new.n = end
    BY <1>5, <1>7, <1>9 DEF SameCall, SameFound
  <2> QED
    BY <1>4, <2>1
<1>13. (free_open_file_entries = Seen.free_open_file_entries)' /\ InodesSame' /\ DirSame' /\ BlocksSame'
  BY <1>4, <1>5, <1>6 DEF Untouched, InodesSame, DirSame, BlocksSame, HandlesSame, inodeVars, blockVars
<1>14. ReadDone(new)'
  BY <1>10, <1>11, <1>12, <1>13 DEF ReadDone
<1>15. Inside(new)'
  BY <1>6, <1>9, <1>14 DEF Inside, CallOK, Operation, OpenPlaces, HandlePlaces, UnlinkPlaces, SameCall, Done
<1> QED
  BY <1>9, <1>15

-----------------------------------------------------------------------------
(* tfs_unlink(), place by place.                                            *)
LEMMA UnlinkLookupInside ==
    ASSUME TInv, NEW t \in Thread, UnlinkLookup(t)
    PROVE  \E new \in Locals : thread' = [thread EXCEPT ![t] = new] /\ Inside(new)'
<1>1. PICK me : me = thread[t]
  OBVIOUS
<1>2. PICK inum : inum = tfs_lookup(me.path)
  OBVIOUS
<1>3. /\ me.at = "tfs_unlink"
      /\ IF inum = -1 THEN Leave(t, -1) ELSE Go(t, [me EXCEPT !.inum = inum], "delete inode")
      /\ mutex' = mutex /\ before' = before /\ UNCHANGED tables
  BY <1>1, <1>2 DEF UnlinkLookup, At
<1>4. me \in Locals /\ Inside(me) /\ Seen' = Seen /\ \A p : FS!tfs_lookup(p)' = FS!tfs_lookup(p)
  BY <1>1, <1>3, StepBegins
<1>5. CallOK(me) /\ me.op = "tfs_unlink" /\ Untouched
  BY <1>3, <1>4 DEF Inside, CallOK, OpPlaces, Operation
<1>6. inum = FS!tfs_lookup(me.path) /\ (inum # -1 => inum \in Int)
  BY <1>2, <1>5, FoundAsSeen, SeenLookup, SizeAssumption DEF Untouched, Inode, TInv
<1>7. Untouched'
  BY <1>3, <1>4, <1>5 DEF Untouched, InodesSame, DirSame, BlocksSame, HandlesSame, tables, inodeVars,
     blockVars, fileVars
<1>8. CASE inum = -1
  <2>1. Leave(t, -1)
    BY <1>3, <1>8
  <2>2. PICK new \in Locals : /\ thread' = [thread EXCEPT ![t] = new] /\ new.at = "unlock"
                              /\ SameCall(new, me) /\ new.ret = -1
    BY <1>1, <1>4, <2>1, Returns
  <2>3. UnlinkDone(new)'
    BY <1>4, <1>6, <1>7, <1>8, <2>2 DEF UnlinkDone, SameCall
  <2>4. Inside(new)'
    BY <1>5, <2>2, <2>3 DEF Inside, CallOK, Operation, OpenPlaces, HandlePlaces, UnlinkPlaces, SameCall, Done
  <2> QED
    BY <2>2, <2>4
<1>9. CASE inum # -1
  <2>1. PICK d : d = [me EXCEPT !.inum = inum]
    OBVIOUS
  <2>2. d \in Locals /\ SameCall(d, me) /\ d.inum = inum
    BY <1>4, <1>6, <1>9, <2>1 DEF Locals, SameCall
  <2>3. Go(t, d, "delete inode") /\ "delete inode" \in Place
    BY <1>3, <1>9, <2>1 DEF Place
  <2>4. PICK new \in Locals : /\ thread' = [thread EXCEPT ![t] = new] /\ new.at = "delete inode"
                              /\ SameCall(new, d) /\ SameFound(new, d)
    BY <2>2, <2>3, GoesOn
  <2>5. SameCall(new, me) /\ new.inum = inum
    BY <2>2, <2>4 DEF SameCall, SameFound
  <2>6. Found(new)'
    BY <1>4, <1>6, <1>9, <2>5 DEF Found, SameCall
  <2>7. Inside(new)'
    BY <1>5, <1>7, <2>4, <2>5, <2>6 DEF Inside, CallOK, Operation, OpPlaces, OpenPlaces, HandlePlaces,
       UnlinkPlaces, SameCall
  <2> QED
    BY <2>4, <2>7
<1> QED
  BY <1>8, <1>9

(* inode_delete() gives the inode and its block back ...                    *)
LEMMA DeleteInodeInside ==
    ASSUME TInv, NEW t \in Thread, DeleteInode(t)
    PROVE  \E new \in Locals : thread' = [thread EXCEPT ![t] = new] /\ Inside(new)'
<1>1. PICK me : me = thread[t]
  OBVIOUS
<1>2. /\ me.at = "delete inode" /\ inode_delete(me.inum) /\ Go(t, me, "clear entry")
      /\ UNCHANGED <<dir, fileVars, mutex, before>>
  BY <1>1 DEF DeleteInode, At
<1>3. me \in Locals /\ Inside(me) /\ Seen' = Seen /\ \A p : FS!tfs_lookup(p)' = FS!tfs_lookup(p)
  BY <1>1, <1>2, StepBegins
<1>4. CallOK(me) /\ me.op = "tfs_unlink" /\ Untouched /\ Found(me)
  BY <1>2, <1>3 DEF Inside, CallOK, OpPlaces, Operation, UnlinkPlaces
<1>5. PICK new \in Locals : /\ thread' = [thread EXCEPT ![t] = new] /\ new.at = "clear entry"
                            /\ SameCall(new, me) /\ SameFound(new, me)
  BY <1>2, <1>3, GoesOn DEF Place
<1>6. Found(new)'
  BY <1>3, <1>4, <1>5 DEF Found, SameCall, SameFound
<1>7. Deleted(new)'
  BY <1>2, <1>3, <1>4, <1>5 DEF Deleted, BlockFreed, inode_delete, Untouched, InodesSame, BlocksSame, SameFound
<1>8. DirSame' /\ HandlesSame'
  BY <1>2, <1>3, <1>4 DEF DirSame, HandlesSame, Untouched, fileVars
<1>9. Inside(new)'
  BY <1>4, <1>5, <1>6, <1>7, <1>8 DEF Inside, CallOK, Operation, OpPlaces, OpenPlaces, HandlePlaces,
     UnlinkPlaces, SameCall
<1> QED
  BY <1>5, <1>9

(* ... and the entry is cleared last.                                       *)
LEMMA ClearEntryInside ==
    ASSUME TInv, NEW t \in Thread, ClearEntry(t)
    PROVE  \E new \in Locals : thread' = [thread EXCEPT ![t] = new] /\ Inside(new)'
<1>1. PICK me : me = thread[t]
  OBVIOUS
<1>2. PICK ret \in {-1, 0} : clear_dir_entry(me.path, ret) /\ Leave(t, ret)
  BY <1>1 DEF ClearEntry
<1>3. /\ me.at = "clear entry" /\ mutex' = mutex /\ before' = before
      /\ UNCHANGED <<inodeVars, blockVars, fileVars>>
  BY <1>1 DEF ClearEntry, At
<1>4. /\ me \in Locals /\ Inside(me) /\ Seen' = Seen
      /\ \A p : FS!tfs_lookup(p)' = FS!tfs_lookup(p) /\ FS!SlotsNamed(p)' = FS!SlotsNamed(p)
  BY <1>1, <1>3, StepBegins
<1>5. CallOK(me) /\ me.op = "tfs_unlink" /\ Found(me) /\ Deleted(me) /\ DirSame /\ HandlesSame
  BY <1>3, <1>4 DEF Inside, CallOK, OpPlaces, Operation, UnlinkPlaces
<1>6. SlotsNamed(me.path) = FS!SlotsNamed(me.path)
  BY <1>5, FoundAsSeen
<1>7. PICK new \in Locals : /\ thread' = [thread EXCEPT ![t] = new] /\ new.at = "unlock"
                            /\ SameCall(new, me) /\ SameFound(new, me) /\ new.ret = ret
  BY <1>1, <1>2, <1>4, Returns
<1>8. Found(new)' /\ Deleted(new)' /\ HandlesSame'
  BY <1>3, <1>4, <1>5, <1>7 DEF Found, Deleted, BlockFreed, HandlesSame, SameCall, SameFound, inodeVars,
     blockVars, fileVars
<1>9. IF SlotsNamed(me.path) = {}
      THEN new.ret = -1 /\ DirSame'
      ELSE /\ new.ret = 0
           /\ dir' = [dir EXCEPT ![Lowest(SlotsNamed(me.path))] = [d_inumber |-> -1, d_name |-> NoName]]
  BY <1>2, <1>4, <1>5, <1>7 DEF clear_dir_entry, DirSame
<1>10. FS!SlotsNamed(new.path)' = SlotsNamed(me.path) /\ dir = Seen.dir' /\ FS!tfs_lookup(new.path)' = FS!tfs_lookup(me.path)
  BY <1>4, <1>5, <1>6, <1>7 DEF DirSame, SameCall
<1>11. UnlinkDone(new)'
  BY <1>8, <1>9, <1>10 DEF UnlinkDone, Lowest
<1>12. Inside(new)'
  BY <1>5, <1>7, <1>11 DEF Inside, CallOK, Operation, OpenPlaces, HandlePlaces, UnlinkPlaces, SameCall, Done
<1> QED
  BY <1>7, <1>12

-----------------------------------------------------------------------------
(* What holds of the tables holds for as long as they stay.                 *)
LEMMA InsideUnchanged ==
    ASSUME mutex # NoThread, UNCHANGED <<tables, mutex, before>>, NEW c, Inside(c)
    PROVE  Inside(c)'
<1>1. /\ Seen' = Seen
      /\ UNCHANGED <<inode_table, freeinode_ts, dir, fs_data, free_blocks, open_file_table,
                     free_open_file_entries>>
  BY SeenStays DEF tables, inodeVars, blockVars, fileVars
<1>2. /\ InodesSame' <=> InodesSame
      /\ DirSame' <=> DirSame
      /\ BlocksSame' <=> BlocksSame
      /\ HandlesSame' <=> HandlesSame
      /\ Untouched' <=> Untouched
  BY <1>1 DEF Untouched, InodesSame, DirSame, BlocksSame, HandlesSame
<1>3. /\ Found(c)' <=> Found(c)
      /\ Truncates(c)' <=> Truncates(c)
      /\ BlockFreed(c)' <=> BlockFreed(c)
      /\ Creates(c)' <=> Creates(c)
      /\ Allocated(c)' <=> Allocated(c)
      /\ InodeTaken(c)' <=> InodeTaken(c)
      /\ InodeReset(c)' <=> InodeReset(c)
      /\ Storable(c)' <=> Storable(c)
      /\ EntrySlot' = EntrySlot
  BY <1>1, SeenStays DEF Found, Truncates, BlockFreed, Creates, Allocated, InodeTaken, InodeReset, Storable,
     valid_pathname
<1>4. /\ OpenedExisting(c)' <=> OpenedExisting(c)
      /\ OpenedNew(c)' <=> OpenedNew(c)
      /\ HandleAdded(c.inum, c.offset, c.ret)' <=> HandleAdded(c.inum, c.offset, c.ret)
  BY <1>1, <1>2, <1>3 DEF OpenedExisting, OpenedNew, HandleAdded
<1>5. /\ OpenDone(c)' <=> OpenDone(c)
      /\ OpenPlaces(c)' <=> OpenPlaces(c)
  BY <1>1, <1>2, <1>3, <1>4, SeenStays DEF OpenDone, OpenPlaces, valid_pathname
<1>6. /\ NoSuchHandle(c)' <=> NoSuchHandle(c)
      /\ Counted(c)' <=> Counted(c)
      /\ HasBlock(c)' <=> HasBlock(c)
      /\ InodeHasBlock(c)' <=> InodeHasBlock(c)
      /\ CountedRead(c)' <=> CountedRead(c)
  BY <1>1, <1>2, SeenStays DEF NoSuchHandle, Counted, HasBlock, InodeHasBlock, CountedRead
<1>7. Copied(c)' <=> Copied(c)
  BY <1>1, SeenStays DEF Copied
<1>8. /\ CloseDone(c)' <=> CloseDone(c)
      /\ ReadDone(c)' <=> ReadDone(c)
      /\ HandlePlaces(c)' <=> HandlePlaces(c)
  BY <1>1, <1>2, <1>6, <1>7, SeenStays DEF CloseDone, ReadDone, HandlePlaces
<1>9. WriteDone(c)' <=> WriteDone(c)
  BY <1>1, <1>2, <1>6, <1>7, SeenStays DEF WriteDone
<1>10. /\ Deleted(c)' <=> Deleted(c)
       /\ UnlinkPlaces(c)' <=> UnlinkPlaces(c)
  BY <1>1, <1>2, <1>3 DEF Deleted, UnlinkPlaces
<1>11. UnlinkDone(c)' <=> UnlinkDone(c)
  BY <1>1, <1>2, <1>3, <1>10, SeenStays DEF UnlinkDone
<1>12. Done(c)' <=> Done(c)
  BY <1>5, <1>8, <1>9, <1>11 DEF Done
<1> QED
  BY <1>2, <1>5, <1>8, <1>10, <1>12 DEF Inside

(* The invariant survives what leaves everything but the status.            *)
LEMMA StayingKeeps ==
    ASSUME TInv, UNCHANGED <<tables, mutex, thread, before>>, [FS!Next]_(FS!vars)
    PROVE  TInv'
<1>1. ThreadInv' /\ LocalsOK'
  BY DEF TInv, ThreadInv, OneInside, LocalsOK
<1>2. PlaceInv'
  <2>1. mutex' \in Thread \cup {NoThread}
    BY DEF TInv, PlaceInv
  <2>2. ASSUME NEW u \in Thread, NEW c \in Locals, mutex' = u, thread'[u] = c
        PROVE  Inside(c)'
    <3>1. Inside(c) /\ mutex # NoThread
      BY <2>2, ThreadAssumption DEF TInv, PlaceInv
    <3> QED
      BY <3>1, InsideUnchanged
  <2> QED
    BY <2>1, <2>2 DEF PlaceInv
<1>3. Atomic!IInv'
  BY SeenKept DEF TInv
<1> QED
  BY <1>1, <1>2, <1>3 DEF TInv

(* A process that dies within a call dies as it does in a single call.      *)
LEMMA CrashShows ==
    ASSUME TInv, NEW t \in Thread, mutex = t, Crash(status'), Inside(thread[t]),
           thread[t] \in Locals, status = "up",
           \/ CopyIn(t) /\ ~(thread[t].n <= BLOCK_SIZE)
           \/ /\ CountRead(t) /\ ReadCount(thread[t].fh, thread[t].len) # 0
              /\ inode_table[HandleInode(thread[t].fh)].i_data_block = -1
           \/ CopyOut(t) /\ status' # status
    PROVE  FS!Next
<1>1. PICK me : me = thread[t]
  OBVIOUS
<1>2. UNCHANGED <<FS!inodeVars, Seen.dir, FS!blockVars, FS!fileVars>>
  <2>1. Seen' = Seen
    BY ThreadAssumption, SeenStays DEF Crash
  <2> QED
    BY <2>1 DEF FS!inodeVars, FS!blockVars, FS!fileVars
<1>3. me.fh \in FS!AnyHandle /\ me.byte \in Byte /\ me.n \in Int
  BY <1>1 DEF Locals, AnyHandle, Handle, FS!AnyHandle, FS!Handle
<1>4. CASE CopyIn(t) /\ ~(me.n <= BLOCK_SIZE)
  <2>0. me.n > BLOCK_SIZE
    BY <1>3, <1>4, SizeAssumption
  <2>1. me.at = "copy in" /\ status' = "segv"
    BY <1>1, <1>4, <2>0 DEF CopyIn, At, Crash
  <2>2. CallOK(me) /\ me.op = "tfs_write" /\ Counted(me) /\ HasBlock(me)
    BY <1>1, <2>1 DEF Inside, CallOK, OpPlaces, Operation, HandlePlaces
  <2>3. FS!tfs_write(me.fh, me.len, me.byte, -1)
    BY <1>2, <2>0, <2>1, <2>2 DEF FS!tfs_write, Counted, HasBlock
  <2>4. me.len \in 1 .. MaxIO /\ -1 \in -1 .. BLOCK_SIZE
    BY <2>2, SizeAssumption DEF CallOK
  <2> QED
    BY <1>3, <2>3, <2>4 DEF FS!Next
<1>5. CASE /\ CountRead(t) /\ ReadCount(me.fh, me.len) # 0
           /\ inode_table[HandleInode(me.fh)].i_data_block = -1
  <2>1. me.at = "tfs_read" /\ HandleIsOpen(me.fh)
    BY <1>1, <1>5 DEF CountRead, At
  <2>2. ReadCount(me.fh, me.len) > 0 /\ status' = "panic"
    BY <1>1, <1>5 DEF CountRead, Crash
  <2>3. CallOK(me) /\ me.op = "tfs_read" /\ Untouched
    BY <1>1, <2>1 DEF Inside, CallOK, OpPlaces, Operation
  <2>4. /\ FS!HandleIsOpen(me.fh) /\ FS!ReadCount(me.fh, me.len) > 0
        /\ Seen.inode_table[FS!HandleInode(me.fh)].i_data_block = -1
    BY <1>5, <2>1, <2>2, <2>3, FoundAsSeen DEF Untouched, HandlesSame, InodesSame
  <2>5. FS!tfs_read(me.fh, me.len, -1)
    BY <1>2, <2>2, <2>4 DEF FS!tfs_read
  <2>6. me.len \in 1 .. MaxIO /\ -1 \in -1 .. MaxIO
    BY <2>3, SizeAssumption DEF CallOK
  <2> QED
    BY <1>3, <2>5, <2>6 DEF FS!Next
<1>6. CASE CopyOut(t) /\ status' # status
  <2>1. PICK end : end = HandleOffset(me.fh) + me.n
    OBVIOUS
  <2>2. /\ me.at = "copy out" /\ status' = "segv"
        /\ ReadsPastData(inode_table[me.inum].i_data_block, end)
    BY <1>1, <1>6, <2>1 DEF CopyOut, At, Crash
  <2>3. CallOK(me) /\ me.op = "tfs_read" /\ Untouched /\ CountedRead(me)
    BY <1>1, <2>2 DEF Inside, CallOK, OpPlaces, Operation, HandlePlaces
  <2>4. end = FS!HandleOffset(me.fh) + FS!ReadCount(me.fh, me.len)
    BY <2>1, <2>3, FoundAsSeen DEF CountedRead, Untouched, HandlesSame
  <2>5. FS!ReadsPastData(Seen.inode_table[FS!HandleInode(me.fh)].i_data_block, end)
    BY <2>2, <2>3 DEF ReadsPastData, FS!ReadsPastData, Untouched, InodesSame, CountedRead
  <2>6. FS!tfs_read(me.fh, me.len, -1)
    BY <1>2, <2>2, <2>3, <2>4, <2>5 DEF FS!tfs_read, CountedRead
  <2>7. me.len \in 1 .. MaxIO /\ -1 \in -1 .. MaxIO
    BY <2>3, SizeAssumption DEF CallOK
  <2> QED
    BY <1>3, <2>6, <2>7 DEF FS!Next
<1> QED
  BY <1>1, <1>4, <1>5, <1>6

-----------------------------------------------------------------------------
(* An idle thread's locals.                                                 *)
LEMMA IdleTyped == Idle \in Locals /\ Idle.at = "idle" /\ Idle.offset = 0
<1>1. PICK minus, zero : minus = -1 /\ zero = 0
  OBVIOUS
<1>2. minus \in Int /\ zero \in Int /\ zero \in Nat /\ minus \in AnyHandle /\ zero \in Byte
  BY <1>1, ByteAssumption DEF AnyHandle
<1>3. {} \in Mode
  BY DEF Mode
<1>4. Idle = [at |-> "idle", op |-> "none", path |-> NoName, mode |-> {}, fh |-> minus, len |-> zero,
              byte |-> zero, inum |-> minus, offset |-> zero, block |-> minus, n |-> zero, ret |-> minus]
  BY <1>1 DEF Idle
<1> QED
  BY <1>1, <1>2, <1>3, <1>4 DEF Locals, Place

(* Lock: the call's locals are those of a call that has touched nothing.    *)
LEMMA CallsAreFresh ==
    ASSUME NEW call \in Calls
    PROVE  /\ call \in Locals /\ CallOK(call) /\ call.op \in Place /\ call.offset = 0
<1>1. 1 .. MaxIO \subseteq Nat
  BY SizeAssumption
<1>2. ASSUME NEW p \in Path, NEW m \in Mode, call = OpenCall(p, m)
      PROVE  call \in Locals /\ call.offset = 0 /\ call.op = "tfs_open" /\ call.path = p
  BY <1>2, IdleTyped DEF OpenCall, Locals, Operation
<1>3. ASSUME NEW h \in AnyHandle, call = CloseCall(h)
      PROVE  call \in Locals /\ call.offset = 0 /\ call.op = "tfs_close"
  BY <1>3, IdleTyped DEF CloseCall, Locals, Operation
<1>4. ASSUME NEW h \in AnyHandle, NEW l \in 1 .. MaxIO, NEW b \in Byte, call = WriteCall(h, l, b)
      PROVE  call \in Locals /\ call.offset = 0 /\ call.op = "tfs_write" /\ call.len = l
  <2>1. l \in Nat
    BY <1>1
  <2> QED
    BY <1>4, <2>1, IdleTyped DEF WriteCall, Locals, Operation
<1>5. ASSUME NEW h \in AnyHandle, NEW l \in 1 .. MaxIO, call = ReadCall(h, l)
      PROVE  call \in Locals /\ call.offset = 0 /\ call.op = "tfs_read" /\ call.len = l
  <2>1. l \in Nat
    BY <1>1
  <2> QED
    BY <1>5, <2>1, IdleTyped DEF ReadCall, Locals, Operation
<1>6. ASSUME NEW p \in Path, call = UnlinkCall(p)
      PROVE  call \in Locals /\ call.offset = 0 /\ call.op = "tfs_unlink" /\ call.path = p
  BY <1>6, IdleTyped DEF UnlinkCall, Locals, Operation
<1> DEFINE Fresh == /\ call \in Locals /\ call.offset = 0
                    /\ \/ call.op \in {"tfs_open", "tfs_unlink"} /\ call.path \in Path
                       \/ call.op = "tfs_close"
                       \/ call.op \in {"tfs_write", "tfs_read"} /\ call.len \in 1 .. MaxIO
<1> HIDE DEF Fresh
<1>7. (\E p \in Path : \E m \in Mode : call = OpenCall(p, m)) => Fresh
  BY <1>2 DEF Fresh
<1>8. (\E h \in AnyHandle : call = CloseCall(h)) => Fresh
  BY <1>3 DEF Fresh
<1>9. (\E h \in AnyHandle : \E l \in 1 .. MaxIO : \E b \in Byte : call = WriteCall(h, l, b)) => Fresh
  BY <1>4 DEF Fresh
<1>10. (\E h \in AnyHandle : \E l \in 1 .. MaxIO : call = ReadCall(h, l)) => Fresh
  BY <1>5 DEF Fresh
<1>11. (\E p \in Path : call = UnlinkCall(p)) => Fresh
  BY <1>6 DEF Fresh
<1>12. \/ \E p \in Path : \E m \in Mode : call = OpenCall(p, m)
       \/ \E h \in AnyHandle : call = CloseCall(h)
       \/ \E h \in AnyHandle : \E l \in 1 .. MaxIO : \E b \in Byte : call = WriteCall(h, l, b)
       \/ \E h \in AnyHandle : \E l \in 1 .. MaxIO : call = ReadCall(h, l)
       \/ \E p \in Path : call = UnlinkCall(p)
  BY ONLY call \in Calls DEF Calls
<1>13. Fresh
  BY ONLY <1>7, <1>8, <1>9, <1>10, <1>11, <1>12
<1> QED
  BY <1>13 DEF Fresh, CallOK, Operation, Place

(* A call that begins has touched nothing and shows nothing.                *)
LEMMA LockShows ==
    ASSUME TInv, NEW t \in Thread, NEW call \in Calls, Lock(t, call)
    PROVE  TInv' /\ UNCHANGED FS!vars
<1>1. /\ call \in Locals /\ CallOK(call) /\ call.op \in Place /\ call.offset = 0
  BY CallsAreFresh
<1>2. PICK new \in Locals : /\ thread' = [thread EXCEPT ![t] = new] /\ new.at = call.op
                            /\ SameCall(new, call) /\ SameFound(new, call)
  BY <1>1, GoesOn DEF Lock
<1>3. Seen = Snapshot /\ Seen' = Snapshot /\ mutex' = t
  BY ThreadAssumption DEF Lock, Seen
<1>4. UNCHANGED FS!vars
  BY <1>3 DEF Lock, FS!vars, FS!inodeVars, FS!blockVars, FS!fileVars
<1>5. ThreadInv'
  BY <1>2, KeepsOthersOut DEF Lock, TInv
<1>6. LocalsOK' /\ thread'[t] = new
  BY <1>2 DEF TInv, LocalsOK
<1>7. Untouched'
  BY <1>3 DEF Lock, Snapshot, Untouched, InodesSame, DirSame, BlocksSame, HandlesSame, tables, inodeVars,
     blockVars, fileVars
<1>8. Inside(new)'
  BY <1>1, <1>2, <1>7 DEF Inside, CallOK, Operation, OpPlaces, OpenPlaces, HandlePlaces, UnlinkPlaces,
     SameCall, SameFound
<1>9. PlaceInv'
  <2> SUFFICES ASSUME NEW u \in Thread, NEW c \in Locals, mutex' = u, thread'[u] = c
               PROVE  Inside(c)'
    BY <1>3 DEF PlaceInv
  <2>1. c = new
    BY <1>3, <1>6
  <2> QED
    BY <1>8, <2>1
<1>10. Atomic!IInv'
  BY <1>4, SeenKept DEF TInv
<1> QED
  BY <1>4, <1>5, <1>6, <1>9, <1>10 DEF TInv

-----------------------------------------------------------------------------
(* The constants and scans of TecnicoFS do not depend on the tables.        *)
LEMMA SameValues ==
    /\ \A S : FS!Lowest(S) = Lowest(S)
    /\ \A table : FS!FreeSlots(table) = FreeSlots(table)
    /\ \A a, b : FS!Max2(a, b) = Max2(a, b)
    /\ \A path : FS!valid_pathname(path) = valid_pathname(path)
    /\ FS!FREE = FREE /\ FS!TAKEN = TAKEN /\ FS!NoName = NoName
    /\ FS!EmptyFile = EmptyFile /\ FS!RootInode = RootInode /\ FS!ROOT_DIR_INUM = ROOT_DIR_INUM
    /\ FS!Inode = Inode /\ FS!Block = Block /\ FS!Handle = Handle /\ FS!DirSlot = DirSlot
    /\ FS!Offset = Offset /\ FS!Mode = Mode /\ FS!AnyHandle = AnyHandle
BY DEF FS!Lowest, Lowest, FS!FreeSlots, FreeSlots, FS!Max2, Max2, FS!valid_pathname, valid_pathname,
       FS!FREE, FREE, FS!TAKEN, TAKEN, FS!NoName, NoName, FS!EmptyFile, EmptyFile, FS!RootInode,
       RootInode, FS!ROOT_DIR_INUM, ROOT_DIR_INUM, FS!Inode, Inode, FS!Block, Block, FS!Handle,
       Handle, FS!DirSlot, DirSlot, FS!Offset, Offset, FS!Mode, Mode, FS!AnyHandle, AnyHandle

(* The tables as they are become what is seen.                              *)
Shown ==
    /\ status = "up" /\ status' = status
    /\ Seen'.inode_table = inode_table /\ Seen'.freeinode_ts = freeinode_ts
    /\ Seen'.dir = dir
    /\ Seen'.fs_data = fs_data /\ Seen'.free_blocks = free_blocks
    /\ Seen'.open_file_table = open_file_table
    /\ Seen'.free_open_file_entries = free_open_file_entries

(* Where a call has touched nothing, its return changes nothing.            *)
LEMMA NothingShown ==
    ASSUME Shown, Untouched
    PROVE  UNCHANGED FS!vars
BY DEF Shown, Untouched, InodesSame, DirSame, BlocksSame, HandlesSame, FS!vars, FS!inodeVars,
       FS!blockVars, FS!fileVars

(* A handle that was added is seen with the call that added it.             *)
LEMMA HandleShown ==
    ASSUME Shown, NEW inum, NEW offset, NEW fh, HandleAdded(inum, offset, fh)
    PROVE  FS!add_to_open_file_table(inum, offset, fh)
<1>1. FS!FreeSlots(Seen.free_open_file_entries) = FreeSlots(Seen.free_open_file_entries)
      /\ FS!Lowest(FreeSlots(Seen.free_open_file_entries)) = Lowest(FreeSlots(Seen.free_open_file_entries))
      /\ FS!TAKEN = TAKEN
  BY SameValues
<1> QED
  BY <1>1 DEF Shown, HandleAdded, HandlesSame, FS!add_to_open_file_table, FS!fileVars

(* Each operation that is done shows what it would do in one step.          *)
LEMMA OpenShows ==
    ASSUME Shown, NEW c \in Locals, OpenDone(c)
    PROVE  FS!tfs_open(c.path, c.mode, c.ret)
<1>1. CASE /\ Untouched /\ c.ret = -1
           /\ FS!tfs_lookup(c.path) = -1
           /\ ~valid_pathname(c.path) \/ "TFS_O_CREAT" \notin c.mode \/ FS!inode_alloc = -1
  BY <1>1, NothingShown, SameValues DEF FS!tfs_open, Shown
<1>2. CASE /\ Allocated(c) /\ ~Storable(c) /\ c.ret = -1
           /\ InodeReset(c) /\ freeinode_ts = Seen.freeinode_ts /\ DirSame /\ BlocksSame /\ HandlesSame
  <2>1. EntrySlot = FS!Lowest(FS!EmptyDirSlots)
    BY SameValues DEF EntrySlot
  <2>2. FS!OpenNew(c.path, c.ret)
    BY <1>2, <2>1, SameValues DEF Shown, FS!OpenNew, Allocated, Storable, InodeReset, DirSame,
       BlocksSame, HandlesSame, FS!fileVars, FS!blockVars
  <2> QED
    BY <1>2, <2>2, SameValues DEF FS!tfs_open, Allocated, Creates, Shown
<1>3. CASE OpenedNew(c) /\ HandleAdded(c.inum, c.offset, c.ret)
  <2>1. EntrySlot = FS!Lowest(FS!EmptyDirSlots)
    BY SameValues DEF EntrySlot
  <2>2. FS!add_to_open_file_table(c.inum, 0, c.ret)
    BY <1>3, HandleShown DEF OpenedNew, Allocated, Creates
  <2>3. FS!OpenNew(c.path, c.ret)
    BY <1>3, <2>1, <2>2, SameValues DEF Shown, FS!OpenNew, OpenedNew, Allocated, Storable, InodeReset,
       InodeTaken, BlocksSame, FS!blockVars
  <2> QED
    BY <1>3, <2>3, SameValues DEF FS!tfs_open, OpenedNew, Allocated, Creates, Shown
<1>4. CASE OpenedExisting(c) /\ HandleAdded(c.inum, c.offset, c.ret)
  <2>1. FS!add_to_open_file_table(c.inum, c.offset, c.ret)
    BY <1>4, HandleShown
  <2>2. FS!OpenExisting(c.inum, c.mode, c.ret)
    BY <1>4, <2>1, SameValues DEF Shown, FS!OpenExisting, OpenedExisting, Truncates, BlockFreed,
       StartOffset, DirSame
  <2> QED
    BY <1>4, <2>2 DEF FS!tfs_open, OpenedExisting, Found, Shown
<1> QED
  BY <1>1, <1>2, <1>3, <1>4 DEF OpenDone

(* tfs_close() ...                                                          *)
LEMMA CloseShows ==
    ASSUME Shown, NEW c \in Locals, CloseDone(c)
    PROVE  FS!tfs_close(c.fh, c.ret)
<1>1. CASE NoSuchHandle(c)
  BY <1>1, NothingShown DEF NoSuchHandle, FS!tfs_close, Shown
<1>2. CASE ~NoSuchHandle(c)
  BY <1>2, SameValues DEF CloseDone, FS!tfs_close, Shown, InodesSame, DirSame, BlocksSame,
     FS!inodeVars, FS!blockVars
<1> QED
  BY <1>1, <1>2

(* tfs_unlink() ...                                                         *)
LEMMA UnlinkShows ==
    ASSUME Shown, NEW c \in Locals, UnlinkDone(c)
    PROVE  FS!tfs_unlink(c.path, c.ret)
<1>1. CASE Untouched /\ FS!tfs_lookup(c.path) = -1 /\ c.ret = -1
  BY <1>1, NothingShown DEF FS!tfs_unlink, Shown
<1>2. CASE ~(Untouched /\ FS!tfs_lookup(c.path) = -1 /\ c.ret = -1)
  <2>1. /\ Found(c) /\ Deleted(c) /\ HandlesSame
        /\ IF FS!SlotsNamed(c.path) = {}
           THEN c.ret = -1 /\ DirSame
           ELSE /\ c.ret = 0
                /\ dir = [Seen.dir EXCEPT ![Lowest(FS!SlotsNamed(c.path))] =
                              [d_inumber |-> -1, d_name |-> NoName]]
    BY <1>2 DEF UnlinkDone
  <2>2. FS!inode_delete(FS!tfs_lookup(c.path))
    BY <2>1, SameValues DEF Found, Deleted, BlockFreed, FS!inode_delete, Shown
  <2>3. FS!clear_dir_entry(c.path, c.ret)
    BY <2>1, SameValues DEF FS!clear_dir_entry, Shown, DirSame
  <2> QED
    BY <2>1, <2>2, <2>3 DEF Found, HandlesSame, FS!tfs_unlink, Shown, FS!fileVars
<1> QED
  BY <1>1, <1>2

(* tfs_write(), which returns at most a block's bytes ...                   *)
LEMMA WriteShows ==
    ASSUME Shown, NEW c \in Locals, WriteDone(c)
    PROVE  /\ FS!tfs_write(c.fh, c.len, c.byte, c.ret)
           /\ c.ret \in -1 .. BLOCK_SIZE
<1>0. c.n \in Int
  BY DEF Locals
<1>1. CASE NoSuchHandle(c)
  BY <1>1, NothingShown, SizeAssumption DEF NoSuchHandle, FS!tfs_write, Shown
<1>2. CASE Untouched /\ FS!HandleIsOpen(c.fh) /\ FS!WriteCount(c.fh, c.len) = 0 /\ c.ret = 0
  BY <1>2, NothingShown, SizeAssumption DEF FS!tfs_write, Shown
<1>3. CASE /\ Untouched /\ FS!HandleIsOpen(c.fh) /\ FS!WriteCount(c.fh, c.len) > 0
           /\ FS!WriteBlock(FS!HandleInode(c.fh)) = -1 /\ c.ret = -1
  BY <1>3, NothingShown, SizeAssumption DEF FS!tfs_write, Shown
<1>4. CASE /\ Counted(c) /\ HasBlock(c) /\ Copied(c) /\ c.ret = c.n
           /\ inode_table = [Seen.inode_table EXCEPT
                  ![c.inum].i_data_block = c.block,
                  ![c.inum].i_size = Max2(Seen.inode_table[c.inum].i_size, FS!HandleOffset(c.fh) + c.n)]
           /\ open_file_table =
                  [Seen.open_file_table EXCEPT ![c.fh].of_offset = FS!HandleOffset(c.fh) + c.n]
  <2>1. c.n \in 1 .. BLOCK_SIZE /\ c.ret \in -1 .. BLOCK_SIZE
    <3>1. c.n > 0 /\ c.n <= BLOCK_SIZE /\ c.ret = c.n
      BY <1>4 DEF Counted, Copied
    <3> QED
      BY ONLY <1>0, <3>1, SizeAssumption
  <2>2. PICK from : from = FS!HandleOffset(c.fh)
    OBVIOUS
  <2>3. FS!StoreBytes(c.fh, c.inum, c.block, c.n, c.byte)
    <3>1. IF Seen.inode_table[c.inum].i_size = 0
          THEN Seen'.free_blocks = [Seen.free_blocks EXCEPT ![c.block] = FS!TAKEN]
          ELSE Seen'.free_blocks = Seen.free_blocks
      BY <1>4, SameValues DEF HasBlock, Shown
    <3>2. Seen'.fs_data = [Seen.fs_data EXCEPT ![c.block] =
              [k \in FS!Offset |-> IF from <= k /\ k < from + c.n THEN c.byte
                                   ELSE Seen.fs_data[c.block][k]]]
      BY <1>4, <2>2, SameValues DEF Copied, Shown
    <3>3. Seen'.inode_table = [Seen.inode_table EXCEPT
              ![c.inum].i_data_block = c.block,
              ![c.inum].i_size = FS!Max2(Seen.inode_table[c.inum].i_size, from + c.n)]
      BY <1>4, <2>2, SameValues DEF Shown
    <3>4. Seen'.open_file_table = [Seen.open_file_table EXCEPT ![c.fh].of_offset = from + c.n]
      BY <1>4, <2>2 DEF Shown
    <3> QED
      BY ONLY <2>2, <3>1, <3>2, <3>3, <3>4 DEF FS!StoreBytes
  <2>4. /\ c.n = FS!WriteCount(c.fh, c.len) /\ c.inum = FS!HandleInode(c.fh)
        /\ c.block = FS!WriteBlock(c.inum) /\ c.block # -1 /\ FS!HandleIsOpen(c.fh)
    BY <1>4 DEF Counted, HasBlock
  <2>5. /\ status = "up" /\ status' = status
        /\ UNCHANGED <<Seen.freeinode_ts, Seen.dir, Seen.free_open_file_entries>>
    BY <1>4 DEF Shown, HasBlock, DirSame
  <2>6. FS!tfs_write(c.fh, c.len, c.byte, c.n)
    BY ONLY <2>1, <2>3, <2>4, <2>5 DEF FS!tfs_write
  <2>7. c.ret = c.n
    BY <1>4
  <2> QED
    BY ONLY <2>1, <2>6, <2>7
<1> QED
  BY <1>1, <1>2, <1>3, <1>4 DEF WriteDone

(* tfs_read(), which returns at most the bytes asked for ...                *)
LEMMA ReadShows ==
    ASSUME Shown, Atomic!IInv, NEW c \in Locals, c.len \in 1 .. MaxIO, ReadDone(c)
    PROVE  /\ FS!tfs_read(c.fh, c.len, c.ret)
           /\ c.ret \in -1 .. MaxIO
<1>0. c.n \in Int
  BY DEF Locals
<1>1. CASE NoSuchHandle(c)
  BY <1>1, NothingShown, SizeAssumption DEF NoSuchHandle, FS!tfs_read, Shown
<1>2. CASE Untouched /\ FS!HandleIsOpen(c.fh) /\ FS!ReadCount(c.fh, c.len) = 0 /\ c.ret = 0
  BY <1>2, NothingShown, SizeAssumption DEF FS!tfs_read, Shown
<1>3. CASE ~NoSuchHandle(c) /\ CountedRead(c)
           /\ ~(Untouched /\ FS!HandleIsOpen(c.fh) /\ FS!ReadCount(c.fh, c.len) = 0 /\ c.ret = 0)
  <2>1. PICK end : end = FS!HandleOffset(c.fh) + c.n
    OBVIOUS
  <2>2. /\ c.ret = c.n /\ end <= MaxOffset
        /\ open_file_table = [Seen.open_file_table EXCEPT ![c.fh].of_offset = end]
        /\ free_open_file_entries = Seen.free_open_file_entries
        /\ InodesSame /\ DirSame /\ BlocksSame
    BY <1>3, <2>1 DEF ReadDone
  <2>3. /\ FS!HandleIsOpen(c.fh) /\ c.inum = FS!HandleInode(c.fh)
        /\ c.n = FS!ReadCount(c.fh, c.len) /\ c.n > 0
        /\ Seen.inode_table[c.inum].i_data_block # -1
    BY <1>3 DEF CountedRead
  <2>4. FS!tfs_read(c.fh, c.len, c.ret)
    BY <2>1, <2>2, <2>3 DEF FS!tfs_read, Shown, InodesSame, DirSame, BlocksSame, FS!inodeVars,
       FS!blockVars
  <2>5. c.n <= c.len
    <3>1. PICK left : left = FS!SizeSub(Seen.inode_table[FS!HandleInode(c.fh)].i_size, FS!HandleOffset(c.fh))
      OBVIOUS
    <3>2. c.n = IF left > c.len THEN c.len ELSE left
      BY <2>3, <3>1 DEF FS!ReadCount
    <3>3. FS!HandleOffset(c.fh) \in Int /\ Seen.inode_table[FS!HandleInode(c.fh)].i_size \in Int
      BY <2>3, SeenHandle, SizeAssumption DEF InodeRecord
    <3>4. left \in Int
      BY ONLY <3>1, <3>3, SizeAssumption DEF FS!SizeSub
    <3> QED
      BY ONLY <3>2, <3>4, c.len \in 1 .. MaxIO, SizeAssumption
  <2>6. c.ret \in -1 .. MaxIO
    <3>1. c.ret = c.n /\ c.n > 0
      BY <2>2, <2>3
    <3> QED
      BY ONLY <1>0, <2>5, <3>1, c.len \in 1 .. MaxIO, SizeAssumption
  <2> QED
    BY <2>4, <2>6
<1> QED
  BY <1>1, <1>2, <1>3 DEF ReadDone

(* tfs_open(), which returns a handle or -1.                                *)
LEMMA OpenReturn ==
    ASSUME NEW c \in Locals, OpenDone(c), Atomic!IInv
    PROVE  c.ret \in AnyHandle
<1>1. CASE HandleAdded(c.inum, c.offset, c.ret)
  <2>1. c.ret = Lowest(FreeSlots(Seen.free_open_file_entries))
    BY <1>1 DEF HandleAdded
  <2>2. FreeSlots(Seen.free_open_file_entries) \subseteq Handle
    BY SeenTypes DEF FreeSlots
  <2>3. c.ret = -1 \/ c.ret \in FreeSlots(Seen.free_open_file_entries)
    BY <2>1 DEF Lowest
  <2> QED
    BY <2>2, <2>3 DEF AnyHandle
<1>2. CASE ~HandleAdded(c.inum, c.offset, c.ret)
  BY <1>2 DEF OpenDone, AnyHandle
<1> QED
  BY <1>1, <1>2

(* The unlock is where the call takes effect, all at once.                  *)
LEMMA UnlockShows ==
    ASSUME TInv, NEW t \in Thread, Unlock(t)
    PROVE  TInv' /\ FS!Next /\ Atomically(thread[t])
<1>1. PICK c : c = thread[t]
  OBVIOUS
<1>2. c.at = "unlock" /\ status = "up" /\ mutex' = NoThread /\ status' = status /\ UNCHANGED tables
  BY <1>1 DEF Unlock, At
<1>3. c \in Locals /\ Inside(c)
  BY <1>1, <1>2, InsideFacts
<1>4. CallOK(c) /\ Done(c)
  BY <1>2, <1>3 DEF Inside
<1>5. Shown
  <2>1. Seen' = Snapshot
    BY <1>2 DEF Seen, Snapshot, tables, inodeVars, blockVars, fileVars
  <2> QED
    BY <1>2, <2>1 DEF Snapshot, Shown
<1>6. c.fh \in FS!AnyHandle /\ c.mode \in FS!Mode /\ c.byte \in Byte
  BY <1>3, SameValues DEF Locals
<1>7. Atomic!IInv
  BY DEF TInv
<1>8. ASSUME c.op = "tfs_open"
      PROVE  FS!Next /\ Atomically(c)
  <2>1. OpenDone(c) /\ c.path \in Path
    BY <1>4, <1>8 DEF Done, CallOK
  <2>2. FS!tfs_open(c.path, c.mode, c.ret) /\ c.ret \in FS!AnyHandle
    BY <1>3, <1>5, <1>7, <2>1, OpenShows, OpenReturn, SameValues
  <2> QED
    BY <1>6, <1>8, <2>1, <2>2 DEF FS!Next, Atomically
<1>9. ASSUME c.op = "tfs_close"
      PROVE  FS!Next /\ Atomically(c)
  <2>1. CloseDone(c)
    BY <1>4, <1>9 DEF Done
  <2>2. FS!tfs_close(c.fh, c.ret) /\ c.ret \in {-1, 0}
    BY <1>3, <1>5, <2>1, CloseShows DEF CloseDone, NoSuchHandle
  <2> QED
    BY <1>6, <1>9, <2>2 DEF FS!Next, Atomically
<1>10. ASSUME c.op = "tfs_write"
       PROVE  FS!Next /\ Atomically(c)
  <2>1. WriteDone(c) /\ c.len \in 1 .. MaxIO
    BY <1>4, <1>10 DEF Done, CallOK
  <2>2. FS!tfs_write(c.fh, c.len, c.byte, c.ret) /\ c.ret \in -1 .. BLOCK_SIZE
    BY <1>3, <1>5, <2>1, WriteShows
  <2> QED
    BY <1>6, <1>10, <2>1, <2>2 DEF FS!Next, Atomically
<1>11. ASSUME c.op = "tfs_read"
       PROVE  FS!Next /\ Atomically(c)
  <2>1. ReadDone(c) /\ c.len \in 1 .. MaxIO
    BY <1>4, <1>11 DEF Done, CallOK
  <2>2. FS!tfs_read(c.fh, c.len, c.ret) /\ c.ret \in -1 .. MaxIO
    BY <1>3, <1>5, <1>7, <2>1, ReadShows
  <2> QED
    BY <1>6, <1>11, <2>1, <2>2 DEF FS!Next, Atomically
<1>12. ASSUME c.op = "tfs_unlink"
       PROVE  FS!Next /\ Atomically(c)
  <2>1. UnlinkDone(c) /\ c.path \in Path
    BY <1>4, <1>12 DEF Done, CallOK
  <2>2. FS!tfs_unlink(c.path, c.ret) /\ c.ret \in {-1, 0}
    BY <1>3, <1>5, <2>1, UnlinkShows DEF UnlinkDone
  <2> QED
    BY <1>12, <2>1, <2>2 DEF FS!Next, Atomically
<1>13. FS!Next /\ Atomically(c)
  BY <1>4, <1>8, <1>9, <1>10, <1>11, <1>12 DEF Done
<1>14. ThreadInv'
  <2>1. mutex = t
    BY <1>1, <1>2, InsideFacts
  <2>2. thread' = [thread EXCEPT ![t] = Idle] /\ Idle.at = "idle"
    BY IdleTyped DEF Unlock
  <2> QED
    BY <2>1, <2>2 DEF TInv, ThreadInv, OneInside
<1>15. LocalsOK'
  BY IdleTyped DEF TInv, LocalsOK, Unlock
<1>16. PlaceInv'
  BY <1>2, ThreadAssumption DEF PlaceInv
<1>17. Atomic!IInv'
  BY <1>7, <1>13, SeenKept
<1> QED
  BY <1>1, <1>13, <1>14, <1>15, <1>16, <1>17 DEF TInv


(* main's calls are single calls: nobody has the mutex.                     *)
LEMMA MainShows ==
    ASSUME TInv, MainStep
    PROVE  TInv' /\ FS!Next
<1>1. mutex = NoThread
  <2>1. ASSUME NEW u \in Thread, mutex = u
        PROVE  FALSE
    <3>1. thread[u] \in Locals /\ thread[u].at = "idle"
      BY DEF TInv, LocalsOK, MainStep
    <3>2. Inside(thread[u])
      BY <2>1, <3>1 DEF TInv, PlaceInv
    <3> QED
      BY <3>1, <3>2 DEF Inside, CallOK, Operation, OpPlaces
  <2> QED
    BY <2>1 DEF TInv, PlaceInv
<1>2. Seen = Snapshot /\ Seen' = Snapshot' /\ mutex' = NoThread
  BY <1>1 DEF Seen, MainStep
<1>3. /\ Seen.inode_table = inode_table /\ Seen.freeinode_ts = freeinode_ts /\ Seen.dir = dir
      /\ Seen.fs_data = fs_data /\ Seen.free_blocks = free_blocks
      /\ Seen.open_file_table = open_file_table
      /\ Seen.free_open_file_entries = free_open_file_entries
  BY <1>2 DEF Snapshot
<1>4. /\ Seen'.inode_table = inode_table' /\ Seen'.freeinode_ts = freeinode_ts' /\ Seen'.dir = dir'
      /\ Seen'.fs_data = fs_data' /\ Seen'.free_blocks = free_blocks'
      /\ Seen'.open_file_table = open_file_table'
      /\ Seen'.free_open_file_entries = free_open_file_entries'
  BY <1>2 DEF Snapshot
<1>5. ASSUME tfs_init
      PROVE  FS!tfs_init
  BY <1>3, <1>4, <1>5, SameValues DEF tfs_init, FS!tfs_init, fileVars, FS!fileVars
<1>6. ASSUME tfs_destroy
      PROVE  FS!tfs_destroy
  BY <1>4, <1>6, SameValues DEF tfs_destroy, FS!tfs_destroy
<1>7. FS!Next
  BY <1>5, <1>6 DEF MainStep, FS!Next
<1>8. ThreadInv' /\ LocalsOK'
  BY DEF TInv, ThreadInv, OneInside, LocalsOK, MainStep
<1>9. PlaceInv'
  BY <1>2, ThreadAssumption DEF PlaceInv
<1>10. Atomic!IInv'
  BY <1>7, SeenKept DEF TInv
<1> QED
  BY <1>7, <1>8, <1>9, <1>10 DEF TInv

-----------------------------------------------------------------------------
(* Between lock and unlock nothing is seen, unless the process dies.        *)
LEMMA OpenStepShows ==
    ASSUME TInv, NEW t \in Thread, OpenStep(t)
    PROVE  TInv' /\ UNCHANGED FS!vars
<1>1. \E new \in Locals : thread' = [thread EXCEPT ![t] = new] /\ Inside(new)'
  BY OpenLookupInside, FreeBlockInside, TruncateInside, AllocInodeInside, SetInodeInside,
     AddEntryInside, GiveInodeBackInside, AddHandleInside DEF OpenStep
<1>2. mutex' = mutex /\ before' = before /\ status' = status /\ thread[t].at # "idle"
  BY DEF OpenStep, OpenLookup, FreeBlock, Truncate, AllocInode, SetInode, add_dir_entry,
     GiveInodeBack, AddHandle, At
<1>3. mutex = t
  BY <1>2, InsideFacts
<1> QED
  BY <1>1, <1>2, <1>3, StepInside

(* The same of tfs_unlink() ...                                             *)
LEMMA UnlinkStepShows ==
    ASSUME TInv, NEW t \in Thread, UnlinkStep(t)
    PROVE  TInv' /\ UNCHANGED FS!vars
<1>1. \E new \in Locals : thread' = [thread EXCEPT ![t] = new] /\ Inside(new)'
  BY UnlinkLookupInside, DeleteInodeInside, ClearEntryInside DEF UnlinkStep
<1>2. mutex' = mutex /\ before' = before /\ status' = status /\ thread[t].at # "idle"
  BY DEF UnlinkStep, UnlinkLookup, DeleteInode, ClearEntry, At
<1>3. mutex = t
  BY <1>2, InsideFacts
<1> QED
  BY <1>1, <1>2, <1>3, StepInside

(* ... and of the other operations, which may fail an assertion or copy     *)
(* wildly.                                                                  *)
LEMMA HandleStepShows ==
    ASSUME TInv, NEW t \in Thread, HandleStep(t)
    PROVE  TInv' /\ [FS!Next]_(FS!vars)
<1> DEFINE Dies ==
        \/ CopyIn(t) /\ ~(thread[t].n <= BLOCK_SIZE)
        \/ /\ CountRead(t) /\ ReadCount(thread[t].fh, thread[t].len) # 0
           /\ inode_table[HandleInode(thread[t].fh)].i_data_block = -1
        \/ CopyOut(t) /\ status' # status
<1>1. /\ mutex' = mutex /\ before' = before /\ status = "up" /\ thread[t].at # "idle"
  BY DEF HandleStep, NoEntry, tfs_close_step, CountWrite, AllocBlock, CopyIn, Advance, CountRead,
     CopyOut, At, Crash
<1>2. mutex = t /\ thread[t] \in Locals /\ Inside(thread[t])
  BY <1>1, InsideFacts
<1>3. thread[t].n \in Int
  BY <1>2 DEF Locals
<1>4. ASSUME Dies
      PROVE  TInv' /\ [FS!Next]_(FS!vars)
  <2>1. CASE CopyIn(t) /\ ~(thread[t].n <= BLOCK_SIZE)
    <3>1. thread[t].n > BLOCK_SIZE
      BY <1>3, <2>1, SizeAssumption
    <3>2. Crash(status')
      BY <2>1, <3>1 DEF CopyIn, Crash
    <3> QED
      BY <1>1, <1>2, <2>1, <3>2, CrashShows, StayingKeeps DEF Crash
  <2>2. CASE /\ CountRead(t) /\ ReadCount(thread[t].fh, thread[t].len) # 0
             /\ inode_table[HandleInode(thread[t].fh)].i_data_block = -1
    <3>1. Crash(status')
      BY <2>2 DEF CountRead, Crash
    <3> QED
      BY <1>1, <1>2, <2>2, <3>1, CrashShows, StayingKeeps DEF Crash
  <2>3. CASE CopyOut(t) /\ status' # status
    <3>1. Crash(status')
      BY <2>3 DEF CopyOut, Crash
    <3> QED
      BY <1>1, <1>2, <2>3, <3>1, CrashShows, StayingKeeps DEF Crash
  <2> QED
    BY <1>4, <2>1, <2>2, <2>3
<1>5. ASSUME ~Dies
      PROVE  TInv' /\ [FS!Next]_(FS!vars)
  <2>1. \E new \in Locals : thread' = [thread EXCEPT ![t] = new] /\ Inside(new)'
    BY <1>5, NoEntryInside, CloseInside, CountWriteInside, AllocBlockInside, CopyInInside,
       AdvanceInside, CountReadInside, CopyOutInside DEF HandleStep
  <2>2. status' = status
    <3>1. CASE CopyIn(t)
      <4>1. thread[t].n <= BLOCK_SIZE
        BY <1>5, <3>1
      <4>2. ~(thread[t].n > BLOCK_SIZE)
        BY ONLY <1>3, <4>1, SizeAssumption
      <4> QED
        BY <3>1, <4>2 DEF CopyIn
    <3>2. CASE CountRead(t)
      <4>1. PICK n : n = ReadCount(thread[t].fh, thread[t].len)
        OBVIOUS
      <4>2. n = 0 \/ inode_table[HandleInode(thread[t].fh)].i_data_block # -1
        BY <1>5, <3>2, <4>1
      <4>3. n > 0 => n # 0
        OBVIOUS
      <4> QED
        BY <3>2, <4>1, <4>2, <4>3 DEF CountRead
    <3>3. CASE CopyOut(t)
      BY <1>5, <3>3
    <3> QED
      BY <3>1, <3>2, <3>3 DEF HandleStep, NoEntry, tfs_close_step, CountWrite, AllocBlock, Advance
  <2> QED
    BY <1>1, <1>2, <2>1, <2>2, StepInside
<1> QED
  BY <1>4, <1>5

(* The invariant holds at the start, where the tables are empty.            *)
LEMMA TInitOK == TInit => TInv /\ FS!Init
<1> SUFFICES ASSUME TInit
             PROVE  TInv /\ FS!Init
  OBVIOUS
<1>1. Seen = Snapshot /\ mutex = NoThread
  BY DEF TInit, Seen
<1>2. FS!Init
  BY <1>1, SameValues DEF TInit, Init, Snapshot, FS!Init
<1>3. Atomic!PathAssumption /\ Atomic!SizeAssumption /\ Atomic!ByteAssumption
  BY PathAssumption, SizeAssumption, ByteAssumption
     DEF PathAssumption, SizeAssumption, ByteAssumption, Atomic!PathAssumption,
         Atomic!SizeAssumption, Atomic!ByteAssumption, NoName, Atomic!NoName
<1>4. Atomic!Init
  BY <1>2 DEF FS!Init, Atomic!Init, FS!Inode, Atomic!Inode, FS!EmptyFile, Atomic!EmptyFile, FS!FREE,
     Atomic!FREE, FS!DirSlot, Atomic!DirSlot, FS!NoName, Atomic!NoName, FS!Block, Atomic!Block,
     FS!Offset, Atomic!Offset, FS!Handle, Atomic!Handle, FS!ROOT_DIR_INUM, Atomic!ROOT_DIR_INUM
<1>5. Atomic!IInv
  BY <1>3, <1>4, Atomic!InitOK
<1>6. ThreadInv /\ LocalsOK
  BY IdleTyped DEF TInit, ThreadInv, OneInside, LocalsOK
<1>7. PlaceInv
  BY <1>1, ThreadAssumption DEF PlaceInv
<1> QED
  BY <1>2, <1>5, <1>6, <1>7 DEF TInv

(* Every step is a step of TecnicoFS or is not seen; one that unlocks is    *)
(* the step that its call would be.                                         *)
LEMMA TNextOK ==
    ASSUME TInv, [TNext]_threadVars
    PROVE  /\ TInv' /\ [FS!Next]_(FS!vars)
           /\ \A t \in Thread : Unlock(t) => Atomically(thread[t])
<1>1. ASSUME NEW t \in Thread, NEW call \in Calls, Lock(t, call)
      PROVE  TInv' /\ [FS!Next]_(FS!vars)
  BY <1>1, LockShows
<1>2. ASSUME NEW t \in Thread, Step(t)
      PROVE  TInv' /\ [FS!Next]_(FS!vars)
  BY <1>2, OpenStepShows, HandleStepShows, UnlinkStepShows, UnlockShows DEF Step
<1>3. ASSUME MainStep
      PROVE  TInv' /\ [FS!Next]_(FS!vars)
  BY <1>3, MainShows
<1>4. ASSUME UNCHANGED threadVars
      PROVE  TInv' /\ [FS!Next]_(FS!vars)
  <2>1. UNCHANGED <<tables, mutex, thread, before>> /\ UNCHANGED status
    BY <1>4 DEF threadVars
  <2>2. Seen' = Seen
    BY <2>1 DEF Seen, Snapshot, tables, inodeVars, blockVars, fileVars
  <2>3. UNCHANGED FS!vars
    BY <2>1, <2>2 DEF FS!vars, FS!inodeVars, FS!blockVars, FS!fileVars
  <2> QED
    BY <2>1, <2>3, StayingKeeps
<1> QED
  BY <1>1, <1>2, <1>3, <1>4, UnlockShows DEF TNext

(* The invariant is inductive.                                              *)
LEMMA TInvAlways == TSpec => []TInv
BY TInitOK, TNextOK, PTL DEF TSpec

(* What a thread leaves for the next one satisfies TecnicoFS' invariant:    *)
(* types, blocks of single files, a directory that matches the inodes.      *)
THEOREM SeenTablesConsistent == TSpec => []Atomic!IInv
<1>1. TInv => Atomic!IInv
  BY DEF TInv
<1> QED
  BY <1>1, TInvAlways, PTL

(* Threads that share the tables under g_library_mutex, and touch them one  *)
(* access at a time, do to what others can see of them what single calls,   *)
(* one after the other, would do: the operations of fs/operations.c are     *)
(* atomic.                                                                  *)
THEOREM ThreadsImplementSingleCalls == TSpec => ImplementsTecnicoFS
<1>1. TInit => FS!Init
  BY TInitOK
<1>2. TInv /\ [TNext]_threadVars => [FS!Next]_(FS!vars)
  BY TNextOK
<1> QED
  BY <1>1, <1>2, TInvAlways, PTL DEF TSpec, ImplementsTecnicoFS, FS!Spec

(* ... and what each call returns when it unlocks is what that very call    *)
(* returns when it is made in one step then.                                *)
THEOREM CallsAreAtomic == TSpec => ReturnsAreAtomic
<1>1. TInv /\ [TNext]_threadVars =>
          [\A t \in Thread : Unlock(t) => Atomically(thread[t])]_threadVars
  BY TNextOK
<1> QED
  BY <1>1, TInvAlways, PTL DEF TSpec, ReturnsAreAtomic

=============================================================================
