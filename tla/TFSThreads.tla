----------------------------- MODULE TFSThreads -----------------------------
(***************************************************************************)
(* The file system under several threads: g_library_mutex and, between     *)
(* lock and unlock, an operation's accesses to the tables one by one, in   *)
(* the order of fs/operations.c and fs/state.c.  TecnicoFS takes every     *)
(* operation as one step; this module is shown to implement it.            *)
(*                                                                         *)
(* A thread that waits for the mutex has touched nothing, so that a call   *)
(* begins with the lock.  tfs_init() and tfs_destroy() take no lock: main  *)
(* calls them before it creates and after it joins its threads.            *)
(*                                                                         *)
(* An operator named X_Something, next to X, is X with a plausible defect. *)
(* No specification uses it: with it in X's place a property must fail.    *)
(***************************************************************************)
EXTENDS TecnicoFS

CONSTANTS Thread, NoThread

ASSUME ThreadAssumption == NoThread \notin Thread

VARIABLES
    mutex,      (* g_library_mutex: the thread that holds it, or NoThread  *)
    thread,     (* each thread's call, where it is in it, and its locals   *)
    before      (* history: the tables when the mutex was taken            *)

tables == <<inodeVars, dir, blockVars, fileVars>>
threadVars == <<status, tables, mutex, thread, before>>

Idle == [at |-> "idle", op |-> "none", path |-> NoName, mode |-> {}, fh |-> -1, len |-> 0,
         byte |-> 0, inum |-> -1, offset |-> 0, block |-> -1, n |-> 0, ret |-> -1]

OpenCall(path, mode) == [Idle EXCEPT !.op = "tfs_open", !.path = path, !.mode = mode]
CloseCall(fh) == [Idle EXCEPT !.op = "tfs_close", !.fh = fh]
WriteCall(fh, len, byte) == [Idle EXCEPT !.op = "tfs_write", !.fh = fh, !.len = len, !.byte = byte]
ReadCall(fh, len) == [Idle EXCEPT !.op = "tfs_read", !.fh = fh, !.len = len]
UnlinkCall(path) == [Idle EXCEPT !.op = "tfs_unlink", !.path = path]

Calls ==
    {OpenCall(p, m) : p \in Path, m \in Mode} \cup {CloseCall(h) : h \in AnyHandle}
    \cup {WriteCall(h, l, b) : h \in AnyHandle, l \in 1 .. MaxIO, b \in Byte}
    \cup {ReadCall(h, l) : h \in AnyHandle, l \in 1 .. MaxIO}
    \cup {UnlinkCall(p) : p \in Path}

Snapshot == [inode_table |-> inode_table, freeinode_ts |-> freeinode_ts, dir |-> dir,
             fs_data |-> fs_data, free_blocks |-> free_blocks,
             open_file_table |-> open_file_table,
             free_open_file_entries |-> free_open_file_entries]
NoSnapshot == [none |-> TRUE]

TInit ==
    /\ Init
    /\ mutex = NoThread
    /\ thread = [t \in Thread |-> Idle]
    /\ before = NoSnapshot

-----------------------------------------------------------------------------
At(t, place) == status = "up" /\ thread[t].at = place

(* Where thread t goes next, with what it keeps in its locals, and where it *)
(* goes with the value it will return.                                      *)
Go(t, locals, place) == thread' = [thread EXCEPT ![t] = [locals EXCEPT !.at = place]]
Leave(t, ret) == Go(t, [thread[t] EXCEPT !.ret = ret], "unlock")

Lock_Ignored(t, call) ==
    /\ At(t, "idle")
    /\ mutex' = t
    /\ before' = Snapshot
    /\ Go(t, call, call.op)
    /\ UNCHANGED <<status, tables>>

Lock(t, call) ==
    /\ At(t, "idle") /\ mutex = NoThread
    /\ mutex' = t
    /\ before' = Snapshot
    /\ Go(t, call, call.op)
    /\ UNCHANGED <<status, tables>>

Unlock_NotOnError(t) ==
    /\ At(t, "unlock")
    /\ thread' = [thread EXCEPT ![t] = Idle]
    /\ IF thread[t].ret = -1
       THEN UNCHANGED <<mutex, before>>
       ELSE mutex' = NoThread /\ before' = NoSnapshot
    /\ UNCHANGED <<status, tables>>

Unlock(t) ==
    /\ At(t, "unlock")
    /\ mutex' = NoThread
    /\ before' = NoSnapshot
    /\ thread' = [thread EXCEPT ![t] = Idle]
    /\ UNCHANGED <<status, tables>>

(* A failed assertion or a wild copy: the process ends, locked as it is.    *)
Crash(how) ==
    /\ status' = how
    /\ UNCHANGED <<tables, mutex, thread, before>>

-----------------------------------------------------------------------------
(* tfs_open()                                                               *)

StartOffset(mode, size) == IF "TFS_O_APPEND" \in mode THEN size ELSE 0

OpenLookup(t) ==
    LET me == thread[t]
        inum == tfs_lookup(me.path)
        size == inode_table[inum].i_size
        found == [me EXCEPT !.inum = inum]
    IN  /\ At(t, "tfs_open")
        /\ \/ /\ inum # -1 /\ "TFS_O_TRUNC" \in me.mode /\ size > 0
              /\ Go(t, found, "free block")
           \/ /\ inum # -1 /\ ("TFS_O_TRUNC" \notin me.mode \/ size = 0)
              /\ Go(t, [found EXCEPT !.offset = StartOffset(me.mode, size)], "add handle")
           \/ /\ inum = -1 /\ valid_pathname(me.path) /\ "TFS_O_CREAT" \in me.mode
              /\ Go(t, me, "alloc inode")
           \/ /\ inum = -1 /\ (~valid_pathname(me.path) \/ "TFS_O_CREAT" \notin me.mode)
              /\ Leave(t, -1)
        /\ UNCHANGED <<status, tables, mutex, before>>

FreeBlock(t) ==
    /\ At(t, "free block")
    /\ free_blocks' = [free_blocks EXCEPT ![inode_table[thread[t].inum].i_data_block] = FREE]
    /\ Go(t, thread[t], "truncate")
    /\ UNCHANGED <<status, inodeVars, dir, fs_data, fileVars, mutex, before>>

Truncate(t) ==
    /\ At(t, "truncate")
    /\ inode_table' = [inode_table EXCEPT ![thread[t].inum].i_size = 0]
    /\ Go(t, [thread[t] EXCEPT !.offset = 0], "add handle")
    /\ UNCHANGED <<status, freeinode_ts, dir, blockVars, fileVars, mutex, before>>

AllocInode(t) ==
    /\ At(t, "alloc inode")
    /\ IF inode_alloc = -1
       THEN Leave(t, -1) /\ UNCHANGED freeinode_ts
       ELSE /\ freeinode_ts' = [freeinode_ts EXCEPT ![inode_alloc] = TAKEN]
            /\ Go(t, [thread[t] EXCEPT !.inum = inode_alloc], "set inode")
    /\ UNCHANGED <<status, inode_table, dir, blockVars, fileVars, mutex, before>>

SetInode(t) ==
    /\ At(t, "set inode")
    /\ inode_table' = [inode_table EXCEPT ![thread[t].inum] = EmptyFile]
    /\ Go(t, thread[t], "add entry")
    /\ UNCHANGED <<status, freeinode_ts, dir, blockVars, fileVars, mutex, before>>

add_dir_entry(t) ==
    LET slot == Lowest(EmptyDirSlots)
        added == thread[t].path \in StorablePath /\ slot # -1
    IN  /\ At(t, "add entry")
        /\ dir' = IF added
                  THEN [dir EXCEPT ![slot] = [d_inumber |-> thread[t].inum, d_name |-> thread[t].path]]
                  ELSE dir
        /\ Go(t, thread[t], IF added THEN "add handle" ELSE "give inode back")
        /\ UNCHANGED <<status, inodeVars, blockVars, fileVars, mutex, before>>

GiveInodeBack_Forgotten(t) ==
    /\ At(t, "give inode back")
    /\ Leave(t, -1)
    /\ UNCHANGED <<status, tables, mutex, before>>

GiveInodeBack(t) ==
    /\ At(t, "give inode back")
    /\ inode_delete(thread[t].inum)
    /\ Leave(t, -1)
    /\ UNCHANGED <<status, dir, fileVars, mutex, before>>

AddHandle(t) ==
    /\ At(t, "add handle")
    /\ \E fh \in AnyHandle :
           add_to_open_file_table(thread[t].inum, thread[t].offset, fh) /\ Leave(t, fh)
    /\ UNCHANGED <<status, inodeVars, dir, blockVars, mutex, before>>

-----------------------------------------------------------------------------
(* The other operations look for the handle's entry first.                  *)
NoEntry(t) ==
    /\ \E op \in {"tfs_close", "tfs_write", "tfs_read"} : At(t, op)
    /\ ~HandleIsOpen(thread[t].fh)
    /\ Leave(t, -1)
    /\ UNCHANGED <<status, tables, mutex, before>>

tfs_close_step(t) ==
    /\ At(t, "tfs_close") /\ HandleIsOpen(thread[t].fh)
    /\ free_open_file_entries' = [free_open_file_entries EXCEPT ![thread[t].fh] = FREE]
    /\ Leave(t, 0)
    /\ UNCHANGED <<status, inodeVars, dir, blockVars, open_file_table, mutex, before>>

(* tfs_write()                                                              *)
CountWrite(t) ==
    LET me == thread[t]
        inum == HandleInode(me.fh)
        n == WriteCount(me.fh, me.len)
        counted == [me EXCEPT !.inum = inum, !.n = n]
    IN  /\ At(t, "tfs_write") /\ HandleIsOpen(me.fh)
        /\ \/ n = 0 /\ Leave(t, 0)
           \/ /\ n > 0 /\ inode_table[inum].i_size = 0
              /\ Go(t, counted, "alloc block")
           \/ /\ n > 0 /\ inode_table[inum].i_size > 0
              /\ Go(t, [counted EXCEPT !.block = inode_table[inum].i_data_block], "copy in")
        /\ UNCHANGED <<status, tables, mutex, before>>

AllocBlock(t) ==
    /\ At(t, "alloc block")
    /\ IF data_block_alloc = -1
       THEN Leave(t, -1) /\ UNCHANGED <<inode_table, free_blocks>>
       ELSE /\ free_blocks' = [free_blocks EXCEPT ![data_block_alloc] = TAKEN]
            /\ inode_table' =
                   [inode_table EXCEPT ![thread[t].inum].i_data_block = data_block_alloc]
            /\ Go(t, [thread[t] EXCEPT !.block = data_block_alloc], "copy in")
    /\ UNCHANGED <<status, freeinode_ts, dir, fs_data, fileVars, mutex, before>>

CopyIn(t) ==
    LET me == thread[t]
        from == HandleOffset(me.fh)
    IN  /\ At(t, "copy in")
        /\ IF me.n > BLOCK_SIZE
           THEN Crash("segv")
           ELSE /\ fs_data' = [fs_data EXCEPT ![me.block] =
                       [k \in Offset |-> IF from <= k /\ k < from + me.n THEN me.byte ELSE @[k]]]
                /\ Go(t, me, "advance")
                /\ UNCHANGED <<status, inodeVars, dir, free_blocks, fileVars, mutex, before>>

Advance(t) ==
    LET me == thread[t]
        end == HandleOffset(me.fh) + me.n
    IN  /\ At(t, "advance")
        /\ open_file_table' = [open_file_table EXCEPT ![me.fh].of_offset = end]
        /\ inode_table' = [inode_table EXCEPT ![me.inum].i_size = Max2(@, end)]
        /\ Leave(t, me.n)
        /\ UNCHANGED <<status, freeinode_ts, dir, blockVars, free_open_file_entries, mutex, before>>

(* tfs_read(): what it copies is not part of the state.                     *)
CountRead(t) ==
    LET me == thread[t]
        inum == HandleInode(me.fh)
        n == ReadCount(me.fh, me.len)
    IN  /\ At(t, "tfs_read") /\ HandleIsOpen(me.fh)
        /\ \/ /\ n = 0 /\ Leave(t, 0)
              /\ UNCHANGED <<status, tables, mutex, before>>
           \/ /\ n > 0 /\ inode_table[inum].i_data_block # -1
              /\ Go(t, [me EXCEPT !.inum = inum, !.n = n], "copy out")
              /\ UNCHANGED <<status, tables, mutex, before>>
           \/ /\ n > 0 /\ inode_table[inum].i_data_block = -1
              /\ Crash("panic")

CopyOut(t) ==
    LET me == thread[t]
        end == HandleOffset(me.fh) + me.n
    IN  /\ At(t, "copy out")
        /\ \/ /\ end <= MaxOffset
              /\ open_file_table' = [open_file_table EXCEPT ![me.fh].of_offset = end]
              /\ Leave(t, me.n)
              /\ UNCHANGED <<status, inodeVars, dir, blockVars, free_open_file_entries, mutex, before>>
           \/ /\ ReadsPastData(inode_table[me.inum].i_data_block, end)
              /\ Crash("segv")

-----------------------------------------------------------------------------
(* tfs_unlink()                                                             *)
UnlinkLookup_MissingIsFine(t) ==
    LET inum == tfs_lookup(thread[t].path)
    IN  /\ At(t, "tfs_unlink")
        /\ IF inum = -1
           THEN Leave(t, 0)
           ELSE Go(t, [thread[t] EXCEPT !.inum = inum], "delete inode")
        /\ UNCHANGED <<status, tables, mutex, before>>

UnlinkLookup(t) ==
    LET inum == tfs_lookup(thread[t].path)
    IN  /\ At(t, "tfs_unlink")
        /\ IF inum = -1
           THEN Leave(t, -1)
           ELSE Go(t, [thread[t] EXCEPT !.inum = inum], "delete inode")
        /\ UNCHANGED <<status, tables, mutex, before>>

DeleteInode(t) ==
    /\ At(t, "delete inode")
    /\ inode_delete(thread[t].inum)
    /\ Go(t, thread[t], "clear entry")
    /\ UNCHANGED <<status, dir, fileVars, mutex, before>>

ClearEntry(t) ==
    /\ At(t, "clear entry")
    /\ \E ret \in {-1, 0} : clear_dir_entry(thread[t].path, ret) /\ Leave(t, ret)
    /\ UNCHANGED <<status, inodeVars, blockVars, fileVars, mutex, before>>

-----------------------------------------------------------------------------
OpenStep(t) ==
    \/ OpenLookup(t) \/ FreeBlock(t) \/ Truncate(t) \/ AllocInode(t) \/ SetInode(t)
    \/ add_dir_entry(t) \/ GiveInodeBack(t) \/ AddHandle(t)

HandleStep(t) ==
    \/ NoEntry(t) \/ tfs_close_step(t) \/ CountWrite(t) \/ AllocBlock(t) \/ CopyIn(t)
    \/ Advance(t) \/ CountRead(t) \/ CopyOut(t)

UnlinkStep(t) == UnlinkLookup(t) \/ DeleteInode(t) \/ ClearEntry(t)

Step(t) == OpenStep(t) \/ HandleStep(t) \/ UnlinkStep(t) \/ Unlock(t)

(* main() before pthread_create() and after pthread_join().                 *)
MainStep ==
    /\ \A t \in Thread : thread[t].at = "idle"
    /\ tfs_init \/ tfs_destroy
    /\ UNCHANGED <<mutex, thread, before>>

TNext ==
    \/ \E t \in Thread, call \in Calls : Lock(t, call)
    \/ \E t \in Thread : Step(t)
    \/ MainStep

TSpec == TInit /\ [][TNext]_threadVars

(* A thread inside an operation keeps running.                              *)
TFairSpec == TSpec /\ \A t \in Thread : WF_threadVars(Step(t))

-----------------------------------------------------------------------------
(* One thread at a time is between lock and unlock.                         *)
OneInside == \A t \in Thread : thread[t].at # "idle" => mutex = t

(* What others can see of the tables: what they were when the mutex was     *)
(* taken, until it is released.                                             *)
Seen == IF mutex = NoThread THEN Snapshot ELSE before

FS == INSTANCE TecnicoFS WITH
    inode_table <- Seen.inode_table, freeinode_ts <- Seen.freeinode_ts, dir <- Seen.dir,
    fs_data <- Seen.fs_data, free_blocks <- Seen.free_blocks,
    open_file_table <- Seen.open_file_table,
    free_open_file_entries <- Seen.free_open_file_entries

(* Threads that share the tables under the mutex do what single calls, one  *)
(* after the other, would do.                                               *)
ImplementsTecnicoFS == FS!Spec

Atomically(c) ==
    \/ c.op = "tfs_open" /\ FS!tfs_open(c.path, c.mode, c.ret)
    \/ c.op = "tfs_close" /\ FS!tfs_close(c.fh, c.ret)
    \/ c.op = "tfs_write" /\ FS!tfs_write(c.fh, c.len, c.byte, c.ret)
    \/ c.op = "tfs_read" /\ FS!tfs_read(c.fh, c.len, c.ret)
    \/ c.op = "tfs_unlink" /\ FS!tfs_unlink(c.path, c.ret)

(* ... and each call that returns has done, and returns, what this very     *)
(* call does in one step at that point.                                     *)
ReturnsAreAtomic == [][\A t \in Thread : Unlock(t) => Atomically(thread[t])]_threadVars

(* Every return path unlocks: whatever operations are called and however    *)
(* they fail, the mutex becomes free again while the process lives.         *)
MutexComesFree == []<>(mutex = NoThread \/ status \in {"panic", "segv"})

=============================================================================
