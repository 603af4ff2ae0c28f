------------------------------ MODULE BoxFiles ------------------------------
(***************************************************************************)
(* TecnicoFS under the calls mbroker/mbroker.c makes.  The broker opens    *)
(* box files to append or to create, never to truncate, and remove_box     *)
(* closes its handle before it unlinks the file, with no session running:  *)
(* no file is unlinked while a handle is open on it.  Under this           *)
(* discipline, and not without it, the tables implement AbstractFiles.     *)
(*                                                                         *)
(* An operator named X_Something, next to X, is X with a plausible defect. *)
(* No specification uses it: with it in X's place a property must fail.    *)
(***************************************************************************)
EXTENDS TecnicoFS

BoxMode_Truncates == {{"TFS_O_APPEND"}, {"TFS_O_CREAT", "TFS_O_TRUNC"}}

(* create_box, remove_box and the sessions open to append or to create.     *)
BoxMode == {{"TFS_O_APPEND"}, {"TFS_O_CREAT"}}

OpenHandles == {h \in Handle : HandleIsOpen(h)}

UnlinkClosed_StillOpen(path, ret) == tfs_unlink(path, ret)

(* remove_box() reaches tfs_unlink() after tfs_close(); the other handlers  *)
(* close what they open before they return.                                 *)
UnlinkClosed(path, ret) ==
    /\ \A h \in OpenHandles : HandleInode(h) # tfs_lookup(path)
    /\ tfs_unlink(path, ret)

BoxNext ==
    \/ tfs_init
    \/ tfs_destroy
    \/ \E path \in Path, mode \in BoxMode, fh \in AnyHandle : tfs_open(path, mode, fh)
    \/ \E fh \in AnyHandle, ret \in {-1, 0} : tfs_close(fh, ret)
    \/ \E fh \in AnyHandle, len \in 1 .. MaxIO, byte \in Byte, ret \in -1 .. BLOCK_SIZE :
           tfs_write(fh, len, byte, ret)
    \/ \E fh \in AnyHandle, len \in 1 .. MaxIO, ret \in -1 .. MaxIO : tfs_read(fh, len, ret)
    \/ \E path \in Path, ret \in {-1, 0} : UnlinkClosed(path, ret)

BoxSpec == Init /\ [][BoxNext]_vars

-----------------------------------------------------------------------------
(* Every open handle is on an allocated regular file and within it, so that *)
(* neither tfs_read's difference nor tfs_write's wraps around.              *)
HandlesWithinFiles ==
    \A h \in OpenHandles :
        /\ HandleInode(h) # ROOT_DIR_INUM
        /\ Live(HandleInode(h))
        /\ HandleOffset(h) <= inode_table[HandleInode(h)].i_size

(* Every block that is taken belongs to a file that exists: no sequence of  *)
(* opens, writes and unlinks loses a block.                                 *)
NoBlockLost ==
    \A b \in Block : free_blocks[b] = TAKEN =>
        \E i \in Inode : OwnsBlock(i) /\ inode_table[i].i_data_block = b

(* No assertion fails and no copy leaves the data blocks.                   *)
NeverCrashes == status \in {"down", "up"}

-----------------------------------------------------------------------------
(* The refinement mapping: a name in the directory is a file, its contents  *)
(* the first i_size bytes of its block.                                     *)
Names == {dir[s].d_name : s \in {t \in DirSlot : dir[t].d_inumber # -1}}

Contents(inum) ==
    [size |-> inode_table[inum].i_size,
     bytes |-> [k \in 0 .. inode_table[inum].i_size - 1 |->
                   fs_data[inode_table[inum].i_data_block][k]]]

NameOf(inum) == CHOOSE p \in Names : find_in_dir(p) = inum

fileMap == [p \in Names |-> Contents(find_in_dir(p))]
openMap == [h \in OpenHandles |->
               [path |-> NameOf(HandleInode(h)), offset |-> HandleOffset(h)]]

Files == INSTANCE AbstractFiles WITH
    Path <- StorablePath, MaxFileSize <- BLOCK_SIZE, file <- fileMap, open <- openMap

(* Each operation on the tables is one operation on abstract files or       *)
(* nothing: files keep their contents apart, a write goes to one file, a    *)
(* read stops at its end, a handle stays with its file.                     *)
ImplementsFiles == Files!Spec

=============================================================================
