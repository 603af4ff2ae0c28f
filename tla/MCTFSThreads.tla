---------------------------- MODULE MCTFSThreads ----------------------------
(* TFSThreads for TLC: two threads, two files, a name that does not fit a   *)
(* directory entry, and blocks of one byte.                                 *)
EXTENDS TFSThreads, TLC

CONSTANTS f, g, long, t1, t2

MCThread == {t1, t2}
MCPath == {f, g, long}
MCStorablePath == {f, g}

=============================================================================
