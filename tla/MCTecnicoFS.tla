---------------------------- MODULE MCTecnicoFS ----------------------------
(* TecnicoFS for TLC: three inodes (the root and two files), three blocks,  *)
(* two handles, blocks of two bytes.                                        *)
EXTENDS TecnicoFS, TLC

CONSTANTS f, g, long, bad

MCPath == {f, g, long, bad}
MCValidPath == {f, g, long}
MCStorablePath == {f, g}

(* f and g differ only in name.                                             *)
Symmetry == Permutations({f, g})

(* A closed entry of the open file table is written before it is read.      *)
View == <<status, inodeVars, dir, blockVars, free_open_file_entries,
          [h \in Handle |-> IF HandleIsOpen(h) THEN open_file_table[h] ELSE 0]>>

=============================================================================
