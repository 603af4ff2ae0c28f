--------------------------- MODULE AbstractFiles ---------------------------
(***************************************************************************)
(* What the file system promises the broker: named files with contents of  *)
(* their own, and open handles with an offset into one file.  No tables,   *)
(* no blocks.  BoxFiles is shown to implement this specification.          *)
(***************************************************************************)
EXTENDS Integers

CONSTANTS
    Path,
    Byte,
    Handle,
    MaxFileSize,
    MaxIO

VARIABLES
    file,    (* the files that exist: path -> contents                      *)
    open     (* the handles in use: handle -> path and offset               *)

vars == <<file, open>>

Empty == [size |-> 0, bytes |-> [k \in 0 .. -1 |-> 0]]

(* f with x mapped to v.                                                    *)
Extend(f, x, v) == [y \in DOMAIN f \cup {x} |-> IF y = x THEN v ELSE f[y]]
Without(f, x) == [y \in DOMAIN f \ {x} |-> f[y]]

Smaller(a, b) == IF a <= b THEN a ELSE b
Larger(a, b) == IF a <= b THEN b ELSE a

(* The contents c with n bytes of value byte put at offset from.            *)
Overwritten(c, from, n, byte) ==
    LET size == Larger(c.size, from + n)
    IN  [size |-> size,
         bytes |-> [k \in 0 .. size - 1 |->
                       IF from <= k /\ k < from + n THEN byte ELSE c.bytes[k]]]

Init ==
    /\ file = [p \in {} |-> Empty]
    /\ open = [h \in {} |-> 0]

(* A handle at the start or at the end of an existing file.                 *)
Open(p, h) ==
    /\ p \in DOMAIN file /\ h \notin DOMAIN open
    /\ \E offset \in {0, file[p].size} :
           open' = Extend(open, h, [path |-> p, offset |-> offset])
    /\ UNCHANGED file

(* A new empty file, with a handle on it or, when handles have run out,     *)
(* without.                                                                 *)
Create(p) ==
    /\ p \notin DOMAIN file
    /\ file' = Extend(file, p, Empty)
    /\ IF DOMAIN open = Handle
       THEN UNCHANGED open
       ELSE \E h \in Handle \ DOMAIN open :
                open' = Extend(open, h, [path |-> p, offset |-> 0])

Close(h) ==
    /\ h \in DOMAIN open
    /\ open' = Without(open, h)
    /\ UNCHANGED file

(* A write stores all that fits below the size limit, in the handle's file  *)
(* and nowhere else.                                                        *)
Write(h, len, byte) ==
    /\ h \in DOMAIN open
    /\ LET p == open[h].path
           from == open[h].offset
           n == Smaller(len, MaxFileSize - from)
       IN  /\ n > 0
           /\ file' = [file EXCEPT ![p] = Overwritten(file[p], from, n, byte)]
           /\ open' = [open EXCEPT ![h].offset = from + n]

(* A read gets all there is up to the end of the file.                      *)
Read(h, len) ==
    /\ h \in DOMAIN open
    /\ open' = [open EXCEPT ![h].offset = Smaller(@ + len, file[open[h].path].size)]
    /\ UNCHANGED file

Unlink(p) ==
    /\ p \in DOMAIN file
    /\ \A h \in DOMAIN open : open[h].path # p
    /\ file' = Without(file, p)
    /\ UNCHANGED open

(* The file system goes down, and everything with it.                       *)
Destroy ==
    /\ file' = [p \in {} |-> Empty]
    /\ open' = [h \in {} |-> 0]

Next ==
    \/ \E p \in Path, h \in Handle : Open(p, h)
    \/ \E p \in Path : Create(p) \/ Unlink(p)
    \/ \E h \in Handle : Close(h)
    \/ \E h \in Handle, len \in 1 .. MaxIO, byte \in Byte : Write(h, len, byte)
    \/ \E h \in Handle, len \in 1 .. MaxIO : Read(h, len)
    \/ Destroy

Spec == Init /\ [][Next]_vars

=============================================================================
