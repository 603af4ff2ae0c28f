------------------------------ MODULE ListReply ------------------------------
(***************************************************************************)
(* A listing on its way from list_box() (mbroker/mbroker.c) to the manager *)
(* (manager/manager.c).  The broker writes one record of 400 bytes per     *)
(* box; the text of a record ends long before its 400 bytes do.  The       *)
(* manager reads whatever the pipe holds, up to 1024 bytes, and looks at   *)
(* the front of what it has read.  Nothing but timing keeps records apart. *)
(*                                                                         *)
(* The stream is a number of bytes; a box is its place in the list.        *)
(*                                                                         *)
(* An operator named X_Something, next to X, is X with a plausible defect. *)
(* No specification uses it: with it in X's place a property must fail.    *)
(***************************************************************************)
EXTENDS Integers

CONSTANT MaxBoxes          (* bound: the longest list                      *)

(* A box has a file, and a file one of the directory's 23 entries.          *)
MAX_DIR_ENTRIES == 1024 \div 44

ASSUME ListAssumption == MaxBoxes \in 0 .. MAX_DIR_ENTRIES

VARIABLES
    boxes,       (* how many boxes the list has                            *)
    sent,        (* records written                                        *)
    hungUp,      (* the broker has closed the pipe                         *)
    broker,
    manager,
    taken,       (* bytes read                                             *)
    last,        (* the manager's variable: the record it saw was the last *)
    shown,       (* the record in the manager's variables, 0 before any    *)
    crowded,     (* history: a read took bytes of more than one record     *)
    gapless      (* history: each line printed was of the next record      *)

vars == <<boxes, sent, hungUp, broker, manager, taken, last, shown, crowded, gapless>>

MSIZE == 1024

RecordSize_OfText == 300

RecordSize == 400          (* what send_request() writes                   *)

(* "8 0 " and at most 32 characters of a name and " 8 0 0" and its end.     *)
TextSize == 4 + 32 + 6 + 1

Mixture == -1              (* fields of no record, put together            *)

(* An empty list has one record, with "last" set and no name.               *)
Records == IF boxes = 0 THEN 1 ELSE boxes

Smaller(a, b) == IF a <= b THEN a ELSE b

Init ==
    /\ boxes \in 0 .. MaxBoxes
    /\ sent = 0
    /\ hungUp = FALSE
    /\ broker = "writing"
    /\ manager = "reading"
    /\ taken = 0
    /\ last = FALSE
    /\ shown = 0
    /\ crowded = FALSE
    /\ gapless = TRUE

-----------------------------------------------------------------------------
WriteRecord_OneMore ==
    /\ broker = "writing" /\ sent <= Records
    /\ sent' = sent + 1
    /\ UNCHANGED <<boxes, hungUp, broker, manager, taken, last, shown, crowded, gapless>>

(* list_box(): 23 records do not fill a pipe, so that it never blocks.      *)
WriteRecord ==
    /\ broker = "writing" /\ sent < Records
    /\ sent' = sent + 1
    /\ UNCHANGED <<boxes, hungUp, broker, manager, taken, last, shown, crowded, gapless>>

CloseList_Forgotten ==
    /\ broker = "writing" /\ sent = Records
    /\ broker' = "returned"
    /\ UNCHANGED <<boxes, sent, hungUp, manager, taken, last, shown, crowded, gapless>>

CloseList ==
    /\ broker = "writing" /\ sent = Records
    /\ broker' = "returned"
    /\ hungUp' = TRUE
    /\ UNCHANGED <<boxes, sent, manager, taken, last, shown, crowded, gapless>>

-----------------------------------------------------------------------------
Available == sent * RecordSize - taken

Parsed_LastEarly(at) ==
    LET record == at \div RecordSize + 1
        within == at % RecordSize
    IN  IF within = 0 THEN {[shown |-> record, last |-> record >= Records - 1]}
        ELSE IF within >= TextSize THEN {[shown |-> shown, last |-> last]}
        ELSE {[shown |-> Mixture, last |-> l] : l \in BOOLEAN}

(* What sscanf() leaves in the manager's variables when the buffer starts   *)
(* with byte `at` of the stream: the record that starts there, or what they *)
(* held before if a record's padding is there, the heap behind its text, in *)
(* which no number is found.                                                *)
Parsed(at) ==
    LET record == at \div RecordSize + 1
        within == at % RecordSize
    IN  IF within = 0 THEN {[shown |-> record, last |-> record = Records]}
        ELSE IF within >= TextSize THEN {[shown |-> shown, last |-> last]}
        ELSE {[shown |-> Mixture, last |-> l] : l \in BOOLEAN}

(* One read and one line.  The first read's record is taken apart in two    *)
(* steps, to the same end.                                                  *)
ShowRecord ==
    /\ manager = "reading" /\ Available > 0
    /\ LET n == Smaller(Available, MSIZE)
       IN  /\ taken' = taken + n
           /\ crowded' = (crowded \/ n > RecordSize)
    /\ \E p \in Parsed(taken) :
           /\ shown' = p.shown
           /\ last' = p.last
           /\ gapless' = (gapless /\ p.shown = shown + 1)
           /\ manager' = IF p.last THEN "done" ELSE "reading"
    /\ UNCHANGED <<boxes, sent, hungUp, broker>>

(* The read at the end of the pipe: "Failed to read".                       *)
GiveUp ==
    /\ manager = "reading" /\ Available = 0 /\ hungUp
    /\ manager' = "done"
    /\ UNCHANGED <<boxes, sent, hungUp, broker, taken, last, shown, crowded, gapless>>

ListNext == WriteRecord \/ CloseList \/ ShowRecord \/ GiveUp

(* Both processes keep running.                                             *)
ListSpec ==
    /\ Init /\ [][ListNext]_vars
    /\ WF_vars(WriteRecord \/ CloseList)
    /\ WF_vars(ShowRecord \/ GiveUp)

-----------------------------------------------------------------------------
(* Bytes are counted, records numbered, and a manager is done for a reason. *)
ListTypeOK ==
    /\ boxes \in 0 .. MaxBoxes
    /\ sent \in 0 .. Records
    /\ hungUp \in BOOLEAN /\ last \in BOOLEAN /\ crowded \in BOOLEAN /\ gapless \in BOOLEAN
    /\ broker \in {"writing", "returned"} /\ manager \in {"reading", "done"}
    /\ taken \in 0 .. sent * RecordSize
    /\ shown \in {Mixture} \cup 0 .. sent

(* A record that is cut by a full read (manager.c:111) is never taken for   *)
(* another: with reads of 1024 and records of 400 bytes, no read of a list  *)
(* that the directory has room for starts within the text of a record.      *)
NeverMixed ==
    [][shown' # Mixture /\ shown <= shown']_vars

(* Every box is shown, once, in the list's order - if no two records ever   *)
(* met in the pipe.                                                         *)
ExactUnlessCrowded ==
    ~crowded =>
        /\ gapless
        /\ manager = "done" => shown = Records

(* A manager stops at the last record or, when it has not seen that one,    *)
(* at the end of the pipe: it never waits on a broker that is through.      *)
ListingEnds == <>(manager = "done")

=============================================================================
