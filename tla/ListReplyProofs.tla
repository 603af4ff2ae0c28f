--------------------------- MODULE ListReplyProofs ---------------------------
(***************************************************************************)
(* A listing proved for every list that the directory has room for.        *)
(*                                                                         *)
(* Reads are of 1024 bytes or to the end of what has been written, which   *)
(* is a whole number of records: every read starts q times 1024 bytes      *)
(* behind the start of a record, where q is at most 8 in a stream of at    *)
(* most 23 records.  For no such q is that within the text of a record,    *)
(* though for q = 9 it would be.                                           *)
(***************************************************************************)
EXTENDS ListReply, TLAPS

(* Where a read starts.                                                     *)
Aligned(at) == \E m \in 0 .. 23, q \in 0 .. 8 : at = 400 * m + 1024 * q

LInv ==
    /\ ListTypeOK
    /\ Aligned(taken)
    /\ shown # Mixture /\ RecordSize * shown <= taken
    /\ hungUp => sent = Records
    /\ ~crowded => /\ taken = RecordSize * shown /\ gapless
                   /\ manager = "done" => shown = Records

-----------------------------------------------------------------------------
(* A directory entry is 44 bytes, a block 1024.                             *)
LEMMA Bounds == /\ MaxBoxes \in 0 .. 23
                /\ \A n \in 0 .. MaxBoxes : n \in 0 .. 23
<1>1. 1024 \div 44 = 23
  OBVIOUS
<1> QED
  BY <1>1, ListAssumption DEF MAX_DIR_ENTRIES

(* A list that fits the directory has between 1 and 23 records.             *)
LEMMA RecordsBound == boxes \in 0 .. MaxBoxes => Records \in 1 .. 23
BY Bounds DEF Records

(* At the start of a record, or behind its text.                            *)
LEMMA AlignedReads ==
    ASSUME NEW at, Aligned(at)
    PROVE  at \in Nat /\ (at % 400 = 0 \/ at % 400 >= 43)
<1>1. PICK m \in 0 .. 23, q \in 0 .. 8 : at = 400 * m + 1024 * q
  BY DEF Aligned
<1> QED
  BY <1>1

(* Nothing is written or read at first.                                     *)
LEMMA InitOfList == Init => LInv
<1> SUFFICES ASSUME Init
             PROVE  LInv
  OBVIOUS
<1>1. Records \in 1 .. 23
  BY RecordsBound DEF Init
<1>2. Aligned(taken)
  <2>1. 0 \in 0 .. 23 /\ 0 \in 0 .. 8 /\ taken = 400 * 0 + 1024 * 0
    BY DEF Init
  <2> QED
    BY <2>1 DEF Aligned
<1>3. ListTypeOK
  <2>1. sent \in 0 .. Records /\ taken \in 0 .. sent * RecordSize /\ shown \in 0 .. sent
    BY <1>1 DEF Init, RecordSize
  <2> QED
    BY <2>1 DEF Init, ListTypeOK
<1>4. shown # Mixture /\ RecordSize * shown <= taken /\ taken = RecordSize * shown
  BY DEF Init, Mixture, RecordSize
<1> QED
  BY <1>2, <1>3, <1>4 DEF Init, LInv

(* One read: it ends where a later one may start, and a record that is seen *)
(* is the one that starts there.                                            *)
LEMMA ReadOfList ==
    ASSUME LInv, ShowRecord
    PROVE  LInv' /\ shown' # Mixture /\ shown <= shown'
<1>1. /\ sent \in 0 .. Records /\ Records \in 1 .. 23 /\ taken \in 0 .. sent * 400
      /\ shown \in 0 .. sent /\ 400 * shown <= taken
      /\ boxes \in 0 .. MaxBoxes /\ last \in BOOLEAN /\ crowded \in BOOLEAN /\ gapless \in BOOLEAN
      /\ manager = "reading" /\ hungUp => sent = Records
  BY RecordsBound DEF LInv, ListTypeOK, RecordSize, Mixture, ShowRecord
<1>2. UNCHANGED <<boxes, sent, hungUp, broker, Records>>
  BY DEF ShowRecord, Records
<1> DEFINE n == Smaller(Available, MSIZE)
<1>3. /\ sent * 400 - taken > 0 /\ n \in 1 .. 1024 /\ n <= sent * 400 - taken
      /\ n = 1024 \/ taken + n = 400 * sent
  BY <1>1 DEF ShowRecord, Available, RecordSize, MSIZE, Smaller
<1>4. taken' = taken + n /\ crowded' = (crowded \/ n > 400)
  BY DEF ShowRecord, RecordSize
<1> HIDE DEF n
<1>5. PICK p \in Parsed(taken) :
          /\ shown' = p.shown /\ last' = p.last
          /\ gapless' = (gapless /\ p.shown = shown + 1)
          /\ manager' = IF p.last THEN "done" ELSE "reading"
  BY DEF ShowRecord
<1>6. taken % 400 = 0 \/ taken % 400 >= 43
  BY AlignedReads DEF LInv
<1>7. Aligned(taken')
  <2>1. PICK m \in 0 .. 23, q \in 0 .. 8 : taken = 400 * m + 1024 * q
    BY DEF LInv, Aligned
  <2>2. CASE n = 1024
    <3>1. taken' = 400 * m + 1024 * (q + 1) /\ taken' <= 9200
      BY <1>1, <1>3, <1>4, <2>1, <2>2
    <3>2. q + 1 \in 0 .. 8
      BY <2>1, <3>1
    <3> QED
      BY <3>1, <3>2 DEF Aligned
  <2>3. CASE taken + n = 400 * sent
    <3>1. sent \in 0 .. 23 /\ 0 \in 0 .. 8 /\ taken' = 400 * sent + 1024 * 0
      BY <1>1, <1>4, <2>3
    <3> QED
      BY <3>1 DEF Aligned
  <2> QED
    BY <1>3, <2>2, <2>3
<1>8. /\ last' \in BOOLEAN /\ shown' \in 0 .. sent => ListTypeOK'
      /\ hungUp' => sent' = Records'
  <2>1. taken' \in 0 .. sent * 400
    BY <1>1, <1>3, <1>4
  <2>2. crowded' \in BOOLEAN /\ gapless' \in BOOLEAN /\ manager' \in {"reading", "done"}
    BY <1>4, <1>5
  <2> QED
    BY <1>1, <1>2, <2>1, <2>2 DEF LInv, ListTypeOK, RecordSize
<1>9. CASE taken % 400 = 0
  <2> DEFINE record == taken \div 400 + 1
  <2>1. /\ taken = 400 * (record - 1) /\ record \in Int
    BY <1>1, <1>9
  <2> HIDE DEF record
  <2>2. /\ record \in 1 .. sent /\ shown + 1 <= record /\ n >= 400
        /\ 400 * record <= taken'
    BY <1>1, <1>3, <1>4, <2>1
  <2>3. p = [shown |-> record, last |-> record = Records]
    BY <1>5, <1>9 DEF Parsed, RecordSize, record
  <2>4. shown' = record /\ last' = (record = Records) /\ (p.last <=> record = Records)
    BY <1>5, <2>3
  <2>5. shown' \in 0 .. sent /\ shown' # Mixture /\ shown <= shown' /\ 400 * shown' <= taken'
    BY <1>1, <2>2, <2>4 DEF Mixture
  <2>6. ~crowded' => taken' = 400 * shown' /\ gapless' /\ (manager' = "done" => shown' = Records)
    <3>1. ~crowded' => ~crowded /\ ~(n > 400)
      BY <1>4
    <3>2. ~(n > 400) => taken' = 400 * shown'
      BY <1>3, <1>4, <2>1, <2>2, <2>4
    <3>3. ~crowded => record = shown + 1
      <4>1. ~crowded => taken = 400 * shown
        BY DEF LInv, RecordSize
      <4> QED
        BY <1>1, <2>1, <4>1
    <3>4. ~crowded => p.shown = shown + 1
      BY <1>5, <2>4, <3>3
    <3>5. ~crowded => gapless'
      BY <1>5, <3>4 DEF LInv
    <3>6. manager' = "done" => shown' = Records
      BY <1>5, <2>4
    <3> QED
      BY <3>1, <3>2, <3>5, <3>6
  <2>7. last' \in BOOLEAN
    BY <2>4
  <2> QED
    BY <1>2, <1>7, <1>8, <2>5, <2>6, <2>7 DEF LInv, RecordSize
<1>10. CASE taken % 400 >= 43
  <2>1. p = [shown |-> shown, last |-> last]
    BY <1>5, <1>10 DEF Parsed, RecordSize, TextSize
  <2>2. shown' = shown /\ last' = last /\ last \in BOOLEAN
    BY <1>1, <1>5, <2>1
  <2>3. shown' \in 0 .. sent /\ shown' # Mixture /\ shown <= shown' /\ 400 * shown' <= taken'
    BY <1>1, <1>3, <1>4, <2>2 DEF Mixture
  <2>4. crowded'
    <3>1. (400 * shown) % 400 = 0
      BY <1>1
    <3>2. crowded
      BY <1>10, <3>1 DEF LInv, RecordSize
    <3> QED
      BY <1>4, <3>2
  <2> QED
    BY <1>2, <1>7, <1>8, <2>2, <2>3, <2>4 DEF LInv, RecordSize
<1> QED
  BY <1>6, <1>9, <1>10

(* The broker's steps, and the manager's last.                              *)
LEMMA RestOfList ==
    ASSUME LInv, WriteRecord \/ CloseList \/ GiveUp \/ UNCHANGED vars
    PROVE  LInv' /\ UNCHANGED shown
<1>1. /\ sent \in 0 .. Records /\ Records \in 1 .. 23 /\ taken \in 0 .. sent * 400
      /\ shown \in 0 .. sent
  BY RecordsBound DEF LInv, ListTypeOK, RecordSize, Mixture
<1>2. UNCHANGED <<boxes, taken, last, shown, crowded, gapless, Records>>
  BY DEF WriteRecord, CloseList, GiveUp, vars, Records
<1>3. CASE WriteRecord
  <2>1. /\ sent' \in 0 .. Records /\ taken \in 0 .. sent' * 400 /\ shown \in 0 .. sent'
        /\ ~hungUp' /\ UNCHANGED <<hungUp, broker, manager>>
    BY <1>1, <1>3 DEF WriteRecord, LInv
  <2>2. ListTypeOK'
    <3>1. /\ sent' \in 0 .. Records' /\ taken' \in 0 .. sent' * RecordSize
          /\ shown' \in {Mixture} \cup 0 .. sent'
      BY <1>2, <2>1 DEF RecordSize
    <3>2. /\ boxes' = boxes /\ hungUp' = hungUp /\ last' = last /\ crowded' = crowded
          /\ gapless' = gapless /\ broker' = broker /\ manager' = manager
      BY <1>2, <2>1
    <3>3. ListTypeOK
      BY DEF LInv
    <3> QED
      BY ONLY <3>1, <3>2, <3>3 DEF ListTypeOK
  <2>3. Aligned(taken)' /\ (shown # Mixture /\ RecordSize * shown <= taken)'
    BY <1>2 DEF LInv, Aligned, Mixture, RecordSize
  <2>4. ~crowded' => (/\ taken = RecordSize * shown /\ gapless
                      /\ manager = "done" => shown = Records)'
    BY <1>2, <2>1 DEF LInv, RecordSize
  <2> QED
    BY <1>2, <2>1, <2>2, <2>3, <2>4 DEF LInv
<1>4. CASE CloseList
  BY <1>2, <1>4 DEF CloseList, LInv, ListTypeOK
<1>5. CASE GiveUp
  <2>1. ~crowded => shown = Records
    <3>1. sent = Records /\ taken = 400 * sent
      BY <1>1, <1>5 DEF GiveUp, Available, RecordSize, LInv
    <3>2. ~crowded => taken = 400 * shown
      BY DEF LInv, RecordSize
    <3> QED
      BY <1>1, <3>1, <3>2
  <2> QED
    BY <1>2, <1>5, <2>1 DEF GiveUp, LInv, ListTypeOK
<1>6. CASE UNCHANGED vars
  BY <1>2, <1>6 DEF vars, LInv, ListTypeOK
<1> QED
  BY <1>2, <1>3, <1>4, <1>5, <1>6

(* Each write and read keeps the invariant, and what it shows is no mixture *)
(* and not before what was shown.                                           *)
LEMMA LInvKept == LInv /\ [ListNext]_vars => LInv' /\ [shown' # Mixture /\ shown <= shown']_vars
<1> SUFFICES ASSUME LInv, [ListNext]_vars
             PROVE  LInv' /\ shown' # Mixture /\ shown <= shown'
  OBVIOUS
<1>1. CASE ShowRecord
  BY <1>1, ReadOfList
<1>2. CASE WriteRecord \/ CloseList \/ GiveUp \/ UNCHANGED vars
  <2>1. shown \in 0 .. sent /\ sent \in 0 .. Records /\ Records \in 1 .. 23 /\ shown # Mixture
    BY RecordsBound DEF LInv, ListTypeOK, Mixture
  <2>2. shown <= shown
    BY <2>1
  <2> QED
    BY <1>2, <2>1, <2>2, RestOfList
<1> QED
  BY <1>1, <1>2 DEF ListNext

-----------------------------------------------------------------------------
(* Every read of a listing starts at a record or behind the text of one,    *)
(* however the broker's writes and the manager's reads interleave.          *)
THEOREM ListInvariance == ListSpec => []LInv
BY InitOfList, LInvKept, PTL DEF ListSpec

(* Bytes are counted, records numbered: the manager reads no more than was  *)
(* written, and shows no record that was not.                               *)
THEOREM ListTypes == ListSpec => []ListTypeOK
<1>1. LInv => ListTypeOK
  BY DEF LInv
<1> QED
  BY <1>1, ListInvariance, PTL

(* A record that is cut by a full read is never taken for another, and no   *)
(* record is shown after a later one.                                       *)
THEOREM RecordsNeverMixed == ListSpec => NeverMixed
BY ListInvariance, LInvKept, PTL DEF ListSpec, NeverMixed

(* Every box is shown, once, in the list's order, if no two records ever    *)
(* met in the pipe.                                                         *)
THEOREM ListingExact == ListSpec => []ExactUnlessCrowded
<1>1. LInv => ExactUnlessCrowded
  BY DEF LInv, ExactUnlessCrowded
<1> QED
  BY <1>1, ListInvariance, PTL

=============================================================================
