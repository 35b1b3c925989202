-------------------------- MODULE PageFilesProofs --------------------------
(***************************************************************************)
(* Theorems about PageFiles, for any number and size of files, any length  *)
(* of records and any number of starts.                                    *)
(*                                                                         *)
(* NoEarlyReuse is not inductive: the next file is free if the used ones   *)
(* are the first ones (Prefix) and the current one is the last of them, or *)
(* all are used (AtCurrent), which after a start is what init looked for   *)
(* (AtFirst).                                                              *)
(***************************************************************************)
EXTENDS PageFiles, SequenceTheorems, TLAPS

Unit == [rec: Record, i: Nat \ {0}]

FileTypes ==
    /\ files \in [FileNo -> Seq(Unit)] /\ reused \subseteq FileNo
    /\ file_no_ \in FileNo \cup {-1} /\ fd_ \in FileNo \cup {None} /\ pos \in Nat
    /\ records \in 0..MaxRecords /\ now \in 0..MaxHours

\* a write has an open file, and its offset is within what the file holds
WriteTypes ==
    /\ writing # None => writing \in Record /\ alive /\ fd_ # None
    /\ alive /\ fd_ # None => file_no_ = fd_ /\ pos <= Size(fd_)

Prefix == \E k \in 0..MaxNum : \A f \in FileNo : Size(f) > 0 <=> f < k
AtFirst == alive /\ fd_ = None => file_no_ = FirstFile
AtCurrent ==
    alive /\ fd_ # None =>
        /\ \A f \in FileNo : f < fd_ => Size(f) > 0
        /\ \/ \A f \in FileNo : f # fd_ => Size(f) > 0
           \/ \A f \in FileNo : f > fd_ => Size(f) = 0

FileInv == FileTypes /\ WriteTypes /\ Prefix /\ AtFirst /\ AtCurrent /\ NoEarlyReuse

-----------------------------------------------------------------------------
(* A sequence written as a function has the length of its domain.          *)
LEMMA LengthOf ==
  ASSUME NEW S, NEW n \in Nat, NEW s \in [1..n -> S]
  PROVE  s \in Seq(S) /\ Len(s) = n
<1>1. s \in Seq(S)
  BY SeqDef
<1>2. DOMAIN s = 1..Len(s) /\ DOMAIN s = 1..n /\ Len(s) \in Nat
  BY <1>1, LenProperties
<1> QED BY <1>1, <1>2

LEMMA MaxOfTwo ==
  ASSUME NEW a \in Nat, NEW b \in Nat
  PROVE  Max({a, b}) \in Nat /\ Max({a, b}) >= a /\ Max({a, b}) >= b /\ Max({a, b}) \in {a, b}
<1>1. \E x \in {a, b} : \A y \in {a, b} : x >= y
  <2>1. CASE a >= b
    BY <2>1
  <2>2. CASE b >= a
    BY <2>2
  <2> QED BY <2>1, <2>2
<1>2. Max({a, b}) \in {a, b} /\ \A y \in {a, b} : Max({a, b}) >= y
  BY <1>1 DEF Max
<1> QED BY <1>2

(* What a write leaves in a file: the units it had, or more.               *)
LEMMA Overwritten ==
  ASSUME NEW s \in Seq(Unit), NEW p \in Nat, p <= Len(s),
         NEW r \in Record, NEW n \in 1..r.len
  PROVE  /\ Overwrite(s, p, Units(r, n)) \in Seq(Unit)
         /\ Len(Overwrite(s, p, Units(r, n))) >= p + n
<1> DEFINE new == Units(r, n)
           m == Max({Len(s), p + Len(new)})
<1>0. r.len \in Nat /\ n \in Nat
  <2>1. r.len \in RecordLen
    BY DEF Record
  <2>2. RecordLen \subseteq Nat
    BY SizeAssumption
  <2>3. r.len \in Nat
    BY <2>1, <2>2
  <2> QED BY <2>3
<1>1. new \in Seq(Unit) /\ Len(new) = n /\ \A i \in 1..n : new[i] \in Unit
  <2>1. new \in [1..n -> Unit]
    BY <1>0 DEF Units, Unit
  <2> QED BY <1>0, <2>1, LengthOf
<1>2. Len(s) \in Nat /\ \A i \in 1..Len(s) : s[i] \in Unit
  BY LenProperties
<1> HIDE DEF new
<1>3. m \in Nat /\ m >= p + n /\ (m = Len(s) \/ m = p + n)
  BY <1>0, <1>1, <1>2, MaxOfTwo
<1> HIDE DEF m
<1>4. ASSUME NEW j \in 1..m
      PROVE  (IF j > p /\ j <= p + Len(new) THEN new[j - p] ELSE s[j]) \in Unit
  <2>1. CASE j > p /\ j <= p + n
    BY <2>1, <1>0, <1>1, <1>3
  <2>2. CASE ~(j > p /\ j <= p + n)
    BY <2>2, <1>0, <1>1, <1>2, <1>3
  <2> QED BY <2>1, <2>2
<1>5. [j \in 1..m |-> IF j > p /\ j <= p + Len(new) THEN new[j - p] ELSE s[j]] \in [1..m -> Unit]
  BY <1>4
<1>6. Overwrite(s, p, new) = [j \in 1..m |-> IF j > p /\ j <= p + Len(new) THEN new[j - p] ELSE s[j]]
  BY DEF Overwrite, m
<1> QED BY <1>3, <1>5, <1>6, LengthOf DEF new

-----------------------------------------------------------------------------
LEMMA FileInitInv == Init => FileInv
<1> SUFFICES ASSUME Init PROVE FileInv
  OBVIOUS
<1>1. FileTypes /\ WriteTypes /\ AtFirst /\ AtCurrent /\ NoEarlyReuse
  BY SizeAssumption DEF Init, FileTypes, WriteTypes, AtFirst, AtCurrent, NoEarlyReuse
<1>2. \A f \in FileNo : Size(f) > 0 <=> f < 0
  BY SizeAssumption DEF Init, Size, FileNo
<1>3. Prefix
  BY <1>2, SizeAssumption DEF Prefix
<1> QED BY <1>1, <1>3 DEF FileInv

(* The files are what they were: so is everything said of their sizes.     *)
LEMMA SameFiles ==
  ASSUME FileInv, UNCHANGED <<files, reused>>
  PROVE  Prefix' /\ NoEarlyReuse' /\ FirstFile' = FirstFile /\ \A f \in FileNo : Size(f)' = Size(f)
BY DEF FileInv, Prefix, NoEarlyReuse, FirstFile, Size

(* init finds the number after the used ones, or starts over.              *)
LEMMA FirstIsFree ==
  ASSUME FileInv
  PROVE  LET n == (FirstFile + 1) % MaxNum
         IN /\ FirstFile \in FileNo \cup {-1} /\ n \in FileNo
            /\ \/ \A f \in FileNo : Size(f) > 0
               \/ Size(n) = 0 /\ \A f \in FileNo : Size(f) > 0 <=> f < n
<1> DEFINE free == {f \in FileNo : Size(f) = 0}
<1>0. MaxNum \in Nat \ {0} /\ \A f \in FileNo : Size(f) \in Nat
  BY SizeAssumption, LenProperties DEF FileInv, FileTypes, Size
<1>1. PICK k \in 0..MaxNum : \A f \in FileNo : Size(f) > 0 <=> f < k
  BY DEF FileInv, Prefix
<1>2. CASE free = {}
  <2>1. FirstFile = -1
    BY <1>2 DEF FirstFile
  <2>2. (FirstFile + 1) % MaxNum = 0 /\ 0 \in FileNo
    BY <2>1, <1>0 DEF FileNo
  <2>3. \A f \in FileNo : Size(f) > 0
    BY <1>0, <1>2
  <2> QED BY <2>1, <2>2, <2>3
<1>3. CASE free # {}
  <2>1. k \in free /\ \A f \in free : k <= f
    BY <1>0, <1>1, <1>3 DEF FileNo
  <2>2. Min(free) \in free /\ \A f \in free : Min(free) <= f
    BY <2>1 DEF Min
  <2>3. Min(free) = k
    BY <2>1, <2>2 DEF FileNo
  <2>4. FirstFile = k - 1 /\ k \in FileNo /\ Size(k) = 0
    BY <2>1, <2>3, <1>3 DEF FirstFile
  <2>5. (FirstFile + 1) % MaxNum = k /\ FirstFile \in FileNo \cup {-1}
    BY <2>4, <1>0 DEF FileNo
  <2> QED BY <1>1, <2>4, <2>5
<1> QED BY <1>2, <1>3

(* A write of some units changes the size of the open file alone, which    *)
(* holds something from then on.                                           *)
LEMMA PutInv ==
  ASSUME FileInv, alive, writing # None, NEW n \in 1..writing.len, Put(n), UNCHANGED <<reused, file_no_>>
  PROVE  /\ files' \in [FileNo -> Seq(Unit)] /\ pos' \in Nat /\ pos' <= Len(files'[fd_])
         /\ \A f \in FileNo : f # fd_ => Size(f)' = Size(f)
         /\ Len(files'[fd_]) > 0 /\ fd_ \in FileNo
         /\ Prefix' /\ NoEarlyReuse'
<1> DEFINE s == files[fd_]
<1>1. /\ writing \in Record /\ fd_ \in FileNo /\ s \in Seq(Unit) /\ pos \in Nat /\ pos <= Len(s)
      /\ files \in [FileNo -> Seq(Unit)]
  BY DEF FileInv, FileTypes, WriteTypes, Size
<1>2. n \in Nat \ {0}
  <2>1. writing.len \in RecordLen
    BY <1>1 DEF Record
  <2> QED BY <2>1, SizeAssumption
<1> DEFINE t == Overwrite(s, pos, Units(writing, n))
<1>3. t \in Seq(Unit) /\ Len(t) >= pos + n /\ Len(t) \in Nat
  BY <1>1, Overwritten, LenProperties
<1>4. files' = [files EXCEPT ![fd_] = t] /\ pos' = pos + n
  BY DEF Put
<1> HIDE DEF t
<1>5. files' \in [FileNo -> Seq(Unit)] /\ pos' \in Nat
  BY <1>1, <1>2, <1>3, <1>4
<1>6. files'[fd_] = t /\ \A f \in FileNo : f # fd_ => files'[f] = files[f]
  BY <1>1, <1>4
<1>7. \A f \in FileNo : f # fd_ => Size(f)' = Size(f)
  BY <1>6 DEF Size
<1>8. Len(files'[fd_]) > 0 /\ Len(files'[fd_]) >= pos'
  BY <1>1, <1>2, <1>3, <1>4, <1>6
<1>9. \A f \in FileNo : Size(f) \in Nat
  BY LenProperties DEF FileInv, FileTypes, Size
<1>10. Prefix'
  <2>1. PICK k \in 0..MaxNum : \A f \in FileNo : Size(f) > 0 <=> f < k
    BY DEF FileInv, Prefix
  <2>2. \A f \in FileNo : Len(files'[f]) > 0 <=> (f < k \/ f = fd_)
    BY <2>1, <1>7, <1>8 DEF Size
  <2>3. \A f \in FileNo : f < fd_ => f < k
    BY <2>1 DEF FileInv, AtCurrent, WriteTypes
  <2>4. \E m \in 0..MaxNum : \A f \in FileNo : f < m <=> (f < k \/ f = fd_)
    <3>1. CASE fd_ < k
      BY <3>1, <1>1 DEF FileNo
    <3>2. CASE fd_ >= k
      <4>1. fd_ = k
        <5>1. fd_ \in Nat /\ k \in Nat /\ MaxNum \in Nat /\ fd_ < MaxNum
          BY <1>1, SizeAssumption DEF FileNo
        <5>2. ASSUME k < fd_ PROVE FALSE
          <6>1. k \in FileNo
            BY <5>1, <5>2 DEF FileNo
          <6> QED BY <5>1, <5>2, <6>1, <2>3
        <5> QED BY <5>1, <5>2, <3>2
      <4>2. k + 1 \in 0..MaxNum /\ \A f \in FileNo : f < k + 1 <=> (f < k \/ f = fd_)
        BY <4>1, <1>1, SizeAssumption DEF FileNo
      <4> QED BY <4>2
    <3> QED BY <3>1, <3>2, <1>1 DEF FileNo
  <2> QED BY <2>2, <2>4 DEF Prefix, Size
<1>11. NoEarlyReuse'
  BY <1>7, <1>8 DEF FileInv, NoEarlyReuse, Size
<1> QED BY <1>1, <1>5, <1>7, <1>8, <1>10, <1>11

LEMMA StartInv == FileInv /\ Start => FileInv'
<1> SUFFICES ASSUME FileInv, Start PROVE FileInv'
  OBVIOUS
<1>1. FileTypes' /\ WriteTypes'
  BY FirstIsFree DEF Start, FileInv, FileTypes, WriteTypes
<1>2. Prefix' /\ NoEarlyReuse' /\ FirstFile' = FirstFile
  BY SameFiles DEF Start
<1> QED BY <1>1, <1>2 DEF Start, FileInv, AtFirst, AtCurrent

LEMMA HourInv == FileInv /\ Hour => FileInv'
<1> SUFFICES ASSUME FileInv, Hour PROVE FileInv'
  OBVIOUS
<1>1. Prefix' /\ NoEarlyReuse' /\ FirstFile' = FirstFile /\ \A f \in FileNo : Size(f)' = Size(f)
  BY SameFiles DEF Hour
<1>2. FileTypes' /\ WriteTypes'
  BY SizeAssumption DEF Hour, fileVars, FileInv, FileTypes, WriteTypes, Size
<1>3. AtFirst' /\ AtCurrent'
  BY <1>1 DEF Hour, fileVars, FileInv, AtFirst, AtCurrent
<1> QED BY <1>1, <1>2, <1>3 DEF FileInv

(* The file that is opened next is free, or none is.                       *)
LEMMA WriteInv == FileInv /\ Write => FileInv'
<1> SUFFICES ASSUME FileInv, Write PROVE FileInv'
  OBVIOUS
<1> DEFINE n == (file_no_ + 1) % MaxNum
<1>0. MaxNum \in Nat \ {0} /\ \A f \in FileNo : Size(f) \in Nat
  BY SizeAssumption, LenProperties DEF FileInv, FileTypes, Size
<1>1. /\ UNCHANGED <<files, alive, now>> /\ alive /\ records' \in 0..MaxRecords
      /\ writing' \in Record
  BY SizeAssumption DEF Write, Record, FileInv, FileTypes
<1>2. CASE UNCHANGED <<fileVars, reused>> /\ fd_ # None
  <2>1. Prefix' /\ NoEarlyReuse' /\ FirstFile' = FirstFile /\ \A f \in FileNo : Size(f)' = Size(f)
    BY <1>1, <1>2, SameFiles
  <2>2. FileTypes' /\ WriteTypes'
    BY <1>1, <1>2 DEF fileVars, FileInv, FileTypes, WriteTypes, Size
  <2>3. AtFirst' /\ AtCurrent'
    BY <1>1, <1>2, <2>1 DEF fileVars, FileInv, AtFirst, AtCurrent
  <2> QED BY <2>1, <2>2, <2>3 DEF FileInv
<1>3. CASE Open(n) /\ (fd_ = None \/ Outgrown)
  <2>1. /\ n \in FileNo
        /\ \/ \A f \in FileNo : Size(f) > 0
           \/ /\ Size(n) = 0 /\ \A f \in FileNo : f < n => Size(f) > 0
              /\ \A f \in FileNo : f > n => Size(f) = 0
    <3>1. CASE fd_ = None
      <4>1. file_no_ = FirstFile
        BY <1>1, <3>1 DEF FileInv, AtFirst
      <4> QED BY <4>1, <1>0, FirstIsFree DEF FileNo
    <3>2. CASE fd_ # None /\ Outgrown
      <4>1. fd_ \in FileNo /\ file_no_ = fd_
        BY <1>1, <3>2 DEF FileInv, FileTypes, WriteTypes
      <4>2. Size(fd_) > 0
        BY <3>2, <4>1, <1>0, SizeAssumption DEF Outgrown
      <4>3. /\ \A f \in FileNo : f < fd_ => Size(f) > 0
            /\ \/ \A f \in FileNo : f # fd_ => Size(f) > 0
               \/ \A f \in FileNo : f > fd_ => Size(f) = 0
        BY <1>1, <3>2 DEF FileInv, AtCurrent
      <4>4. CASE \A f \in FileNo : Size(f) > 0
        BY <4>1, <4>4, <1>0 DEF FileNo
      <4>5. CASE ~ \A f \in FileNo : Size(f) > 0
        <5>1. \A f \in FileNo : Size(f) > 0 <=> f <= fd_
          BY <4>1, <4>2, <4>3, <4>5, <1>0 DEF FileNo
        <5>2. fd_ # MaxNum - 1
          BY <5>1, <4>5 DEF FileNo
        <5>3. n = fd_ + 1 /\ n \in FileNo
          BY <5>2, <4>1, <1>0 DEF FileNo
        <5> QED BY <5>1, <5>3, <4>1, <1>0 DEF FileNo
      <4> QED BY <4>4, <4>5
    <3> QED BY <1>3, <3>1, <3>2
  <2> HIDE DEF n
  <2>2. /\ file_no_' = n /\ fd_' = n /\ pos' = 0 /\ n # None
        /\ reused' = IF Size(n) > 0 THEN reused \cup {n} ELSE reused
    BY <1>3, <2>1, NoneAssumption, SizeAssumption DEF Open, FileNo
  <2>3. \A f \in FileNo : Size(f)' = Size(f)
    BY <1>1 DEF Size
  <2>4. Prefix' /\ FirstFile' = FirstFile
    BY <1>1 DEF FileInv, Prefix, FirstFile, Size
  <2>5. FileTypes' /\ WriteTypes'
    BY <1>0, <1>1, <2>1, <2>2, <2>3 DEF FileInv, FileTypes, WriteTypes
  <2>6. NoEarlyReuse'
    BY <2>1, <2>2, <2>3, <1>0 DEF FileInv, NoEarlyReuse
  <2>7. AtFirst' /\ AtCurrent'
    BY <2>1, <2>2, <2>3 DEF AtFirst, AtCurrent
  <2> QED BY <2>4, <2>5, <2>6, <2>7 DEF FileInv
<1> QED BY <1>2, <1>3 DEF Write, SwitchFile

LEMMA WriteChunkInv == FileInv /\ WriteChunk => FileInv'
<1> SUFFICES ASSUME FileInv, WriteChunk PROVE FileInv'
  OBVIOUS
<1>1. PICK n \in 1..writing.len : Put(n)
  BY DEF WriteChunk
<1>2. alive /\ writing # None /\ fd_ # None /\ UNCHANGED <<reused, alive, file_no_, fd_, now, records>>
  BY DEF WriteChunk, FileInv, WriteTypes
<1>3. writing' \in {None, writing}
  BY DEF WriteChunk
<1>4. /\ files' \in [FileNo -> Seq(Unit)] /\ pos' \in Nat /\ pos' <= Size(fd_)'
      /\ \A f \in FileNo : f # fd_ => Size(f)' = Size(f)
      /\ Size(fd_)' > 0 /\ Prefix' /\ NoEarlyReuse'
  BY <1>1, <1>2, PutInv DEF Size
<1>5. FileTypes' /\ WriteTypes'
  BY <1>2, <1>3, <1>4 DEF FileInv, FileTypes, WriteTypes, Size
<1>6. AtFirst' /\ AtCurrent'
  BY <1>2, <1>4 DEF FileInv, FileTypes, AtFirst, AtCurrent, FileNo
<1> QED BY <1>4, <1>5, <1>6 DEF FileInv

LEMMA DieInv == FileInv /\ Die => FileInv'
<1> SUFFICES ASSUME FileInv, Die PROVE FileInv'
  OBVIOUS
<1>1. ~alive' /\ writing' = None /\ fd_' = None /\ UNCHANGED <<reused, file_no_, now, records>> /\ alive
  BY DEF Die
<1>2. CASE UNCHANGED <<files, pos>>
  BY <1>1, <1>2, SameFiles DEF FileInv, FileTypes, WriteTypes, AtFirst, AtCurrent
<1>3. ASSUME writing # None, NEW n \in 1..(writing.len - 1), Put(n) PROVE FileInv'
  <2>0. writing.len \in Nat
    <3>1. writing \in Record
      BY <1>3 DEF FileInv, WriteTypes
    <3>2. writing.len \in RecordLen
      BY <3>1 DEF Record
    <3> QED BY <3>2, SizeAssumption
  <2>1. n \in 1..writing.len
    BY <2>0
  <2>2. files' \in [FileNo -> Seq(Unit)] /\ pos' \in Nat /\ Prefix' /\ NoEarlyReuse'
    BY <1>1, <1>3, <2>1, PutInv
  <2> QED BY <1>1, <2>2 DEF FileInv, FileTypes, WriteTypes, AtFirst, AtCurrent
<1> QED BY <1>2, <1>3 DEF Die

LEMMA FileStepInv == FileInv /\ [Next]_vars => FileInv'
<1> SUFFICES ASSUME FileInv, [Next]_vars PROVE FileInv'
  OBVIOUS
<1>1. CASE UNCHANGED vars
  <2>1. Prefix' /\ NoEarlyReuse' /\ FirstFile' = FirstFile /\ \A f \in FileNo : Size(f)' = Size(f)
    BY <1>1, SameFiles DEF vars
  <2> QED BY <1>1, <2>1 DEF vars, fileVars, FileInv, FileTypes, WriteTypes, AtFirst, AtCurrent, Size
<1> QED BY <1>1, StartInv, HourInv, WriteInv, WriteChunkInv, DieInv DEF Next

(* However often the process is killed and started, whatever it writes and *)
(* whenever the period changes, storage opens a file that holds records    *)
(* only when there is no free number left.                                 *)
THEOREM FilesNotReusedEarly == Spec => []NoEarlyReuse
<1>1. FileInv => NoEarlyReuse
  BY DEF FileInv
<1> QED BY <1>1, FileInitInv, FileStepInv, PTL DEF Spec

-----------------------------------------------------------------------------
(* Until a file is written over, a record is appended to it whole, or cut  *)
(* off by the end of the process, which leaves the file for good.          *)
AtEnd == alive /\ fd_ # None /\ fd_ \notin reused =>
            pos = Size(fd_) /\ (Size(fd_) > 0 => Ends(files[fd_], Size(fd_)))
LeftAll == writing # None => left = writing.len
RecordInv == FileInv /\ AtEnd /\ LeftAll /\ saved \subseteq Record /\ FilesParseUntilReused /\ SavedStay

(* What an append leaves: the units of before, then those of the record.   *)
LEMMA Appended ==
  ASSUME NEW s \in Seq(Unit), NEW r \in Record, NEW n \in 1..r.len
  PROVE  LET t == Overwrite(s, Len(s), Units(r, n))
         IN /\ Len(t) = Len(s) + n
            /\ \A j \in 1..Len(s) : t[j] = s[j]
            /\ \A j \in (Len(s) + 1)..Len(t) : t[j] = [rec |-> r, i |-> j - Len(s)]
<1> DEFINE new == Units(r, n)
           t == Overwrite(s, Len(s), new)
           m == Max({Len(s), Len(s) + Len(new)})
<1>1. r.len \in Nat \ {0} /\ n \in Nat \ {0} /\ n <= r.len /\ Len(s) \in Nat
  <2>1. r.len \in RecordLen
    BY DEF Record
  <2>2. r.len \in Nat \ {0}
    BY <2>1, SizeAssumption
  <2> QED BY <2>2, LenProperties
<1>2. new \in Seq(Unit) /\ Len(new) = n /\ \A i \in 1..n : new[i] = [rec |-> r, i |-> i]
  <2>1. new \in [1..n -> Unit]
    BY <1>1 DEF Units, Unit
  <2> QED BY <1>1, <2>1, LengthOf DEF Units
<1> HIDE DEF new
<1>3. m = Len(s) + n
  BY <1>1, <1>2, MaxOfTwo
<1> HIDE DEF m
<1>4. t = [j \in 1..m |-> IF j > Len(s) /\ j <= Len(s) + Len(new) THEN new[j - Len(s)] ELSE s[j]]
  BY DEF Overwrite, m
<1>5. Len(t) = Len(s) + n
  <2>1. t \in Seq(Unit)
    BY <1>1, Overwritten DEF new
  <2>2. DOMAIN t = 1..m /\ DOMAIN t = 1..Len(t) /\ Len(t) \in Nat /\ m \in Nat
    BY <1>1, <1>3, <1>4, <2>1, LenProperties
  <2> QED BY <1>3, <2>2
<1> HIDE DEF t
<1>6. \A j \in 1..Len(s) : t[j] = s[j]
  BY <1>1, <1>2, <1>3, <1>4
<1>7. ASSUME NEW j \in (Len(s) + 1)..Len(t) PROVE t[j] = [rec |-> r, i |-> j - Len(s)]
  <2>1. j \in 1..m /\ j > Len(s) /\ j <= Len(s) + Len(new) /\ j - Len(s) \in 1..n
    BY <1>1, <1>2, <1>3, <1>5
  <2>2. t[j] = new[j - Len(s)]
    BY <1>4, <2>1
  <2> QED BY <1>2, <2>1, <2>2
<1> QED BY <1>5, <1>6, <1>7 DEF t, new

(* A file that ends with a whole record still parses with the start of one *)
(* more, and ends with a whole one again if all of that is there.          *)
LEMMA AppendParses ==
  ASSUME NEW s \in Seq(Unit), NEW r \in Record, NEW n \in 1..r.len,
         Parses(s), Len(s) > 0 => Ends(s, Len(s))
  PROVE  LET t == Overwrite(s, Len(s), Units(r, n))
         IN Parses(t) /\ Len(t) > 0 /\ (n = r.len => Ends(t, Len(t)) /\ Whole(r, t))
<1> DEFINE t == Overwrite(s, Len(s), Units(r, n))
<1>1. /\ Len(t) = Len(s) + n
      /\ \A j \in 1..Len(s) : t[j] = s[j]
      /\ \A j \in (Len(s) + 1)..Len(t) : t[j] = [rec |-> r, i |-> j - Len(s)]
  BY Appended
<1>2. n \in Nat \ {0} /\ r.len \in Nat /\ Len(s) \in Nat
  <2>1. r.len \in RecordLen
    BY DEF Record
  <2>2. r.len \in Nat \ {0}
    BY <2>1, SizeAssumption
  <2> QED BY <2>2, LenProperties
<1> HIDE DEF t
<1>3. Begins(t, 1)
  <2>1. CASE Len(s) = 0
    BY <2>1, <1>1, <1>2 DEF Begins
  <2>2. CASE Len(s) > 0
    <3>1. s # <<>> /\ 1 \in 1..Len(s)
      BY <2>2, <1>2
    <3> QED BY <3>1, <1>1 DEF Parses, Begins
  <2> QED BY <2>1, <2>2, <1>2
<1>4. ASSUME NEW j \in 1..(Len(t) - 1) PROVE Continues(t, j) \/ (Ends(t, j) /\ Begins(t, j + 1))
  <2>1. CASE j < Len(s)
    <3>1. t[j] = s[j] /\ t[j + 1] = s[j + 1] /\ j \in 1..(Len(s) - 1)
      BY <2>1, <1>1, <1>2
    <3> QED BY <3>1 DEF Parses, Continues, Ends, Begins
  <2>2. CASE j = Len(s)
    <3>1. t[j] = s[j] /\ t[j + 1] = [rec |-> r, i |-> 1] /\ Len(s) > 0
      <4>1. j \in 1..Len(s) /\ j + 1 \in (Len(s) + 1)..Len(t) /\ j + 1 - Len(s) = 1
        BY <2>2, <1>1, <1>2
      <4> QED BY <4>1, <1>1, <1>2
    <3> QED BY <3>1, <2>2 DEF Ends, Begins
  <2>3. CASE j > Len(s)
    <3>1. t[j] = [rec |-> r, i |-> j - Len(s)] /\ t[j + 1] = [rec |-> r, i |-> j + 1 - Len(s)]
      BY <2>3, <1>1, <1>2
    <3> QED BY <3>1, <1>2 DEF Continues
  <2> QED BY <2>1, <2>2, <2>3, <1>1, <1>2
<1>5. ASSUME n = r.len PROVE Ends(t, Len(t)) /\ Whole(r, t)
  <2>1. Ends(t, Len(t))
    <3>1. Len(t) \in (Len(s) + 1)..Len(t) /\ Len(t) - Len(s) = n
      BY <1>1, <1>2
    <3>2. t[Len(t)] = [rec |-> r, i |-> n]
      BY <1>1, <3>1
    <3> QED BY <3>2, <1>5 DEF Ends
  <2>2. Len(s) + 1 \in 1..(Len(t) - r.len + 1)
    BY <1>1, <1>2, <1>5
  <2>3. ASSUME NEW i \in 1..r.len PROVE t[Len(s) + 1 + i - 1] = [rec |-> r, i |-> i]
    <3>1. /\ Len(s) + 1 + i - 1 \in (Len(s) + 1)..Len(t)
          /\ Len(s) + 1 + i - 1 - Len(s) = i
      BY <1>1, <1>2, <1>5
    <3> QED BY <1>1, <3>1
  <2> QED BY <2>1, <2>2, <2>3 DEF Whole
<1> QED BY <1>1, <1>2, <1>3, <1>4, <1>5 DEF Parses, t

(* What is whole in a file stays whole when something is appended.         *)
LEMMA AppendKeeps ==
  ASSUME NEW s \in Seq(Unit), NEW r \in Record, NEW n \in 1..r.len, NEW x \in Record, Whole(x, s)
  PROVE  Whole(x, Overwrite(s, Len(s), Units(r, n)))
<1> DEFINE t == Overwrite(s, Len(s), Units(r, n))
<1>1. Len(t) = Len(s) + n /\ \A j \in 1..Len(s) : t[j] = s[j]
  BY Appended
<1>2. x.len \in Nat /\ r.len \in Nat /\ n \in Nat /\ Len(s) \in Nat
  <2>1. x.len \in RecordLen /\ r.len \in RecordLen
    BY DEF Record
  <2>2. x.len \in Nat /\ r.len \in Nat
    BY <2>1, SizeAssumption
  <2> QED BY <2>2, LenProperties
<1> HIDE DEF t
<1>3. PICK j \in 1..(Len(s) - x.len + 1) : \A i \in 1..x.len : s[j + i - 1] = [rec |-> x, i |-> i]
  BY DEF Whole
<1>4. j \in 1..(Len(t) - x.len + 1) /\ \A i \in 1..x.len : j + i - 1 \in 1..Len(s)
  BY <1>1, <1>2, <1>3
<1>5. \A i \in 1..x.len : t[j + i - 1] = [rec |-> x, i |-> i]
  BY <1>1, <1>3, <1>4
<1> QED BY <1>4, <1>5 DEF Whole, t

(* An append to the open file, whole or cut off, keeps what was promised.  *)
LEMMA PutKeeps ==
  ASSUME RecordInv, alive, writing # None, NEW n \in 1..writing.len, Put(n),
         reused' = reused, saved' \subseteq saved \cup {writing}, writing \in saved' \ saved => n = writing.len
  PROVE  /\ FilesParseUntilReused' /\ SavedStay'
         /\ fd_ \notin reused /\ n = writing.len =>
               pos' = Len(files'[fd_]) /\ Ends(files'[fd_], Len(files'[fd_]))
<1> DEFINE s == files[fd_]
           t == Overwrite(s, Len(s), Units(writing, n))
<1>1. /\ writing \in Record /\ fd_ # None /\ fd_ \in FileNo /\ s \in Seq(Unit)
      /\ files \in [FileNo -> Seq(Unit)] /\ saved \subseteq Record
  BY DEF RecordInv, FileInv, FileTypes, WriteTypes
<1>2. \A f \in FileNo : f # fd_ => files'[f] = files[f]
  BY <1>1 DEF Put
<1>3. CASE fd_ \in reused
  BY <1>2, <1>3 DEF RecordInv, FilesParseUntilReused, SavedStay
<1>4. CASE fd_ \notin reused
  <2>1. pos = Len(s) /\ (Len(s) > 0 => Ends(s, Len(s))) /\ Parses(s)
    BY <1>1, <1>4 DEF RecordInv, AtEnd, FilesParseUntilReused, Size
  <2>2. files'[fd_] = t /\ pos' = Len(s) + n
    BY <1>1, <2>1 DEF Put
  <2>3. Parses(t) /\ (n = writing.len => Ends(t, Len(t)) /\ Whole(writing, t))
    BY <1>1, <2>1, AppendParses
  <2>4. Len(t) = Len(s) + n
    BY <1>1, Appended
  <2> HIDE DEF s, t
  <2>5. FilesParseUntilReused'
    BY <1>2, <2>2, <2>3 DEF RecordInv, FilesParseUntilReused
  <2>6. ASSUME reused = {}, NEW x \in saved' PROVE \E f \in FileNo : Whole(x, files'[f])
    <3>1. CASE x \in saved
      <4>1. PICK f \in FileNo : Whole(x, files[f])
        BY <2>6, <3>1 DEF RecordInv, SavedStay
      <4>2. CASE f = fd_
        BY <4>1, <4>2, <1>1, <2>2, <3>1, AppendKeeps DEF s, t
      <4> QED BY <4>1, <4>2, <1>2
    <3>2. CASE x \notin saved
      BY <3>2, <2>2, <2>3, <1>1
    <3> QED BY <3>1, <3>2
  <2>7. SavedStay'
    BY <2>6 DEF SavedStay
  <2> QED BY <2>2, <2>3, <2>4, <2>5, <2>7
<1> QED BY <1>3, <1>4

LEMMA RecordStep == ASSUME ~ShortWrites PROVE RecordInv /\ [Next]_vars => RecordInv'
<1> SUFFICES ASSUME RecordInv, [Next]_vars PROVE RecordInv'
  OBVIOUS
<1>0. FileInv'
  BY FileStepInv DEF RecordInv
<1>1. CASE UNCHANGED vars \/ Hour
  <2>1. UNCHANGED <<files, reused, alive, fd_, pos, writing, left, saved>>
    BY <1>1 DEF vars, fileVars, Hour
  <2>2. AtEnd' /\ LeftAll'
    BY <2>1 DEF RecordInv, AtEnd, LeftAll, Size
  <2>3. FilesParseUntilReused' /\ SavedStay'
    BY <2>1 DEF RecordInv, FilesParseUntilReused, SavedStay
  <2> QED BY <1>0, <2>1, <2>2, <2>3 DEF RecordInv
<1>2. CASE Start
  BY <1>0, <1>2 DEF Start, RecordInv, AtEnd, LeftAll, FilesParseUntilReused, SavedStay
<1>3. CASE Write
  <2>1. UNCHANGED <<files, saved, alive>> /\ alive /\ left' = writing'.len
    BY <1>3 DEF Write
  <2>2. reused \subseteq reused'
    BY <1>3 DEF Write, SwitchFile, Open
  <2>3. FilesParseUntilReused' /\ SavedStay'
    BY <2>1, <2>2 DEF RecordInv, FilesParseUntilReused, SavedStay
  <2>4. AtEnd'
    <3>1. CASE UNCHANGED <<fileVars, reused>>
      BY <2>1, <3>1 DEF fileVars, RecordInv, AtEnd, Size
    <3>2. CASE Open((file_no_ + 1) % MaxNum)
      <4>1. fd_' \in FileNo \cup {None} /\ files \in [FileNo -> Seq(Unit)]
        BY <1>0 DEF RecordInv, FileInv, FileTypes
      <4>2. ASSUME fd_' # None, fd_' \notin reused' PROVE pos' = 0 /\ Len(files[fd_']) = 0
        BY <3>2, <4>1, <4>2, LenProperties DEF Open, Size
      <4> QED BY <2>1, <4>2 DEF AtEnd, Size
    <3> QED BY <1>3, <3>1, <3>2 DEF Write, SwitchFile
  <2> QED BY <1>0, <2>1, <2>3, <2>4 DEF RecordInv, LeftAll
<1>4. CASE WriteChunk
  <2>1. PICK n \in 1..writing.len : Put(n) /\ left' = (left - n + Wrap) % Wrap /\ n >= writing.len
    <3>1. writing.len \in Nat
      <4>1. writing \in Record
        BY <1>4 DEF WriteChunk, RecordInv, FileInv, WriteTypes
      <4>2. writing.len \in RecordLen
        BY <4>1 DEF Record
      <4> QED BY <4>2, SizeAssumption
    <3> QED BY <1>4, <3>1 DEF WriteChunk
  <2>2. n = writing.len /\ left = n /\ n \in Nat
    <3>1. writing \in Record /\ writing # None
      BY <1>4 DEF WriteChunk, RecordInv, FileInv, WriteTypes
    <3>2. writing.len \in RecordLen
      BY <3>1 DEF Record
    <3>3. writing.len \in Nat
      BY <3>2, SizeAssumption
    <3> QED BY <2>1, <3>1, <3>3 DEF RecordInv, LeftAll
  <2>3. left' = 0
    <3>1. left - n + Wrap = Wrap /\ Wrap \in Nat \ {0}
      BY <2>2, SizeAssumption
    <3>2. Wrap % Wrap = 0
      BY <3>1
    <3> QED BY <2>1, <3>1, <3>2
  <2>4. saved' = saved \cup {writing} /\ writing' = None /\ UNCHANGED <<reused, alive, fd_>> /\ alive /\ writing # None
    BY <1>4, <2>3 DEF WriteChunk
  <2>5. /\ FilesParseUntilReused' /\ SavedStay'
        /\ fd_ \notin reused => pos' = Len(files'[fd_]) /\ Ends(files'[fd_], Len(files'[fd_]))
    BY <2>1, <2>2, <2>4, PutKeeps
  <2>6. AtEnd'
    BY <2>4, <2>5 DEF AtEnd, Size
  <2>7. saved' \subseteq Record
    BY <2>4 DEF RecordInv, FileInv, WriteTypes
  <2> QED BY <1>0, <2>4, <2>5, <2>6, <2>7 DEF RecordInv, LeftAll
<1>5. CASE Die
  <2>1. ~alive' /\ alive /\ writing' = None /\ UNCHANGED <<reused, saved>>
    BY <1>5 DEF Die
  <2>2. CASE UNCHANGED <<files, pos>>
    BY <1>0, <2>1, <2>2 DEF RecordInv, AtEnd, LeftAll, FilesParseUntilReused, SavedStay
  <2>3. ASSUME writing # None, NEW n \in 1..(writing.len - 1), Put(n) PROVE RecordInv'
    <3>1. n \in 1..writing.len
      <4>1. writing \in Record
        BY <2>3 DEF RecordInv, FileInv, WriteTypes
      <4>2. writing.len \in RecordLen
        BY <4>1 DEF Record
      <4>3. writing.len \in Nat
        BY <4>2, SizeAssumption
      <4> QED BY <4>3
    <3>2. FilesParseUntilReused' /\ SavedStay'
      BY <2>1, <2>3, <3>1, PutKeeps
    <3> QED BY <1>0, <2>1, <3>2 DEF RecordInv, AtEnd, LeftAll
  <2> QED BY <1>5, <2>2, <2>3 DEF Die
<1> QED BY <1>1, <1>2, <1>3, <1>4, <1>5 DEF Next

LEMMA RecordInvariance == ASSUME ~ShortWrites PROVE Spec => []RecordInv
<1>1. Init => RecordInv
  <2>1. ASSUME Init PROVE FilesParseUntilReused
    BY <2>1 DEF Init, FilesParseUntilReused, Parses
  <2> QED BY <2>1, FileInitInv DEF Init, RecordInv, AtEnd, LeftAll, SavedStay
<1>2. RecordInv /\ [Next]_vars => RecordInv'
  BY RecordStep
<1> QED BY <1>1, <1>2, PTL DEF Spec

(* As long as write() takes all it is given, a record that was saved stays *)
(* whole through crashes and restarts until the numbers have gone round.   *)
THEOREM RecordsStayWhole == ASSUME ~ShortWrites PROVE Spec => []SavedStay
<1>1. RecordInv => SavedStay
  BY DEF RecordInv
<1> QED BY <1>1, RecordInvariance, PTL

(* As long as write() takes all it is given, a file that was never written *)
(* over is whole records but for a last one, cut off by the end of the     *)
(* process: who reads it from its start loses at most that one.            *)
THEOREM FilesAreRecords == ASSUME ~ShortWrites PROVE Spec => []FilesParseUntilReused
<1>1. RecordInv => FilesParseUntilReused
  BY DEF RecordInv
<1> QED BY <1>1, RecordInvariance, PTL

=============================================================================
