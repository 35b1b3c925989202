----------------------------- MODULE PageFiles -----------------------------
(***************************************************************************)
(* The data files of one storage thread (class storage): numbered files,   *)
(* a new one when the current one is big enough or a period has passed,    *)
(* number 0 again after the last, and the first unused number when the     *)
(* process starts.  The file system outlives the process, which may be     *)
(* killed at any moment, within a write too.                               *)
(*                                                                         *)
(* A file is a sequence of units; a unit tells the record it belongs to    *)
(* and its place in the record.  Each thread has a prefix of its own, so   *)
(* one thread is all there is.                                             *)
(***************************************************************************)
EXTENDS Integers, Sequences, FiniteSetsExt

CONSTANTS
    MaxNum,         \* FLAGS_STORE_file_max_num
    MaxSize,        \* FLAGS_STORE_file_max_size
    RecordLen,      \* the lengths of records, in units
    ShortWrites,    \* may ::write take less than it was given
    Wrap,           \* 2^64, where `left` of write() wraps
    None,           \* fd_ = -1; no record being written
    MaxRecords, MaxHours, MaxStarts     \* bounds

ASSUME SizeAssumption ==
    /\ MaxNum \in Nat \ {0} /\ MaxSize \in Nat \ {0} /\ RecordLen \in SUBSET (Nat \ {0})
    /\ ShortWrites \in BOOLEAN /\ Wrap \in Nat \ {0} /\ \A n \in RecordLen : n < Wrap
    /\ MaxRecords \in Nat /\ MaxHours \in Nat /\ MaxStarts \in Nat
ASSUME NoneAssumption == None \notin Int

VARIABLES
    files,          \* what each numbered file holds; <<>> also when there is none
    reused,         \* the files that were opened while they held something
    alive,          \* the process runs
    file_no_, fd_, pos, \* the current number, the open file, its offset
    last_hour,      \* last_switch_file_time_hour_
    now,            \* time(NULL) / FLAGS_STORE_file_swith_time_sec
    writing,        \* the record being written, or None
    left,           \* `left` of write()
    saved,          \* the records write() has returned 0 for
    records, starts \* how many so far

fileVars == <<file_no_, fd_, pos, last_hour>>
vars == <<files, reused, alive, fileVars, now, writing, left, saved, records, starts>>

FileNo == 0..(MaxNum - 1)
Record == [id: 1..MaxRecords, len: RecordLen, hour: 0..MaxHours]
Units(r, n) == [i \in 1..n |-> [rec |-> r, i |-> i]]
Size(f) == Len(files[f])

\* file f after `new` has been written at offset p
Overwrite(f, p, new) ==
    [j \in 1..Max({Len(f), p + Len(new)}) |->
        IF j > p /\ j <= p + Len(new) THEN new[j - p] ELSE f[j]]

-----------------------------------------------------------------------------
\* mutant: file_no_ is not set back to the current number
FirstFileNext == LET free == {n \in FileNo : Size(n) = 0}
                 IN IF free = {} THEN 0 ELSE Min(free)

\* init: the number before the first that is free, or before 0
FirstFile == LET free == {n \in FileNo : Size(n) = 0}
             IN (IF free = {} THEN 0 ELSE Min(free)) - 1

Start ==
    /\ ~alive /\ starts < MaxStarts
    /\ alive' = TRUE /\ starts' = starts + 1
    /\ file_no_' = FirstFile /\ fd_' = None /\ pos' = 0 /\ last_hour' = 0
    /\ UNCHANGED <<files, reused, now, writing, left, saved, records>>

Hour ==
    /\ now < MaxHours
    /\ now' = now + 1
    /\ UNCHANGED <<files, reused, alive, fileVars, writing, left, saved, records, starts>>

Outgrown == Size(fd_) >= MaxSize \/ (Size(fd_) > 0 /\ now # last_hour)

\* open has no O_TRUNC and starts at offset 0
Open(n) ==
    /\ file_no_' = n /\ fd_' = n /\ pos' = 0 /\ last_hour' = now
    /\ reused' = IF Size(n) > 0 THEN reused \cup {n} ELSE reused

SwitchFile ==
    IF fd_ = None \/ Outgrown
    THEN Open((file_no_ + 1) % MaxNum)
    ELSE UNCHANGED <<fileVars, reused>>

\* storage::write: switch_file, then write(fd_, buf, len) begins
Write ==
    /\ alive /\ writing = None /\ records < MaxRecords
    /\ records' = records + 1
    /\ \E n \in RecordLen :
          /\ writing' = [id |-> records + 1, len |-> n, hour |-> now]
          /\ left' = n
    /\ SwitchFile
    /\ UNCHANGED <<files, alive, now, saved, starts>>

\* mutant: the offset does not move
PutStill(n) ==
    /\ files' = [files EXCEPT ![fd_] = Overwrite(@, pos, Units(writing, n))]
    /\ pos' = pos

Put(n) ==
    /\ files' = [files EXCEPT ![fd_] = Overwrite(@, pos, Units(writing, n))]
    /\ pos' = pos + n

\* mutants: the record counts as saved before all of it is written
WriteChunkEarly ==
    /\ alive /\ writing # None
    /\ \E n \in 1..writing.len :
          /\ Put(n)
          /\ left' = 0 /\ saved' = saved \cup {writing} /\ writing' = None
    /\ UNCHANGED <<reused, alive, file_no_, fd_, last_hour, now, records, starts>>

\* one turn of the loop of write(): ::write(fd, buf, len), with buf and len
\* as they were; left is unsigned
WriteChunk ==
    /\ alive /\ writing # None
    /\ \E n \in 1..writing.len :
          /\ n < writing.len => ShortWrites
          /\ Put(n)
          /\ left' = (left - n + Wrap) % Wrap
    /\ IF left' = 0 THEN saved' = saved \cup {writing} /\ writing' = None
       ELSE UNCHANGED <<saved, writing>>
    /\ UNCHANGED <<reused, alive, file_no_, fd_, last_hour, now, records, starts>>

\* killed, or write() or open() has failed (exit, assert); a killed ::write
\* may have taken a part of what it was given
Die ==
    /\ alive /\ alive' = FALSE
    /\ writing' = None /\ left' = 0 /\ fd_' = None
    /\ \/ UNCHANGED <<files, pos>>
       \/ writing # None /\ \E n \in 1..(writing.len - 1) : Put(n)
    /\ UNCHANGED <<reused, file_no_, last_hour, now, saved, records, starts>>

Init ==
    /\ files = [n \in FileNo |-> <<>>] /\ reused = {}
    /\ alive = FALSE /\ file_no_ = -1 /\ fd_ = None /\ pos = 0 /\ last_hour = 0
    /\ now = 0 /\ writing = None /\ left = 0 /\ saved = {} /\ records = 0 /\ starts = 0

Next == Start \/ Hour \/ Write \/ WriteChunk \/ Die

Spec == Init /\ [][Next]_vars

-----------------------------------------------------------------------------
\* the unit at j and the next one are of one record, in order
Continues(s, j) == s[j + 1].rec = s[j].rec /\ s[j + 1].i = s[j].i + 1
Begins(s, j)    == s[j].i = 1
Ends(s, j)      == s[j].i = s[j].rec.len

(* A file is whole records, but for its last one, which may be cut off:    *)
(* who reads the file from its start loses at most that one.               *)
Parses(s) ==
    /\ s # <<>> => Begins(s, 1)
    /\ \A j \in 1..(Len(s) - 1) : Continues(s, j) \/ (Ends(s, j) /\ Begins(s, j + 1))

FilesParseUntilReused == \A f \in FileNo \ reused : Parses(files[f])

(* A record that was saved stays in its file, whole, through crashes and   *)
(* restarts, until the numbers have gone round.                            *)
Whole(r, s) == \E j \in 1..(Len(s) - r.len + 1) : \A i \in 1..r.len : s[j + i - 1] = [rec |-> r, i |-> i]
SavedStay == reused = {} => \A r \in saved : \E f \in FileNo : Whole(r, files[f])

(* No file is written over while a number is still free, however often the *)
(* process was restarted.                                                  *)
NoEarlyReuse == reused # {} => \A f \in FileNo : Size(f) > 0

=============================================================================
