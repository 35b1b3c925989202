----------------------------- MODULE LineReader -----------------------------
(***************************************************************************)
(* load_file of io_ops.h, which the extractor reads its input with: a file *)
(* is read piece by piece into a buffer, the lines that are complete go to *)
(* a callback and the rest moves to the front.  read may give less than it *)
(* is asked for.  All that matters of a byte is its position in the file   *)
(* and whether it ends a line, or the string functions that look for the   *)
(* ends (a NUL); what is moved keeps its positions.                        *)
(***************************************************************************)
EXTENDS Naturals, Sequences

CONSTANTS
    LineBuf,        \* max_len
    MaxFile         \* bound: bytes of the file

ASSUME LineAssumption == LineBuf \in Nat \ {0} /\ MaxFile \in Nat

VARIABLES
    bytes,          \* the file: "text", "end" or "nul" at each position
    consumed,       \* how much of it was read: buf ends there
    pbegin,         \* the byte looked at, and the buffer's first one in "read"
    lines,          \* what the callback was given: first and last position
    reading         \* "read", "lines" or "eof"; "failed": open or read

lineVars == <<bytes, consumed, pbegin, lines, reading>>

-----------------------------------------------------------------------------
offset == consumed + 1 - pbegin

\* strspn and strpbrk, in what is read of the file up to c: both stop at a NUL
PastEnds(b, c) == CHOOSE q \in b..(c + 1) : /\ \A i \in b..(q - 1) : bytes[i] = "end"
                                            /\ q = c + 1 \/ bytes[q] # "end"
\* mutant: the piece's last byte ends a line
LineEndAlso(e) == (bytes[e] = "end" \/ e = consumed) /\ \A i \in pbegin..(e - 1) : bytes[i] = "text"
LineEnd(e) == bytes[e] = "end" /\ \A i \in pbegin..(e - 1) : bytes[i] = "text"

ReadPiece ==
    /\ reading = "read" /\ consumed < Len(bytes) /\ offset < LineBuf
    /\ \E n \in 1..(LineBuf - offset) :
          /\ consumed + n <= Len(bytes)
          /\ consumed' = consumed + n /\ pbegin' = PastEnds(pbegin, consumed + n)
    /\ reading' = "lines"
    /\ UNCHANGED <<bytes, lines>>

GiveLine ==
    /\ reading = "lines"
    /\ \E e \in pbegin..consumed :
          LineEnd(e) /\ lines' = Append(lines, <<pbegin, e - 1>>) /\ pbegin' = PastEnds(e + 1, consumed)
    /\ UNCHANGED <<bytes, consumed, reading>>

\* what is left of the piece is moved to the front
KeepRest ==
    /\ reading = "lines" /\ \A e \in pbegin..consumed : ~LineEnd(e)
    /\ reading' = "read"
    /\ UNCHANGED <<bytes, consumed, pbegin, lines>>

\* read gives 0: the end of the file, or no room for another byte
ReadNothing ==
    /\ reading = "read" /\ (consumed = Len(bytes) \/ offset = LineBuf)
    /\ reading' = "eof"
    /\ lines' = IF offset = 0 THEN lines ELSE Append(lines, <<pbegin, consumed>>)
    /\ UNCHANGED <<bytes, consumed, pbegin>>

\* what was read is given up
ReadFails ==
    /\ reading = "read"
    /\ reading' = "failed"
    /\ UNCHANGED <<bytes, consumed, pbegin, lines>>

LineInit ==
    /\ bytes \in UNION {[1..n -> {"text", "end", "nul"}] : n \in 0..MaxFile}
    /\ consumed = 0 /\ pbegin = 1 /\ lines = <<>> /\ reading = "read"
LineNext == ReadPiece \/ GiveLine \/ KeepRest \/ ReadNothing \/ ReadFails
LineSpec == LineInit /\ [][LineNext]_lineVars

-----------------------------------------------------------------------------
(* However the reads cut the file, the callback gets its lines, each whole *)
(* and once and in order, and at the end of the file all of them.  Two are *)
(* cut wrong, and each is the last that is given: a line that does not fit *)
(* the buffer, and one with a NUL, which what follows it is given with.    *)
AtTheEnd(i) == i = Len(lines) /\ reading = "eof"
Filled(i)   == AtTheEnd(i) /\ lines[i][2] - lines[i][1] + 1 = LineBuf
LinesWhole ==
    /\ \A i \in DOMAIN lines :
          /\ 1 <= lines[i][1] /\ lines[i][1] <= lines[i][2] /\ lines[i][2] <= Len(bytes)
          /\ \A k \in lines[i][1]..lines[i][2] :
                /\ bytes[k] = "nul" => AtTheEnd(i)
                /\ bytes[k] = "end" => \E j \in lines[i][1]..k : bytes[j] = "nul"
          /\ lines[i][1] = 1 \/ bytes[lines[i][1] - 1] = "end"
          /\ lines[i][2] = Len(bytes) \/ bytes[lines[i][2] + 1] = "end" \/ Filled(i)
          /\ Filled(i) \/ lines[i][2] - lines[i][1] + 1 < LineBuf
    /\ \A i, j \in DOMAIN lines : i < j => lines[i][2] < lines[j][1]
    /\ reading = "eof" =>
          \A k \in DOMAIN bytes : bytes[k] # "end" =>
              \E i \in DOMAIN lines : lines[i][1] <= k /\ (k <= lines[i][2] \/ Filled(i))
=============================================================================
